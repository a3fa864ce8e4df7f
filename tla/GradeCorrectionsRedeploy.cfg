SPECIFICATION Spec
CONSTANTS
    Grades = {g1, g2}
    NoGrade = NoGrade
    Values = {A, B}
    Requests = {r1, r2}
    MaxProposals = 2
    RowLocks = TRUE
    Faults = {"event", "readback", "commit", "redeploy"}
SYMMETRY Symmetric
INVARIANTS PendingHoldsLock PendingIsCurrent LocksAreDistinct
PROPERTIES LocksSettledByDecision ClosedNeverRevives GradeChangeIsSigned
CHECK_DEADLOCK FALSE
