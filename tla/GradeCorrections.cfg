SPECIFICATION Spec
CONSTANTS
    Grades = {g1}
    NoGrade = NoGrade
    Values = {A, B}
    Requests = {r1, r2}
    MaxProposals = 3
    RowLocks = TRUE
    Faults = {"chain", "receipt", "readback", "commit", "crash"}
SYMMETRY Symmetric
INVARIANTS LockPaired MirrorMatchesChain OnlyMirroredExecute
PROPERTIES ClosedIsFinal
CHECK_DEADLOCK FALSE
