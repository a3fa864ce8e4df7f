SPECIFICATION Spec
CONSTANTS
    Grades = {g1}
    NoGrade = NoGrade
    Values = {A, B}
    Requests = {r1, r2}
    MaxProposals = 1
    RowLocks = TRUE
    Faults = {"receipt"}
INVARIANTS RejectedStaysPending
CHECK_DEADLOCK FALSE
