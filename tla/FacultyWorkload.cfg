SPECIFICATION Spec
CONSTANTS
    Classes = {c1}
    p1 = p1
    Professors = {p1, p2, p3}
    NoProfessor = NoProfessor
    Primary <- MCPrimary
    Requests = {r1, r2}
    MaxSessions = 2
    MaxTokens = 1
    SingleWriter = FALSE
    Faults = {"chain", "receipt", "block", "commit", "crash"}
SYMMETRY Symmetric
INVARIANTS LogMatchesLedger OneLogPerClass ConductorAuthorised OutcomeJustified NewestSessionLive
CHECK_DEADLOCK FALSE
