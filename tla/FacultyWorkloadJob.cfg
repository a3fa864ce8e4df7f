SPECIFICATION FairSpec
CONSTANTS
    Classes = {c1, c2}
    p1 = p1
    Professors = {p1, p2}
    NoProfessor = NoProfessor
    Primary <- MCPrimary
    Requests = {r1}
    MaxSessions = 1
    MaxTokens = 0
    SingleWriter = TRUE
    Faults = {"chain", "receipt", "block", "commit", "crash"}
PROPERTIES LedgerSpec OverdueIsAnchored
CHECK_DEADLOCK FALSE
