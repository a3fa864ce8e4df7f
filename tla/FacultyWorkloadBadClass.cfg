SPECIFICATION Spec
CONSTANTS
    Classes = {c1, c2}
    p1 = p1
    Professors = {p1, p2}
    NoProfessor = NoProfessor
    Primary <- MCPrimary
    Requests = {r1}
    MaxSessions = 1
    MaxTokens = 0
    SingleWriter = TRUE
    Faults = {"block"}
PROPERTIES BadClassNeverBlocks
CHECK_DEADLOCK FALSE
