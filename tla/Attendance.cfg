SPECIFICATION FairSpec
CONSTANTS
    Classes = {c1}
    Students = {s1}
    Requests = {r1, r2}
    MaxSessions = 2
    MaxRotations = 1
    Faults = {"chain", "receipt", "block", "commit", "crash"}
INVARIANTS LockedOnce RosterIsAnchored MirroredByOne NewestSessionLive
PROPERTIES ClosedForGood SettledIsFinal RotationKeepsUp
CHECK_DEADLOCK FALSE
