SPECIFICATION FairSpec
CONSTANTS
    Students = {s1}
    MaxConnects = 3
INVARIANTS CaughtUp
PROPERTIES CheckInShown EndReachesView
CHECK_DEADLOCK FALSE
