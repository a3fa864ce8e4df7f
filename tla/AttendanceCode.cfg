SPECIFICATION Spec
CONSTANTS
    Counters = {pair, student}
    CodeOnly = {student}
    Threads = {t1, t2}
    MaxWrong = 5
    Faults = {"redis", "crash"}
INVARIANTS GuessesBounded
PROPERTIES MissIsCounted
CHECK_DEADLOCK FALSE
