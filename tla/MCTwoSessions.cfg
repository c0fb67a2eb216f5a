SPECIFICATION Spec
CONSTANTS
    Sessions = {s1, s2}
    Threads = {t1}
    Nobody = Nobody
    Stored = {t1}
    Fuel = 4
    Events = 0
    ListLimit = 20
INVARIANTS
    OneSessionPerThread
CHECK_DEADLOCK FALSE
