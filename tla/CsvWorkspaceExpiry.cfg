SPECIFICATION Spec
CONSTANTS
    t1 = t1  t2 = t2
    Tokens = {t1, t2}
    Ttl = 1
    MaximumSessions = 2
    MaxVersion = 1
    MaxCrashes = 0
    MaxFaults = 0
SYMMETRY MCSymmetry
INVARIANTS ExpiredCanBePruned
CHECK_DEADLOCK FALSE
