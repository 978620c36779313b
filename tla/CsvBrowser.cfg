SPECIFICATION BrowserSpec
CONSTANTS
    t1 = t1  t2 = t2
    Tokens = {t1, t2}
    Ttl = 1
    MaximumSessions = 1
    MaxVersion = 1
    MaxCrashes = 1
    MaxFaults = 1
    MaxAsks = 2
    MaxEvents = 2
CONSTRAINT MCBounds
SYMMETRY MCSymmetry
INVARIANTS RunKeepsConversation IdleIsDurable WithinCapacity
INVARIANTS AskedOnce ShownIsHistory
CHECK_DEADLOCK FALSE
