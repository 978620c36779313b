SPECIFICATION Spec
CONSTANTS
    c1 = c1  c2 = c2  c3 = c3  r1 = r1  r2 = r2
    s1 = s1  s2 = s2  t1 = t1
    Nobody = Nobody
    Sessions = {s1, s2}
    Conversations = {c1, c2, c3}
    Requests = {r1, r2}
    ConvOf <- OneEach
    TenantOf <- OneTenant
    MaximumConversations = 2
    MaximumPending = 1
    MaximumRunning = 2
    MaximumRunningPerTenant = 1
    MaximumRuns = 1
    EventBudget = 3
    Outcomes = {"COMPLETED", "INTERRUPTED"}
SYMMETRY MCSymmetry
INVARIANTS WithinLimits NoDeadlock
PROPERTIES JournalSpec
CHECK_DEADLOCK FALSE
