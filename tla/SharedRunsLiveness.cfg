SPECIFICATION FairSpec
CONSTANTS
    c1 = c1  r1 = r1  r2 = r2
    w1 = w1  w2 = w2  b1 = b1  t1 = t1
    NoWorker = NoWorker
    Conversations = {c1}
    Requests = {r1}
    Workers = {w1, w2}
    Bindings = {b1}
    ConvOf <- PairConvOf
    TenantOf <- OneTenant
    BindingOf <- SameBinding
    BindingFor <- RequestBinding
    LeaseTicks = 1
    GrantTicks = 2
    MaximumConversations = 1
    MaximumPending = 1
    MaximumRunning = 1
    MaximumRunningPerTenant = 1
    MaximumActive = 1
    MaximumRuns = 1
    EventBudget = 3
    MaxStops = 1
PROPERTIES EveryRunSettles OrphanWorkStops
CHECK_DEADLOCK FALSE
