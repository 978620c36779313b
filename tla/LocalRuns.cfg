SPECIFICATION FairRetainedSpec
CONSTANTS
    c1 = c1  c2 = c2  r1 = r1  r2 = r2
    Conversations = {c1, c2}
    Requests = {r1, r2}
    ConvOf <- MCConvOf
    QueryEndpoint = TRUE
    MaximumConversations = 2
    MaximumActive = 2
    MaximumRuns = 2
    EventBudget = 3
    MaxStops = 3
    MaxFaults = 2
INVARIANTS JournalValid NoOrphan
PROPERTIES JournalSpec RetentionAsReviewed CancellationSettles RestartSettles
CHECK_DEADLOCK FALSE
