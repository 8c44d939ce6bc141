SPECIFICATION DeliveriesSpec
CONSTANTS
    HookIds = {h1, h2}
    EventTypes = {e1}
    EventLists <- Lists
    MaxCalls = 3
    Deliveries = {1, 2, 3}
    MaxHistory = 1
    Workers = {w1, w2}
    MaxAttempts = 2
    HookRetries = 2
    TaskRetries = 1
INVARIANT RoutesFollowWebhooks HistoryTellsOutcomes PagesPartition
PROPERTY DeliveriesEnd
CHECK_DEADLOCK FALSE
