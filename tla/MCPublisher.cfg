SPECIFICATION Spec
CONSTANTS
    u1 = u1
    u2 = u2
    Users = {u1, u2}
    PoolSize = 2
    MaxRetry = 1
    MaxDrops = 2
    Kinds <- Calls
INVARIANTS StateIsTrue StandstillNeedsStale PublishOutcome
 
CHECK_DEADLOCK FALSE
