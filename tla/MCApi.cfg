SPECIFICATION Spec
CONSTANTS
    Chains <- BucketChains
    Slots = {x1, x2}
    Burst = 1
    Rate = 1
    Interval = 1
    Limit = 2
    Window = 1
    MaxTime = 3
    MaxRequests = 3
    MaxCounted = 6
    Requests = {q1, q2}
    Contexts = {c1, c2}
INVARIANTS AdmitsWithinLimits 
PROPERTIES RequestsReturn
CHECK_DEADLOCK FALSE
