SPECIFICATION FairSpec
CONSTANTS
  Callers = {c1, c2}
  Probe = probe
  Nobody = nobody
  FailureThreshold = 2
  SuccessThreshold = 2
  HalfOpenMaxCalls = 2
  MaxCalls = 5
INVARIANTS ThresholdsActedOn HalfOpenUseBounded
PROPERTIES OpenIsLeft
CHECK_DEADLOCK FALSE
