SPECIFICATION FairSpec
CONSTANTS
  Nodes = {a, b, c}
  MaxSwitches = 1
INVARIANTS FailFastContains SuccessCoversGraph
PROPERTIES KeepsContract
CHECK_DEADLOCK FALSE
