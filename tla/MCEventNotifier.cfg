SPECIFICATION FairSpec
CONSTANTS
  e1 = e1
  e2 = e2
  h1 = h1
  h2 = h2
  Events = {e1, e2}
  Hooks = {h1, h2}
  Matching <- TwoAndOne
  QueueSize = 1
  WorkerCount = 1
  BatchSize = 2
  DeadLetterLimit = 1
  MaxRetries = 1
  MaxExtras = 1
INVARIANTS NothingVanishes 
PROPERTIES AcceptedSettles
CHECK_DEADLOCK FALSE
