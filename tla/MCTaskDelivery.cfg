SPECIFICATION FairSpec
CONSTANTS
  Msgs = {m1, m2}
  Workers = {w1, w2}
  NoMsg = noMsg
  Poison = {m2}
  Prefetch = 2
  MaxRetry = 1
  RequeueOnFail = TRUE
  HandlerConfigs <- BothConfigs
  TaskKinds <- Kinds
  MaxRestarts = 1
  ExtraQueues = {"tasks.dlq"}
INVARIANTS NoDuplicateWhileHealthy  AckMeansDone
PROPERTIES DeadChannelStopsWorkers
CHECK_DEADLOCK FALSE
