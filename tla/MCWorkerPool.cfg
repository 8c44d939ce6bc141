SPECIFICATION MCSpec
CONSTANTS
  Tasks = {t1, t2, t3}
  NoTask = noTask
  NilEnvelope = {t3}
  MinWorkers = 1
  MaxWorkers = 2
  QueueLength = 2
  UpPercent = 50
  DownPercent = 25
  MaxStarts = 2
  MaxSeq = 5
  m1 = m1
  m2 = m2
  Messages = {m1, m2}
  NoMessage = noMessage
  UnknownKey = {m2}
  Queues = {"a", "b"}
  HomeQueue <- Homes
  Concurrency = 1
  PrefetchCount = 1
  Slots = {1, 2, 3, 4}
  MaxDials = 2
INVARIANTS ScaleIsSafe QueuesAreServed
PROPERTIES AcceptedIsExecuted
CHECK_DEADLOCK FALSE
