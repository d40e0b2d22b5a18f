SPECIFICATION FairSpec
CONSTANTS
  Workers = {w1, w2}
  Submitters = {s1, s2}
  Tasks = {t1, t2, t3}
  QueueCapacity = 2
  NoTask = NoTask
INVARIANTS
  TypeOK
  FifoNoLoss
  RunsOnce
  QueueBounded
  NoLostWakeup
  JoinedMeansDrained
PROPERTIES
  ImplementsTaskExecutor
  AcceptedTasksFinish
  ShutdownStopsWorkers
CHECK_DEADLOCK FALSE
