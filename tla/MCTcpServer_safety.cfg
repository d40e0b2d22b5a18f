\* One worker with two clients (a reused descriptor number, partial sends) and
\* two workers with one client (failures, drains and exits in any order).
SPECIFICATION Spec
CONSTANTS
  Workers = {w1, w2}
  Clients = {c1, c2}
  PoolThreads = {p1}
  MaxFd = 5
  QueueCapacity = 1
  MaxOutbound = 2
  ResponseSizes = {2}
  SendBuffer = 1
  MaxChunks = 1
  NoConn = NoConn
  NoJob = NoJob
SYMMETRY Symmetry
CONSTRAINT FewActors
INVARIANTS
  TypeOK
  RepliesGoToRequester
  OutstandingIsExact
  GaugeIsExact
  NoLostCompletion
  ExitLeavesNothing
  ReturnReleasesAll
CHECK_DEADLOCK FALSE
