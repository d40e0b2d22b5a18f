SPECIFICATION FairSpec
CONSTANTS
  Workers = {w1}
  Clients = {c1}
  PoolThreads = {p1}
  MaxFd = 3
  QueueCapacity = 1
  MaxOutbound = 2
  ResponseSizes = {2, 4}
  SendBuffer = 1
  MaxChunks = 2
  NoConn = NoConn
  NoJob = NoJob
INVARIANTS
  InFlightIsOwed
  NoStalledConnection
PROPERTIES
  ShutdownEnds
  InFlightEnds
CHECK_DEADLOCK FALSE
