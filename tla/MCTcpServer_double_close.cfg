SPECIFICATION Spec
CONSTANTS
  Workers = {w1, w2}
  Clients = {c1, c2}
  PoolThreads = {p1}
  MaxFd = 6
  QueueCapacity = 1
  MaxOutbound = 2
  ResponseSizes = {1}
  SendBuffer = 1
  MaxChunks = 0
  NoConn = NoConn
  NoJob = NoJob
INVARIANT
  SocketsAreThreadConfined
CHECK_DEADLOCK FALSE
