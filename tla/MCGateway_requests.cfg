SPECIFICATION Spec
CONSTANTS
  r1 = r1
  r2 = r2
  r3 = r3
  a1 = a1
  a2 = a2
  Requests = {r1, r2, r3}
  Addresses = {a1, a2}
  Workers = {w1}
  Threads = {t1, t2}
  CommandLines <- MCCommandLines
  Unit = 2
  DefaultCount = 3
  MaximumCount = 3
  MaxTime = 1
INVARIANTS
  ConfigurationSettled
  LogHoldsAcknowledged
  RecentSeesConfirmed
  NothingUncounted
  ScrapeConsistent
PROPERTIES
  ImplementsWindowLimiter
  EveryRequestAnswered
CHECK_DEADLOCK FALSE
