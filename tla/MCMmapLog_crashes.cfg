SPECIFICATION MCSpec
CONSTANTS
  Ids = {a, b}
  Sizes = {1, 2}
  SegmentUnits = 3
  MaxSegments = 2
  RecentCapacity = 2
  NoMessage = NoMessage
SYMMETRY Symmetry
INVARIANTS
  TypeOK
  MemoryMatchesFiles
  OnlyHeaderBlocksRestart
PROPERTIES
  ImplementsDurableLog
CHECK_DEADLOCK FALSE
