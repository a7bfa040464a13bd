CONSTANTS
  Heap = 10
  Tries = 2
  MaxCalls = 4
SPECIFICATION FairSpec
INVARIANTS TypeOK OwnAnswer MemoryLost
PROPERTIES CallReturns
CHECK_DEADLOCK FALSE
