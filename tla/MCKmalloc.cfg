SPECIFICATION Spec
CONSTANTS
  PageUnits = 4
  MaxSize <- TwoPools
  HeapPages = 4
  Requests = {0, 1, 3, 4}
  SizeMod = 32
  NULL = NULL
  Junk = Junk
INVARIANTS TypeOK ListsMatchMemory AvailCovered NothingOverlaps HeadersIntact
PROPERTY ImplementsPromise
CHECK_DEADLOCK FALSE
