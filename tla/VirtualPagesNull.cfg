SPECIFICATION Spec
CONSTANTS
  Entries = 2
  HeapBase = 8
  HeapPages = 3
  MaxRange = 2
  f1 = f1 f2 = f2 f3 = f3 f4 = f4 f5 = f5 f6 = f6 l4 = l4
  Usable <- AllFrames
  L4Table <- l4
  NULL = NULL
SYMMETRY Symmetry
INVARIANT NullIsNeverUsed
CHECK_DEADLOCK FALSE
