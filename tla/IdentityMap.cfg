SPECIFICATION MCSpec
CONSTANTS
  PAGE_SIZE = 2
  W = 32
  MemoryMaps <- Maps
  SectionTables <- Kernels
  Tags <- TagOrders
  SHORT = 64
  INT = 512
  LONG = 4096
  LLONG = 4096
  CharSet <- Letters
  Layouts <- SomeLayouts
  GIB = 18
  ENTRIES = 2
  BYTE = 6
  SIZE = 128
  UINT = 64
  Cpus <- AllCpus
  TestCalls <- Tests
  MaxTests = 1
  Buffers <- StringBuffers
INVARIANT IdentityMapped
CHECK_DEADLOCK FALSE
