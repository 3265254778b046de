SPECIFICATION FairSpec
CONSTANTS
  BUFF_SIZE = 3
  Buff = 7
  MaxLen = 3
  MaxBytes = 6
  CallerIF <- Masked
  None = None
INVARIANTS TypeOK AcceptedBytesKept NeverReordered
PROPERTIES EveryByteSent
CHECK_DEADLOCK FALSE
