SPECIFICATION Spec
CONSTANTS
  BUFF_SIZE = 3
  Buff = 5
  MaxLen = 2
  MaxBytes = 4
  CallerIF <- Open
  None = None
INVARIANT InterruptsOffInBuffer
CHECK_DEADLOCK FALSE
