SPECIFICATION MCSpec
CONSTANTS
  EXTERNAL_INT_BASE = 32
  EXTERNAL_INT_CNT = 16
  LINES_PER_PIC = 8
  PIC1_CASCADE_LINE = 2
  PF_INT_NUM = 14
  Drivers <- DriverLines
  Devices = {0, 1, 9, 12}
  Calls = {1, 2, 9}
  MaxRequests = 2
  External = {33, 36}
  MayRaise <- ExceptionsOf
  Returning = {14}
  StackWords = 40
PROPERTY FaultTransparent
CHECK_DEADLOCK FALSE
