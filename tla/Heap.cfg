SPECIFICATION HeapSpec
CONSTANTS
  Kinds = {"kernel", "program"}
  Len4 = 29
  LockBytes = 8
  CountDown = 2
  SizeW = 128
  Asks = {4, 12, 127}
  Value = 4
  MaxCalls = 7
  
PROPERTIES  FailsOnlyWithoutRoom
CHECK_DEADLOCK FALSE
