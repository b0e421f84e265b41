SPECIFICATION Spec
CONSTANTS
  BufLen = 6
  DataOff = 2
  Bytes = {0, 1}
  MaxArg = 7
CHECK_DEADLOCK FALSE
INVARIANTS
  TypeOK
  FitsBuffer
PROPERTIES
  OutsideIntact
  IsByteBuffer
