CONSTANTS
  BufSz = 3
  MaxHello = 3
  MaxData = 1
  MaxRead = 1
SPECIFICATION EncSpec
INVARIANTS BinaryClean
