CONSTANTS
  Byte = {0, 1}
  Bits = 3
  Requested = 3
  BufSz = 4
  MaxHello = 1
  MaxData = 3
  MaxRead = 2
  IdSizes <- MCIdSizes
  Pad = Pad
  MaxClasses = 1
  Top = Top
  Lists = {l1, l2, l3}
  Cleanups = {c1, c2}
  MaxFrames = 3
SPECIFICATION MCSpec
CHECK_DEADLOCK FALSE
INVARIANTS Transparent Rewritten OwnedOnce NothingLeaks KeepsOuter
PROPERTY IsFifo
