CONSTANTS
  Transfers = {1, 2}
  Options <- MCOptions
  Chunk = 1
  MaxSize = 3
  MaxFaults = 1
  Torn = TRUE
  Hole = Hole
SPECIFICATION XferSpec
CHECK_DEADLOCK FALSE
INVARIANT NeverPartial
