CONSTANTS
  Transfers = {1, 2}
  Options <- MCOptions
  Chunk = 1
  MaxSize = 3
  MaxFaults = 1
  Torn = FALSE
  Hole = Hole
  Classes = {"ints", "main", "late"}
  Name <- MCName
  Sig <- MCSig
  Loader <- MCLoader
  System = {"ints", "main"}
  CacheMax = 2
  DisposeBatch = 1
  IdMod = 7
  FirstId = 1
  MaxEvents = 1
  MaxCmds = 2
  MaxUnloads = 1
SPECIFICATION MCSpec
CHECK_DEADLOCK FALSE
INVARIANTS NeverPartial SuccessIsWhole FailureCleansUp PacketsInOrder RepliesMatch NamesSound ReferencesHeld
PROPERTIES MCTransferEnds Answered
