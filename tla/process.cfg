CONSTANTS
  Ttys = {A, B}
  TtyHead = TtyHead
  Nil = Nil
  Splits = {TRUE, FALSE}
  Kids = {k1, k2}
  Recorders = {k1}
  Pids = {1, 2}
  PipeCap = 1
  MaxOutput = 2
  MaxDepth = 2
  Clients = {"c1", "c2"}
  Commands = {"d"}
  Ver <- MCVer
  NoFile = "no file"
  Empty = "empty"
  MaxFailures = 1
SPECIFICATION MCSpec
INVARIANTS TerminalsKept NoStranger Recorded OneDaemon AloneGetsDaemon NobodyStranded
PROPERTIES WaitsEnd IoEnds
