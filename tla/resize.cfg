CONSTANTS
  NrCh = 3
  Source <- MCOutputOnly
  CmdCap = 4
  StreamCap = 2
  WireCap = 1
  MaxMsg = 3
  SzHdr = 1
  SzData = 1
  SzLz4 = 2
  SzWindow = 2
  SzClose = 1
  SzControl <- MCSzControl
  ControlArgs = {0, 1, 2}
  U32Max = 4
  Compress = FALSE
  MinCompress = 3
  MaxBlock = 8
  MaxBytes = 1
  Pty = TRUE
  Ctty = TRUE
  Statuses = {1}
  MaxWinch = 2
  Faults = {}
SPECIFICATION MCSpec
INVARIANT ResizeNotLost
