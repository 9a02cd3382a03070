CONSTANTS
  NrCh = 4
  Source <- MCSource
  CmdCap = 4
  StreamCap = 1
  WireCap = 1
  MaxMsg = 3
  SzHdr = 1
  SzData = 1
  SzLz4 = 2
  SzWindow = 2
  SzClose = 1
  SzControl <- MCSzControl
  ControlArgs = {0, 1}
  U32Max = 4
  Compress = FALSE
  MinCompress = 3
  MaxBlock = 8
  MaxBytes = 1
  Pty = FALSE
  Ctty = TRUE
  Statuses = {1}
  MaxWinch = 0
  Faults = {"kill"}
SPECIFICATION MCUnreadStdinSpec
PROPERTY KilledOnLocalExit
