CONSTANTS
  NrCh = 3
  Source <- MCOutputOnly
  CmdCap = 4
  StreamCap = 4
  WireCap = 1
  MaxMsg = 4
  SzHdr = 1
  SzData = 1
  SzLz4 = 2
  SzWindow = 2
  SzClose = 1
  SzControl <- MCSzControl
  ControlArgs = {0, 1}
  U32Max = 5
  Compress = TRUE
  MinCompress = 3
  MaxBlock = 8
  MaxBytes = 5
  Pty = FALSE
  Ctty = TRUE
  Statuses = {1}
  MaxWinch = 0
  Faults = {"retry", "cut", "kill"}
SPECIFICATION MCFlowSpec
INVARIANTS NoProtocolError WithinCapacity InOrder FlowControl EofAfterData LostOnlyIfCut StatusAfterOutput
