SPECIFICATION DownlinkSpec
CONSTANTS
  Crc <- MCCrc
  DownPayloads <- MCDownPayloads
  UpPayloads <- MCUpPayloads
  RecvBufSize = 8
  MaxLen = 6
  SendRoom = 13
  MaxConns = 2
  MaxDown = 2
  MaxUp = 2
  FramedSize = 20
  LncCap = 4
  MaxCuts = 1
  Cuts = {4}
INVARIANTS TypeOK DownInOrder UpInOrder LncGetsWhatWasSent
PROPERTIES ClosedOnlyIfCoreLeft ClientIsServed
CHECK_DEADLOCK FALSE
