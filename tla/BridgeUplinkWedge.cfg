CONSTANTS
  Crc <- MCCrc
  Payloads <- LongPayloads
  RxBufSize = 12
  PayloadCap = 12
  LineNoise <- QuietLine
  BadBytes = {}
  MaxFrames = 1
  MaxFaults = 0

SPECIFICATION UplinkSpec

INVARIANTS
  WaitingHasRoom
