CONSTANTS
  Crc <- MCCrc
  Payloads <- MCPayloads
  RxBufSize = 12
  PayloadCap = 12
  LineNoise <- NoisyLine
  BadBytes <- MCBadBytes
  MaxFrames = 2
  MaxFaults = 1

SPECIFICATION UplinkSpec

INVARIANTS
  UplinkTypeOK
  WaitingHasRoom

PROPERTIES
  PipeSpec
