CONSTANTS
  Crc <- Protocol_Crc16
  FramePayloads <- MCPayloads
  Noises <- MCNoises
  Tails <- MCTails
  OutBufCap = 20
  OutPayloadCap = 3

SPECIFICATION TransferSpec

INVARIANTS
  TransferTypeOK
  RoundTrip
  OnlyFirstIsStart
  EncodeFits
  StepsAgree

\* A frame that has been decoded, or refused, is the end of the story.
CHECK_DEADLOCK FALSE
