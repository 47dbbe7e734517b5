SPECIFICATION Spec
CONSTANTS
  first = first
  second = second
  Clients = {first, second}
  Sizes <- MCSizes
  StatusSize = 4
  GS_RESP_MAX_PAYLOAD = 18
  Wrap = 32
  MaxRecords = 4
  MaxKills = 1
INVARIANTS TypeOK PrintsRecords
 
CHECK_DEADLOCK FALSE
