SPECIFICATION FleetSpec
CONSTANTS
  a = a
  b = b
  c = c
  Serials = {a, b, c}
  MaxMessages = 1
SYMMETRY Alike
INVARIANTS FleetTypeOK Mutual ParticipantsAssigned ConnectedOnMission
CHECK_DEADLOCK FALSE
