SPECIFICATION Spec
CONSTANTS
  StartTime = 10
  MaxTicks = 0
  MaxTelemetry = 0
  MaxDrops = 1
  MaxRefusals = 0
  MaxFaults = 0
INVARIANTS SetOnEveryConnection
CHECK_DEADLOCK FALSE
