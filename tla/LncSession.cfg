SPECIFICATION Spec
CONSTANTS
  StartTime = 10
  MaxTicks = 1
  MaxTelemetry = 2
  MaxDrops = 1
  MaxRefusals = 1
  MaxFaults = 2
INVARIANTS TypeOK TelemetryStored
PROPERTIES SyncedIsTrue GetsToStreaming
CHECK_DEADLOCK FALSE
