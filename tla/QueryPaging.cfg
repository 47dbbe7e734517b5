SPECIFICATION Spec
CONSTANTS
  Ranges <- MCRanges
  PageSize = 2
  PollLimit = 2
  MaxRecords = 3
  MaxTelemetry = 2
  MaxQueries = 2
  MaxDrops = 1
  MaxFaults = 1
INVARIANTS TypeOK PagesInOrder TelemetryStored
PROPERTIES QueryEnds
CHECK_DEADLOCK FALSE
