SPECIFICATION Spec
CONSTANTS
  cc = cc
  fleet = fleet
  Procs = {cc, fleet}
  Readers = {cc}
  DCA_MAX_FILES = 1
  Widths <- EventWidths
  LastDay = 3
  MaxRecords = 4
  MaxFaults = 1
INVARIANTS TypeOK 
PROPERTIES Snapshot  WeekKept
CHECK_DEADLOCK FALSE
