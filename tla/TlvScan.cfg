SPECIFICATION ScanSpec
CONSTANTS
  Base = 4
  FieldLists <- MCFieldLists
  Tails <- ModestTails
  Tags <- MCTags
INVARIANTS ScanTypeOK FindsFirst
PROPERTIES Completes
CHECK_DEADLOCK FALSE
