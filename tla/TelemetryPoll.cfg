SPECIFICATION Spec
CONSTANTS
  Lens = {1, 2}
  MaxLen = 2
  PollLimit = 2
  MaxConns = 2
  MaxSent = 3
INVARIANTS TypeOK LatestOfThisMission ReadsInStep
CHECK_DEADLOCK FALSE
