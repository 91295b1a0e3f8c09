SPECIFICATION Spec
CONSTANTS
  Ids = {"a"}
  Tools = {"t"}
  MaxInFlight = 1
  MaxOps = 2
  MaxCalls = 1
  MaxMoves = 0
INVARIANT TextResults
CHECK_DEADLOCK FALSE
