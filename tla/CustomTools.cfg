SPECIFICATION Spec
CONSTANTS
  Ids = {"a", "b"}
  Tools = {"t"}
  MaxInFlight = 2
  MaxOps = 3
  MaxCalls = 1
  MaxMoves = 1
INVARIANTS RightHandler NoPending
PROPERTIES CurrentAddress CallsAnswered
CHECK_DEADLOCK FALSE
