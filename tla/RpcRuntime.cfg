SPECIFICATION Spec
CONSTANTS
  Scenarios <- RunCalls
  MaxRetries = 0
INVARIANT RuntimeHonoured
CHECK_DEADLOCK FALSE
