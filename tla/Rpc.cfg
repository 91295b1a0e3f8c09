SPECIFICATION Spec
CONSTANTS
  Scenarios <- AllScenarios
  MaxRetries = 1
INVARIANTS TypeOK AtMostOnce Truthful CloudKeyed RoutedAsAsked ErrorsKept AnswerKept
PROPERTY CallReturns
CHECK_DEADLOCK FALSE
