SPECIFICATION Spec
CONSTANTS
  Budget <- FifteenSeconds
  Attempt <- SevenSeconds
  Wait = 1
  MaxAttempts = 3
  WriteTimeout <- FifteenSeconds
  MaxCalls = 3
INVARIANTS
  AnswersInTime
CHECK_DEADLOCK FALSE
