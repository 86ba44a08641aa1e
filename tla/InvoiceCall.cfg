SPECIFICATION FairSpec
CONSTANTS
  Budget <- FifteenSeconds
  Attempt <- SevenSeconds
  Wait = 1
  MaxAttempts = 3
  WriteTimeout <- FifteenSeconds
  MaxCalls = 3
INVARIANTS
  TypeOK
  OneInvoice
  RetryableMintedNothing
  WholeAttempts
  InBudget
PROPERTIES
  CallReturns
CHECK_DEADLOCK FALSE
