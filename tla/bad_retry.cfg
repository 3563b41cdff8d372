SPECIFICATION Spec
CHECK_DEADLOCK FALSE
CONSTANTS
  Msg = {1}
  Worker = {w1}
  MaxRetry = 3
  BatchSize = 2
  MaxCopies = 2
  Faults = {"conn"}
INVARIANTS FailedOnlyAfterMaxRetry
