SPECIFICATION FairSpec
CONSTANTS
  Msg = {1}
  Worker = {w1, w2}
  MaxRetry = 3
  BatchSize = 2
  MaxCopies = 2
  Faults = {"db", "crash", "conn", "slow", "redis"}
INVARIANTS TypeOK SentNotLost RetryBudget
PROPERTIES TerminalStable EventuallySettled
