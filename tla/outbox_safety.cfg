SPECIFICATION Spec
CONSTANTS
  Msg = {1, 2}
  Worker = {w1, w2}
  MaxRetry = 1
  BatchSize = 2
  MaxCopies = 1
  Faults = {"db", "crash", "slow", "redis"}
SYMMETRY Workers
PROPERTIES LiveClaimRespected ImplementsMailbox
