SPECIFICATION FairSpec
CONSTANTS
  URL = {u1}
  Code = {1}
  Legacy = {1}
  Fold <- CaseSensitive
  Slave = {}
  Replica = {}
  BatchSize = 1
  Faults = {"db"}
  Expiring = {"link", "l1"}
  Pod = {p1}
  Consumer = {}
  Creator = {k1}
  Reader = {r1, r2}
  MaxAttempts = 1

INVARIANTS CallsHaveWaiters
PROPERTIES EveryRequestAnswered 
