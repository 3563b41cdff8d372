SPECIFICATION Spec
CONSTANTS
  URL = {u1}
  Code = {1}
  Legacy = {}
  Fold <- CaseSensitive
  Slave = {s1}
  Replica = {n1}
  BatchSize = 1
  Faults = {"redis", "failover"}
  Expiring = {}
  Pod = {p1}
  Consumer = {p1}
  Creator = {k1}
  Reader = {r1}
  MaxAttempts = 2
INVARIANTS  NotFoundOnlyIfEarly
 
