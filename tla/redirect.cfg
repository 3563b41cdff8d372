SPECIFICATION Spec
CONSTANTS
  URL = {u1}
  Code = {1}
  Legacy = {1}
  Fold <- CaseSensitive
  Slave = {}
  Replica = {}
  BatchSize = 1
  Faults = {"redis", "restart"}
  Expiring = {"link", "l1"}
  Pod = {p1, p2}
  Consumer = {}
  Creator = {k1}
  Reader = {r1}
  MaxAttempts = 1
SYMMETRY PodAndClients
INVARIANTS NotFoundOnlyIfEarly
