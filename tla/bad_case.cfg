SPECIFICATION Spec
CONSTANTS
  URL = {u1}
  Code = {1, 2}
  Legacy = {1}
  Fold <- CaseInsensitive
  Slave = {}
  Replica = {}
  BatchSize = 1
  Faults = {}
  Expiring = {"link", "hash", "l1", "hashL1"}
  Pod = {p1}
  Consumer = {}
  Creator = {}
  Reader = {r1}
  MaxAttempts = 1

INVARIANTS OnlyExistingCodesRedirect
