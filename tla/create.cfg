SPECIFICATION Spec
CONSTANTS
  URL = {u1, u2}
  Code = {1, 2}
  Legacy = {1, 2}
  Fold <- CaseSensitive
  Slave = {}
  Replica = {}
  BatchSize = 1
  Faults = {"db", "redis"}
  Expiring = {"hash", "hashL1"}
  Pod = {p1}
  Consumer = {}
  Creator = {k1, k2}
  Reader = {}
  MaxAttempts = 1
SYMMETRY AllSymmetric
INVARIANTS TypeOK OneCodePerURL RebuildCovers
