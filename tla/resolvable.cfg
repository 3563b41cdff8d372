SPECIFICATION FairSpec
CONSTANTS
  URL = {u1}
  Code = {1}
  Legacy = {}
  Fold <- CaseSensitive
  Slave = {}
  Replica = {}
  BatchSize = 1
  Faults = {"db"}
  Expiring = {"link", "l1"}
  Pod = {p1}
  Consumer = {p1}
  Creator = {k1}
  Reader = {r1}
  MaxAttempts = 1

 
PROPERTIES EventuallyResolvable
