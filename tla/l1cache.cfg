SPECIFICATION Spec
CONSTANTS
  k1 = k1
  s1 = s1
  s2 = s2
  Key = {k1, k2, k3, k4}
  Value = {v1, v2}
  Shard = {s1, s2}
  ShardOf <- OneApart
  Capacities = {1, 4}
  Ttl = 1
  MaxTime = 3
  None = None
SYMMETRY KeysAndValues
INVARIANTS TypeOK Coherent RecentKept
PROPERTIES ImplementsLossyMap
