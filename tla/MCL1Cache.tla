----------------------------- MODULE MCL1Cache -----------------------------
(* Instances of L1Cache for TLC. *)
EXTENDS L1Cache, TLC

CONSTANTS k1, s1, s2

(* k1 has a shard of its own. *)
OneApart == [k \in Key |-> IF k = k1 THEN s1 ELSE s2]

KeysAndValues == Permutations(Key \ {k1}) \cup Permutations(Value)
============================================================================
