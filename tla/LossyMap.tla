------------------------------ MODULE LossyMap -----------------------------
(***************************************************************************)
(* What ShortLink assumes of an L1 cache: a map that may lose entries at   *)
(* any time and does nothing else.  A read finds what was written last, or *)
(* nothing.                                                                *)
(***************************************************************************)
CONSTANTS Key, Value, None

VARIABLES
  map,     \* key -> value or None
  answer   \* the last read: its key and what it found

vars == <<map, answer>>

Init == map = [k \in Key |-> None] /\ answer.value = None

(* Any entries but that of k may be lost. *)
Losing(k) == \A j \in Key \ {k} : map'[j] \in {map[j], None}

Write(k, v) == map'[k] = v /\ Losing(k) /\ UNCHANGED answer

Read(k) == answer' = [key |-> k, value |-> map[k]] /\ UNCHANGED map

Lose(k) == map'[k] = None /\ Losing(k) /\ UNCHANGED answer

Next ==
  /\ DOMAIN map' = Key
  /\ \E k \in Key : Read(k) \/ Lose(k) \/ \E v \in Value : Write(k, v)

Spec == Init /\ [][Next]_vars
============================================================================
