---------------------------- MODULE MCShortLink ----------------------------
(* Instances of ShortLink for TLC: collations and symmetry sets.            *)
EXTENDS ShortLink, TLC

(* No two codes of the instance differ by case only. *)
CaseSensitive == [c \in Code |-> c]

(* Codes 1 and 2 differ by case only ("aB" and "Ab"). *)
CaseInsensitive == [c \in Code |-> IF c = 2 THEN 1 ELSE c]

PodAndClients ==
  Permutations(Pod) \cup Permutations(Creator) \cup Permutations(Reader)

AllSymmetric == PodAndClients \cup Permutations(URL)
============================================================================
