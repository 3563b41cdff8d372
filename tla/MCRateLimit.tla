---------------------------- MODULE MCRateLimit ----------------------------
(* Instances of RateLimit for TLC. *)
EXTENDS RateLimit, TLC

PodsAndRequests == Permutations(Pod) \cup Permutations(Request)
============================================================================
