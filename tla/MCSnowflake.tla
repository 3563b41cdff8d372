---------------------------- MODULE MCSnowflake ----------------------------
(* Instances of ShortCodes for TLC. *)
EXTENDS ShortCodes

CONSTANTS p1, p2

(* p1 has an address, p2 has none; their nodes differ. *)
OneAddress == [p \in Pod |-> IF p = p1 THEN 6 ELSE NoAddress]

(* The clock of p1 is set back, never during a sleep. *)
WhileIdle == [p \in Pod |-> IF p = p1 THEN {"idle"} ELSE {}]

ASSUME InstanceDeployment == Deployment

(* Three digits, in shuffled order. *)
Shuffled == <<"z", "Q", "w">>
============================================================================
