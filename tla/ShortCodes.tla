----------------------------- MODULE ShortCodes -----------------------------
(***************************************************************************)
(* The ids of Snowflake as Create stores them: Base62 of uint64(id), in a  *)
(* column of Width characters.                                             *)
(***************************************************************************)
EXTENDS Snowflake, Base62

CONSTANT Width   \* of short_links.short_code: varchar(10)

ASSUME WidthAssumption == Width \in Nat \ {0}

(* Time, node and sequence number are 41, 10 and 12 bits of 64. *)
ASSUME RangeAssumption == MaxTime * Nodes * Steps <= Word

(* Mutant: the conversion of the id to unsigned loses its high bits. *)
ShortCodeNarrow(id) == Encode(id % (Word \div 4))

ShortCode(id) == Encode(id % Word)

(* The number of strings of so many characters. *)
Strings[w \in Nat] == IF w = 0 THEN 1 ELSE Base * Strings[w - 1]

(* The ids below have a code of at most Width characters. *)
Capacity == Strings[Width]

(* The first millisecond of which some id does not. *)
Horizon == Epoch + (Capacity \div (Nodes * Steps))

----------------------------------------------------------------------------
(* Every id, also one from before the epoch, is what its code decodes to    *)
(* (base62.go:60-105).                                                      *)
CodesDecode ==
  \A id \in ids : Decode(ShortCode(id)) = [err |-> FALSE, num |-> id % Word]

(* Ids that differ, of all pods and whatever their clocks show, have codes  *)
(* that differ: the conversion to unsigned and Encode lose nothing, and so  *)
(* no insert of a new link meets another's code (shortlink.go:124-129).     *)
DistinctCodes ==
  \A a, b \in ids : ShortCode(a) = ShortCode(b) => a = b

(* Until the horizon, which for the real constants is in May 2032, a pod    *)
(* whose clock is not behind the epoch makes codes that fit the column; a   *)
(* longer one would make every insert fail.                                 *)
CodesFit ==
  \A id \in ids : TimeOf(id) \in Epoch .. Horizon - 1 => Len(ShortCode(id)) <= Width
=============================================================================
