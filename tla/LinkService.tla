---------------------------- MODULE LinkService ----------------------------
(***************************************************************************)
(* What clients of the short link service see of it: a table of links that *)
(* only grows, codes handed out for URLs, and answers to lookups.  There   *)
(* are no caches, pods or messages here.                                   *)
(***************************************************************************)
CONSTANTS
  URL, Code,
  Fold,            \* codes with one image under Fold are one code to the table
  Reader,          \* lookups
  Free,            \* rows[c] of a code that is not in use
  NotFound, Error  \* the answers that are no URL

VARIABLES
  rows,    \* code -> URL or Free
  issued,  \* per URL, the codes returned for it
  reply,   \* per lookup, its code and its answer, Free while there is none
  settled, \* codes that are established: a lookup must find them
  early    \* codes of which some lookup began before they were settled, or
           \* which were settled and ceased to be

vars == <<rows, issued, reply, settled, early>>

Used == {c \in Code : rows[c] # Free}

Conflict(c, u) == \E d \in Used : Fold[c] = Fold[d] \/ rows[d] = u

Init ==
  /\ rows \in [Code -> URL \cup {Free}]
  /\ \A c, d \in Used : (Fold[c] = Fold[d] \/ rows[c] = rows[d]) => c = d
  /\ issued = [u \in URL |-> {}]
  /\ \A r \in Reader : reply[r].res = Free
  /\ settled \subseteq Used
  /\ early = {}

(* A link is created once: one code for one URL, for good. *)
Insert ==
  /\ \E c \in Code, u \in URL :
        ~Conflict(c, u) /\ rows' = [rows EXCEPT ![c] = u]
  /\ UNCHANGED <<issued, reply, early>>

(* A client gets the code of its URL. *)
Issue ==
  /\ \E u \in URL, c \in Code :
        rows[c] = u /\ issued' = [issued EXCEPT ![u] = @ \cup {c}]
  /\ UNCHANGED <<rows, reply, early>>

(* A URL is answered only if it is the code's, and NotFound only for a code *)
(* that was not settled all along.  Any lookup may fail.                    *)
Right(answer) ==
  \/ answer.res \in {Free, Error}
  \/ answer.res = NotFound /\ answer.code \in early'
  \/ \E d \in Used : Fold[answer.code] = Fold[d] /\ rows[d] = answer.res

Lookup ==
  /\ \A r \in Reader : reply'[r] # reply[r] => Right(reply'[r])
  /\ \E doubt \in SUBSET (Code \ settled') : early' = early \cup doubt
  /\ UNCHANGED <<rows, issued>>

(* Of the codes in use, some are settled after the step; a code that no     *)
(* longer is becomes early.                                                 *)
Next ==
  /\ Insert \/ Issue \/ Lookup
  /\ settled' \subseteq Used'
  /\ settled \ settled' \subseteq early'

Spec == Init /\ [][Next]_vars
============================================================================
