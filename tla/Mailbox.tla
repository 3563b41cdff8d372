------------------------------ MODULE Mailbox ------------------------------
(***************************************************************************)
(* What the outbox, RabbitMQ and the consumers promise together: a message *)
(* that was posted is handled at least once, however often and late, and   *)
(* is forgotten only after that.  A lossy mailbox may forget earlier.      *)
(***************************************************************************)
CONSTANTS
  Msg,
  Lossy     \* TRUE or FALSE: may it forget what was not handled?

VARIABLES
  posted,   \* messages whose transaction has committed
  mail,     \* messages that may be handled, for the first time or again
  handled   \* messages that were handled

vars == <<posted, mail, handled>>

Init == posted = {} /\ mail = {} /\ handled = {}

Commit(m) ==
  /\ m \notin posted
  /\ posted' = posted \cup {m}
  /\ mail' = mail \cup {m}
  /\ UNCHANGED handled

Handle(m) ==
  /\ m \in mail
  /\ handled' = handled \cup {m}
  /\ UNCHANGED <<posted, mail>>

(* Several messages at once: those of a connection, or of a batch. *)
Forget(gone) ==
  /\ Lossy \/ gone \subseteq handled
  /\ mail' = mail \ gone
  /\ UNCHANGED <<posted, handled>>

Next ==
  \/ \E m \in Msg : Commit(m) \/ Handle(m)
  \/ \E gone \in SUBSET mail : Forget(gone)

Spec == Init /\ [][Next]_vars
============================================================================
