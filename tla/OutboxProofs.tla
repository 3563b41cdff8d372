---------------------------- MODULE OutboxProofs ----------------------------
(***************************************************************************)
(* The safety of rows, claims and messages, for every number of rows,      *)
(* instances, retries and faults, and that the outbox implements Mailbox.  *)
(* The argument: a row moves along few edges (RowMove); a message that is  *)
(* carried stays so until it is synced or dropped (CarriedKept); and what  *)
(* a worker remembers of its batch is true of rows and broker (Memory).    *)
(***************************************************************************)
EXTENDS Outbox, TLAPS

(* How one row may change in a step.                                        *)
Claimed(m) ==
  /\ Claimable(m)
  /\ \E w \in Worker :
       row'[m] = [row[m] EXCEPT !.status = "processing", !.owner = w, !.lease = TRUE]

Failing(m) ==
  /\ row[m].status = "processing"
  /\ \E w \in Worker : worker[w].pc = "fail"
  /\ row'[m] = Row(StatusAfter(row[m].retry + 1), row[m].retry + 1)

Sending(m) ==
  /\ row[m].status = "processing"
  /\ \E w \in Worker : m \in worker[w].sent
  /\ row'[m] = Row("sent", row[m].retry)

Deleting(m) ==
  /\ \E w \in Worker : m \in worker[w].del
  /\ row'[m] = Row("deleted", row[m].retry)

RowMove(m) ==
  \/ row'[m] = row[m]
  \/ row[m].status = "none" /\ row'[m] = Row("pending", 0)
  \/ Claimed(m) \/ Failing(m) \/ Sending(m) \/ Deleting(m)
  \/ row[m].status = "processing" /\ row'[m] = [row[m] EXCEPT !.lease = FALSE]

RowMoves == row' = [m \in Msg |-> row'[m]] /\ \A m \in Msg : RowMove(m)

----------------------------------------------------------------------------
(* The invariant *)

(* The types, cur included when it is used.                                 *)
RowType == [status : {"none", "pending", "processing", "sent", "failed", "deleted"},
            retry : 0 .. MaxRetry, owner : Worker \cup {""}, lease : BOOLEAN]

WorkerType == [pc : {"idle", "publish", "fail", "cleanup", "delete", "down"},
               todo : SUBSET Msg, cur : Msg \cup {0}, sent : SUBSET Msg, del : SUBSET Msg]

TypeInv ==
  /\ TypeOK
  /\ \A w \in Worker : worker[w].pc = "fail" => worker[w].cur \in Msg

(* Only rows under a claim have an owner.                                   *)
Unclaimed == \A m \in Msg : row[m].status # "processing" =>
                              row[m] = Row(row[m].status, row[m].retry)

Kept(m) == Carried(m) \/ m \in dropped

(* What workers and consumers remember is so.                               *)
Memory ==
  /\ \A w \in Worker : \A m \in worker[w].sent : Kept(m)
  /\ \A w \in Worker : \A m \in worker[w].del : row[m].status \in {"sent", "deleted"}
  /\ \A w \in Worker : \A m \in worker[w].todo : row[m].status # "none"
  /\ \A w \in Worker : worker[w].pc \notin {"publish", "fail"} => worker[w].todo = {}
  /\ \A w \in Worker : acking[w] \subseteq synced

(* Without connection failures only a process that is down has no           *)
(* connection, and nothing is dropped or fails.                             *)
Reliable ==
  \/ "conn" \in Faults
  \/ /\ \A w \in Worker : worker[w].pc # "fail" /\ (conn[w] \/ worker[w].pc = "down")
     /\ dropped = {}
     /\ \A m \in Msg : row[m].status # "failed"

Inv == TypeInv /\ RetryBudget /\ Unclaimed /\ Memory /\ SentNotLost /\ Reliable

----------------------------------------------------------------------------
(* The rows *)

(* Every step moves each row along one of the edges. *)
LEMMA NextRows == TypeInv /\ [Next]_vars => RowMoves
<1> SUFFICES ASSUME TypeInv, [Next]_vars PROVE RowMoves
  OBVIOUS
<1> USE DEF RowMoves, RowMove
<1>0. row \in [Msg -> RowType] /\ DOMAIN row = Msg
  BY DEF TypeInv, TypeOK, RowType
<1>1. ASSUME UNCHANGED row
      PROVE  RowMoves
  BY <1>0, <1>1
<1>2. ASSUME NEW m \in Msg, Insert(m)
      PROVE  RowMoves
  BY <1>0, <1>2 DEF Insert
<1>3. ASSUME NEW m \in Msg, Expire(m)
      PROVE  RowMoves
  <2>1. ASSUME NEW n \in Msg
        PROVE  RowMove(n)
    <3>1. CASE n = m
      BY <1>0, <1>3, <3>1 DEF Expire
    <3>2. CASE n # m
      BY <1>0, <1>3, <3>2 DEF Expire
    <3>3. QED BY <3>1, <3>2
  <2>2. QED BY <1>0, <1>3, <2>1 DEF Expire
<1>4. ASSUME NEW w \in Worker, NEW batch \in SUBSET Msg, NEW locked,
             IsBatch(batch, locked), Lock(batch, w)
      PROVE  RowMoves
  <2>1. \A m \in batch : Claimable(m)
    BY <1>4 DEF IsBatch
  <2>2. QED BY <1>0, <1>4, <2>1 DEF Lock, Claimed
<1>5. ASSUME NEW w \in Worker, MarkFailed(w)
      PROVE  RowMoves
  <2>1. worker[w].cur \in Msg /\ worker[w].pc = "fail"
    BY <1>5 DEF TypeInv, MarkFailed
  <2>2. CASE UNCHANGED row
    BY <1>1, <2>2
  <2>3. CASE Owns(w, worker[w].cur)
    BY <1>0, <1>5, <2>1, <2>3 DEF MarkFailed, Owns, Failing
  <2>4. QED BY <1>5, <2>2, <2>3 DEF MarkFailed
<1>6. ASSUME NEW w \in Worker, MarkSent(w)
      PROVE  RowMoves
  BY <1>0, <1>6 DEF MarkSent, Owns, Sending
<1>7. ASSUME NEW w \in Worker, CleanupDelete(w)
      PROVE  RowMoves
  BY <1>0, <1>7 DEF CleanupDelete, Deleting
<1>8. CASE Next
  <2>1. CASE Trouble
    BY <1>1, <1>3, <1>4, <2>1
    DEF Trouble, ClaimLost, MarkError, Crash, ExpireHeld, HandleFail
  <2>2. CASE \E m \in Msg : Insert(m) \/ ExpireAbandoned(m)
    BY <1>2, <1>3, <2>2 DEF ExpireAbandoned
  <2>3. CASE \E w \in Worker : Claim(w) \/ PublishStep(w) \/ MarkFailed(w) \/ MarkSent(w)
    BY <1>1, <1>4, <1>5, <1>6, <2>3 DEF Claim, PublishStep, Publish, PublishError
  <2>4. CASE \E w \in Worker : CleanupSelect(w) \/ CleanupDelete(w)
    BY <1>1, <1>7, <2>4 DEF CleanupSelect
  <2>5. CASE \E w \in Worker, m \in Msg : Deliver(w, m) \/ PublishLost(w, m)
    BY <1>1, <2>5 DEF Deliver, PublishLost
  <2>6. CASE \E w \in Worker : ConsumeStep(w) \/ ConnClose(w) \/ Restart(w)
    BY <1>1, <2>6 DEF ConsumeStep, HandleOk, Ack, ConnClose, Restart
  <2>7. QED BY <1>8, <2>1, <2>2, <2>3, <2>4, <2>5, <2>6 DEF Next
<1>9. CASE UNCHANGED vars
  BY <1>1, <1>9 DEF vars
<1>10. QED BY <1>8, <1>9

(* What RetryBudget and Unclaimed say of one row. *)
Budgeted(r) == r.status = "failed" <=> r.retry > 0 /\ r.retry + 1 >= MaxRetry
Plain(r) == r.status # "processing" => r = Row(r.status, r.retry)

(* The fields of a row that is written as a whole.                        *)
LEMMA RowFields ==
  \A s, k : /\ Row(s, k).status = s /\ Row(s, k).retry = k
            /\ s \in {"none", "pending", "processing", "sent", "failed", "deleted"}
               /\ k \in 0 .. MaxRetry => Row(s, k) \in RowType
  BY DEF Row, RowType

(* A lease that expires leaves the rest of its row alone. *)
LEMMA ExpireFields ==
  ASSUME NEW r \in RowType, NEW e, e = [r EXCEPT !.lease = FALSE]
  PROVE  e \in RowType /\ e.status = r.status /\ e.retry = r.retry
  BY DEF RowType

(* Where a row goes, by what it was. *)
LEMMA MoveTo ==
  ASSUME Inv, NEW m \in Msg, RowMove(m)
  PROVE  \/ row'[m] = row[m]
         \/ row[m].status = "none" /\ row'[m] = Row("pending", 0)
         \/ /\ row[m].status \in {"pending", "processing"}
            /\ row'[m] \in RowType /\ row'[m].status = "processing"
            /\ row'[m].retry = row[m].retry
         \/ /\ row[m].status = "processing"
            /\ \/ row'[m] = Row(StatusAfter(row[m].retry + 1), row[m].retry + 1)
               \/ row'[m] = Row("sent", row[m].retry)
         \/ /\ row[m].status \in {"sent", "deleted"}
            /\ row'[m] = Row("deleted", row[m].retry)
<1>1. row[m] \in RowType
  BY DEF Inv, TypeInv, TypeOK, RowType
<1>2. ASSUME Claimed(m)
      PROVE  /\ row[m].status \in {"pending", "processing"}
             /\ row'[m] \in RowType /\ row'[m].status = "processing"
             /\ row'[m].retry = row[m].retry
  <2>1. PICK w \in Worker :
          row'[m] = [row[m] EXCEPT !.status = "processing", !.owner = w, !.lease = TRUE]
    BY <1>2, Zenon DEF Claimed
  <2>2. row[m].status \in {"pending", "processing"}
    BY <1>2 DEF Claimed, Claimable
  <2>3. /\ row'[m] \in RowType /\ row'[m].status = "processing"
        /\ row'[m].retry = row[m].retry
    BY <1>1, <2>1 DEF RowType
  <2>4. QED BY <2>2, <2>3
<1>3. row[m].status = "processing" /\ row'[m] = [row[m] EXCEPT !.lease = FALSE]
        => /\ row'[m] \in RowType /\ row'[m].status = "processing"
           /\ row'[m].retry = row[m].retry
  BY <1>1, ExpireFields
<1>4. Deleting(m) => /\ row[m].status \in {"sent", "deleted"}
                     /\ row'[m] = Row("deleted", row[m].retry)
  BY DEF Deleting, Inv, Memory
<1>5. QED BY <1>2, <1>3, <1>4 DEF RowMove, Failing, Sending

(* A move keeps the budget of a row and its type. *)
LEMMA MoveKeeps ==
  ASSUME Inv, NEW m \in Msg, RowMove(m)
  PROVE  row'[m] \in RowType /\ Budgeted(row'[m]) /\ Plain(row'[m])
<1>1. /\ row[m] \in RowType /\ Budgeted(row[m]) /\ Plain(row[m])
  BY DEF Inv, TypeInv, TypeOK, RowType, RetryBudget, Unclaimed, Budgeted, Plain
<1>2. row[m].retry \in 0 .. MaxRetry
  BY <1>1 DEF RowType
<1>3. CASE row'[m] = row[m]
  BY <1>1, <1>3
<1>4. CASE row[m].status = "none" /\ row'[m] = Row("pending", 0)
  BY <1>4, RowFields, RetryAssumption DEF Budgeted, Plain
<1>5. CASE /\ row[m].status \in {"pending", "processing"}
           /\ row'[m] \in RowType /\ row'[m].status = "processing"
           /\ row'[m].retry = row[m].retry
  BY <1>1, <1>5 DEF Budgeted, Plain
<1>6. ASSUME row[m].status = "processing",
             row'[m] = Row(StatusAfter(row[m].retry + 1), row[m].retry + 1)
      PROVE  row'[m] \in RowType /\ Budgeted(row'[m]) /\ Plain(row'[m])
  <2>1. row[m].retry + 1 \in 0 .. MaxRetry
    BY <1>1, <1>2, <1>6, RetryAssumption DEF Budgeted
  <2>2. /\ StatusAfter(row[m].retry + 1) \in {"failed", "pending"}
        /\ StatusAfter(row[m].retry + 1) = "failed" <=> row[m].retry + 1 + 1 >= MaxRetry
    BY DEF StatusAfter
  <2>3. /\ row'[m].status = StatusAfter(row[m].retry + 1)
        /\ row'[m].retry = row[m].retry + 1
        /\ row'[m] \in RowType
    BY <1>6, <2>1, <2>2, RowFields
  <2>4. Budgeted(row'[m])
    BY <1>2, <2>2, <2>3 DEF Budgeted
  <2>5. Plain(row'[m])
    BY <1>6, <2>3 DEF Plain
  <2>6. QED BY <2>3, <2>4, <2>5
<1>7. ASSUME row[m].status = "processing", row'[m] = Row("sent", row[m].retry)
      PROVE  row'[m] \in RowType /\ Budgeted(row'[m]) /\ Plain(row'[m])
  BY <1>1, <1>2, <1>7, RowFields DEF Budgeted, Plain
<1>8. CASE row[m].status \in {"sent", "deleted"} /\ row'[m] = Row("deleted", row[m].retry)
  BY <1>1, <1>2, <1>8, RowFields DEF Budgeted, Plain
<1>9. QED BY <1>3, <1>4, <1>5, <1>6, <1>7, <1>8, MoveTo

(* A retired row stays retired, and a row that exists does not vanish. *)
LEMMA MoveRetired ==
  ASSUME Inv, NEW m \in Msg, RowMove(m)
  PROVE  /\ row[m].status \in {"failed", "deleted"} => row'[m] = row[m]
         /\ row[m].status = "sent" => row'[m].status \in {"sent", "deleted"}
         /\ row[m].status # "none" => row'[m].status # "none"
<1>1. row[m].status = "deleted" => row[m] = Row("deleted", row[m].retry)
  BY DEF Inv, Unclaimed
<1>2. \A k : StatusAfter(k) \in {"failed", "pending"}
  BY DEF StatusAfter
<1>3. QED BY <1>1, <1>2, MoveTo, RowFields

(* The parts of the invariant that speak of rows only.                      *)
LEMMA RowsKept ==
  ASSUME Inv, RowMoves
  PROVE  row' \in [Msg -> RowType] /\ RetryBudget' /\ Unclaimed'
<1>1. \A m \in Msg : row'[m] \in RowType /\ Budgeted(row'[m]) /\ Plain(row'[m])
  BY MoveKeeps DEF RowMoves
<1>2. row' = [m \in Msg |-> row'[m]]
  BY DEF RowMoves
<1>4. row' \in [Msg -> RowType]
  BY <1>1, <1>2
<1>5. QED BY <1>1, <1>4 DEF RetryBudget, Unclaimed, Budgeted, Plain

----------------------------------------------------------------------------
(* The broker *)

(* A message that is carried stays so until a consumer has synced it; only  *)
(* a connection that closes under its publication drops it.                 *)
LEMMA QueueType ==
  ASSUME TypeInv, NEW m \in Msg
  PROVE  queue \in [Msg -> Nat] /\ queue[m] \in 0 .. MaxCopies /\ MaxCopies \in Nat \ {0}
<1>1. queue \in [Msg -> 0 .. MaxCopies]
  BY DEF TypeInv, TypeOK
<1>2. \A k \in 0 .. MaxCopies : k \in Nat
  BY CopiesAssumption
<1>3. QED BY <1>1, <1>2, CopiesAssumption

(* Requeue keeps what the connection was carrying, and all the rest.        *)
LEMMA RequeueKept ==
  ASSUME TypeInv, NEW w \in Worker, Requeue(w), NEW m \in Msg,
         queue[m] > 0 \/ \E v \in Worker : m \in unacked[v]
  PROVE  queue'[m] > 0 \/ \E v \in Worker : m \in unacked'[v]
<1>1. queue[m] \in 0 .. MaxCopies /\ MaxCopies \in Nat \ {0}
  BY QueueType
<1>2. queue[m] > 0 \/ m \in unacked[w] => queue'[m] > 0
  BY <1>1 DEF Requeue
<1>3. \A v \in Worker : v # w => unacked'[v] = unacked[v]
  BY DEF Requeue, TypeInv, TypeOK
<1>4. QED BY <1>2, <1>3

LEMMA CarriedKept ==
  ASSUME TypeInv, [Next]_vars, NEW m \in Msg, Kept(m)
  PROVE  Kept(m)'
<1>1. queue \in [Msg -> Nat] /\ queue[m] \in 0 .. MaxCopies /\ MaxCopies \in Nat \ {0}
  BY QueueType
<1>2. unacked \in [Worker -> SUBSET Msg]
  BY DEF TypeInv, TypeOK
<1> USE <1>1, <1>2 DEF Kept, Carried, brokerVars, workerVars, history
<1>3. CASE UNCHANGED <<queue, unacked, synced, dropped>>
  BY <1>3
<1>4. ASSUME NEW w \in Worker, NEW n \in Msg, Publish(w, n)
      PROVE  Kept(m)'
  BY <1>4 DEF Publish, Copies
<1>5. ASSUME NEW w \in Worker, Requeue(w), synced \subseteq synced', dropped \subseteq dropped'
      PROVE  Kept(m)'
  BY <1>5, RequeueKept
<1>6. ASSUME NEW w \in Worker, NEW n \in Msg, Deliver(w, n)
      PROVE  Kept(m)'
  BY <1>6 DEF Deliver
<1>7. ASSUME NEW w \in Worker, NEW n \in Msg, HandleOk(w, n)
      PROVE  Kept(m)'
  BY <1>7 DEF HandleOk
<1>8. ASSUME NEW w \in Worker, NEW n \in Msg, HandleFail(w, n)
      PROVE  Kept(m)'
  BY <1>8 DEF HandleFail, Nack, Copies
<1>9. CASE Next
  <2>1. CASE Trouble
    BY <1>3, <1>5, <1>8, <2>1
    DEF Trouble, ClaimLost, MarkError, Crash, ExpireHeld, Expire
  <2>2. CASE \E n \in Msg : Insert(n) \/ ExpireAbandoned(n)
    BY <1>3, <2>2 DEF Insert, ExpireAbandoned, Expire
  <2>3. CASE \E w \in Worker : Claim(w) \/ PublishStep(w) \/ MarkFailed(w) \/ MarkSent(w)
    BY <1>3, <1>4, <2>3 DEF Claim, PublishStep, PublishError, MarkFailed, MarkSent
  <2>4. CASE \E w \in Worker : CleanupSelect(w) \/ CleanupDelete(w)
    BY <1>3, <2>4 DEF CleanupSelect, CleanupDelete
  <2>5. CASE \E w \in Worker, n \in Msg : Deliver(w, n) \/ PublishLost(w, n)
    BY <1>5, <1>6, <2>5 DEF PublishLost
  <2>6. CASE \E w \in Worker : ConsumeStep(w) \/ ConnClose(w) \/ Restart(w)
    BY <1>3, <1>5, <1>7, <2>6 DEF ConsumeStep, Ack, ConnClose, Restart
  <2>7. QED BY <1>9, <2>1, <2>2, <2>3, <2>4, <2>5, <2>6 DEF Next
<1>10. CASE UNCHANGED vars
  BY <1>3, <1>10 DEF vars
<1>11. QED BY <1>9, <1>10

----------------------------------------------------------------------------
(* The workers *)

(* How the local state of one worker may change in a step.                  *)
Taking(w) ==
  \E batch \in SUBSET Msg :
    /\ \A m \in batch : row[m].status \in {"pending", "processing"}
    /\ worker'[w] = [Idle EXCEPT !.pc = "publish", !.todo = batch]

Publishing(w) ==
  /\ worker[w].pc = "publish"
  /\ \E m \in Msg :
       /\ Kept(m)'
       /\ worker'[w] = [worker[w] EXCEPT !.todo = @ \ {m}, !.sent = @ \cup {m}]

Giving(w) ==
  /\ worker[w].pc = "publish" /\ ~conn[w]
  /\ \E m \in Msg :
       worker'[w] = [worker[w] EXCEPT !.pc = "fail", !.cur = m, !.todo = @ \ {m}]

Resuming(w) ==
  /\ worker[w].pc = "fail"
  /\ worker'[w] = [worker[w] EXCEPT !.pc = "publish", !.cur = 0]

Selecting(w) ==
  \E del \in SUBSET Msg :
    /\ \A m \in del : row[m].status = "sent"
    /\ worker'[w] = [Idle EXCEPT !.pc = "delete", !.del = del]

Resting(w) == worker'[w] \in {Idle, Down, [Idle EXCEPT !.pc = "cleanup"]}

WorkerMove(w) ==
  \/ worker'[w] = worker[w]
  \/ Resting(w) \/ Taking(w) \/ Publishing(w) \/ Giving(w) \/ Resuming(w) \/ Selecting(w)

WorkerMoves == worker' = [w \in Worker |-> worker'[w]] /\ \A w \in Worker : WorkerMove(w)

(* A step that changes the state of one worker. *)
LEMMA OneWorker ==
  ASSUME TypeInv, NEW w \in Worker, NEW r, worker' = [worker EXCEPT ![w] = r],
         worker'[w] = r => WorkerMove(w)
  PROVE  WorkerMoves
<1>1. worker' = [v \in Worker |-> worker'[v]] /\ worker'[w] = r
  BY DEF TypeInv, TypeOK
<1>2. \A v \in Worker : v # w => worker'[v] = worker[v]
  BY DEF TypeInv, TypeOK
<1>3. QED BY <1>1, <1>2 DEF WorkerMoves, WorkerMove

(* A publication puts the message on its way, or drops it. *)
LEMMA PublishedKept ==
  ASSUME TypeInv, NEW w \in Worker, NEW m \in Msg, Publish(w, m) \/ PublishLost(w, m)
  PROVE  Kept(m)'
<1>1. queue \in [Msg -> Nat] /\ queue[m] \in 0 .. MaxCopies /\ MaxCopies \in Nat \ {0}
  BY QueueType
<1>2. CASE Publish(w, m)
  BY <1>1, <1>2 DEF Publish, Copies, Kept, Carried
<1>3. CASE PublishLost(w, m)
  BY <1>3 DEF PublishLost, Kept
<1>4. QED BY <1>2, <1>3

(* Every step moves the state of each worker along one of these. *)
LEMMA NextWorkers == TypeInv /\ [Next]_vars => WorkerMoves
<1> SUFFICES ASSUME TypeInv, [Next]_vars PROVE WorkerMoves
  OBVIOUS
<1>1. ASSUME UNCHANGED worker
      PROVE  WorkerMoves
  BY <1>1 DEF WorkerMoves, WorkerMove, TypeInv, TypeOK
<1>2. ASSUME NEW w \in Worker, Claim(w)
      PROVE  WorkerMoves
  <2>1. PICK batch \in SUBSET Msg :
           /\ \A m \in batch : Claimable(m)
           /\ worker' = [worker EXCEPT ![w] = [Idle EXCEPT !.pc = "publish", !.todo = batch]]
    BY <1>2 DEF Claim, IsBatch
  <2>2. \A m \in batch : row[m].status \in {"pending", "processing"}
    BY <2>1 DEF Claimable
  <2>3. worker'[w] = [Idle EXCEPT !.pc = "publish", !.todo = batch] => WorkerMove(w)
    BY <2>2, Zenon DEF WorkerMove, Taking
  <2>4. QED BY <2>1, <2>3, OneWorker
<1>3. ASSUME NEW w \in Worker, NEW m \in Msg, Publish(w, m) \/ PublishLost(w, m)
      PROVE  WorkerMoves
  <2>1. /\ worker' = [worker EXCEPT ![w].todo = @ \ {m}, ![w].sent = @ \cup {m}]
        /\ worker[w].pc = "publish"
    BY <1>3 DEF Publish, PublishLost, Published, Turn
  <2>2. Kept(m)'
    BY <1>3, PublishedKept
  <2>3. worker' = [worker EXCEPT ![w] = [worker[w] EXCEPT !.todo = @ \ {m}, !.sent = @ \cup {m}]]
    BY <2>1 DEF TypeInv, TypeOK
  <2>4. worker'[w] = [worker[w] EXCEPT !.todo = @ \ {m}, !.sent = @ \cup {m}] => WorkerMove(w)
    BY <2>1, <2>2, Zenon DEF WorkerMove, Publishing
  <2>5. QED BY <2>3, <2>4, OneWorker
<1>4. ASSUME NEW w \in Worker, NEW m \in Msg, PublishError(w, m)
      PROVE  WorkerMoves
  <2>1. /\ worker' = [worker EXCEPT ![w] =
                        [worker[w] EXCEPT !.pc = "fail", !.cur = m, !.todo = @ \ {m}]]
        /\ worker[w].pc = "publish" /\ ~conn[w]
    BY <1>4 DEF PublishError, Turn, TypeInv, TypeOK
  <2>2. worker'[w] = [worker[w] EXCEPT !.pc = "fail", !.cur = m, !.todo = @ \ {m}]
          => WorkerMove(w)
    BY <2>1, Zenon DEF WorkerMove, Giving
  <2>3. QED BY <2>1, <2>2, OneWorker
<1>5. ASSUME NEW w \in Worker, worker[w].pc = "fail",
             worker' = [worker EXCEPT ![w].pc = "publish", ![w].cur = 0]
      PROVE  WorkerMoves
  <2>1. worker' = [worker EXCEPT ![w] = [worker[w] EXCEPT !.pc = "publish", !.cur = 0]]
    BY <1>5 DEF TypeInv, TypeOK
  <2>2. worker'[w] = [worker[w] EXCEPT !.pc = "publish", !.cur = 0] => WorkerMove(w)
    BY <1>5, Zenon DEF WorkerMove, Resuming
  <2>3. QED BY <2>1, <2>2, OneWorker
<1>6. ASSUME NEW w \in Worker, NEW r \in {Idle, Down, [Idle EXCEPT !.pc = "cleanup"]},
             worker' = [worker EXCEPT ![w] = r]
      PROVE  WorkerMoves
  <2>1. worker'[w] = r => WorkerMove(w)
    BY DEF WorkerMove, Resting
  <2>2. QED BY <1>6, <2>1, OneWorker
<1>7. ASSUME NEW w \in Worker, CleanupSelect(w)
      PROVE  WorkerMoves
  <2>1. PICK del \in SUBSET {m \in Msg : row[m].status = "sent"} :
          worker' = [worker EXCEPT ![w] =
                       IF del = {} THEN Idle ELSE [Idle EXCEPT !.pc = "delete", !.del = del]]
    BY <1>7 DEF CleanupSelect
  <2>2. CASE del = {}
    BY <1>6, <2>1, <2>2
  <2>3. CASE del # {}
    <3>1. worker'[w] = [Idle EXCEPT !.pc = "delete", !.del = del] => WorkerMove(w)
      BY <2>1, Zenon DEF WorkerMove, Selecting
    <3>2. QED BY <2>1, <2>3, <3>1, OneWorker
  <2>4. QED BY <2>2, <2>3
<1>8. CASE Next
  <2>1. CASE Trouble
    BY <1>1, <1>5, <1>6, <2>1
    DEF Trouble, ClaimLost, MarkError, Crash, ExpireHeld, Expire, HandleFail, workerVars
  <2>2. CASE \E n \in Msg : Insert(n) \/ ExpireAbandoned(n)
    BY <1>1, <2>2 DEF Insert, ExpireAbandoned, Expire, workerVars
  <2>3. CASE \E w \in Worker : Claim(w) \/ PublishStep(w) \/ MarkFailed(w) \/ MarkSent(w)
    BY <1>2, <1>3, <1>4, <1>5, <1>6, <2>3 DEF PublishStep, MarkFailed, MarkSent
  <2>4. CASE \E w \in Worker : CleanupSelect(w) \/ CleanupDelete(w)
    BY <1>6, <1>7, <2>4 DEF CleanupDelete
  <2>5. CASE \E w \in Worker, n \in Msg : Deliver(w, n) \/ PublishLost(w, n)
    BY <1>1, <1>3, <2>5 DEF Deliver, workerVars
  <2>6. CASE \E w \in Worker : ConsumeStep(w) \/ ConnClose(w) \/ Restart(w)
    BY <1>1, <1>6, <2>6 DEF ConsumeStep, HandleOk, Ack, ConnClose, Restart, workerVars
  <2>7. QED BY <1>8, <2>1, <2>2, <2>3, <2>4, <2>5, <2>6 DEF Next
<1>9. CASE UNCHANGED vars
  BY <1>1, <1>9 DEF vars, workerVars
<1>10. QED BY <1>8, <1>9

(* What TypeInv and Memory say of one worker. *)
Remembers(w) ==
  /\ worker[w] \in WorkerType
  /\ worker[w].pc = "fail" => worker[w].cur \in Msg
  /\ \A m \in worker[w].sent : Kept(m)
  /\ \A m \in worker[w].del : row[m].status \in {"sent", "deleted"}
  /\ \A m \in worker[w].todo : row[m].status # "none"
  /\ worker[w].pc \notin {"publish", "fail"} => worker[w].todo = {}

(* The fields of a worker at rest. *)
LEMMA RestFields ==
  ASSUME NEW r \in {Idle, Down, [Idle EXCEPT !.pc = "cleanup"]}
  PROVE  /\ r \in WorkerType /\ r.pc \in {"idle", "down", "cleanup"}
         /\ r.todo = {} /\ r.sent = {} /\ r.del = {}
  BY DEF Idle, Down, WorkerType

(* The fields of a worker that begins on a batch, or on a deletion. *)
LEMMA TakeFields ==
  ASSUME NEW s \in SUBSET Msg, NEW r, r = [Idle EXCEPT !.pc = "publish", !.todo = s]
  PROVE  r \in WorkerType /\ r.pc = "publish" /\ r.todo = s /\ r.sent = {} /\ r.del = {}
  BY DEF Idle, WorkerType

LEMMA SelectFields ==
  ASSUME NEW s \in SUBSET Msg, NEW r, r = [Idle EXCEPT !.pc = "delete", !.del = s]
  PROVE  r \in WorkerType /\ r.pc = "delete" /\ r.todo = {} /\ r.sent = {} /\ r.del = s
  BY DEF Idle, WorkerType

(* A worker's memory stays right, whatever it and the others do. *)
LEMMA RemembersKept ==
  ASSUME Inv, [Next]_vars, NEW w \in Worker
  PROVE  Remembers(w)'
<1>1. Remembers(w)
  BY DEF Inv, TypeInv, TypeOK, WorkerType, Memory, Remembers
<1>2. WorkerMove(w) /\ \A m \in Msg : RowMove(m)
  BY NextWorkers, NextRows DEF Inv, WorkerMoves, RowMoves
<1>3. /\ \A m \in Msg : row[m].status \in {"sent", "deleted"}
                           => row'[m].status \in {"sent", "deleted"}
      /\ \A m \in Msg : row[m].status # "none" => row'[m].status # "none"
  BY <1>2, MoveRetired
<1>4. \A m \in Msg : Kept(m) => Kept(m)'
  BY CarriedKept DEF Inv
<1>5. worker[w] \in WorkerType
  BY <1>1 DEF Remembers
<1>6. CASE worker'[w] = worker[w]
  BY <1>1, <1>3, <1>4, <1>5, <1>6 DEF Remembers, WorkerType
<1>7. CASE Resting(w)
  <2>1. /\ worker'[w] \in WorkerType /\ worker'[w].pc \in {"idle", "down", "cleanup"}
        /\ worker'[w].todo = {} /\ worker'[w].sent = {} /\ worker'[w].del = {}
    BY <1>7, RestFields DEF Resting
  <2>2. QED BY <2>1 DEF Remembers
<1>8. CASE Taking(w)
  <2>1. PICK batch \in SUBSET Msg :
          /\ \A m \in batch : row[m].status \in {"pending", "processing"}
          /\ worker'[w] = [Idle EXCEPT !.pc = "publish", !.todo = batch]
    BY <1>8 DEF Taking
  <2>2. \A m \in batch : row'[m].status # "none"
    BY <1>3, <2>1
  <2>3. /\ worker'[w] \in WorkerType /\ worker'[w].pc = "publish"
        /\ worker'[w].todo = batch /\ worker'[w].sent = {} /\ worker'[w].del = {}
    BY <2>1, TakeFields
  <2>4. QED BY <2>2, <2>3 DEF Remembers
<1>9. CASE Publishing(w)
  <2>1. PICK m \in Msg :
          /\ Kept(m)'
          /\ worker'[w] = [worker[w] EXCEPT !.todo = @ \ {m}, !.sent = @ \cup {m}]
    BY <1>9 DEF Publishing
  <2>2. /\ worker'[w] \in WorkerType
        /\ worker'[w].pc = worker[w].pc /\ worker'[w].cur = worker[w].cur
        /\ worker'[w].todo = worker[w].todo \ {m}
        /\ worker'[w].sent = worker[w].sent \cup {m} /\ worker'[w].del = worker[w].del
    <3>1. /\ worker[w].todo \ {m} \in SUBSET Msg /\ worker[w].sent \cup {m} \in SUBSET Msg
      BY <1>5 DEF WorkerType
    <3> DEFINE todo == worker[w].todo \ {m}
               sent == worker[w].sent \cup {m}
    <3>2. worker'[w] = [worker[w] EXCEPT !.todo = todo, !.sent = sent]
      BY <2>1
    <3> HIDE DEF todo, sent
    <3>3. /\ worker'[w] \in WorkerType
          /\ worker'[w].pc = worker[w].pc /\ worker'[w].cur = worker[w].cur
          /\ worker'[w].todo = todo /\ worker'[w].sent = sent
          /\ worker'[w].del = worker[w].del
      <4>1. todo \in SUBSET Msg /\ sent \in SUBSET Msg
        BY <3>1 DEF todo, sent
      <4>2. QED BY <1>5, <3>2, <4>1 DEF WorkerType
    <3>4. QED BY <3>3 DEF todo, sent
  <2>3. worker[w].sent \subseteq Msg /\ worker[w].del \subseteq Msg /\ worker[w].todo \subseteq Msg
    BY <1>5 DEF WorkerType
  <2>4. QED BY <1>1, <1>3, <1>4, <2>1, <2>2, <2>3 DEF Remembers
<1>10. CASE Giving(w)
  <2>1. PICK m \in Msg :
          worker'[w] = [worker[w] EXCEPT !.pc = "fail", !.cur = m, !.todo = @ \ {m}]
    BY <1>10 DEF Giving
  <2>2. /\ worker'[w] \in WorkerType
        /\ worker'[w].pc = "fail" /\ worker'[w].cur = m
        /\ worker'[w].todo \subseteq worker[w].todo
        /\ worker'[w].sent = worker[w].sent /\ worker'[w].del = worker[w].del
    BY <1>5, <2>1 DEF WorkerType
  <2>3. worker[w].sent \subseteq Msg /\ worker[w].del \subseteq Msg /\ worker[w].todo \subseteq Msg
    BY <1>5 DEF WorkerType
  <2>4. QED BY <1>1, <1>3, <1>4, <2>2, <2>3 DEF Remembers
<1>11. CASE Resuming(w)
  <2>1. /\ worker'[w] \in WorkerType
        /\ worker'[w].pc = "publish" /\ worker'[w].todo = worker[w].todo
        /\ worker'[w].sent = worker[w].sent /\ worker'[w].del = worker[w].del
    BY <1>5, <1>11 DEF Resuming, WorkerType
  <2>2. worker[w].sent \subseteq Msg /\ worker[w].del \subseteq Msg /\ worker[w].todo \subseteq Msg
    BY <1>5 DEF WorkerType
  <2>3. QED BY <1>1, <1>3, <1>4, <2>1, <2>2 DEF Remembers
<1>12. CASE Selecting(w)
  <2>1. PICK del \in SUBSET Msg :
          /\ \A m \in del : row[m].status = "sent"
          /\ worker'[w] = [Idle EXCEPT !.pc = "delete", !.del = del]
    BY <1>12 DEF Selecting
  <2>2. \A m \in del : row'[m].status \in {"sent", "deleted"}
    BY <1>3, <2>1
  <2>3. /\ worker'[w] \in WorkerType /\ worker'[w].pc = "delete"
        /\ worker'[w].todo = {} /\ worker'[w].sent = {} /\ worker'[w].del = del
    BY <2>1, SelectFields
  <2>4. QED BY <2>2, <2>3 DEF Remembers
<1>13. QED BY <1>2, <1>6, <1>7, <1>8, <1>9, <1>10, <1>11, <1>12 DEF WorkerMove

----------------------------------------------------------------------------
(* The rest of the invariant *)

BrokerOK ==
  /\ conn \in [Worker -> BOOLEAN]
  /\ queue \in [Msg -> 0 .. MaxCopies]
  /\ unacked \in [Worker -> SUBSET Msg]
  /\ acking \in [Worker -> SUBSET Msg]
  /\ synced \subseteq Msg /\ dropped \subseteq Msg
  /\ \A w \in Worker : acking[w] \subseteq synced

(* The queue counts up to MaxCopies. *)
LEMMA CopiesType ==
  ASSUME BrokerOK, NEW m \in Msg, Copies(m, 1)
  PROVE  queue' \in [Msg -> 0 .. MaxCopies]
<1>1. queue[m] \in 0 .. MaxCopies
  BY DEF BrokerOK
<1>2. (IF queue[m] + 1 > MaxCopies THEN MaxCopies ELSE queue[m] + 1) \in 0 .. MaxCopies
  BY <1>1, CopiesAssumption
<1>3. QED BY <1>2 DEF BrokerOK, Copies

LEMMA RequeueType ==
  ASSUME BrokerOK, NEW w \in Worker, Requeue(w),
         synced \subseteq synced', synced' \subseteq Msg, dropped' \subseteq Msg,
         conn' \in [Worker -> BOOLEAN]
  PROVE  BrokerOK'
<1>1. ASSUME NEW m \in Msg
      PROVE  (IF m \in unacked[w] \cup acking[w] /\ queue[m] < MaxCopies
              THEN queue[m] + 1 ELSE queue[m]) \in 0 .. MaxCopies
  <2>1. queue[m] \in 0 .. MaxCopies
    BY DEF BrokerOK
  <2>2. QED BY <2>1, CopiesAssumption
<1>2. queue' \in [Msg -> 0 .. MaxCopies]
  BY <1>1 DEF Requeue
<1>3. QED BY <1>2 DEF BrokerOK, Requeue

(* Every step keeps the types of the broker, and that a delivery is         *)
(* acknowledged only after it was synced.                                   *)
LEMMA BrokerKept ==
  ASSUME Inv, [Next]_vars
  PROVE  BrokerOK'
<1>1. BrokerOK
  BY DEF Inv, TypeInv, TypeOK, Memory, BrokerOK
<1> USE <1>1 DEF workerVars, brokerVars, history
<1>2. CASE UNCHANGED <<conn, brokerVars, history>>
  BY <1>2 DEF BrokerOK
<1>3. ASSUME NEW w \in Worker, NEW m \in Msg, Publish(w, m)
      PROVE  BrokerOK'
  <2>1. queue' \in [Msg -> 0 .. MaxCopies]
    BY <1>3, CopiesType DEF Publish
  <2>2. QED BY <1>3, <2>1 DEF BrokerOK, Publish
<1>4. ASSUME NEW w \in Worker, NEW m \in Msg, PublishLost(w, m)
      PROVE  BrokerOK'
  <2>1. conn' \in [Worker -> BOOLEAN] /\ dropped' \subseteq Msg
    BY <1>4 DEF BrokerOK, PublishLost
  <2>2. synced' = synced /\ Requeue(w) /\ synced \subseteq Msg
    BY <1>4 DEF BrokerOK, PublishLost
  <2>3. QED BY <2>1, <2>2, RequeueType
<1>5. ASSUME NEW w \in Worker, ConnClose(w) \/ Crash(w)
      PROVE  BrokerOK'
  <2>1. conn' \in [Worker -> BOOLEAN] /\ Requeue(w) /\ UNCHANGED <<synced, dropped>>
    BY <1>5 DEF BrokerOK, ConnClose, Crash
  <2>2. synced \subseteq Msg /\ dropped \subseteq Msg
    BY DEF BrokerOK
  <2>3. QED BY <2>1, <2>2, RequeueType
<1>6. ASSUME NEW w \in Worker, Restart(w)
      PROVE  BrokerOK'
  BY <1>6 DEF BrokerOK, Restart
<1>7. ASSUME NEW w \in Worker, NEW m \in Msg, Deliver(w, m)
      PROVE  BrokerOK'
  <2>1. queue[m] - 1 \in 0 .. MaxCopies
    <3>1. queue[m] \in 0 .. MaxCopies /\ queue[m] > 0
      BY <1>7 DEF BrokerOK, Deliver
    <3>2. QED BY <3>1, CopiesAssumption
  <2>2. queue' \in [Msg -> 0 .. MaxCopies]
    BY <1>7, <2>1 DEF BrokerOK, Deliver
  <2>3. QED BY <1>7, <2>2 DEF BrokerOK, Deliver
<1>8. ASSUME NEW w \in Worker, NEW m \in Msg, HandleOk(w, m)
      PROVE  BrokerOK'
  BY <1>8 DEF BrokerOK, HandleOk
<1>9. ASSUME NEW w \in Worker, NEW m \in Msg, Ack(w, m)
      PROVE  BrokerOK'
  BY <1>9 DEF BrokerOK, Ack
<1>10. ASSUME NEW w \in Worker, NEW m \in Msg, HandleFail(w, m)
       PROVE  BrokerOK'
  <2>1. queue' \in [Msg -> 0 .. MaxCopies]
    BY <1>10, CopiesType DEF HandleFail, Nack
  <2>2. QED BY <1>10, <2>1 DEF BrokerOK, HandleFail
<1>11. CASE Next
  <2>1. CASE Trouble
    BY <1>2, <1>5, <1>10, <2>1 DEF Trouble, ClaimLost, MarkError, ExpireHeld, Expire
  <2>2. CASE \E n \in Msg : Insert(n) \/ ExpireAbandoned(n)
    BY <1>2, <2>2 DEF Insert, ExpireAbandoned, Expire
  <2>3. CASE \E w \in Worker : Claim(w) \/ PublishStep(w) \/ MarkFailed(w) \/ MarkSent(w)
    BY <1>2, <1>3, <2>3 DEF Claim, PublishStep, PublishError, MarkFailed, MarkSent
  <2>4. CASE \E w \in Worker : CleanupSelect(w) \/ CleanupDelete(w)
    BY <1>2, <2>4 DEF CleanupSelect, CleanupDelete
  <2>5. CASE \E w \in Worker, n \in Msg : Deliver(w, n) \/ PublishLost(w, n)
    BY <1>4, <1>7, <2>5
  <2>6. CASE \E w \in Worker : ConsumeStep(w) \/ ConnClose(w) \/ Restart(w)
    BY <1>5, <1>6, <1>8, <1>9, <2>6 DEF ConsumeStep
  <2>7. QED BY <1>11, <2>1, <2>2, <2>3, <2>4, <2>5, <2>6 DEF Next
<1>12. CASE UNCHANGED vars
  BY <1>2, <1>12 DEF vars
<1>13. QED BY <1>11, <1>12

(* A row becomes sent only after its message was published.                 *)
LEMMA SentKept ==
  ASSUME Inv, [Next]_vars
  PROVE  SentNotLost'
<1>1. ASSUME NEW m \in Msg, row'[m].status \in {"sent", "deleted"}
      PROVE  Kept(m)
  <2>1. RowMove(m)
    BY NextRows DEF Inv, RowMoves
  <2>2. row[m].status \in {"sent", "deleted"} => Kept(m)
    BY DEF Inv, SentNotLost, Kept
  <2>3. Sending(m) => Kept(m)
    BY DEF Inv, Memory, Sending
  <2>4. Deleting(m) => row[m].status \in {"sent", "deleted"}
    BY DEF Inv, Memory, Deleting
  <2>5. Claimed(m) => row'[m].status = "processing"
    <3>1. row[m] \in RowType
      BY DEF Inv, TypeInv, TypeOK, RowType
    <3>2. QED BY <3>1 DEF Claimed, RowType
  <2>6. row'[m] = [row[m] EXCEPT !.lease = FALSE] => row'[m].status = row[m].status
    <3>1. row[m] \in RowType
      BY DEF Inv, TypeInv, TypeOK, RowType
    <3>2. QED BY <3>1, ExpireFields
  <2>7. ~Failing(m) /\ row'[m] # Row("pending", 0)
    BY <1>1, RowFields DEF Failing, StatusAfter
  <2>8. QED BY <1>1, <2>1, <2>2, <2>3, <2>4, <2>5, <2>6, <2>7 DEF RowMove
<1>2. \A m \in Msg : Kept(m) => Kept(m)'
  BY CarriedKept DEF Inv
<1>3. QED BY <1>1, <1>2 DEF SentNotLost, Kept

(* Without connection failures, an instance loses its connection only with  *)
(* its process, which gets a new one when it comes back.                    *)
LEMMA ConnectedKept ==
  ASSUME TypeInv, [Next]_vars, "conn" \notin Faults,
         NEW w \in Worker, conn[w] \/ worker[w].pc = "down"
  PROVE  conn'[w] \/ worker'[w].pc = "down"
<1>0. conn \in [Worker -> BOOLEAN] /\ worker \in [Worker -> WorkerType]
  BY DEF TypeInv, TypeOK, WorkerType
<1> USE <1>0 DEF workerVars, brokerVars, history
<1>1. ASSUME UNCHANGED conn, NEW v \in Worker, worker[v].pc # "down",
             \A u \in Worker : u # v => worker'[u] = worker[u]
      PROVE  conn'[w] \/ worker'[w].pc = "down"
  BY <1>1
<1>2. CASE UNCHANGED workerVars
  BY <1>2
<1>3. ASSUME NEW v \in Worker, Crash(v)
      PROVE  conn'[w] \/ worker'[w].pc = "down"
  BY <1>3 DEF Crash, Down, Idle
<1>4. ASSUME NEW v \in Worker, Restart(v)
      PROVE  conn'[w] \/ worker'[w].pc = "down"
  BY <1>4 DEF Restart
<1>5. CASE Next
  <2>1. CASE Trouble
    BY <1>1, <1>2, <1>3, <2>1 DEF Trouble, ClaimLost, MarkError, ExpireHeld, Expire, HandleFail
  <2>2. CASE \E n \in Msg : Insert(n) \/ ExpireAbandoned(n)
    BY <1>2, <2>2 DEF Insert, ExpireAbandoned, Expire
  <2>3. CASE \E v \in Worker : Claim(v) \/ PublishStep(v) \/ MarkFailed(v) \/ MarkSent(v)
    BY <1>1, <2>3 DEF Claim, PublishStep, Publish, PublishError, Turn, Published, MarkFailed, MarkSent
  <2>4. CASE \E v \in Worker : CleanupSelect(v) \/ CleanupDelete(v)
    BY <1>1, <2>4 DEF CleanupSelect, CleanupDelete
  <2>5. CASE \E v \in Worker, n \in Msg : Deliver(v, n) \/ PublishLost(v, n)
    BY <1>2, <2>5 DEF Deliver, PublishLost
  <2>6. CASE \E v \in Worker : ConsumeStep(v) \/ ConnClose(v) \/ Restart(v)
    BY <1>2, <1>4, <2>6 DEF ConsumeStep, HandleOk, Ack, ConnClose
  <2>7. QED BY <1>5, <2>1, <2>2, <2>3, <2>4, <2>5, <2>6 DEF Next
<1>6. CASE UNCHANGED vars
  BY <1>2, <1>6 DEF vars
<1>7. QED BY <1>5, <1>6

(* Only a closing connection drops a message. *)
LEMMA DroppedKept ==
  ASSUME [Next]_vars, "conn" \notin Faults
  PROVE  UNCHANGED dropped
  BY DEF Next, vars, history, Insert, ExpireAbandoned, Expire, Claim, PublishStep, Publish,
     PublishError, MarkFailed, MarkSent, CleanupSelect, CleanupDelete, Deliver, PublishLost,
     ConsumeStep, HandleOk, Ack, ConnClose, Restart, Trouble, ClaimLost, MarkError, Crash,
     ExpireHeld, HandleFail

LEMMA ReliableKept ==
  ASSUME Inv, [Next]_vars
  PROVE  Reliable'
<1> SUFFICES ASSUME "conn" \notin Faults
             PROVE  /\ \A w \in Worker : worker'[w].pc # "fail"
                                          /\ (conn'[w] \/ worker'[w].pc = "down")
                    /\ dropped' = {}
                    /\ \A m \in Msg : row'[m].status # "failed"
  BY DEF Reliable
<1>1. /\ \A w \in Worker : worker[w].pc # "fail" /\ (conn[w] \/ worker[w].pc = "down")
      /\ dropped = {}
      /\ \A m \in Msg : row[m].status # "failed"
  BY DEF Inv, Reliable
<1>2. \A w \in Worker : conn'[w] \/ worker'[w].pc = "down"
  BY <1>1, ConnectedKept DEF Inv
<1>3. ASSUME NEW w \in Worker
      PROVE  worker'[w].pc # "fail"
  <2>1. WorkerMove(w) /\ worker[w] \in WorkerType
    BY NextWorkers DEF Inv, TypeInv, TypeOK, WorkerType, WorkerMoves
  <2>2. ~Giving(w) /\ ~Resuming(w)
    BY <1>1 DEF Giving, Resuming
  <2>3. Resting(w) => worker'[w].pc # "fail"
    BY RestFields DEF Resting
  <2>4. Taking(w) => worker'[w].pc # "fail"
    BY DEF Taking, Idle
  <2>5. Selecting(w) => worker'[w].pc # "fail"
    BY DEF Selecting, Idle
  <2>6. Publishing(w) => worker'[w].pc # "fail"
    BY <2>1 DEF Publishing, WorkerType
  <2>7. QED BY <1>1, <2>1, <2>2, <2>3, <2>4, <2>5, <2>6 DEF WorkerMove
<1>4. ASSUME NEW m \in Msg
      PROVE  row'[m].status # "failed"
  <2>1. RowMove(m) /\ ~Failing(m) /\ row[m] \in RowType
    BY <1>1, NextRows DEF Inv, RowMoves, Failing, TypeInv, TypeOK, RowType
  <2>2. Claimed(m) => row'[m].status = "processing"
    BY <2>1 DEF Claimed, RowType
  <2>3. row'[m] = [row[m] EXCEPT !.lease = FALSE] => row'[m].status = row[m].status
    BY <2>1, ExpireFields
  <2>4. QED BY <1>1, <2>1, <2>2, <2>3, RowFields DEF RowMove, Sending, Deleting
<1>5. QED BY <1>1, <1>2, <1>3, <1>4, DroppedKept

----------------------------------------------------------------------------
(* The theorems *)

(* At the start there are no rows and no messages. *)
LEMMA InitInv == Init => Inv
<1> SUFFICES ASSUME Init PROVE Inv
  OBVIOUS
<1>1. Row("none", 0) \in RowType /\ Row("none", 0).status = "none" /\ Row("none", 0).retry = 0
  BY RowFields, RetryAssumption
<1>2. Idle \in WorkerType /\ Idle.pc = "idle" /\ Idle.todo = {} /\ Idle.sent = {} /\ Idle.del = {}
  BY RestFields, Zenon DEF Idle
<1>3. 0 \in 0 .. MaxCopies
  BY CopiesAssumption
<1>4. TypeInv
  BY <1>1, <1>2, <1>3 DEF Init, TypeInv, TypeOK, RowType, WorkerType
<1>5. RetryBudget /\ Unclaimed /\ SentNotLost
  BY <1>1 DEF Init, RetryBudget, Unclaimed, SentNotLost
<1>6. Memory /\ Reliable
  BY <1>1, <1>2 DEF Init, Memory, Reliable
<1>7. QED BY <1>4, <1>5, <1>6 DEF Inv

(* Every step keeps the invariant. *)
LEMMA NextInv == Inv /\ [Next]_vars => Inv'
<1> SUFFICES ASSUME Inv, [Next]_vars PROVE Inv'
  OBVIOUS
<1>1. row' \in [Msg -> RowType] /\ RetryBudget' /\ Unclaimed'
  BY NextRows, RowsKept DEF Inv
<1>2. \A w \in Worker : Remembers(w)'
  BY RemembersKept
<1>3. worker' = [w \in Worker |-> worker'[w]]
  BY NextWorkers DEF Inv, WorkerMoves
<1>4. worker' \in [Worker -> WorkerType]
  BY <1>2, <1>3 DEF Remembers
<1>5. BrokerOK'
  BY BrokerKept
<1>6. TypeInv'
  BY <1>1, <1>2, <1>4, <1>5 DEF TypeInv, TypeOK, RowType, WorkerType, Remembers, BrokerOK
<1>7. Memory'
  BY <1>2, <1>5 DEF Memory, Remembers, BrokerOK
<1>8. QED BY <1>1, <1>6, <1>7, SentKept, ReliableKept DEF Inv

(* The invariant holds of every behaviour of the outbox. *)
THEOREM OutboxInvariant == Spec => []Inv
<1>1. QED BY InitInv, NextInv, PTL DEF Spec

(* Rows, workers and broker are well typed in every reachable state.        *)
THEOREM OutboxTypeCorrect == Spec => []TypeOK
<1>1. Inv => TypeOK
  BY DEF Inv, TypeInv
<1>2. QED BY OutboxInvariant, <1>1, PTL

(* No message is retired as sent that is neither synced, nor carried by the *)
(* broker, nor swallowed by a closing connection.                           *)
THEOREM NoSentMessageLost == Spec => []SentNotLost
<1>1. Inv => SentNotLost
  BY DEF Inv
<1>2. QED BY OutboxInvariant, <1>1, PTL

(* A row is failed exactly when its retry budget is used up.                *)
THEOREM RetryBudgetExact == Spec => []RetryBudget
<1>1. Inv => RetryBudget
  BY DEF Inv
<1>2. QED BY OutboxInvariant, <1>1, PTL

(* No worker, however late, changes a row that was retired.                 *)
THEOREM RetiredRowsStay == Spec => TerminalStable
<1>1. Inv /\ [Next]_vars =>
        [\A m \in Msg :
          /\ row[m].status \in {"failed", "deleted"} => row'[m] = row[m]
          /\ row[m].status = "sent" => row'[m].status \in {"sent", "deleted"}]_vars
  BY NextRows, MoveRetired DEF Inv, RowMoves
<1>2. QED BY OutboxInvariant, <1>1, PTL DEF Spec, TerminalStable

(* While connections hold, every committed message is on its way to Redis,  *)
(* or has arrived: crashes, slow workers, stolen leases, lost commits and   *)
(* failed updates lose none, and the retry budget fails no row              *)
(* (repository/outbox.go:35-120, mq/rabbitmq.go:147-163).                   *)
THEOREM NoCommittedMessageLost ==
  ASSUME "conn" \notin Faults
  PROVE  Spec => [](\A m \in Msg : row[m].status # "none" => m \in InTransit \cup synced)
<1>1. ASSUME Inv, NEW m \in Msg, row[m].status # "none"
      PROVE  m \in InTransit \cup synced
  <2>1. row[m].status \in {"pending", "processing", "sent", "deleted"} /\ m \notin dropped
    BY <1>1 DEF Inv, TypeInv, TypeOK, Reliable
  <2>2. row[m].status \in {"sent", "deleted"} => Carried(m)
    BY <1>1, <2>1 DEF Inv, SentNotLost
  <2>3. QED BY <2>1, <2>2 DEF InTransit, Carried
<1>2. Inv => \A m \in Msg : row[m].status # "none" => m \in InTransit \cup synced
  BY <1>1
<1>3. QED BY OutboxInvariant, <1>2, PTL

(* What LiveClaimRespected asks of a step, for one row. *)
Respected(m) ==
  row[m].status = "processing" /\ row[m].lease /\ row'[m].owner # row[m].owner
    => worker'[row[m].owner] # worker[row[m].owner]

(* A row that is being processed under a lease is not claimable, and no     *)
(* worker is about to delete it; the UPDATEs of MarkOutboxFailed and        *)
(* MarkOutboxSentBatch select their worker's rows, and end with a new step  *)
(* of that worker.                                                          *)
LEMMA ClaimsRespected ==
  ASSUME Inv, [Next]_vars, NEW m \in Msg
  PROVE  Respected(m)
<1> SUFFICES ASSUME row[m].status = "processing", row[m].lease,
                    row'[m].owner # row[m].owner
             PROVE  worker'[row[m].owner] # worker[row[m].owner]
  BY DEF Respected
<1>0. /\ row \in [Msg -> RowType] /\ worker \in [Worker -> WorkerType]
      /\ ~Claimable(m) /\ \A w \in Worker : m \notin worker[w].del
  BY DEF Inv, TypeInv, TypeOK, RowType, WorkerType, Claimable, Memory
<1>1. row' # row
  OBVIOUS
<1>2. ASSUME NEW n \in Msg, Insert(n)
      PROVE  FALSE
  BY <1>0, <1>2 DEF Insert
<1>3. ASSUME NEW n \in Msg, Expire(n)
      PROVE  FALSE
  <2>1. row[n] \in RowType /\ row' = [row EXCEPT ![n].lease = FALSE]
    BY <1>0, <1>3 DEF Expire
  <2>2. row'[m].owner = row[m].owner
    BY <1>0, <2>1 DEF RowType
  <2>3. QED BY <2>2
<1>4. ASSUME NEW w \in Worker, NEW batch \in SUBSET Msg, NEW locked,
             IsBatch(batch, locked), Lock(batch, w)
      PROVE  FALSE
  BY <1>0, <1>4 DEF IsBatch, Lock
<1>5. ASSUME NEW w \in Worker, MarkFailed(w)
      PROVE  worker'[row[m].owner] # worker[row[m].owner]
  <2>1. \/ row' = row
        \/ Owns(w, worker[w].cur) /\ (\E r : row' = [row EXCEPT ![worker[w].cur] = r])
    BY <1>5 DEF MarkFailed
  <2>2. worker[w].cur = m /\ row[m].owner = w
    BY <1>0, <2>1 DEF Owns
  <2>3. worker'[w].pc = "publish" /\ worker[w].pc = "fail"
    BY <1>0, <1>5 DEF MarkFailed, WorkerType
  <2>4. QED BY <2>2, <2>3
<1>6. ASSUME NEW w \in Worker, MarkSent(w)
      PROVE  worker'[row[m].owner] # worker[row[m].owner]
  <2>1. row[m].owner = w
    BY <1>6 DEF MarkSent, Owns
  <2>2. worker'[w].pc = "cleanup" /\ worker[w].pc = "publish"
    BY <1>0, <1>6 DEF MarkSent, Idle
  <2>3. QED BY <2>1, <2>2
<1>7. ASSUME NEW w \in Worker, CleanupDelete(w)
      PROVE  FALSE
  BY <1>0, <1>7 DEF CleanupDelete
<1>8. CASE Next
  <2>1. CASE Trouble
    BY <1>1, <1>3, <1>4, <2>1 DEF Trouble, ClaimLost, MarkError, Crash, ExpireHeld, HandleFail
  <2>2. CASE \E n \in Msg : Insert(n) \/ ExpireAbandoned(n)
    BY <1>2, <1>3, <2>2 DEF ExpireAbandoned
  <2>3. CASE \E w \in Worker : Claim(w) \/ PublishStep(w) \/ MarkFailed(w) \/ MarkSent(w)
    BY <1>1, <1>4, <1>5, <1>6, <2>3 DEF Claim, PublishStep, Publish, PublishError
  <2>4. CASE \E w \in Worker : CleanupSelect(w) \/ CleanupDelete(w)
    BY <1>1, <1>7, <2>4 DEF CleanupSelect
  <2>5. CASE \E w \in Worker, n \in Msg : Deliver(w, n) \/ PublishLost(w, n)
    BY <1>1, <2>5 DEF Deliver, PublishLost
  <2>6. CASE \E w \in Worker : ConsumeStep(w) \/ ConnClose(w) \/ Restart(w)
    BY <1>1, <2>6 DEF ConsumeStep, HandleOk, Ack, ConnClose, Restart
  <2>7. QED BY <1>8, <2>1, <2>2, <2>3, <2>4, <2>5, <2>6 DEF Next
<1>9. CASE UNCHANGED vars
  BY <1>1, <1>9 DEF vars
<1>10. QED BY <1>8, <1>9

(* While the lease of a row runs, no other worker, however many there are,  *)
(* slow, late or restarted, takes it or overrules its owner.                *)
THEOREM LiveClaimsRespected == Spec => LiveClaimRespected
<1>1. Inv /\ [Next]_vars =>
        [\A m \in Msg :
          LET w == row[m].owner IN
          row[m].status = "processing" /\ row[m].lease /\ row'[m].owner # w
            => worker'[w] # worker[w]]_vars
  BY ClaimsRespected DEF Respected
<1>2. QED BY OutboxInvariant, <1>1, PTL DEF Spec, LiveClaimRespected

----------------------------------------------------------------------------
(* The outbox implements Mailbox: a step commits a message, handles one, or *)
(* forgets messages that are synced, unless connections may close.          *)

(* Only HandleOk syncs a message. *)
LEMMA SyncedBy ==
  ASSUME [Next]_vars
  PROVE  \/ UNCHANGED synced
         \/ \E w \in Worker, m \in Msg : HandleOk(w, m)
  BY DEF Next, vars, history, Insert, ExpireAbandoned, Expire, Claim, PublishStep,
     Publish, PublishError, MarkFailed, MarkSent, CleanupSelect, CleanupDelete, Deliver,
     PublishLost, ConsumeStep, Ack, ConnClose, Restart, Trouble, ClaimLost,
     MarkError, Crash, ExpireHeld, HandleFail

(* While connections hold, a message leaves the transit only when synced.   *)
LEMMA NothingForgotten ==
  ASSUME Inv, [Next]_vars, NEW m \in InTransit, m \notin InTransit'
  PROVE  "conn" \in Faults \/ m \in synced
<1> SUFFICES ASSUME "conn" \notin Faults, \A w \in Worker : m \notin acking[w]
             PROVE  m \in synced
  BY DEF Inv, Memory
<1>1. m \in Msg /\ row[m] \in RowType /\ row'[m] \in RowType /\ RowMove(m)
  BY NextRows, RowsKept DEF InTransit, Inv, TypeInv, TypeOK, RowType, RowMoves
<1>2. row[m].status # "none" => Kept(m)'
  <2>1. row[m].status # "none" => row'[m].status # "none"
    BY <1>1, MoveRetired
  <2>2. row'[m].status \notin {"pending", "processing"}
    BY <1>1 DEF InTransit
  <2>3. row'[m].status # "failed"
    BY <1>1, ReliableKept DEF Reliable
  <2>4. row[m].status # "none" => row'[m].status \in {"sent", "deleted"}
    BY <1>1, <2>1, <2>2, <2>3 DEF RowType
  <2>5. QED BY <1>1, <2>4, SentKept DEF SentNotLost, Kept
<1>3. Kept(m)'
  <2>1. CASE row[m].status \in {"pending", "processing"}
    BY <1>2, <2>1
  <2>2. CASE \E w \in Worker : m \in worker[w].todo
    BY <1>2, <2>2 DEF Inv, Memory
  <2>3. CASE queue[m] > 0 \/ \E w \in Worker : m \in unacked[w]
    BY <1>1, <2>3, CarriedKept DEF Inv, Kept, Carried
  <2>4. QED BY <2>1, <2>2, <2>3 DEF InTransit
<1>4. m \in synced'
  BY <1>1, <1>3, ReliableKept DEF Reliable, Kept, Carried, InTransit
<1>5. CASE UNCHANGED synced
  BY <1>4, <1>5
<1>6. ASSUME NEW w \in Worker, NEW n \in Msg, HandleOk(w, n)
      PROVE  m \in synced
  <2>1. n \in acking'[w]
    BY <1>6 DEF HandleOk, Inv, TypeInv, TypeOK
  <2>2. n \in InTransit'
    BY <2>1 DEF InTransit
  <2>3. QED BY <1>4, <1>6, <2>2 DEF HandleOk
<1>7. QED BY <1>5, <1>6, SyncedBy

(* A row that does not exist is only ever inserted. *)
LEMMA InsertedBy ==
  ASSUME Inv, [Next]_vars, NEW m \in Msg, row[m].status = "none", row'[m] # row[m]
  PROVE  Insert(m)
<1>0. row \in [Msg -> RowType]
  BY DEF Inv, TypeInv, TypeOK, RowType
<1>1. \A w \in Worker : ~Owns(w, m)
  BY DEF Owns
<1>2. ~Claimable(m) /\ \A w \in Worker : m \notin worker[w].del
  BY DEF Claimable, Inv, Memory
<1>3. ASSUME NEW n \in Msg, Insert(n)
      PROVE  Insert(m)
  BY <1>0, <1>3 DEF Insert
<1>4. ASSUME NEW n \in Msg, Expire(n)
      PROVE  FALSE
  BY <1>0, <1>4 DEF Expire
<1>5. ASSUME NEW w \in Worker, NEW batch \in SUBSET Msg, NEW locked,
             IsBatch(batch, locked), Lock(batch, w)
      PROVE  FALSE
  BY <1>2, <1>5 DEF IsBatch, Lock
<1>6. ASSUME NEW w \in Worker, MarkFailed(w)
      PROVE  FALSE
  <2>1. \/ row' = row
        \/ Owns(w, worker[w].cur) /\ (\E r : row' = [row EXCEPT ![worker[w].cur] = r])
    BY <1>6 DEF MarkFailed
  <2>2. CASE worker[w].cur = m
    BY <1>1, <2>1, <2>2
  <2>3. CASE worker[w].cur # m
    BY <1>0, <2>1, <2>3
  <2>4. QED BY <2>2, <2>3
<1>7. ASSUME NEW w \in Worker, MarkSent(w)
      PROVE  FALSE
  BY <1>1, <1>7 DEF MarkSent
<1>8. ASSUME NEW w \in Worker, CleanupDelete(w)
      PROVE  FALSE
  BY <1>2, <1>8 DEF CleanupDelete
<1>9. CASE Next
  <2>1. CASE Trouble
    BY <1>4, <1>5, <2>1 DEF Trouble, ClaimLost, MarkError, Crash, ExpireHeld, HandleFail
  <2>2. CASE \E n \in Msg : Insert(n) \/ ExpireAbandoned(n)
    BY <1>3, <1>4, <2>2 DEF ExpireAbandoned
  <2>3. CASE \E w \in Worker : Claim(w) \/ PublishStep(w) \/ MarkFailed(w) \/ MarkSent(w)
    BY <1>5, <1>6, <1>7, <2>3 DEF Claim, PublishStep, Publish, PublishError
  <2>4. CASE \E w \in Worker : CleanupSelect(w) \/ CleanupDelete(w)
    BY <1>8, <2>4 DEF CleanupSelect
  <2>5. CASE \E w \in Worker, n \in Msg : Deliver(w, n) \/ PublishLost(w, n)
    BY <2>5 DEF Deliver, PublishLost
  <2>6. CASE \E w \in Worker : ConsumeStep(w) \/ ConnClose(w) \/ Restart(w)
    BY <2>6 DEF ConsumeStep, HandleOk, Ack, ConnClose, Restart
  <2>7. QED BY <1>9, <2>1, <2>2, <2>3, <2>4, <2>5, <2>6 DEF Next
<1>10. CASE UNCHANGED vars
  BY <1>10 DEF vars
<1>11. QED BY <1>9, <1>10

(* Where the broker holds m. *)
Held(m) == queue[m] > 0 \/ \E w \in Worker : m \in unacked[w] \cup acking[w]

(* The broker gets its messages from the workers. *)
LEMMA HeldFrom ==
  ASSUME TypeInv, [Next]_vars, NEW m \in Msg, Held(m)', ~Held(m)
  PROVE  \E w \in Worker : m \in worker[w].todo
<1>0. /\ queue \in [Msg -> Nat] /\ queue[m] = 0
      /\ unacked \in [Worker -> SUBSET Msg] /\ acking \in [Worker -> SUBSET Msg]
  <2>1. queue \in [Msg -> Nat] /\ queue[m] \in Nat
    BY QueueType
  <2>2. queue[m] = 0
    BY <2>1 DEF Held
  <2>3. unacked \in [Worker -> SUBSET Msg] /\ acking \in [Worker -> SUBSET Msg]
    BY DEF TypeInv, TypeOK
  <2>4. QED BY <2>1, <2>2, <2>3
<1> USE <1>0 DEF Held, workerVars, brokerVars, history
<1>1. CASE UNCHANGED brokerVars
  BY <1>1
<1>2. ASSUME NEW w \in Worker, NEW n \in Msg, Publish(w, n)
      PROVE  n \in worker[w].todo /\ n = m
  BY <1>2 DEF Publish, Turn, Copies
<1>3. ASSUME NEW w \in Worker, Requeue(w)
      PROVE  FALSE
  BY <1>3 DEF Requeue
<1>4. ASSUME NEW w \in Worker, NEW n \in Msg,
             Deliver(w, n) \/ HandleOk(w, n) \/ Ack(w, n)
      PROVE  FALSE
  BY <1>4 DEF Deliver, HandleOk, Ack
<1>5. ASSUME NEW w \in Worker, NEW n \in Msg, HandleFail(w, n)
      PROVE  FALSE
  BY <1>5 DEF HandleFail, Nack, Copies
<1>6. CASE Next
  <2>1. CASE Trouble
    BY <1>1, <1>3, <1>5, <2>1 DEF Trouble, ClaimLost, MarkError, Crash, ExpireHeld, Expire
  <2>2. CASE \E n \in Msg : Insert(n) \/ ExpireAbandoned(n)
    BY <1>1, <2>2 DEF Insert, ExpireAbandoned, Expire
  <2>3. CASE \E w \in Worker : Claim(w) \/ PublishStep(w) \/ MarkFailed(w) \/ MarkSent(w)
    BY <1>1, <1>2, <2>3 DEF Claim, PublishStep, PublishError, MarkFailed, MarkSent
  <2>4. CASE \E w \in Worker : CleanupSelect(w) \/ CleanupDelete(w)
    BY <1>1, <2>4 DEF CleanupSelect, CleanupDelete
  <2>5. CASE \E w \in Worker, n \in Msg : Deliver(w, n) \/ PublishLost(w, n)
    BY <1>3, <1>4, <2>5 DEF PublishLost
  <2>6. CASE \E w \in Worker : ConsumeStep(w) \/ ConnClose(w) \/ Restart(w)
    BY <1>1, <1>3, <1>4, <2>6 DEF ConsumeStep, ConnClose, Restart
  <2>7. QED BY <1>6, <2>1, <2>2, <2>3, <2>4, <2>5, <2>6 DEF Next
<1>7. CASE UNCHANGED vars
  BY <1>1, <1>7 DEF vars
<1>8. QED BY <1>6, <1>7

(* Only a row that is inserted enters the transit.                          *)
LEMMA NothingInvented ==
  ASSUME Inv, [Next]_vars, NEW m \in InTransit', m \notin InTransit
  PROVE  Insert(m)
<1>1. m \in Msg /\ RowMove(m) /\ row[m] \in RowType
  BY NextRows DEF InTransit, Inv, RowMoves, TypeInv, TypeOK, RowType
<1>2. /\ row[m].status \notin {"pending", "processing"}
      /\ \A w \in Worker : m \notin worker[w].todo
      /\ ~Held(m)
  BY <1>1 DEF InTransit, Held
<1>3. ~Held(m)'
  BY <1>1, <1>2, HeldFrom DEF Inv
<1>4. CASE row'[m].status \in {"pending", "processing"}
  <2>1. row[m].status = "none"
    BY <1>1, <1>2, <1>4, MoveTo, RowFields
  <2>2. row'[m] # row[m]
    BY <1>4, <2>1
  <2>3. QED BY <1>1, <2>1, <2>2, InsertedBy
<1>5. CASE \E w \in Worker : m \in worker'[w].todo
  <2>1. PICK w \in Worker : m \in worker'[w].todo
    BY <1>5
  <2>2. WorkerMove(w) /\ worker[w] \in WorkerType
    BY NextWorkers DEF Inv, WorkerMoves, TypeInv, TypeOK, WorkerType
  <2>3. ~Resting(w)
    BY <2>1, RestFields DEF Resting
  <2>4. ~Taking(w)
    <3>1. ASSUME NEW batch \in SUBSET Msg, worker'[w] = [Idle EXCEPT !.pc = "publish", !.todo = batch]
          PROVE  m \in batch
      BY <2>1, <3>1, TakeFields, Zenon
    <3>2. QED BY <1>2, <3>1 DEF Taking
  <2>5. ~Publishing(w)
    BY <1>2, <2>1, <2>2 DEF Publishing, WorkerType
  <2>6. ~Giving(w) /\ ~Resuming(w)
    BY <1>2, <2>1, <2>2 DEF Giving, Resuming, WorkerType
  <2>7. ~Selecting(w)
    BY <2>1, SelectFields DEF Selecting
  <2>8. QED BY <1>2, <2>1, <2>2, <2>3, <2>4, <2>5, <2>6, <2>7 DEF WorkerMove
<1>6. QED BY <1>1, <1>3, <1>4, <1>5 DEF InTransit, Held

PostedRows == {m \in Msg : row[m].status # "none"}

(* An insertion commits one message. *)
LEMMA InsertCommits ==
  ASSUME Inv, NEW m \in Msg, Insert(m)
  PROVE  Post!Commit(m)
<1>1. row \in [Msg -> RowType] /\ Row("pending", 0).status = "pending"
  BY RowFields DEF Inv, TypeInv, TypeOK, RowType
<1>2. row'[m].status = "pending" /\ \A n \in Msg : n # m => row'[n] = row[n]
  BY <1>1 DEF Insert
<1>3. PostedRows' = PostedRows \cup {m} /\ m \notin PostedRows
  BY <1>2 DEF PostedRows, Insert
<1>4. InTransit' = InTransit \cup {m}
  BY <1>2 DEF InTransit, Insert, workerVars, brokerVars
<1>5. UNCHANGED synced
  BY DEF Insert, history
<1>6. QED BY <1>3, <1>4, <1>5 DEF Post!Commit, PostedRows

(* A delivery that is handled stays in transit until it is acknowledged. *)
LEMMA HandleHandles ==
  ASSUME Inv, NEW w \in Worker, NEW m \in Msg, HandleOk(w, m)
  PROVE  Post!Handle(m)
<1>1. unacked \in [Worker -> SUBSET Msg] /\ acking \in [Worker -> SUBSET Msg]
  BY DEF Inv, TypeInv, TypeOK
<1>2. m \in InTransit
  BY DEF HandleOk, InTransit
<1>3. \A v \in Worker : unacked'[v] \cup acking'[v] = unacked[v] \cup acking[v]
  BY <1>1 DEF HandleOk
<1>4. InTransit' = InTransit
  BY <1>3 DEF InTransit, HandleOk, workerVars
<1>5. QED BY <1>2, <1>4 DEF Post!Handle, HandleOk

(* Every other step forgets. *)
LEMMA OtherForgets ==
  ASSUME Inv, [Next]_vars, ~\E m \in Msg : Insert(m), UNCHANGED synced
  PROVE  \E gone \in SUBSET InTransit : Post!Forget(gone)
<1>1. InTransit' \subseteq InTransit
  BY NothingInvented DEF InTransit
<1>2. \A m \in Msg : row'[m].status = "none" <=> row[m].status = "none"
  BY InsertedBy, NextRows, MoveRetired DEF Inv, RowMoves
<1>3. UNCHANGED PostedRows
  BY <1>2 DEF PostedRows
<1>4. "conn" \in Faults \/ InTransit \ InTransit' \subseteq synced
  BY NothingForgotten
<1>5. InTransit' = InTransit \ (InTransit \ InTransit')
  BY <1>1
<1>6. Post!Forget(InTransit \ InTransit')
  BY <1>3, <1>4, <1>5 DEF Post!Forget, PostedRows
<1>7. QED BY <1>6

(* At the start nothing is posted. *)
LEMMA InitMailbox == Init => Post!Init
<1> SUFFICES ASSUME Init PROVE Post!Init
  OBVIOUS
<1>1. \A m \in Msg : row[m].status = "none" /\ queue[m] = 0
  BY RowFields DEF Init
<1>2. \A w \in Worker : worker[w].todo = {} /\ unacked[w] = {} /\ acking[w] = {}
  BY DEF Init, Idle
<1>3. InTransit = {} /\ PostedRows = {}
  BY <1>1, <1>2 DEF InTransit, PostedRows
<1>4. QED BY <1>3 DEF Init, Post!Init, PostedRows

(* Every step of the outbox is one of the mailbox. *)
LEMMA NextMailbox == Inv /\ [Next]_vars => [Post!Next]_(Post!vars)
<1> SUFFICES ASSUME Inv, [Next]_vars PROVE [Post!Next]_(Post!vars)
  OBVIOUS
<1>1. CASE \E m \in Msg : Insert(m)
  BY <1>1, InsertCommits DEF Post!Next
<1>2. CASE \E w \in Worker, m \in Msg : HandleOk(w, m)
  BY <1>2, HandleHandles DEF Post!Next
<1>3. CASE UNCHANGED synced /\ ~\E m \in Msg : Insert(m)
  BY <1>3, OtherForgets DEF Post!Next
<1>4. QED BY <1>1, <1>2, <1>3, SyncedBy

(* At-least-once delivery: for any number of workers, crashes, slow owners, *)
(* lost commits and requeues, the outbox with RabbitMQ is a Mailbox, which  *)
(* forgets no message that was not handled unless connections may close.    *)
THEOREM OutboxIsMailbox == Spec => ImplementsMailbox
<1>1. QED BY OutboxInvariant, InitMailbox, NextMailbox, PTL DEF Spec, ImplementsMailbox, Post!Spec
=============================================================================
