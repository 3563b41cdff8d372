------------------------------- MODULE Outbox ------------------------------
(***************************************************************************)
(* The transactional outbox: the table outbox_messages, the OutboxWorker   *)
(* of every application instance that claims rows under a lease and        *)
(* publishes them, the RabbitMQ queue, and the consumer of every instance. *)
(* Rows are numbered in the order of created_at.                           *)
(*                                                                         *)
(* An instance has one AMQP connection for both roles.  Nothing redials it *)
(* and nothing notices its loss: Publish then fails, Consume returns.      *)
(***************************************************************************)
EXTENDS Integers, FiniteSets

CONSTANTS
  Msg,        \* outbox rows, in created_at order
  Worker,     \* application instances
  MaxRetry,   \* outboxMaxRetry
  BatchSize,  \* outboxBatchSize
  MaxCopies,  \* bound: copies of a message counted in the queue
  Faults      \* which failures happen: a subset of FaultKinds

FaultKinds == {"db", "crash", "conn", "slow", "redis"}

ASSUME MsgAssumption    == Msg \subseteq Nat \ {0}
ASSUME WorkerAssumption == "" \notin Worker
ASSUME RetryAssumption  == MaxRetry \in Nat \ {0}
ASSUME BatchAssumption  == BatchSize \in Nat \ {0}
ASSUME CopiesAssumption == MaxCopies \in Nat \ {0}
ASSUME FaultAssumption  == Faults \subseteq FaultKinds

VARIABLES
  row,       \* per message: [status, retry, owner, lease], lease = not expired
  worker,    \* per instance, the local state of processPending
  conn,      \* per instance: the AMQP connection is open
  queue,     \* per message, copies ready in the queue
  unacked,   \* per instance, deliveries not handled yet
  acking,    \* per instance, deliveries handled and not acknowledged yet
  synced,    \* history: messages a consumer has written to Redis
  dropped    \* history: messages a closing connection has swallowed

workerVars == <<worker, conn>>
brokerVars == <<queue, unacked, acking>>
history    == <<synced, dropped>>
vars == <<row, workerVars, brokerVars, history>>

Row(status, retry) == [status |-> status, retry |-> retry, owner |-> "", lease |-> FALSE]
Idle == [pc |-> "idle", todo |-> {}, cur |-> 0, sent |-> {}, del |-> {}]
Down == [Idle EXCEPT !.pc = "down"]

TypeOK ==
  /\ row \in [Msg -> [status : {"none", "pending", "processing", "sent", "failed", "deleted"},
                      retry : 0 .. MaxRetry, owner : Worker \cup {""}, lease : BOOLEAN]]
  /\ worker \in [Worker ->
       [pc : {"idle", "publish", "fail", "cleanup", "delete", "down"},
        todo : SUBSET Msg, cur : Msg \cup {0}, sent : SUBSET Msg, del : SUBSET Msg]]
  /\ conn \in [Worker -> BOOLEAN]
  /\ queue \in [Msg -> 0 .. MaxCopies]
  /\ unacked \in [Worker -> SUBSET Msg]
  /\ acking \in [Worker -> SUBSET Msg]
  /\ synced \subseteq Msg
  /\ dropped \subseteq Msg

----------------------------------------------------------------------------
(* The table *)

(* The transaction of Create adds a row. *)
Insert(m) ==
  /\ row[m].status = "none"
  /\ row' = [row EXCEPT ![m] = Row("pending", 0)]
  /\ UNCHANGED <<workerVars, brokerVars, history>>

(* Mutant: rows being processed are claimable whatever their lease. *)
ClaimableAnyLease(m) == row[m].status \in {"pending", "processing"}

(* Mutant: expired leases are not taken over. *)
ClaimablePendingOnly(m) == row[m].status = "pending"

(* status = pending, or processing with locked_until in the past. *)
Claimable(m) ==
  \/ row[m].status = "pending"
  \/ row[m].status = "processing" /\ ~row[m].lease

(* Rows that SKIP LOCKED may pass over: claims of other instances that are  *)
(* not committed yet, or roll back, lock them.                              *)
Locked(w) == IF Worker = {w} THEN {{}} ELSE SUBSET Msg

(* The oldest BatchSize claimable rows, but for those that are locked.      *)
IsBatch(batch, locked) ==
  LET rest == {n \in Msg \ (batch \cup locked) : Claimable(n)} IN
  /\ batch # {} /\ batch \cap locked = {}
  /\ \A m \in batch : Claimable(m)
  /\ \A m \in batch, n \in rest : m < n
  /\ \/ Cardinality(batch) = BatchSize
     \/ Cardinality(batch) < BatchSize /\ rest = {}

(* Mutant: worker_id is not the one the instance was created with. *)
LockAnonymously(batch, w) ==
  row' = [m \in Msg |-> IF m \in batch
                        THEN [row[m] EXCEPT !.status = "processing",
                                            !.owner = "unknown", !.lease = TRUE]
                        ELSE row[m]]

Lock(batch, w) ==
  row' = [m \in Msg |-> IF m \in batch
                        THEN [row[m] EXCEPT !.status = "processing",
                                            !.owner = w, !.lease = TRUE]
                        ELSE row[m]]

(* Mutant: the UPDATEs select by id only. *)
OwnsById(w, m) == TRUE

(* WHERE status = 'processing' AND worker_id = w. *)
Owns(w, m) == row[m].status = "processing" /\ row[m].owner = w

----------------------------------------------------------------------------
(* OutboxWorker.processPending *)

Working(w) == worker[w].pc \notin {"idle", "down"}

(* ClaimPendingOutbox: SELECT ... FOR UPDATE SKIP LOCKED, UPDATE, COMMIT. *)
Claim(w) ==
  /\ worker[w].pc = "idle"
  /\ \E batch \in SUBSET Msg, locked \in Locked(w) :
       /\ IsBatch(batch, locked)
       /\ Lock(batch, w)
       /\ worker' = [worker EXCEPT ![w] = [Idle EXCEPT !.pc = "publish", !.todo = batch]]
  /\ UNCHANGED <<conn, brokerVars, history>>

(* COMMIT took effect but returned an error: the worker gives the batch up. *)
ClaimLost(w) ==
  /\ "db" \in Faults
  /\ worker[w].pc = "idle"
  /\ \E batch \in SUBSET Msg, locked \in Locked(w) :
       IsBatch(batch, locked) /\ Lock(batch, w)
  /\ UNCHANGED <<workerVars, brokerVars, history>>

(* The next message of the batch. *)
Turn(w, m) ==
  /\ worker[w].pc = "publish" /\ m \in worker[w].todo
  /\ \A n \in worker[w].todo : m <= n

Published(w, m) ==
  worker' = [worker EXCEPT ![w].todo = @ \ {m}, ![w].sent = @ \cup {m}]

Copies(m, k) == queue' = [queue EXCEPT ![m] = IF @ + k > MaxCopies THEN MaxCopies ELSE @ + k]

(* Publish returns nil and the broker has the message. *)
Publish(w, m) ==
  /\ Turn(w, m) /\ conn[w]
  /\ Published(w, m)
  /\ Copies(m, 1)
  /\ UNCHANGED <<row, conn, unacked, acking, history>>

(* The connection of w closes: its unacknowledged deliveries are requeued. *)
Requeue(w) ==
  /\ queue' = [m \in Msg |-> IF m \in unacked[w] \cup acking[w] /\ queue[m] < MaxCopies
                             THEN queue[m] + 1 ELSE queue[m]]
  /\ unacked' = [unacked EXCEPT ![w] = {}]
  /\ acking' = [acking EXCEPT ![w] = {}]

(* Publish returns nil, without confirms: the frame was written to a        *)
(* connection that closes before the broker has it.                         *)
PublishLost(w, m) ==
  /\ "conn" \in Faults
  /\ Turn(w, m) /\ conn[w]
  /\ Published(w, m)
  /\ conn' = [conn EXCEPT ![w] = FALSE]
  /\ Requeue(w)
  /\ dropped' = dropped \cup {m}
  /\ UNCHANGED <<row, synced>>

(* Publish on a closed channel returns an error. *)
PublishError(w, m) ==
  /\ Turn(w, m) /\ ~conn[w]
  /\ worker' = [worker EXCEPT ![w].pc = "fail", ![w].cur = m, ![w].todo = @ \ {m}]
  /\ UNCHANGED <<row, conn, brokerVars, history>>

(* Mutant: a row is failed once it has used more than MaxRetry attempts.     *)
StatusAfterTooLate(count) == IF count > MaxRetry THEN "failed" ELSE "pending"

(* CASE WHEN retry_count + 1 >= maxRetry.  MySQL assigns from left to right: *)
(* retry_count has been incremented already, to `count'.                     *)
StatusAfter(count) == IF count + 1 >= MaxRetry THEN "failed" ELSE "pending"

(* MarkOutboxFailed. *)
MarkFailed(w) ==
  LET m == worker[w].cur  count == row[m].retry + 1 IN
  /\ worker[w].pc = "fail"
  /\ row' = IF Owns(w, m)
            THEN [row EXCEPT ![m] = Row(StatusAfter(count), count)]
            ELSE row
  /\ worker' = [worker EXCEPT ![w].pc = "publish", ![w].cur = 0]
  /\ UNCHANGED <<conn, brokerVars, history>>

(* MarkOutboxSentBatch, at the end of the batch. *)
MarkSent(w) ==
  /\ worker[w].pc = "publish" /\ worker[w].todo = {}
  /\ row' = [m \in Msg |-> IF m \in worker[w].sent /\ Owns(w, m)
                           THEN Row("sent", row[m].retry) ELSE row[m]]
  /\ worker' = [worker EXCEPT ![w] = [Idle EXCEPT !.pc = "cleanup"]]
  /\ UNCHANGED <<conn, brokerVars, history>>

(* Either UPDATE fails: it is logged, and the rows stay in processing.      *)
MarkError(w) ==
  /\ "db" \in Faults
  /\ \/ /\ worker[w].pc = "fail"
        /\ worker' = [worker EXCEPT ![w].pc = "publish", ![w].cur = 0]
     \/ /\ worker[w].pc = "publish" /\ worker[w].todo = {}
        /\ worker' = [worker EXCEPT ![w] = [Idle EXCEPT !.pc = "cleanup"]]
  /\ UNCHANGED <<row, conn, brokerVars, history>>

(* DeleteSentOutbox selects sent rows that are old enough; the cleanup is   *)
(* not due, its SELECT fails or finds nothing otherwise.                    *)
CleanupSelect(w) ==
  /\ worker[w].pc = "cleanup"
  /\ \E del \in SUBSET {m \in Msg : row[m].status = "sent"} :
       worker' = [worker EXCEPT ![w] =
                    IF del = {} THEN Idle ELSE [Idle EXCEPT !.pc = "delete", !.del = del]]
  /\ UNCHANGED <<row, conn, brokerVars, history>>

CleanupDelete(w) ==
  /\ worker[w].pc = "delete"
  /\ row' = [m \in Msg |-> IF m \in worker[w].del THEN Row("deleted", row[m].retry) ELSE row[m]]
  /\ worker' = [worker EXCEPT ![w] = Idle]
  /\ UNCHANGED <<conn, brokerVars, history>>

----------------------------------------------------------------------------
(* Time *)

Holds(w, m) == Working(w) /\ (m \in worker[w].todo \cup worker[w].sent \/ worker[w].cur = m)

(* locked_until passes: while a slow owner still works on the row, or after *)
(* its owner has abandoned it.                                              *)
Expire(m) ==
  /\ row[m].status = "processing" /\ row[m].lease
  /\ row' = [row EXCEPT ![m].lease = FALSE]
  /\ UNCHANGED <<workerVars, brokerVars, history>>

ExpireHeld(m) == "slow" \in Faults /\ Expire(m) /\ Holds(row[m].owner, m)
ExpireAbandoned(m) == Expire(m) /\ ~Holds(row[m].owner, m)

----------------------------------------------------------------------------
(* RabbitMQ.Consume and the callback handleMessage *)

(* No Qos is set: the broker pushes to any consumer. *)
Deliver(w, m) ==
  /\ conn[w] /\ queue[m] > 0 /\ m \notin unacked[w] \cup acking[w]
  /\ queue' = [queue EXCEPT ![m] = @ - 1]
  /\ unacked' = [unacked EXCEPT ![w] = @ \cup {m}]
  /\ UNCHANGED <<row, workerVars, acking, history>>

HandleOk(w, m) ==
  /\ m \in unacked[w]
  /\ unacked' = [unacked EXCEPT ![w] = @ \ {m}]
  /\ acking' = [acking EXCEPT ![w] = @ \cup {m}]
  /\ synced' = synced \cup {m}
  /\ UNCHANGED <<row, workerVars, queue, dropped>>

Ack(w, m) ==
  /\ m \in acking[w]
  /\ acking' = [acking EXCEPT ![w] = @ \ {m}]
  /\ UNCHANGED <<row, workerVars, queue, unacked, history>>

(* Mutant: a failed message is rejected without requeue. *)
NackDiscard(m) == UNCHANGED queue

Nack(m) == Copies(m, 1)

HandleFail(w, m) ==
  /\ "redis" \in Faults
  /\ m \in unacked[w]
  /\ unacked' = [unacked EXCEPT ![w] = @ \ {m}]
  /\ Nack(m)
  /\ UNCHANGED <<row, workerVars, acking, history>>

----------------------------------------------------------------------------
(* Loss of a connection, of a process *)

ConnClose(w) ==
  /\ "conn" \in Faults /\ conn[w]
  /\ conn' = [conn EXCEPT ![w] = FALSE]
  /\ Requeue(w)
  /\ UNCHANGED <<row, worker, history>>

(* A kill, or a shutdown: main returns without waiting for the worker. *)
Crash(w) ==
  /\ "crash" \in Faults /\ worker[w].pc # "down"
  /\ worker' = [worker EXCEPT ![w] = Down]
  /\ conn' = [conn EXCEPT ![w] = FALSE]
  /\ Requeue(w)
  /\ UNCHANGED <<row, history>>

Restart(w) ==
  /\ worker[w].pc = "down"
  /\ worker' = [worker EXCEPT ![w] = Idle]
  /\ conn' = [conn EXCEPT ![w] = TRUE]
  /\ UNCHANGED <<row, brokerVars, history>>

----------------------------------------------------------------------------
Init ==
  /\ row = [m \in Msg |-> Row("none", 0)]
  /\ worker = [w \in Worker |-> Idle]
  /\ conn = [w \in Worker |-> TRUE]
  /\ queue = [m \in Msg |-> 0]
  /\ unacked = [w \in Worker |-> {}]
  /\ acking = [w \in Worker |-> {}]
  /\ synced = {}
  /\ dropped = {}

PublishStep(w) == \E m \in Msg : Publish(w, m) \/ PublishError(w, m)
ConsumeStep(w) == \E m \in Msg : HandleOk(w, m) \/ Ack(w, m)

(* What may go wrong any number of times. *)
Trouble ==
  \/ \E w \in Worker : ClaimLost(w) \/ MarkError(w) \/ Crash(w)
  \/ \E m \in Msg : ExpireHeld(m)
  \/ \E w \in Worker, m \in Msg : HandleFail(w, m)

Next ==
  \/ \E m \in Msg : Insert(m) \/ ExpireAbandoned(m)
  \/ \E w \in Worker : Claim(w) \/ PublishStep(w) \/ MarkFailed(w) \/ MarkSent(w)
  \/ \E w \in Worker : CleanupSelect(w) \/ CleanupDelete(w)
  \/ \E w \in Worker, m \in Msg : Deliver(w, m) \/ PublishLost(w, m)
  \/ \E w \in Worker : ConsumeStep(w) \/ ConnClose(w) \/ Restart(w)
  \/ Trouble

Spec == Init /\ [][Next]_vars

(* The polling loop and the consumer loop run, leases run out, the broker   *)
(* delivers, crashed processes are restarted.                               *)
Fairness ==
  /\ \A w \in Worker :
       /\ WF_vars(Claim(w)) /\ WF_vars(PublishStep(w))
       /\ WF_vars(MarkFailed(w)) /\ WF_vars(MarkSent(w))
       /\ WF_vars(CleanupSelect(w)) /\ WF_vars(CleanupDelete(w))
       /\ WF_vars(ConsumeStep(w)) /\ WF_vars(Restart(w))
  /\ \A m \in Msg :
       WF_vars(ExpireAbandoned(m)) /\ WF_vars(\E w \in Worker : Deliver(w, m))

FairSpec == Spec /\ Fairness

----------------------------------------------------------------------------
(* Properties *)

(* A copy of m is on its way to Redis, or arrived there. *)
Carried(m) == m \in synced \/ queue[m] > 0 \/ \E w \in Worker : m \in unacked[w]

(* A message is retired as sent, or deleted, only while the broker still    *)
(* carries it or a consumer has synced it: crashes between publication and  *)
(* acknowledgement, stolen leases, lost commits and requeues lose nothing.  *)
(* Only a connection that closes under an unconfirmed publication does.     *)
SentNotLost ==
  \A m \in Msg : row[m].status \in {"sent", "deleted"} => Carried(m) \/ m \in dropped

(* The retry budget: whoever counted a row's attempts and however claims     *)
(* overlapped, it is failed exactly when MaxRetry - 1 of them, and at least  *)
(* one, have failed.                                                         *)
RetryBudget ==
  \A m \in Msg :
    row[m].status = "failed" <=> row[m].retry > 0 /\ row[m].retry + 1 >= MaxRetry

(* A retired row stays retired: a worker whose lease was stolen does not    *)
(* resurrect, or overrule, what another worker has decided.                 *)
TerminalStable ==
  [][\A m \in Msg :
       /\ row[m].status \in {"failed", "deleted"} => row'[m] = row[m]
       /\ row[m].status = "sent" => row'[m].status \in {"sent", "deleted"}]_vars

(* While its lease runs, a row is changed only by a step of its owner.      *)
LiveClaimRespected ==
  [][\A m \in Msg :
       LET w == row[m].owner IN
       row[m].status = "processing" /\ row[m].lease /\ row'[m].owner # w
         => worker'[w] # worker[w]]_vars

(* Once the troubles stop, and while one instance keeps its connection,     *)
(* every committed row is synced to Redis, or is failed by an instance that *)
(* has lost its connection, or was swallowed by the one that closed.        *)
Calm == <>[][~Trouble]_vars /\ \E w \in Worker : []<>conn[w]

EventuallySettled ==
  Calm => \A m \in Msg :
            row[m].status # "none" ~>
              m \in synced \cup dropped \/ row[m].status = "failed"

(* What the rest of the system relies on: the outbox is a mailbox that      *)
(* delivers at least once, and loses a message only if connections close.   *)
InTransit ==
  {m \in Msg : \/ row[m].status \in {"pending", "processing"} \/ queue[m] > 0
               \/ \E w \in Worker : m \in worker[w].todo \cup unacked[w] \cup acking[w]}

Post == INSTANCE Mailbox WITH mail <- InTransit, handled <- synced,
                              posted <- {m \in Msg : row[m].status # "none"},
                              Lossy <- "conn" \in Faults

ImplementsMailbox == Post!Spec

----------------------------------------------------------------------------
(* repository/outbox.go:98: a row is marked as failed when the maximum of   *)
(* retries is exceeded, not before.                                         *)
FailedOnlyAfterMaxRetry ==
  \A m \in Msg : row[m].status = "failed" => row[m].retry >= MaxRetry
============================================================================
