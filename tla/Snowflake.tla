----------------------------- MODULE Snowflake -----------------------------
(***************************************************************************)
(* pkg/snowflake: every pod has one Node, whose Generate runs under a      *)
(* mutex, and a wall clock in milliseconds.  Clocks advance independently  *)
(* and may be set back.  Sleeps are measured by the monotonic clock, which *)
(* a setback does not touch.                                               *)
(***************************************************************************)
EXTENDS Integers

CONSTANTS
  Pod,          \* processes
  Crc,          \* per pod, crc32 of its IP address, or NoAddress
  NoAddress,
  Nodes,        \* nodeMax + 1
  Steps,        \* stepMax + 1
  Epoch,        \* epoch
  MaxBackward,  \* maxBackwardMs
  MaxTime,      \* bound: clocks run from 1 to MaxTime
  Setbacks,     \* per pod, when its clock may be set back
  Restarts      \* the pods whose process may restart

Moments == {"idle", "sleep"}

ASSUME NodeAssumption == Crc \in [Pod -> Nat \cup {NoAddress}] /\ NoAddress \notin Nat
ASSUME FieldAssumption == Nodes \in Nat \ {0, 1} /\ Steps \in Nat \ {0} /\ Epoch \in Int
ASSUME TimeAssumption == MaxBackward \in Nat /\ MaxTime \in Nat \ {0}
ASSUME SetbackAssumption == Setbacks \in [Pod -> SUBSET Moments]
ASSUME RestartAssumption == Restarts \subseteq Pod

VARIABLES
  clock,     \* per pod, time.Now().UnixMilli()
  gen,       \* per pod: n.timestamp, n.step and where Generate is
  ids,       \* history: every id generated
  repeated   \* history: the ids generated more than once

vars == <<clock, gen, ids, repeated>>

(* FetchWorkerIDByIP: a pod that finds no address is node 1. *)
NodeOf(p) == IF Crc[p] = NoAddress THEN 1 ELSE Crc[p] % Nodes

(* The bit fields of an id, as shifts and ors of numbers within their width. *)
Id(now, node, step) == ((now - Epoch) * Nodes + node) * Steps + step

TimeOf(id) == (id \div Steps) \div Nodes + Epoch
NodeField(id) == (id \div Steps) % Nodes

At(pc, timestamp, step, left) ==
  [pc |-> pc, timestamp |-> timestamp, step |-> step, left |-> left]

Fresh == At("idle", 0, 0, 0)

Generator ==
  [pc : {"idle", "sleep", "spin", "down"}, timestamp : 0 .. MaxTime,
   step : 0 .. Steps - 1, left : 0 .. MaxBackward + 1]

TypeOK ==
  /\ clock \in [Pod -> 1 .. MaxTime]
  /\ gen \in [Pod -> Generator]
  /\ ids \subseteq Int
  /\ repeated \subseteq ids

----------------------------------------------------------------------------
(* n.timestamp = now; the id is returned. *)
Emit(p, now, step) ==
  LET id == Id(now, NodeOf(p), step) IN
  /\ gen' = [gen EXCEPT ![p] = At("idle", now, step, 0)]
  /\ ids' = ids \cup {id}
  /\ repeated' = IF id \in ids THEN repeated \cup {id} ELSE repeated

(* Mutant: the sequence is not masked. *)
AssignUnmasked(p, now) ==
  Emit(p, now, IF now = gen[p].timestamp THEN gen[p].step + 1 ELSE 0)

(* Mutant: the sequence wraps without waiting for the next millisecond. *)
AssignWithoutWait(p, now) ==
  Emit(p, now, IF now = gen[p].timestamp THEN (gen[p].step + 1) % Steps ELSE 0)

(* The tail of Generate once `now' is accepted.  It compares for equality   *)
(* only: any other `now', a smaller one too, restarts the sequence.         *)
Assign(p, now) ==
  LET next == (gen[p].step + 1) % Steps IN
  \/ /\ now # gen[p].timestamp
     /\ Emit(p, now, 0)
  \/ /\ now = gen[p].timestamp /\ next # 0
     /\ Emit(p, now, next)
  \/ /\ now = gen[p].timestamp /\ next = 0
     /\ gen' = [gen EXCEPT ![p] = At("spin", now, 0, 0)]
     /\ UNCHANGED <<ids, repeated>>

(* Mutant: the setback is not waited for. *)
BehindNever(p) == FALSE

Behind(p) == clock[p] < gen[p].timestamp

(* Generate takes the lock and reads the clock.  A severe setback returns   *)
(* an error and changes nothing.                                            *)
Generate(p) ==
  LET back == gen[p].timestamp - clock[p] IN
  /\ gen[p].pc = "idle"
  /\ \/ ~Behind(p) /\ Assign(p, clock[p])
     \/ /\ Behind(p) /\ back <= MaxBackward
        /\ gen' = [gen EXCEPT ![p].pc = "sleep", ![p].left = back]
        /\ UNCHANGED <<ids, repeated>>
  /\ UNCHANGED clock

(* After the sleep the clock is read again, and not compared again. *)
Wake(p) ==
  /\ gen[p].pc = "sleep" /\ gen[p].left = 0
  /\ Assign(p, clock[p])
  /\ UNCHANGED clock

(* The spin ends when the clock has passed the timestamp. *)
SpinEnd(p) ==
  /\ gen[p].pc = "spin" /\ clock[p] > gen[p].timestamp
  /\ Emit(p, clock[p], 0)
  /\ UNCHANGED clock

----------------------------------------------------------------------------
(* A millisecond passes on p; a sleep, or a restart, gets shorter by it. *)
Tick(p) ==
  /\ clock[p] < MaxTime
  /\ clock' = [clock EXCEPT ![p] = @ + 1]
  /\ gen' = [gen EXCEPT ![p].left = IF @ = 0 THEN 0 ELSE @ - 1]
  /\ UNCHANGED <<ids, repeated>>

(* NTP sets the clock of p back. *)
SetBack(p) ==
  /\ (IF gen[p].pc = "sleep" THEN "sleep" ELSE "idle") \in Setbacks[p]
  /\ \E now \in 1 .. clock[p] - 1 : clock' = [clock EXCEPT ![p] = now]
  /\ UNCHANGED <<gen, ids, repeated>>

(* The process dies; the new one has no timestamp and is up no sooner than  *)
(* the next millisecond.  The new process has the same address.             *)
Kill(p) ==
  /\ p \in Restarts /\ gen[p].pc # "down"
  /\ gen' = [gen EXCEPT ![p] = At("down", 0, 0, 1)]
  /\ UNCHANGED <<clock, ids, repeated>>

Start(p) ==
  /\ gen[p].pc = "down" /\ gen[p].left = 0
  /\ gen' = [gen EXCEPT ![p] = Fresh]
  /\ UNCHANGED <<clock, ids, repeated>>

Init ==
  /\ clock \in [Pod -> 1 .. MaxTime]
  /\ gen = [p \in Pod |-> Fresh]
  /\ ids = {}
  /\ repeated = {}

Next ==
  \E p \in Pod : \/ Generate(p) \/ Wake(p) \/ SpinEnd(p)
                 \/ Tick(p) \/ SetBack(p) \/ Kill(p) \/ Start(p)

Spec == Init /\ [][Next]_vars

----------------------------------------------------------------------------
(* What ids need of the deployment: distinct nodes, no setback during a     *)
(* sleep, and none on a pod that restarts.                                  *)
Deployment ==
  /\ \A p, q \in Pod : NodeOf(p) = NodeOf(q) => p = q
  /\ \A p \in Pod : "sleep" \notin Setbacks[p]
  /\ \A p \in Restarts : Setbacks[p] = {}

(* No id is generated twice, by one pod or by two, over sequence overflows  *)
(* and clock setbacks, or over restarts (snowflake.go:84).                  *)
UniqueIds == repeated = {}

(* The ids of one node grow, also from one process to the next             *)
(* (pkg/snowflake/README.md:8).                                            *)
IncreasingIds ==
  [][\A new \in ids' \ ids, old \in ids : NodeField(old) = NodeField(new) => old < new]_vars
============================================================================
