-------------------------- MODULE ShortCodesProofs --------------------------
(***************************************************************************)
(* Ids are unique and those of a node grow, for any number of pods, any    *)
(* tolerance and any length of the sequence, if no two pods share a node,  *)
(* no clock is set back during a sleep, and none of a pod that restarts.   *)
(* Decode inverts Encode for every alphabet and every number, so the codes *)
(* of different ids differ, and those of the ids below a limit fit.        *)
(*                                                                         *)
(* Induction over numbers is descent: a set of naturals with, for each     *)
(* member, a smaller one has no least member and is empty.                 *)
(***************************************************************************)
EXTENDS ShortCodes, WellFoundedInduction, TLAPS

----------------------------------------------------------------------------
(* A field, below the size of its place, can be read back. *)
LEMMA Place ==
  ASSUME NEW d \in Nat \ {0}, NEW q \in Int, NEW r \in 0 .. d - 1
  PROVE  (q * d + r) \div d = q /\ (q * d + r) % d = r
OBVIOUS

(* Two numbers with a low field are ordered by the high one, then the low. *)
LEMMA Order ==
  ASSUME NEW d \in Nat \ {0}, NEW a \in Int, NEW b \in Int,
         NEW r \in 0 .. d - 1, NEW s \in 0 .. d - 1
  PROVE  /\ a < b => a * d + r < b * d + s
         /\ a = b /\ r < s => a * d + r < b * d + s
OBVIOUS

(* The fields of an id are what it was made of. *)
LEMMA Fields ==
  ASSUME NEW t \in Int, NEW n \in 0 .. Nodes - 1, NEW s \in 0 .. Steps - 1
  PROVE  Id(t, n, s) \in Int /\ NodeField(Id(t, n, s)) = n
<1> DEFINE high == (t - Epoch) * Nodes + n
<1>1. high \in Int /\ Id(t, n, s) = high * Steps + s /\ Id(t, n, s) \in Int
  BY FieldAssumption DEF Id
<1>2. Id(t, n, s) \div Steps = high
  <2> HIDE DEF high
  <2>1. (high * Steps + s) \div Steps = high
    BY <1>1, Place, FieldAssumption
  <2>2. QED BY <1>1, <2>1
<1>3. high % Nodes = n
  <2>1. t - Epoch \in Int BY FieldAssumption
  <2>2. QED BY <2>1, Place, FieldAssumption
<1>4. QED BY <1>1, <1>2, <1>3 DEF NodeField

(* Every pod has a node that fits its field. *)
LEMMA NodeRange ==
  ASSUME NEW p \in Pod
  PROVE  NodeOf(p) \in 0 .. Nodes - 1
<1>1. Crc[p] = NoAddress \/ Crc[p] \in Nat
  BY NodeAssumption
<1>2. CASE Crc[p] = NoAddress
  BY <1>2, FieldAssumption DEF NodeOf
<1>3. CASE Crc[p] # NoAddress
  BY <1>1, <1>3, FieldAssumption DEF NodeOf
<1>4. QED BY <1>2, <1>3

----------------------------------------------------------------------------
(* The ids that p can have generated: none after its timestamp and sequence *)
(* or, when it has forgotten them, none in the millisecond it starts in.    *)
Before(p, t, s) ==
  IF gen[p].timestamp = 0
  THEN p \in Restarts /\ t < clock[p] + gen[p].left
  ELSE \/ t < gen[p].timestamp
       \/ t = gen[p].timestamp /\ (gen[p].pc = "spin" \/ s <= gen[p].step)

Issued ==
  \A id \in ids : \E p \in Pod, t \in 1 .. MaxTime, s \in 0 .. Steps - 1 :
    id = Id(t, NodeOf(p), s) /\ Before(p, t, s)

(* When a sleep ends the clock has caught up; a pod that may restart is     *)
(* never behind its timestamp.                                              *)
CaughtUp(p) ==
  /\ gen[p].pc = "sleep" => gen[p].timestamp <= clock[p] + gen[p].left
  /\ p \in Restarts => gen[p].timestamp <= clock[p]
  /\ gen[p].pc = "down" => p \in Restarts /\ gen[p].timestamp = 0
  /\ gen[p].pc \in {"spin", "sleep"} => gen[p].timestamp > 0
  /\ gen[p].pc \in {"idle", "spin"} => gen[p].left = 0

IInv == TypeOK /\ UniqueIds /\ Issued /\ \A p \in Pod : CaughtUp(p)

(* Type correctness needs no deployment. *)
LEMMA TypeStep ==
  ASSUME TypeOK, [Next]_vars
  PROVE  TypeOK'
<1> USE TimeAssumption, FieldAssumption DEF TypeOK
<1>1. ASSUME NEW p \in Pod, NEW now \in 1 .. MaxTime, NEW step \in 0 .. Steps - 1,
             Emit(p, now, step), UNCHANGED clock
      PROVE  TypeOK'
  <2>1. Id(now, NodeOf(p), step) \in Int
    BY Fields, NodeRange
  <2>2. At("idle", now, step, 0) \in Generator
    BY DEF At, Generator
  <2>3. QED BY <1>1, <2>1, <2>2 DEF Emit
<1>2. ASSUME NEW p \in Pod, Assign(p, clock[p]), UNCHANGED clock
      PROVE  TypeOK'
  <2> DEFINE next == (gen[p].step + 1) % Steps
  <2>1. next \in 0 .. Steps - 1 /\ clock[p] \in 1 .. MaxTime
    BY DEF Generator
  <2>2. CASE Emit(p, clock[p], 0)
    BY <1>1, <1>2, <2>2
  <2>3. CASE Emit(p, clock[p], next)
    BY <1>1, <1>2, <2>1, <2>3
  <2>4. CASE gen' = [gen EXCEPT ![p] = At("spin", clock[p], 0, 0)] /\ UNCHANGED <<ids, repeated>>
    <3>1. At("spin", clock[p], 0, 0) \in Generator
      BY <2>1 DEF At, Generator
    <3>2. QED BY <1>2, <2>4, <3>1
  <2>5. QED BY <1>2, <2>2, <2>3, <2>4 DEF Assign
<1>3. ASSUME NEW p \in Pod, Generate(p)
      PROVE  TypeOK'
  <2>1. CASE Assign(p, clock[p])
    BY <1>2, <1>3, <2>1 DEF Generate
  <2>2. CASE ~Assign(p, clock[p])
    BY <1>3, <2>2 DEF Generate, Behind, Generator
  <2>3. QED BY <2>1, <2>2
<1>4. ASSUME NEW p \in Pod, Wake(p)
      PROVE  TypeOK'
  BY <1>2, <1>4 DEF Wake
<1>5. ASSUME NEW p \in Pod, SpinEnd(p)
      PROVE  TypeOK'
  <2>1. clock[p] \in 1 .. MaxTime OBVIOUS
  <2>2. QED BY <1>1, <1>5, <2>1 DEF SpinEnd
<1>6. ASSUME NEW p \in Pod, Tick(p)
      PROVE  TypeOK'
  BY <1>6 DEF Tick, Generator
<1>7. ASSUME NEW p \in Pod, SetBack(p)
      PROVE  TypeOK'
  BY <1>7 DEF SetBack
<1>8. ASSUME NEW p \in Pod, Kill(p)
      PROVE  TypeOK'
  <2>1. At("down", 0, 0, 1) \in Generator
    BY DEF At, Generator
  <2>2. QED BY <1>8, <2>1 DEF Kill
<1>9. ASSUME NEW p \in Pod, Start(p)
      PROVE  TypeOK'
  BY <1>9 DEF Start, Fresh, At, Generator
<1>10. CASE UNCHANGED vars
  BY <1>10 DEF vars
<1>11. QED BY <1>3, <1>4, <1>5, <1>6, <1>7, <1>8, <1>9, <1>10 DEF Next

(* The types of clocks and generators. *)
THEOREM IdTypeCorrect == Spec => []TypeOK
<1>1. Init => TypeOK
  BY TimeAssumption, FieldAssumption DEF Init, TypeOK, Fresh, At, Generator
<1>2. TypeOK /\ [Next]_vars => TypeOK'
  BY TypeStep
<1>3. QED BY <1>1, <1>2, PTL DEF Spec

----------------------------------------------------------------------------
(* An id beyond what its pod has generated is new, and the greatest of the  *)
(* node.                                                                    *)
LEMMA NewIsGreatest ==
  ASSUME Deployment, IInv, NEW p \in Pod, NEW now \in 1 .. MaxTime, NEW step \in 0 .. Steps - 1,
         \A t \in 1 .. MaxTime, s \in 0 .. Steps - 1 :
           Before(p, t, s) => t < now \/ (t = now /\ s < step)
  PROVE  /\ \A old \in ids : NodeField(old) = NodeOf(p) => old < Id(now, NodeOf(p), step)
         /\ Id(now, NodeOf(p), step) \notin ids
<1> DEFINE new == Id(now, NodeOf(p), step)
<1>1. NodeField(new) = NodeOf(p)
  BY Fields, NodeRange, TimeAssumption
<1>2. ASSUME NEW old \in ids, NodeField(old) = NodeOf(p)
      PROVE  old < new
  <2>1. PICK q \in Pod, t \in 1 .. MaxTime, s \in 0 .. Steps - 1 :
          old = Id(t, NodeOf(q), s) /\ Before(q, t, s)
    BY DEF IInv, Issued
  <2>2. q = p
    BY <1>2, <2>1, Fields, NodeRange, TimeAssumption DEF Deployment
  <2>3. t < now \/ (t = now /\ s < step)
    BY <2>1, <2>2
  <2>4. old = Id(t, NodeOf(p), s)
    BY <2>1, <2>2
  <2> DEFINE highOld == (t - Epoch) * Nodes + NodeOf(p)
             highNew == (now - Epoch) * Nodes + NodeOf(p)
  <2>5. highOld \in Int /\ highNew \in Int
    BY NodeRange, FieldAssumption, TimeAssumption
  <2>6. t < now => highOld < highNew
    <3>1. t - Epoch \in Int /\ now - Epoch \in Int
      BY FieldAssumption, TimeAssumption
    <3>2. t < now => t - Epoch < now - Epoch
      BY FieldAssumption, TimeAssumption
    <3> DEFINE a == t - Epoch
               b == now - Epoch
    <3>3. a < b => a * Nodes + NodeOf(p) < b * Nodes + NodeOf(p)
      <4> HIDE DEF a, b
      <4>1. a \in Int /\ b \in Int BY <3>1 DEF a, b
      <4>2. QED BY <4>1, Order, NodeRange, FieldAssumption
    <3>4. QED BY <3>2, <3>3
  <2>7. highOld * Steps + s < highNew * Steps + step
    <3>1. t = now => highOld = highNew
      OBVIOUS
    <3> HIDE DEF highOld, highNew
    <3>2. QED BY <2>3, <2>5, <2>6, <3>1, Order, FieldAssumption
  <2>8. QED BY <2>4, <2>7 DEF Id
<1>3. new \in Int
  BY Fields, NodeRange, TimeAssumption
<1>4. new \notin ids
  BY <1>1, <1>2, <1>3
<1>5. QED BY <1>2, <1>4

(* What a step preserves of the invariant, and what it does to the ids. *)
Good == IInv' /\ (\A new \in ids' \ ids, old \in ids : NodeField(old) = NodeField(new) => old < new)

(* Generating such an id keeps the invariant. *)
LEMMA EmitStep ==
  ASSUME Deployment, IInv, TypeOK', NEW p \in Pod, NEW step \in 0 .. Steps - 1,
         \A t \in 1 .. MaxTime, s \in 0 .. Steps - 1 :
           Before(p, t, s) => t < clock[p] \/ (t = clock[p] /\ s < step),
         Emit(p, clock[p], step), UNCHANGED clock
  PROVE  Good
<1> DEFINE now == clock[p]
           new == Id(now, NodeOf(p), step)
<1>1. now \in 1 .. MaxTime /\ now # 0
  BY DEF IInv, TypeOK
<1>2. /\ \A old \in ids : NodeField(old) = NodeOf(p) => old < new
      /\ new \notin ids
  BY <1>1, NewIsGreatest
<1>3. NodeField(new) = NodeOf(p)
  BY <1>1, Fields, NodeRange, TimeAssumption
<1>4. /\ gen' = [gen EXCEPT ![p] = At("idle", now, step, 0)]
      /\ ids' = ids \cup {new} /\ repeated' = repeated
  BY <1>2 DEF Emit
<1>5. gen'[p] = At("idle", now, step, 0) /\ \A q \in Pod \ {p} : gen'[q] = gen[q]
  BY <1>4 DEF IInv, TypeOK
<1>6. Issued'
  <2> SUFFICES ASSUME NEW id \in ids'
               PROVE  \E q \in Pod, t \in 1 .. MaxTime, s \in 0 .. Steps - 1 :
                        id = Id(t, NodeOf(q), s) /\ Before(q, t, s)'
    BY DEF Issued
  <2>1. CASE id = new
    <3>1. Before(p, now, step)'
      BY <1>1, <1>5 DEF Before, At
    <3>2. QED BY <1>1, <2>1, <3>1
  <2>2. CASE id \in ids
    <3>1. PICK q \in Pod, t \in 1 .. MaxTime, s \in 0 .. Steps - 1 :
            id = Id(t, NodeOf(q), s) /\ Before(q, t, s)
      BY <2>2 DEF IInv, Issued
    <3>2. CASE q = p
      <4>1. t < now \/ (t = now /\ s < step)
        BY <3>1, <3>2
      <4>2. Before(p, t, s)'
        BY <1>1, <1>5, <4>1 DEF Before, At
      <4>3. QED BY <3>1, <3>2, <4>2
    <3>3. CASE q # p
      <4>1. Before(q, t, s)'
        BY <1>5, <3>1, <3>3 DEF Before
      <4>2. QED BY <3>1, <4>1
    <3>4. QED BY <3>2, <3>3
  <2>3. QED BY <1>4, <2>1, <2>2
<1>7. ASSUME NEW q \in Pod
      PROVE  CaughtUp(q)'
  <2>1. CASE q = p
    BY <1>1, <1>5, <2>1 DEF CaughtUp, At
  <2>2. CASE q # p
    BY <1>5, <2>2 DEF CaughtUp, IInv
  <2>3. QED BY <2>1, <2>2
<1>8. QED BY <1>2, <1>3, <1>4, <1>6, <1>7 DEF Good, IInv, UniqueIds

(* A step without a new id keeps the invariant if it forgets none. *)
LEMMA QuietStep ==
  ASSUME IInv, TypeOK', UNCHANGED <<ids, repeated>>,
         \A q \in Pod : CaughtUp(q)',
         \A q \in Pod, t \in 1 .. MaxTime, s \in 0 .. Steps - 1 :
           Before(q, t, s) => Before(q, t, s)'
  PROVE  Good
<1>1. Issued'
  BY DEF IInv, Issued
<1>2. QED BY <1>1 DEF Good, IInv, UniqueIds

(* Generate's tail, at a clock that is not behind. *)
LEMMA AssignStep ==
  ASSUME Deployment, IInv, TypeOK', NEW p \in Pod, gen[p].pc \in {"idle", "sleep"},
         gen[p].left = 0, ~Behind(p), Assign(p, clock[p]), UNCHANGED clock
  PROVE  Good
<1> DEFINE next == (gen[p].step + 1) % Steps
<1>1. /\ clock[p] \in 1 .. MaxTime /\ gen[p].timestamp \in 0 .. MaxTime
      /\ gen[p].timestamp <= clock[p] /\ gen[p].step \in 0 .. Steps - 1
  BY DEF IInv, TypeOK, Generator, Behind
<1>2. CASE clock[p] # gen[p].timestamp /\ Emit(p, clock[p], 0)
  <2>1. ASSUME NEW t \in 1 .. MaxTime, NEW s \in 0 .. Steps - 1, Before(p, t, s)
        PROVE  t < clock[p]
    BY <1>1, <1>2, <2>1, TimeAssumption DEF Before
  <2>2. 0 \in 0 .. Steps - 1
    BY FieldAssumption
  <2>3. QED BY <1>2, <2>1, <2>2, EmitStep
<1>3. CASE clock[p] = gen[p].timestamp /\ next # 0 /\ Emit(p, clock[p], next)
  <2>1. next = gen[p].step + 1 /\ next \in 0 .. Steps - 1
    BY <1>1, <1>3, FieldAssumption
  <2>2. ASSUME NEW t \in 1 .. MaxTime, NEW s \in 0 .. Steps - 1, Before(p, t, s)
        PROVE  t < clock[p] \/ (t = clock[p] /\ s < next)
    BY <1>1, <1>3, <2>1, <2>2, TimeAssumption, FieldAssumption DEF Before
  <2>3. QED BY <1>3, <2>1, <2>2, EmitStep
<1>4. CASE /\ clock[p] = gen[p].timestamp /\ UNCHANGED <<ids, repeated>>
           /\ gen' = [gen EXCEPT ![p] = At("spin", clock[p], 0, 0)]
  <2>1. gen'[p] = At("spin", clock[p], 0, 0) /\ \A q \in Pod \ {p} : gen'[q] = gen[q]
    BY <1>4 DEF IInv, TypeOK
  <2>2. ASSUME NEW q \in Pod
        PROVE  CaughtUp(q)'
    <3>1. CASE q = p
      BY <1>1, <1>4, <2>1, <3>1 DEF CaughtUp, At
    <3>2. CASE q # p
      BY <2>1, <3>2 DEF CaughtUp, IInv
    <3>3. QED BY <3>1, <3>2
  <2>3. ASSUME NEW q \in Pod, NEW t \in 1 .. MaxTime, NEW s \in 0 .. Steps - 1, Before(q, t, s)
        PROVE  Before(q, t, s)'
    <3>1. CASE q = p
      BY <1>1, <1>4, <2>1, <2>3, <3>1 DEF Before, At
    <3>2. CASE q # p
      BY <2>1, <2>3, <3>2 DEF Before
    <3>3. QED BY <3>1, <3>2
  <2>4. QED BY <1>4, <2>2, <2>3, QuietStep
<1>5. QED BY <1>2, <1>3, <1>4 DEF Assign

(* A step that changes the clock or the generator of p only. *)
LEMMA OwnStep ==
  ASSUME IInv, TypeOK', NEW p \in Pod, UNCHANGED <<ids, repeated>>,
         \A q \in Pod \ {p} : gen'[q] = gen[q] /\ clock'[q] = clock[q],
         CaughtUp(p)',
         \A t \in 1 .. MaxTime, s \in 0 .. Steps - 1 : Before(p, t, s) => Before(p, t, s)'
  PROVE  Good
<1>1. ASSUME NEW q \in Pod
      PROVE  CaughtUp(q)'
  BY DEF CaughtUp, IInv
<1>2. ASSUME NEW q \in Pod, NEW t \in 1 .. MaxTime, NEW s \in 0 .. Steps - 1, Before(q, t, s)
      PROVE  Before(q, t, s)'
  BY <1>2 DEF Before
<1>3. QED BY <1>1, <1>2, QuietStep

(* Every step keeps the invariant, and its ids are greater than the node's. *)
LEMMA GoodStep ==
  ASSUME Deployment, IInv, [Next]_vars
  PROVE  Good
<1>1. TypeOK'
  BY TypeStep DEF IInv
<1>2. ASSUME NEW p \in Pod
      PROVE  /\ clock[p] \in 1 .. MaxTime /\ gen[p].timestamp \in 0 .. MaxTime
             /\ gen[p].step \in 0 .. Steps - 1 /\ gen[p].left \in 0 .. MaxBackward + 1
             /\ gen[p].pc \in {"idle", "sleep", "spin", "down"}
             /\ gen \in [Pod -> Generator] /\ clock \in [Pod -> 1 .. MaxTime]
             /\ gen[p] \in Generator
  BY DEF IInv, TypeOK, Generator
<1>3. ASSUME NEW p \in Pod, Generate(p)
      PROVE  Good
  <2>1. CASE ~Behind(p)
    <3>1. gen[p].left = 0 BY <1>3 DEF IInv, CaughtUp, Generate
    <3>2. QED BY <1>1, <1>3, <2>1, <3>1, AssignStep DEF Generate
  <2>2. CASE Behind(p)
    <3> DEFINE back == gen[p].timestamp - clock[p]
    <3>1. gen' = [gen EXCEPT ![p].pc = "sleep", ![p].left = back]
      BY <1>3, <2>2 DEF Generate
    <3>2. /\ gen'[p].pc = "sleep" /\ gen'[p].left = back /\ gen'[p].step = gen[p].step
          /\ gen'[p].timestamp = gen[p].timestamp
      BY <1>2, <3>1 DEF Generator
    <3>3. \A q \in Pod \ {p} : gen'[q] = gen[q] /\ clock'[q] = clock[q]
      BY <1>2, <1>3, <3>1 DEF Generate
    <3>4. UNCHANGED <<clock, ids, repeated>> /\ gen[p].pc = "idle"
      BY <1>3, <2>2 DEF Generate
    <3>5. gen[p].timestamp > clock[p]
      BY <1>2, <2>2 DEF Behind
    <3>6. CaughtUp(p)'
      BY <1>2, <3>2, <3>4, <3>5 DEF CaughtUp, IInv
    <3>7. ASSUME NEW t \in 1 .. MaxTime, NEW s \in 0 .. Steps - 1, Before(p, t, s)
          PROVE  Before(p, t, s)'
      BY <1>2, <3>2, <3>4, <3>5, <3>7 DEF Before
    <3>8. QED BY <1>1, <3>3, <3>4, <3>6, <3>7, OwnStep
  <2>3. QED BY <2>1, <2>2
<1>4. ASSUME NEW p \in Pod, Wake(p)
      PROVE  Good
  <2>1. ~Behind(p)
    BY <1>2, <1>4 DEF Wake, Behind, IInv, CaughtUp
  <2>2. QED BY <1>1, <1>4, <2>1, AssignStep DEF Wake
<1>5. ASSUME NEW p \in Pod, SpinEnd(p)
      PROVE  Good
  <2>1. ASSUME NEW t \in 1 .. MaxTime, NEW s \in 0 .. Steps - 1, Before(p, t, s)
        PROVE  t < clock[p]
    BY <1>2, <1>5, <2>1, TimeAssumption DEF SpinEnd, Before, IInv, CaughtUp
  <2>2. 0 \in 0 .. Steps - 1
    BY FieldAssumption
  <2>3. QED BY <1>1, <1>5, <2>1, <2>2, EmitStep DEF SpinEnd
<1>6. ASSUME NEW p \in Pod, Tick(p)
      PROVE  Good
  <2>1. /\ gen'[p].pc = gen[p].pc /\ gen'[p].step = gen[p].step
        /\ gen'[p].timestamp = gen[p].timestamp
        /\ gen'[p].left = (IF gen[p].left = 0 THEN 0 ELSE gen[p].left - 1)
        /\ clock'[p] = clock[p] + 1
    BY <1>2, <1>6 DEF Tick, Generator
  <2>2. \A q \in Pod \ {p} : gen'[q] = gen[q] /\ clock'[q] = clock[q]
    BY <1>2, <1>6 DEF Tick
  <2>3. CaughtUp(p)'
    BY <1>2, <2>1 DEF CaughtUp, IInv
  <2>4. ASSUME NEW t \in 1 .. MaxTime, NEW s \in 0 .. Steps - 1, Before(p, t, s)
        PROVE  Before(p, t, s)'
    BY <1>2, <2>1, <2>4 DEF Before
  <2>5. QED BY <1>1, <1>6, <2>2, <2>3, <2>4, OwnStep DEF Tick
<1>7. ASSUME NEW p \in Pod, SetBack(p)
      PROVE  Good
  <2>1. p \notin Restarts /\ gen[p].pc # "sleep"
    BY <1>7 DEF SetBack, Deployment
  <2>2. UNCHANGED <<gen, ids, repeated>> /\ \A q \in Pod \ {p} : clock'[q] = clock[q]
    BY <1>2, <1>7 DEF SetBack
  <2>3. CaughtUp(p)'
    BY <2>1, <2>2 DEF CaughtUp, IInv
  <2>4. ASSUME NEW t \in 1 .. MaxTime, NEW s \in 0 .. Steps - 1, Before(p, t, s)
        PROVE  Before(p, t, s)'
    BY <2>1, <2>2, <2>4 DEF Before
  <2>5. QED BY <1>1, <2>2, <2>3, <2>4, OwnStep
<1>8. ASSUME NEW p \in Pod, Kill(p)
      PROVE  Good
  <2>1. gen'[p] = At("down", 0, 0, 1) /\ p \in Restarts /\ gen[p].pc # "down"
    BY <1>2, <1>8 DEF Kill
  <2>2. \A q \in Pod \ {p} : gen'[q] = gen[q] /\ clock'[q] = clock[q]
    BY <1>2, <1>8 DEF Kill
  <2>3. UNCHANGED <<clock, ids, repeated>>
    BY <1>8 DEF Kill
  <2>4. CaughtUp(p)'
    BY <1>2, <2>1, <2>3 DEF CaughtUp, At
  <2>5. gen[p].timestamp = 0 => gen[p].left = 0
    BY <1>2, <2>1 DEF CaughtUp, IInv
  <2>6. gen[p].timestamp <= clock[p]
    BY <2>1 DEF CaughtUp, IInv
  <2>7. ASSUME NEW t \in 1 .. MaxTime, NEW s \in 0 .. Steps - 1, Before(p, t, s)
        PROVE  Before(p, t, s)'
    BY <1>2, <2>1, <2>3, <2>5, <2>6, <2>7, TimeAssumption DEF Before, At
  <2>8. QED BY <1>1, <2>2, <2>3, <2>4, <2>7, OwnStep
<1>9. ASSUME NEW p \in Pod, Start(p)
      PROVE  Good
  <2>1. gen'[p] = At("idle", 0, 0, 0) /\ gen[p].pc = "down" /\ gen[p].left = 0
    BY <1>2, <1>9 DEF Start, Fresh
  <2>2. \A q \in Pod \ {p} : gen'[q] = gen[q] /\ clock'[q] = clock[q]
    BY <1>2, <1>9 DEF Start
  <2>3. UNCHANGED <<clock, ids, repeated>>
    BY <1>9 DEF Start
  <2>4. CaughtUp(p)'
    BY <1>2, <2>1, <2>3 DEF CaughtUp, At
  <2>5. gen[p].timestamp = 0
    BY <2>1 DEF CaughtUp, IInv
  <2>6. ASSUME NEW t \in 1 .. MaxTime, NEW s \in 0 .. Steps - 1, Before(p, t, s)
        PROVE  Before(p, t, s)'
    BY <1>2, <2>1, <2>3, <2>5, <2>6 DEF Before, At
  <2>7. QED BY <1>1, <2>2, <2>3, <2>4, <2>6, OwnStep
<1>10. CASE UNCHANGED vars
  <2>1. UNCHANGED <<clock, gen, ids, repeated>>
    BY <1>10 DEF vars
  <2>2. \A q \in Pod : CaughtUp(q)'
    BY <2>1 DEF IInv, CaughtUp
  <2>3. \A q \in Pod, t \in 1 .. MaxTime, s \in 0 .. Steps - 1 :
          Before(q, t, s) => Before(q, t, s)'
    BY <2>1 DEF Before
  <2>4. QED BY <1>1, <2>1, <2>2, <2>3, QuietStep
<1>11. QED BY <1>3, <1>4, <1>5, <1>6, <1>7, <1>8, <1>9, <1>10 DEF Next

(* The initial state satisfies the invariant. *)
LEMMA GoodInit == Init => IInv
<1> SUFFICES ASSUME Init PROVE IInv
  OBVIOUS
<1>1. TypeOK
  BY TimeAssumption, FieldAssumption DEF Init, TypeOK, Fresh, At, Generator
<1>2. ASSUME NEW p \in Pod
      PROVE  CaughtUp(p)
  BY <1>1 DEF Init, CaughtUp, Fresh, At, TypeOK
<1>3. QED BY <1>1, <1>2 DEF Init, IInv, UniqueIds, Issued

----------------------------------------------------------------------------
(* No id is generated twice, whatever the number of pods, over sequence     *)
(* overflows, waits, and the setbacks and restarts that Deployment allows.  *)
THEOREM IdsAreUnique == ASSUME Deployment PROVE Spec => []UniqueIds
<1>1. IInv /\ [Next]_vars => IInv'
  BY GoodStep DEF Good
<1>2. IInv => UniqueIds
  BY DEF IInv
<1>3. QED BY <1>1, <1>2, GoodInit, PTL DEF Spec

(* The ids of a node grow, also from one process to the next. *)
THEOREM IdsIncrease == ASSUME Deployment PROVE Spec => IncreasingIds
<1>1. IInv /\ [Next]_vars =>
        /\ IInv'
        /\ [\A new \in ids' \ ids, old \in ids : NodeField(old) = NodeField(new) => old < new]_vars
  BY GoodStep DEF Good
<1>2. QED BY <1>1, GoodInit, PTL DEF Spec, IncreasingIds

----------------------------------------------------------------------------
(* A set of numbers without a least one is empty. *)
LEMMA Descent ==
  ASSUME NEW S \in SUBSET Nat, \A n \in S : \E m \in S : m < n
  PROVE  S = {}
<1> SUFFICES ASSUME S # {} PROVE FALSE
  OBVIOUS
<1>1. PICK n \in S : \A m \in S : <<m, n>> \notin OpToRel(<, Nat)
  BY WFMin, NatLessThanWellFounded, Zenon
<1>2. \A m \in S : ~(m < n)
  BY <1>1, Zenon DEF OpToRel
<1>3. QED BY <1>2

(* pred goes down to zero. *)
Smaller(pred) == pred \in [Nat -> Nat] /\ \A n \in Nat \ {0} : pred[n] < n

(* f is defined by recursion along pred. *)
Recurs(f, c, step, pred) ==
  \A n \in Nat : f[n] = IF n = 0 THEN c ELSE step[n][f[pred[n]]]

(* A recursion that goes from n to the smaller pred[n] defines a function. *)
LEMMA Recursion ==
  ASSUME NEW T, NEW c \in T, NEW step \in [Nat -> [T -> T]],
         NEW pred, Smaller(pred)
  PROVE  \E f \in [Nat -> T] : Recurs(f, c, step, pred)
<1> USE DEF Smaller
<1> DEFINE Up(g, n) == /\ g \in [0 .. n -> T]
                       /\ \A m \in 0 .. n : g[m] = IF m = 0 THEN c ELSE step[m][g[pred[m]]]
<1>1. ASSUME NEW g, NEW h, NEW n \in Nat, NEW k \in Nat, Up(g, n), Up(h, k)
      PROVE  \A m \in Nat : m <= n /\ m <= k => g[m] = h[m]
  <2> DEFINE Bad == {m \in Nat : m <= n /\ m <= k /\ g[m] # h[m]}
  <2>1. ASSUME NEW m \in Bad PROVE \E j \in Bad : j < m
    <3>1. m \in 0 .. n /\ m \in 0 .. k /\ m # 0
      BY <1>1
    <3>2. pred[m] \in Nat /\ pred[m] < m
      BY <3>1
    <3>3. pred[m] \in Bad
      BY <1>1, <3>1, <3>2
    <3>4. QED BY <3>2, <3>3
  <2>2. Bad = {}
    <3> HIDE DEF Bad
    <3>1. Bad \in SUBSET Nat BY DEF Bad
    <3>2. QED BY <2>1, <3>1, Descent
  <2>3. QED BY <2>2
<1>2. \A n \in Nat : \E g : Up(g, n)
  <2> DEFINE Bad == {n \in Nat : ~ \E g : Up(g, n)}
  <2>1. ASSUME NEW n \in Bad PROVE \E j \in Bad : j < n
    <3>1. n # 0
      <4>1. Up([m \in 0 .. 0 |-> c], 0)
        OBVIOUS
      <4> HIDE DEF Up
      <4>2. QED BY <4>1
    <3>2. n - 1 \in Nat /\ n - 1 < n
      BY <3>1
    <3>3. ASSUME NEW g, Up(g, n - 1) PROVE FALSE
      <4> DEFINE h == [m \in 0 .. n |-> IF m = n THEN step[n][g[pred[n]]] ELSE g[m]]
      <4>1. pred[n] \in 0 .. n - 1 /\ g[pred[n]] \in T
        BY <3>1, <3>2, <3>3
      <4>2. h \in [0 .. n -> T]
        BY <3>2, <3>3, <4>1
      <4>3. ASSUME NEW m \in 0 .. n PROVE h[m] = IF m = 0 THEN c ELSE step[m][h[pred[m]]]
        <5>1. CASE m = n
          BY <3>1, <4>1, <5>1
        <5>2. CASE m # n
          <6>1. m \in 0 .. n - 1 /\ (m # 0 => pred[m] \in 0 .. n - 1)
            BY <5>2
          <6>2. QED BY <3>3, <6>1
        <5>3. QED BY <5>1, <5>2
      <4>4. Up(h, n)
        BY <4>2, <4>3
      <4> HIDE DEF Up
      <4>5. QED BY <4>4
    <3> HIDE DEF Up
    <3>4. n - 1 \in Bad
      BY <3>2, <3>3
    <3>5. QED BY <3>2, <3>4
  <2> HIDE DEF Up
  <2>2. Bad = {}
    <3> HIDE DEF Bad
    <3>1. Bad \in SUBSET Nat BY DEF Bad
    <3>2. QED BY <2>1, <3>1, Descent
  <2>3. QED BY <2>2
<1> DEFINE F(n) == CHOOSE g : Up(g, n)
           f == [n \in Nat |-> F(n)[n]]
<1>3. \A n \in Nat : Up(F(n), n)
  <2> HIDE DEF Up
  <2>1. QED BY <1>2, Zenon
<1>4. \A n \in Nat : F(n)[n] \in T /\ f[n] = F(n)[n]
  <2> HIDE DEF F
  <2>1. QED BY <1>3
<1>5. f \in [Nat -> T]
  <2> HIDE DEF F, Up
  <2>1. QED BY <1>4
<1>6. ASSUME NEW n \in Nat PROVE f[n] = IF n = 0 THEN c ELSE step[n][f[pred[n]]]
  <2> HIDE DEF F, f
  <2>1. CASE n = 0
    BY <1>3, <1>4, <2>1
  <2>2. CASE n # 0
    <3>1. pred[n] \in Nat /\ pred[n] < n
      BY <2>2
    <3>2. F(n)[n] = step[n][F(n)[pred[n]]]
      BY <1>3, <2>2
    <3>3. F(n)[pred[n]] = F(pred[n])[pred[n]]
      <4> DEFINE k == pred[n]
      <4>1. k \in Nat /\ k <= n /\ Up(F(n), n) /\ Up(F(k), k)
        BY <1>3, <3>1
      <4> HIDE DEF Up, k
      <4>2. \A m \in Nat : m <= n /\ m <= k => F(n)[m] = F(k)[m]
        BY <1>1, <4>1
      <4>3. F(n)[k] = F(k)[k]
        BY <4>1, <4>2
      <4>4. QED BY <4>3 DEF k
    <3>4. QED BY <1>4, <2>2, <3>1, <3>2, <3>3
  <2>3. QED BY <2>1, <2>2
<1>7. QED
  <2> HIDE DEF f
  <2>1. QED BY <1>5, <1>6 DEF Recurs

----------------------------------------------------------------------------
(* The characters of codes. *)
Letters == {Char(d) : d \in Digit}

(* There are at least two digits, and digits have characters. *)
LEMMA BaseRange == Base \in Nat /\ Base > 1 /\ Char(0) \in Letters /\ \A n \in Nat : Char(n % Base) \in Letters
<1>1. Base \in Nat /\ Base > 1
  <2>1. Base \in Nat \ {0, 1}
    BY AlphabetAssumption, Zenon DEF Base
  <2>2. QED BY <2>1
<1>2. \A n \in Nat : n % Base \in Digit
  BY <1>1 DEF Digit
<1>3. 0 \in Digit
  BY <1>1 DEF Digit
<1>4. QED BY <1>1, <1>2, <1>3 DEF Letters

(* A number is made of its last digit and a smaller number. *)
LEMMA Division ==
  ASSUME NEW n \in Nat
  PROVE  /\ n \div Base \in Nat /\ n % Base \in Digit
         /\ n = (n \div Base) * Base + (n % Base)
         /\ n # 0 => n \div Base < n
<1>1. Base \in Nat /\ Base > 1
  BY BaseRange
<1>2. n \div Base \in Nat /\ n % Base \in Digit /\ n = (n \div Base) * Base + (n % Base)
  BY <1>1 DEF Digit
<1>3. n # 0 => n \div Base < n
  <2> DEFINE q == n \div Base
             r == n % Base
  <2>1. q \in Nat /\ r \in Nat /\ n = q * Base + r
    BY <1>2 DEF Digit
  <2> HIDE DEF q, r
  <2>2. q * Base >= q * 2
    BY <1>1, <2>1
  <2>3. n # 0 => q < n
    BY <1>1, <2>1, <2>2
  <2>4. QED BY <2>3 DEF q
<1>4. QED BY <1>2, <1>3

(* A code and one more character. *)
LEMMA Longer ==
  ASSUME NEW s \in Seq(Letters), NEW c \in Letters
  PROVE  /\ Append(s, c) \in Seq(Letters)
         /\ Len(Append(s, c)) = Len(s) + 1
         /\ \A i \in 1 .. Len(s) : Append(s, c)[i] = s[i]
         /\ Append(s, c)[Len(s) + 1] = c
OBVIOUS

(* The loop of Encode defines a code for every number. *)
LEMMA WrittenDef ==
  ASSUME NEW n \in Nat
  PROVE  Written[n] = IF n = 0 THEN <<>> ELSE Append(Written[n \div Base], Char(n % Base))
<1> DEFINE Codes == Seq(Letters)
           Eq(f) == f = [num \in Nat |-> IF num = 0 THEN <<>>
                                         ELSE Append(f[num \div Base], Char(num % Base))]
           pred == [num \in Nat |-> num \div Base]
           step == [num \in Nat |-> [s \in Codes |-> Append(s, Char(num % Base))]]
<1>1. \E f : Eq(f)
  <2>1. <<>> \in Codes /\ step \in [Nat -> [Codes -> Codes]]
    <3>1. \A num \in Nat, s \in Codes : Append(s, Char(num % Base)) \in Codes
      BY BaseRange, Longer
    <3>2. <<>> \in Codes
      OBVIOUS
    <3> HIDE DEF Codes
    <3>3. \A num \in Nat : step[num] \in [Codes -> Codes]
      BY <3>1
    <3>4. QED BY <3>2, <3>3
  <2>2. Smaller(pred)
    BY Division DEF Smaller
  <2>3. PICK f \in [Nat -> Codes] : Recurs(f, <<>>, step, pred)
    <3> HIDE DEF pred, step, Codes
    <3>1. QED BY <2>1, <2>2, Recursion, Zenon
  <2>4. \A num \in Nat : f[num] = IF num = 0 THEN <<>> ELSE Append(f[num \div Base], Char(num % Base))
    BY <2>2, <2>3, Division DEF Recurs
  <2>5. QED BY <2>3, <2>4
<1>2. Eq(Written)
  <2>1. Written = CHOOSE f : Eq(f)
    BY DEF Written
  <2> HIDE DEF Eq
  <2>2. QED BY <1>1, <2>1, Zenon
<1>3. QED BY <1>2

(* Codes are sequences of characters of the alphabet. *)
LEMMA WrittenType == \A n \in Nat : Written[n] \in Seq(Letters)
<1> DEFINE Bad == {n \in Nat : Written[n] \notin Seq(Letters)}
<1>1. ASSUME NEW n \in Bad PROVE \E m \in Bad : m < n
  <2>1. n # 0 /\ Written[n \div Base] \notin Seq(Letters)
    <3>1. n \in Nat /\ Written[n] \notin Seq(Letters) /\ <<>> \in Seq(Letters)
      OBVIOUS
    <3>2. n # 0 /\ Written[n] = Append(Written[n \div Base], Char(n % Base))
      BY <3>1, WrittenDef
    <3>3. QED BY <3>1, <3>2, BaseRange, Longer
  <2>2. QED BY <2>1, Division
<1>2. Bad = {}
  <2> HIDE DEF Bad
  <2>1. Bad \in SUBSET Nat BY DEF Bad
  <2>2. QED BY <1>1, <2>1, Descent
<1>3. QED BY <1>2

(* There are Base times as many strings of one more character. *)
LEMMA StringsDef ==
  /\ Strings \in [Nat -> Nat \ {0}]
  /\ Strings[0] = 1
  /\ \A w \in Nat : Strings[w + 1] = Base * Strings[w]
<1> DEFINE Eq(f) == f = [w \in Nat |-> IF w = 0 THEN 1 ELSE Base * f[w - 1]]
           pred == [w \in Nat |-> IF w = 0 THEN 0 ELSE w - 1]
           step == [w \in Nat |-> [s \in Nat \ {0} |-> Base * s]]
<1> USE BaseRange
<1>1. PICK f \in [Nat -> Nat \ {0}] : Eq(f)
  <2>1. \A s \in Nat \ {0} : Base * s \in Nat \ {0}
    OBVIOUS
  <2>2. 1 \in Nat \ {0} /\ step \in [Nat -> [Nat \ {0} -> Nat \ {0}]]
    BY <2>1
  <2>3. Smaller(pred)
    BY DEF Smaller
  <2>4. PICK f \in [Nat -> Nat \ {0}] : Recurs(f, 1, step, pred)
    <3> HIDE DEF pred, step
    <3>1. QED BY <2>2, <2>3, Recursion, Zenon
  <2>5. \A w \in Nat : f[w] = IF w = 0 THEN 1 ELSE Base * f[w - 1]
    <3>1. ASSUME NEW w \in Nat, w # 0 PROVE f[w] = Base * f[w - 1]
      <4>1. w - 1 \in Nat /\ pred[w] = w - 1 /\ f[w - 1] \in Nat \ {0}
        BY <3>1
      <4>2. \A s \in Nat \ {0} : step[w][s] = Base * s
        OBVIOUS
      <4> HIDE DEF step, pred
      <4>3. f[w] = step[w][f[w - 1]]
        BY <2>4, <3>1, <4>1 DEF Recurs
      <4>4. QED BY <4>1, <4>2, <4>3
    <3>2. f[0] = 1
      BY <2>4 DEF Recurs
    <3>3. QED BY <3>1, <3>2
  <2>6. QED BY <2>4, <2>5
<1>2. Eq(Strings)
  <2>1. Strings = CHOOSE g : Eq(g)
    BY DEF Strings
  <2> HIDE DEF Eq
  <2>2. QED BY <1>1, <2>1, Zenon
<1>3. \A w \in Nat : Strings[w] = IF w = 0 THEN 1 ELSE Base * Strings[w - 1]
  BY <1>2
<1>4. \A w \in Nat : Strings[w] \in Nat \ {0}
  <2> DEFINE Bad == {w \in Nat : Strings[w] \notin Nat \ {0}}
  <2>1. ASSUME NEW n \in Bad PROVE \E m \in Bad : m < n
    <3>1. n \in Nat /\ Strings[n] \notin Nat \ {0} /\ n # 0
      BY <1>3
    <3>2. n - 1 \in Nat /\ Strings[n] = Base * Strings[n - 1]
      BY <1>3, <3>1
    <3>3. \A s \in Nat \ {0} : Base * s \in Nat \ {0}
      OBVIOUS
    <3>4. Strings[n - 1] \notin Nat \ {0}
      BY <3>1, <3>2, <3>3
    <3>5. QED BY <3>2, <3>4
  <2>2. Bad = {}
    <3> HIDE DEF Bad
    <3>1. Bad \in SUBSET Nat BY DEF Bad
    <3>2. QED BY <2>1, <3>1, Descent
  <2>3. QED BY <2>2
<1>5. QED BY <1>2, <1>3, <1>4

----------------------------------------------------------------------------
(* A quotient is below s exactly when the number is below s times the divisor. *)
LEMMA Below ==
  ASSUME NEW d \in Nat \ {0}, NEW n \in Int, NEW s \in Int
  PROVE  n \div d < s <=> n < d * s
<1> DEFINE q == n \div d
           r == n % d
<1>1. q \in Int /\ r \in 0 .. d - 1 /\ n = q * d + r
  OBVIOUS
<1> HIDE DEF q, r
<1>2. CASE q < s
  <2>1. PICK k \in Nat : s = q + 1 + k
    BY <1>1, <1>2, s - (q + 1) \in Nat
  <2>2. d * s = q * d + d + k * d /\ k * d \in Nat /\ q * d \in Int
    BY <1>1, <2>1
  <2>3. QED BY <1>1, <1>2, <2>2 DEF q
<1>3. CASE ~(q < s)
  <2>1. PICK k \in Nat : q = s + k
    BY <1>1, <1>3, q - s \in Nat
  <2>2. q * d = d * s + k * d /\ k * d \in Nat /\ d * s \in Int
    BY <1>1, <2>1
  <2>3. QED BY <1>1, <1>3, <2>2 DEF q
<1>4. QED BY <1>2, <1>3

(* The numbers of at most w digits are those below Strings[w]. *)
LEMMA WrittenLength ==
  \A w \in Nat : \A n \in Nat : Len(Written[n]) <= w <=> n < Strings[w]
<1> DEFINE Bad == {w \in Nat : ~ \A n \in Nat : Len(Written[n]) <= w <=> n < Strings[w]}
<1>1. ASSUME NEW w \in Bad PROVE \E v \in Bad : v < w
  <2>1. PICK n \in Nat : ~(Len(Written[n]) <= w <=> n < Strings[w])
    OBVIOUS
  <2>2. w \in Nat /\ Len(Written[n]) \in Nat /\ Strings[w] \in Nat \ {0}
    <3>1. w \in Nat
      OBVIOUS
    <3>2. Written[n] \in Seq(Letters)
      BY WrittenType
    <3>3. Strings[w] \in Nat \ {0}
      BY <3>1, StringsDef, Zenon
    <3>4. QED BY <3>1, <3>2, <3>3
  <2>3. n # 0
    <3>1. CASE n = 0
      <4>1. Len(Written[n]) = 0
        BY <3>1, WrittenDef
      <4>2. QED BY <2>1, <2>2, <3>1, <4>1
    <3>2. QED BY <3>1
  <2> DEFINE q == n \div Base
  <2>4. q \in Nat /\ Len(Written[q]) \in Nat /\ Len(Written[n]) = Len(Written[q]) + 1
    <3>1. q \in Nat
      BY Division
    <3>2. Written[q] \in Seq(Letters) /\ Char(n % Base) \in Letters
      BY <3>1, WrittenType, BaseRange
    <3>3. Written[n] = Append(Written[q], Char(n % Base))
      BY <2>3, WrittenDef
    <3> HIDE DEF q
    <3>4. QED BY <3>1, <3>2, <3>3, Longer
  <2>5. w # 0
    <3>1. Strings[0] = 1
      BY StringsDef
    <3> HIDE DEF Bad, q
    <3>2. QED BY <2>1, <2>2, <2>3, <2>4, <3>1
  <2>6. w - 1 \in Nat /\ Strings[w - 1] \in Nat /\ Strings[w] = Base * Strings[w - 1]
    <3>1. w - 1 \in Nat /\ (w - 1) + 1 = w
      BY <2>2, <2>5
    <3>2. QED BY <3>1, StringsDef
  <2>7. q < Strings[w - 1] <=> n < Strings[w]
    <3>1. Base \in Nat \ {0}
      BY BaseRange
    <3>2. n \in Int /\ Strings[w - 1] \in Int
      BY <2>6
    <3>3. q < Strings[w - 1] <=> n < Base * Strings[w - 1]
      BY <3>1, <3>2, Below
    <3>4. QED BY <2>6, <3>3
  <2> HIDE DEF q, Bad
  <2>8. ~(Len(Written[q]) <= w - 1 <=> q < Strings[w - 1])
    BY <2>1, <2>2, <2>4, <2>7
  <2>9. w - 1 \in Bad /\ w - 1 < w
    BY <2>2, <2>4, <2>6, <2>8 DEF Bad
  <2>10. QED BY <2>9
<1>2. Bad = {}
  <2> HIDE DEF Bad
  <2>1. Bad \in SUBSET Nat BY DEF Bad
  <2>2. QED BY <1>1, <2>1, Descent
<1>3. QED BY <1>2

(* A number is a multiple of the modulus and its remainder. *)
LEMMA Remainder ==
  ASSUME NEW m \in Nat \ {0}, NEW x \in Int
  PROVE  \E k \in Int : x = k * m + (x % m)
<1>1. x \div m \in Int /\ x = (x \div m) * m + (x % m)
  OBVIOUS
<1>2. QED BY <1>1, Zenon

(* Adding to a product of the modulus changes no remainder. *)
LEMMA SameRemainder ==
  ASSUME NEW m \in Nat \ {0}, NEW x \in Int, NEW k \in Int
  PROVE  (k * m + x) % m = x % m
<1>1. PICK j \in Int : x = j * m + (x % m)
  BY Remainder
<1> DEFINE r == x % m
<1>2. r \in 0 .. m - 1
  OBVIOUS
<1> HIDE DEF r
<1>3. x = j * m + r
  BY <1>1 DEF r
<1>4. k * m + x = (k + j) * m + r
  BY <1>2, <1>3
<1>5. ((k + j) * m + r) % m = r
  BY <1>2, Place
<1>6. QED BY <1>4, <1>5 DEF r

(* Reducing the partial sum changes nothing modulo m. *)
LEMMA Horner ==
  ASSUME NEW m \in Nat \ {0}, NEW b \in Int, NEW q \in Int, NEW r \in Int
  PROVE  ((q % m) * b + r) % m = (q * b + r) % m
<1>1. PICK k \in Int : q = k * m + (q % m)
  BY Remainder
<1> DEFINE s == q % m
<1>2. s \in Int /\ q = k * m + s
  BY <1>1
<1> HIDE DEF s
<1>3. q * b + r = (k * b) * m + (s * b + r)
  BY <1>2
<1>4. s * b + r \in Int /\ k * b \in Int
  BY <1>2
<1>5. QED BY <1>3, <1>4, SameRemainder DEF s

(* Every digit has one character, and the character that digit. *)
LEMMA CharDigit ==
  ASSUME NEW d \in Digit
  PROVE  Known(Char(d)) /\ DigitOf(Char(d)) = d
<1>1. \A e \in Digit : Char(e) = Char(d) => e = d
  <2>1. \A e \in Digit : e + 1 \in 1 .. Len(Alphabet)
    BY BaseRange DEF Digit, Base
  <2>2. \A e \in Digit : Alphabet[e + 1] = Alphabet[d + 1] => e + 1 = d + 1
    BY <2>1, AlphabetAssumption, Zenon
  <2>3. \A e \in Digit : e + 1 = d + 1 => e = d
    BY BaseRange DEF Digit
  <2>4. QED BY <2>2, <2>3 DEF Char
<1>2. DigitOf(Char(d)) \in Digit /\ Char(DigitOf(Char(d))) = Char(d)
  BY DEF DigitOf
<1>3. QED BY <1>1, <1>2 DEF Known

(* Decode knows the characters of codes. *)
LEMMA LetterDigit ==
  ASSUME NEW c \in Letters
  PROVE  Known(c) /\ DigitOf(c) \in Nat
BY CharDigit, BaseRange DEF Letters, Digit

(* The loop of Decode defines a number for every prefix of a code. *)
LEMMA DecodeDef ==
  ASSUME NEW str \in Seq(Letters)
  PROVE  \E num \in [0 .. Len(str) -> Nat] :
           /\ num[0] = 0
           /\ \A i \in 1 .. Len(str) : num[i] = (num[i - 1] * Base + DigitOf(str[i])) % Word
           /\ Decode(str) = [err |-> FALSE, num |-> num[Len(str)]]
<1> DEFINE Eq(f) == f = [i \in 0 .. Len(str) |->
                           IF i = 0 THEN 0 ELSE (f[i - 1] * Base + DigitOf(str[i])) % Word]
           pred == [i \in Nat |-> IF i = 0 THEN 0 ELSE i - 1]
           step == [i \in Nat |-> [v \in Nat |->
                      IF i \in 1 .. Len(str) THEN (v * Base + DigitOf(str[i])) % Word ELSE 0]]
<1> HIDE DEF Eq
<1>1. \A i \in 1 .. Len(str) : str[i] \in Letters
  OBVIOUS
<1>2. \A i \in 1 .. Len(str) : Known(str[i]) /\ DigitOf(str[i]) \in Nat
  BY <1>1, LetterDigit
<1>3. \A v \in Nat, d \in Nat : (v * Base + d) % Word \in Nat
  <2>1. \A a \in Nat, v \in Nat, d \in Nat : v * a + d \in Nat
    OBVIOUS
  <2>2. \A x \in Nat, m \in Nat \ {0} : x % m \in Nat
    OBVIOUS
  <2>3. QED BY <2>1, <2>2, BaseRange, WordAssumption, Zenon
<1>4. \E f : f \in [0 .. Len(str) -> Nat] /\ Eq(f)
  <2>1. Smaller(pred)
    BY DEF Smaller
  <2>2. 0 \in Nat /\ step \in [Nat -> [Nat -> Nat]]
    BY <1>2, <1>3
  <2>3. PICK f \in [Nat -> Nat] : Recurs(f, 0, step, pred)
    <3> HIDE DEF pred, step
    <3>1. QED BY <2>1, <2>2, Recursion, Zenon
  <2> DEFINE g == [i \in 0 .. Len(str) |-> f[i]]
  <2>4. g[0] = 0
    <3> HIDE DEF step, pred
    <3>1. f[0] = 0
      BY <2>3 DEF Recurs
    <3>2. QED BY <3>1
  <2>5. ASSUME NEW i \in 1 .. Len(str)
        PROVE  g[i] = (g[i - 1] * Base + DigitOf(str[i])) % Word
    <3>1. i \in Nat /\ i # 0 /\ i - 1 \in 0 .. Len(str) /\ i - 1 \in Nat /\ Len(str) \in Nat
      OBVIOUS
    <3>5. pred[i] = i - 1
      BY <3>1
    <3>6. f[i - 1] \in Nat /\ g[i - 1] = f[i - 1] /\ g[i] = f[i]
      <4>1. i \in 0 .. Len(str)
        BY <3>1
      <4>2. QED BY <3>1, <4>1
    <3>2. \A v \in Nat : step[i][v] = (v * Base + DigitOf(str[i])) % Word
      OBVIOUS
    <3> HIDE DEF step, pred
    <3>3. f[i] = step[i][f[i - 1]]
      BY <2>3, <3>1, <3>5 DEF Recurs
    <3> HIDE DEF g
    <3>4. QED BY <3>2, <3>3, <3>6
  <2> HIDE DEF step, pred
  <2>6. g \in [0 .. Len(str) -> Nat]
    BY <2>3
  <2>7. Eq(g)
    <3> DEFINE h == [i \in 0 .. Len(str) |->
                       IF i = 0 THEN 0 ELSE (g[i - 1] * Base + DigitOf(str[i])) % Word]
    <3> HIDE DEF g
    <3>1. \A i \in 0 .. Len(str) : g[i] = h[i]
      BY <2>4, <2>5
    <3>2. g = h
      BY <2>6, <3>1
    <3>3. QED BY <3>2 DEF Eq
  <2>8. QED BY <2>6, <2>7
<1> DEFINE num == CHOOSE f : Eq(f)
<1>5. Eq(num)
  BY <1>4, Zenon
<1>6. Decode(str) = [err |-> FALSE, num |-> num[Len(str)]]
  <2>1. DOMAIN str = 1 .. Len(str)
    OBVIOUS
  <2>2. QED BY <1>2, <2>1, Zenon DEF Decode, Eq
<1> HIDE DEF num
<1>7. /\ num[0] = 0
      /\ \A i \in 1 .. Len(str) : num[i] = (num[i - 1] * Base + DigitOf(str[i])) % Word
      /\ num = [i \in 0 .. Len(str) |-> num[i]]
  BY <1>5 DEF Eq
<1>8. num \in [0 .. Len(str) -> Nat]
  <2> DEFINE Bad == {i \in Nat : i <= Len(str) /\ num[i] \notin Nat}
  <2>1. ASSUME NEW i \in Bad PROVE \E j \in Bad : j < i
    <3>1. i \in Nat /\ i <= Len(str) /\ num[i] \notin Nat /\ i # 0 /\ Len(str) \in Nat
      BY <1>7
    <3>2. i \in 1 .. Len(str) /\ i - 1 \in Nat /\ i - 1 <= Len(str)
      BY <3>1
    <3>3. num[i - 1] \notin Nat
      BY <1>2, <1>3, <1>7, <3>1, <3>2
    <3>4. QED BY <3>2, <3>3
  <2>2. Bad = {}
    <3> HIDE DEF Bad
    <3>1. Bad \in SUBSET Nat BY DEF Bad
    <3>2. QED BY <2>1, <3>1, Descent
  <2>3. \A i \in 0 .. Len(str) : num[i] \in Nat
    BY <2>2
  <2>4. QED BY <1>7, <2>3
<1>9. QED BY <1>6, <1>7, <1>8

----------------------------------------------------------------------------
(* One more character is one more turn of the loop. *)
LEMMA DecodeAppend ==
  ASSUME NEW s \in Seq(Letters), NEW d \in Digit
  PROVE  /\ Decode(s).num \in Nat
         /\ Decode(Append(s, Char(d))) = [err |-> FALSE, num |-> (Decode(s).num * Base + d) % Word]
<1> DEFINE t == Append(s, Char(d))
<1>1. Char(d) \in Letters /\ d \in Nat /\ Base \in Nat
  BY BaseRange DEF Letters, Digit
<1>2. /\ t \in Seq(Letters) /\ Len(t) = Len(s) + 1 /\ Len(s) \in Nat
      /\ \A i \in 1 .. Len(s) : t[i] = s[i]
      /\ t[Len(s) + 1] = Char(d)
  BY <1>1, Longer
<1> HIDE DEF t
<1>3. PICK f \in [0 .. Len(s) -> Nat] :
        /\ f[0] = 0
        /\ \A i \in 1 .. Len(s) : f[i] = (f[i - 1] * Base + DigitOf(s[i])) % Word
        /\ Decode(s) = [err |-> FALSE, num |-> f[Len(s)]]
  BY DecodeDef
<1>4. PICK g \in [0 .. Len(t) -> Nat] :
        /\ g[0] = 0
        /\ \A i \in 1 .. Len(t) : g[i] = (g[i - 1] * Base + DigitOf(t[i])) % Word
        /\ Decode(t) = [err |-> FALSE, num |-> g[Len(t)]]
  BY <1>2, DecodeDef
<1>5. \A i \in 0 .. Len(s) : f[i] = g[i]
  <2> DEFINE Bad == {i \in Nat : i <= Len(s) /\ f[i] # g[i]}
  <2>1. ASSUME NEW i \in Bad PROVE \E j \in Bad : j < i
    <3>1. i \in Nat /\ i <= Len(s) /\ f[i] # g[i] /\ i # 0
      BY <1>3, <1>4
    <3>2. i \in 1 .. Len(s) /\ i \in 1 .. Len(t) /\ i - 1 \in Nat /\ i - 1 <= Len(s) /\ i - 1 < i
      BY <1>2, <3>1
    <3>3. f[i] = (f[i - 1] * Base + DigitOf(s[i])) % Word
      BY <1>3, <3>2
    <3>4. g[i] = (g[i - 1] * Base + DigitOf(s[i])) % Word
      BY <1>2, <1>4, <3>2
    <3>5. f[i - 1] # g[i - 1]
      BY <3>1, <3>3, <3>4
    <3>6. QED BY <3>2, <3>5
  <2>2. Bad = {}
    <3> HIDE DEF Bad
    <3>1. Bad \in SUBSET Nat BY DEF Bad
    <3>2. QED BY <2>1, <3>1, Descent
  <2>3. QED BY <2>2
<1>6. Len(t) \in 1 .. Len(t) /\ Len(t) - 1 = Len(s) /\ Len(s) \in 0 .. Len(s)
  BY <1>2
<1>7. g[Len(t)] = (f[Len(s)] * Base + d) % Word
  <2>1. g[Len(t)] = (g[Len(t) - 1] * Base + DigitOf(t[Len(t)])) % Word
    BY <1>4, <1>6
  <2>2. t[Len(t)] = Char(d)
    BY <1>2
  <2>3. g[Len(t) - 1] = f[Len(s)]
    BY <1>5, <1>6
  <2>4. QED BY <2>1, <2>2, <2>3, CharDigit
<1>8. QED BY <1>3, <1>4, <1>6, <1>7 DEF t

(* The empty string is zero. *)
LEMMA DecodeEmpty == Decode(<<>>) = [err |-> FALSE, num |-> 0]
<1>1. <<>> \in Seq(Letters) /\ Len(<<>>) = 0
  OBVIOUS
<1>2. PICK f \in [0 .. Len(<<>>) -> Nat] :
        f[0] = 0 /\ Decode(<<>>) = [err |-> FALSE, num |-> f[Len(<<>>)]]
  BY <1>1, DecodeDef
<1>3. QED BY <1>1, <1>2

(* What the loop of Encode writes, the loop of Decode reads. *)
LEMMA DecodeWritten ==
  \A n \in Nat : Decode(Written[n]) = [err |-> FALSE, num |-> n % Word]
<1> DEFINE Bad == {n \in Nat : Decode(Written[n]) # [err |-> FALSE, num |-> n % Word]}
<1>1. ASSUME NEW n \in Bad PROVE \E m \in Bad : m < n
  <2>1. n \in Nat /\ Decode(Written[n]) # [err |-> FALSE, num |-> n % Word]
    OBVIOUS
  <2>2. n # 0
    <3>1. 0 % Word = 0
      BY WordAssumption
    <3>2. Written[0] = <<>>
      BY WrittenDef
    <3>3. QED BY <2>1, <3>1, <3>2, DecodeEmpty
  <2> DEFINE q == n \div Base
             r == n % Base
  <2>3. q \in Nat /\ r \in Digit /\ n = q * Base + r /\ q < n
    BY <2>1, <2>2, Division
  <2>4. Written[n] = Append(Written[q], Char(r)) /\ Written[q] \in Seq(Letters)
    BY <2>1, <2>2, <2>3, WrittenDef, WrittenType
  <2> HIDE DEF q, r, Bad
  <2>5. ASSUME Decode(Written[q]) = [err |-> FALSE, num |-> q % Word]
        PROVE  FALSE
    <3>1. Decode(Written[n]) = [err |-> FALSE, num |-> ((q % Word) * Base + r) % Word]
      <4>1. Decode(Written[q]).num = q % Word
        BY <2>5
      <4>2. QED BY <2>3, <2>4, <4>1, DecodeAppend
    <3>2. ((q % Word) * Base + r) % Word = n % Word
      <4>1. q \in Int /\ r \in Int /\ Base \in Int
        BY <2>3, BaseRange DEF Digit
      <4>2. QED BY <2>3, <4>1, Horner, WordAssumption
    <3>3. QED BY <2>1, <3>1, <3>2
  <2>6. q \in Bad
    BY <2>3, <2>5 DEF Bad
  <2>7. QED BY <2>3, <2>6
<1>2. Bad = {}
  <2> HIDE DEF Bad
  <2>1. Bad \in SUBSET Nat BY DEF Bad
  <2>2. QED BY <1>1, <2>1, Descent
<1>3. QED BY <1>2

(* Decode inverts Encode for every alphabet without repeated characters and *)
(* every number; only what uint64 cannot hold is lost (base62.go:60-105).   *)
THEOREM CodecRoundTrip ==
  \A num \in Nat : Decode(Encode(num)) = [err |-> FALSE, num |-> num % Word]
<1>1. ASSUME NEW num \in Nat
      PROVE  Decode(Encode(num)) = [err |-> FALSE, num |-> num % Word]
  <2>1. CASE num = 0
    <3>1. 0 \in Digit /\ Base \in Nat /\ <<>> \in Seq(Letters)
      BY BaseRange DEF Digit
    <3>2. Encode(num) = Append(<<>>, Char(0))
      BY <2>1 DEF Encode
    <3>3. Decode(<<>>).num = 0
      BY DecodeEmpty
    <3>4. Decode(Encode(num)) = [err |-> FALSE, num |-> (0 * Base + 0) % Word]
      BY <3>1, <3>2, <3>3, DecodeAppend
    <3>5. 0 * Base + 0 = 0
      BY <3>1
    <3>6. QED BY <2>1, <3>4, <3>5
  <2>2. CASE num # 0
    BY <2>2, DecodeWritten DEF Encode
  <2>3. QED BY <2>1, <2>2
<1>2. QED BY <1>1

(* The code of a number has at most w characters exactly when the number is *)
(* below Base to the power of w: the last id whose code varchar(10) holds   *)
(* is Capacity - 1, and no limit is closer (base62.go:60-77).               *)
THEOREM CodeLength ==
  \A num \in Nat, w \in Nat \ {0} : Len(Encode(num)) <= w <=> num < Strings[w]
<1>1. ASSUME NEW num \in Nat, NEW w \in Nat \ {0}
      PROVE  Len(Encode(num)) <= w <=> num < Strings[w]
  <2>1. CASE num = 0
    <3>1. Len(Encode(num)) = 1
      BY <2>1 DEF Encode
    <3>2. Strings[w] \in Nat \ {0}
      BY StringsDef, Zenon
    <3>3. Len(Encode(num)) <= w
      BY <3>1
    <3>4. num < Strings[w]
      BY <2>1, <3>2
    <3>5. QED BY <3>3, <3>4
  <2>2. CASE num # 0
    BY <2>2, WrittenLength DEF Encode
  <2>3. QED BY <2>1, <2>2
<1>2. QED BY <1>1

(* Numbers below the word size that have one code are one number. *)
LEMMA EncodeInjective ==
  ASSUME NEW a \in 0 .. Word - 1, NEW b \in 0 .. Word - 1, Encode(a) = Encode(b)
  PROVE  a = b
<1>1. a \in Nat /\ b \in Nat /\ a % Word = a /\ b % Word = b
  BY WordAssumption
<1>2. a % Word = b % Word
  BY <1>1, CodecRoundTrip
<1>3. QED BY <1>1, <1>2

(* The code of every id, of any pod and time, decodes to it. *)
THEOREM EveryCodeDecodes == Spec => []CodesDecode
<1>1. TypeOK => CodesDecode
  <2> SUFFICES ASSUME TypeOK, NEW id \in ids
               PROVE  Decode(ShortCode(id)) = [err |-> FALSE, num |-> id % Word]
    BY DEF CodesDecode
  <2>1. id \in Int
    BY DEF TypeOK
  <2>2. id % Word \in Nat /\ (id % Word) % Word = id % Word
    BY <2>1, WordAssumption
  <2>3. QED BY <2>2, CodecRoundTrip DEF ShortCode
<1>2. QED BY <1>1, IdTypeCorrect, PTL

(* For every alphabet and width of the column, the codes of all ids from    *)
(* the epoch to the horizon fit it.                                         *)
THEOREM EveryCodeFits == Spec => []CodesFit
<1>1. TypeOK => CodesFit
  <2> SUFFICES ASSUME TypeOK, NEW id \in ids, TimeOf(id) \in Epoch .. Horizon - 1
               PROVE  Len(ShortCode(id)) <= Width
    BY DEF CodesFit
  <2>1. id \in Int /\ Capacity \in Nat \ {0} /\ Width \in Nat \ {0}
    BY StringsDef, WidthAssumption DEF TypeOK, Capacity
  <2> DEFINE u == id \div Steps
             t == u \div Nodes
             h == Capacity \div (Nodes * Steps)
  <2>2. Nodes \in Nat \ {0} /\ Steps \in Nat \ {0} /\ Epoch \in Int
    BY FieldAssumption
  <2>3. u \in Int /\ t \in Int /\ h \in Int /\ ~(t < 0) /\ t < h
    <3>1. Nodes * Steps \in Nat \ {0}
      BY <2>2
    <3>2. u \in Int /\ t \in Int /\ h \in Int
      BY <2>1, <2>2, <3>1
    <3>3. TimeOf(id) = t + Epoch /\ Horizon = Epoch + h
      BY DEF TimeOf, Horizon
    <3> HIDE DEF u, t, h
    <3>4. QED BY <2>2, <3>2, <3>3
  <2>4. ~(id < 0) /\ id < Capacity
    <3> HIDE DEF h
    <3>1. Nodes * h \in Int /\ Steps * (Nodes * h) \in Int
      BY <2>2, <2>3
    <3>2. ~(u < Nodes * 0) /\ u < Nodes * h
      BY <2>2, <2>3, Below
    <3>3. ~(id < Steps * (Nodes * 0)) /\ id < Steps * (Nodes * h)
      BY <2>1, <2>2, <3>1, <3>2, Below
    <3>4. Steps * (Nodes * 0) = 0
      BY <2>2
    <3>5. ~(Capacity < (Nodes * Steps) * h)
      <4>1. Nodes * Steps \in Nat \ {0} /\ ~(h < h)
        BY <2>2, <2>3
      <4>2. QED BY <2>1, <2>3, <4>1, Below DEF h
    <3>6. (Nodes * Steps) * h = Steps * (Nodes * h)
      BY <2>2, <2>3
    <3>7. QED BY <2>1, <3>1, <3>3, <3>4, <3>5, <3>6
  <2>5. id % Word \in Nat /\ id % Word <= id
    BY <2>1, <2>4, WordAssumption
  <2>6. id % Word < Strings[Width]
    BY <2>1, <2>4, <2>5 DEF Capacity
  <2>7. QED BY <2>1, <2>5, <2>6, CodeLength DEF ShortCode
<1>2. QED BY <1>1, IdTypeCorrect, PTL

----------------------------------------------------------------------------
(* The least id, and the ids of one period of uint64 from it. *)
First == Id(1, 0, 0)
InRange == ids \subseteq First .. First + Word - 1

(* The ids of all pods and times are in one period. *)
LEMMA IdRange ==
  ASSUME NEW t \in 1 .. MaxTime, NEW n \in 0 .. Nodes - 1, NEW s \in 0 .. Steps - 1
  PROVE  Id(t, n, s) \in First .. First + Word - 1
<1> DEFINE m == t - 1
           a == m * Nodes + n
           b == a * Steps + s
<1>1. /\ Nodes \in Nat \ {0} /\ Steps \in Nat \ {0} /\ Epoch \in Int
      /\ m \in 0 .. MaxTime - 1 /\ MaxTime \in Nat \ {0}
      /\ n \in Int /\ s \in Int
  BY FieldAssumption, TimeAssumption
<1>2. First \in Int /\ Id(t, n, s) = First + b
  <2>1. Id(t, n, s) = ((t - Epoch) * Nodes + n) * Steps + s
    BY DEF Id
  <2>2. First = ((1 - Epoch) * Nodes) * Steps /\ First \in Int
    BY <1>1 DEF First, Id
  <2>3. ((t - Epoch) * Nodes + n) * Steps + s = ((1 - Epoch) * Nodes) * Steps + ((m * Nodes + n) * Steps + s)
    BY <1>1
  <2>4. QED BY <2>1, <2>2, <2>3
<1>3. a \in Int /\ a >= 0 /\ a < MaxTime * Nodes
  <2>1. m * Nodes \in Nat
    BY <1>1
  <2>2. m * Nodes + Nodes <= MaxTime * Nodes
    <3>1. PICK k \in Nat : MaxTime = m + 1 + k
      BY <1>1, MaxTime - (m + 1) \in Nat
    <3> HIDE DEF m
    <3>2. MaxTime * Nodes = m * Nodes + Nodes + k * Nodes /\ k * Nodes \in Nat
      BY <1>1, <3>1
    <3>3. m * Nodes \in Int
      BY <2>1
    <3>4. QED BY <1>1, <3>2, <3>3
  <2>3. MaxTime * Nodes \in Int
    BY <1>1
  <2> HIDE DEF m
  <2>4. QED BY <1>1, <2>1, <2>2, <2>3
<1>4. b \in Int /\ b >= 0 /\ b < (MaxTime * Nodes) * Steps
  <2> HIDE DEF a
  <2>1. a * Steps \in Nat
    BY <1>1, <1>3
  <2>2. a * Steps + Steps <= (MaxTime * Nodes) * Steps
    <3>1. PICK k \in Nat : MaxTime * Nodes = a + 1 + k
      <4> DEFINE x == MaxTime * Nodes
      <4>1. x \in Int /\ a < x
        BY <1>1, <1>3
      <4> HIDE DEF x
      <4>2. x - (a + 1) \in Nat /\ x = a + 1 + (x - (a + 1))
        BY <1>3, <4>1
      <4>3. QED BY <4>2 DEF x
    <3>2. (a + 1 + k) * Steps = a * Steps + Steps + k * Steps /\ k * Steps \in Nat
      BY <1>1, <1>3
    <3>3. QED BY <1>1, <2>1, <3>1, <3>2
  <2>3. (MaxTime * Nodes) * Steps \in Int
    BY <1>1
  <2>4. QED BY <1>1, <2>1, <2>2, <2>3
<1> HIDE DEF b
<1>5. (MaxTime * Nodes) * Steps <= Word /\ Word \in Nat /\ (MaxTime * Nodes) * Steps \in Int
  BY <1>1, RangeAssumption, WordAssumption
<1>6. QED BY <1>2, <1>4, <1>5

(* Numbers in one period that have one remainder are one number. *)
LEMMA SmallDistance ==
  ASSUME NEW m \in Nat \ {0}, NEW f \in Int,
         NEW a \in f .. f + m - 1, NEW b \in f .. f + m - 1, a % m = b % m
  PROVE  a = b
<1>0. a \in Int /\ b \in Int
  OBVIOUS
<1>1. PICK j \in Int : a = j * m + (a % m)
  BY <1>0, Remainder
<1>2. PICK k \in Int : b = k * m + (b % m)
  BY <1>0, Remainder
<1> DEFINE r == a % m
<1>3. r \in Int
  OBVIOUS
<1>4. a = j * m + r /\ b = k * m + r
  BY <1>1, <1>2
<1> HIDE DEF r
<1>5. a - b = (j - k) * m
  BY <1>3, <1>4
<1>6. a - b < m /\ b - a < m
  OBVIOUS
<1>7. j - k = 0
  <2> DEFINE i == j - k
  <2>1. i \in Int /\ i * m < m /\ (0 - i) * m < m
    BY <1>5, <1>6
  <2> HIDE DEF i
  <2>2. ASSUME i >= 1 PROVE FALSE
    BY <2>1, <2>2
  <2>3. ASSUME 0 - i >= 1 PROVE FALSE
    BY <2>1, <2>3
  <2>4. QED BY <2>1, <2>2, <2>3 DEF i
<1>8. QED BY <1>5, <1>7

(* No step leaves the period. *)
LEMMA RangeStep ==
  ASSUME TypeOK, InRange, [Next]_vars
  PROVE  InRange'
<1> USE TimeAssumption, FieldAssumption DEF TypeOK, InRange
<1>1. First' = First
  BY DEF First, Id
<1>2. ASSUME NEW p \in Pod, NEW now \in 1 .. MaxTime, NEW step \in 0 .. Steps - 1,
             Emit(p, now, step)
      PROVE  InRange'
  <2>1. Id(now, NodeOf(p), step) \in First .. First + Word - 1
    BY NodeRange, IdRange
  <2>2. QED BY <1>1, <1>2, <2>1 DEF Emit
<1>3. ASSUME UNCHANGED ids
      PROVE  InRange'
  BY <1>1, <1>3
<1>4. ASSUME NEW p \in Pod, Assign(p, clock[p])
      PROVE  InRange'
  <2>1. (gen[p].step + 1) % Steps \in 0 .. Steps - 1 /\ clock[p] \in 1 .. MaxTime /\ 0 \in 0 .. Steps - 1
    BY DEF Generator
  <2>2. QED BY <1>2, <1>3, <1>4, <2>1 DEF Assign
<1>5. ASSUME NEW p \in Pod, SpinEnd(p)
      PROVE  InRange'
  <2>1. clock[p] \in 1 .. MaxTime /\ 0 \in 0 .. Steps - 1
    OBVIOUS
  <2>2. QED BY <1>2, <1>5, <2>1 DEF SpinEnd
<1>6. QED
  BY <1>3, <1>4, <1>5 DEF Next, Generate, Wake, Tick, SetBack, Kill, Start, vars

(* Two ids, of any pods and whatever happens to their clocks, never have    *)
(* one code.                                                                *)
THEOREM CodesAreDistinct == Spec => []DistinctCodes
<1>1. Init => TypeOK /\ InRange
  BY TimeAssumption, FieldAssumption DEF Init, TypeOK, Fresh, At, Generator, InRange
<1>2. TypeOK /\ InRange /\ [Next]_vars => (TypeOK /\ InRange)'
  BY TypeStep, RangeStep
<1>3. TypeOK /\ InRange => DistinctCodes
  <2> SUFFICES ASSUME TypeOK, InRange, NEW a \in ids, NEW b \in ids, ShortCode(a) = ShortCode(b)
               PROVE  a = b
    BY DEF DistinctCodes
  <2>1. First \in Int
    BY FieldAssumption DEF First, Id
  <2>2. a \in First .. First + Word - 1 /\ b \in First .. First + Word - 1
    BY DEF InRange
  <2>3. a % Word \in 0 .. Word - 1 /\ b % Word \in 0 .. Word - 1
    BY <2>1, <2>2, WordAssumption
  <2>4. a % Word = b % Word
    BY <2>3, EncodeInjective DEF ShortCode
  <2>5. QED BY <2>1, <2>2, <2>4, SmallDistance, WordAssumption
<1>4. QED BY <1>1, <1>2, <1>3, PTL DEF Spec
=============================================================================
