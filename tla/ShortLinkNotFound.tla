------------------------- MODULE ShortLinkNotFound -------------------------
(***************************************************************************)
(* RebuildCovers, NotFoundOnlyIfEarly, RepairPending and StaysResolvable,  *)
(* for every value of the constants.  The argument: a rebuild passes every *)
(* code that was committed when it began, so a ready filter cannot reject  *)
(* a code that is Safe; a code stays Safe until a failover loses bits of   *)
(* it, so that the lookups which find nothing, and all the negative entries *)
(* copied from them, are early; and a message is acknowledged by a handler *)
(* whose pipeline has set the bits of its code.                            *)
(***************************************************************************)
EXTENDS ShortLinkAgreement

(* The scan has set the bits of all it has passed; the page in hand is the  *)
(* next part of the scan.                                                   *)
Progress(p) ==
  /\ rb[p].pre \subseteq Committed
  /\ rb[p].pc \in {"scan", "write"} =>
       \A c \in rb[p].pre : c <= rb[p].cursor => c \in bloom
  /\ rb[p].pc = "write" =>
       \A c \in rb[p].pre \ rb[p].batch :
         c > rb[p].cursor => \A b \in rb[p].batch : b < c
  /\ ready[p] => rb[p].pre \subseteq bloom

RebuildProgress == \A p \in Pod : Progress(p)

L1Early == \A p \in Pod, c \in Code : l1[p][c] = Neg => c \in early

LinkEarly == \A n \in RedisNode, c \in Code : link[n][c] = Neg => c \in early

(* A code under lookup is Safe unless the lookup is early.                  *)
FlightNoted ==
  \A p \in Pod, c \in Code :
    /\ flight[p][c].val = Neg => c \in early
    /\ flight[p][c].pc # "none" => c \in early \/ Safe(c)

ReaderNoted ==
  \A r \in Reader :
    /\ reader[r].res = Neg => reader[r].code \in early
    /\ reader[r].pc # "idle" => reader[r].code \in early \/ Safe(reader[r].code)

EarlyInv == L1Early /\ LinkEarly /\ FlightNoted /\ ReaderNoted

NotFoundInv == TypeInv /\ RebuildProgress /\ EarlyInv

USE DEF NoCode, NoPod, Err, Neg, Miss, Primary,
        storeVars, dbVars, redisVars, l1Vars, rbVars, history

(* The invariant gives the two properties.                                  *)
LEMMA NotFoundImplies == NotFoundInv => RebuildCovers /\ NotFoundOnlyIfEarly
<1> SUFFICES ASSUME NotFoundInv PROVE RebuildCovers /\ NotFoundOnlyIfEarly
  OBVIOUS
<1>1. RebuildCovers
  BY DEF NotFoundInv, RebuildProgress, Progress, RebuildCovers
<1>2. NotFoundOnlyIfEarly
  BY DEF NotFoundInv, EarlyInv, L1Early, LinkEarly, FlightNoted, ReaderNoted,
     NotFoundOnlyIfEarly, NegSources
<1>3. QED BY <1>1, <1>2

----------------------------------------------------------------------------
(* What only grows, failovers apart: rows, bits and the record of early     *)
(* lookups; a rebuild is only ever replaced by one that covers all          *)
(* committed codes.                                                         *)
Grows ==
  /\ RowsGrow
  /\ bloom \subseteq bloom'
  /\ early \subseteq early'
  /\ \A p \in Pod : rb'[p].pre \in {rb[p].pre, Committed}

(* A step that touches none of them. *)
LEMMA GrowsSame == TypeInv /\ UNCHANGED <<rows, bloom, early, rb>> => Grows
  BY RowsSame DEF Grows

(* A command of a pipeline. *)
LEMMA GrowsExecute ==
  ASSUME NEW cmd, NEW c, NEW u, Execute(cmd, c, u), UNCHANGED <<rows, early, rb>>
  PROVE  Grows
  BY RowsSame DEF Grows, Execute, AddBloom

(* Every step that is not a failover of the bitmap. *)
LEMMA GrowsStep == TypeInv /\ [Step]_vars => Grows
<1> SUFFICES ASSUME TypeInv, [Step]_vars PROVE Grows
  OBVIOUS
<1>1. ASSUME NEW k \in Creator, CreateStep(k)
      PROVE  Grows
  <2>1. CASE CreateInsert(k)
    <3>1. creator[k].url \in URL
      BY <2>1, CreatorFields DEF TypeInv, CreateInsert
    <3>2. RowsGrow
      BY <2>1, <3>1, RowsCommit, RowsSame DEF CreateInsert
    <3>3. UNCHANGED <<bloom, early, rb>>
      BY <2>1 DEF CreateInsert
    <3>4. QED BY <3>2, <3>3 DEF Grows
  <2>2. CASE CreatePipe(k)
    BY <2>2, GrowsExecute DEF CreatePipe
  <2>3. CASE CreateBackfill(k)
    BY <2>3, GrowsSame DEF CreateBackfill
  <2>4. CASE CreateRedis(k) \/ CreateFind(k) \/ CreateReturnExisting(k) \/ CreateFill(k)
             \/ CreateReturn(k)
    BY <2>4, GrowsSame DEF CreateRedis, CreateFind, CreateReturnExisting, CreateFill, CreateReturn
  <2>5. QED BY <1>1, <2>1, <2>2, <2>3, <2>4 DEF CreateStep
<1>2. ASSUME NEW k \in Creator,
             CreatePipeFail(k) \/ \E p \in Pod, u \in URL : CreateStart(k, p, u)
      PROVE  Grows
  BY <1>2, GrowsSame DEF CreatePipeFail, CreateStart
<1>3. ASSUME NEW r \in Reader, NEW p \in Pod, NEW c \in Code, RedirectStart(r, p, c)
      PROVE  Grows
  BY <1>3, RowsSame DEF RedirectStart, NoteLookup, Grows
<1>4. ASSUME NEW r \in Reader, RedirectDo(r)
      PROVE  Grows
  BY <1>4, GrowsSame DEF RedirectDo
<1>5. ASSUME NEW p \in Pod, NEW c \in Code, Flight(p, c)
      PROVE  Grows
  BY <1>5, GrowsSame DEF Flight, FlightRecheck, FlightRedis, FlightBloom, FlightSlave,
     FlightMaster, FlightSet, FlightFill
<1>6. ASSUME NEW p \in Pod,
             (\E c \in Code : L1Expire(p, c)) \/ (\E u \in URL : HashL1Expire(p, u))
      PROVE  Grows
  BY <1>6, GrowsSame DEF L1Expire, HashL1Expire
<1>7. ASSUME NEW p \in Pod, RebuildScan(p)
      PROVE  Grows
  <2>1. \A q \in Pod : rb'[q].pre = rb[q].pre
    <3>1. \A q \in Pod : rb[q] \in RebuildState
      BY DEF TypeInv, RebuildInv
    <3>2. QED BY <1>7, <3>1 DEF RebuildScan, TypeInv, RebuildInv, RebuildState
  <2>2. QED BY <1>7, <2>1, RowsSame DEF RebuildScan, Grows
<1>8. ASSUME NEW p \in Pod, RebuildWrite(p)
      PROVE  Grows
  <2>1. \A q \in Pod : rb'[q].pre = rb[q].pre
    <3>1. \A q \in Pod : rb[q] \in RebuildState
      BY DEF TypeInv, RebuildInv
    <3>2. ASSUME NEW m, rb' = [rb EXCEPT ![p].pc = "scan", ![p].cursor = m, ![p].batch = {}]
          PROVE  \A q \in Pod : rb'[q].pre = rb[q].pre
      BY <3>1, <3>2 DEF TypeInv, RebuildInv, RebuildState
    <3>3. ASSUME rb' = [rb EXCEPT ![p].pc = "failed", ![p].batch = {}]
          PROVE  \A q \in Pod : rb'[q].pre = rb[q].pre
      BY <3>1, <3>3 DEF TypeInv, RebuildInv, RebuildState
    <3>4. QED BY <1>8, <3>2, <3>3 DEF RebuildWrite
  <2>2. QED BY <1>8, <2>1, RowsSame DEF RebuildWrite, AddBloom, Grows
<1>9. ASSUME NEW p \in Pod, SyncPipe(p)
      PROVE  Grows
  BY <1>9, GrowsExecute DEF SyncPipe
<1>10. ASSUME NEW p \in Pod,
              (\E m \in Code \X URL : SyncStart(p, m)) \/ SyncPipeFail(p) \/ SyncFill(p)
       PROVE  Grows
  BY <1>10, GrowsSame DEF SyncStart, SyncPipeFail, SyncFill
<1>11. ASSUME NEW p \in Pod, PodRestart(p)
       PROVE  Grows
  BY <1>11, RowsSame DEF PodRestart, Rebuilding, Grows, TypeInv, RebuildInv
<1>12. ASSUME StoreNext, UNCHANGED podVars
       PROVE  Grows
  BY <1>12, GrowsSame
  DEF StoreNext, LinkExpire, HashExpire, LinkReplicate, HashReplicate, RowReplicate,
      LinkFailover, HashFailover, podVars
<1>13. CASE Step
  BY <1>1, <1>2, <1>3, <1>4, <1>5, <1>6, <1>7, <1>8, <1>9, <1>10, <1>11, <1>12, <1>13 DEF Step
<1>14. CASE UNCHANGED vars
  BY <1>14, GrowsSame DEF vars, podVars
<1>15. QED BY <1>13, <1>14

(* A code that is Safe stays Safe. *)
LEMMA SafeKept ==
  ASSUME Grows, NEW c, Safe(c)
  PROVE  Safe(c)'
  BY DEF Grows, RowsGrow, Safe

(* A ready filter contains every Safe code, and the master finds it.        *)
LEMMA SafeFound ==
  ASSUME NotFoundInv, NEW p \in Pod, NEW c \in Code, Safe(c)
  PROVE  ~BloomRejects(p, c) /\ MasterMatch(c) # {}
  BY DEF NotFoundInv, RebuildProgress, Progress, Safe, BloomRejects, ContainsFalse, MasterMatch, Match,
     SameCode

----------------------------------------------------------------------------
(* RebuildProgress *)

(* Bits and rows set by others do not disturb the rebuild of a pod.         *)
LEMMA ProgressKept ==
  ASSUME Grows, NEW p \in Pod, Progress(p), rb'[p] = rb[p], ready'[p] = ready[p]
  PROVE  Progress(p)'
<1>1. Committed \subseteq Committed' /\ bloom \subseteq bloom'
  BY DEF Grows, RowsGrow
<1>2. QED BY <1>1 DEF Progress

(* A page is the next part of the scan: what follows it is above it.        *)
LEMMA ScanProgress ==
  ASSUME TypeInv, RebuildProgress, NEW p \in Pod, RebuildScan(p), Grows
  PROVE  RebuildProgress'
<1>1. ASSUME NEW q \in Pod, q # p
      PROVE  Progress(q)'
  BY <1>1, ProgressKept DEF RebuildScan, RebuildProgress, TypeInv, RebuildInv
<1>2. /\ rb[p] \in RebuildState /\ rb \in [Pod -> RebuildState] /\ ready \in [Pod -> BOOLEAN]
      /\ rb[p].cursor \in Nat /\ rb[p].pre \subseteq Code
  BY DEF TypeInv, RebuildInv, RebuildState
<1>3. Progress(p) /\ rb[p].pc = "scan" /\ UNCHANGED <<rows, bloom>>
  BY DEF RebuildProgress, RebuildScan
<1>4. ASSUME NEW page \in SUBSET Code, IsPage(page, rb[p].cursor),
             rb' = [rb EXCEPT ![p].pc = "write", ![p].batch = page], UNCHANGED ready
      PROVE  Progress(p)'
  <2>1. /\ rb'[p].pre = rb[p].pre /\ rb'[p].cursor = rb[p].cursor
        /\ rb'[p].batch = page
    BY <1>2, <1>4 DEF RebuildState
  <2>2. \A c \in rb[p].pre \ page : c > rb[p].cursor => \A b \in page : b < c
    BY <1>3, <1>4 DEF IsPage, After, Progress
  <2>3. QED BY <1>3, <1>4, <2>1, <2>2 DEF Progress, Committed
<1>5. ASSUME After(rb[p].cursor) = {}, rb' = [rb EXCEPT ![p].pc = "done"],
             ready' = [ready EXCEPT ![p] = TRUE]
      PROVE  Progress(p)'
  <2>1. rb'[p].pre = rb[p].pre /\ rb'[p].pc = "done"
    BY <1>2, <1>5 DEF RebuildState
  <2>2. rb[p].pre \subseteq bloom
    BY <1>2, <1>3, <1>5, CodeAssumption DEF After, Progress
  <2>3. QED BY <1>3, <2>1, <2>2 DEF Progress, Committed
<1>6. ASSUME rb' = [rb EXCEPT ![p].pc = "failed"], UNCHANGED ready
      PROVE  Progress(p)'
  <2>1. rb'[p].pre = rb[p].pre /\ rb'[p].pc = "failed"
    BY <1>2, <1>6 DEF RebuildState
  <2>2. QED BY <1>3, <1>6, <2>1 DEF Progress, Committed
<1>7. Progress(p)'
  BY <1>4, <1>5, <1>6 DEF RebuildScan
<1>8. QED BY <1>1, <1>7 DEF RebuildProgress

(* When the page is in the filter, the cursor may move to its last code.    *)
LEMMA WriteProgress ==
  ASSUME TypeInv, RebuildProgress, NEW p \in Pod, RebuildWrite(p), Grows
  PROVE  RebuildProgress'
<1>1. ASSUME NEW q \in Pod, q # p
      PROVE  Progress(q)'
  <2>1. rb'[q] = rb[q] /\ ready'[q] = ready[q]
    BY <1>1 DEF RebuildWrite, TypeInv, RebuildInv
  <2>2. QED BY <2>1, ProgressKept DEF RebuildProgress
<1>2. /\ rb[p] \in RebuildState /\ rb \in [Pod -> RebuildState]
      /\ rb[p].cursor \in Nat /\ rb[p].pre \subseteq Code /\ rb[p].batch \subseteq Code
  BY DEF TypeInv, RebuildInv, RebuildState
<1>3. /\ Progress(p) /\ rb[p].pc = "write" /\ UNCHANGED <<rows, ready>>
      /\ bloom \subseteq bloom'
  BY DEF RebuildProgress, RebuildWrite, Grows
<1>4. ASSUME NEW m \in rb[p].batch, IsLast(m, rb[p].batch), AddBloom(rb[p].batch),
             rb' = [rb EXCEPT ![p].pc = "scan", ![p].cursor = m, ![p].batch = {}]
      PROVE  Progress(p)'
  <2>1. [rb[p] EXCEPT !.pc = "scan", !.cursor = m, !.batch = {}].pre = rb[p].pre
    BY <1>2 DEF RebuildState
  <2>2. /\ rb'[p].pre = rb[p].pre /\ rb'[p].cursor = m /\ rb'[p].pc = "scan"
    BY <1>2, <1>4, <2>1 DEF RebuildState
  <2>3. ASSUME NEW c \in rb[p].pre, c <= m
        PROVE  c \in bloom'
    <3>1. c \in Nat /\ m \in Nat
      BY <1>2, CodeAssumption
    <3>2. CASE c <= rb[p].cursor
      BY <1>3, <3>2 DEF Progress
    <3>3. CASE c \in rb[p].batch
      BY <1>4, <3>3 DEF AddBloom
    <3>4. CASE c > rb[p].cursor /\ c \notin rb[p].batch
      <4>1. m < c
        BY <1>3, <3>4 DEF Progress
      <4>2. QED BY <2>3, <3>1, <4>1
    <3>5. QED BY <1>2, <3>1, <3>2, <3>3, <3>4
  <2>4. ready'[p] => rb[p].pre \subseteq bloom'
    BY <1>3 DEF Progress
  <2>5. QED BY <1>3, <2>2, <2>3, <2>4 DEF Progress, Committed
<1>5. ASSUME rb' = [rb EXCEPT ![p].pc = "failed", ![p].batch = {}]
      PROVE  Progress(p)'
  <2>1. rb'[p].pre = rb[p].pre /\ rb'[p].pc = "failed"
    BY <1>2, <1>5 DEF RebuildState
  <2>2. QED BY <1>3, <2>1 DEF Progress, Committed
<1>6. Progress(p)'
  BY <1>4, <1>5 DEF RebuildWrite
<1>7. QED BY <1>1, <1>6 DEF RebuildProgress

(* A restarted pod scans from zero for what is committed by now.            *)
LEMMA RestartProgress ==
  ASSUME TypeInv, RebuildProgress, NEW p \in Pod, PodRestart(p), Grows
  PROVE  RebuildProgress'
<1>1. ASSUME NEW q \in Pod, q # p
      PROVE  Progress(q)'
  BY <1>1, ProgressKept DEF PodRestart, RebuildProgress, TypeInv, RebuildInv
<1>2. rb'[p] = Rebuilding(Committed) /\ ready'[p] = FALSE /\ UNCHANGED rows
  BY DEF PodRestart, TypeInv, RebuildInv
<1>3. \A c \in Committed : ~(c <= 0)
  BY CodeAssumption DEF Committed
<1>4. Progress(p)'
  BY <1>2, <1>3 DEF Progress, Rebuilding, Committed
<1>5. QED BY <1>1, <1>4 DEF RebuildProgress

(* Every other step leaves the rebuilds alone. *)
LEMMA ProgressStep ==
  ASSUME TypeInv, RebuildProgress, [Step]_vars
  PROVE  RebuildProgress'
<1>1. Grows
  BY GrowsStep
<1>2. ASSUME UNCHANGED <<ready, rb>>
      PROVE  RebuildProgress'
  BY <1>1, <1>2, ProgressKept DEF RebuildProgress
<1>3. ASSUME NEW k \in Creator, CreateStep(k) \/ CreatePipeFail(k)
      PROVE  UNCHANGED <<ready, rb>>
  BY <1>3 DEF CreateStep, CreateRedis, CreateFind, CreateBackfill, CreateReturnExisting,
     CreateInsert, CreateFill, CreatePipe, CreateReturn, CreatePipeFail
<1>4. ASSUME NEW p \in Pod, NEW c \in Code, Flight(p, c)
      PROVE  UNCHANGED <<ready, rb>>
  BY <1>4 DEF Flight, FlightRecheck, FlightRedis, FlightBloom, FlightSlave, FlightMaster,
     FlightSet, FlightFill
<1>5. ASSUME NEW p \in Pod, RebuildScan(p) \/ RebuildWrite(p) \/ PodRestart(p)
      PROVE  RebuildProgress'
  BY <1>1, <1>5, ScanProgress, WriteProgress, RestartProgress
<1>6. CASE Step
  BY <1>2, <1>3, <1>4, <1>5, <1>6
  DEF Step, CreateStart, RedirectStart, RedirectDo, L1Expire, HashL1Expire, SyncStart,
      SyncPipe, SyncPipeFail, SyncFill, podVars
<1>7. CASE UNCHANGED vars
  BY <1>2, <1>7 DEF vars, podVars
<1>8. QED BY <1>6, <1>7

(* A failover takes the lost bits from the bitmap and from what the         *)
(* rebuilds are held to.                                                    *)
LEMMA FailoverFields ==
  ASSUME TypeInv, NEW lost, Failover(lost), NEW p \in Pod
  PROVE  /\ rb'[p].pre = rb[p].pre \ lost
         /\ rb'[p].pc = rb[p].pc /\ rb'[p].cursor = rb[p].cursor
         /\ rb'[p].batch = rb[p].batch
         /\ ready'[p] = ready[p]
<1>1. rb[p] \in RebuildState
  BY DEF TypeInv, RebuildInv
<1>2. rb'[p] = [rb[p] EXCEPT !.pre = @ \ lost] /\ UNCHANGED ready
  BY DEF Failover
<1>3. QED BY <1>1, <1>2 DEF RebuildState

(* A failover keeps the progress of every rebuild. *)
LEMMA FailoverProgress ==
  ASSUME TypeInv, RebuildProgress, NEW lost, Failover(lost)
  PROVE  RebuildProgress'
<1>1. UNCHANGED rows /\ bloom' = bloom \ lost
  BY DEF Failover, BloomFailover
<1>2. ASSUME NEW p \in Pod
      PROVE  Progress(p)'
  <2>1. Progress(p)
    BY DEF RebuildProgress
  <2>2. QED BY <1>1, <2>1, FailoverFields DEF Progress, Committed
<1>3. QED BY <1>2 DEF RebuildProgress

----------------------------------------------------------------------------
(* EarlyInv *)

(* A part is kept by a step that writes no new "" into its variable.        *)
LEMMA L1EarlyKept ==
  ASSUME L1Early, Grows,
         \A p \in Pod, c \in Code : l1'[p][c] = Neg => l1[p][c] = Neg
  PROVE  L1Early'
  BY DEF L1Early, Grows

(* LinkEarly survives every step that adds no negative entry to Redis. *)
LEMMA LinkEarlyKept ==
  ASSUME LinkEarly, Grows,
         \A n \in RedisNode, c \in Code : link'[n][c] = Neg => link[n][c] = Neg
  PROVE  LinkEarly'
  BY DEF LinkEarly, Grows, RedisNode

(* FlightNoted survives every step that leaves the calls alone. *)
LEMMA FlightNotedKept ==
  ASSUME FlightNoted, Grows, UNCHANGED flight
  PROVE  FlightNoted'
  BY SafeKept DEF FlightNoted, Grows

(* ReaderNoted survives every step that leaves the readers alone. *)
LEMMA ReaderNotedKept ==
  ASSUME ReaderNoted, Grows, UNCHANGED reader
  PROVE  ReaderNoted'
<1>1. \A r \in Reader : Safe(reader[r].code) => Safe(reader[r].code)'
  <2>1. ASSUME NEW r \in Reader, Safe(reader[r].code)
        PROVE  Safe(reader[r].code)'
    BY <2>1 DEF Grows, RowsGrow, Safe
  <2>2. QED BY <2>1
<1>2. QED BY <1>1 DEF ReaderNoted, Grows, Safe

(* Neither a pipeline nor a fill after a commit writes "".                  *)
LEMMA ExecutePositive ==
  ASSUME TypeInv, NEW cmd, NEW c \in Code, NEW u \in URL, Execute(cmd, c, u)
  PROVE  \A n \in RedisNode, d \in Code : link'[n][d] = Neg => link[n][d] = Neg
  BY UrlAssumption DEF Execute, SetLink, SetHash, AddBloom, TypeInv, StoreTypeOK, RedisNode

(* Writing a URL to an L1 entry adds no negative entry. *)
LEMMA FillPositive ==
  ASSUME TypeInv, NEW p \in Pod, NEW c \in Code, NEW u \in URL, l1' = [l1 EXCEPT ![p][c] = u]
  PROVE  \A q \in Pod, d \in Code : l1'[q][d] = Neg => l1[q][d] = Neg
  BY UrlAssumption DEF TypeInv, LocalInv

(* A step that puts no new "" into a cache. *)
NoNewNeg ==
  /\ \A p \in Pod, c \in Code : l1'[p][c] = Neg => l1[p][c] = Neg
  /\ \A n \in RedisNode, c \in Code : link'[n][c] = Neg => link[n][c] = Neg

(* No step of Create adds a negative entry. *)
LEMMA CreateNeg ==
  ASSUME TypeInv, NEW k \in Creator, CreateStep(k) \/ CreatePipeFail(k)
  PROVE  NoNewNeg
<1>1. \A p \in Pod, c \in Code : l1'[p][c] = Neg => l1[p][c] = Neg
  <2>1. CASE CreateFill(k)
    <3>1. creator[k].pod \in Pod /\ creator[k].url \in URL /\ creator[k].code \in Code
      BY <2>1, CreatorFields DEF TypeInv, CreateFill
    <3>2. QED BY <2>1, <3>1, FillPositive DEF CreateFill
  <2>2. CASE UNCHANGED l1
    BY <2>2
  <2>3. QED
    BY <2>1, <2>2
    DEF CreateStep, CreateRedis, CreateFind, CreateBackfill, CreateReturnExisting,
        CreateInsert, CreatePipe, CreateReturn, CreatePipeFail
<1>2. \A n \in RedisNode, c \in Code : link'[n][c] = Neg => link[n][c] = Neg
  <2>1. CASE CreatePipe(k)
    <3>1. creator[k].url \in URL /\ creator[k].code \in Code
      BY <2>1, CreatorFields DEF TypeInv, CreatePipe
    <3>2. QED BY <2>1, <3>1, ExecutePositive DEF CreatePipe
  <2>2. CASE UNCHANGED link
    BY <2>2
  <2>3. QED
    BY <2>1, <2>2
    DEF CreateStep, CreateRedis, CreateFind, CreateBackfill, CreateReturnExisting,
        CreateInsert, CreateFill, CreateReturn, CreatePipeFail
<1>3. QED BY <1>1, <1>2 DEF NoNewNeg

(* What it writes keeps EarlyInv. *)
LEMMA CreateEarly ==
  ASSUME NotFoundInv, NEW k \in Creator, CreateStep(k) \/ CreatePipeFail(k), Grows
  PROVE  EarlyInv'
<1>1. UNCHANGED <<flight, reader>>
  BY DEF CreateStep, CreateRedis, CreateFind, CreateBackfill, CreateReturnExisting,
     CreateInsert, CreateFill, CreatePipe, CreateReturn, CreatePipeFail
<1>2. NoNewNeg
  BY CreateNeg DEF NotFoundInv
<1>3. QED
  BY <1>1, <1>2, L1EarlyKept, LinkEarlyKept, FlightNotedKept, ReaderNotedKept
  DEF NotFoundInv, EarlyInv, NoNewNeg

(* An arriving lookup is early or its code is Safe; an L1 hit answers with  *)
(* what L1 holds.                                                           *)
LEMMA RedirectStartEarly ==
  ASSUME NotFoundInv, NEW r \in Reader, NEW p \in Pod, NEW c \in Code,
         RedirectStart(r, p, c), Grows
  PROVE  EarlyInv'
<1>1. L1Early' /\ LinkEarly' /\ FlightNoted'
  BY L1EarlyKept, LinkEarlyKept, FlightNotedKept DEF NotFoundInv, EarlyInv, RedirectStart
<1>2. c \in early' \/ Safe(c)
  BY DEF RedirectStart, NoteLookup
<1>3. c \in early' \/ Safe(c)'
  BY <1>2, SafeKept
<1>4. ASSUME NEW q \in Reader
      PROVE  /\ reader'[q].res = Neg => reader'[q].code \in early'
             /\ reader'[q].pc # "idle" => reader'[q].code \in early' \/ Safe(reader[q].code)'
  <2>1. CASE q # r
    <3>1. reader'[q] = reader[q]
      BY <2>1 DEF RedirectStart, NotFoundInv, TypeInv, ReaderInv
    <3>2. Safe(reader[q].code) => Safe(reader[q].code)'
      BY <3>1 DEF Grows, RowsGrow, Safe
    <3>3. QED BY <3>1, <3>2 DEF NotFoundInv, EarlyInv, ReaderNoted, Grows
  <2>2. CASE q = r
    <3>1. reader'[q].code = c
      BY <2>2 DEF RedirectStart, Answered, NotFoundInv, TypeInv, ReaderInv
    <3>2. reader'[q].res = Neg => c \in early
      BY <2>2 DEF RedirectStart, Answered, NotFoundInv, EarlyInv, L1Early, TypeInv, ReaderInv
    <3>3. c \in early' \/ Safe(reader[q].code)'
      BY <1>3, <3>1 DEF Safe
    <3>4. QED BY <3>1, <3>2, <3>3 DEF Grows
  <2>3. QED BY <2>1, <2>2
<1>5. ReaderNoted'
  BY <1>4 DEF ReaderNoted, Safe
<1>6. QED BY <1>1, <1>5 DEF EarlyInv

(* A call starts on behalf of a noted lookup. *)
LEMMA RedirectDoEarly ==
  ASSUME NotFoundInv, NEW r \in Reader, RedirectDo(r), Grows
  PROVE  EarlyInv'
<1> DEFINE p == reader[r].pod
           c == reader[r].code
<1>1. L1Early' /\ LinkEarly'
  BY L1EarlyKept, LinkEarlyKept DEF NotFoundInv, EarlyInv, RedirectDo
<1>2. p \in Pod /\ c \in Code /\ (c \in early \/ Safe(c)) /\ UNCHANGED early
  BY DEF RedirectDo, NotFoundInv, EarlyInv, ReaderNoted, TypeInv, ReaderInv, ReaderOK
<1>3. ASSUME NEW q \in Pod, NEW d \in Code
      PROVE  /\ flight'[q][d].val = flight[q][d].val
             /\ flight'[q][d].pc # "none" => flight[q][d].pc # "none" \/ (q = p /\ d = c)
  <2>1. flight[q][d] \in FlightState
    BY DEF NotFoundInv, TypeInv, FlightInv
  <2>2. QED BY <2>1 DEF RedirectDo, NotFoundInv, TypeInv, FlightInv, FlightState
<1>4. FlightNoted'
  BY <1>2, <1>3, SafeKept DEF NotFoundInv, EarlyInv, FlightNoted
<1>5. ASSUME NEW q \in Reader
      PROVE  /\ reader'[q].res = reader[q].res /\ reader'[q].code = reader[q].code
             /\ reader'[q].pc # "idle" => reader[q].pc # "idle"
  <2>1. reader[q] \in ReaderState
    BY DEF NotFoundInv, TypeInv, ReaderInv
  <2>2. QED BY <2>1 DEF RedirectDo, NotFoundInv, TypeInv, ReaderInv, ReaderState
<1>6. ASSUME NEW q \in Reader, Safe(reader[q].code)
      PROVE  Safe(reader[q].code)'
  BY <1>5, <1>6 DEF Grows, RowsGrow, Safe
<1>7. ReaderNoted'
  BY <1>2, <1>5, <1>6 DEF NotFoundInv, EarlyInv, ReaderNoted
<1>8. QED BY <1>1, <1>4, <1>7 DEF EarlyInv

(* A call for a noted code takes a value that is "" only if it is early.    *)
LEMMA GotoEarly ==
  ASSUME TypeInv, FlightNoted, Grows, NEW p \in Pod, NEW c \in Code, NEW pc, NEW v,
         flight[p][c].pc # "none", v = Neg => c \in early, FlightGoto(p, c, pc, v)
  PROVE  FlightNoted'
<1>1. ASSUME NEW q \in Pod, NEW d \in Code
      PROVE  /\ flight'[q][d].val = Neg => d \in early
             /\ flight'[q][d].pc # "none" => d \in early \/ Safe(d)
  BY DEF FlightGoto, FlightNoted, TypeInv, FlightInv
<1>2. QED BY <1>1, SafeKept DEF FlightNoted, Grows

(* The waiters get a value that is "" only if their code is early.          *)
LEMMA ReturnEarly ==
  ASSUME TypeInv, FlightNoted, ReaderNoted, Grows, NEW p \in Pod, NEW c \in Code, NEW v,
         v = Neg => c \in early, FlightReturn(p, c, v)
  PROVE  FlightNoted' /\ ReaderNoted'
<1>1. ASSUME NEW q \in Pod, NEW d \in Code
      PROVE  /\ flight'[q][d].val = Neg => d \in early
             /\ flight'[q][d].pc # "none" => d \in early \/ Safe(d)
  BY DEF FlightReturn, NoFlight, FlightNoted, TypeInv, FlightInv
<1>2. FlightNoted'
  BY <1>1, SafeKept DEF FlightNoted, Grows
<1>3. ASSUME NEW q \in Reader
      PROVE  /\ reader'[q].code = reader[q].code
             /\ reader'[q].res = Neg => reader[q].code \in early
             /\ reader'[q].pc # "idle" => reader[q].code \in early \/ Safe(reader[q].code)
  BY DEF FlightReturn, Answered, ReaderNoted
<1>4. ASSUME NEW q \in Reader, Safe(reader[q].code)
      PROVE  Safe(reader[q].code)'
  BY <1>3, <1>4 DEF Grows, RowsGrow, Safe
<1>5. ReaderNoted'
  BY <1>3, <1>4 DEF ReaderNoted, Grows
<1>6. QED BY <1>2, <1>5

(* Inside the call: Bloom and the master answer "no" to early lookups only, *)
(* and every other "" is copied.                                            *)
LEMMA FlightEarly ==
  ASSUME NotFoundInv, NEW p \in Pod, NEW c \in Code, Flight(p, c), Grows
  PROVE  EarlyInv'
<1>1. /\ TypeInv /\ L1Early /\ LinkEarly /\ FlightNoted /\ ReaderNoted
      /\ l1[p][c] = Neg => c \in early
      /\ flight[p][c].val = Neg => c \in early
      /\ \A n \in RedisNode : link[n][c] = Neg => c \in early
      /\ Miss # Neg /\ Err # Neg
  BY DEF NotFoundInv, EarlyInv, L1Early, LinkEarly, FlightNoted
<1>2. flight[p][c].pc # "none"
  BY DEF Flight, FlightRecheck, FlightRedis, FlightBloom, FlightSlave, FlightMaster,
     FlightSet, FlightFill
<1>3. c \in early \/ (~BloomRejects(p, c) /\ MasterMatch(c) # {})
  BY <1>2, SafeFound DEF NotFoundInv, EarlyInv, FlightNoted
<1>4. \A d \in Code : rows[d] # Neg
  BY UrlAssumption DEF NotFoundInv, TypeInv, StoreTypeOK
<1>5. CASE FlightRecheck(p, c)
  <2>1. FlightNoted' /\ ReaderNoted'
    BY <1>1, <1>2, <1>5, ReturnEarly, GotoEarly, ReaderNotedKept DEF FlightRecheck
  <2>2. L1Early' /\ LinkEarly'
    BY <1>1, <1>5, L1EarlyKept, LinkEarlyKept DEF FlightRecheck
  <2>3. QED BY <2>1, <2>2 DEF EarlyInv
<1>6. CASE FlightRedis(p, c)
  <2>1. FlightNoted'
    BY <1>1, <1>2, <1>6, GotoEarly DEF FlightRedis
  <2>2. L1Early' /\ LinkEarly' /\ ReaderNoted'
    BY <1>1, <1>6, L1EarlyKept, LinkEarlyKept, ReaderNotedKept DEF FlightRedis
  <2>3. QED BY <2>1, <2>2 DEF EarlyInv
<1>7. CASE FlightBloom(p, c)
  <2>1. FlightNoted'
    BY <1>1, <1>2, <1>3, <1>7, GotoEarly DEF FlightBloom
  <2>2. L1Early' /\ LinkEarly' /\ ReaderNoted'
    BY <1>1, <1>7, L1EarlyKept, LinkEarlyKept, ReaderNotedKept DEF FlightBloom
  <2>3. QED BY <2>1, <2>2 DEF EarlyInv
<1>8. CASE FlightSlave(p, c)
  <2>1. \A view \in ReadViews : \A d \in Match(c, view) : rows[d] # Neg
    <3>1. \A view \in ReadViews : view \subseteq Code
      BY DEF ReadViews, Committed, NotFoundInv, TypeInv, StoreTypeOK
    <3>2. QED BY <1>4, <3>1 DEF Match
  <2>2. FlightNoted' /\ ReaderNoted'
    BY <1>1, <1>2, <1>8, <2>1, ReturnEarly, GotoEarly, ReaderNotedKept DEF FlightSlave
  <2>3. L1Early' /\ LinkEarly'
    BY <1>1, <1>8, L1EarlyKept, LinkEarlyKept DEF FlightSlave
  <2>4. QED BY <2>2, <2>3 DEF EarlyInv
<1>9. CASE FlightMaster(p, c)
  <2>1. \A d \in MasterMatch(c) : rows[d] # Neg
    BY <1>4 DEF MasterMatch, Match, Committed
  <2>2. FlightNoted' /\ ReaderNoted'
    BY <1>1, <1>2, <1>3, <1>9, <2>1, ReturnEarly, GotoEarly, ReaderNotedKept DEF FlightMaster
  <2>3. L1Early' /\ LinkEarly'
    BY <1>1, <1>9, L1EarlyKept, LinkEarlyKept DEF FlightMaster
  <2>4. QED BY <2>2, <2>3 DEF EarlyInv
<1>10. CASE FlightSet(p, c)
  <2>1. FlightNoted'
    BY <1>1, <1>2, <1>10, GotoEarly DEF FlightSet
  <2>2. ASSUME NEW n \in RedisNode, NEW d \in Code, link'[n][d] = Neg
        PROVE  d \in early
    <3>1. link[n][d] = Neg \/ (d = c /\ flight[p][c].val = Neg)
      BY <1>10, <2>2 DEF FlightSet, SetLink, NotFoundInv, TypeInv, StoreTypeOK
    <3>2. QED BY <1>1, <3>1 DEF LinkEarly
  <2>3. LinkEarly'
    BY <2>2 DEF LinkEarly, Grows, RedisNode
  <2>4. L1Early' /\ ReaderNoted'
    BY <1>1, <1>10, L1EarlyKept, ReaderNotedKept DEF FlightSet
  <2>5. QED BY <2>1, <2>3, <2>4 DEF EarlyInv
<1>11. CASE FlightFill(p, c)
  <2>1. FlightNoted' /\ ReaderNoted'
    BY <1>1, <1>11, ReturnEarly DEF FlightFill
  <2>2. ASSUME NEW q \in Pod, NEW d \in Code, l1'[q][d] = Neg
        PROVE  d \in early
    <3>1. l1[q][d] = Neg \/ (q = p /\ d = c /\ flight[p][c].val = Neg)
      BY <1>11, <2>2 DEF FlightFill, NotFoundInv, TypeInv, LocalInv
    <3>2. QED BY <1>1, <3>1 DEF L1Early
  <2>3. L1Early'
    BY <2>2 DEF L1Early, Grows
  <2>4. LinkEarly'
    BY <1>1, <1>11, LinkEarlyKept DEF FlightFill
  <2>5. QED BY <2>1, <2>3, <2>4 DEF EarlyInv
<1>12. QED BY <1>5, <1>6, <1>7, <1>8, <1>9, <1>10, <1>11 DEF Flight

(* The consumer writes no "".                                               *)
LEMMA SyncNeg ==
  ASSUME TypeInv, NEW p \in Pod,
         (\E m \in Code \X URL : SyncStart(p, m)) \/ SyncPipe(p) \/ SyncPipeFail(p) \/ SyncFill(p)
  PROVE  NoNewNeg
<1>1. sync[p].pc = "pipe" => sync[p].code \in Code /\ sync[p].url \in URL
  BY DEF TypeInv, SyncInv, SyncOK
<1>2. \A q \in Pod, c \in Code : l1'[q][c] = Neg => l1[q][c] = Neg
  <2>1. CASE SyncFill(p)
    BY <1>1, <2>1, FillPositive DEF SyncFill
  <2>2. CASE UNCHANGED l1
    BY <2>2
  <2>3. QED BY <2>1, <2>2 DEF SyncStart, SyncPipe, SyncPipeFail
<1>3. \A n \in RedisNode, c \in Code : link'[n][c] = Neg => link[n][c] = Neg
  <2>1. CASE SyncPipe(p)
    BY <1>1, <2>1, ExecutePositive DEF SyncPipe
  <2>2. CASE UNCHANGED link
    BY <2>2
  <2>3. QED BY <2>1, <2>2 DEF SyncStart, SyncPipeFail, SyncFill
<1>4. QED BY <1>2, <1>3 DEF NoNewNeg

(* What it writes keeps EarlyInv. *)
LEMMA SyncEarly ==
  ASSUME NotFoundInv, NEW p \in Pod, Grows,
         (\E m \in Code \X URL : SyncStart(p, m)) \/ SyncPipe(p) \/ SyncPipeFail(p) \/ SyncFill(p)
  PROVE  EarlyInv'
<1>1. FlightNoted' /\ ReaderNoted'
  BY FlightNotedKept, ReaderNotedKept
  DEF NotFoundInv, EarlyInv, SyncStart, SyncPipe, SyncPipeFail, SyncFill
<1>2. NoNewNeg
  BY SyncNeg DEF NotFoundInv
<1>3. QED
  BY <1>1, <1>2, L1EarlyKept, LinkEarlyKept DEF NotFoundInv, EarlyInv, NoNewNeg

(* Expiry and restarts write no "".                                         *)
LEMMA ExpireEarly ==
  ASSUME NotFoundInv, NEW p \in Pod, Grows,
         (\E c \in Code : L1Expire(p, c)) \/ (\E u \in URL : HashL1Expire(p, u))
  PROVE  EarlyInv'
<1>1. LinkEarly' /\ FlightNoted' /\ ReaderNoted'
  BY LinkEarlyKept, FlightNotedKept, ReaderNotedKept
  DEF NotFoundInv, EarlyInv, L1Expire, HashL1Expire
<1>2. ASSUME NEW q \in Pod, NEW d \in Code, l1'[q][d] = Neg
      PROVE  l1[q][d] = Neg
  BY <1>2 DEF L1Expire, HashL1Expire, NotFoundInv, TypeInv, LocalInv
<1>3. QED BY <1>1, <1>2, L1EarlyKept DEF NotFoundInv, EarlyInv

(* A pod restart adds no negative entry. *)
LEMMA PodRestartEarly ==
  ASSUME NotFoundInv, NEW p \in Pod, PodRestart(p), Grows
  PROVE  EarlyInv'
<1>1. LinkEarly'
  BY LinkEarlyKept DEF NotFoundInv, EarlyInv, PodRestart
<1>2. ASSUME NEW q \in Pod, NEW d \in Code, l1'[q][d] = Neg
      PROVE  l1[q][d] = Neg
  BY <1>2 DEF PodRestart, NotFoundInv, TypeInv, LocalInv
<1>3. L1Early'
  BY <1>2, L1EarlyKept DEF NotFoundInv, EarlyInv
<1>4. ASSUME NEW q \in Pod, NEW d \in Code
      PROVE  flight'[q][d] = flight[q][d] \/ flight'[q][d] = NoFlight
  BY DEF PodRestart, NotFoundInv, TypeInv, FlightInv
<1>5. FlightNoted'
  BY <1>4, SafeKept DEF NotFoundInv, EarlyInv, FlightNoted, NoFlight, Grows
<1>6. ASSUME NEW r \in Reader
      PROVE  reader'[r] = reader[r] \/ reader'[r] = Answered(reader[r].code, Err)
  BY DEF PodRestart
<1>7. ASSUME NEW r \in Reader, reader'[r] = reader[r], Safe(reader[r].code)
      PROVE  Safe(reader[r].code)'
  BY <1>7 DEF Grows, RowsGrow, Safe
<1>8. ASSUME NEW r \in Reader
      PROVE  /\ reader'[r].res = Neg => reader'[r].code \in early'
             /\ reader'[r].pc # "idle" => reader'[r].code \in early' \/ Safe(reader[r].code)'
  <2>1. CASE reader'[r] = reader[r]
    BY <1>7, <2>1 DEF NotFoundInv, EarlyInv, ReaderNoted, Grows
  <2>2. CASE reader'[r] = Answered(reader[r].code, Err)
    BY <2>2 DEF Answered
  <2>3. QED BY <1>6, <2>1, <2>2
<1>9. ReaderNoted'
  BY <1>8 DEF ReaderNoted
<1>10. QED BY <1>1, <1>3, <1>5, <1>9 DEF EarlyInv

(* Replication and failovers copy "" and TTLs remove it.                    *)
LEMMA StoreNextNeg ==
  ASSUME TypeInv, StoreNext, NEW n \in RedisNode, NEW c \in Code, link'[n][c] = Neg
  PROVE  \E m \in RedisNode : link[m][c] = Neg
<1>1. ASSUME NEW m \in RedisNode, NEW d \in Code, LinkExpire(m, d)
      PROVE  link[n][c] = Neg
  BY <1>1 DEF LinkExpire, TypeInv, StoreTypeOK
<1>2. ASSUME NEW m \in Replica, NEW d \in Code, LinkReplicate(m, d)
      PROVE  link[n][c] = Neg \/ link[Primary][c] = Neg
  BY <1>2 DEF LinkReplicate, TypeInv, StoreTypeOK, RedisNode
<1>3. ASSUME NEW m \in Replica, NEW d \in Code, LinkFailover(m, d)
      PROVE  link[n][c] = Neg \/ (m \in RedisNode /\ link[m][c] = Neg)
  BY <1>3 DEF LinkFailover, TypeInv, StoreTypeOK, RedisNode
<1>4. UNCHANGED link => link[n][c] = Neg
  OBVIOUS
<1>5. Primary \in RedisNode
  BY DEF RedisNode
<1>6. QED BY <1>1, <1>2, <1>3, <1>4, <1>5
             DEF StoreNext, HashExpire, HashReplicate, RowReplicate, HashFailover

(* Neither makes a "" that was not noted. *)
LEMMA StoreNextEarly ==
  ASSUME NotFoundInv, StoreNext, UNCHANGED podVars, Grows
  PROVE  EarlyInv'
<1>1. L1Early' /\ FlightNoted' /\ ReaderNoted'
  BY L1EarlyKept, FlightNotedKept, ReaderNotedKept DEF NotFoundInv, EarlyInv, podVars
<1>2. ASSUME NEW n \in RedisNode, NEW c \in Code, link'[n][c] = Neg
      PROVE  \E m \in RedisNode : link[m][c] = Neg
  BY <1>2, StoreNextNeg DEF NotFoundInv
<1>3. LinkEarly'
  BY <1>2 DEF NotFoundInv, EarlyInv, LinkEarly, Grows, RedisNode
<1>4. QED BY <1>1, <1>3 DEF EarlyInv

(* A code is no longer Safe after a failover only if it is lost, and then   *)
(* it is early.                                                             *)
LEMMA FailoverEarly ==
  ASSUME NotFoundInv, NEW lost, Failover(lost)
  PROVE  EarlyInv'
<1>1. /\ UNCHANGED <<rows, l1, link, flight, reader>>
      /\ bloom' = bloom \ lost /\ early' = early \cup lost
  BY DEF Failover, BloomFailover
<1>2. \A p \in Pod : rb'[p].pre = rb[p].pre \ lost
  BY FailoverFields DEF NotFoundInv
<1>3. ASSUME NEW c, c \in early \/ Safe(c)
      PROVE  c \in early' \/ Safe(c)'
  BY <1>1, <1>2, <1>3 DEF Safe, Committed
<1>4. L1Early' /\ LinkEarly'
  BY <1>1 DEF NotFoundInv, EarlyInv, L1Early, LinkEarly
<1>5. FlightNoted'
  BY <1>1, <1>3 DEF NotFoundInv, EarlyInv, FlightNoted
<1>6. ReaderNoted'
  <2>1. ASSUME NEW r \in Reader, reader[r].pc # "idle"
        PROVE  reader[r].code \in early' \/ Safe(reader[r].code)'
    BY <1>1, <1>3, <2>1 DEF NotFoundInv, EarlyInv, ReaderNoted, Safe, Committed
  <2>2. QED BY <1>1, <2>1 DEF NotFoundInv, EarlyInv, ReaderNoted
<1>7. QED BY <1>4, <1>5, <1>6 DEF EarlyInv

----------------------------------------------------------------------------
(* The theorems *)

(* At the start nothing is negative, and each pod scans for the whole table. *)
LEMMA InitNotFound == Init => NotFoundInv
<1> SUFFICES ASSUME Init PROVE NotFoundInv
  OBVIOUS
<1>1. TypeInv
  BY InitType
<1>2. \A c \in Committed : ~(c <= 0)
  BY CodeAssumption DEF Committed
<1>3. RebuildProgress
  BY <1>2 DEF Init, RebuildProgress, Progress, Rebuilding
<1>4. EarlyInv
  BY DEF Init, StoreInit, EarlyInv, L1Early, LinkEarly, FlightNoted, ReaderNoted, NoFlight, Answered
<1>5. QED BY <1>1, <1>3, <1>4 DEF NotFoundInv

(* Every step but a failover of the bitmap keeps what is said of early.     *)
LEMMA StepEarly == NotFoundInv /\ [Step]_vars => EarlyInv'
<1> SUFFICES ASSUME NotFoundInv, [Step]_vars PROVE EarlyInv'
  OBVIOUS
<1>1. Grows
  BY GrowsStep DEF NotFoundInv
<1>2. ASSUME UNCHANGED <<l1, link, flight, reader>>
      PROVE  EarlyInv'
  BY <1>1, <1>2, L1EarlyKept, LinkEarlyKept, FlightNotedKept, ReaderNotedKept
  DEF NotFoundInv, EarlyInv
<1>3. ASSUME NEW k \in Creator, NEW p \in Pod, NEW u \in URL, CreateStart(k, p, u)
      PROVE  EarlyInv'
  BY <1>2, <1>3 DEF CreateStart
<1>4. ASSUME NEW p \in Pod, RebuildScan(p) \/ RebuildWrite(p)
      PROVE  EarlyInv'
  BY <1>2, <1>4 DEF RebuildScan, RebuildWrite
<1>5. ASSUME Step
      PROVE  EarlyInv'
  BY <1>1, <1>3, <1>4, <1>5, CreateEarly, RedirectStartEarly, RedirectDoEarly, FlightEarly,
     SyncEarly, ExpireEarly, PodRestartEarly, StoreNextEarly
  DEF Step
<1>6. ASSUME UNCHANGED vars
      PROVE  EarlyInv'
  BY <1>2, <1>6 DEF vars, podVars
<1>7. QED BY <1>5, <1>6

(* Every step keeps the invariant. *)
LEMMA NextNotFound == NotFoundInv /\ [Next]_vars => NotFoundInv'
<1> SUFFICES ASSUME NotFoundInv, [Next]_vars PROVE NotFoundInv'
  OBVIOUS
<1>1. TypeInv'
  BY NextType DEF NotFoundInv
<1>2. CASE [Step]_vars
  BY <1>1, <1>2, ProgressStep, StepEarly DEF NotFoundInv
<1>3. ASSUME NEW lost, Failover(lost)
      PROVE  NotFoundInv'
  BY <1>1, <1>3, FailoverProgress, FailoverEarly DEF NotFoundInv
<1>4. QED BY <1>2, <1>3 DEF Next

(* The invariant holds of every behaviour.                                  *)
THEOREM NotFoundInvariant == Spec => []NotFoundInv
<1>1. QED BY InitNotFound, NextNotFound, PTL DEF Spec

(* A pod that consults its filter has every code in it that was committed   *)
(* when its rebuild began, unless a failover has lost it since, whatever    *)
(* the page size and whatever is inserted between two pages.                *)
THEOREM RebuildAlwaysCovers == Spec => []RebuildCovers
<1>1. NotFoundInv => RebuildCovers
  BY NotFoundImplies
<1>2. QED BY NotFoundInvariant, <1>1, PTL

(* A 404, and any cached negative entry, comes from a lookup that began     *)
(* before its code was committed and covered, or from lost bits of it.      *)
THEOREM NoLateNotFound == Spec => []NotFoundOnlyIfEarly
<1>1. NotFoundInv => NotFoundOnlyIfEarly
  BY NotFoundImplies
<1>2. QED BY NotFoundInvariant, <1>1, PTL

----------------------------------------------------------------------------
(* RepairPending.  A handler that has run its Bloom command has covered the *)
(* code of its message.                                                     *)

Covered == bloom \cup {c \in early : LostBits(c)}

HandlersCover ==
  \A p \in Pod :
    sync[p].pc = "pipe" /\ "bloom" \notin sync[p].todo => sync[p].code \in Covered

RepairInv == HandlersCover /\ RepairPending

(* Bits stay set, and lost ones stay noted, but for failovers.              *)
LEMMA CoveredGrows == Grows => Covered \subseteq Covered'
  BY DEF Grows, Covered, LostBits

(* HandlersCover survives a step that leaves the handlers alone.            *)
LEMMA HandlersCoverKept == HandlersCover /\ Grows /\ UNCHANGED sync => HandlersCover'
<1> SUFFICES ASSUME HandlersCover, Grows, UNCHANGED sync PROVE HandlersCover'
  OBVIOUS
<1>1. ASSUME NEW p \in Pod, sync'[p].pc = "pipe", "bloom" \notin sync'[p].todo
      PROVE  sync[p].code \in Covered'
  BY <1>1, CoveredGrows DEF HandlersCover
<1>2. QED BY <1>1 DEF HandlersCover

(* RepairPending survives a step that leaves rows and messages in place.    *)
LEMMA PendingKept ==
  ASSUME RepairPending, Grows, UNCHANGED rows, outbox \subseteq outbox'
  PROVE  RepairPending'
<1>1. ASSUME NEW c \in Committed
      PROVE  Safe(c)' \/ <<c, rows[c]>> \in outbox' \/ LostBits(c)'
  <2>1. Safe(c) => Safe(c)'
    BY SafeKept
  <2>2. LostBits(c) => LostBits(c)'
    BY DEF Grows, LostBits
  <2>3. QED BY <1>1, <2>1, <2>2 DEF RepairPending
<1>2. QED BY <1>1 DEF RepairPending, Committed

(* The transaction writes the row and its message. *)
LEMMA CreateInsertRepair ==
  ASSUME TypeInv, RepairInv, Grows, NEW k \in Creator, CreateInsert(k)
  PROVE  RepairInv'
<1>1. HandlersCover'
  BY HandlersCoverKept DEF RepairInv, CreateInsert
<1>2. CASE UNCHANGED dbVars
  BY <1>1, <1>2, PendingKept DEF RepairInv
<1>3. ASSUME NEW d \in Code, CommitTx(d, creator[k].url)
      PROVE  RepairPending'
  <2>1. rows'[d] = creator[k].url /\ <<d, rows'[d]>> \in outbox' /\ outbox \subseteq outbox'
    BY <1>3 DEF CommitTx, TypeInv, StoreTypeOK
  <2>2. \A c \in Code \ {d} : rows'[c] = rows[c]
    BY <1>3 DEF CommitTx, TypeInv, StoreTypeOK
  <2>3. ASSUME NEW c \in Code \ {d}, c \in Committed'
        PROVE  Safe(c)' \/ <<c, rows'[c]>> \in outbox' \/ LostBits(c)'
    <3>1. c \in Committed
      BY <2>2, <2>3 DEF Committed
    <3>2. Safe(c) => Safe(c)'
      BY SafeKept
    <3>3. LostBits(c) => LostBits(c)'
      BY DEF Grows, LostBits
    <3>4. QED BY <2>1, <2>2, <3>1, <3>2, <3>3 DEF RepairInv, RepairPending
  <2>4. QED BY <2>1, <2>3 DEF RepairPending, Committed
<1>4. QED BY <1>1, <1>2, <1>3 DEF CreateInsert, RepairInv

(* A delivery starts the whole pipeline. *)
LEMMA SyncStartRepair ==
  ASSUME TypeInv, RepairInv, Grows, NEW p \in Pod, NEW m \in Code \X URL, SyncStart(p, m)
  PROVE  RepairInv'
<1>1. RepairPending'
  BY PendingKept DEF RepairInv, SyncStart
<1>2. sync'[p].todo = Commands /\ \A q \in Pod \ {p} : sync'[q] = sync[q]
  BY DEF SyncStart, TypeInv, SyncInv
<1>3. ASSUME NEW q \in Pod, sync'[q].pc = "pipe", "bloom" \notin sync'[q].todo
      PROVE  sync'[q].code \in Covered'
  <2>1. sync'[q] = sync[q]
    BY <1>2, <1>3 DEF Commands
  <2>2. QED BY <1>3, <2>1, CoveredGrows DEF RepairInv, HandlersCover
<1>4. QED BY <1>1, <1>3 DEF RepairInv, HandlersCover

(* The Bloom command covers the code. *)
LEMMA SyncPipeRepair ==
  ASSUME TypeInv, RepairInv, Grows, NEW p \in Pod, SyncPipe(p)
  PROVE  RepairInv'
<1>1. RepairPending'
  BY PendingKept DEF RepairInv, SyncPipe
<1>2. PICK cmd \in sync[p].todo :
        /\ Execute(cmd, sync[p].code, sync[p].url)
        /\ sync' = [sync EXCEPT ![p].todo = @ \ {cmd}]
  BY DEF SyncPipe
<1>3. /\ sync'[p].todo = sync[p].todo \ {cmd} /\ sync'[p].code = sync[p].code
      /\ sync[p].pc = "pipe"
      /\ \A q \in Pod \ {p} : sync'[q] = sync[q]
  BY <1>2 DEF SyncPipe, TypeInv, SyncInv, SyncState
<1>4. ASSUME NEW q \in Pod, sync'[q].pc = "pipe", "bloom" \notin sync'[q].todo
      PROVE  sync'[q].code \in Covered'
  <2>1. CASE q = p /\ cmd = "bloom"
    BY <1>2, <1>3, <2>1 DEF Execute, AddBloom, Covered
  <2>2. CASE q = p /\ cmd # "bloom"
    <3>1. sync[p].code \in Covered
      BY <1>3, <1>4, <2>2 DEF RepairInv, HandlersCover
    <3>2. QED BY <1>3, <2>2, <3>1, CoveredGrows
  <2>3. CASE q # p
    BY <1>3, <1>4, <2>3, CoveredGrows DEF RepairInv, HandlersCover
  <2>4. QED BY <2>1, <2>2, <2>3
<1>5. QED BY <1>1, <1>4 DEF RepairInv, HandlersCover

(* A handler that gives up, retries or dies leaves the message.             *)
LEMMA SyncLeaveRepair ==
  ASSUME TypeInv, RepairInv, Grows, NEW p \in Pod, SyncPipeFail(p) \/ PodRestart(p)
  PROVE  RepairInv'
<1>1. RepairPending'
  BY PendingKept DEF RepairInv, SyncPipeFail, PodRestart
<1>2. \A q \in Pod \ {p} : sync'[q] = sync[q]
  BY DEF SyncPipeFail, PodRestart, TypeInv, SyncInv
<1>3. sync'[p].todo = Commands \/ sync'[p].pc = "idle"
  BY DEF SyncPipeFail, PodRestart, IdleSync, TypeInv, SyncInv, SyncState
<1>4. ASSUME NEW q \in Pod, sync'[q].pc = "pipe", "bloom" \notin sync'[q].todo
      PROVE  sync'[q].code \in Covered'
  <2>1. sync'[q] = sync[q]
    BY <1>2, <1>3, <1>4 DEF Commands
  <2>2. QED BY <1>4, <2>1, CoveredGrows DEF RepairInv, HandlersCover
<1>5. QED BY <1>1, <1>4 DEF RepairInv, HandlersCover

(* The acknowledged message is the one whose pipeline is complete.          *)
LEMMA SyncFillRepair ==
  ASSUME TypeInv, RepairInv, Grows, NEW p \in Pod, SyncFill(p)
  PROVE  RepairInv'
<1>1. sync[p].code \in Covered
  BY DEF RepairInv, HandlersCover, SyncFill
<1>2. ASSUME NEW c \in Committed
      PROVE  Safe(c)' \/ <<c, rows[c]>> \in outbox' \/ LostBits(c)'
  <2>1. CASE c = sync[p].code
    <3>1. Safe(c) \/ LostBits(c)
      BY <1>1, <1>2, <2>1 DEF Covered, Safe
    <3>2. LostBits(c) => LostBits(c)'
      BY DEF Grows, LostBits
    <3>3. QED BY <3>1, <3>2, SafeKept
  <2>2. CASE c # sync[p].code
    <3>1. <<c, rows[c]>> \in outbox => <<c, rows[c]>> \in outbox'
      BY <2>2 DEF SyncFill
    <3>2. Safe(c) => Safe(c)'
      BY SafeKept
    <3>3. LostBits(c) => LostBits(c)'
      BY DEF Grows, LostBits
    <3>4. QED BY <1>2, <3>1, <3>2, <3>3 DEF RepairInv, RepairPending
  <2>3. QED BY <2>1, <2>2
<1>3. RepairPending'
  BY <1>2 DEF RepairPending, SyncFill, Committed
<1>4. ASSUME NEW q \in Pod, sync'[q].pc = "pipe", "bloom" \notin sync'[q].todo
      PROVE  sync'[q].code \in Covered'
  <2>1. sync'[q] = sync[q]
    BY <1>4 DEF SyncFill, IdleSync, TypeInv, SyncInv
  <2>2. QED BY <1>4, <2>1, CoveredGrows DEF RepairInv, HandlersCover
<1>5. QED BY <1>3, <1>4 DEF RepairInv, HandlersCover

(* What a failover takes, it notes. *)
LEMMA FailoverRepair ==
  ASSUME TypeInv, RepairInv, NEW lost, Failover(lost)
  PROVE  RepairInv'
<1>1. /\ UNCHANGED <<rows, outbox, sync>> /\ "failover" \in Faults
      /\ bloom' = bloom \ lost /\ early' = early \cup lost
  BY DEF Failover, BloomFailover
<1>2. \A p \in Pod : rb'[p].pre = rb[p].pre \ lost
  BY FailoverFields
<1>3. Covered \subseteq Covered'
  BY <1>1 DEF Covered, LostBits
<1>4. ASSUME NEW c, Safe(c)
      PROVE  Safe(c)' \/ LostBits(c)'
  BY <1>1, <1>2, <1>4 DEF Safe, LostBits, Committed
<1>5. HandlersCover'
  BY <1>1, <1>3 DEF RepairInv, HandlersCover
<1>6. RepairPending'
  BY <1>1, <1>4 DEF RepairInv, RepairPending, LostBits, Committed
<1>7. QED BY <1>5, <1>6 DEF RepairInv

(* Every other step leaves rows, messages and handlers alone. *)
LEMMA NextRepair == TypeInv /\ RepairInv /\ [Next]_vars => RepairInv'
<1> SUFFICES ASSUME TypeInv, RepairInv, [Next]_vars PROVE RepairInv'
  OBVIOUS
<1>1. ASSUME [Step]_vars, UNCHANGED <<rows, outbox, sync>>
      PROVE  RepairInv'
  BY <1>1, GrowsStep, HandlersCoverKept, PendingKept DEF RepairInv
<1>2. ASSUME NEW k \in Creator, CreateStep(k) \/ CreatePipeFail(k), ~CreateInsert(k)
      PROVE  UNCHANGED <<rows, outbox, sync>>
  BY <1>2 DEF CreateStep, CreateRedis, CreateFind, CreateBackfill, CreateReturnExisting,
     CreateFill, CreatePipe, CreateReturn, CreatePipeFail
<1>3. ASSUME NEW p \in Pod, NEW c \in Code, Flight(p, c)
      PROVE  UNCHANGED <<rows, outbox, sync>>
  BY <1>3 DEF Flight, FlightRecheck, FlightRedis, FlightBloom, FlightSlave, FlightMaster,
     FlightSet, FlightFill
<1>4. ASSUME StoreNext, UNCHANGED podVars
      PROVE  UNCHANGED <<rows, outbox, sync>>
  BY <1>4 DEF StoreNext, LinkExpire, HashExpire, LinkReplicate, HashReplicate, RowReplicate,
     LinkFailover, HashFailover, podVars
<1>5. ASSUME NEW p \in Pod, RebuildScan(p) \/ RebuildWrite(p)
      PROVE  UNCHANGED <<rows, outbox, sync>>
  BY <1>5 DEF RebuildScan, RebuildWrite
<1>6. ASSUME Step
      PROVE  RepairInv'
  <2>1. Grows
    BY <1>6, GrowsStep
  <2>2. ASSUME NEW k \in Creator, CreateInsert(k)
        PROVE  RepairInv'
    BY <2>1, <2>2, CreateInsertRepair
  <2>3. ASSUME NEW p \in Pod,
               SyncPipe(p) \/ SyncPipeFail(p) \/ SyncFill(p) \/ PodRestart(p)
        PROVE  RepairInv'
    BY <2>1, <2>3, SyncPipeRepair, SyncLeaveRepair, SyncFillRepair
  <2>4. ASSUME NEW p \in Pod, NEW m \in Code \X URL, SyncStart(p, m)
        PROVE  RepairInv'
    BY <2>1, <2>4, SyncStartRepair
  <2>5. QED BY <1>1, <1>2, <1>3, <1>4, <1>5, <1>6, <2>2, <2>3, <2>4
               DEF Step, CreateStart, RedirectStart, RedirectDo, L1Expire, HashL1Expire
<1>7. CASE UNCHANGED vars
  BY <1>1, <1>7 DEF vars, podVars
<1>8. QED BY <1>6, <1>7, FailoverRepair DEF Next

(* At the start every committed code is what the rebuilds scan for.         *)
LEMMA InitRepair == Init => RepairInv
  BY DEF Init, RepairInv, HandlersCover, RepairPending, Safe, Rebuilding, IdleSync

(* Whatever fails between the commit and the write-through, on whichever    *)
(* pod, and however often a message is redelivered, requeued or retried, a  *)
(* committed code that a Bloom filter may reject has a message in the       *)
(* outbox that will have its bits set, unless a failover has lost them.     *)
THEOREM RepairAlwaysPending == Spec => []RepairPending
<1>1. RepairInv => RepairPending
  BY DEF RepairInv
<1>2. QED BY TypeInvariant, InitRepair, NextRepair, <1>1, PTL DEF Spec

----------------------------------------------------------------------------
(* StaysResolvable.  Every "" a step leaves for a Safe code was there       *)
(* before: the filter and the master answer "yes", and the rest is copied.  *)

(* A step that writes no "" and leaves the calls alone hides nothing.       *)
LEMMA HiddenKept ==
  ASSUME NoNewNeg, UNCHANGED flight, NEW c \in Code, Hidden(c)'
  PROVE  Hidden(c)
  BY DEF NoNewNeg, Hidden, RedisNode

(* A call moves on with a value that is "" only if the code was hidden.     *)
LEMMA GotoHidden ==
  ASSUME TypeInv, NEW p \in Pod, NEW c \in Code, NEW pc, NEW v, FlightGoto(p, c, pc, v),
         NEW d \in Code, v = Neg /\ d = c => Hidden(d), NEW q \in Pod, flight'[q][d].val = Neg
  PROVE  Hidden(d)
<1>1. CASE q = p /\ d = c
  BY <1>1 DEF FlightGoto, TypeInv, FlightInv
<1>2. CASE ~(q = p /\ d = c)
  <2>1. flight'[q][d] = flight[q][d]
    BY <1>2 DEF FlightGoto, TypeInv, FlightInv
  <2>2. QED BY <2>1 DEF Hidden
<1>3. QED BY <1>1, <1>2

(* A call that returns holds nothing. *)
LEMMA ReturnHidden ==
  ASSUME TypeInv, NEW p \in Pod, NEW c \in Code, NEW v, FlightReturn(p, c, v),
         NEW d \in Code, NEW q \in Pod, flight'[q][d].val = Neg
  PROVE  Hidden(d)
<1>1. flight'[q][d] = NoFlight \/ flight'[q][d] = flight[q][d]
  BY DEF FlightReturn, TypeInv, FlightInv
<1>2. QED BY <1>1 DEF NoFlight, Hidden

(* What the steps of a call leave in the calls.                             *)
LEMMA FlightHidden ==
  ASSUME NotFoundInv, NEW p \in Pod, NEW c \in Code, Flight(p, c),
         NEW d \in Code, Safe(d), NEW q \in Pod, flight'[q][d].val = Neg
  PROVE  Hidden(d)
<1>1. /\ TypeInv /\ Miss # Neg
      /\ d = c => ~BloomRejects(p, c) /\ MasterMatch(c) # {}
  BY SafeFound DEF NotFoundInv
<1>2. /\ \A n \in RedisNode : link[n][c] = Neg => Hidden(c)
      /\ flight[p][c].val = Neg => Hidden(c)
  BY DEF Hidden
<1>3. \A e \in Code : rows[e] # Neg
  BY UrlAssumption DEF NotFoundInv, TypeInv, StoreTypeOK
<1>4. CASE FlightRecheck(p, c)
  BY <1>1, <1>4, GotoHidden, ReturnHidden DEF FlightRecheck
<1>5. CASE FlightRedis(p, c)
  BY <1>1, <1>2, <1>5, GotoHidden DEF FlightRedis
<1>6. CASE FlightBloom(p, c)
  BY <1>1, <1>6, GotoHidden DEF FlightBloom
<1>7. CASE FlightSlave(p, c)
  <2>1. \A view \in ReadViews : \A e \in Match(c, view) : rows[e] # Neg
    <3>1. \A view \in ReadViews : view \subseteq Code
      BY DEF ReadViews, Committed, NotFoundInv, TypeInv, StoreTypeOK
    <3>2. QED BY <1>3, <3>1 DEF Match
  <2>2. QED BY <1>1, <1>7, <2>1, GotoHidden, ReturnHidden DEF FlightSlave
<1>8. CASE FlightMaster(p, c)
  <2>1. \A e \in MasterMatch(c) : rows[e] # Neg
    BY <1>3 DEF MasterMatch, Match, Committed
  <2>2. QED BY <1>1, <1>8, <2>1, GotoHidden, ReturnHidden DEF FlightMaster
<1>9. CASE FlightSet(p, c)
  BY <1>1, <1>2, <1>9, GotoHidden DEF FlightSet
<1>10. CASE FlightFill(p, c)
  BY <1>1, <1>10, ReturnHidden DEF FlightFill
<1>11. QED BY <1>4, <1>5, <1>6, <1>7, <1>8, <1>9, <1>10 DEF Flight

(* And what they leave in the caches. *)
LEMMA FlightWrites ==
  ASSUME TypeInv, NEW p \in Pod, NEW c \in Code, Flight(p, c), NEW d \in Code
  PROVE  /\ \A q \in Pod : l1'[q][d] = Neg => Hidden(d)
         /\ \A n \in RedisNode : link'[n][d] = Neg => Hidden(d)
<1>1. CASE FlightSet(p, c)
  <2>1. \A n \in RedisNode :
          link'[n][d] = Neg => link[n][d] = Neg \/ (d = c /\ flight[p][c].val = Neg)
    BY <1>1 DEF FlightSet, SetLink, TypeInv, StoreTypeOK
  <2>2. UNCHANGED l1
    BY <1>1 DEF FlightSet
  <2>3. QED BY <2>1, <2>2 DEF Hidden
<1>2. CASE FlightFill(p, c)
  <2>1. \A q \in Pod :
          l1'[q][d] = Neg => l1[q][d] = Neg \/ (d = c /\ flight[p][c].val = Neg)
    BY <1>2 DEF FlightFill, TypeInv, LocalInv
  <2>2. UNCHANGED link
    BY <1>2 DEF FlightFill
  <2>3. QED BY <2>1, <2>2 DEF Hidden
<1>3. CASE UNCHANGED <<l1, link>>
  BY <1>3 DEF Hidden
<1>4. QED BY <1>1, <1>2, <1>3
          DEF Flight, FlightRecheck, FlightRedis, FlightBloom, FlightSlave, FlightMaster

(* A request that starts a call has found nothing yet. *)
LEMMA RedirectDoHidden ==
  ASSUME TypeInv, NEW r \in Reader, RedirectDo(r), NEW c \in Code, Hidden(c)'
  PROVE  Hidden(c)
<1>1. UNCHANGED <<l1, link>>
  BY DEF RedirectDo
<1>2. ASSUME NEW p \in Pod
      PROVE  flight'[p][c].val = flight[p][c].val
  <2>1. flight[p][c] \in FlightState
    BY DEF TypeInv, FlightInv
  <2>2. QED BY <2>1 DEF RedirectDo, TypeInv, FlightInv, FlightState
<1>3. QED BY <1>1, <1>2 DEF Hidden

(* Every step. *)
LEMMA NextHidden ==
  ASSUME NotFoundInv, [Next]_vars, NEW c \in Code, Safe(c), Hidden(c)'
  PROVE  Hidden(c)
<1>1. TypeInv
  BY DEF NotFoundInv
<1>2. ASSUME UNCHANGED <<l1, link, flight>>
      PROVE  Hidden(c)
  BY <1>2, HiddenKept DEF NoNewNeg
<1>3. ASSUME NEW k \in Creator, CreateStep(k) \/ CreatePipeFail(k)
      PROVE  Hidden(c)
  <2>1. UNCHANGED flight
    BY <1>3 DEF CreateStep, CreateRedis, CreateFind, CreateBackfill, CreateReturnExisting,
       CreateInsert, CreateFill, CreatePipe, CreateReturn, CreatePipeFail
  <2>2. QED BY <1>1, <1>3, <2>1, CreateNeg, HiddenKept
<1>4. ASSUME NEW p \in Pod,
             (\E m \in Code \X URL : SyncStart(p, m)) \/ SyncPipe(p) \/ SyncPipeFail(p)
               \/ SyncFill(p)
      PROVE  Hidden(c)
  <2>1. UNCHANGED flight
    BY <1>4 DEF SyncStart, SyncPipe, SyncPipeFail, SyncFill
  <2>2. QED BY <1>1, <1>4, <2>1, SyncNeg, HiddenKept
<1>5. ASSUME NEW p \in Pod, NEW d \in Code, Flight(p, d)
      PROVE  Hidden(c)
  BY <1>1, <1>5, FlightHidden, FlightWrites DEF Hidden, RedisNode
<1>6. ASSUME NEW p \in Pod, NEW d \in Code, L1Expire(p, d)
      PROVE  Hidden(c)
  <2>1. UNCHANGED <<link, flight>>
    BY <1>6 DEF L1Expire
  <2>2. \A q \in Pod, e \in Code : l1'[q][e] = Neg => l1[q][e] = Neg
    BY <1>1, <1>6 DEF L1Expire, TypeInv, LocalInv
  <2>3. QED BY <2>1, <2>2, HiddenKept DEF NoNewNeg
<1>7. ASSUME NEW p \in Pod, PodRestart(p)
      PROVE  Hidden(c)
  <2>1. \A q \in Pod :
          /\ l1'[q][c] = Neg => l1[q][c] = Neg
          /\ flight'[q][c] = NoFlight \/ flight'[q][c] = flight[q][c]
    BY <1>1, <1>7 DEF PodRestart, TypeInv, LocalInv, FlightInv
  <2>2. UNCHANGED link
    BY <1>7 DEF PodRestart
  <2>3. QED BY <2>1, <2>2 DEF Hidden, NoFlight, RedisNode
<1>8. ASSUME StoreNext, UNCHANGED podVars
      PROVE  Hidden(c)
  BY <1>1, <1>8, StoreNextNeg DEF Hidden, podVars, RedisNode
<1>9. ASSUME NEW r \in Reader, RedirectDo(r)
      PROVE  Hidden(c)
  BY <1>1, <1>9, RedirectDoHidden
<1>10. ASSUME NEW p \in Pod, RebuildScan(p) \/ RebuildWrite(p)
       PROVE  Hidden(c)
  BY <1>2, <1>10 DEF RebuildScan, RebuildWrite
<1>11. ASSUME NEW lost, Failover(lost)
       PROVE  Hidden(c)
  BY <1>2, <1>11 DEF Failover, BloomFailover
<1>12. CASE Next
  BY <1>2, <1>3, <1>4, <1>5, <1>6, <1>7, <1>8, <1>9, <1>10, <1>11, <1>12
  DEF Next, Step, CreateStart, RedirectStart, HashL1Expire
<1>13. CASE UNCHANGED vars
  BY <1>2, <1>13 DEF vars, podVars
<1>14. QED BY <1>12, <1>13

(* A link that is Safe and hidden nowhere is never hidden again, whatever   *)
(* is under way, lags, restarts, fails over or comes late: the "for good"   *)
(* of EventuallyResolvable.                                                 *)
THEOREM ResolvableForGood == Spec => StaysResolvable
<1>1. NotFoundInv /\ [Next]_vars =>
        [\A c \in Code : Safe(c) /\ ~Hidden(c) => ~Hidden(c)']_vars
  BY NextHidden
<1>2. QED BY NotFoundInvariant, <1>1, PTL DEF Spec, StaysResolvable
=============================================================================
