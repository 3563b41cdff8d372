------------------------ MODULE ShortLinkRefinement ------------------------
(***************************************************************************)
(* The system implements LinkService, for every value of the constants.    *)
(* The argument: a step commits a link, hands out a code, or leaves both   *)
(* alone; Agreement and NotFoundInv say that any reply is right; and a     *)
(* code that is Safe stays so unless a failover loses bits of it.          *)
(***************************************************************************)
EXTENDS ShortLinkNotFound

USE DEF Parts, NoCode, NoPod, Err, Neg, Miss, Primary,
        storeVars, dbVars, redisVars, l1Vars, rbVars, history

Commits ==
  /\ \E c \in Code, u \in URL : CommitTx(c, u)
  /\ UNCHANGED <<issued, reader, early>>

Issues ==
  /\ \E c \in Code, u \in URL : issued' = [issued EXCEPT ![u] = @ \cup {c}]
  /\ UNCHANGED <<rows, reader, early>>

(* The step may answer lookups, and begin one that is not settled.          *)
Answers ==
  /\ UNCHANGED <<rows, issued>>
  /\ \/ UNCHANGED early
     \/ UNCHANGED <<bloom, rb>> /\ \E c \in Code : ~Safe(c) /\ early' = early \cup {c}
     \/ \E lost \in SUBSET bloom : Failover(lost)

(* Create returns a code of the table. *)
LEMMA ReturnIssues ==
  ASSUME TypeInv, NEW k \in Creator, NEW u \in URL, NEW c \in Code, ReturnCode(k, u, c),
         UNCHANGED <<rows, reader, early>>
  PROVE  Issues
  BY DEF ReturnCode, Issues

(* Every step of a Create request. *)
LEMMA CreateKinds ==
  ASSUME TypeInv, NEW k \in Creator,
         \/ CreateStep(k) \/ CreatePipeFail(k)
         \/ \E p \in Pod, u \in URL : CreateStart(k, p, u)
  PROVE  Commits \/ Issues \/ Answers
<1>1. CASE \E p \in Pod, u \in URL : CreateStart(k, p, u)
  <2>1. PICK p \in Pod, u \in URL : CreateStart(k, p, u)
    BY <1>1
  <2>2. hashL1[p][u] \in Code \cup {NoCode}
    BY DEF TypeInv, LocalInv
  <2>3. QED BY <2>1, <2>2, ReturnIssues DEF CreateStart, Answers
<1>2. CASE CreateRedis(k)
  <2>1. creator[k].url \in URL
    BY <1>2, CreatorFields DEF TypeInv, CreateRedis
  <2>2. \A n \in RedisNode : hash[n][creator[k].url] \in Code \cup {NoCode}
    BY <2>1 DEF TypeInv, StoreTypeOK
  <2>3. QED BY <1>2, <2>1, <2>2, ReturnIssues DEF CreateRedis, Answers
<1>3. CASE CreateInsert(k)
  <2>1. creator[k].url \in URL
    BY <1>3, CreatorFields DEF TypeInv, CreateInsert
  <2>2. QED BY <1>3, <2>1 DEF CreateInsert, ReturnError, Commits, Answers
<1>4. ASSUME ReturnCode(k, creator[k].url, creator[k].code), creator[k].pc \in {"return", "pipe"},
             UNCHANGED <<rows, reader, early>>
      PROVE  Issues
  <2>1. creator[k].url \in URL /\ creator[k].code \in Code
    BY <1>4, CreatorFields DEF TypeInv
  <2>2. QED BY <1>4, <2>1, ReturnIssues
<1>5. CASE CreateReturnExisting(k) \/ CreatePipeFail(k) \/ CreateReturn(k)
  BY <1>4, <1>5 DEF CreateReturnExisting, CreatePipeFail, CreateReturn, Answers
<1>6. CASE CreateFind(k) \/ CreateBackfill(k) \/ CreateFill(k) \/ CreatePipe(k)
  BY <1>6 DEF CreateFind, CreateBackfill, CreateFill, CreatePipe, ReturnError, Answers
<1>7. QED BY <1>1, <1>2, <1>3, <1>5, <1>6 DEF CreateStep

(* Every step of the system is of one of the three kinds. *)
LEMMA NextKinds == TypeInv /\ [Next]_vars => Commits \/ Issues \/ Answers
<1> SUFFICES ASSUME TypeInv, [Next]_vars PROVE Commits \/ Issues \/ Answers
  OBVIOUS
<1>1. ASSUME NEW r \in Reader, NEW p \in Pod, NEW c \in Code, RedirectStart(r, p, c)
      PROVE  Answers
  BY <1>1 DEF RedirectStart, NoteLookup, Answers
<1>2. ASSUME NEW p \in Pod, NEW c \in Code, Flight(p, c) \/ L1Expire(p, c)
      PROVE  Answers
  BY <1>2 DEF Flight, FlightRecheck, FlightRedis, FlightBloom, FlightSlave, FlightMaster,
     FlightSet, FlightFill, L1Expire, Answers
<1>3. ASSUME NEW r \in Reader, RedirectDo(r)
      PROVE  Answers
  BY <1>3 DEF RedirectDo, Answers
<1>4. ASSUME NEW p \in Pod,
             \/ RebuildScan(p) \/ RebuildWrite(p) \/ SyncPipe(p) \/ SyncPipeFail(p)
             \/ SyncFill(p) \/ PodRestart(p)
             \/ (\E u \in URL : HashL1Expire(p, u))
             \/ (\E m \in Code \X URL : SyncStart(p, m))
      PROVE  Answers
  BY <1>4 DEF RebuildScan, RebuildWrite, SyncPipe, SyncPipeFail, SyncFill, PodRestart,
     HashL1Expire, SyncStart, Answers
<1>5. ASSUME StoreNext, UNCHANGED podVars
      PROVE  Answers
  BY <1>5 DEF StoreNext, LinkExpire, HashExpire, LinkReplicate, HashReplicate, RowReplicate,
     LinkFailover, HashFailover, podVars, Answers
<1>6. ASSUME NEW lost \in SUBSET bloom, Failover(lost)
      PROVE  Answers
  BY <1>6 DEF Failover, BloomFailover, Answers
<1>7. CASE Next
  BY <1>1, <1>2, <1>3, <1>4, <1>5, <1>6, <1>7, CreateKinds DEF Next, Step
<1>8. CASE UNCHANGED vars
  BY <1>8 DEF vars, podVars, Answers
<1>9. QED BY <1>7, <1>8

Settled == {c \in Code : Safe(c)}
Reply == [r \in Reader |-> [code |-> reader[r].code, res |-> reader[r].res]]

(* A reply of the next state is right, by the invariants of that state.     *)
LEMMA RepliesRight ==
  ASSUME Agreement', NotFoundInv', UNCHANGED rows, NEW r \in Reader
  PROVE  Client!Right(Reply'[r])
<1>1. /\ Reply'[r].code = reader'[r].code /\ Reply'[r].res = reader'[r].res
  BY DEF Reply
<1>2. reader'[r].res \in URL \cup {Neg, Err, Miss}
  BY DEF Agreement, TypeInv, ReaderInv, ReaderOK, ReaderState, Answer
<1>3. reader'[r].res \in URL =>
        \E d \in Committed : Fold[reader'[r].code] = Fold[d] /\ rows[d] = reader'[r].res
  BY DEF Agreement, ReaderAgree, TrueTo, SameCode, Committed
<1>4. reader'[r].res = Neg => reader'[r].code \in early'
  BY DEF NotFoundInv, EarlyInv, ReaderNoted
<1>5. QED BY <1>1, <1>2, <1>3, <1>4 DEF Client!Right, Client!Used, Committed

(* Settled codes are in use, and cease to be settled only as early ones.    *)
LEMMA SettledKept ==
  ASSUME TypeInv, [Next]_vars
  PROVE  /\ Settled' \subseteq Client!Used'
         /\ Settled \ Settled' \subseteq early'
<1>1. Settled' \subseteq Client!Used'
  BY DEF Settled, Safe, Client!Used, Committed
<1>2. ASSUME [Step]_vars
      PROVE  Settled \ Settled' \subseteq early'
  <2>1. Grows
    BY <1>2, GrowsStep
  <2>2. \A c \in Code : Safe(c) => Safe(c)'
    BY <2>1, SafeKept
  <2>3. QED BY <2>2 DEF Settled
<1>3. ASSUME NEW lost, Failover(lost)
      PROVE  Settled \ Settled' \subseteq early'
  <2>1. /\ UNCHANGED rows /\ bloom' = bloom \ lost /\ early' = early \cup lost
        /\ \A p \in Pod : rb'[p].pre = rb[p].pre \ lost
    BY <1>3, FailoverFields DEF Failover, BloomFailover
  <2>2. QED BY <2>1 DEF Settled, Safe, Committed
<1>4. QED BY <1>1, <1>2, <1>3 DEF Next

(* The record of early lookups grows by codes that are not settled.         *)
LEMMA EarlyGrows ==
  ASSUME TypeInv, TypeInv', Answers
  PROVE  \E doubt \in SUBSET (Code \ Settled') : early' = early \cup doubt
<1>1. CASE UNCHANGED early
  <2>1. {} \in SUBSET (Code \ Settled') /\ early' = early \cup {}
    BY <1>1
  <2>2. QED BY <2>1
<1>2. ASSUME UNCHANGED <<bloom, rb>>, NEW c \in Code, ~Safe(c), early' = early \cup {c}
      PROVE  \E doubt \in SUBSET (Code \ Settled') : early' = early \cup doubt
  <2>1. c \notin Settled'
    BY <1>2 DEF Answers, Settled, Safe, Committed
  <2>2. QED BY <1>2, <2>1
<1>3. ASSUME NEW lost \in SUBSET bloom, Failover(lost)
      PROVE  \E doubt \in SUBSET (Code \ Settled') : early' = early \cup doubt
  <2>1. /\ bloom' = bloom \ lost /\ early' = early \cup lost
        /\ \A p \in Pod : rb'[p].pre = rb[p].pre \ lost
    BY <1>3, FailoverFields DEF Failover, BloomFailover
  <2>2. \A c \in lost : c \notin Settled'
    BY <2>1, PodAssumption DEF Settled, Safe
  <2>3. lost \subseteq Code
    BY DEF TypeInv, StoreTypeOK
  <2>4. QED BY <2>1, <2>2, <2>3
<1>4. QED BY <1>1, <1>2, <1>3 DEF Answers

(* Initial states map to initial states. *)
LEMMA InitClient == Init => Client!Init
<1> SUFFICES ASSUME Init PROVE Client!Init
  OBVIOUS
<1>1. Settled \subseteq Client!Used
  BY DEF Settled, Safe, Client!Used, Committed
<1>2. \A r \in Reader : Reply[r].res = Miss
  BY DEF Init, Reply, Answered
<1>3. QED BY <1>1, <1>2
         DEF Init, StoreInit, Client!Init, Client!Used, Committed, SameCode, Settled, Reply

(* Steps map to steps. *)
LEMMA NextClient ==
  Agreement /\ NotFoundInv /\ [Next]_vars => [Client!Next]_(Client!vars)
<1> SUFFICES ASSUME Agreement, NotFoundInv, [Next]_vars PROVE Client!Next
  OBVIOUS
<1>1. Agreement' /\ NotFoundInv' /\ TypeInv /\ TypeInv'
  BY NextAgree, NextNotFound DEF Agreement
<1>2. /\ Settled' \subseteq Client!Used'
      /\ Settled \ Settled' \subseteq early'
  BY <1>1, SettledKept
<1>3. CASE Commits
  <2>1. UNCHANGED <<issued, Reply, early>>
    BY <1>3 DEF Commits, Reply
  <2>2. \E c \in Code, u \in URL : ~Client!Conflict(c, u) /\ rows' = [rows EXCEPT ![c] = u]
    BY <1>3 DEF Commits, CommitTx, Conflicts, SameCode, Client!Conflict, Client!Used, Committed
  <2>3. Client!Insert
    BY <2>1, <2>2 DEF Client!Insert, Reply
  <2>4. QED BY <1>2, <2>3 DEF Client!Next, Settled
<1>4. CASE Issues
  <2>1. UNCHANGED <<rows, Reply, early>>
    BY <1>4 DEF Issues, Reply
  <2>2. PICK c \in Code, u \in URL : issued' = [issued EXCEPT ![u] = @ \cup {c}]
    BY <1>4 DEF Issues
  <2>3. c \in issued'[u]
    BY <1>1, <2>2 DEF TypeInv, HistoryInv
  <2>4. rows[c] = u
    BY <1>1, <2>1, <2>3 DEF Agreement, IssuedAgree
  <2>5. Client!Issue
    BY <2>1, <2>2, <2>4 DEF Client!Issue, Reply
  <2>6. QED BY <1>2, <2>5 DEF Client!Next, Settled
<1>5. CASE Answers
  <2>1. UNCHANGED <<rows, issued>>
    BY <1>5 DEF Answers
  <2>2. \A r \in Reader : Client!Right(Reply'[r])
    BY <1>1, <2>1, RepliesRight
  <2>3. \E doubt \in SUBSET (Code \ Settled') : early' = early \cup doubt
    BY <1>1, <1>5, EarlyGrows
  <2>4. Client!Lookup
    BY <2>1, <2>2, <2>3 DEF Client!Lookup, Reply, Settled
  <2>5. QED BY <1>2, <2>4 DEF Client!Next, Settled
<1>6. QED BY <1>1, <1>3, <1>4, <1>5, NextKinds

(* For any number of pods, requests, replicas and failures, clients see a   *)
(* LinkService: one code per URL for good, right answers, and "not found"   *)
(* only for codes that were not settled all along.                          *)
THEOREM SystemIsLinkService == Spec => ImplementsLinkService
<1>1. QED BY AgreementInvariant, NotFoundInvariant, InitClient, NextClient, PTL
             DEF Spec, ImplementsLinkService, Client!Spec
=============================================================================
