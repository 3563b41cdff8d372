-------------------------- MODULE ShortLinkProofs --------------------------
(***************************************************************************)
(* Theorems about ShortLink, for every value of its constants: type        *)
(* correctness, and that singleflight calls and waiting requests go        *)
(* together.  The type invariant is split by the process that owns the     *)
(* state; each process has a lemma that a single replacement of one of its *)
(* records keeps its part, so that the proof for an action only shows      *)
(* which record the action writes.                                         *)
(***************************************************************************)
EXTENDS ShortLink, TLAPS

----------------------------------------------------------------------------
(* The inductive invariant: TypeOK, and that a request or a message in      *)
(* progress has a pod, a URL and, once it is known, a code.                 *)

CreatorOK(x) ==
  /\ x \in CreatorState
  /\ x.pc \notin {"idle", "failed"} => x.pod \in Pod /\ x.url \in URL
  /\ x.pc \in {"backfill", "return", "fill", "pipe"} => x.code \in Code

SyncOK(x) ==
  /\ x \in SyncState
  /\ x.pc = "pipe" => x.code \in Code /\ x.url \in URL

ReaderOK(x) ==
  /\ x \in ReaderState
  /\ x.pc # "idle" => x.pod \in Pod /\ x.code \in Code

LocalInv ==
  /\ l1 \in [Pod -> [Code -> Cached]]
  /\ hashL1 \in [Pod -> [URL -> Code \cup {NoCode}]]

RebuildInv ==
  /\ ready \in [Pod -> BOOLEAN]
  /\ rb \in [Pod -> RebuildState]

FlightInv  == flight \in [Pod -> [Code -> FlightState]]

SyncInv ==
  /\ sync \in [Pod -> SyncState]
  /\ \A p \in Pod : SyncOK(sync[p])

CreatorInv ==
  /\ creator \in [Creator -> CreatorState]
  /\ \A k \in Creator : CreatorOK(creator[k])

ReaderInv ==
  /\ reader \in [Reader -> ReaderState]
  /\ \A r \in Reader : ReaderOK(reader[r])

HistoryInv ==
  /\ issued \in [URL -> SUBSET Code]
  /\ early \subseteq Code

TypeInv ==
  /\ StoreTypeOK
  /\ LocalInv
  /\ RebuildInv
  /\ FlightInv
  /\ SyncInv
  /\ CreatorInv
  /\ ReaderInv
  /\ HistoryInv

(* The strings and the number that stand for "nothing", and the tuples of   *)
(* variables, are expanded everywhere.                                      *)
USE DEF NoCode, NoPod, Err, Neg, Miss, Primary,
        storeVars, dbVars, redisVars, l1Vars, rbVars, history

(* The invariant is as strong as TypeOK. *)
LEMMA TypeInvImplies == TypeInv => TypeOK
  BY DEF TypeInv, TypeOK, LocalInv, RebuildInv, FlightInv, SyncInv, CreatorInv,
         ReaderInv, HistoryInv

----------------------------------------------------------------------------
(* Parts that an action leaves alone *)

(* A part whose variables do not change is kept (one fact per part).        *)
LEMMA StoreKept == StoreTypeOK /\ UNCHANGED storeVars => StoreTypeOK'
  BY DEF StoreTypeOK
(* LocalInv is about l1 and hashL1 only. *)
LEMMA LocalKept == LocalInv /\ UNCHANGED l1Vars => LocalInv'
  BY DEF LocalInv
(* RebuildInv is about ready and rb only. *)
LEMMA RebuildKept == RebuildInv /\ UNCHANGED rbVars => RebuildInv'
  BY DEF RebuildInv
(* FlightInv is about flight only. *)
LEMMA FlightKept == FlightInv /\ UNCHANGED flight => FlightInv'
  BY DEF FlightInv
(* SyncInv is about sync only. *)
LEMMA SyncKept == SyncInv /\ UNCHANGED sync => SyncInv'
  BY DEF SyncInv
(* CreatorInv is about creator only. *)
LEMMA CreatorKept == CreatorInv /\ UNCHANGED creator => CreatorInv'
  BY DEF CreatorInv
(* ReaderInv is about reader only. *)
LEMMA ReaderKept == ReaderInv /\ UNCHANGED reader => ReaderInv'
  BY DEF ReaderInv
(* HistoryInv is about issued and early only. *)
LEMMA HistoryKept == HistoryInv /\ UNCHANGED history => HistoryInv'
  BY DEF HistoryInv

----------------------------------------------------------------------------
(* Single writes *)

(* Replacing the record of one creator by a well-formed one.                *)
LEMMA CreatorWrite ==
  ASSUME CreatorInv, NEW k \in Creator, NEW x, CreatorOK(x),
         creator' = [creator EXCEPT ![k] = x]
  PROVE  CreatorInv'
  BY DEF CreatorInv, CreatorOK

(* Replacing the message of one consumer by a well-formed one.              *)
LEMMA SyncWrite ==
  ASSUME SyncInv, NEW p \in Pod, NEW x, SyncOK(x),
         sync' = [sync EXCEPT ![p] = x]
  PROVE  SyncInv'
  BY DEF SyncInv, SyncOK

(* Replacing the record of one reader by a well-formed one.                 *)
LEMMA ReaderWrite ==
  ASSUME ReaderInv, NEW r \in Reader, NEW x, ReaderOK(x),
         reader' = [reader EXCEPT ![r] = x]
  PROVE  ReaderInv'
  BY DEF ReaderInv, ReaderOK

(* Moving one singleflight call.                                            *)
LEMMA FlightWrite ==
  ASSUME FlightInv, NEW p \in Pod, NEW c \in Code, NEW x \in FlightState,
         flight' = [flight EXCEPT ![p][c] = x]
  PROVE  FlightInv'
  BY DEF FlightInv

(* Recording that a creator returned a code.                                *)
LEMMA IssuedWrite ==
  ASSUME HistoryInv, NEW u \in URL, NEW c \in Code,
         issued' = [issued EXCEPT ![u] = @ \cup {c}], UNCHANGED early
  PROVE  HistoryInv'
  BY DEF HistoryInv

(* One write to the Redis primary, by SET or by a pipeline command.         *)
LEMMA LinkWrite ==
  ASSUME StoreTypeOK, NEW c \in Code, NEW v \in Cached, SetLink(c, v),
         UNCHANGED <<dbVars, hash, bloom>>
  PROVE  StoreTypeOK'
  BY DEF StoreTypeOK, SetLink, RedisNode

(* SET urlhash keeps the type of the data tier. *)
LEMMA HashWrite ==
  ASSUME StoreTypeOK, NEW u \in URL, NEW c \in Code, SetHash(u, c),
         UNCHANGED <<dbVars, link, bloom>>
  PROVE  StoreTypeOK'
  BY DEF StoreTypeOK, SetHash, RedisNode

(* SETBIT keeps the type of the data tier. *)
LEMMA BloomWrite ==
  ASSUME StoreTypeOK, NEW cs \in SUBSET Code, AddBloom(cs),
         UNCHANGED <<dbVars, link, hash>>
  PROVE  StoreTypeOK'
  BY DEF StoreTypeOK, AddBloom

(* Every command of the pipeline keeps the type of the data tier. *)
LEMMA CommandWrite ==
  ASSUME StoreTypeOK, NEW cmd, NEW c \in Code, NEW u \in URL, Execute(cmd, c, u),
         UNCHANGED dbVars
  PROVE  StoreTypeOK'
  BY LinkWrite, HashWrite, BloomWrite DEF Execute, Cached

(* IdleCreator, what ReturnError leaves, IdleSync and NoFlight are          *)
(* well formed.                                                             *)
LEMMA IdleCreatorOK == CreatorOK(IdleCreator)
  BY AttemptAssumption DEF CreatorOK, CreatorState, IdleCreator, Fresh

(* The consumer that waits for a message is well typed. *)
LEMMA IdleSyncOK == SyncOK(IdleSync)
  BY AttemptAssumption DEF SyncOK, SyncState, IdleSync

(* The absent singleflight call is well typed. *)
LEMMA NoFlightOK == NoFlight \in FlightState
  BY DEF NoFlight, FlightState, Cached

(* The two ways a Create ends. *)
LEMMA ReturnCodeOK ==
  ASSUME CreatorInv, HistoryInv, NEW k \in Creator, NEW u \in URL, NEW c \in Code,
         ReturnCode(k, u, c), UNCHANGED early
  PROVE  CreatorInv' /\ HistoryInv'
  BY CreatorWrite, IdleCreatorOK, IssuedWrite DEF ReturnCode

(* Create returning an error keeps the types of creators and issued codes. *)
LEMMA ReturnErrorOK ==
  ASSUME CreatorInv, HistoryInv, NEW k \in Creator, ReturnError(k), UNCHANGED early
  PROVE  CreatorInv' /\ HistoryInv'
<1> DEFINE x == Fresh("failed", NoPod, creator[k].url)
<1>1. creator[k].url \in URL \cup {Miss}
  BY DEF CreatorInv, CreatorState
<1>2. CreatorOK(x)
  BY <1>1, AttemptAssumption DEF CreatorOK, CreatorState, Fresh
<1>3. creator' = [creator EXCEPT ![k] = x]
  BY DEF ReturnError
<1>4. CreatorInv'
  BY <1>2, <1>3, CreatorWrite
<1>5. HistoryInv'
  BY HistoryKept DEF ReturnError
<1>6. QED BY <1>4, <1>5

(* Goto and the other updates of a creator that is in progress.             *)
LEMMA CreatorFields ==
  ASSUME CreatorInv, NEW k \in Creator
  PROVE  /\ creator[k].pod \in Pod \cup {NoPod}
         /\ creator[k].url \in URL \cup {Miss}
         /\ creator[k].code \in Code \cup {NoCode}
         /\ creator[k].todo \in SUBSET Commands
         /\ creator[k].tries \in 0 .. MaxAttempts - 1
         /\ creator[k].pc \notin {"idle", "failed"} =>
              creator[k].pod \in Pod /\ creator[k].url \in URL
         /\ creator[k].pc \in {"backfill", "return", "fill", "pipe"} =>
              creator[k].code \in Code
  BY DEF CreatorInv, CreatorOK, CreatorState

----------------------------------------------------------------------------
(* Create *)

(* The arrival of a request, a hit in a reverse index and the exits of      *)
(* Create keep the invariant.                                               *)
LEMMA CreateStartType ==
  ASSUME TypeInv, NEW k \in Creator, NEW p \in Pod, NEW u \in URL, CreateStart(k, p, u)
  PROVE  TypeInv'
<1>1. StoreTypeOK' /\ LocalInv' /\ RebuildInv' /\ FlightInv' /\ SyncInv' /\ ReaderInv'
  BY StoreKept, LocalKept, RebuildKept, FlightKept, SyncKept, ReaderKept
  DEF TypeInv, CreateStart
<1>2. CASE hashL1[p][u] # NoCode
  <2>1. hashL1[p][u] \in Code
    BY <1>2 DEF TypeInv, LocalInv
  <2>2. ReturnCode(k, u, hashL1[p][u]) /\ UNCHANGED early
    BY <1>2 DEF CreateStart
  <2>3. CreatorInv' /\ HistoryInv'
    BY <2>1, <2>2, ReturnCodeOK DEF TypeInv
  <2>4. QED BY <1>1, <2>3 DEF TypeInv
<1>3. CASE hashL1[p][u] = NoCode
  <2>1. CreatorOK(Fresh("redis", p, u))
    BY AttemptAssumption DEF CreatorOK, CreatorState, Fresh
  <2>2. CreatorInv'
    BY <1>3, <2>1, CreatorWrite DEF CreateStart, TypeInv
  <2>3. HistoryInv'
    BY <1>3, HistoryKept DEF CreateStart, TypeInv
  <2>4. QED BY <1>1, <2>2, <2>3 DEF TypeInv
<1>4. QED BY <1>2, <1>3

(* The action CreateRedis keeps the typing invariant. *)
LEMMA CreateRedisType ==
  ASSUME TypeInv, NEW k \in Creator, CreateRedis(k)
  PROVE  TypeInv'
<1> DEFINE p == creator[k].pod
           u == creator[k].url
<1>1. p \in Pod /\ u \in URL
  BY CreatorFields DEF TypeInv, CreateRedis
<1>2. StoreTypeOK' /\ RebuildInv' /\ FlightInv' /\ SyncInv' /\ ReaderInv'
  BY StoreKept, RebuildKept, FlightKept, SyncKept, ReaderKept DEF TypeInv, CreateRedis
<1>3. ASSUME NEW n \in RedisNode, hash[n][u] # NoCode,
             hashL1' = [hashL1 EXCEPT ![p][u] = hash[n][u]],
             ReturnCode(k, u, hash[n][u])
      PROVE  TypeInv'
  <2>1. hash[n][u] \in Code
    BY <1>1, <1>3 DEF TypeInv, StoreTypeOK
  <2>2. UNCHANGED <<l1, early>>
    BY DEF CreateRedis
  <2>3. LocalInv'
    BY <1>1, <1>3, <2>1, <2>2 DEF TypeInv, LocalInv
  <2>4. CreatorInv' /\ HistoryInv'
    BY <1>1, <1>3, <2>1, <2>2, ReturnCodeOK DEF TypeInv
  <2>5. QED BY <1>2, <2>3, <2>4 DEF TypeInv
<1>4. ASSUME Goto(k, "find"), UNCHANGED <<hashL1, issued>>
      PROVE  TypeInv'
  <2> DEFINE x == [creator[k] EXCEPT !.pc = "find"]
  <2>1. CreatorOK(x)
    BY <1>1 DEF TypeInv, CreatorInv, CreatorOK, CreatorState
  <2>2. CreatorInv'
    BY <1>4, <2>1, CreatorWrite DEF Goto, TypeInv
  <2>3. LocalInv' /\ HistoryInv'
    BY <1>4, LocalKept, HistoryKept DEF CreateRedis, TypeInv
  <2>4. QED BY <1>2, <2>2, <2>3 DEF TypeInv
<1>5. QED BY <1>3, <1>4 DEF CreateRedis

(* The action CreateFind keeps the typing invariant. *)
LEMMA CreateFindType ==
  ASSUME TypeInv, NEW k \in Creator, CreateFind(k)
  PROVE  TypeInv'
<1> DEFINE y(c) == [creator[k] EXCEPT !.pc = "backfill", !.code = c]
           z == [creator[k] EXCEPT !.pc = "insert"]
<1>1. creator[k].pod \in Pod /\ creator[k].url \in URL
  BY CreatorFields DEF TypeInv, CreateFind
<1>2. StoreTypeOK' /\ LocalInv' /\ RebuildInv' /\ FlightInv' /\ SyncInv' /\ ReaderInv'
  BY StoreKept, LocalKept, RebuildKept, FlightKept, SyncKept, ReaderKept
  DEF TypeInv, CreateFind
<1>3. ASSUME NEW c \in Code, creator' = [creator EXCEPT ![k] = y(c)], UNCHANGED issued
      PROVE  CreatorInv' /\ HistoryInv'
  <2>1. CreatorOK(y(c))
    BY <1>1 DEF TypeInv, CreatorInv, CreatorOK, CreatorState
  <2>2. CreatorInv'
    BY <1>3, <2>1, CreatorWrite DEF TypeInv
  <2>3. HistoryInv'
    BY <1>3, HistoryKept DEF CreateFind, TypeInv
  <2>4. QED BY <2>2, <2>3
<1>4. ASSUME Goto(k, "insert"), UNCHANGED issued
      PROVE  CreatorInv' /\ HistoryInv'
  <2>1. CreatorOK(z)
    BY <1>1 DEF TypeInv, CreatorInv, CreatorOK, CreatorState
  <2>2. CreatorInv'
    BY <1>4, <2>1, CreatorWrite DEF Goto, TypeInv
  <2>3. HistoryInv'
    BY <1>4, HistoryKept DEF CreateFind, TypeInv
  <2>4. QED BY <2>2, <2>3
<1>5. ASSUME ReturnError(k)
      PROVE  CreatorInv' /\ HistoryInv'
  BY <1>5, ReturnErrorOK DEF CreateFind, TypeInv
<1>6. CreatorInv' /\ HistoryInv'
  BY <1>3, <1>4, <1>5 DEF CreateFind, Committed
<1>7. QED BY <1>2, <1>6 DEF TypeInv

(* The action CreateBackfill keeps the typing invariant. *)
LEMMA CreateBackfillType ==
  ASSUME TypeInv, NEW k \in Creator, CreateBackfill(k)
  PROVE  TypeInv'
<1> DEFINE x == [creator[k] EXCEPT !.pc = "return"]
<1>1. creator[k].pod \in Pod /\ creator[k].url \in URL /\ creator[k].code \in Code
  BY CreatorFields DEF TypeInv, CreateBackfill
<1>2. StoreTypeOK'
  BY <1>1, HashWrite, StoreKept DEF TypeInv, CreateBackfill
<1>3. LocalInv' /\ RebuildInv' /\ FlightInv' /\ SyncInv' /\ ReaderInv' /\ HistoryInv'
  BY LocalKept, RebuildKept, FlightKept, SyncKept, ReaderKept, HistoryKept
  DEF TypeInv, CreateBackfill
<1>4. CreatorOK(x)
  BY <1>1 DEF TypeInv, CreatorInv, CreatorOK, CreatorState
<1>5. CreatorInv'
  BY <1>4, CreatorWrite DEF CreateBackfill, Goto, TypeInv
<1>6. QED BY <1>2, <1>3, <1>5 DEF TypeInv

(* The action CreateReturnExisting keeps the typing invariant. *)
LEMMA CreateReturnExistingType ==
  ASSUME TypeInv, NEW k \in Creator, CreateReturnExisting(k)
  PROVE  TypeInv'
<1> DEFINE p == creator[k].pod
           u == creator[k].url
           c == creator[k].code
<1>1. p \in Pod /\ u \in URL /\ c \in Code
  BY CreatorFields DEF TypeInv, CreateReturnExisting
<1>2. LocalInv'
  BY <1>1 DEF TypeInv, LocalInv, CreateReturnExisting
<1>3. StoreTypeOK' /\ RebuildInv' /\ FlightInv' /\ SyncInv' /\ ReaderInv'
  BY StoreKept, RebuildKept, FlightKept, SyncKept, ReaderKept
  DEF TypeInv, CreateReturnExisting
<1>4. CreatorInv' /\ HistoryInv'
  BY <1>1, ReturnCodeOK DEF CreateReturnExisting, TypeInv
<1>5. QED BY <1>2, <1>3, <1>4 DEF TypeInv

(* The action CreateInsert keeps the typing invariant. *)
LEMMA CreateInsertType ==
  ASSUME TypeInv, NEW k \in Creator, CreateInsert(k)
  PROVE  TypeInv'
<1> DEFINE u == creator[k].url
           x(c) == [creator[k] EXCEPT !.pc = "fill", !.code = c]
<1>1. creator[k].pod \in Pod /\ u \in URL
  BY CreatorFields DEF TypeInv, CreateInsert
<1>2. LocalInv' /\ RebuildInv' /\ FlightInv' /\ SyncInv' /\ ReaderInv'
  BY LocalKept, RebuildKept, FlightKept, SyncKept, ReaderKept DEF TypeInv, CreateInsert
<1>3. UNCHANGED <<redisVars, early>>
  BY DEF CreateInsert
<1>4. PICK c \in Code :
        \/ /\ CommitTx(c, u)
           /\ \/ /\ creator' = [creator EXCEPT ![k].pc = "fill", ![k].code = c]
                 /\ UNCHANGED issued
              \/ "db" \in Faults /\ ReturnError(k)
        \/ /\ Conflicts(c, u) \/ "db" \in Faults
           /\ ReturnError(k)
           /\ UNCHANGED dbVars
  BY DEF CreateInsert
<1>5. StoreTypeOK'
  <2>1. CASE CommitTx(c, u)
    BY <1>1, <1>3, <2>1 DEF TypeInv, StoreTypeOK, CommitTx
  <2>2. CASE UNCHANGED dbVars
    BY <1>3, <2>2, StoreKept DEF TypeInv
  <2>3. QED BY <1>4, <2>1, <2>2
<1>6. CreatorInv' /\ HistoryInv'
  <2>1. CASE creator' = [creator EXCEPT ![k] = x(c)] /\ UNCHANGED issued
    <3>1. CreatorOK(x(c))
      BY <1>1 DEF TypeInv, CreatorInv, CreatorOK, CreatorState
    <3>2. CreatorInv'
      BY <2>1, <3>1, CreatorWrite DEF TypeInv
    <3>3. HistoryInv'
      BY <1>3, <2>1, HistoryKept DEF TypeInv
    <3>4. QED BY <3>2, <3>3
  <2>2. CASE ReturnError(k)
    BY <1>3, <2>2, ReturnErrorOK DEF TypeInv
  <2>3. QED BY <1>4, <2>1, <2>2
<1>7. QED BY <1>2, <1>5, <1>6 DEF TypeInv

(* The action CreateFill keeps the typing invariant. *)
LEMMA CreateFillType ==
  ASSUME TypeInv, NEW k \in Creator, CreateFill(k)
  PROVE  TypeInv'
<1> DEFINE x == [creator[k] EXCEPT !.pc = "pipe", !.todo = Commands]
<1>1. creator[k].pod \in Pod /\ creator[k].url \in URL /\ creator[k].code \in Code
  BY CreatorFields DEF TypeInv, CreateFill
<1>2. LocalInv'
  BY <1>1 DEF TypeInv, LocalInv, Cached, CreateFill
<1>3. StoreTypeOK' /\ RebuildInv' /\ FlightInv' /\ SyncInv' /\ ReaderInv' /\ HistoryInv'
  BY StoreKept, RebuildKept, FlightKept, SyncKept, ReaderKept, HistoryKept
  DEF TypeInv, CreateFill
<1>4. CreatorOK(x)
  BY <1>1 DEF TypeInv, CreatorInv, CreatorOK, CreatorState
<1>5. CreatorInv'
  BY <1>4, CreatorWrite DEF CreateFill, TypeInv
<1>6. QED BY <1>2, <1>3, <1>5 DEF TypeInv

(* The action CreatePipe keeps the typing invariant. *)
LEMMA CreatePipeType ==
  ASSUME TypeInv, NEW k \in Creator, CreatePipe(k)
  PROVE  TypeInv'
<1>1. creator[k].pod \in Pod /\ creator[k].url \in URL /\ creator[k].code \in Code
  BY CreatorFields DEF TypeInv, CreatePipe
<1>2. PICK cmd \in creator[k].todo :
        /\ Execute(cmd, creator[k].code, creator[k].url)
        /\ creator' = [creator EXCEPT ![k].todo = @ \ {cmd}]
  BY DEF CreatePipe
<1> DEFINE x == [creator[k] EXCEPT !.todo = @ \ {cmd}]
<1>3. StoreTypeOK'
  BY <1>1, <1>2, CommandWrite DEF TypeInv, CreatePipe
<1>4. LocalInv' /\ RebuildInv' /\ FlightInv' /\ SyncInv' /\ ReaderInv' /\ HistoryInv'
  BY LocalKept, RebuildKept, FlightKept, SyncKept, ReaderKept, HistoryKept
  DEF TypeInv, CreatePipe
<1>5. CreatorOK(x)
  BY <1>1 DEF TypeInv, CreatorInv, CreatorOK, CreatorState
<1>6. CreatorInv'
  BY <1>2, <1>5, CreatorWrite DEF TypeInv
<1>7. QED BY <1>3, <1>4, <1>6 DEF TypeInv

(* The action CreatePipeFail keeps the typing invariant. *)
LEMMA CreatePipeFailType ==
  ASSUME TypeInv, NEW k \in Creator, CreatePipeFail(k)
  PROVE  TypeInv'
<1> DEFINE x == [creator[k] EXCEPT !.todo = Commands, !.tries = @ + 1]
<1>1. creator[k].pod \in Pod /\ creator[k].url \in URL /\ creator[k].code \in Code
  BY CreatorFields DEF TypeInv, CreatePipeFail
<1>2. StoreTypeOK' /\ LocalInv' /\ RebuildInv' /\ FlightInv' /\ SyncInv' /\ ReaderInv'
  BY StoreKept, LocalKept, RebuildKept, FlightKept, SyncKept, ReaderKept
  DEF TypeInv, CreatePipeFail
<1>3. CASE /\ MayRetry(creator[k].tries)
           /\ creator' = [creator EXCEPT ![k] = x]
           /\ UNCHANGED issued
  <2>1. creator[k].tries + 1 \in 0 .. MaxAttempts - 1
    BY <1>3, CreatorFields, AttemptAssumption DEF TypeInv, MayRetry
  <2>2. CreatorOK(x)
    BY <1>1, <2>1 DEF TypeInv, CreatorInv, CreatorOK, CreatorState
  <2>3. CreatorInv'
    BY <1>3, <2>2, CreatorWrite DEF TypeInv
  <2>4. HistoryInv'
    BY <1>3, HistoryKept DEF CreatePipeFail, TypeInv
  <2>5. QED BY <1>2, <2>3, <2>4 DEF TypeInv
<1>4. CASE ReturnCode(k, creator[k].url, creator[k].code)
  <2>1. CreatorInv' /\ HistoryInv'
    BY <1>1, <1>4, ReturnCodeOK DEF CreatePipeFail, TypeInv
  <2>2. QED BY <1>2, <2>1 DEF TypeInv
<1>5. QED BY <1>3, <1>4 DEF CreatePipeFail

(* The action CreateReturn keeps the typing invariant. *)
LEMMA CreateReturnType ==
  ASSUME TypeInv, NEW k \in Creator, CreateReturn(k)
  PROVE  TypeInv'
<1>1. creator[k].url \in URL /\ creator[k].code \in Code
  BY CreatorFields DEF TypeInv, CreateReturn
<1>2. StoreTypeOK' /\ LocalInv' /\ RebuildInv' /\ FlightInv' /\ SyncInv' /\ ReaderInv'
  BY StoreKept, LocalKept, RebuildKept, FlightKept, SyncKept, ReaderKept
  DEF TypeInv, CreateReturn
<1>3. CreatorInv' /\ HistoryInv'
  BY <1>1, ReturnCodeOK DEF CreateReturn, TypeInv
<1>4. QED BY <1>2, <1>3 DEF TypeInv

----------------------------------------------------------------------------
(* Redirect *)

(* A lookup that begins is noted as a code.                                 *)
LEMMA NoteLookupType ==
  ASSUME HistoryInv, NEW c \in Code, NoteLookup(c), UNCHANGED issued
  PROVE  HistoryInv'
  BY DEF HistoryInv, NoteLookup

(* What a reader holds after an answer, and the answers to all waiters.     *)
LEMMA FlightReturnType ==
  ASSUME FlightInv, ReaderInv, NEW p \in Pod, NEW c \in Code, NEW v \in Cached \cup {Err},
         FlightReturn(p, c, v)
  PROVE  FlightInv' /\ ReaderInv'
<1>1. FlightInv'
  BY NoFlightOK, FlightWrite DEF FlightReturn
<1>2. ReaderOK(Answered(c, v))
  BY DEF ReaderOK, ReaderState, Answered, Answer, Cached
<1>3. ReaderInv'
  BY <1>2 DEF FlightReturn, ReaderInv, ReaderOK
<1>4. QED BY <1>1, <1>3

(* Moving a singleflight call to a well-typed state keeps FlightInv. *)
LEMMA FlightGotoType ==
  ASSUME FlightInv, NEW p \in Pod, NEW c \in Code,
         NEW pc \in {"redis", "bloom", "slave", "master", "set", "fill"},
         NEW v \in Cached, FlightGoto(p, c, pc, v)
  PROVE  FlightInv'
<1>1. [pc |-> pc, val |-> v] \in FlightState
  BY DEF FlightState
<1>2. QED BY <1>1, FlightWrite DEF FlightGoto

(* The action RedirectStart keeps the typing invariant. *)
LEMMA RedirectStartType ==
  ASSUME TypeInv, NEW r \in Reader, NEW p \in Pod, NEW c \in Code, RedirectStart(r, p, c)
  PROVE  TypeInv'
<1> DEFINE x == [pc |-> "do", pod |-> p, code |-> c, res |-> Miss]
<1>1. StoreTypeOK' /\ LocalInv' /\ RebuildInv' /\ FlightInv' /\ SyncInv' /\ CreatorInv'
  BY StoreKept, LocalKept, RebuildKept, FlightKept, SyncKept, CreatorKept
  DEF TypeInv, RedirectStart
<1>2. HistoryInv'
  BY NoteLookupType DEF TypeInv, RedirectStart
<1>3. ReaderOK(x)
  BY DEF ReaderOK, ReaderState, Answer
<1>4. ReaderOK(Answered(c, l1[p][c]))
  BY DEF TypeInv, LocalInv, ReaderOK, ReaderState, Answered, Answer, Cached
<1>5. ReaderInv'
  BY <1>3, <1>4, ReaderWrite DEF RedirectStart, TypeInv
<1>6. QED BY <1>1, <1>2, <1>5 DEF TypeInv

(* The action RedirectDo keeps the typing invariant. *)
LEMMA RedirectDoType ==
  ASSUME TypeInv, NEW r \in Reader, RedirectDo(r)
  PROVE  TypeInv'
<1> DEFINE p == reader[r].pod
           c == reader[r].code
           x == [reader[r] EXCEPT !.pc = "wait"]
           y == [flight[p][c] EXCEPT !.pc = "recheck"]
<1>1. StoreTypeOK' /\ LocalInv' /\ RebuildInv' /\ SyncInv' /\ CreatorInv' /\ HistoryInv'
  BY StoreKept, LocalKept, RebuildKept, SyncKept, CreatorKept, HistoryKept
  DEF TypeInv, RedirectDo
<1>2. p \in Pod /\ c \in Code
  BY DEF TypeInv, ReaderInv, ReaderOK, RedirectDo
<1>3. ReaderOK(x)
  BY <1>2 DEF TypeInv, ReaderInv, ReaderOK, ReaderState
<1>4. ReaderInv'
  BY <1>3, ReaderWrite DEF RedirectDo, TypeInv
<1>5. y \in FlightState
  <2>1. flight[p][c] \in FlightState
    BY <1>2 DEF TypeInv, FlightInv
  <2>2. QED BY <2>1 DEF FlightState
<1>6. flight' = flight \/ flight' = [flight EXCEPT ![p][c] = y]
  BY DEF RedirectDo
<1>7. FlightInv'
  BY <1>2, <1>5, <1>6, FlightWrite, FlightKept DEF TypeInv
<1>8. QED BY <1>1, <1>4, <1>7 DEF TypeInv

(* The steps of resolveRedirect inside a singleflight call.                 *)
LEMMA FlightType ==
  ASSUME TypeInv, NEW p \in Pod, NEW c \in Code, Flight(p, c)
  PROVE  TypeInv'
<1>1. /\ l1[p][c] \in Cached
      /\ flight[p][c].val \in Cached
      /\ \A n \in RedisNode : link[n][c] \in Cached
      /\ \A d \in Committed : rows[d] \in Cached
      /\ \A view \in ReadViews : view \subseteq Code
      /\ Neg \in Cached /\ Miss \in Cached
  BY DEF TypeInv, LocalInv, FlightInv, FlightState, StoreTypeOK, Committed, Cached, ReadViews
<1>2. RebuildInv' /\ SyncInv' /\ CreatorInv' /\ HistoryInv'
  BY RebuildKept, SyncKept, CreatorKept, HistoryKept
  DEF TypeInv, Flight, FlightRecheck, FlightRedis, FlightBloom, FlightSlave,
      FlightMaster, FlightSet, FlightFill
<1>3. CASE FlightRecheck(p, c)
  <2>1. FlightInv' /\ ReaderInv'
    BY <1>1, <1>3, FlightReturnType, FlightGotoType, ReaderKept DEF TypeInv, FlightRecheck
  <2>2. StoreTypeOK' /\ LocalInv'
    BY <1>3, StoreKept, LocalKept DEF TypeInv, FlightRecheck
  <2>3. QED BY <1>2, <2>1, <2>2 DEF TypeInv
<1>4. CASE FlightRedis(p, c)
  <2>1. FlightInv'
    BY <1>1, <1>4, FlightGotoType DEF TypeInv, FlightRedis
  <2>2. StoreTypeOK' /\ LocalInv' /\ ReaderInv'
    BY <1>4, StoreKept, LocalKept, ReaderKept DEF TypeInv, FlightRedis
  <2>3. QED BY <1>2, <2>1, <2>2 DEF TypeInv
<1>5. CASE FlightBloom(p, c)
  <2>1. FlightInv'
    BY <1>1, <1>5, FlightGotoType DEF TypeInv, FlightBloom
  <2>2. StoreTypeOK' /\ LocalInv' /\ ReaderInv'
    BY <1>5, StoreKept, LocalKept, ReaderKept DEF TypeInv, FlightBloom
  <2>3. QED BY <1>2, <2>1, <2>2 DEF TypeInv
<1>6. CASE FlightSlave(p, c)
  <2>1. \A view \in ReadViews : \A d \in Match(c, view) : rows[d] \in Cached
    BY <1>1 DEF Match, TypeInv, StoreTypeOK, Cached
  <2>2. FlightInv' /\ ReaderInv'
    BY <1>1, <1>6, <2>1, FlightReturnType, FlightGotoType, ReaderKept DEF TypeInv, FlightSlave
  <2>3. StoreTypeOK' /\ LocalInv'
    BY <1>6, StoreKept, LocalKept DEF TypeInv, FlightSlave
  <2>4. QED BY <1>2, <2>2, <2>3 DEF TypeInv
<1>7. CASE FlightMaster(p, c)
  <2>1. \A d \in MasterMatch(c) : rows[d] \in Cached
    BY <1>1 DEF MasterMatch, Match
  <2>2. FlightInv' /\ ReaderInv'
    BY <1>1, <1>7, <2>1, FlightReturnType, FlightGotoType, ReaderKept DEF TypeInv, FlightMaster
  <2>3. StoreTypeOK' /\ LocalInv'
    BY <1>7, StoreKept, LocalKept DEF TypeInv, FlightMaster
  <2>4. QED BY <1>2, <2>2, <2>3 DEF TypeInv
<1>8. CASE FlightSet(p, c)
  <2>1. FlightInv'
    BY <1>1, <1>8, FlightGotoType DEF TypeInv, FlightSet
  <2>2. StoreTypeOK'
    BY <1>1, <1>8, LinkWrite, StoreKept DEF TypeInv, FlightSet
  <2>3. LocalInv' /\ ReaderInv'
    BY <1>8, LocalKept, ReaderKept DEF TypeInv, FlightSet
  <2>4. QED BY <1>2, <2>1, <2>2, <2>3 DEF TypeInv
<1>9. CASE FlightFill(p, c)
  <2>1. FlightInv' /\ ReaderInv'
    BY <1>1, <1>9, FlightReturnType DEF TypeInv, FlightFill
  <2>2. StoreTypeOK'
    BY <1>9, StoreKept DEF TypeInv, FlightFill
  <2>3. LocalInv'
    BY <1>1, <1>9 DEF TypeInv, LocalInv, FlightFill
  <2>4. QED BY <1>2, <2>1, <2>2, <2>3 DEF TypeInv
<1>10. QED BY <1>3, <1>4, <1>5, <1>6, <1>7, <1>8, <1>9 DEF Flight

----------------------------------------------------------------------------
(* RebuildBloom, the consumer, the local caches and restarts *)

(* A page of the rebuild, or its end, keeps the invariant.                  *)
LEMMA RebuildScanType ==
  ASSUME TypeInv, NEW p \in Pod, RebuildScan(p)
  PROVE  TypeInv'
<1>1. /\ StoreTypeOK' /\ LocalInv' /\ FlightInv' /\ SyncInv' /\ CreatorInv'
      /\ ReaderInv' /\ HistoryInv'
  BY StoreKept, LocalKept, FlightKept, SyncKept, CreatorKept, ReaderKept, HistoryKept
  DEF TypeInv, RebuildScan
<1>2. rb[p] \in RebuildState
  BY DEF TypeInv, RebuildInv
<1>3. RebuildInv'
  <2>1. ASSUME NEW page \in SUBSET Code,
               rb' = [rb EXCEPT ![p].pc = "write", ![p].batch = page], UNCHANGED ready
        PROVE  RebuildInv'
    BY <1>2, <2>1 DEF TypeInv, RebuildInv, RebuildState
  <2>2. ASSUME rb' = [rb EXCEPT ![p].pc = "done"], ready' = [ready EXCEPT ![p] = TRUE]
        PROVE  RebuildInv'
    BY <1>2, <2>2 DEF TypeInv, RebuildInv, RebuildState
  <2>3. ASSUME rb' = [rb EXCEPT ![p].pc = "failed"], UNCHANGED ready
        PROVE  RebuildInv'
    BY <1>2, <2>3 DEF TypeInv, RebuildInv, RebuildState
  <2>4. QED BY <2>1, <2>2, <2>3 DEF RebuildScan
<1>4. QED BY <1>1, <1>3 DEF TypeInv

(* Setting the bits of a page keeps the invariant.                          *)
LEMMA RebuildWriteType ==
  ASSUME TypeInv, NEW p \in Pod, RebuildWrite(p)
  PROVE  TypeInv'
<1>1. /\ LocalInv' /\ FlightInv' /\ SyncInv' /\ CreatorInv' /\ ReaderInv'
      /\ HistoryInv'
  BY LocalKept, FlightKept, SyncKept, CreatorKept, ReaderKept, HistoryKept
  DEF TypeInv, RebuildWrite
<1>2. rb[p] \in RebuildState /\ rb[p].batch \subseteq Code
  BY DEF TypeInv, RebuildInv, RebuildState
<1>3. StoreTypeOK'
  BY <1>2, BloomWrite DEF TypeInv, RebuildWrite
<1>4. RebuildInv'
  <2>1. ASSUME NEW m \in Code,
               rb' = [rb EXCEPT ![p].pc = "scan", ![p].cursor = m, ![p].batch = {}]
        PROVE  RebuildInv'
    <3>1. m \in Nat
      BY CodeAssumption
    <3>2. [rb[p] EXCEPT !.pc = "scan", !.cursor = m, !.batch = {}] \in RebuildState
      BY <1>2, <3>1 DEF RebuildState
    <3>3. QED BY <2>1, <3>2 DEF TypeInv, RebuildInv, RebuildWrite
  <2>2. ASSUME rb' = [rb EXCEPT ![p].pc = "failed", ![p].batch = {}]
        PROVE  RebuildInv'
    BY <1>2, <2>2 DEF TypeInv, RebuildInv, RebuildState, RebuildWrite
  <2>3. QED BY <1>2, <2>1, <2>2 DEF RebuildWrite
<1>5. QED BY <1>1, <1>3, <1>4 DEF TypeInv

(* The steps of handleMessage keep the invariant.                           *)
LEMMA SyncType ==
  ASSUME TypeInv, NEW p \in Pod,
         (\E m \in Code \X URL : SyncStart(p, m)) \/ SyncPipe(p) \/ SyncPipeFail(p) \/ SyncFill(p)
  PROVE  TypeInv'
<1>1. RebuildInv' /\ FlightInv' /\ CreatorInv' /\ ReaderInv' /\ HistoryInv'
  BY RebuildKept, FlightKept, CreatorKept, ReaderKept, HistoryKept
  DEF TypeInv, SyncStart, SyncPipe, SyncPipeFail, SyncFill
<1>2. sync[p] \in SyncState /\ SyncOK(sync[p])
  BY DEF TypeInv, SyncInv
<1>3. ASSUME NEW m \in Code \X URL, SyncStart(p, m)
      PROVE  TypeInv'
  <2> DEFINE x == [pc |-> "pipe", code |-> m[1], url |-> m[2], todo |-> Commands, tries |-> 0]
  <2>1. SyncOK(x)
    BY AttemptAssumption DEF SyncOK, SyncState
  <2>2. SyncInv'
    BY <1>3, <2>1, SyncWrite DEF SyncStart, TypeInv
  <2>3. StoreTypeOK' /\ LocalInv'
    BY <1>3, StoreKept, LocalKept DEF SyncStart, TypeInv
  <2>4. QED BY <1>1, <2>2, <2>3 DEF TypeInv
<1>4. CASE SyncPipe(p)
  <2>1. PICK cmd \in sync[p].todo :
          /\ Execute(cmd, sync[p].code, sync[p].url)
          /\ sync' = [sync EXCEPT ![p].todo = @ \ {cmd}]
    BY <1>4 DEF SyncPipe
  <2> DEFINE x == [sync[p] EXCEPT !.todo = @ \ {cmd}]
  <2>2. SyncOK(x)
    BY <1>2 DEF SyncOK, SyncState
  <2>3. SyncInv'
    BY <2>1, <2>2, SyncWrite DEF TypeInv
  <2>4. StoreTypeOK'
    BY <1>2, <1>4, <2>1, CommandWrite DEF SyncOK, SyncPipe, TypeInv
  <2>5. LocalInv'
    BY <1>4, LocalKept DEF SyncPipe, TypeInv
  <2>6. QED BY <1>1, <2>3, <2>4, <2>5 DEF TypeInv
<1>5. CASE SyncPipeFail(p)
  <2> DEFINE x == [sync[p] EXCEPT !.todo = Commands, !.tries = @ + 1]
  <2>1. ASSUME MayRetry(sync[p].tries), sync' = [sync EXCEPT ![p] = x]
        PROVE  SyncInv'
    <3>1. sync[p].tries + 1 \in 0 .. MaxAttempts - 1
      BY <1>2, <2>1, AttemptAssumption DEF SyncState, MayRetry
    <3>2. SyncOK(x)
      BY <1>2, <3>1 DEF SyncOK, SyncState
    <3>3. QED BY <2>1, <3>2, SyncWrite DEF TypeInv
  <2>2. ASSUME sync' = [sync EXCEPT ![p] = IdleSync]
        PROVE  SyncInv'
    BY <2>2, IdleSyncOK, SyncWrite DEF TypeInv
  <2>3. StoreTypeOK' /\ LocalInv'
    BY <1>5, StoreKept, LocalKept DEF SyncPipeFail, TypeInv
  <2>4. SyncInv'
    BY <1>5, <2>1, <2>2 DEF SyncPipeFail
  <2>5. QED BY <1>1, <2>3, <2>4 DEF TypeInv
<1>6. CASE SyncFill(p)
  <2>1. sync[p].code \in Code /\ sync[p].url \in URL
    BY <1>2, <1>6 DEF SyncFill, SyncOK
  <2>2. SyncInv'
    BY <1>6, IdleSyncOK, SyncWrite DEF SyncFill, TypeInv
  <2>3. StoreTypeOK'
    BY <1>6 DEF SyncFill, TypeInv, StoreTypeOK
  <2>4. LocalInv'
    BY <1>6, <2>1 DEF SyncFill, TypeInv, LocalInv, Cached
  <2>5. QED BY <1>1, <2>2, <2>3, <2>4 DEF TypeInv
<1>7. QED BY <1>3, <1>4, <1>5, <1>6

(* Expiry of the local caches keeps the invariant.                          *)
LEMMA ExpireType ==
  ASSUME TypeInv, NEW p \in Pod,
         (\E c \in Code : L1Expire(p, c)) \/ (\E u \in URL : HashL1Expire(p, u))
  PROVE  TypeInv'
<1>1. /\ StoreTypeOK' /\ RebuildInv' /\ FlightInv' /\ SyncInv' /\ CreatorInv'
      /\ ReaderInv' /\ HistoryInv'
  BY StoreKept, RebuildKept, FlightKept, SyncKept, CreatorKept, ReaderKept, HistoryKept
  DEF TypeInv, L1Expire, HashL1Expire
<1>2. ASSUME NEW c \in Code, L1Expire(p, c)
      PROVE  LocalInv'
  BY <1>2 DEF TypeInv, LocalInv, Cached, L1Expire
<1>3. ASSUME NEW u \in URL, HashL1Expire(p, u)
      PROVE  LocalInv'
  BY <1>3 DEF TypeInv, LocalInv, HashL1Expire
<1>4. QED BY <1>1, <1>2, <1>3 DEF TypeInv

(* The loss of a pod keeps the invariant.                                   *)
LEMMA PodRestartType ==
  ASSUME TypeInv, NEW p \in Pod, PodRestart(p)
  PROVE  TypeInv'
<1>1. StoreTypeOK' /\ HistoryInv'
  BY StoreKept, HistoryKept DEF TypeInv, PodRestart
<1>2. LocalInv'
  BY DEF TypeInv, LocalInv, Cached, PodRestart
<1>3. Rebuilding(Committed) \in RebuildState
  BY DEF Rebuilding, RebuildState, Committed
<1>4. RebuildInv'
  BY <1>3 DEF TypeInv, RebuildInv, PodRestart
<1>5. FlightInv'
  BY NoFlightOK DEF TypeInv, FlightInv, PodRestart
<1>6. SyncInv'
  BY IdleSyncOK, SyncWrite DEF TypeInv, PodRestart
<1>7. CreatorInv'
  BY IdleCreatorOK DEF TypeInv, CreatorInv, CreatorOK, PodRestart
<1>8. ReaderInv'
  <2>1. \A r \in Reader : ReaderOK(Answered(reader[r].code, Err))
    BY DEF TypeInv, ReaderInv, ReaderOK, ReaderState, Answered, Answer
  <2>2. QED BY <2>1 DEF TypeInv, ReaderInv, ReaderOK, PodRestart
<1>9. QED BY <1>1, <1>2, <1>4, <1>5, <1>6, <1>7, <1>8 DEF TypeInv

(* TTLs and replication keep the invariant.                                 *)
LEMMA StoreNextType ==
  ASSUME TypeInv, StoreNext, UNCHANGED podVars
  PROVE  TypeInv'
<1>1. /\ LocalInv' /\ RebuildInv' /\ FlightInv' /\ SyncInv' /\ CreatorInv'
      /\ ReaderInv' /\ HistoryInv'
  BY LocalKept, RebuildKept, FlightKept, SyncKept, CreatorKept, ReaderKept, HistoryKept
  DEF TypeInv, podVars
<1>2. StoreTypeOK'
  <2>1. ASSUME NEW n \in RedisNode, NEW c \in Code, LinkExpire(n, c)
        PROVE  StoreTypeOK'
    BY <2>1 DEF TypeInv, StoreTypeOK, LinkExpire, Cached
  <2>2. ASSUME NEW n \in RedisNode, NEW u \in URL, HashExpire(n, u)
        PROVE  StoreTypeOK'
    BY <2>2 DEF TypeInv, StoreTypeOK, HashExpire
  <2>3. ASSUME NEW n \in Replica, NEW c \in Code, LinkReplicate(n, c)
        PROVE  StoreTypeOK'
    BY <2>3 DEF TypeInv, StoreTypeOK, LinkReplicate, RedisNode
  <2>4. ASSUME NEW n \in Replica, NEW u \in URL, HashReplicate(n, u)
        PROVE  StoreTypeOK'
    BY <2>4 DEF TypeInv, StoreTypeOK, HashReplicate, RedisNode
  <2>5. ASSUME NEW s \in Slave, RowReplicate(s)
        PROVE  StoreTypeOK'
    BY <2>5 DEF TypeInv, StoreTypeOK, RowReplicate, Committed
  <2>6. ASSUME NEW n \in Replica, NEW c \in Code, LinkFailover(n, c)
        PROVE  StoreTypeOK'
    BY <2>6 DEF TypeInv, StoreTypeOK, LinkFailover, RedisNode
  <2>7. ASSUME NEW n \in Replica, NEW u \in URL, HashFailover(n, u)
        PROVE  StoreTypeOK'
    BY <2>7 DEF TypeInv, StoreTypeOK, HashFailover, RedisNode
  <2>8. QED BY <2>1, <2>2, <2>3, <2>4, <2>5, <2>6, <2>7 DEF StoreNext
<1>3. QED BY <1>1, <1>2 DEF TypeInv

(* A failover of the bitmap's node keeps the invariant.                     *)
LEMMA FailoverType ==
  ASSUME TypeInv, NEW lost \in SUBSET bloom, Failover(lost)
  PROVE  TypeInv'
<1>1. StoreTypeOK'
  BY DEF TypeInv, StoreTypeOK, Failover, BloomFailover, dbVars
<1>2. /\ LocalInv' /\ FlightInv' /\ SyncInv' /\ CreatorInv' /\ ReaderInv'
  BY LocalKept, FlightKept, SyncKept, CreatorKept, ReaderKept
  DEF TypeInv, Failover, l1Vars
<1>3. RebuildInv'
  BY DEF TypeInv, RebuildInv, RebuildState, Failover
<1>4. HistoryInv'
  BY DEF TypeInv, StoreTypeOK, HistoryInv, Failover
<1>5. QED BY <1>1, <1>2, <1>3, <1>4 DEF TypeInv

----------------------------------------------------------------------------
(* The initial states *)

(* The initial states are well typed. *)
LEMMA InitType == Init => TypeInv
<1> SUFFICES ASSUME Init PROVE TypeInv
  OBVIOUS
<1>1. StoreTypeOK
  BY DEF Init, StoreInit, StoreTypeOK, Cached, Committed
<1>2. LocalInv
  BY DEF Init, LocalInv, Cached
<1>3. Rebuilding(Committed) \in RebuildState
  BY DEF Rebuilding, RebuildState, Committed
<1>4. RebuildInv
  BY <1>3 DEF Init, RebuildInv
<1>5. FlightInv
  BY NoFlightOK DEF Init, FlightInv
<1>6. SyncInv
  BY IdleSyncOK DEF Init, SyncInv, SyncOK
<1>7. CreatorInv
  BY IdleCreatorOK DEF Init, CreatorInv, CreatorOK
<1>8. ReaderInv
  <2>1. ReaderOK(Answered(NoCode, Miss))
    BY DEF ReaderOK, ReaderState, Answered, Answer
  <2>2. QED BY <2>1 DEF Init, ReaderInv, ReaderOK
<1>9. HistoryInv
  BY DEF Init, HistoryInv
<1>10. QED BY <1>1, <1>2, <1>4, <1>5, <1>6, <1>7, <1>8, <1>9 DEF TypeInv

(* Every step keeps the typing invariant. *)
LEMMA NextType == TypeInv /\ [Next]_vars => TypeInv'
<1> SUFFICES ASSUME TypeInv, [Next]_vars PROVE TypeInv'
  OBVIOUS
<1>1. ASSUME NEW k \in Creator, CreateStep(k)
      PROVE  TypeInv'
  BY <1>1, CreateRedisType, CreateFindType, CreateBackfillType, CreateReturnExistingType,
     CreateInsertType, CreateFillType, CreatePipeType, CreateReturnType
  DEF CreateStep
<1>2. CASE Next
  BY <1>1, <1>2, CreateStartType, CreatePipeFailType, RedirectStartType, RedirectDoType,
     FlightType, RebuildScanType, RebuildWriteType, SyncType, ExpireType, PodRestartType,
     StoreNextType, FailoverType
  DEF Next, Step
<1>3. CASE UNCHANGED vars
  BY <1>3, StoreKept, LocalKept, RebuildKept, FlightKept, SyncKept, CreatorKept,
     ReaderKept, HistoryKept
  DEF TypeInv, vars, podVars
<1>4. QED BY <1>2, <1>3

(* Type correctness: in every reachable state every cache, row, message and *)
(* request has the type its declaration promises, whatever the constants.   *)
THEOREM TypeInvariant == Spec => []TypeInv
<1>1. QED BY InitType, NextType, PTL DEF Spec

(* Every reachable state is well typed (TypeOK), for all values of the constants. *)
THEOREM TypeCorrect == Spec => []TypeOK
<1>1. QED BY TypeInvariant, TypeInvImplies, PTL

----------------------------------------------------------------------------
(* CallsHaveWaiters *)

(* A step that touches neither calls nor requests keeps it.                 *)
LEMMA CallsKept == CallsHaveWaiters /\ UNCHANGED <<flight, reader>> => CallsHaveWaiters'
  BY DEF CallsHaveWaiters, WaitsFor

(* A request that arrives does not wait yet. *)
LEMMA RedirectStartCalls ==
  ASSUME TypeInv, CallsHaveWaiters, NEW r \in Reader, NEW p \in Pod, NEW c \in Code,
         RedirectStart(r, p, c)
  PROVE  CallsHaveWaiters'
<1>1. reader[r].pc # "wait" /\ reader'[r].pc # "wait" /\ UNCHANGED flight
  BY DEF RedirectStart, Answered, TypeInv, ReaderInv
<1>2. \A s \in Reader \ {r} : reader'[s] = reader[s]
  BY DEF RedirectStart, TypeInv, ReaderInv
<1>3. \A s \in Reader, q \in Pod, d \in Code : WaitsFor(s, q, d)' <=> WaitsFor(s, q, d)
  BY <1>1, <1>2 DEF WaitsFor
<1>4. QED BY <1>1, <1>3 DEF CallsHaveWaiters

(* It joins the call of its code, or starts one.                            *)
LEMMA RedirectDoCalls ==
  ASSUME TypeInv, CallsHaveWaiters, NEW r \in Reader, RedirectDo(r)
  PROVE  CallsHaveWaiters'
<1>1. reader[r] \in ReaderState /\ reader[r].pc = "do"
  BY DEF TypeInv, ReaderInv, RedirectDo
<1>2. PICK p \in Pod, c \in Code : reader[r].pod = p /\ reader[r].code = c
  BY DEF TypeInv, ReaderInv, ReaderOK, RedirectDo
<1>3. WaitsFor(r, p, c)'
  BY <1>1, <1>2 DEF WaitsFor, RedirectDo, TypeInv, ReaderInv, ReaderState
<1>4. \A s \in Reader \ {r} : reader'[s] = reader[s]
  BY DEF RedirectDo, TypeInv, ReaderInv
<1>5. flight'[p][c].pc # "none"
  BY <1>2 DEF RedirectDo, TypeInv, FlightInv, FlightState
<1>6. \A q \in Pod, d \in Code : ~(q = p /\ d = c) => flight'[q][d] = flight[q][d]
  BY <1>2 DEF RedirectDo, TypeInv, FlightInv
<1>7. ASSUME NEW q \in Pod, NEW d \in Code, ~(q = p /\ d = c), NEW s \in Reader
      PROVE  WaitsFor(s, q, d)' <=> WaitsFor(s, q, d)
  BY <1>1, <1>2, <1>3, <1>4, <1>7 DEF WaitsFor
<1>8. QED BY <1>3, <1>5, <1>6, <1>7 DEF CallsHaveWaiters

(* A call that moves on is still under way. *)
LEMMA FlightGotoCalls ==
  ASSUME TypeInv, CallsHaveWaiters, NEW p \in Pod, NEW c \in Code, NEW pc, NEW v,
         flight[p][c].pc # "none", pc # "none", FlightGoto(p, c, pc, v), UNCHANGED reader
  PROVE  CallsHaveWaiters'
<1>1. flight'[p][c].pc # "none"
  BY DEF FlightGoto, TypeInv, FlightInv
<1>2. \A q \in Pod, d \in Code : ~(q = p /\ d = c) => flight'[q][d] = flight[q][d]
  BY DEF FlightGoto, TypeInv, FlightInv
<1>3. \A q \in Pod, d \in Code : flight'[q][d].pc # "none" <=> flight[q][d].pc # "none"
  BY <1>1, <1>2
<1>4. QED BY <1>3 DEF CallsHaveWaiters, WaitsFor

(* One that returns leaves nobody waiting. *)
LEMMA FlightReturnCalls ==
  ASSUME TypeInv, CallsHaveWaiters, NEW p \in Pod, NEW c \in Code, NEW v,
         FlightReturn(p, c, v)
  PROVE  CallsHaveWaiters'
<1>1. flight'[p][c].pc = "none"
  BY DEF FlightReturn, NoFlight, TypeInv, FlightInv
<1>2. \A q \in Pod, d \in Code : ~(q = p /\ d = c) => flight'[q][d] = flight[q][d]
  BY DEF FlightReturn, TypeInv, FlightInv
<1>3. ASSUME NEW r \in Reader
      PROVE  IF WaitsFor(r, p, c) THEN reader'[r].pc = "idle" ELSE reader'[r] = reader[r]
  BY DEF FlightReturn, Answered, WaitsFor
<1>4. \A r \in Reader : ~WaitsFor(r, p, c)'
  BY <1>3 DEF WaitsFor
<1>5. ASSUME NEW q \in Pod, NEW d \in Code, ~(q = p /\ d = c), NEW r \in Reader
      PROVE  WaitsFor(r, q, d)' <=> WaitsFor(r, q, d)
  BY <1>3, <1>5 DEF WaitsFor
<1>6. QED BY <1>1, <1>2, <1>4, <1>5 DEF CallsHaveWaiters

(* Every step of a call does one or the other. *)
LEMMA FlightCalls ==
  ASSUME TypeInv, CallsHaveWaiters, NEW p \in Pod, NEW c \in Code, Flight(p, c)
  PROVE  CallsHaveWaiters'
<1>1. flight[p][c].pc # "none"
  BY DEF Flight, FlightRecheck, FlightRedis, FlightBloom, FlightSlave, FlightMaster, FlightSet,
     FlightFill
<1>2. CASE FlightRecheck(p, c)
  BY <1>1, <1>2, FlightGotoCalls, FlightReturnCalls DEF FlightRecheck
<1>3. CASE FlightRedis(p, c) \/ FlightBloom(p, c)
  BY <1>1, <1>3, FlightGotoCalls DEF FlightRedis, FlightBloom
<1>4. CASE FlightSlave(p, c)
  BY <1>1, <1>4, FlightGotoCalls, FlightReturnCalls DEF FlightSlave
<1>5. CASE FlightMaster(p, c)
  BY <1>1, <1>5, FlightGotoCalls, FlightReturnCalls DEF FlightMaster
<1>6. CASE FlightSet(p, c)
  BY <1>1, <1>6, FlightGotoCalls DEF FlightSet
<1>7. CASE FlightFill(p, c)
  BY <1>7, FlightReturnCalls DEF FlightFill
<1>8. QED BY <1>2, <1>3, <1>4, <1>5, <1>6, <1>7 DEF Flight

(* A pod takes its calls and the requests that wait for them with it.       *)
LEMMA PodRestartCalls ==
  ASSUME TypeInv, CallsHaveWaiters, NEW p \in Pod, PodRestart(p)
  PROVE  CallsHaveWaiters'
<1>1. \A d \in Code : flight'[p][d].pc = "none"
  BY DEF PodRestart, NoFlight, TypeInv, FlightInv
<1>2. \A q \in Pod \ {p} : flight'[q] = flight[q]
  BY DEF PodRestart, TypeInv, FlightInv
<1>3. ASSUME NEW r \in Reader
      PROVE  IF reader[r].pod = p THEN reader'[r].pc = "idle" ELSE reader'[r] = reader[r]
  BY DEF PodRestart, Answered
<1>4. \A r \in Reader, d \in Code : ~WaitsFor(r, p, d)'
  BY <1>3 DEF WaitsFor
<1>5. \A r \in Reader, q \in Pod \ {p}, d \in Code : WaitsFor(r, q, d)' <=> WaitsFor(r, q, d)
  BY <1>3 DEF WaitsFor
<1>6. QED BY <1>1, <1>2, <1>4, <1>5 DEF CallsHaveWaiters

(* Every step keeps calls and waiters together. *)
LEMMA NextCalls == TypeInv /\ CallsHaveWaiters /\ [Next]_vars => CallsHaveWaiters'
<1> SUFFICES ASSUME TypeInv, CallsHaveWaiters, [Next]_vars PROVE CallsHaveWaiters'
  OBVIOUS
<1>1. ASSUME NEW k \in Creator, CreateStep(k) \/ CreatePipeFail(k)
      PROVE  UNCHANGED <<flight, reader>>
  BY <1>1 DEF CreateStep, CreateRedis, CreateFind, CreateBackfill, CreateReturnExisting,
     CreateInsert, CreateFill, CreatePipe, CreateReturn, CreatePipeFail
<1>2. ASSUME NEW p \in Pod,
             RebuildScan(p) \/ RebuildWrite(p) \/ SyncPipe(p) \/ SyncPipeFail(p) \/ SyncFill(p)
      PROVE  UNCHANGED <<flight, reader>>
  BY <1>2 DEF RebuildScan, RebuildWrite, SyncPipe, SyncPipeFail, SyncFill
<1>3. CASE Next
  BY <1>1, <1>2, <1>3, CallsKept, RedirectStartCalls, RedirectDoCalls, FlightCalls,
     PodRestartCalls
  DEF Next, Step, CreateStart, L1Expire, HashL1Expire, SyncStart, Failover, podVars
<1>4. CASE UNCHANGED vars
  BY <1>4, CallsKept DEF vars, podVars
<1>5. QED BY <1>3, <1>4

(* At the start there are no calls and nobody waits. *)
LEMMA InitCalls == Init => CallsHaveWaiters
  BY DEF Init, CallsHaveWaiters, WaitsFor, NoFlight, Answered

(* No request is left waiting without a call that will answer it, and no    *)
(* call outlives those who wait for it, for any number of pods, requests    *)
(* and restarts: the safety that EveryRequestAnswered rests on.             *)
THEOREM CallsAlwaysHaveWaiters == Spec => []CallsHaveWaiters
<1>1. QED BY TypeInvariant, InitCalls, NextCalls, PTL DEF Spec
============================================================================
