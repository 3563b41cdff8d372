----------------------------- MODULE ShortLink -----------------------------
(***************************************************************************)
(* ShortLinkService on several pods over one data tier: Create with its    *)
(* de-duplication chain, the outbox transaction and the write-through      *)
(* pipeline; Redirect with L1, singleflight, Redis, Bloom, read replica    *)
(* and master; RebuildBloom at start-up; and the cache sync consumer that  *)
(* every pod runs.  A step is one call to a cache, to Redis or to MySQL,   *)
(* or one in-memory section between two such calls.                        *)
(***************************************************************************)
EXTENDS Store

CONSTANTS
  Pod,         \* application instances
  Consumer,    \* the pods whose consumer still has its AMQP channel
  Creator,     \* concurrent Create requests
  Reader,      \* concurrent Redirect requests
  MaxAttempts  \* withRetry's maxAttempts

ASSUME AttemptAssumption == MaxAttempts \in Nat \ {0}
ASSUME PodAssumption == Pod # {} /\ "nopod" \notin Pod /\ Consumer \subseteq Pod

Err   == "err"    \* an error other than "short link does not exist"
NoPod == "nopod"

VARIABLES
  l1,       \* per pod, the local cache shortlink:{code} -> URL or ""
  hashL1,   \* per pod, the local reverse index urlhash:{md5} -> code
  ready,    \* per pod, bloomReady
  rb,       \* per pod, the RebuildBloom goroutine
  flight,   \* per pod and code, the singleflight call of resolveRedirect
  sync,     \* per pod, the message CacheSyncConsumer is handling
  creator,  \* Create requests
  reader,   \* Redirect requests
  issued,   \* history: per URL, the codes Create has returned
  early     \* history: codes looked up before they were Safe, or that no
            \* longer are since a failover has lost some of their bits

l1Vars  == <<l1, hashL1>>
rbVars  == <<ready, rb>>
history == <<issued, early>>
podVars == <<l1Vars, rbVars, flight, sync, creator, reader, history>>
vars == <<storeVars, podVars>>

Answer == URL \cup {Neg, Err, Miss}

(* A creator at `pc' that has not found or generated a code yet.            *)
Fresh(pc, p, u) ==
  [pc |-> pc, pod |-> p, url |-> u, code |-> NoCode, todo |-> {}, tries |-> 0]

IdleCreator == Fresh("idle", NoPod, Miss)

IdleSync == [pc |-> "idle", code |-> NoCode, url |-> Miss, todo |-> {}, tries |-> 0]

Answered(c, v) == [pc |-> "idle", pod |-> NoPod, code |-> c, res |-> v]

NoFlight == [pc |-> "none", val |-> Miss]

Rebuilding(pre) == [pc |-> "scan", cursor |-> 0, batch |-> {}, pre |-> pre]

RebuildState ==
  [pc : {"scan", "write", "done", "failed"}, cursor : Nat,
   batch : SUBSET Code, pre : SUBSET Code]

FlightState ==
  [pc : {"none", "recheck", "redis", "bloom", "slave", "master", "set", "fill"},
   val : Cached]

SyncState ==
  [pc : {"idle", "pipe"}, code : Code \cup {NoCode}, url : URL \cup {Miss},
   todo : SUBSET Commands, tries : 0 .. MaxAttempts - 1]

CreatorState ==
  [pc : {"idle", "failed", "redis", "find", "backfill", "return", "insert",
         "fill", "pipe"},
   pod : Pod \cup {NoPod}, url : URL \cup {Miss}, code : Code \cup {NoCode},
   todo : SUBSET Commands, tries : 0 .. MaxAttempts - 1]

ReaderState ==
  [pc : {"idle", "do", "wait"}, pod : Pod \cup {NoPod}, code : Code \cup {NoCode},
   res : Answer]

TypeOK ==
  /\ StoreTypeOK
  /\ l1 \in [Pod -> [Code -> Cached]]
  /\ hashL1 \in [Pod -> [URL -> Code \cup {NoCode}]]
  /\ ready \in [Pod -> BOOLEAN]
  /\ rb \in [Pod -> RebuildState]
  /\ flight \in [Pod -> [Code -> FlightState]]
  /\ sync \in [Pod -> SyncState]
  /\ creator \in [Creator -> CreatorState]
  /\ reader \in [Reader -> ReaderState]
  /\ issued \in [URL -> SUBSET Code]
  /\ early \subseteq Code

----------------------------------------------------------------------------
(* Safe(c): c is committed and no Bloom lookup should miss it, because its  *)
(* bits are set or every pod scans for it: each rebuild began after the     *)
(* commit, and set no bit of it that a failover has lost.                   *)
Safe(c) ==
  /\ c \in Committed
  /\ c \in bloom \/ \A p \in Pod : c \in rb[p].pre

----------------------------------------------------------------------------
(* Create *)

(* The local state of a creator after step k, and Create's two ways out.    *)
Goto(k, pc) == creator' = [creator EXCEPT ![k].pc = pc]

ReturnCode(k, u, c) ==
  /\ creator' = [creator EXCEPT ![k] = IdleCreator]
  /\ issued' = [issued EXCEPT ![u] = @ \cup {c}]

ReturnError(k) ==
  /\ creator' = [creator EXCEPT ![k] = Fresh("failed", NoPod, creator[k].url)]
  /\ UNCHANGED issued

(* The request arrives at pod p and consults the local reverse index.       *)
CreateStart(k, p, u) ==
  /\ creator[k].pc \in {"idle", "failed"}
  /\ \/ /\ hashL1[p][u] # NoCode
        /\ ReturnCode(k, u, hashL1[p][u])
     \/ /\ hashL1[p][u] = NoCode
        /\ creator' = [creator EXCEPT ![k] = Fresh("redis", p, u)]
        /\ UNCHANGED issued
  /\ UNCHANGED <<storeVars, l1Vars, rbVars, flight, sync, reader, early>>

(* GET urlhash: a hit fills the local index; a miss and an error go on.     *)
CreateRedis(k) ==
  LET p == creator[k].pod  u == creator[k].url IN
  /\ creator[k].pc = "redis"
  /\ \/ \E n \in RedisNode :
          /\ hash[n][u] # NoCode
          /\ hashL1' = [hashL1 EXCEPT ![p][u] = hash[n][u]]
          /\ ReturnCode(k, u, hash[n][u])
     \/ /\ "redis" \in Faults \/ \E n \in RedisNode : hash[n][u] = NoCode
        /\ Goto(k, "find")
        /\ UNCHANGED <<hashL1, issued>>
  /\ UNCHANGED <<storeVars, l1, rbVars, flight, sync, reader, early>>

(* SELECT short_code WHERE long_url_hash on the master.                     *)
CreateFind(k) ==
  /\ creator[k].pc = "find"
  /\ \/ \E c \in Committed :
          /\ rows[c] = creator[k].url
          /\ creator' = [creator EXCEPT ![k].pc = "backfill", ![k].code = c]
          /\ UNCHANGED issued
     \/ /\ \A c \in Committed : rows[c] # creator[k].url
        /\ Goto(k, "insert") /\ UNCHANGED issued
     \/ "db" \in Faults /\ ReturnError(k)
  /\ UNCHANGED <<storeVars, l1Vars, rbVars, flight, sync, reader, early>>

(* The code exists: SET urlhash, its failure is only logged.                *)
CreateBackfill(k) ==
  /\ creator[k].pc = "backfill"
  /\ \/ SetHash(creator[k].url, creator[k].code)
     \/ "redis" \in Faults /\ UNCHANGED hash
  /\ Goto(k, "return")
  /\ UNCHANGED <<dbVars, link, bloom, l1Vars, rbVars, flight, sync, reader, history>>

CreateReturnExisting(k) ==
  LET p == creator[k].pod  u == creator[k].url  c == creator[k].code IN
  /\ creator[k].pc = "return"
  /\ hashL1' = [hashL1 EXCEPT ![p][u] = c]
  /\ ReturnCode(k, u, c)
  /\ UNCHANGED <<storeVars, l1, rbVars, flight, sync, reader, early>>

(* Generate and the transaction.  The id is whatever Generate answers; a    *)
(* duplicate key rolls back; an error of Begin, INSERT or COMMIT leaves     *)
(* nothing behind, or a commit whose acknowledgement was lost.              *)
CreateInsert(k) ==
  LET u == creator[k].url IN
  /\ creator[k].pc = "insert"
  /\ \E c \in Code :
       \/ /\ CommitTx(c, u)
          /\ \/ /\ creator' = [creator EXCEPT ![k].pc = "fill", ![k].code = c]
                /\ UNCHANGED issued
             \/ "db" \in Faults /\ ReturnError(k)
       \/ /\ Conflicts(c, u) \/ "db" \in Faults
          /\ ReturnError(k)
          /\ UNCHANGED dbVars
  /\ UNCHANGED <<redisVars, l1Vars, rbVars, flight, sync, reader, early>>

(* Both local caches, then the write-through pipeline starts.               *)
CreateFill(k) ==
  LET p == creator[k].pod  u == creator[k].url  c == creator[k].code IN
  /\ creator[k].pc = "fill"
  /\ l1' = [l1 EXCEPT ![p][c] = u]
  /\ hashL1' = [hashL1 EXCEPT ![p][u] = c]
  /\ creator' = [creator EXCEPT ![k].pc = "pipe", ![k].todo = Commands]
  /\ UNCHANGED <<storeVars, rbVars, flight, sync, reader, history>>

(* The commands of one pipeline go to different slots, in any order.        *)
CreatePipe(k) ==
  /\ creator[k].pc = "pipe"
  /\ \E cmd \in creator[k].todo :
       /\ Execute(cmd, creator[k].code, creator[k].url)
       /\ creator' = [creator EXCEPT ![k].todo = @ \ {cmd}]
  /\ UNCHANGED <<dbVars, l1Vars, rbVars, flight, sync, reader, history>>

(* Mutant: the retry loop runs one attempt too many.                        *)
RetryOnceMore(tries) == tries <= MaxAttempts - 1

(* withRetry: is there another attempt after the one numbered `tries'?      *)
MayRetry(tries) == tries < MaxAttempts - 1

(* Exec fails: the whole pipeline again, or (attempts used up, or the       *)
(* context cancelled while backing off) the failure is logged and Create    *)
(* still returns the code.                                                  *)
CreatePipeFail(k) ==
  /\ creator[k].pc = "pipe"
  /\ "redis" \in Faults
  /\ \/ /\ MayRetry(creator[k].tries)
        /\ creator' = [creator EXCEPT ![k].todo = Commands, ![k].tries = @ + 1]
        /\ UNCHANGED issued
     \/ ReturnCode(k, creator[k].url, creator[k].code)
  /\ UNCHANGED <<storeVars, l1Vars, rbVars, flight, sync, reader, early>>

CreateReturn(k) ==
  /\ creator[k].pc = "pipe" /\ creator[k].todo = {}
  /\ ReturnCode(k, creator[k].url, creator[k].code)
  /\ UNCHANGED <<storeVars, l1Vars, rbVars, flight, sync, reader, early>>

----------------------------------------------------------------------------
(* Redirect *)

(* A lookup of c begins now.                                                *)
NoteLookup(c) == early' = IF Safe(c) THEN early ELSE early \cup {c}

(* The request arrives at pod p and consults L1.                            *)
RedirectStart(r, p, c) ==
  /\ reader[r].pc = "idle"
  /\ NoteLookup(c)
  /\ reader' = [reader EXCEPT ![r] =
        IF l1[p][c] = Miss
        THEN [pc |-> "do", pod |-> p, code |-> c, res |-> Miss]
        ELSE Answered(c, l1[p][c])]
  /\ UNCHANGED <<storeVars, l1Vars, rbVars, flight, sync, creator, issued>>

(* singleflight.Do: join the call under way for this code, or start one.    *)
RedirectDo(r) ==
  LET p == reader[r].pod  c == reader[r].code IN
  /\ reader[r].pc = "do"
  /\ reader' = [reader EXCEPT ![r].pc = "wait"]
  /\ flight' = IF flight[p][c].pc = "none"
               THEN [flight EXCEPT ![p][c].pc = "recheck"]
               ELSE flight
  /\ UNCHANGED <<storeVars, l1Vars, rbVars, sync, creator, history>>

FlightGoto(p, c, pc, v) == flight' = [flight EXCEPT ![p][c] = [pc |-> pc, val |-> v]]

(* Mutant: only one of the waiters is woken. *)
FlightReturnToOne(p, c, v) ==
  /\ flight' = [flight EXCEPT ![p][c] = NoFlight]
  /\ \E r \in Reader :
       /\ reader[r].pc = "wait" /\ reader[r].pod = p /\ reader[r].code = c
       /\ reader' = [reader EXCEPT ![r] = Answered(c, v)]

(* The call returns v: singleflight forgets it and every waiter gets v.     *)
FlightReturn(p, c, v) ==
  /\ flight' = [flight EXCEPT ![p][c] = NoFlight]
  /\ reader' = [r \in Reader |->
       IF reader[r].pc = "wait" /\ reader[r].pod = p /\ reader[r].code = c
       THEN Answered(c, v)
       ELSE reader[r]]

(* The double check of L1 inside the call.                                  *)
FlightRecheck(p, c) ==
  /\ flight[p][c].pc = "recheck"
  /\ \/ l1[p][c] # Miss /\ FlightReturn(p, c, l1[p][c])
     \/ l1[p][c] = Miss /\ FlightGoto(p, c, "redis", Miss) /\ UNCHANGED reader
  /\ UNCHANGED <<storeVars, l1Vars, rbVars, sync, creator, history>>

(* GET shortlink: a hit, the empty string included, is copied to L1; a miss *)
(* and an error go on.                                                      *)
FlightRedis(p, c) ==
  /\ flight[p][c].pc = "redis"
  /\ \/ \E n \in RedisNode :
          link[n][c] # Miss /\ FlightGoto(p, c, "fill", link[n][c])
     \/ /\ "redis" \in Faults \/ \E n \in RedisNode : link[n][c] = Miss
        /\ FlightGoto(p, c, "bloom", Miss)
  /\ UNCHANGED <<storeVars, l1Vars, rbVars, sync, creator, reader, history>>

(* Mutant: the Bloom filter is consulted while it is being rebuilt.         *)
RejectWhileRebuilding(p, c) == ContainsFalse(c)

(* The Bloom filter rejects c: it is ready and Contains answers FALSE.      *)
BloomRejects(p, c) == ready[p] /\ ContainsFalse(c)

(* A rejection is remembered in L1 only.  An unready filter, an error of    *)
(* Contains, a positive and a false positive all let the lookup pass.       *)
FlightBloom(p, c) ==
  /\ flight[p][c].pc = "bloom"
  /\ \/ BloomRejects(p, c) /\ FlightGoto(p, c, "fill", Neg)
     \/ FlightGoto(p, c, "slave", Miss)
  /\ UNCHANGED <<storeVars, l1Vars, rbVars, sync, creator, reader, history>>

(* The read replica; not found there means asking the master.               *)
FlightSlave(p, c) ==
  /\ flight[p][c].pc = "slave"
  /\ \/ \E view \in ReadViews :
          \/ /\ \E d \in Match(c, view) : FlightGoto(p, c, "set", rows[d])
             /\ UNCHANGED reader
          \/ /\ Match(c, view) = {}
             /\ FlightGoto(p, c, "master", Miss)
             /\ UNCHANGED reader
     \/ "db" \in Faults /\ FlightReturn(p, c, Err)
  /\ UNCHANGED <<storeVars, l1Vars, rbVars, sync, creator, history>>

(* The master decides: a row, or a negative entry to cache.                 *)
FlightMaster(p, c) ==
  /\ flight[p][c].pc = "master"
  /\ \/ /\ \E d \in MasterMatch(c) : FlightGoto(p, c, "set", rows[d])
        /\ UNCHANGED reader
     \/ /\ MasterMatch(c) = {}
        /\ FlightGoto(p, c, "set", Neg)
        /\ UNCHANGED reader
     \/ "db" \in Faults /\ FlightReturn(p, c, Err)
  /\ UNCHANGED <<storeVars, l1Vars, rbVars, sync, creator, history>>

(* SET shortlink to the value read, positive or "", possibly long after it  *)
(* was read; a failure is only logged.                                      *)
FlightSet(p, c) ==
  /\ flight[p][c].pc = "set"
  /\ SetLink(c, flight[p][c].val) \/ ("redis" \in Faults /\ UNCHANGED link)
  /\ FlightGoto(p, c, "fill", flight[p][c].val)
  /\ UNCHANGED <<dbVars, hash, bloom, l1Vars, rbVars, sync, creator, reader, history>>

(* L1 is filled and the call returns.                                       *)
FlightFill(p, c) ==
  /\ flight[p][c].pc = "fill"
  /\ l1' = [l1 EXCEPT ![p][c] = flight[p][c].val]
  /\ FlightReturn(p, c, flight[p][c].val)
  /\ UNCHANGED <<storeVars, hashL1, rbVars, sync, creator, history>>

Flight(p, c) ==
  \/ FlightRecheck(p, c) \/ FlightRedis(p, c) \/ FlightBloom(p, c)
  \/ FlightSlave(p, c) \/ FlightMaster(p, c) \/ FlightSet(p, c)
  \/ FlightFill(p, c)

----------------------------------------------------------------------------
(* RebuildBloom *)

(* One page is read from the master; an empty one makes the filter ready;   *)
(* an error ends the goroutine, and the filter stays unused.                *)
RebuildScan(p) ==
  /\ rb[p].pc = "scan"
  /\ \/ \E page \in SUBSET Code :
          /\ IsPage(page, rb[p].cursor)
          /\ rb' = [rb EXCEPT ![p].pc = "write", ![p].batch = page]
          /\ UNCHANGED ready
     \/ /\ After(rb[p].cursor) = {}
        /\ rb' = [rb EXCEPT ![p].pc = "done"]
        /\ ready' = [ready EXCEPT ![p] = TRUE]
     \/ /\ "db" \in Faults
        /\ rb' = [rb EXCEPT ![p].pc = "failed"]
        /\ UNCHANGED ready
  /\ UNCHANGED <<storeVars, l1Vars, flight, sync, creator, reader, history>>

(* lastID := the last id of the page.                                       *)
IsLast(m, page) == m \in page /\ \A c \in page : c <= m

(* The bits of the page are set by one pipeline; a failure may set some.    *)
RebuildWrite(p) ==
  /\ rb[p].pc = "write"
  /\ \/ /\ AddBloom(rb[p].batch)
        /\ \E m \in rb[p].batch :
             /\ IsLast(m, rb[p].batch)
             /\ rb' = [rb EXCEPT ![p].pc = "scan", ![p].cursor = m, ![p].batch = {}]
     \/ /\ "redis" \in Faults
        /\ \E part \in SUBSET rb[p].batch : AddBloom(part)
        /\ rb' = [rb EXCEPT ![p].pc = "failed", ![p].batch = {}]
  /\ UNCHANGED <<dbVars, link, hash, ready, l1Vars, flight, sync, creator, reader, history>>

----------------------------------------------------------------------------
(* CacheSyncConsumer.handleMessage *)

SyncStart(p, m) ==
  /\ p \in Consumer /\ sync[p].pc = "idle"
  /\ m \in outbox
  /\ sync' = [sync EXCEPT ![p] = [pc |-> "pipe", code |-> m[1], url |-> m[2],
                                  todo |-> Commands, tries |-> 0]]
  /\ UNCHANGED <<storeVars, l1Vars, rbVars, flight, creator, reader, history>>

SyncPipe(p) ==
  /\ sync[p].pc = "pipe"
  /\ \E cmd \in sync[p].todo :
       /\ Execute(cmd, sync[p].code, sync[p].url)
       /\ sync' = [sync EXCEPT ![p].todo = @ \ {cmd}]
  /\ UNCHANGED <<dbVars, l1Vars, rbVars, flight, creator, reader, history>>

(* Exec fails: another attempt, or the message goes back to the queue.      *)
SyncPipeFail(p) ==
  /\ sync[p].pc = "pipe"
  /\ "redis" \in Faults
  /\ \/ /\ MayRetry(sync[p].tries)
        /\ sync' = [sync EXCEPT ![p].todo = Commands, ![p].tries = @ + 1]
     \/ sync' = [sync EXCEPT ![p] = IdleSync]
  /\ UNCHANGED <<storeVars, l1Vars, rbVars, flight, creator, reader, history>>

(* Both local caches, then the acknowledgement; the broker or a second      *)
(* publication may deliver the message again.                               *)
SyncFill(p) ==
  LET c == sync[p].code  u == sync[p].url IN
  /\ sync[p].pc = "pipe" /\ sync[p].todo = {}
  /\ l1' = [l1 EXCEPT ![p][c] = u]
  /\ hashL1' = [hashL1 EXCEPT ![p][u] = c]
  /\ sync' = [sync EXCEPT ![p] = IdleSync]
  /\ outbox' \in {outbox, outbox \ {<<c, u>>}}
  /\ UNCHANGED <<rows, replicated, redisVars, rbVars, flight, creator, reader, history>>

----------------------------------------------------------------------------
(* TTL and eviction of the local caches, and the loss of a pod.             *)

L1Expire(p, c) ==
  /\ "l1" \in Expiring /\ l1[p][c] # Miss
  /\ l1' = [l1 EXCEPT ![p][c] = Miss]
  /\ UNCHANGED <<storeVars, hashL1, rbVars, flight, sync, creator, reader, history>>

HashL1Expire(p, u) ==
  /\ "hashL1" \in Expiring /\ hashL1[p][u] # NoCode
  /\ hashL1' = [hashL1 EXCEPT ![p][u] = NoCode]
  /\ UNCHANGED <<storeVars, l1, rbVars, flight, sync, creator, reader, history>>

(* All local state goes; requests fail; a message in hand is redelivered;   *)
(* the new process starts its own rebuild.                                  *)
PodRestart(p) ==
  /\ "restart" \in Faults
  /\ l1' = [l1 EXCEPT ![p] = [c \in Code |-> Miss]]
  /\ hashL1' = [hashL1 EXCEPT ![p] = [u \in URL |-> NoCode]]
  /\ ready' = [ready EXCEPT ![p] = FALSE]
  /\ rb' = [rb EXCEPT ![p] = Rebuilding(Committed)]
  /\ flight' = [flight EXCEPT ![p] = [c \in Code |-> NoFlight]]
  /\ sync' = [sync EXCEPT ![p] = IdleSync]
  /\ creator' = [k \in Creator |->
       IF creator[k].pod = p THEN IdleCreator ELSE creator[k]]
  /\ reader' = [r \in Reader |->
       IF reader[r].pod = p THEN Answered(reader[r].code, Err)
       ELSE reader[r]]
  /\ UNCHANGED <<storeVars, history>>

(* The Redis node of the Bloom bitmap fails over.  No pod notices: a filter *)
(* that is ready stays so, and a rebuild goes on from its cursor.           *)
Failover(lost) ==
  /\ BloomFailover(lost)
  /\ rb' = [p \in Pod |-> [rb[p] EXCEPT !.pre = @ \ lost]]
  /\ early' = early \cup lost
  /\ UNCHANGED <<l1Vars, ready, flight, sync, creator, reader, issued>>

----------------------------------------------------------------------------
Init ==
  /\ StoreInit
  /\ l1 = [p \in Pod |-> [c \in Code |-> Miss]]
  /\ hashL1 = [p \in Pod |-> [u \in URL |-> NoCode]]
  /\ ready = [p \in Pod |-> FALSE]
  /\ rb = [p \in Pod |-> Rebuilding(Committed)]
  /\ flight = [p \in Pod |-> [c \in Code |-> NoFlight]]
  /\ sync = [p \in Pod |-> IdleSync]
  /\ creator = [k \in Creator |-> IdleCreator]
  /\ reader = [r \in Reader |-> Answered(NoCode, Miss)]
  /\ issued = [u \in URL |-> {}]
  /\ early = {}

CreateStep(k) ==
  \/ CreateRedis(k) \/ CreateFind(k) \/ CreateBackfill(k)
  \/ CreateReturnExisting(k) \/ CreateInsert(k) \/ CreateFill(k)
  \/ CreatePipe(k) \/ CreateReturn(k)

Step ==
  \/ \E k \in Creator, p \in Pod, u \in URL : CreateStart(k, p, u)
  \/ \E k \in Creator : CreateStep(k) \/ CreatePipeFail(k)
  \/ \E r \in Reader, p \in Pod, c \in Code : RedirectStart(r, p, c)
  \/ \E r \in Reader : RedirectDo(r)
  \/ \E p \in Pod, c \in Code : Flight(p, c) \/ L1Expire(p, c)
  \/ \E p \in Pod, u \in URL : HashL1Expire(p, u)
  \/ \E p \in Pod : RebuildScan(p) \/ RebuildWrite(p)
  \/ \E p \in Pod, m \in Code \X URL : SyncStart(p, m)
  \/ \E p \in Pod : SyncPipe(p) \/ SyncPipeFail(p) \/ SyncFill(p)
  \/ \E p \in Pod : PodRestart(p)
  \/ StoreNext /\ UNCHANGED podVars

Next == Step \/ \E lost \in (SUBSET bloom) \ {{}} : Failover(lost)

Spec == Init /\ [][Next]_vars

(* Every goroutine that can take a step takes one; entries of L1 and of     *)
(* Redis have TTLs; the queue hands out each of its messages in turn.       *)
Fairness ==
  /\ \A k \in Creator : WF_vars(CreateStep(k))
  /\ \A r \in Reader : WF_vars(RedirectDo(r))
  /\ \A p \in Pod, c \in Code : WF_vars(Flight(p, c)) /\ WF_vars(L1Expire(p, c))
  /\ \A p \in Pod : WF_vars(RebuildScan(p)) /\ WF_vars(RebuildWrite(p))
  /\ \A m \in Code \X URL : SF_vars(\E p \in Pod : SyncStart(p, m))
  /\ \A p \in Pod : WF_vars(SyncPipe(p)) /\ WF_vars(SyncFill(p))
  /\ \A n \in RedisNode, c \in Code :
       WF_vars(LinkExpire(n, c) /\ UNCHANGED podVars)

FairSpec == Spec /\ Fairness

----------------------------------------------------------------------------
(* Properties *)

(* v is the URL that the table holds for c, under the collation.            *)
TrueTo(c, v) == \E d \in Committed : SameCode(c, d) /\ rows[d] = v

(* Every positive answer is the table's: whatever the order of commits,     *)
(* fills, expiries, retries and redeliveries, no cache, no lookup under way *)
(* and no reply to a client holds a URL that its code does not have, and no *)
(* reverse-index entry names a code of another URL.                         *)
CachesAgree ==
  /\ \A c \in Code, p \in Pod, n \in RedisNode :
       \A v \in {l1[p][c], link[n][c], flight[p][c].val} \cap URL : TrueTo(c, v)
  /\ \A r \in Reader : reader[r].res \in URL => TrueTo(reader[r].code, reader[r].res)
  /\ \A u \in URL, p \in Pod, n \in RedisNode :
       \A c \in {hashL1[p][u], hash[n][u]} \ {NoCode} : rows[c] = u

(* De-duplication: however many requests race through the caches, the       *)
(* unique index and lost acknowledgements, all the codes Create has ever    *)
(* returned for a URL are one code, and that code redirects to the URL.     *)
OneCodePerURL ==
  \A u \in URL : \A c, d \in issued[u] : c = d /\ rows[c] = u

(* A pod that consults its Bloom filter has set the bits of every code that *)
(* was committed when its rebuild began, however rows were inserted between *)
(* two pages (RebuildBloom, "no false 404 while scaling out"), and no pod   *)
(* but a failover of Redis has cleared any.                                 *)
RebuildCovers == \A p \in Pod : ready[p] => rb[p].pre \subseteq bloom

(* A negative entry for c, anywhere, and a 404 for c need a lookup of c     *)
(* that began before c was committed and covered by the Bloom filters, or a *)
(* Redis failover that has lost bits of c:                                  *)
(* replica lag, a stale singleflight call, a rebuild in progress or a pod   *)
(* restart alone never hide a link (shortlink.go:306, "only when the master *)
(* confirms").                                                              *)
NegSources(c) ==
  {l1[p][c] : p \in Pod} \cup {link[n][c] : n \in RedisNode}
  \cup {flight[p][c].val : p \in Pod}
  \cup {reader[r].res : r \in {q \in Reader : reader[q].code = c}}

NotFoundOnlyIfEarly == \A c \in Code : Neg \in NegSources(c) => c \in early

(* redirects.Do (shortlink.go:258): a Redirect that waits has a call under  *)
(* way on its pod for its code, and a call under way has somebody who waits *)
(* for it, whatever joins, returns and restarts come in between.            *)
WaitsFor(r, p, c) == reader[r].pc = "wait" /\ reader[r].pod = p /\ reader[r].code = c

CallsHaveWaiters ==
  \A p \in Pod, c \in Code :
    flight[p][c].pc # "none" <=> \E r \in Reader : WaitsFor(r, p, c)

(* No request hangs: every Create returns and every Redirect, leader of a   *)
(* singleflight call or joined to one, is answered.                         *)
EveryRequestAnswered ==
  /\ \A k \in Creator : creator[k].pc \notin {"idle", "failed"} ~>
                          creator[k].pc \in {"idle", "failed"}
  /\ \A r \in Reader : reader[r].pc # "idle" ~> reader[r].pc = "idle"

(* Write-through is best effort and the outbox consumer makes up for it     *)
(* (shortlink.go:171): a committed code that a Bloom lookup could miss,     *)
(* because the process that committed it died, failed or gave up before its *)
(* write-through, still has its message; no consumer has acknowledged it    *)
(* before the bits of the code were set.  Only for bits that a failover     *)
(* loses nobody is left to set them again.                                  *)
LostBits(c) == "failover" \in Faults /\ c \in early

RepairPending ==
  \A c \in Committed : Safe(c) \/ <<c, rows[c]>> \in outbox \/ LostBits(c)

(* Once c is committed, even with its write-through lost and negative       *)
(* entries cached by earlier lookups, a time comes after which nothing      *)
(* hides it: the outbox repairs the Bloom filter and every "" expires.      *)
Hidden(c) ==
  \/ \E p \in Pod : Neg \in {l1[p][c], flight[p][c].val}
  \/ \E n \in RedisNode : link[n][c] = Neg

(* And nothing hides it again: once no negative entry for a Safe code is    *)
(* left, neither a lookup that is under way, on a lagging replica or by a   *)
(* pod that is starting, nor a delayed SET, a retry, a promotion, lost bits *)
(* or a restart brings one back.                                            *)
StaysResolvable ==
  [][\A c \in Code : Safe(c) /\ ~Hidden(c) => ~Hidden(c)']_vars

EventuallyResolvable == \A c \in Code : c \in Committed ~> []~Hidden(c)

----------------------------------------------------------------------------
(* The whole system, seen by its clients, is a LinkService: pods, caches,   *)
(* messages, retries and restarts are invisible in the table, in the codes  *)
(* handed out and in every answer.                                          *)
Client == INSTANCE LinkService WITH
  Free <- Miss, NotFound <- Neg, Error <- Err,
  reply <- [r \in Reader |-> [code |-> reader[r].code, res |-> reader[r].res]],
  settled <- {c \in Code : Safe(c)}

ImplementsLinkService == Client!Spec

----------------------------------------------------------------------------
(* What comments and documents promise, and the code does not keep.         *)

(* internal/api/README.md:17: a code that does not exist is answered 404.   *)
OnlyExistingCodesRedirect ==
  \A r \in Reader : reader[r].res \in URL => reader[r].code \in Committed
============================================================================
