------------------------------- MODULE Store -------------------------------
(***************************************************************************)
(* The shared data tier of the short link service, as the Go code in       *)
(* src/internal/repository uses it: the MySQL table short_links (master    *)
(* and read replicas), the outbox as a source of at-least-once messages,   *)
(* and Redis (positive/negative cache, reverse index, Bloom bitmap).       *)
(*                                                                         *)
(* A short code and the Snowflake id it encodes are identified: Base62 is  *)
(* injective on ids, and the order of ids is the order of Code.  MD5 is    *)
(* taken to be injective, so urlhash:{md5(u)} is the key u.                *)
(***************************************************************************)
EXTENDS Integers, FiniteSets

CONSTANTS
  URL,       \* long URLs
  Code,      \* short codes = ids
  Legacy,    \* codes that may be in the table before the pods start
  Fold,      \* MySQL compares short_code through this collation key
  Slave,     \* MySQL read replicas
  Replica,   \* Redis replicas; GETs may be routed to them
  BatchSize, \* page length of the Bloom rebuild
  Faults,    \* which failures happen: a subset of FaultKinds
  Expiring   \* the caches whose entries expire: a subset of CacheKinds

Neg    == "neg"    \* the cached empty string: "no such short link"
Miss   == "miss"   \* the key is absent
NoCode == 0        \* no entry in the reverse index
Primary == "primary"
FaultKinds == {"redis", "db", "restart", "failover"}

CacheKinds == {"link", "hash", "l1", "hashL1"}

ASSUME UrlAssumption   == URL \cap {Neg, Miss, "err"} = {}
ASSUME CodeAssumption  == Code \subseteq Nat \ {0}
ASSUME LegacyAssumption == Legacy \subseteq Code
ASSUME FoldAssumption  == Fold \in [Code -> Code]
ASSUME ReplicaAssumption == Primary \notin Replica
ASSUME BatchAssumption == BatchSize \in Nat \ {0}
ASSUME FaultAssumption == Faults \subseteq FaultKinds
ASSUME ExpiryAssumption == Expiring \subseteq CacheKinds

VARIABLES
  rows,        \* master table: short code -> long URL
  outbox,      \* messages <<code, url>> that may still be delivered
  replicated,  \* per read replica, the rows it has applied
  link,        \* per Redis node, shortlink:{code}
  hash,        \* per Redis node, urlhash:{md5}
  bloom        \* codes whose bits are all set in the Bloom bitmap

dbVars    == <<rows, outbox, replicated>>
redisVars == <<link, hash, bloom>>
storeVars == <<dbVars, redisVars>>

RedisNode == {Primary} \cup Replica
Cached    == URL \cup {Neg, Miss}

StoreTypeOK ==
  /\ rows \in [Code -> URL \cup {Miss}]
  /\ outbox \subseteq Code \X URL
  /\ replicated \in [Slave -> SUBSET Code]
  /\ link \in [RedisNode -> [Code -> Cached]]
  /\ hash \in [RedisNode -> [URL -> Code \cup {NoCode}]]
  /\ bloom \subseteq Code

----------------------------------------------------------------------------
(* MySQL *)

Committed == {c \in Code : rows[c] # Miss}

(* idx_short_code is compared through utf8mb4_unicode_ci. *)
SameCode(c, d) == Fold[c] = Fold[d]

(* Mutant: no unique key on long_url_hash. *)
ConflictsOnCodeOnly(c, u) == \E d \in Committed : SameCode(c, d)

(* The unique keys of short_links: short_code and long_url_hash. *)
Conflicts(c, u) == \E d \in Committed : SameCode(c, d) \/ rows[d] = u

(* SELECT long_url WHERE short_code = c over the rows `visible'. *)
Match(c, visible) == {d \in visible : SameCode(c, d)}

(* GetReadDB: some read replica, or the master when there is none. *)
ReadViews ==
  IF Slave = {} THEN {Committed} ELSE {replicated[s] : s \in Slave}

(* Mutant: the master check reads the replicas. *)
LaggedMatch(c) == UNION {Match(c, view) : view \in ReadViews}

MasterMatch(c) == Match(c, Committed)

(* Mutant: the outbox row survives a rollback of the link row. *)
CommitOutboxAlone(c, u) ==
  /\ ~Conflicts(c, u)
  /\ rows' \in {rows, [rows EXCEPT ![c] = u]}
  /\ outbox' = outbox \cup {<<c, u>>}
  /\ UNCHANGED replicated

(* The transaction of Create: the row and its outbox message, or nothing. *)
CommitTx(c, u) ==
  /\ ~Conflicts(c, u)
  /\ rows' = [rows EXCEPT ![c] = u]
  /\ outbox' = outbox \cup {<<c, u>>}
  /\ UNCHANGED replicated

(* ListShortCodesAfter(cursor): the first BatchSize ids above the cursor. *)
After(cursor) == {c \in Committed : c > cursor}

(* Mutant: no ORDER BY. *)
IsUnorderedPage(page, cursor) ==
  /\ page \subseteq After(cursor)
  /\ page # {}
  /\ Cardinality(page) <= BatchSize

IsPage(page, cursor) ==
  /\ page \subseteq After(cursor)
  /\ page # {}
  /\ \A c \in page, d \in After(cursor) \ page : c < d
  /\ \/ Cardinality(page) = BatchSize
     \/ page = After(cursor) /\ Cardinality(page) < BatchSize

----------------------------------------------------------------------------
(* Redis.  Writes go to the primary; EVALSHA (Bloom Contains) does too. *)

SetLink(c, v) == link' = [link EXCEPT ![Primary][c] = v]
SetHash(u, c) == hash' = [hash EXCEPT ![Primary][u] = c]
AddBloom(cs)  == bloom' = bloom \cup cs

(* Contains may answer FALSE only when some bit of c is clear; it may       *)
(* answer TRUE for any c (false positives).                                 *)
ContainsFalse(c) == c \notin bloom

(* Mutant: QueueAdd is forgotten. *)
CommandsWithoutBloom == {"link", "hash"}

(* The pipeline: SET shortlink, SET urlhash, SETBIT...; one command of it.  *)
Commands == {"link", "hash", "bloom"}

Execute(cmd, c, u) ==
  \/ cmd = "link"  /\ SetLink(c, u)  /\ UNCHANGED <<hash, bloom>>
  \/ cmd = "hash"  /\ SetHash(u, c)  /\ UNCHANGED <<link, bloom>>
  \/ cmd = "bloom" /\ AddBloom({c})  /\ UNCHANGED <<link, hash>>

----------------------------------------------------------------------------
(* What the tier does by itself: TTLs and asynchronous replication. *)

LinkExpire(n, c) ==
  /\ "link" \in Expiring /\ link[n][c] # Miss
  /\ link' = [link EXCEPT ![n][c] = Miss]
  /\ UNCHANGED <<dbVars, hash, bloom>>

HashExpire(n, u) ==
  /\ "hash" \in Expiring /\ hash[n][u] # NoCode
  /\ hash' = [hash EXCEPT ![n][u] = NoCode]
  /\ UNCHANGED <<dbVars, link, bloom>>

LinkReplicate(n, c) ==
  /\ link[n][c] # link[Primary][c]
  /\ link' = [link EXCEPT ![n][c] = link[Primary][c]]
  /\ UNCHANGED <<dbVars, hash, bloom>>

HashReplicate(n, u) ==
  /\ hash[n][u] # hash[Primary][u]
  /\ hash' = [hash EXCEPT ![n][u] = hash[Primary][u]]
  /\ UNCHANGED <<dbVars, link, bloom>>

RowReplicate(s) ==
  /\ \E c \in Committed \ replicated[s] :
        replicated' = [replicated EXCEPT ![s] = @ \cup {c}]
  /\ UNCHANGED <<rows, outbox, redisVars>>

(* A Redis failover: replica n is promoted and what it had not received is  *)
(* lost.  Keys are in different slots, which fail over one by one.          *)
LinkFailover(n, c) ==
  /\ "failover" \in Faults /\ link[n][c] # link[Primary][c]
  /\ link' = [link EXCEPT ![Primary][c] = link[n][c]]
  /\ UNCHANGED <<dbVars, hash, bloom>>

HashFailover(n, u) ==
  /\ "failover" \in Faults /\ hash[n][u] # hash[Primary][u]
  /\ hash' = [hash EXCEPT ![Primary][u] = hash[n][u]]
  /\ UNCHANGED <<dbVars, link, bloom>>

(* The bitmap is one key; each code of `lost' loses one of its bits or more.*)
BloomFailover(lost) ==
  /\ "failover" \in Faults
  /\ bloom' = bloom \ lost
  /\ UNCHANGED <<dbVars, link, hash>>

StoreNext ==
  \/ \E n \in RedisNode, c \in Code : LinkExpire(n, c)
  \/ \E n \in RedisNode, u \in URL : HashExpire(n, u)
  \/ \E n \in Replica, c \in Code : LinkReplicate(n, c) \/ LinkFailover(n, c)
  \/ \E n \in Replica, u \in URL : HashReplicate(n, u) \/ HashFailover(n, u)
  \/ \E s \in Slave : RowReplicate(s)

(* Pods start on a table whose unique keys hold, with cold caches and a     *)
(* Bloom bitmap no code is in yet (a new Bloom version or a flushed Redis). *)
StoreInit ==
  /\ rows \in [Code -> URL \cup {Miss}]
  /\ \A c, d \in Committed :
        (SameCode(c, d) \/ rows[c] = rows[d]) => c = d
  /\ Committed \subseteq Legacy
  /\ outbox = {}
  /\ replicated = [s \in Slave |-> Committed]
  /\ link = [n \in RedisNode |-> [c \in Code |-> Miss]]
  /\ hash = [n \in RedisNode |-> [u \in URL |-> NoCode]]
  /\ bloom = {}
============================================================================
