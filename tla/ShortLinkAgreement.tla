------------------------- MODULE ShortLinkAgreement -------------------------
(***************************************************************************)
(* CachesAgree and OneCodePerURL, for every value of the constants.  The   *)
(* argument: rows of the table never change once committed, so an entry of *)
(* a cache stays true when it was true at its write; and every entry is a  *)
(* copy of a row or of another entry, or travels with a request or message *)
(* whose code and URL are a row.                                           *)
(***************************************************************************)
EXTENDS ShortLinkProofs

(* At these points a creator's code and URL are a row of the table.         *)
CodeKnown == {"backfill", "return", "fill", "pipe"}

StoreAgree ==
  /\ \A c, d \in Committed : (SameCode(c, d) \/ rows[c] = rows[d]) => c = d
  /\ \A c \in Code, u \in URL : <<c, u>> \in outbox => rows[c] = u
  /\ \A s \in Slave : replicated[s] \subseteq Committed
  /\ \A n \in RedisNode, c \in Code, v \in URL : link[n][c] = v => TrueTo(c, v)
  /\ \A n \in RedisNode, u \in URL, c \in Code : hash[n][u] = c => rows[c] = u

LocalAgree ==
  /\ \A p \in Pod, c \in Code, v \in URL : l1[p][c] = v => TrueTo(c, v)
  /\ \A p \in Pod, u \in URL, c \in Code : hashL1[p][u] = c => rows[c] = u

FlightAgree ==
  \A p \in Pod, c \in Code, v \in URL : flight[p][c].val = v => TrueTo(c, v)

SyncAgree == \A p \in Pod : sync[p].pc = "pipe" => rows[sync[p].code] = sync[p].url

CreatorAgree ==
  \A k \in Creator : creator[k].pc \in CodeKnown => rows[creator[k].code] = creator[k].url

ReaderAgree ==
  \A r \in Reader, v \in URL : reader[r].res = v => TrueTo(reader[r].code, v)

IssuedAgree == \A u \in URL : \A c \in issued[u] : rows[c] = u

Parts ==
  /\ StoreAgree
  /\ LocalAgree
  /\ FlightAgree
  /\ SyncAgree
  /\ CreatorAgree
  /\ ReaderAgree
  /\ IssuedAgree

Agreement == TypeInv /\ Parts

USE DEF CodeKnown, Parts, NoCode, NoPod, Err, Neg, Miss, Primary,
        storeVars, dbVars, redisVars, l1Vars, rbVars, history

(* The invariant says what the two properties say, the uniqueness of rows   *)
(* giving OneCodePerURL.                                                    *)
LEMMA AgreementImplies == Agreement => CachesAgree /\ OneCodePerURL
<1> SUFFICES ASSUME Agreement PROVE CachesAgree /\ OneCodePerURL
  OBVIOUS
<1>1. CachesAgree
  <2>1. ASSUME NEW c \in Code, NEW p \in Pod, NEW n \in RedisNode,
               NEW v \in {l1[p][c], link[n][c], flight[p][c].val} \cap URL
        PROVE  TrueTo(c, v)
    BY DEF Agreement, StoreAgree, LocalAgree, FlightAgree
  <2>2. ASSUME NEW r \in Reader, reader[r].res \in URL
        PROVE  TrueTo(reader[r].code, reader[r].res)
    BY <2>2 DEF Agreement, ReaderAgree
  <2>3. ASSUME NEW u \in URL, NEW p \in Pod, NEW n \in RedisNode,
               NEW c \in {hashL1[p][u], hash[n][u]} \ {NoCode}
        PROVE  rows[c] = u
    <3>1. c \in Code
      BY DEF Agreement, TypeInv, LocalInv, StoreTypeOK
    <3>2. QED BY <3>1 DEF Agreement, StoreAgree, LocalAgree
  <2>4. QED BY <2>1, <2>2, <2>3 DEF CachesAgree
<1>2. OneCodePerURL
  BY UrlAssumption DEF Agreement, IssuedAgree, StoreAgree, OneCodePerURL, Committed,
     TypeInv, HistoryInv
<1>3. QED BY <1>1, <1>2

----------------------------------------------------------------------------
(* Committed rows stay: what was true of a code remains true.               *)

RowsGrow == \A c \in Committed : c \in Committed' /\ rows'[c] = rows[c]

(* A step that leaves the table alone.                                      *)
LEMMA RowsSame == UNCHANGED rows => RowsGrow
  BY DEF RowsGrow, Committed

(* The transaction of Create only adds a row under a free code.             *)
LEMMA RowsCommit ==
  ASSUME TypeInv, NEW c \in Code, NEW u \in URL, CommitTx(c, u)
  PROVE  RowsGrow /\ rows'[c] = u
<1>1. c \notin Committed
  BY DEF CommitTx, Conflicts, SameCode
<1>2. rows' = [rows EXCEPT ![c] = u] /\ rows \in [Code -> URL \cup {Miss}]
  BY DEF CommitTx, TypeInv, StoreTypeOK
<1>3. QED BY <1>1, <1>2 DEF RowsGrow, Committed

(* A row, and an entry true to a row, survive a step.                       *)
LEMMA RowKept ==
  ASSUME TypeInv, RowsGrow, NEW c \in Code, NEW u \in URL, rows[c] = u
  PROVE  rows'[c] = u
  BY UrlAssumption DEF RowsGrow, Committed

(* What a code redirects to stays so while no row changes. *)
LEMMA TrueToKept ==
  ASSUME RowsGrow, NEW c, NEW v, TrueTo(c, v)
  PROVE  TrueTo(c, v)'
  BY DEF RowsGrow, TrueTo, SameCode

(* A row is true to its code.                                               *)
LEMMA RowTrue ==
  ASSUME TypeInv, NEW c \in Code, NEW u \in URL, rows[c] = u
  PROVE  TrueTo(c, u)
  BY UrlAssumption DEF TrueTo, SameCode, Committed

(* Every part of the invariant whose variables do not change is kept.       *)
LEMMA StoreAgreeKept == StoreAgree /\ UNCHANGED <<dbVars, link, hash>> => StoreAgree'
  BY DEF StoreAgree, TrueTo, SameCode, Committed

(* LocalAgree survives steps that leave the caches and the rows alone. *)
LEMMA LocalAgreeKept ==
  ASSUME TypeInv, RowsGrow, LocalAgree, UNCHANGED l1Vars
  PROVE  LocalAgree'
<1>1. \A p \in Pod, c \in Code, v \in URL : l1[p][c] = v => TrueTo(c, v)'
  BY TrueToKept DEF LocalAgree
<1>2. \A p \in Pod, u \in URL, c \in Code : hashL1[p][u] = c => rows'[c] = u
  BY RowKept DEF LocalAgree
<1>3. QED BY <1>1, <1>2 DEF LocalAgree, TrueTo, SameCode

(* FlightAgree survives steps that leave the calls and the rows alone. *)
LEMMA FlightAgreeKept ==
  ASSUME TypeInv, RowsGrow, FlightAgree, UNCHANGED flight
  PROVE  FlightAgree'
  BY TrueToKept DEF FlightAgree

(* SyncAgree survives steps that leave the consumers and the rows alone. *)
LEMMA SyncAgreeKept ==
  ASSUME TypeInv, RowsGrow, SyncAgree, UNCHANGED sync
  PROVE  SyncAgree'
  BY RowKept DEF SyncAgree, TypeInv, SyncInv, SyncOK

(* CreatorAgree survives steps that leave the creators and the rows alone. *)
LEMMA CreatorAgreeKept ==
  ASSUME TypeInv, RowsGrow, CreatorAgree, UNCHANGED creator
  PROVE  CreatorAgree'
  BY RowKept DEF CreatorAgree, TypeInv, CreatorInv, CreatorOK

(* ReaderAgree survives steps that leave the readers and the rows alone. *)
LEMMA ReaderAgreeKept ==
  ASSUME TypeInv, RowsGrow, ReaderAgree, UNCHANGED reader
  PROVE  ReaderAgree'
  BY TrueToKept DEF ReaderAgree

(* IssuedAgree survives steps that leave the issued codes and the rows alone. *)
LEMMA IssuedAgreeKept ==
  ASSUME TypeInv, RowsGrow, IssuedAgree, UNCHANGED issued
  PROVE  IssuedAgree'
  BY RowKept DEF IssuedAgree, TypeInv, HistoryInv

----------------------------------------------------------------------------
(* Writes of one entry *)

(* One well-matched entry is written to the Redis primary.                  *)
LEMMA LinkAgree ==
  ASSUME TypeInv, StoreAgree, NEW c \in Code, NEW v \in Cached,
         v \in URL => TrueTo(c, v), SetLink(c, v), UNCHANGED <<dbVars, hash, bloom>>
  PROVE  StoreAgree'
<1>1. ASSUME NEW n \in RedisNode, NEW d \in Code, NEW w \in URL, link'[n][d] = w
      PROVE  TrueTo(d, w)
  BY <1>1 DEF SetLink, StoreAgree, TypeInv, StoreTypeOK
<1>2. QED BY <1>1 DEF StoreAgree, TrueTo, SameCode, Committed

(* SET urlhash with the true code keeps Redis in agreement. *)
LEMMA HashAgree ==
  ASSUME TypeInv, StoreAgree, NEW u \in URL, NEW c \in Code, rows[c] = u,
         SetHash(u, c), UNCHANGED <<dbVars, link, bloom>>
  PROVE  StoreAgree'
<1>1. ASSUME NEW n \in RedisNode, NEW w \in URL, NEW d \in Code, hash'[n][w] = d
      PROVE  rows[d] = w
  BY <1>1 DEF SetHash, StoreAgree, TypeInv, StoreTypeOK
<1>2. QED BY <1>1 DEF StoreAgree, TrueTo, SameCode, Committed

(* One command of a pipeline for a row of the table.                        *)
LEMMA CommandAgree ==
  ASSUME TypeInv, StoreAgree, NEW cmd, NEW c \in Code, NEW u \in URL, rows[c] = u,
         Execute(cmd, c, u), UNCHANGED dbVars
  PROVE  StoreAgree'
<1>1. CASE SetLink(c, u) /\ UNCHANGED <<hash, bloom>>
  BY <1>1, RowTrue, LinkAgree DEF Cached
<1>2. CASE SetHash(u, c) /\ UNCHANGED <<link, bloom>>
  BY <1>2, HashAgree
<1>3. CASE UNCHANGED <<link, hash>>
  BY <1>3 DEF StoreAgree, TrueTo, SameCode, Committed
<1>4. QED BY <1>1, <1>2, <1>3 DEF Execute

(* The local caches of a pod are filled with a row of the table.            *)
LEMMA FillAgree ==
  ASSUME TypeInv, LocalAgree, NEW p \in Pod, NEW c \in Code, NEW u \in URL, rows[c] = u,
         l1' \in {l1, [l1 EXCEPT ![p][c] = u]}, hashL1' = [hashL1 EXCEPT ![p][u] = c],
         UNCHANGED rows
  PROVE  LocalAgree'
<1>1. ASSUME NEW q \in Pod, NEW d \in Code, NEW v \in URL, l1'[q][d] = v
      PROVE  TrueTo(d, v)
  <2>1. CASE l1[q][d] = v
    BY <2>1 DEF LocalAgree
  <2>2. CASE d = c /\ v = u
    BY <2>2, RowTrue
  <2>3. l1[q][d] = v \/ (d = c /\ v = u)
    BY <1>1 DEF TypeInv, LocalInv
  <2>4. QED BY <2>1, <2>2, <2>3
<1>2. ASSUME NEW q \in Pod, NEW w \in URL, NEW d \in Code, hashL1'[q][w] = d
      PROVE  rows[d] = w
  BY <1>2 DEF LocalAgree, TypeInv, LocalInv
<1>3. QED BY <1>1, <1>2 DEF LocalAgree, TrueTo, SameCode, Committed

(* A creator moves to a point where its code, if known, is a row.           *)
LEMMA CreatorMove ==
  ASSUME TypeInv, RowsGrow, CreatorAgree, NEW k \in Creator, NEW x,
         creator' = [creator EXCEPT ![k] = x],
         x.pc \in CodeKnown => rows'[x.code] = x.url
  PROVE  CreatorAgree'
<1>1. ASSUME NEW j \in Creator, j # k, creator[j].pc \in CodeKnown
      PROVE  rows'[creator[j].code] = creator[j].url
  BY <1>1, RowKept DEF CreatorAgree, TypeInv, CreatorInv, CreatorOK
<1>2. QED BY <1>1 DEF CreatorAgree, TypeInv, CreatorInv

(* Create returns a code that is a row of the table.                        *)
LEMMA ReturnAgree ==
  ASSUME TypeInv, CreatorAgree, IssuedAgree, NEW k \in Creator, NEW u \in URL,
         NEW c \in Code, rows[c] = u, ReturnCode(k, u, c), UNCHANGED rows
  PROVE  CreatorAgree' /\ IssuedAgree'
<1>1. CreatorAgree'
  BY CreatorMove, RowsSame DEF ReturnCode, IdleCreator, Fresh
<1>2. IssuedAgree'
  BY DEF ReturnCode, IssuedAgree, TypeInv, HistoryInv
<1>3. QED BY <1>1, <1>2

(* Create returns an error, possibly after a commit.                        *)
LEMMA ErrorAgree ==
  ASSUME TypeInv, RowsGrow, CreatorAgree, IssuedAgree, NEW k \in Creator, ReturnError(k)
  PROVE  CreatorAgree' /\ IssuedAgree'
<1>1. CreatorAgree'
  BY CreatorMove DEF ReturnError, Fresh
<1>2. IssuedAgree'
  BY IssuedAgreeKept DEF ReturnError
<1>3. QED BY <1>1, <1>2

(* A singleflight call takes, or returns, a value that is true to its code. *)
LEMMA GotoAgree ==
  ASSUME TypeInv, FlightAgree, NEW p \in Pod, NEW c \in Code, NEW pc, NEW v,
         v \in URL => TrueTo(c, v), FlightGoto(p, c, pc, v), UNCHANGED rows
  PROVE  FlightAgree'
<1>1. ASSUME NEW q \in Pod, NEW d \in Code, NEW w \in URL, flight'[q][d].val = w
      PROVE  TrueTo(d, w)
  BY <1>1 DEF FlightGoto, FlightAgree, TypeInv, FlightInv
<1>2. QED BY <1>1 DEF FlightAgree, TrueTo, SameCode, Committed

(* Waking the waiters of a call with a true value keeps readers and calls in agreement. *)
LEMMA FlightReturnAgree ==
  ASSUME TypeInv, FlightAgree, ReaderAgree, NEW p \in Pod, NEW c \in Code, NEW v,
         v \in URL => TrueTo(c, v), FlightReturn(p, c, v), UNCHANGED rows
  PROVE  FlightAgree' /\ ReaderAgree'
<1>1. ASSUME NEW q \in Pod, NEW d \in Code, NEW w \in URL, flight'[q][d].val = w
      PROVE  TrueTo(d, w)
  BY <1>1, UrlAssumption DEF FlightReturn, NoFlight, FlightAgree, TypeInv, FlightInv
<1>2. ASSUME NEW r \in Reader, NEW w \in URL, reader'[r].res = w
      PROVE  TrueTo(reader'[r].code, w)
  BY <1>2 DEF FlightReturn, Answered, ReaderAgree
<1>3. QED BY <1>1, <1>2 DEF FlightAgree, ReaderAgree, TrueTo, SameCode, Committed

----------------------------------------------------------------------------
(* Create *)

(* The steps of Create that leave the table and Redis alone.                *)
LEMMA CreateStartAgree ==
  ASSUME Agreement, NEW k \in Creator, NEW p \in Pod, NEW u \in URL, CreateStart(k, p, u)
  PROVE  Parts'
<1>1. UNCHANGED rows /\ RowsGrow
  BY RowsSame DEF CreateStart
<1>2. StoreAgree' /\ LocalAgree' /\ FlightAgree' /\ SyncAgree' /\ ReaderAgree'
  BY <1>1, StoreAgreeKept, LocalAgreeKept, FlightAgreeKept, SyncAgreeKept, ReaderAgreeKept
  DEF Agreement, CreateStart
<1>3. CASE hashL1[p][u] # NoCode
  <2>1. hashL1[p][u] \in Code /\ rows[hashL1[p][u]] = u
    BY <1>3 DEF Agreement, LocalAgree, TypeInv, LocalInv
  <2>2. ReturnCode(k, u, hashL1[p][u])
    BY <1>3 DEF CreateStart
  <2>3. QED BY <1>1, <1>2, <2>1, <2>2, ReturnAgree DEF Agreement
<1>4. CASE hashL1[p][u] = NoCode
  <2>1. CreatorAgree'
    BY <1>1, <1>4, CreatorMove DEF CreateStart, Fresh, Agreement
  <2>2. IssuedAgree'
    BY <1>1, <1>4, IssuedAgreeKept DEF CreateStart, Agreement
  <2>3. QED BY <1>2, <2>1, <2>2
<1>5. QED BY <1>3, <1>4

(* The action CreateRedis keeps Agreement. *)
LEMMA CreateRedisAgree ==
  ASSUME Agreement, NEW k \in Creator, CreateRedis(k)
  PROVE  Parts'
<1> DEFINE p == creator[k].pod
           u == creator[k].url
<1>1. p \in Pod /\ u \in URL
  BY CreatorFields DEF Agreement, TypeInv, CreateRedis
<1>2. UNCHANGED rows /\ RowsGrow
  BY RowsSame DEF CreateRedis
<1>3. StoreAgree' /\ FlightAgree' /\ SyncAgree' /\ ReaderAgree'
  BY <1>2, StoreAgreeKept, FlightAgreeKept, SyncAgreeKept, ReaderAgreeKept
  DEF Agreement, CreateRedis
<1>4. ASSUME NEW n \in RedisNode, hash[n][u] # NoCode,
             hashL1' = [hashL1 EXCEPT ![p][u] = hash[n][u]],
             ReturnCode(k, u, hash[n][u])
      PROVE  LocalAgree' /\ CreatorAgree' /\ IssuedAgree'
  <2>1. hash[n][u] \in Code /\ rows[hash[n][u]] = u
    BY <1>1, <1>4 DEF Agreement, StoreAgree, TypeInv, StoreTypeOK
  <2>2. LocalAgree'
    BY <1>1, <1>2, <1>4, <2>1, FillAgree DEF Agreement, CreateRedis
  <2>3. CreatorAgree' /\ IssuedAgree'
    BY <1>1, <1>2, <1>4, <2>1, ReturnAgree DEF Agreement
  <2>4. QED BY <2>2, <2>3
<1>5. ASSUME Goto(k, "find"), UNCHANGED <<hashL1, issued>>
      PROVE  LocalAgree' /\ CreatorAgree' /\ IssuedAgree'
  <2>1. [creator[k] EXCEPT !.pc = "find"].pc \notin CodeKnown
    BY DEF Agreement, TypeInv, CreatorInv, CreatorState
  <2>2. CreatorAgree'
    BY <1>2, <1>5, <2>1, CreatorMove DEF Goto, Agreement
  <2>3. LocalAgree' /\ IssuedAgree'
    BY <1>2, <1>5, LocalAgreeKept, IssuedAgreeKept DEF CreateRedis, Agreement
  <2>4. QED BY <2>2, <2>3
<1>6. QED BY <1>3, <1>4, <1>5 DEF CreateRedis

(* The action CreateFind keeps Agreement. *)
LEMMA CreateFindAgree ==
  ASSUME Agreement, NEW k \in Creator, CreateFind(k)
  PROVE  Parts'
<1>1. UNCHANGED rows /\ RowsGrow
  BY RowsSame DEF CreateFind
<1>2. StoreAgree' /\ LocalAgree' /\ FlightAgree' /\ SyncAgree' /\ ReaderAgree'
  BY <1>1, StoreAgreeKept, LocalAgreeKept, FlightAgreeKept, SyncAgreeKept, ReaderAgreeKept
  DEF Agreement, CreateFind
<1>3. creator[k] \in CreatorState
  BY DEF Agreement, TypeInv, CreatorInv
<1>4. ASSUME NEW c \in Committed, rows[c] = creator[k].url,
             creator' = [creator EXCEPT ![k].pc = "backfill", ![k].code = c],
             UNCHANGED issued
      PROVE  CreatorAgree' /\ IssuedAgree'
  <2> DEFINE x == [creator[k] EXCEPT !.pc = "backfill", !.code = c]
  <2>1. x.code = c /\ x.url = creator[k].url
    BY <1>3 DEF CreatorState
  <2>2. creator' = [creator EXCEPT ![k] = x]
    BY <1>4
  <2>3. CreatorAgree'
    BY <1>1, <1>4, <2>1, <2>2, CreatorMove DEF Agreement
  <2>4. IssuedAgree'
    BY <1>1, <1>4, IssuedAgreeKept DEF Agreement
  <2>5. QED BY <2>3, <2>4
<1>5. ASSUME Goto(k, "insert"), UNCHANGED issued
      PROVE  CreatorAgree' /\ IssuedAgree'
  <2>1. [creator[k] EXCEPT !.pc = "insert"].pc \notin CodeKnown
    BY <1>3 DEF CreatorState
  <2>2. CreatorAgree'
    BY <1>1, <1>5, <2>1, CreatorMove DEF Goto, Agreement
  <2>3. IssuedAgree'
    BY <1>1, <1>5, IssuedAgreeKept DEF Agreement
  <2>4. QED BY <2>2, <2>3
<1>6. ASSUME ReturnError(k)
      PROVE  CreatorAgree' /\ IssuedAgree'
  BY <1>1, <1>6, ErrorAgree DEF Agreement
<1>7. QED BY <1>2, <1>4, <1>5, <1>6 DEF CreateFind

(* The action CreateBackfill keeps Agreement. *)
LEMMA CreateBackfillAgree ==
  ASSUME Agreement, NEW k \in Creator, CreateBackfill(k)
  PROVE  Parts'
<1>1. UNCHANGED rows /\ RowsGrow
  BY RowsSame DEF CreateBackfill
<1>2. /\ creator[k].url \in URL /\ creator[k].code \in Code
      /\ rows[creator[k].code] = creator[k].url
  BY CreatorFields DEF Agreement, TypeInv, CreatorAgree, CreateBackfill
<1>3. StoreAgree'
  BY <1>2, HashAgree, StoreAgreeKept DEF Agreement, CreateBackfill
<1>4. LocalAgree' /\ FlightAgree' /\ SyncAgree' /\ ReaderAgree' /\ IssuedAgree'
  BY <1>1, LocalAgreeKept, FlightAgreeKept, SyncAgreeKept, ReaderAgreeKept, IssuedAgreeKept
  DEF Agreement, CreateBackfill
<1> DEFINE x == [creator[k] EXCEPT !.pc = "return"]
<1>5. x.code = creator[k].code /\ x.url = creator[k].url
  BY DEF Agreement, TypeInv, CreatorInv, CreatorState
<1>6. CreatorAgree'
  BY <1>1, <1>2, <1>5, CreatorMove DEF Agreement, CreateBackfill, Goto
<1>7. QED BY <1>3, <1>4, <1>6

(* The action CreateReturnExisting keeps Agreement. *)
LEMMA CreateReturnExistingAgree ==
  ASSUME Agreement, NEW k \in Creator, CreateReturnExisting(k)
  PROVE  Parts'
<1>1. UNCHANGED rows /\ RowsGrow
  BY RowsSame DEF CreateReturnExisting
<1>2. /\ creator[k].pod \in Pod /\ creator[k].url \in URL /\ creator[k].code \in Code
      /\ rows[creator[k].code] = creator[k].url
  BY CreatorFields DEF Agreement, TypeInv, CreatorAgree, CreateReturnExisting
<1>3. StoreAgree' /\ FlightAgree' /\ SyncAgree' /\ ReaderAgree'
  BY <1>1, StoreAgreeKept, FlightAgreeKept, SyncAgreeKept, ReaderAgreeKept
  DEF Agreement, CreateReturnExisting
<1>4. LocalAgree'
  BY <1>1, <1>2, FillAgree DEF Agreement, CreateReturnExisting
<1>5. CreatorAgree' /\ IssuedAgree'
  BY <1>1, <1>2, ReturnAgree DEF Agreement, CreateReturnExisting
<1>6. QED BY <1>3, <1>4, <1>5

(* The transaction: the new row meets the unique keys, and its message and  *)
(* the creator carry it.                                                    *)
LEMMA CreateInsertAgree ==
  ASSUME Agreement, NEW k \in Creator, CreateInsert(k)
  PROVE  Parts'
<1> DEFINE u == creator[k].url
           x(c) == [creator[k] EXCEPT !.pc = "fill", !.code = c]
<1>1. u \in URL /\ creator[k] \in CreatorState
  BY CreatorFields DEF Agreement, TypeInv, CreatorInv, CreateInsert
<1>2. PICK c \in Code :
        \/ /\ CommitTx(c, u)
           /\ \/ /\ creator' = [creator EXCEPT ![k].pc = "fill", ![k].code = c]
                 /\ UNCHANGED issued
              \/ "db" \in Faults /\ ReturnError(k)
        \/ /\ Conflicts(c, u) \/ "db" \in Faults
           /\ ReturnError(k)
           /\ UNCHANGED dbVars
  BY DEF CreateInsert
<1>3. RowsGrow
  BY <1>1, <1>2, RowsCommit, RowsSame DEF Agreement
<1>4. LocalAgree' /\ FlightAgree' /\ SyncAgree' /\ ReaderAgree'
  BY <1>3, LocalAgreeKept, FlightAgreeKept, SyncAgreeKept, ReaderAgreeKept
  DEF Agreement, CreateInsert
<1>5. CASE CommitTx(c, u)
  <2>1. rows'[c] = u
    BY <1>1, <1>5, RowsCommit DEF Agreement
  <2>2. StoreAgree'
    <3>1. \A d, e \in Committed' : (SameCode(d, e) \/ rows'[d] = rows'[e]) => d = e
      BY <1>1, <1>5 DEF CommitTx, Conflicts, SameCode, Committed, Agreement, StoreAgree,
         TypeInv, StoreTypeOK
    <3>2. \A d \in Code, w \in URL : <<d, w>> \in outbox' => rows'[d] = w
      <4>1. \A d \in Code, w \in URL : <<d, w>> \in outbox => rows'[d] = w
        BY <1>3, RowKept DEF Agreement, StoreAgree
      <4>2. outbox' = outbox \cup {<<c, u>>}
        BY <1>5 DEF CommitTx
      <4>3. QED BY <2>1, <4>1, <4>2
    <3>3. \A s \in Slave : replicated'[s] \subseteq Committed'
      BY <1>3, <1>5 DEF CommitTx, RowsGrow, Agreement, StoreAgree
    <3>4. \A n \in RedisNode, d \in Code, v \in URL : link'[n][d] = v => TrueTo(d, v)'
      BY <1>3, TrueToKept DEF CreateInsert, Agreement, StoreAgree
    <3>5. \A n \in RedisNode, w \in URL, d \in Code : hash'[n][w] = d => rows'[d] = w
      BY <1>3, RowKept DEF CreateInsert, Agreement, StoreAgree
    <3>6. QED BY <3>1, <3>2, <3>3, <3>4, <3>5 DEF StoreAgree, TrueTo, SameCode
  <2>3. CASE creator' = [creator EXCEPT ![k] = x(c)] /\ UNCHANGED issued
    <3>1. x(c).code = c /\ x(c).url = u
      BY <1>1 DEF CreatorState
    <3>2. CreatorAgree'
      BY <1>3, <2>1, <2>3, <3>1, CreatorMove DEF Agreement
    <3>3. IssuedAgree'
      BY <1>3, <2>3, IssuedAgreeKept DEF Agreement
    <3>4. QED BY <1>4, <2>2, <3>2, <3>3
  <2>4. CASE ReturnError(k)
    BY <1>3, <1>4, <2>2, <2>4, ErrorAgree DEF Agreement
  <2>5. QED BY <1>2, <2>3, <2>4
<1>6. CASE ReturnError(k) /\ UNCHANGED dbVars
  <2>1. StoreAgree'
    BY <1>6, StoreAgreeKept DEF Agreement, CreateInsert
  <2>2. QED BY <1>3, <1>4, <1>6, <2>1, ErrorAgree DEF Agreement
<1>7. QED BY <1>2, <1>5, <1>6

(* The action CreateFill keeps Agreement. *)
LEMMA CreateFillAgree ==
  ASSUME Agreement, NEW k \in Creator, CreateFill(k)
  PROVE  Parts'
<1> DEFINE x == [creator[k] EXCEPT !.pc = "pipe", !.todo = Commands]
<1>1. UNCHANGED rows /\ RowsGrow
  BY RowsSame DEF CreateFill
<1>2. /\ creator[k].pod \in Pod /\ creator[k].url \in URL /\ creator[k].code \in Code
      /\ rows[creator[k].code] = creator[k].url
  BY CreatorFields DEF Agreement, TypeInv, CreatorAgree, CreateFill
<1>3. StoreAgree' /\ FlightAgree' /\ SyncAgree' /\ ReaderAgree' /\ IssuedAgree'
  BY <1>1, StoreAgreeKept, FlightAgreeKept, SyncAgreeKept, ReaderAgreeKept, IssuedAgreeKept
  DEF Agreement, CreateFill
<1>4. LocalAgree'
  BY <1>1, <1>2, FillAgree DEF Agreement, CreateFill
<1>5. x.code = creator[k].code /\ x.url = creator[k].url
  BY DEF Agreement, TypeInv, CreatorInv, CreatorState
<1>6. CreatorAgree'
  BY <1>1, <1>2, <1>5, CreatorMove DEF Agreement, CreateFill
<1>7. QED BY <1>3, <1>4, <1>6

(* The action CreatePipe keeps Agreement. *)
LEMMA CreatePipeAgree ==
  ASSUME Agreement, NEW k \in Creator, CreatePipe(k)
  PROVE  Parts'
<1>1. UNCHANGED rows /\ RowsGrow
  BY RowsSame DEF CreatePipe
<1>2. /\ creator[k].url \in URL /\ creator[k].code \in Code
      /\ rows[creator[k].code] = creator[k].url
  BY CreatorFields DEF Agreement, TypeInv, CreatorAgree, CreatePipe
<1>3. PICK cmd \in creator[k].todo :
        /\ Execute(cmd, creator[k].code, creator[k].url)
        /\ creator' = [creator EXCEPT ![k].todo = @ \ {cmd}]
  BY DEF CreatePipe
<1> DEFINE x == [creator[k] EXCEPT !.todo = @ \ {cmd}]
<1>4. StoreAgree'
  BY <1>2, <1>3, CommandAgree DEF Agreement, CreatePipe
<1>5. LocalAgree' /\ FlightAgree' /\ SyncAgree' /\ ReaderAgree' /\ IssuedAgree'
  BY <1>1, LocalAgreeKept, FlightAgreeKept, SyncAgreeKept, ReaderAgreeKept, IssuedAgreeKept
  DEF Agreement, CreatePipe
<1>6. x.code = creator[k].code /\ x.url = creator[k].url
  BY DEF Agreement, TypeInv, CreatorInv, CreatorState
<1>7. CreatorAgree'
  BY <1>1, <1>2, <1>3, <1>6, CreatorMove DEF Agreement
<1>8. QED BY <1>4, <1>5, <1>7

(* The action CreatePipeFail keeps Agreement. *)
LEMMA CreatePipeFailAgree ==
  ASSUME Agreement, NEW k \in Creator, CreatePipeFail(k)
  PROVE  Parts'
<1> DEFINE x == [creator[k] EXCEPT !.todo = Commands, !.tries = @ + 1]
<1>1. UNCHANGED rows /\ RowsGrow
  BY RowsSame DEF CreatePipeFail
<1>2. /\ creator[k].url \in URL /\ creator[k].code \in Code
      /\ rows[creator[k].code] = creator[k].url
  BY CreatorFields DEF Agreement, TypeInv, CreatorAgree, CreatePipeFail
<1>3. StoreAgree' /\ LocalAgree' /\ FlightAgree' /\ SyncAgree' /\ ReaderAgree'
  BY <1>1, StoreAgreeKept, LocalAgreeKept, FlightAgreeKept, SyncAgreeKept, ReaderAgreeKept
  DEF Agreement, CreatePipeFail
<1>4. CASE creator' = [creator EXCEPT ![k] = x] /\ UNCHANGED issued
  <2>1. x.code = creator[k].code /\ x.url = creator[k].url
    BY DEF Agreement, TypeInv, CreatorInv, CreatorState
  <2>2. CreatorAgree'
    BY <1>1, <1>2, <1>4, <2>1, CreatorMove DEF Agreement
  <2>3. IssuedAgree'
    BY <1>1, <1>4, IssuedAgreeKept DEF Agreement
  <2>4. QED BY <1>3, <2>2, <2>3
<1>5. CASE ReturnCode(k, creator[k].url, creator[k].code)
  BY <1>1, <1>2, <1>3, <1>5, ReturnAgree DEF Agreement
<1>6. QED BY <1>4, <1>5 DEF CreatePipeFail

(* The action CreateReturn keeps Agreement. *)
LEMMA CreateReturnAgree ==
  ASSUME Agreement, NEW k \in Creator, CreateReturn(k)
  PROVE  Parts'
<1>1. UNCHANGED rows /\ RowsGrow
  BY RowsSame DEF CreateReturn
<1>2. /\ creator[k].url \in URL /\ creator[k].code \in Code
      /\ rows[creator[k].code] = creator[k].url
  BY CreatorFields DEF Agreement, TypeInv, CreatorAgree, CreateReturn
<1>3. StoreAgree' /\ LocalAgree' /\ FlightAgree' /\ SyncAgree' /\ ReaderAgree'
  BY <1>1, StoreAgreeKept, LocalAgreeKept, FlightAgreeKept, SyncAgreeKept, ReaderAgreeKept
  DEF Agreement, CreateReturn
<1>4. QED BY <1>1, <1>2, <1>3, ReturnAgree DEF Agreement, CreateReturn

----------------------------------------------------------------------------
(* Redirect *)

(* Arrival: an L1 hit is answered with what L1 holds for the code.          *)
LEMMA RedirectStartAgree ==
  ASSUME Agreement, NEW r \in Reader, NEW p \in Pod, NEW c \in Code, RedirectStart(r, p, c)
  PROVE  Parts'
<1>1. UNCHANGED rows /\ RowsGrow
  BY RowsSame DEF RedirectStart
<1>2. StoreAgree' /\ LocalAgree' /\ FlightAgree' /\ SyncAgree' /\ CreatorAgree' /\ IssuedAgree'
  BY <1>1, StoreAgreeKept, LocalAgreeKept, FlightAgreeKept, SyncAgreeKept, CreatorAgreeKept,
     IssuedAgreeKept
  DEF Agreement, RedirectStart
<1>3. ASSUME NEW q \in Reader, NEW v \in URL, reader'[q].res = v
      PROVE  TrueTo(reader'[q].code, v)
  <2>1. CASE q = r
    BY <1>3, <2>1, UrlAssumption
    DEF RedirectStart, Answered, Agreement, LocalAgree, TypeInv, ReaderInv
  <2>2. CASE q # r
    BY <1>3, <2>2 DEF RedirectStart, Agreement, ReaderAgree, TypeInv, ReaderInv
  <2>3. QED BY <2>1, <2>2
<1>4. ReaderAgree'
  BY <1>1, <1>3 DEF ReaderAgree, TrueTo, SameCode, Committed
<1>5. QED BY <1>2, <1>4

(* Joining or starting a singleflight call changes no value.                *)
LEMMA RedirectDoAgree ==
  ASSUME Agreement, NEW r \in Reader, RedirectDo(r)
  PROVE  Parts'
<1>1. UNCHANGED rows /\ RowsGrow
  BY RowsSame DEF RedirectDo
<1>2. StoreAgree' /\ LocalAgree' /\ SyncAgree' /\ CreatorAgree' /\ IssuedAgree'
  BY <1>1, StoreAgreeKept, LocalAgreeKept, SyncAgreeKept, CreatorAgreeKept, IssuedAgreeKept
  DEF Agreement, RedirectDo
<1>3. ASSUME NEW q \in Reader
      PROVE  reader'[q].res = reader[q].res /\ reader'[q].code = reader[q].code
  <2>1. reader[q] \in ReaderState /\ reader[r] \in ReaderState
    BY DEF Agreement, TypeInv, ReaderInv
  <2>2. QED BY <2>1 DEF RedirectDo, Agreement, TypeInv, ReaderInv, ReaderState
<1>4. ReaderAgree'
  BY <1>1, <1>3 DEF Agreement, ReaderAgree, TrueTo, SameCode, Committed
<1>5. ASSUME NEW q \in Pod, NEW d \in Code
      PROVE  flight'[q][d].val = flight[q][d].val
  <2>1. flight[q][d] \in FlightState
    BY DEF Agreement, TypeInv, FlightInv
  <2>2. QED BY <2>1 DEF RedirectDo, Agreement, TypeInv, FlightInv, FlightState
<1>6. FlightAgree'
  BY <1>1, <1>5 DEF Agreement, FlightAgree, TrueTo, SameCode, Committed
<1>7. QED BY <1>2, <1>4, <1>6

(* Inside the call every value comes from L1, from Redis or from a row that *)
(* the table matches with the code.                                         *)
LEMMA FlightAgreeStep ==
  ASSUME Agreement, NEW p \in Pod, NEW c \in Code, Flight(p, c)
  PROVE  Parts'
<1>1. UNCHANGED rows /\ RowsGrow
  BY RowsSame DEF Flight, FlightRecheck, FlightRedis, FlightBloom, FlightSlave,
     FlightMaster, FlightSet, FlightFill
<1>2. SyncAgree' /\ CreatorAgree' /\ IssuedAgree'
  BY <1>1, SyncAgreeKept, CreatorAgreeKept, IssuedAgreeKept
  DEF Agreement, Flight, FlightRecheck, FlightRedis, FlightBloom, FlightSlave,
      FlightMaster, FlightSet, FlightFill
<1>3. /\ l1[p][c] \in URL => TrueTo(c, l1[p][c])
      /\ flight[p][c].val \in URL => TrueTo(c, flight[p][c].val)
      /\ \A n \in RedisNode : link[n][c] \in URL => TrueTo(c, link[n][c])
      /\ \A d \in MasterMatch(c) : TrueTo(c, rows[d])
      /\ \A view \in ReadViews : \A d \in Match(c, view) : TrueTo(c, rows[d])
      /\ Neg \notin URL /\ Miss \notin URL /\ Err \notin URL
  BY UrlAssumption DEF Agreement, LocalAgree, FlightAgree, StoreAgree, MasterMatch, Match,
     ReadViews, TrueTo
<1>4. flight[p][c].val \in Cached
  BY DEF Agreement, TypeInv, FlightInv, FlightState
<1>5. CASE FlightRecheck(p, c)
  <2>1. FlightAgree' /\ ReaderAgree'
    BY <1>1, <1>3, <1>5, FlightReturnAgree, GotoAgree, ReaderAgreeKept
    DEF Agreement, FlightRecheck
  <2>2. StoreAgree' /\ LocalAgree'
    BY <1>1, <1>5, StoreAgreeKept, LocalAgreeKept DEF Agreement, FlightRecheck
  <2>3. QED BY <1>2, <2>1, <2>2
<1>6. CASE FlightRedis(p, c)
  <2>1. FlightAgree'
    BY <1>1, <1>3, <1>6, GotoAgree DEF Agreement, FlightRedis
  <2>2. StoreAgree' /\ LocalAgree' /\ ReaderAgree'
    BY <1>1, <1>6, StoreAgreeKept, LocalAgreeKept, ReaderAgreeKept DEF Agreement, FlightRedis
  <2>3. QED BY <1>2, <2>1, <2>2
<1>7. CASE FlightBloom(p, c)
  <2>1. FlightAgree'
    BY <1>1, <1>3, <1>7, GotoAgree DEF Agreement, FlightBloom
  <2>2. StoreAgree' /\ LocalAgree' /\ ReaderAgree'
    BY <1>1, <1>7, StoreAgreeKept, LocalAgreeKept, ReaderAgreeKept DEF Agreement, FlightBloom
  <2>3. QED BY <1>2, <2>1, <2>2
<1>8. CASE FlightSlave(p, c)
  <2>1. FlightAgree' /\ ReaderAgree'
    BY <1>1, <1>3, <1>8, FlightReturnAgree, GotoAgree, ReaderAgreeKept DEF Agreement, FlightSlave
  <2>2. StoreAgree' /\ LocalAgree'
    BY <1>1, <1>8, StoreAgreeKept, LocalAgreeKept DEF Agreement, FlightSlave
  <2>3. QED BY <1>2, <2>1, <2>2
<1>9. CASE FlightMaster(p, c)
  <2>1. FlightAgree' /\ ReaderAgree'
    BY <1>1, <1>3, <1>9, FlightReturnAgree, GotoAgree, ReaderAgreeKept DEF Agreement, FlightMaster
  <2>2. StoreAgree' /\ LocalAgree'
    BY <1>1, <1>9, StoreAgreeKept, LocalAgreeKept DEF Agreement, FlightMaster
  <2>3. QED BY <1>2, <2>1, <2>2
<1>10. CASE FlightSet(p, c)
  <2>1. FlightAgree'
    BY <1>1, <1>3, <1>10, GotoAgree DEF Agreement, FlightSet
  <2>2. StoreAgree'
    BY <1>3, <1>4, <1>10, LinkAgree, StoreAgreeKept DEF Agreement, FlightSet
  <2>3. LocalAgree' /\ ReaderAgree'
    BY <1>1, <1>10, LocalAgreeKept, ReaderAgreeKept DEF Agreement, FlightSet
  <2>4. QED BY <1>2, <2>1, <2>2, <2>3
<1>11. CASE FlightFill(p, c)
  <2>1. FlightAgree' /\ ReaderAgree'
    BY <1>1, <1>3, <1>11, FlightReturnAgree DEF Agreement, FlightFill
  <2>2. StoreAgree'
    BY <1>11, StoreAgreeKept DEF Agreement, FlightFill
  <2>3. ASSUME NEW q \in Pod, NEW d \in Code, NEW v \in URL, l1'[q][d] = v
        PROVE  TrueTo(d, v)
    BY <1>3, <1>11, <2>3 DEF FlightFill, Agreement, LocalAgree, TypeInv, LocalInv
  <2>4. LocalAgree'
    BY <1>1, <1>11, <2>3 DEF FlightFill, Agreement, LocalAgree, TrueTo, SameCode, Committed
  <2>5. QED BY <1>2, <2>1, <2>2, <2>4
<1>12. QED BY <1>5, <1>6, <1>7, <1>8, <1>9, <1>10, <1>11 DEF Flight

----------------------------------------------------------------------------
(* RebuildBloom, the consumer, the local caches and restarts *)

(* The rebuild writes bits of the Bloom filter only.                        *)
LEMMA RebuildAgree ==
  ASSUME Agreement, NEW p \in Pod, RebuildScan(p) \/ RebuildWrite(p)
  PROVE  Parts'
<1>1. UNCHANGED rows /\ RowsGrow
  BY RowsSame DEF RebuildScan, RebuildWrite
<1>2. /\ LocalAgree' /\ FlightAgree' /\ SyncAgree' /\ CreatorAgree' /\ ReaderAgree'
      /\ IssuedAgree'
  BY <1>1, LocalAgreeKept, FlightAgreeKept, SyncAgreeKept, CreatorAgreeKept, ReaderAgreeKept,
     IssuedAgreeKept
  DEF Agreement, RebuildScan, RebuildWrite
<1>3. UNCHANGED <<dbVars, link, hash>>
  BY DEF RebuildScan, RebuildWrite
<1>4. StoreAgree'
  BY <1>3 DEF Agreement, StoreAgree, TrueTo, SameCode, Committed
<1>5. QED BY <1>2, <1>4

(* A message is a row, and so is everything its handler writes.             *)
LEMMA SyncStartAgree ==
  ASSUME Agreement, NEW p \in Pod, NEW m \in Code \X URL, SyncStart(p, m)
  PROVE  Parts'
<1>1. UNCHANGED rows /\ RowsGrow
  BY RowsSame DEF SyncStart
<1>2. /\ StoreAgree' /\ LocalAgree' /\ FlightAgree' /\ CreatorAgree' /\ ReaderAgree'
      /\ IssuedAgree'
  BY <1>1, StoreAgreeKept, LocalAgreeKept, FlightAgreeKept, CreatorAgreeKept, ReaderAgreeKept,
     IssuedAgreeKept
  DEF Agreement, SyncStart
<1>3. m[1] \in Code /\ m[2] \in URL /\ <<m[1], m[2]>> \in outbox
  BY DEF SyncStart
<1>4. rows[m[1]] = m[2]
  BY <1>3 DEF Agreement, StoreAgree
<1>5. SyncAgree'
  BY <1>1, <1>4 DEF SyncStart, Agreement, SyncAgree, TypeInv, SyncInv
<1>6. QED BY <1>2, <1>5

(* The action SyncPipe keeps Agreement. *)
LEMMA SyncPipeAgree ==
  ASSUME Agreement, NEW p \in Pod, SyncPipe(p)
  PROVE  Parts'
<1>1. UNCHANGED rows /\ RowsGrow
  BY RowsSame DEF SyncPipe
<1>2. /\ LocalAgree' /\ FlightAgree' /\ CreatorAgree' /\ ReaderAgree' /\ IssuedAgree'
  BY <1>1, LocalAgreeKept, FlightAgreeKept, CreatorAgreeKept, ReaderAgreeKept, IssuedAgreeKept
  DEF Agreement, SyncPipe
<1>3. /\ sync[p].code \in Code /\ sync[p].url \in URL /\ sync[p] \in SyncState
      /\ rows[sync[p].code] = sync[p].url
  BY DEF Agreement, TypeInv, SyncInv, SyncOK, SyncAgree, SyncPipe
<1>4. PICK cmd \in sync[p].todo :
        /\ Execute(cmd, sync[p].code, sync[p].url)
        /\ sync' = [sync EXCEPT ![p].todo = @ \ {cmd}]
  BY DEF SyncPipe
<1>5. StoreAgree'
  BY <1>3, <1>4, CommandAgree DEF Agreement, SyncPipe
<1>6. SyncAgree'
  BY <1>1, <1>3, <1>4 DEF Agreement, SyncAgree, TypeInv, SyncInv, SyncState
<1>7. QED BY <1>2, <1>5, <1>6

(* The action SyncPipeFail keeps Agreement. *)
LEMMA SyncPipeFailAgree ==
  ASSUME Agreement, NEW p \in Pod, SyncPipeFail(p)
  PROVE  Parts'
<1>1. UNCHANGED rows /\ RowsGrow
  BY RowsSame DEF SyncPipeFail
<1>2. /\ StoreAgree' /\ LocalAgree' /\ FlightAgree' /\ CreatorAgree' /\ ReaderAgree'
      /\ IssuedAgree'
  BY <1>1, StoreAgreeKept, LocalAgreeKept, FlightAgreeKept, CreatorAgreeKept, ReaderAgreeKept,
     IssuedAgreeKept
  DEF Agreement, SyncPipeFail
<1> DEFINE x == [sync[p] EXCEPT !.todo = Commands, !.tries = @ + 1]
<1>3. x.code = sync[p].code /\ x.url = sync[p].url /\ IdleSync.pc = "idle"
  BY DEF Agreement, TypeInv, SyncInv, SyncState, IdleSync
<1>4. sync' = [sync EXCEPT ![p] = x] \/ sync' = [sync EXCEPT ![p] = IdleSync]
  BY DEF SyncPipeFail
<1>5. rows[sync[p].code] = sync[p].url
  BY DEF Agreement, SyncAgree, SyncPipeFail
<1> HIDE DEF x
<1>6. SyncAgree'
  BY <1>1, <1>3, <1>4, <1>5 DEF Agreement, SyncAgree, TypeInv, SyncInv
<1>7. QED BY <1>2, <1>6

(* The action SyncFill keeps Agreement. *)
LEMMA SyncFillAgree ==
  ASSUME Agreement, NEW p \in Pod, SyncFill(p)
  PROVE  Parts'
<1>1. UNCHANGED rows /\ RowsGrow
  BY RowsSame DEF SyncFill
<1>2. FlightAgree' /\ CreatorAgree' /\ ReaderAgree' /\ IssuedAgree'
  BY <1>1, FlightAgreeKept, CreatorAgreeKept, ReaderAgreeKept, IssuedAgreeKept
  DEF Agreement, SyncFill
<1>3. /\ sync[p].code \in Code /\ sync[p].url \in URL
      /\ rows[sync[p].code] = sync[p].url
  BY DEF Agreement, TypeInv, SyncInv, SyncOK, SyncAgree, SyncFill
<1>4. LocalAgree'
  BY <1>1, <1>3, FillAgree DEF Agreement, SyncFill
<1>5. StoreAgree'
  <2>1. outbox' \subseteq outbox /\ UNCHANGED <<rows, replicated, redisVars>>
    BY DEF SyncFill
  <2>2. QED BY <2>1 DEF Agreement, StoreAgree, TrueTo, SameCode, Committed
<1>6. SyncAgree'
  BY <1>1 DEF SyncFill, Agreement, SyncAgree, TypeInv, SyncInv, IdleSync
<1>7. QED BY <1>2, <1>4, <1>5, <1>6

(* An expired entry, and a restarted pod, hold nothing.                     *)
LEMMA ExpireAgree ==
  ASSUME Agreement, NEW p \in Pod,
         (\E c \in Code : L1Expire(p, c)) \/ (\E u \in URL : HashL1Expire(p, u))
  PROVE  Parts'
<1>1. UNCHANGED rows /\ RowsGrow
  BY RowsSame DEF L1Expire, HashL1Expire
<1>2. /\ StoreAgree' /\ FlightAgree' /\ SyncAgree' /\ CreatorAgree' /\ ReaderAgree'
      /\ IssuedAgree'
  BY <1>1, StoreAgreeKept, FlightAgreeKept, SyncAgreeKept, CreatorAgreeKept, ReaderAgreeKept,
     IssuedAgreeKept
  DEF Agreement, L1Expire, HashL1Expire
<1>3. ASSUME NEW q \in Pod, NEW d \in Code, NEW v \in URL, l1'[q][d] = v
      PROVE  l1[q][d] = v
  BY <1>3, UrlAssumption DEF Agreement, TypeInv, LocalInv, L1Expire, HashL1Expire
<1>4. ASSUME NEW q \in Pod, NEW w \in URL, NEW d \in Code, hashL1'[q][w] = d
      PROVE  hashL1[q][w] = d
  BY <1>4, CodeAssumption DEF Agreement, TypeInv, LocalInv, L1Expire, HashL1Expire
<1>5. LocalAgree'
  BY <1>1, <1>3, <1>4 DEF Agreement, LocalAgree, TrueTo, SameCode, Committed
<1>6. QED BY <1>2, <1>5

(* The action PodRestart keeps Agreement. *)
LEMMA PodRestartAgree ==
  ASSUME Agreement, NEW p \in Pod, PodRestart(p)
  PROVE  Parts'
<1>1. UNCHANGED rows /\ RowsGrow
  BY RowsSame DEF PodRestart
<1>2. StoreAgree' /\ IssuedAgree'
  BY <1>1, StoreAgreeKept, IssuedAgreeKept DEF Agreement, PodRestart
<1>3. ASSUME NEW q \in Pod, NEW d \in Code, NEW v \in URL
      PROVE  /\ l1'[q][d] = v => l1[q][d] = v
             /\ flight'[q][d].val = v => flight[q][d].val = v
  BY UrlAssumption
  DEF Agreement, TypeInv, LocalInv, FlightInv, PodRestart, NoFlight
<1>4. ASSUME NEW q \in Pod, NEW w \in URL, NEW d \in Code, hashL1'[q][w] = d
      PROVE  hashL1[q][w] = d
  BY <1>4, CodeAssumption DEF Agreement, TypeInv, LocalInv, PodRestart
<1>5. LocalAgree' /\ FlightAgree'
  BY <1>1, <1>3, <1>4 DEF Agreement, LocalAgree, FlightAgree, TrueTo, SameCode, Committed
<1>6. SyncAgree'
  BY <1>1 DEF Agreement, SyncAgree, TypeInv, SyncInv, IdleSync, PodRestart
<1>7. CreatorAgree'
  BY <1>1 DEF Agreement, CreatorAgree, IdleCreator, Fresh, PodRestart
<1>8. ASSUME NEW r \in Reader, NEW v \in URL, reader'[r].res = v
      PROVE  reader[r].res = v /\ reader'[r] = reader[r]
  BY <1>8, UrlAssumption DEF PodRestart, Answered
<1>9. ReaderAgree'
  BY <1>1, <1>8 DEF Agreement, ReaderAgree, TrueTo, SameCode, Committed
<1>10. QED BY <1>2, <1>5, <1>6, <1>7, <1>9

(* TTLs remove entries; replication and failovers copy them.                *)
LEMMA StoreNextAgree ==
  ASSUME Agreement, StoreNext, UNCHANGED podVars
  PROVE  Parts'
<1>1. UNCHANGED rows /\ RowsGrow
  BY RowsSame
  DEF StoreNext, LinkExpire, HashExpire, LinkReplicate, HashReplicate, RowReplicate,
      LinkFailover, HashFailover
<1>2. /\ LocalAgree' /\ FlightAgree' /\ SyncAgree' /\ CreatorAgree' /\ ReaderAgree'
      /\ IssuedAgree'
  BY <1>1, LocalAgreeKept, FlightAgreeKept, SyncAgreeKept, CreatorAgreeKept, ReaderAgreeKept,
     IssuedAgreeKept
  DEF Agreement, podVars
<1>3. UNCHANGED outbox
  BY DEF StoreNext, LinkExpire, HashExpire, LinkReplicate, HashReplicate, RowReplicate,
         LinkFailover, HashFailover
<1>4. \A s \in Slave : replicated'[s] \subseteq Committed
  BY DEF StoreNext, LinkExpire, HashExpire, LinkReplicate, HashReplicate, RowReplicate,
     LinkFailover, HashFailover, Agreement, StoreAgree, TypeInv, StoreTypeOK
<1>5. ASSUME NEW n \in RedisNode, NEW c \in Code, NEW v \in URL, link'[n][c] = v
      PROVE  \E m \in RedisNode : link[m][c] = v
  <2>1. ASSUME NEW m \in RedisNode, NEW d \in Code, LinkExpire(m, d)
        PROVE  link[n][c] = v
    BY <1>5, <2>1, UrlAssumption DEF LinkExpire, Agreement, TypeInv, StoreTypeOK
  <2>2. ASSUME NEW m \in Replica, NEW d \in Code, LinkReplicate(m, d)
        PROVE  link[n][c] = v \/ link[Primary][c] = v
    BY <1>5, <2>2 DEF LinkReplicate, Agreement, TypeInv, StoreTypeOK, RedisNode
  <2>3. ASSUME NEW m \in Replica, NEW d \in Code, LinkFailover(m, d)
        PROVE  link[n][c] = v \/ (m \in RedisNode /\ link[m][c] = v)
    BY <1>5, <2>3 DEF LinkFailover, Agreement, TypeInv, StoreTypeOK, RedisNode
  <2>4. UNCHANGED link => link[n][c] = v
    BY <1>5
  <2>5. Primary \in RedisNode
    BY DEF RedisNode
  <2>6. QED BY <2>1, <2>2, <2>3, <2>4, <2>5
               DEF StoreNext, HashExpire, HashReplicate, RowReplicate, HashFailover
<1>6. ASSUME NEW n \in RedisNode, NEW u \in URL, NEW c \in Code, hash'[n][u] = c
      PROVE  \E m \in RedisNode : hash[m][u] = c
  <2>1. ASSUME NEW m \in RedisNode, NEW w \in URL, HashExpire(m, w)
        PROVE  hash[n][u] = c
    BY <1>6, <2>1, CodeAssumption DEF HashExpire, Agreement, TypeInv, StoreTypeOK
  <2>2. ASSUME NEW m \in Replica, NEW w \in URL, HashReplicate(m, w)
        PROVE  hash[n][u] = c \/ hash[Primary][u] = c
    BY <1>6, <2>2 DEF HashReplicate, Agreement, TypeInv, StoreTypeOK, RedisNode
  <2>3. ASSUME NEW m \in Replica, NEW w \in URL, HashFailover(m, w)
        PROVE  hash[n][u] = c \/ (m \in RedisNode /\ hash[m][u] = c)
    BY <1>6, <2>3 DEF HashFailover, Agreement, TypeInv, StoreTypeOK, RedisNode
  <2>4. UNCHANGED hash => hash[n][u] = c
    BY <1>6
  <2>5. Primary \in RedisNode
    BY DEF RedisNode
  <2>6. QED BY <2>1, <2>2, <2>3, <2>4, <2>5
               DEF StoreNext, LinkExpire, LinkReplicate, RowReplicate, LinkFailover
<1>7. /\ \A n \in RedisNode, c \in Code, v \in URL : link'[n][c] = v => TrueTo(c, v)'
      /\ \A n \in RedisNode, u \in URL, c \in Code : hash'[n][u] = c => rows'[c] = u
  BY <1>1, <1>5, <1>6 DEF Agreement, StoreAgree, TrueTo, SameCode, Committed
<1>8. StoreAgree'
  BY <1>1, <1>3, <1>4, <1>7
  DEF Agreement, StoreAgree, SameCode, Committed
<1>9. QED BY <1>2, <1>8

(* A failover of the bitmap's node touches no entry.                        *)
LEMMA FailoverAgree ==
  ASSUME Agreement, NEW lost, Failover(lost)
  PROVE  Parts'
<1>1. UNCHANGED <<dbVars, link, hash, l1Vars, flight, sync, creator, reader, issued>>
  BY DEF Failover, BloomFailover
<1>2. RowsGrow
  BY <1>1, RowsSame
<1>3. QED
  BY <1>1, <1>2, StoreAgreeKept, LocalAgreeKept, FlightAgreeKept, SyncAgreeKept,
     CreatorAgreeKept, ReaderAgreeKept, IssuedAgreeKept
  DEF Agreement

----------------------------------------------------------------------------
(* The caches start cold on a table whose unique keys hold.                 *)
LEMMA InitAgree == Init => Agreement
<1> SUFFICES ASSUME Init PROVE Agreement
  OBVIOUS
<1>1. TypeInv
  BY InitType
<1>2. StoreAgree
  BY UrlAssumption, CodeAssumption DEF Init, StoreInit, StoreAgree
<1>3. LocalAgree /\ FlightAgree /\ ReaderAgree
  BY UrlAssumption, CodeAssumption
  DEF Init, LocalAgree, FlightAgree, ReaderAgree, NoFlight, Answered
<1>4. SyncAgree /\ CreatorAgree /\ IssuedAgree
  BY DEF Init, SyncAgree, CreatorAgree, IssuedAgree, IdleSync, IdleCreator, Fresh
<1>5. QED BY <1>1, <1>2, <1>3, <1>4 DEF Agreement

(* Every step keeps Agreement. *)
LEMMA NextAgree == Agreement /\ [Next]_vars => Agreement'
<1> SUFFICES ASSUME Agreement, [Next]_vars PROVE Agreement'
  OBVIOUS
<1>1. TypeInv'
  BY NextType DEF Agreement
<1>2. ASSUME NEW k \in Creator, CreateStep(k)
      PROVE  Parts'
  BY <1>2, CreateRedisAgree, CreateFindAgree, CreateBackfillAgree, CreateReturnExistingAgree,
     CreateInsertAgree, CreateFillAgree, CreatePipeAgree, CreateReturnAgree
  DEF CreateStep
<1> HIDE DEF Parts
<1>3. ASSUME Next
      PROVE  Parts'
  BY <1>2, <1>3, CreateStartAgree, CreatePipeFailAgree, RedirectStartAgree, RedirectDoAgree,
     FlightAgreeStep, RebuildAgree, SyncStartAgree, SyncPipeAgree, SyncPipeFailAgree,
     SyncFillAgree, ExpireAgree, PodRestartAgree, StoreNextAgree, FailoverAgree
  DEF Next, Step
<1>4. ASSUME UNCHANGED vars
      PROVE  Parts'
  BY <1>4, RowsSame, StoreAgreeKept, LocalAgreeKept, FlightAgreeKept, SyncAgreeKept,
     CreatorAgreeKept, ReaderAgreeKept, IssuedAgreeKept
  DEF Agreement, Parts, vars, podVars
<1>5. QED BY <1>1, <1>3, <1>4 DEF Agreement

(* The invariant holds of every behaviour: it is what both theorems below   *)
(* rest on.                                                                 *)
THEOREM AgreementInvariant == Spec => []Agreement
<1>1. QED BY InitAgree, NextAgree, PTL DEF Spec

(* No cache, lookup or reply ever holds a URL that its code does not have,  *)
(* whatever the number of pods, requests, failures, expiries and replicas.  *)
THEOREM CachesAlwaysAgree == Spec => []CachesAgree
<1>1. Agreement => CachesAgree
  BY AgreementImplies
<1>2. QED BY AgreementInvariant, <1>1, PTL

(* All the codes Create ever returns for a URL are one code of the table.   *)
THEOREM Deduplication == Spec => []OneCodePerURL
<1>1. Agreement => OneCodePerURL
  BY AgreementImplies
<1>2. QED BY AgreementInvariant, <1>1, PTL
=============================================================================
