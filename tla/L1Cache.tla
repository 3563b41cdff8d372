------------------------------ MODULE L1Cache ------------------------------
(***************************************************************************)
(* pkg/cache: the in-process cache.  Keys are spread over shards, each a   *)
(* map and an LRU list under one mutex, so that an operation is one step.  *)
(* Entries expire lazily: an expired one keeps its place until it is read. *)
(***************************************************************************)
EXTENDS Integers, Sequences, FiniteSets

CONSTANTS
  Key, Value,
  Shard,       \* defaultShardCount of them
  ShardOf,     \* getShard: a hash
  Capacities,  \* capacities that NewL1Cache may be given
  Ttl,
  MaxTime,     \* bound: the clock stops there
  None         \* no value, no entry

ASSUME NoneAssumption     == None \notin Value
ASSUME ShardAssumption    == IsFiniteSet(Shard) /\ Shard # {} /\ ShardOf \in [Key -> Shard]
ASSUME CapacityAssumption == Capacities \subseteq Nat /\ Capacities # {}
ASSUME TimeAssumption     == Ttl \in Nat /\ MaxTime \in Nat

VARIABLES
  time,
  capacity,  \* of each shard
  items,     \* key -> entry
  lru,       \* per shard, its keys, the one used last first
  got,       \* the last Get: its key, and what it found
  written,   \* history: per key, the entry Set last, None after Invalidate
  since      \* history: per key, the keys of its shard used since its own last use

vars == <<time, capacity, items, lru, got, written, since>>

Entry == [value : Value, expireAt : 0 .. MaxTime + Ttl]
NoEntry == [value |-> None, expireAt |-> 0]

TypeOK ==
  /\ time \in 0 .. MaxTime
  /\ capacity \in Nat \ {0}
  /\ items \in [Key -> Entry \cup {NoEntry}]
  /\ lru \in [Shard -> Seq(Key)]
  /\ got \in [key : Key, value : Value \cup {None}]
  /\ written \in [Key -> Entry \cup {NoEntry}]
  /\ since \in [Key -> SUBSET Key]

Has(k) == items[k] # NoEntry
Expired(k) == time > items[k].expireAt

(* Mutant: no minimum. *)
PerShardUnclamped(total) == total \div Cardinality(Shard)

PerShard(total) ==
  LET share == total \div Cardinality(Shard) IN IF share < 1 THEN 1 ELSE share

----------------------------------------------------------------------------
(* The list of k's shard *)

Without(list, i) == SubSeq(list, 1, i - 1) \o SubSeq(list, i + 1, Len(list))

Place(list, k) == CHOOSE i \in DOMAIN list : list[i] = k

Others(k) == Without(lru[ShardOf[k]], Place(lru[ShardOf[k]], k))

(* Mutant: a hit leaves the list as it is. *)
StayInPlace(k) == lru[ShardOf[k]]

MoveToFront(k) == <<k>> \o Others(k)

(* k was used: it is the latest for the other keys of its shard. *)
Use(k) ==
  since' = [j \in Key |-> IF j = k THEN {}
                          ELSE IF ShardOf[j] = ShardOf[k] THEN since[j] \cup {k} ELSE since[j]]

(* Mutant: the entry leaves the list and stays in the map. *)
RemoveFromList(k) ==
  /\ lru' = [lru EXCEPT ![ShardOf[k]] = Others(k)]
  /\ UNCHANGED items

Delete(k) ==
  /\ lru' = [lru EXCEPT ![ShardOf[k]] = Others(k)]
  /\ items' = [items EXCEPT ![k] = NoEntry]

----------------------------------------------------------------------------
(* Operations *)

Found(k, value) == got' = [key |-> k, value |-> value]

(* Mutant: the time of expiry is not looked at. *)
HitStale(k) ==
  /\ Has(k)
  /\ lru' = [lru EXCEPT ![ShardOf[k]] = MoveToFront(k)]
  /\ Found(k, items[k].value)
  /\ Use(k)
  /\ UNCHANGED items

Hit(k) ==
  /\ Has(k) /\ ~Expired(k)
  /\ lru' = [lru EXCEPT ![ShardOf[k]] = MoveToFront(k)]
  /\ Found(k, items[k].value)
  /\ Use(k)
  /\ UNCHANGED items

GetExpired(k) ==
  /\ Has(k) /\ Expired(k)
  /\ Delete(k)
  /\ Found(k, None)
  /\ UNCHANGED since

GetMiss(k) ==
  /\ ~Has(k)
  /\ Found(k, None)
  /\ UNCHANGED <<items, lru, since>>

Get(k) ==
  /\ Hit(k) \/ GetExpired(k) \/ GetMiss(k)
  /\ UNCHANGED <<time, capacity, written>>

New(v) == [value |-> v, expireAt |-> time + Ttl]

(* An entry is updated even if it has expired. *)
Update(k, v) ==
  /\ Has(k)
  /\ lru' = [lru EXCEPT ![ShardOf[k]] = MoveToFront(k)]
  /\ items' = [items EXCEPT ![k] = New(v)]

(* PushFront, and evict from the back while there are too many. *)
Add(k, v) ==
  LET pushed == <<k>> \o lru[ShardOf[k]]
      kept   == IF Len(pushed) > capacity THEN capacity ELSE Len(pushed)
      gone   == {pushed[i] : i \in kept + 1 .. Len(pushed)}
  IN /\ ~Has(k)
     /\ lru' = [lru EXCEPT ![ShardOf[k]] = SubSeq(pushed, 1, kept)]
     /\ items' = [j \in Key |-> IF j \in gone THEN NoEntry ELSE IF j = k THEN New(v) ELSE items[j]]

Set(k, v) ==
  /\ Update(k, v) \/ Add(k, v)
  /\ written' = [written EXCEPT ![k] = New(v)]
  /\ Use(k)
  /\ UNCHANGED <<time, capacity, got>>

Invalidate(k) ==
  /\ Has(k)
  /\ Delete(k)
  /\ written' = [written EXCEPT ![k] = NoEntry]
  /\ UNCHANGED <<time, capacity, got, since>>

Tick ==
  /\ time < MaxTime
  /\ time' = time + 1
  /\ UNCHANGED <<capacity, items, lru, got, written, since>>

Init ==
  /\ time = 0
  /\ capacity \in {PerShard(total) : total \in Capacities}
  /\ items = [k \in Key |-> NoEntry]
  /\ lru = [s \in Shard |-> <<>>]
  /\ got \in [key : Key, value : {None}]
  /\ written = [k \in Key |-> NoEntry]
  /\ since = [k \in Key |-> {}]

Next ==
  \/ \E k \in Key : Get(k) \/ Invalidate(k) \/ \E v \in Value : Set(k, v)
  \/ Tick

Spec == Init /\ [][Next]_vars

----------------------------------------------------------------------------
(* The list of a shard holds the keys of its map, each once and no more     *)
(* than its capacity, after any sequence of operations: an entry outside    *)
(* the list would never be evicted, a key listed twice would evict another  *)
(* entry early (l1cache.go:90).                                             *)
Coherent ==
  \A s \in Shard :
    /\ {lru[s][i] : i \in DOMAIN lru[s]} = {k \in Key : ShardOf[k] = s /\ Has(k)}
    /\ \A i, j \in DOMAIN lru[s] : lru[s][i] = lru[s][j] => i = j
    /\ Len(lru[s]) <= capacity

(* What was set is there until it expires, is invalidated, or is the least  *)
(* recently used of a full shard.                                           *)
RecentKept ==
  \A k \in Key :
    written[k] # NoEntry /\ time <= written[k].expireAt /\ Cardinality(since[k]) < capacity
      => items[k] = written[k]

(* A Get finds what was set last or nothing, and nothing that has expired.  *)
Visible == [k \in Key |-> IF Has(k) /\ ~Expired(k) THEN items[k].value ELSE None]

Lossy == INSTANCE LossyMap WITH map <- Visible, answer <- got

(* Shards, capacity, LRU order and lazy expiry together are a map that only *)
(* loses entries, as ShortLink takes it to be.                              *)
ImplementsLossyMap == Lossy!Spec
============================================================================
