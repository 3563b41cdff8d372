---------------------------- MODULE L1CacheProofs ----------------------------
(***************************************************************************)
(* The cache is coherent, keeps what was used recently, and is a map that  *)
(* only loses entries, for any keys, shards, capacities and times to live. *)
(***************************************************************************)
EXTENDS L1Cache, SequenceTheorems, FunctionTheorems, FiniteSetTheorems, TLAPS

(* A list that holds no key twice. *)
Distinct(list) == \A i, j \in DOMAIN list : list[i] = list[j] => i = j

Elements(list) == {list[i] : i \in DOMAIN list}

----------------------------------------------------------------------------
(* Lists *)

(* An element of a list is at its place. *)
LEMMA PlaceOf ==
  ASSUME NEW list \in Seq(Key), NEW k \in Elements(list)
  PROVE  Place(list, k) \in 1 .. Len(list) /\ list[Place(list, k)] = k
BY DEF Place, Elements

(* Taking one element out leaves the others in their order. *)
LEMMA WithoutOne ==
  ASSUME NEW list \in Seq(Key), NEW i \in 1 .. Len(list)
  PROVE  /\ Without(list, i) \in Seq(Key)
         /\ Len(Without(list, i)) = Len(list) - 1
         /\ \A j \in 1 .. Len(list) - 1 :
              Without(list, i)[j] = IF j < i THEN list[j] ELSE list[j + 1]
<1> DEFINE front == SubSeq(list, 1, i - 1)
           back  == SubSeq(list, i + 1, Len(list))
<1>1. /\ front \in Seq(Key) /\ Len(front) = i - 1
      /\ \A j \in 1 .. i - 1 : front[j] = list[j]
  BY SubSeqProperties
<1>2. /\ back \in Seq(Key) /\ Len(back) = Len(list) - i
      /\ \A j \in 1 .. Len(list) - i : back[j] = list[i + j]
  BY SubSeqProperties
<1>3. Without(list, i) = front \o back
  BY DEF Without
<1>0. Len(list) \in Nat /\ i \in Int
  OBVIOUS
<1>4. /\ front \o back \in Seq(Key) /\ Len(front \o back) = Len(list) - 1
  <2> HIDE DEF front, back
  <2>1. /\ front \o back \in Seq(Key) /\ Len(front \o back) = Len(front) + Len(back)
    BY <1>1, <1>2, ConcatProperties
  <2>2. QED BY <1>0, <1>1, <1>2, <2>1
<1>5. ASSUME NEW j \in 1 .. Len(list) - 1
      PROVE  (front \o back)[j] = IF j < i THEN list[j] ELSE list[j + 1]
  <2> HIDE DEF front, back
  <2>1. CASE j < i
    BY <1>1, <1>2, <2>1, ConcatProperties
  <2>2. CASE ~(j < i)
    <3>1. j - (i - 1) \in 1 .. Len(list) - i
      BY <2>2
    <3>2. (front \o back)[j] = back[j - (i - 1)]
      BY <1>1, <1>2, <2>2, <3>1
    <3>3. back[j - (i - 1)] = list[i + (j - (i - 1))]
      BY <1>2, <3>1
    <3>4. i + (j - (i - 1)) = j + 1
      OBVIOUS
    <3>5. QED BY <2>2, <3>2, <3>3, <3>4
  <2>3. QED BY <1>0, <2>1, <2>2
<1>6. QED BY <1>3, <1>4, <1>5

(* Putting one element in front moves the others by one. *)
LEMMA InFront ==
  ASSUME NEW list \in Seq(Key), NEW k \in Key
  PROVE  /\ <<k>> \o list \in Seq(Key)
         /\ Len(<<k>> \o list) = Len(list) + 1
         /\ (<<k>> \o list)[1] = k
         /\ \A j \in 2 .. Len(list) + 1 : (<<k>> \o list)[j] = list[j - 1]
OBVIOUS

(* Without an element of a list of distinct keys are its other keys. *)
LEMMA WithoutKey ==
  ASSUME NEW list \in Seq(Key), Distinct(list), NEW k \in Elements(list)
  PROVE  LET rest == Without(list, Place(list, k)) IN
         /\ rest \in Seq(Key) /\ Len(rest) = Len(list) - 1
         /\ Distinct(rest) /\ Elements(rest) = Elements(list) \ {k}
<1> DEFINE i == Place(list, k)
           rest == Without(list, i)
<1>1. i \in 1 .. Len(list) /\ list[i] = k
  BY PlaceOf
<1> HIDE DEF i
<1>2. /\ rest \in Seq(Key) /\ Len(rest) = Len(list) - 1
      /\ \A j \in 1 .. Len(list) - 1 : rest[j] = IF j < i THEN list[j] ELSE list[j + 1]
  BY <1>1, WithoutOne
<1> HIDE DEF rest
<1>3. DOMAIN rest = 1 .. Len(list) - 1 /\ DOMAIN list = 1 .. Len(list)
  BY <1>2
<1>4. Distinct(rest)
  BY <1>1, <1>2, <1>3 DEF Distinct
<1>5. Elements(rest) \subseteq Elements(list) \ {k}
  BY <1>1, <1>2, <1>3 DEF Distinct, Elements
<1>6. ASSUME NEW j \in Elements(list), j # k
      PROVE  j \in Elements(rest)
  <2>1. PICK n \in 1 .. Len(list) : list[n] = j
    BY <1>3 DEF Elements
  <2>2. n # i
    BY <1>1, <1>6, <2>1
  <2>3. CASE n < i
    <3>1. n \in 1 .. Len(list) - 1 /\ rest[n] = list[n]
      BY <1>1, <1>2, <2>3
    <3>2. QED BY <1>3, <2>1, <3>1 DEF Elements
  <2>4. CASE n > i
    <3>1. n - 1 \in 1 .. Len(list) - 1 /\ rest[n - 1] = list[n]
      BY <1>1, <1>2, <2>4
    <3>2. QED BY <1>3, <2>1, <3>1 DEF Elements
  <2>5. QED BY <1>1, <2>2, <2>3, <2>4
<1>7. QED BY <1>2, <1>4, <1>5, <1>6 DEF rest, i

(* A new key in front keeps the keys distinct. *)
LEMMA FrontKey ==
  ASSUME NEW list \in Seq(Key), Distinct(list), NEW k \in Key, k \notin Elements(list)
  PROVE  /\ Distinct(<<k>> \o list)
         /\ Elements(<<k>> \o list) = Elements(list) \cup {k}
<1> DEFINE pushed == <<k>> \o list
<1>1. /\ pushed \in Seq(Key) /\ Len(pushed) = Len(list) + 1 /\ pushed[1] = k
      /\ \A j \in 2 .. Len(list) + 1 : pushed[j] = list[j - 1]
  BY InFront
<1> HIDE DEF pushed
<1>2. DOMAIN pushed = 1 .. Len(list) + 1 /\ DOMAIN list = 1 .. Len(list) /\ Len(list) \in Nat
  BY <1>1
<1>3. \A j \in 2 .. Len(list) + 1 : j - 1 \in DOMAIN list
  BY <1>2
<1>4. Distinct(pushed)
  <2> SUFFICES ASSUME NEW a \in 1 .. Len(list) + 1, NEW b \in 1 .. Len(list) + 1,
                      pushed[a] = pushed[b]
               PROVE  a = b
    BY <1>2 DEF Distinct
  <2>1. \A j \in 2 .. Len(list) + 1 : pushed[j] \in Elements(list)
    BY <1>1, <1>3 DEF Elements
  <2>2. CASE a = 1 \/ b = 1
    BY <1>1, <1>2, <2>1, <2>2
  <2>3. CASE a # 1 /\ b # 1
    <3>1. a \in 2 .. Len(list) + 1 /\ b \in 2 .. Len(list) + 1
      BY <1>2, <2>3
    <3>2. list[a - 1] = list[b - 1]
      BY <1>1, <3>1
    <3>3. a - 1 = b - 1
      BY <1>3, <3>1, <3>2 DEF Distinct
    <3>4. QED BY <3>1, <3>3
  <2>4. QED BY <2>2, <2>3
<1>5. \A j \in DOMAIN list : j + 1 \in DOMAIN pushed /\ pushed[j + 1] = list[j]
  BY <1>1, <1>2
<1>6. Elements(list) \cup {k} \subseteq Elements(pushed)
  BY <1>1, <1>2, <1>5 DEF Elements
<1>7. Elements(pushed) \subseteq Elements(list) \cup {k}
  BY <1>1, <1>2, <1>3 DEF Elements
<1>8. QED BY <1>4, <1>6, <1>7 DEF pushed

(* A prefix of a list of distinct keys lacks the keys behind it. *)
LEMMA Prefix ==
  ASSUME NEW list \in Seq(Key), Distinct(list), NEW n \in 1 .. Len(list)
  PROVE  /\ SubSeq(list, 1, n) \in Seq(Key) /\ Len(SubSeq(list, 1, n)) = n
         /\ \A i \in 1 .. n : SubSeq(list, 1, n)[i] = list[i]
         /\ Distinct(SubSeq(list, 1, n))
         /\ Elements(SubSeq(list, 1, n)) = Elements(list) \ {list[i] : i \in n + 1 .. Len(list)}
<1> DEFINE front == SubSeq(list, 1, n)
<1>1. /\ front \in Seq(Key) /\ Len(front) = n
      /\ \A i \in 1 .. n : front[i] = list[i]
  BY SubSeqProperties
<1> HIDE DEF front
<1>2. DOMAIN front = 1 .. n /\ DOMAIN list = 1 .. Len(list) /\ Len(list) \in Nat /\ n \in Nat
  BY <1>1
<1>3. Distinct(front)
  BY <1>1, <1>2 DEF Distinct
<1>4. \A i \in DOMAIN list : i \in DOMAIN front <=> i \notin n + 1 .. Len(list)
  BY <1>2
<1>5. Elements(front) = Elements(list) \ {list[i] : i \in n + 1 .. Len(list)}
  <2>1. ASSUME NEW i \in DOMAIN front
        PROVE  list[i] \in Elements(list) /\ list[i] \notin {list[j] : j \in n + 1 .. Len(list)}
    BY <1>2 DEF Distinct, Elements
  <2>2. ASSUME NEW i \in DOMAIN list, list[i] \notin {list[j] : j \in n + 1 .. Len(list)}
        PROVE  list[i] \in Elements(front)
    BY <1>1, <1>2, <1>4, <2>2 DEF Elements
  <2>3. ASSUME NEW e \in Elements(front)
        PROVE  e \in Elements(list) \ {list[i] : i \in n + 1 .. Len(list)}
    <3>1. PICK i \in DOMAIN front : front[i] = e
      BY DEF Elements
    <3>2. e = list[i]
      BY <1>1, <1>2, <3>1
    <3>3. QED BY <2>1, <3>2
  <2>4. ASSUME NEW e \in Elements(list) \ {list[i] : i \in n + 1 .. Len(list)}
        PROVE  e \in Elements(front)
    <3>1. PICK i \in DOMAIN list : list[i] = e
      BY DEF Elements
    <3>2. QED BY <2>2, <3>1
  <2>5. QED BY <2>3, <2>4
<1>6. QED BY <1>1, <1>3, <1>5 DEF front

----------------------------------------------------------------------------
(* Entries are not the absence of one. *)
LEMMA EntryIsSome ==
  ASSUME NEW v \in Value, time \in 0 .. MaxTime
  PROVE  New(v) \in Entry /\ New(v) # NoEntry
BY NoneAssumption, TimeAssumption DEF New, Entry, NoEntry

(* The list of k's shard, in a state that is well typed and coherent. *)
LEMMA ListOf ==
  ASSUME TypeOK, Coherent, NEW k \in Key
  PROVE  LET list == lru[ShardOf[k]] IN
         /\ ShardOf[k] \in Shard /\ list \in Seq(Key) /\ Distinct(list)
         /\ Elements(list) = {j \in Key : ShardOf[j] = ShardOf[k] /\ Has(j)}
         /\ Len(list) <= capacity /\ Len(list) \in Nat
BY ShardAssumption DEF TypeOK, Coherent, Distinct, Elements

(* An absent key goes in front; the keys behind the capacity go. *)
Gone(pushed, kept) == {pushed[i] : i \in kept + 1 .. Len(pushed)}

Pushed(k, v, pushed, kept) ==
  /\ Len(pushed) = Len(lru[ShardOf[k]]) + 1
  /\ pushed[1] = k /\ \A j \in 2 .. Len(pushed) : pushed[j] = lru[ShardOf[k]][j - 1]
  /\ Distinct(pushed)
  /\ Elements(pushed) = {k} \cup {j \in Key : ShardOf[j] = ShardOf[k] /\ Has(j)}
  /\ kept <= capacity /\ (kept < Len(pushed) => kept = capacity)
  /\ lru' = [lru EXCEPT ![ShardOf[k]] = SubSeq(pushed, 1, kept)]
  /\ items' = [j \in Key |-> IF j \in Gone(pushed, kept) THEN NoEntry
                            ELSE IF j = k THEN New(v) ELSE items[j]]
  /\ k \notin Gone(pushed, kept)
  /\ Gone(pushed, kept) \subseteq {j \in Key : ShardOf[j] = ShardOf[k]}

(* That is what Set does to an absent key. *)
LEMMA Added ==
  ASSUME TypeOK, Coherent, NEW k \in Key, NEW v \in Value, Add(k, v)
  PROVE  \E pushed \in Seq(Key) : \E kept \in 1 .. Len(pushed) : Pushed(k, v, pushed, kept)
<1> DEFINE list == lru[ShardOf[k]]
           pushed == <<k>> \o list
           kept == IF Len(pushed) > capacity THEN capacity ELSE Len(pushed)
           gone == Gone(pushed, kept)
<1>1. /\ ShardOf[k] \in Shard /\ list \in Seq(Key) /\ Distinct(list)
      /\ Elements(list) = {j \in Key : ShardOf[j] = ShardOf[k] /\ Has(j)}
      /\ Len(list) <= capacity /\ Len(list) \in Nat
  BY ListOf
<1>2. k \notin Elements(list)
  BY <1>1 DEF Add
<1>3. /\ lru' = [lru EXCEPT ![ShardOf[k]] = SubSeq(pushed, 1, kept)]
      /\ items' = [j \in Key |-> IF j \in gone THEN NoEntry ELSE IF j = k THEN New(v) ELSE items[j]]
  BY DEF Add, Gone
<1>4. capacity \in Nat \ {0}
  BY DEF TypeOK
<1> HIDE DEF list
<1>5. /\ pushed \in Seq(Key) /\ Len(pushed) = Len(list) + 1 /\ pushed[1] = k
      /\ \A j \in 2 .. Len(list) + 1 : pushed[j] = list[j - 1]
  BY <1>1, InFront
<1>6. Distinct(pushed) /\ Elements(pushed) = Elements(list) \cup {k}
  BY <1>1, <1>2, FrontKey
<1> HIDE DEF pushed
<1>7. /\ kept \in 1 .. Len(pushed) /\ kept <= capacity /\ (kept < Len(pushed) => kept = capacity)
  BY <1>1, <1>4, <1>5
<1> HIDE DEF kept
<1>8. DOMAIN pushed = 1 .. Len(pushed) /\ Len(pushed) \in Nat
  BY <1>5
<1>9. \A i \in kept + 1 .. Len(pushed) : i \in DOMAIN pushed /\ i # 1 /\ 1 \in DOMAIN pushed
  BY <1>7, <1>8
<1>10. k \notin gone
  BY <1>5, <1>6, <1>9 DEF Distinct, Gone
<1>11. gone \subseteq {j \in Key : ShardOf[j] = ShardOf[k]}
  <2>1. gone \subseteq Elements(pushed)
    BY <1>9 DEF Elements, Gone
  <2>2. QED BY <1>1, <1>6, <2>1
<1>12. Elements(pushed) = {k} \cup {j \in Key : ShardOf[j] = ShardOf[k] /\ Has(j)}
  BY <1>1, <1>6
<1> USE <1>5, <1>7
<1> WITNESS pushed \in Seq(Key)
<1> WITNESS kept \in 1 .. Len(pushed)
<1>13. QED BY <1>3, <1>5, <1>6, <1>7, <1>10, <1>11, <1>12 DEF pushed, list, Pushed

(* What moving a present key to the front, or taking it out, makes of its   *)
(* list.                                                                    *)
LEMMA Touched ==
  ASSUME TypeOK, Coherent, NEW k \in Key, Has(k)
  PROVE  LET list == lru[ShardOf[k]] IN
         /\ Others(k) \in Seq(Key) /\ Len(Others(k)) = Len(list) - 1
         /\ Distinct(Others(k)) /\ Elements(Others(k)) = Elements(list) \ {k}
         /\ MoveToFront(k) \in Seq(Key) /\ Len(MoveToFront(k)) = Len(list)
         /\ Distinct(MoveToFront(k)) /\ Elements(MoveToFront(k)) = Elements(list)
<1> DEFINE list == lru[ShardOf[k]]
<1>1. /\ list \in Seq(Key) /\ Distinct(list) /\ k \in Elements(list) /\ Len(list) \in Nat
  BY ListOf
<1>2. /\ Others(k) \in Seq(Key) /\ Len(Others(k)) = Len(list) - 1
      /\ Distinct(Others(k)) /\ Elements(Others(k)) = Elements(list) \ {k}
  <2> HIDE DEF list
  <2>1. Others(k) = Without(list, Place(list, k))
    BY DEF Others, list
  <2>2. QED BY <1>1, <2>1, WithoutKey
<1>3. /\ MoveToFront(k) \in Seq(Key) /\ Len(MoveToFront(k)) = Len(Others(k)) + 1
      /\ Distinct(MoveToFront(k)) /\ Elements(MoveToFront(k)) = Elements(Others(k)) \cup {k}
  BY <1>2, InFront, FrontKey DEF MoveToFront
<1>4. QED BY <1>1, <1>2, <1>3

(* Type correctness, a step at a time. *)
LEMMA TypeStep ==
  ASSUME TypeOK, Coherent, [Next]_vars
  PROVE  TypeOK'
<1>1. ASSUME NEW k \in Key
      PROVE  ShardOf[k] \in Shard
  BY ShardAssumption
<1>2. ASSUME NEW k \in Key, Get(k)
      PROVE  TypeOK'
  <2>1. CASE Hit(k)
    <3>1. MoveToFront(k) \in Seq(Key)
      BY <2>1, Touched DEF Hit
    <3>2. items[k].value \in Value
      BY <2>1 DEF TypeOK, Entry, Hit, Has
    <3>3. QED BY <1>2, <2>1, <3>1, <3>2 DEF TypeOK, Get, Hit, Found, Use
  <2>2. CASE GetExpired(k)
    <3>1. Others(k) \in Seq(Key)
      BY <2>2, Touched DEF GetExpired
    <3>2. QED BY <1>2, <2>2, <3>1 DEF TypeOK, Get, GetExpired, Delete, Found
  <2>3. CASE GetMiss(k)
    BY <1>2, <2>3 DEF TypeOK, Get, GetMiss, Found
  <2>4. QED BY <1>2, <2>1, <2>2, <2>3 DEF Get
<1>3. ASSUME NEW k \in Key, NEW v \in Value, Set(k, v)
      PROVE  TypeOK'
  <2>1. New(v) \in Entry
    BY EntryIsSome DEF TypeOK
  <2>2. CASE Update(k, v)
    <3>1. MoveToFront(k) \in Seq(Key)
      BY <2>2, Touched DEF Update
    <3>2. QED BY <1>3, <2>1, <2>2, <3>1 DEF TypeOK, Set, Update, Use
  <2>3. CASE Add(k, v)
    <3>1. PICK pushed \in Seq(Key) : \E kept \in 1 .. Len(pushed) : Pushed(k, v, pushed, kept)
      BY <2>3, Added
    <3>2. PICK kept \in 1 .. Len(pushed) : Pushed(k, v, pushed, kept)
      BY <3>1
    <3>3. SubSeq(pushed, 1, kept) \in Seq(Key)
      BY <3>1, <3>2, Prefix DEF Pushed
    <3>4. lru' \in [Shard -> Seq(Key)]
      BY <3>2, <3>3 DEF TypeOK, Pushed
    <3>5. items' \in [Key -> Entry \cup {NoEntry}]
      BY <2>1, <3>2 DEF TypeOK, Pushed
    <3>6. QED BY <1>3, <2>1, <3>4, <3>5 DEF TypeOK, Set, Use
  <2>4. QED BY <1>3, <2>2, <2>3 DEF Set
<1>4. ASSUME NEW k \in Key, Invalidate(k)
      PROVE  TypeOK'
  <2>1. Others(k) \in Seq(Key)
    BY <1>4, Touched DEF Invalidate
  <2>2. QED BY <1>4, <2>1 DEF TypeOK, Invalidate, Delete
<1>5. CASE Tick
  BY <1>5, TimeAssumption DEF TypeOK, Tick
<1>6. CASE UNCHANGED vars
  BY <1>6 DEF TypeOK, vars
<1>7. QED BY <1>2, <1>3, <1>4, <1>5, <1>6 DEF Next

(* A step on one shard keeps the cache coherent if it does so there. *)
LEMMA ShardStep ==
  ASSUME TypeOK, Coherent, NEW k \in Key, NEW list \in Seq(Key), UNCHANGED capacity,
         lru' = [lru EXCEPT ![ShardOf[k]] = list],
         Distinct(list), Len(list) <= capacity,
         Elements(list) = {j \in Key : ShardOf[j] = ShardOf[k] /\ Has(j)'},
         \A j \in Key : ShardOf[j] # ShardOf[k] => (Has(j)' <=> Has(j))
  PROVE  Coherent'
<1> SUFFICES ASSUME NEW s \in Shard
             PROVE  /\ {lru'[s][i] : i \in DOMAIN lru'[s]} = {j \in Key : ShardOf[j] = s /\ Has(j)'}
                    /\ \A i, j \in DOMAIN lru'[s] : lru'[s][i] = lru'[s][j] => i = j
                    /\ Len(lru'[s]) <= capacity
  BY DEF Coherent, Has
<1>1. CASE s = ShardOf[k]
  <2>1. lru'[s] = list
    BY <1>1 DEF TypeOK
  <2>2. QED BY <1>1, <2>1 DEF Distinct, Elements
<1>2. CASE s # ShardOf[k]
  <2>1. lru'[s] = lru[s]
    BY <1>2 DEF TypeOK
  <2>2. {j \in Key : ShardOf[j] = s /\ Has(j)'} = {j \in Key : ShardOf[j] = s /\ Has(j)}
    BY <1>2
  <2>3. QED BY <2>1, <2>2 DEF Coherent
<1>3. QED BY <1>1, <1>2

(* The cache stays coherent. *)
LEMMA CoherentStep ==
  ASSUME TypeOK, Coherent, [Next]_vars
  PROVE  Coherent'
<1>1. ASSUME NEW k \in Key, Has(k), lru' = [lru EXCEPT ![ShardOf[k]] = MoveToFront(k)],
             \A j \in Key : Has(j)' <=> Has(j), UNCHANGED capacity
      PROVE  Coherent'
  <2>1. /\ MoveToFront(k) \in Seq(Key) /\ Distinct(MoveToFront(k)) /\ Len(MoveToFront(k)) <= capacity
        /\ Elements(MoveToFront(k)) = {j \in Key : ShardOf[j] = ShardOf[k] /\ Has(j)}
    BY <1>1, Touched, ListOf
  <2>2. QED BY <1>1, <2>1, ShardStep
<1>2. ASSUME NEW k \in Key, Has(k), Delete(k), UNCHANGED capacity
      PROVE  Coherent'
  <2>1. \A j \in Key : Has(j)' <=> Has(j) /\ j # k
    BY <1>2 DEF Delete, Has, TypeOK
  <2>2. /\ Others(k) \in Seq(Key) /\ Distinct(Others(k)) /\ Len(Others(k)) = Len(lru[ShardOf[k]]) - 1
        /\ Elements(Others(k)) = {j \in Key : ShardOf[j] = ShardOf[k] /\ Has(j)} \ {k}
        /\ Len(lru[ShardOf[k]]) <= capacity /\ Len(lru[ShardOf[k]]) \in Nat /\ capacity \in Nat
    BY <1>2, Touched, ListOf DEF TypeOK
  <2>3. Elements(Others(k)) = {j \in Key : ShardOf[j] = ShardOf[k] /\ Has(j)'}
    BY <2>1, <2>2
  <2>4. Len(Others(k)) <= capacity
    BY <2>2
  <2>5. lru' = [lru EXCEPT ![ShardOf[k]] = Others(k)]
    BY <1>2 DEF Delete
  <2>6. QED BY <1>2, <2>1, <2>2, <2>3, <2>4, <2>5, ShardStep
<1>3. ASSUME NEW k \in Key, Get(k)
      PROVE  Coherent'
  <2>1. CASE Hit(k)
    BY <1>1, <1>3, <2>1 DEF Get, Hit, Has
  <2>2. CASE GetExpired(k)
    BY <1>2, <1>3, <2>2 DEF Get, GetExpired
  <2>3. CASE GetMiss(k)
    BY <1>3, <2>3 DEF Get, GetMiss, Coherent, Has
  <2>4. QED BY <1>3, <2>1, <2>2, <2>3 DEF Get
<1>4. ASSUME NEW k \in Key, NEW v \in Value, Set(k, v)
      PROVE  Coherent'
  <2>1. New(v) # NoEntry
    BY EntryIsSome DEF TypeOK
  <2>2. CASE Update(k, v)
    <3>1. \A j \in Key : Has(j)' <=> Has(j)
      BY <2>1, <2>2 DEF Update, Has, TypeOK
    <3>2. QED BY <1>1, <1>4, <2>2, <3>1 DEF Set, Update
  <2>3. CASE Add(k, v)
    <3>1. PICK pushed \in Seq(Key) : \E kept \in 1 .. Len(pushed) : Pushed(k, v, pushed, kept)
      BY <2>3, Added
    <3>2. PICK kept \in 1 .. Len(pushed) : Pushed(k, v, pushed, kept)
      BY <3>1
    <3> DEFINE gone == Gone(pushed, kept)
               list == SubSeq(pushed, 1, kept)
    <3>3. /\ list \in Seq(Key) /\ Len(list) = kept /\ Distinct(list)
          /\ Elements(list) = Elements(pushed) \ gone
      BY <3>1, <3>2, Prefix DEF Pushed, Gone
    <3> HIDE DEF list, gone
    <3>4. \A j \in Key : Has(j)' <=> j \notin gone /\ (j = k \/ Has(j))
      BY <2>1, <3>2 DEF Has, gone, Pushed
    <3>5. k \notin gone /\ gone \subseteq {j \in Key : ShardOf[j] = ShardOf[k]}
      BY <3>2 DEF gone, Pushed
    <3>6. Elements(list) = {j \in Key : ShardOf[j] = ShardOf[k] /\ Has(j)'}
      BY <3>2, <3>3, <3>4, <3>5 DEF Pushed
    <3>7. lru' = [lru EXCEPT ![ShardOf[k]] = list] /\ Len(list) <= capacity
      BY <3>2, <3>3 DEF list, Pushed
    <3>8. \A j \in Key : ShardOf[j] # ShardOf[k] => (Has(j)' <=> Has(j))
      BY <3>4, <3>5
    <3>9. QED BY <1>4, <3>3, <3>6, <3>7, <3>8, ShardStep DEF Set
  <2>4. QED BY <1>4, <2>2, <2>3 DEF Set
<1>5. ASSUME NEW k \in Key, Invalidate(k)
      PROVE  Coherent'
  BY <1>2, <1>5 DEF Invalidate
<1>6. CASE Tick
  BY <1>6 DEF Tick, Coherent, Has
<1>7. CASE UNCHANGED vars
  BY <1>7 DEF vars, Coherent, Has
<1>8. QED BY <1>3, <1>4, <1>5, <1>6, <1>7 DEF Next

----------------------------------------------------------------------------
(* a is in front of b. *)
Precedes(list, a, b) == \E i, j \in DOMAIN list : i < j /\ list[i] = a /\ list[j] = b

(* Recency: the keys in front of a key were used after it, and as many as   *)
(* the shard holds were used after one that was evicted.                    *)
KeptOf(k) ==
  /\ IsFiniteSet(since[k])
  /\ Has(k) => /\ items[k] = written[k]
               /\ \A j \in Key : Precedes(lru[ShardOf[k]], j, k) => j \in since[k]
  /\ ~Has(k) /\ written[k] # NoEntry /\ time <= written[k].expireAt =>
       Cardinality(since[k]) >= capacity

Recency == \A k \in Key : KeptOf(k)

(* The first n elements of a list of distinct keys are n.                   *)
LEMMA CountFront ==
  ASSUME NEW list \in Seq(Key), Distinct(list), NEW n \in 0 .. Len(list)
  PROVE  LET front == {list[i] : i \in 1 .. n} IN
         IsFiniteSet(front) /\ Cardinality(front) = n
<1> DEFINE front == {list[i] : i \in 1 .. n}
           f == [i \in 1 .. n |-> list[i]]
<1>0. Len(list) \in Nat /\ n \in Nat /\ DOMAIN list = 1 .. Len(list)
  OBVIOUS
<1>1. f \in Bijection(1 .. n, front)
  <2>1. \A i, j \in 1 .. n : f[i] = f[j] => i = j
    BY <1>0 DEF Distinct
  <2>2. f \in [1 .. n -> front] /\ \A e \in front : \E i \in 1 .. n : f[i] = e
    OBVIOUS
  <2>3. QED BY <2>1, <2>2, Fun_IsBij
<1>2. ExistsBijection(1 .. n, front)
  BY <1>1 DEF ExistsBijection
<1>3. QED BY <1>0, <1>2, FS_CountingElements, FS_NatBijection

(* Taking a key out changes no order. *)
LEMMA WithoutOrder ==
  ASSUME NEW list \in Seq(Key), NEW n \in 1 .. Len(list), NEW a, NEW b,
         Precedes(Without(list, n), a, b)
  PROVE  Precedes(list, a, b)
<1> DEFINE rest == Without(list, n)
<1>0. Len(list) \in Nat
  OBVIOUS
<1>1. /\ rest \in Seq(Key) /\ Len(rest) = Len(list) - 1 /\ Len(list) \in Nat
      /\ \A j \in 1 .. Len(list) - 1 : rest[j] = IF j < n THEN list[j] ELSE list[j + 1]
  BY <1>0, WithoutOne, Zenon
<1> HIDE DEF rest
<1>2. PICK i \in DOMAIN rest, j \in DOMAIN rest : i < j /\ rest[i] = a /\ rest[j] = b
  BY DEF Precedes, rest
<1>3. i \in 1 .. Len(list) - 1 /\ j \in 1 .. Len(list) - 1 /\ DOMAIN list = 1 .. Len(list)
  BY <1>1
<1> DEFINE old(m) == IF m < n THEN m ELSE m + 1
<1>4. old(i) \in DOMAIN list /\ old(j) \in DOMAIN list /\ old(i) < old(j)
  BY <1>1, <1>2, <1>3
<1>5. list[old(i)] = a /\ list[old(j)] = b
  BY <1>1, <1>2, <1>3
<1>6. QED BY <1>4, <1>5 DEF Precedes

(* Putting a key in front puts it before the others. *)
LEMMA FrontOrder ==
  ASSUME NEW list \in Seq(Key), NEW k \in Key, NEW a, NEW b,
         Precedes(<<k>> \o list, a, b), a # k
  PROVE  Precedes(list, a, b)
<1> DEFINE pushed == <<k>> \o list
<1>1. /\ pushed \in Seq(Key) /\ Len(pushed) = Len(list) + 1 /\ pushed[1] = k /\ Len(list) \in Nat
      /\ \A j \in 2 .. Len(list) + 1 : pushed[j] = list[j - 1]
  BY InFront
<1> HIDE DEF pushed
<1>2. PICK i \in DOMAIN pushed, j \in DOMAIN pushed : i < j /\ pushed[i] = a /\ pushed[j] = b
  BY DEF Precedes, pushed
<1>3. i \in 2 .. Len(list) + 1 /\ j \in 2 .. Len(list) + 1 /\ DOMAIN list = 1 .. Len(list)
  BY <1>1, <1>2
<1>4. /\ i - 1 \in DOMAIN list /\ j - 1 \in DOMAIN list /\ i - 1 < j - 1
      /\ list[i - 1] = a /\ list[j - 1] = b
  BY <1>1, <1>2, <1>3
<1>5. QED BY <1>4 DEF Precedes

(* A prefix has the order of the list. *)
LEMMA PrefixOrder ==
  ASSUME NEW list \in Seq(Key), Distinct(list), NEW n \in 1 .. Len(list), NEW a, NEW b,
         Precedes(SubSeq(list, 1, n), a, b)
  PROVE  Precedes(list, a, b)
<1> DEFINE front == SubSeq(list, 1, n)
<1>1. /\ front \in Seq(Key) /\ Len(front) = n /\ \A i \in 1 .. n : front[i] = list[i]
  BY Prefix
<1> HIDE DEF front
<1>2. PICK i \in DOMAIN front, j \in DOMAIN front : i < j /\ front[i] = a /\ front[j] = b
  BY DEF Precedes, front
<1>3. i \in 1 .. n /\ j \in 1 .. n /\ DOMAIN list = 1 .. Len(list)
  BY <1>1
<1>4. i \in DOMAIN list /\ j \in DOMAIN list /\ list[i] = a /\ list[j] = b
  BY <1>1, <1>2, <1>3
<1>5. QED BY <1>2, <1>4 DEF Precedes

(* Moving a present key to the front, in terms of order. *)
LEMMA MovedOrder ==
  ASSUME TypeOK, Coherent, NEW k \in Key, Has(k), NEW a, NEW b,
         Precedes(MoveToFront(k), a, b)
  PROVE  a = k \/ Precedes(lru[ShardOf[k]], a, b)
<1> DEFINE list == lru[ShardOf[k]]
<1>1. list \in Seq(Key) /\ k \in Elements(list) /\ Others(k) \in Seq(Key)
  BY ListOf, Touched
<1>2. Others(k) = Without(list, Place(list, k)) /\ Place(list, k) \in 1 .. Len(list)
  BY <1>1, PlaceOf DEF Others
<1>3. CASE a # k
  <2>1. Precedes(Others(k), a, b)
    BY <1>1, <1>3, FrontOrder DEF MoveToFront
  <2> HIDE DEF list
  <2>2. Precedes(list, a, b)
    BY <1>1, <1>2, <2>1, WithoutOrder
  <2>3. QED BY <2>2 DEF list
<1>4. QED BY <1>3

(* Using a key counts it for the others of its shard. *)
LEMMA Used ==
  ASSUME TypeOK, Recency, NEW k \in Key, Use(k)
  PROVE  /\ since'[k] = {}
         /\ \A j \in Key : IsFiniteSet(since'[j])
         /\ \A j \in Key \ {k} : /\ since[j] \subseteq since'[j]
                                 /\ ShardOf[j] = ShardOf[k] => k \in since'[j]
                                 /\ Cardinality(since[j]) \in Nat
                                 /\ Cardinality(since'[j]) \in Nat
                                 /\ Cardinality(since[j]) <= Cardinality(since'[j])
<1>1. since'[k] = {}
  BY DEF Use
<1>2. ASSUME NEW j \in Key \ {k}
      PROVE  /\ since'[j] = since[j] \/ since'[j] = since[j] \cup {k}
             /\ ShardOf[j] = ShardOf[k] => k \in since'[j]
  BY DEF Use
<1>3. ASSUME NEW j \in Key \ {k}
      PROVE  IsFiniteSet(since'[j]) /\ IsFiniteSet(since[j])
  <2>1. IsFiniteSet(since[j])
    BY DEF Recency, KeptOf
  <2>2. IsFiniteSet(since[j] \cup {k})
    BY <2>1, FS_AddElement
  <2>3. CASE since'[j] = since[j]
    BY <2>1, <2>3
  <2>4. CASE since'[j] = since[j] \cup {k}
    BY <2>1, <2>2, <2>4
  <2>5. QED BY <1>2, <2>3, <2>4
<1>4. ASSUME NEW j \in Key \ {k}
      PROVE  /\ Cardinality(since[j]) \in Nat /\ Cardinality(since'[j]) \in Nat
             /\ Cardinality(since[j]) <= Cardinality(since'[j])
  <2>1. since[j] \in SUBSET since'[j]
    BY <1>2
  <2>2. QED BY <1>3, <2>1, FS_Subset, FS_CardinalityType
<1>5. QED BY <1>1, <1>2, <1>3, <1>4, FS_EmptySet

(* A step that uses k keeps recency if k goes to the front, and a key that  *)
(* goes has a full shard in front of it.                                    *)
LEMMA UseStep ==
  ASSUME TypeOK, Recency, NEW k \in Key, Use(k), UNCHANGED <<time, capacity>>,
         Has(k)', \A a \in Key : ~Precedes(lru'[ShardOf[k]], a, k),
         \A j \in Key : Has(j)' => items'[j] = written'[j],
         \A j \in Key \ {k} : written'[j] = written[j],
         \A j \in Key \ {k} : Has(j)' => Has(j),
         \A j \in Key \ {k}, a \in Key : Has(j)' /\ Precedes(lru'[ShardOf[j]], a, j) =>
           (a = k /\ ShardOf[j] = ShardOf[k]) \/ Precedes(lru[ShardOf[j]], a, j),
         \A j \in Key \ {k} : Has(j) /\ ~Has(j)' => Cardinality(since'[j]) >= capacity
  PROVE  Recency'
<1> SUFFICES ASSUME NEW j \in Key
             PROVE  KeptOf(j)'
  BY DEF Recency
<1>0. /\ \A i \in Key : IsFiniteSet(since'[i])
      /\ \A i \in Key \ {k} : /\ since[i] \subseteq since'[i]
                              /\ ShardOf[i] = ShardOf[k] => k \in since'[i]
                              /\ Cardinality(since[i]) \in Nat
                              /\ Cardinality(since'[i]) \in Nat
                              /\ Cardinality(since[i]) <= Cardinality(since'[i])
  BY Used, Zenon
<1>1. IsFiniteSet(since'[j])
  BY <1>0
<1>2. KeptOf(j) /\ capacity \in Nat
  BY DEF Recency, TypeOK
<1>3. CASE j = k
  BY <1>1, <1>3 DEF KeptOf
<1>4. CASE j # k
  <2>0. /\ since[j] \subseteq since'[j]
        /\ ShardOf[j] = ShardOf[k] => k \in since'[j]
        /\ Cardinality(since[j]) \in Nat /\ Cardinality(since'[j]) \in Nat
        /\ Cardinality(since[j]) <= Cardinality(since'[j])
    <3>1. j \in Key \ {k}
      BY <1>4
    <3>2. QED BY <1>0, <3>1, Zenon
  <2>1. ASSUME Has(j)', NEW a \in Key, Precedes(lru'[ShardOf[j]], a, j)
        PROVE  a \in since'[j]
    <3>1. CASE a = k /\ ShardOf[j] = ShardOf[k]
      BY <2>0, <3>1
    <3>2. CASE Precedes(lru[ShardOf[j]], a, j)
      <4>1. a \in since[j]
        BY <1>2, <1>4, <2>1, <3>2 DEF KeptOf
      <4>2. QED BY <2>0, <4>1
    <3>3. QED BY <1>4, <2>1, <3>1, <3>2
  <2>2. ASSUME ~Has(j)', written'[j] # NoEntry, time' <= written'[j].expireAt
        PROVE  Cardinality(since'[j]) >= capacity
    <3>1. CASE Has(j)
      BY <1>4, <2>2, <3>1
    <3>2. CASE ~Has(j)
      <4>1. Cardinality(since[j]) >= capacity
        BY <1>2, <1>4, <2>2, <3>2 DEF KeptOf
      <4>2. /\ Cardinality(since[j]) \in Nat /\ Cardinality(since'[j]) \in Nat
            /\ Cardinality(since[j]) <= Cardinality(since'[j])
        BY <2>0
      <4>3. QED BY <1>2, <4>1, <4>2
    <3>3. QED BY <3>1, <3>2
  <2>3. QED BY <1>1, <2>1, <2>2 DEF KeptOf
<1>5. QED BY <1>3, <1>4

(* A step that uses no key and changes no order keeps recency, if it takes  *)
(* out only what has expired or was never to be kept.                       *)
LEMMA UnusedStep ==
  ASSUME Recency, UNCHANGED <<since, capacity>>,
         \A j \in Key : Has(j)' => Has(j) /\ items'[j] = items[j] /\ written'[j] = written[j],
         \A j \in Key, a \in Key :
           Has(j)' /\ Precedes(lru'[ShardOf[j]], a, j) => Precedes(lru[ShardOf[j]], a, j),
         \A j \in Key : ~Has(j)' /\ written'[j] # NoEntry /\ time' <= written'[j].expireAt =>
           ~Has(j) /\ written'[j] = written[j] /\ time <= written[j].expireAt
  PROVE  Recency'
<1> SUFFICES ASSUME NEW j \in Key
             PROVE  KeptOf(j)'
  BY DEF Recency
<1>1. KeptOf(j)
  BY DEF Recency
<1>2. QED BY <1>1 DEF KeptOf

(* The first of a list of distinct keys has none in front. *)
LEMMA FirstHasNone ==
  ASSUME NEW list \in Seq(Key), Distinct(list), list # <<>>, NEW a
  PROVE  ~Precedes(list, a, list[1])
<1> SUFFICES ASSUME NEW i \in DOMAIN list, NEW j \in DOMAIN list, i < j, list[j] = list[1]
             PROVE  FALSE
  BY DEF Precedes
<1>1. DOMAIN list = 1 .. Len(list) /\ Len(list) \in Nat
  OBVIOUS
<1>2. 1 \in DOMAIN list
  BY <1>1
<1>3. j = 1
  BY <1>2 DEF Distinct
<1>4. QED BY <1>1, <1>3

(* Keys are only in the list of their shard. *)
LEMMA PrecedesHas ==
  ASSUME TypeOK, Coherent, NEW s \in Shard, NEW a, NEW k, Precedes(lru[s], a, k)
  PROVE  k \in Key /\ Has(k) /\ ShardOf[k] = s
BY DEF Coherent, Precedes

(* A used, present key keeps recency.  Hit and Update. *)
LEMMA MoveStep ==
  ASSUME TypeOK, Coherent, Recency, NEW k \in Key, Has(k), Use(k), UNCHANGED <<time, capacity>>,
         lru' = [lru EXCEPT ![ShardOf[k]] = MoveToFront(k)],
         \A j \in Key : Has(j)' <=> Has(j),
         \A j \in Key \ {k} : items'[j] = items[j] /\ written'[j] = written[j],
         items'[k] = written'[k]
  PROVE  Recency'
<1>1. ShardOf[k] \in Shard
  BY ShardAssumption
<1>2. lru'[ShardOf[k]] = MoveToFront(k)
  BY <1>1 DEF TypeOK
<1>3. \A a \in Key : ~Precedes(lru'[ShardOf[k]], a, k)
  <2>1. MoveToFront(k) \in Seq(Key) /\ Distinct(MoveToFront(k)) /\ Others(k) \in Seq(Key)
    BY Touched
  <2>2. MoveToFront(k) # <<>> /\ MoveToFront(k)[1] = k
    BY <2>1, InFront DEF MoveToFront
  <2>3. QED BY <1>2, <2>1, <2>2, FirstHasNone
<1>4. ASSUME NEW j \in Key \ {k}, NEW a \in Key, Precedes(lru'[ShardOf[j]], a, j)
      PROVE  (a = k /\ ShardOf[j] = ShardOf[k]) \/ Precedes(lru[ShardOf[j]], a, j)
  <2>1. CASE ShardOf[j] = ShardOf[k]
    <3>1. Precedes(MoveToFront(k), a, j)
      BY <1>2, <1>4, <2>1
    <3>2. a = k \/ Precedes(lru[ShardOf[k]], a, j)
      BY <3>1, MovedOrder
    <3>3. QED BY <2>1, <3>2
  <2>2. CASE ShardOf[j] # ShardOf[k]
    <3>1. lru'[ShardOf[j]] = lru[ShardOf[j]]
      BY <2>2, ShardAssumption DEF TypeOK
    <3>2. QED BY <1>4, <3>1
  <2>3. QED BY <2>1, <2>2
<1>5. \A j \in Key : Has(j)' => items'[j] = written'[j]
  BY DEF Recency, KeptOf
<1>6. QED BY <1>3, <1>4, <1>5, UseStep

(* A key taken out after it expired or was invalidated. *)
LEMMA DeleteStep ==
  ASSUME TypeOK, Coherent, Recency, NEW k \in Key, Has(k), Delete(k), UNCHANGED <<since, time, capacity>>,
         \A j \in Key \ {k} : written'[j] = written[j],
         written'[k] = NoEntry \/ (written'[k] = written[k] /\ ~(time <= written[k].expireAt))
  PROVE  Recency'
<1>1. /\ \A j \in Key \ {k} : items'[j] = items[j] /\ (Has(j)' <=> Has(j))
      /\ ~Has(k)'
  BY DEF Delete, Has, TypeOK
<1>2. ASSUME NEW j \in Key, NEW a \in Key, Precedes(lru'[ShardOf[j]], a, j)
      PROVE  Precedes(lru[ShardOf[j]], a, j)
  <2>1. CASE ShardOf[j] = ShardOf[k]
    <3> DEFINE list == lru[ShardOf[k]]
    <3>1. list \in Seq(Key) /\ Place(list, k) \in 1 .. Len(list)
      BY ListOf, PlaceOf
    <3>2. lru'[ShardOf[j]] = Without(list, Place(list, k))
      BY <2>1, ShardAssumption DEF Delete, Others, TypeOK
    <3> HIDE DEF list
    <3>3. Precedes(list, a, j)
      BY <1>2, <3>1, <3>2, WithoutOrder
    <3>4. QED BY <2>1, <3>3 DEF list
  <2>2. CASE ShardOf[j] # ShardOf[k]
    <3>1. lru'[ShardOf[j]] = lru[ShardOf[j]]
      BY <2>2, ShardAssumption DEF Delete, TypeOK
    <3>2. QED BY <1>2, <3>1
  <2>3. QED BY <2>1, <2>2
<1>3. \A j \in Key : Has(j)' => Has(j) /\ items'[j] = items[j] /\ written'[j] = written[j]
  BY <1>1
<1>4. \A j \in Key : ~Has(j)' /\ written'[j] # NoEntry /\ time' <= written'[j].expireAt =>
        ~Has(j) /\ written'[j] = written[j] /\ time <= written[j].expireAt
  BY <1>1
<1>5. QED BY <1>2, <1>3, <1>4, UnusedStep

(* A key added: those that go have a full shard in front of them. *)
LEMMA AddStep ==
  ASSUME TypeOK, Coherent, Recency, NEW k \in Key, NEW v \in Value, Add(k, v), Use(k),
         UNCHANGED <<time, capacity>>, written' = [written EXCEPT ![k] = New(v)]
  PROVE  Recency'
<1>1. PICK pushed \in Seq(Key) : \E kept \in 1 .. Len(pushed) : Pushed(k, v, pushed, kept)
  BY Added
<1>2. PICK kept \in 1 .. Len(pushed) : Pushed(k, v, pushed, kept)
  BY <1>1
<1> DEFINE list == lru[ShardOf[k]]
           gone == Gone(pushed, kept)
           new  == SubSeq(pushed, 1, kept)
<1>3. /\ ShardOf[k] \in Shard /\ list \in Seq(Key) /\ Distinct(list) /\ Len(list) \in Nat
      /\ Elements(list) = {j \in Key : ShardOf[j] = ShardOf[k] /\ Has(j)}
  BY ListOf
<1>4. /\ Len(pushed) = Len(list) + 1 /\ pushed[1] = k /\ Distinct(pushed)
      /\ \A j \in 2 .. Len(pushed) : pushed[j] = list[j - 1]
      /\ DOMAIN pushed = 1 .. Len(pushed) /\ DOMAIN list = 1 .. Len(list)
      /\ kept <= capacity /\ (kept < Len(pushed) => kept = capacity)
  <2>1. DOMAIN pushed = 1 .. Len(pushed) /\ DOMAIN list = 1 .. Len(list)
    <3> HIDE DEF list
    <3>1. QED BY <1>3
  <2>2. QED BY <1>2, <2>1 DEF Pushed
<1>5. /\ new \in Seq(Key) /\ Len(new) = kept /\ Distinct(new) /\ new[1] = k
      /\ \A i \in 1 .. kept : new[i] = pushed[i]
  BY <1>2, <1>4, Prefix
<1>6. lru'[ShardOf[k]] = new /\ \A s \in Shard : s # ShardOf[k] => lru'[s] = lru[s]
  BY <1>2, <1>3 DEF Pushed, TypeOK
<1>7. New(v) # NoEntry
  BY EntryIsSome DEF TypeOK
<1>8. /\ k \notin gone
      /\ \A j \in Key : items'[j] = IF j \in gone THEN NoEntry ELSE IF j = k THEN New(v) ELSE items[j]
      /\ \A j \in gone : ShardOf[j] = ShardOf[k]
  BY <1>2 DEF Pushed
<1>9. /\ Has(k)' /\ items'[k] = New(v)
      /\ \A j \in Key \ {k} : /\ Has(j)' => j \notin gone /\ Has(j) /\ items'[j] = items[j]
                              /\ Has(j) /\ ~Has(j)' => j \in gone
  BY <1>7, <1>8 DEF Has
<1>10. written'[k] = New(v) /\ \A j \in Key \ {k} : written'[j] = written[j]
  BY DEF TypeOK
<1>11. \A j \in Key : Has(j)' => items'[j] = written'[j]
  BY <1>9, <1>10 DEF Recency, KeptOf
<1>12. \A a \in Key : ~Precedes(lru'[ShardOf[k]], a, k)
  <2> HIDE DEF new
  <2>1. new # <<>>
    BY <1>5
  <2>2. QED BY <1>5, <1>6, <2>1, FirstHasNone
<1>13. ASSUME NEW a \in Key, NEW b \in Key, Precedes(pushed, a, b)
       PROVE  a = k \/ Precedes(list, a, b)
  <2> HIDE DEF list
  <2>1. PICK i \in DOMAIN pushed, j \in DOMAIN pushed : i < j /\ pushed[i] = a /\ pushed[j] = b
    BY <1>13 DEF Precedes
  <2>2. CASE i = 1
    BY <1>4, <2>1, <2>2
  <2>3. CASE i # 1
    <3>1. i \in 2 .. Len(pushed) /\ j \in 2 .. Len(pushed)
      BY <1>3, <1>4, <2>1, <2>3
    <3>2. /\ i - 1 \in DOMAIN list /\ j - 1 \in DOMAIN list /\ i - 1 < j - 1
          /\ list[i - 1] = a /\ list[j - 1] = b
      BY <1>3, <1>4, <2>1, <3>1
    <3>3. QED BY <3>2 DEF Precedes
  <2>4. QED BY <2>2, <2>3
<1>14. ASSUME NEW j \in Key \ {k}, NEW a \in Key, Precedes(lru'[ShardOf[j]], a, j)
       PROVE  (a = k /\ ShardOf[j] = ShardOf[k]) \/ Precedes(lru[ShardOf[j]], a, j)
  <2>1. CASE ShardOf[j] = ShardOf[k]
    <3>1. Precedes(pushed, a, j)
      <4>1. Precedes(SubSeq(pushed, 1, kept), a, j)
        BY <1>6, <1>14, <2>1
      <4>2. QED BY <1>4, <4>1, PrefixOrder
    <3>2. QED BY <1>13, <2>1, <3>1
  <2>2. CASE ShardOf[j] # ShardOf[k]
    BY <1>6, <1>14, <2>2, ShardAssumption
  <2>3. QED BY <2>1, <2>2
<1>15. ASSUME NEW j \in Key \ {k}, j \in gone
       PROVE  Cardinality(since'[j]) >= capacity
  <2>1. PICK m \in kept + 1 .. Len(pushed) : pushed[m] = j
    BY <1>15 DEF Gone
  <2>2. kept = capacity /\ capacity \in 0 .. Len(pushed) /\ m \in DOMAIN pushed
    BY <1>3, <1>4, <2>1 DEF TypeOK
  <2> DEFINE front == {pushed[i] : i \in 1 .. capacity}
  <2>3. IsFiniteSet(front) /\ Cardinality(front) = capacity
    BY <1>4, <2>2, CountFront
  <2>4. ASSUME NEW i \in 1 .. capacity
        PROVE  pushed[i] \in since'[j]
    <3>1. i \in DOMAIN pushed /\ i < m /\ pushed[i] \in Key
      BY <1>4, <2>1, <2>2
    <3>2. Precedes(pushed, pushed[i], j)
      BY <2>1, <2>2, <3>1 DEF Precedes
    <3>3. ShardOf[j] = ShardOf[k] /\ Has(j)
      <4>1. m \in 2 .. Len(pushed) /\ m - 1 \in DOMAIN list
        BY <1>3, <1>4, <2>1, <2>2
      <4>2. list[m - 1] = j
        BY <1>4, <2>1, <4>1
      <4>3. j \in Elements(list)
        BY <4>1, <4>2 DEF Elements
      <4>4. QED BY <1>3, <4>3
    <3>4. since[j] \subseteq since'[j] /\ k \in since'[j]
      BY <3>3, Used, Zenon
    <3>5. CASE pushed[i] = k
      BY <3>4, <3>5
    <3>6. CASE Precedes(list, pushed[i], j)
      <4>1. pushed[i] \in since[j]
        BY <3>1, <3>3, <3>6 DEF Recency, KeptOf
      <4>2. QED BY <3>4, <4>1
    <3>7. QED BY <1>13, <3>1, <3>2, <3>5, <3>6
  <2>5. front \in SUBSET since'[j]
    BY <2>4
  <2>6. IsFiniteSet(since'[j])
    BY Used, Zenon
  <2>7. Cardinality(front) <= Cardinality(since'[j])
    BY <2>5, <2>6, FS_Subset
  <2>8. QED BY <2>2, <2>3, <2>6, <2>7, FS_CardinalityType
<1>16. QED BY <1>9, <1>10, <1>11, <1>12, <1>14, <1>15, UseStep

(* What was used recently is kept. *)
LEMMA RecencyStep ==
  ASSUME TypeOK, Coherent, Recency, [Next]_vars
  PROVE  Recency'
<1>1. ASSUME NEW k \in Key, Get(k)
      PROVE  Recency'
  <2>1. CASE Hit(k)
    <3>1. UNCHANGED <<items, time, capacity, written>> /\ Has(k) /\ Use(k)
      BY <1>1, <2>1 DEF Get, Hit
    <3>2. items[k] = written[k]
      BY <3>1 DEF Recency, KeptOf
    <3>3. \A j \in Key : Has(j)' <=> Has(j)
      BY <3>1 DEF Has
    <3>4. QED BY <2>1, <3>1, <3>2, <3>3, MoveStep DEF Hit
  <2>2. CASE GetExpired(k)
    <3>1. UNCHANGED <<since, time, capacity, written>> /\ Has(k) /\ Delete(k)
      BY <1>1, <2>2 DEF Get, GetExpired
    <3>2. items[k] = written[k] /\ items[k] \in Entry
      BY <3>1 DEF Recency, KeptOf, TypeOK, Has
    <3>3. ~(time <= written[k].expireAt)
      BY <2>2, <3>2, TimeAssumption DEF GetExpired, Expired, TypeOK, Entry
    <3>4. QED BY <3>1, <3>3, DeleteStep
  <2>3. CASE GetMiss(k)
    BY <1>1, <2>3 DEF Get, GetMiss, Recency, KeptOf, Has
  <2>4. QED BY <1>1, <2>1, <2>2, <2>3 DEF Get
<1>2. ASSUME NEW k \in Key, NEW v \in Value, Set(k, v)
      PROVE  Recency'
  <2>1. /\ Use(k) /\ UNCHANGED <<time, capacity>> /\ written' = [written EXCEPT ![k] = New(v)]
    BY <1>2 DEF Set
  <2>2. CASE Update(k, v)
    <3>1. /\ items'[k] = New(v) /\ written'[k] = New(v)
          /\ \A j \in Key \ {k} : items'[j] = items[j] /\ written'[j] = written[j]
      BY <2>1, <2>2 DEF Update, TypeOK
    <3>2. \A j \in Key : Has(j)' <=> Has(j)
      BY <2>2, <3>1, EntryIsSome DEF Has, Update, TypeOK
    <3>3. QED BY <2>1, <2>2, <3>1, <3>2, MoveStep DEF Update
  <2>3. CASE Add(k, v)
    BY <2>1, <2>3, AddStep
  <2>4. QED BY <1>2, <2>2, <2>3 DEF Set
<1>3. ASSUME NEW k \in Key, Invalidate(k)
      PROVE  Recency'
  <2>1. /\ Has(k) /\ Delete(k) /\ UNCHANGED <<since, time, capacity>>
        /\ written'[k] = NoEntry /\ \A j \in Key \ {k} : written'[j] = written[j]
    BY <1>3 DEF Invalidate, TypeOK
  <2>2. QED BY <2>1, DeleteStep
<1>4. CASE Tick
  <2>1. UNCHANGED <<since, capacity, items, lru, written>> /\ time' = time + 1 /\ time \in Nat
    BY <1>4 DEF Tick, TypeOK
  <2>2. \A j \in Key : Has(j)' <=> Has(j)
    BY <2>1 DEF Has
  <2>3. ASSUME NEW j \in Key, written[j] # NoEntry, time' <= written[j].expireAt
        PROVE  time <= written[j].expireAt
    <3>1. written[j].expireAt \in Nat
      BY <2>3, TimeAssumption DEF TypeOK, Entry
    <3>2. QED BY <2>1, <2>3, <3>1
  <2>4. QED BY <2>1, <2>2, <2>3, UnusedStep
<1>5. CASE UNCHANGED vars
  BY <1>5 DEF vars, Recency, KeptOf, Has
<1>6. QED BY <1>1, <1>2, <1>3, <1>4, <1>5 DEF Next

----------------------------------------------------------------------------
CacheInv == TypeOK /\ Coherent /\ Recency

(* The empty cache satisfies the invariant. *)
LEMMA CacheInit == Init => CacheInv
<1> SUFFICES ASSUME Init PROVE CacheInv
  OBVIOUS
<1>1. capacity \in Nat \ {0}
  <2>1. PICK total \in Capacities : capacity = PerShard(total)
    BY DEF Init
  <2>2. Cardinality(Shard) \in Nat \ {0} /\ total \in Nat
    BY ShardAssumption, CapacityAssumption, FS_CardinalityType, FS_EmptySet
  <2>3. QED BY <2>1, <2>2 DEF PerShard
<1>2. TypeOK
  BY <1>1, TimeAssumption DEF Init, TypeOK
<1>3. Coherent
  BY <1>1 DEF Init, Coherent, Has
<1>4. Recency
  BY FS_EmptySet DEF Init, Recency, KeptOf, Has
<1>5. QED BY <1>2, <1>3, <1>4 DEF CacheInv

(* Every reachable cache satisfies the invariant. *)
THEOREM CacheInvariant == Spec => []CacheInv
<1>1. CacheInv /\ [Next]_vars => CacheInv'
  BY TypeStep, CoherentStep, RecencyStep DEF CacheInv
<1>2. QED BY <1>1, CacheInit, PTL DEF Spec

(* Type correctness. *)
THEOREM CacheTypeCorrect == Spec => []TypeOK
<1>1. CacheInv => TypeOK
  BY DEF CacheInv
<1>2. QED BY <1>1, CacheInvariant, PTL

(* Map and list of every shard hold the same keys, within the capacity.     *)
THEOREM AlwaysCoherent == Spec => []Coherent
<1>1. CacheInv => Coherent
  BY DEF CacheInv
<1>2. QED BY <1>1, CacheInvariant, PTL

(* An entry leaves only by expiry, invalidation, or as the least recently   *)
(* used of a full shard.                                                    *)
THEOREM RecentlyUsedKept == Spec => []RecentKept
<1>1. CacheInv => RecentKept
  <2> SUFFICES ASSUME CacheInv, NEW k \in Key, written[k] # NoEntry,
                      time <= written[k].expireAt, Cardinality(since[k]) < capacity
               PROVE  items[k] = written[k]
    BY DEF RecentKept
  <2>1. KeptOf(k) /\ Cardinality(since[k]) \in Nat /\ capacity \in Nat
    BY FS_CardinalityType DEF CacheInv, Recency, KeptOf, TypeOK
  <2>2. Has(k)
    BY <2>1 DEF KeptOf
  <2>3. QED BY <2>1, <2>2 DEF KeptOf
<1>2. QED BY <1>1, CacheInvariant, PTL

(* The cache is a map that only loses entries.                              *)
THEOREM CacheIsLossyMap == Spec => ImplementsLossyMap
<1>1. Init => Lossy!Init
  BY DEF Init, Lossy!Init, Visible, Has
<1>2. ASSUME CacheInv, [Next]_vars
      PROVE  [Lossy!Next]_(Lossy!vars)
  <2>0. TypeOK
    BY <1>2 DEF CacheInv
  <2>1. DOMAIN Visible' = Key
    BY DEF Visible
  <2>2. ASSUME NEW k \in Key
        PROVE  Visible[k] = (IF Has(k) /\ ~Expired(k) THEN items[k].value ELSE None)
    BY DEF Visible
  <2>3. ASSUME NEW k \in Key, Get(k)
        PROVE  Lossy!Next
    <3>1. ASSUME Visible' = Visible, got' = [key |-> k, value |-> Visible[k]]
          PROVE  Lossy!Next
      BY <2>1, <3>1 DEF Lossy!Next, Lossy!Read
    <3>2. CASE Hit(k)
      BY <2>2, <2>3, <3>1, <3>2 DEF Get, Hit, Found, Visible, Has, Expired
    <3>3. CASE GetMiss(k)
      BY <2>2, <2>3, <3>1, <3>3 DEF Get, GetMiss, Found, Visible, Has, Expired
    <3>4. CASE GetExpired(k)
      <4>1. Visible' = Visible
        <5>1. ASSUME NEW j \in Key
              PROVE  (Has(j) /\ ~Expired(j))' <=> (Has(j) /\ ~Expired(j))
          BY <2>0, <2>3, <3>4 DEF Get, GetExpired, Delete, Has, Expired, TypeOK
        <5>2. ASSUME NEW j \in Key, Has(j)'
              PROVE  items'[j] = items[j]
          BY <2>0, <3>4, <5>2 DEF GetExpired, Delete, Has, TypeOK
        <5>3. QED BY <5>1, <5>2 DEF Visible
      <4>2. got' = [key |-> k, value |-> Visible[k]]
        BY <2>2, <3>4 DEF GetExpired, Found
      <4>3. QED BY <3>1, <4>1, <4>2
    <3>5. QED BY <2>3, <3>2, <3>3, <3>4 DEF Get
  <2>4. ASSUME NEW k \in Key, NEW v \in Value, Set(k, v)
        PROVE  Lossy!Next
    <3>0. UNCHANGED <<time, got>> /\ New(v) \in Entry /\ New(v) # NoEntry
      BY <2>0, <2>4, EntryIsSome DEF Set, TypeOK
    <3>1. \A j \in Key \ {k} : items'[j] \in {items[j], NoEntry}
      BY <2>0, <2>4 DEF Set, Update, Add, TypeOK
    <3>2. items'[k] \in {New(v), NoEntry}
      BY <2>0, <2>4 DEF Set, Update, Add, TypeOK
    <3>3. ASSUME NEW j \in Key \ {k}
          PROVE  Visible'[j] \in {Visible[j], None}
      BY <3>0, <3>1 DEF Visible, Has, Expired
    <3>4. Visible'[k] \in {v, None}
      <4>1. CASE items'[k] = NoEntry
        BY <4>1 DEF Visible, Has
      <4>2. CASE items'[k] = New(v)
        <5>1. New(v).value = v
          BY DEF New
        <5>2. QED BY <4>2, <5>1 DEF Visible
      <4>3. QED BY <3>2, <4>1, <4>2
    <3>5. Lossy!Losing(k)
      BY <3>3 DEF Lossy!Losing
    <3>6. QED BY <2>1, <3>0, <3>4, <3>5 DEF Lossy!Next, Lossy!Write, Lossy!Lose
  <2>5. ASSUME NEW k \in Key, Invalidate(k)
        PROVE  Lossy!Next
    <3>1. UNCHANGED <<time, got>> /\ items'[k] = NoEntry /\ \A j \in Key \ {k} : items'[j] = items[j]
      BY <2>0, <2>5 DEF Invalidate, Delete, TypeOK
    <3>2. Visible'[k] = None /\ \A j \in Key \ {k} : Visible'[j] = Visible[j]
      BY <3>1 DEF Visible, Has, Expired
    <3>3. QED BY <2>1, <3>1, <3>2 DEF Lossy!Next, Lossy!Lose, Lossy!Losing
  <2>6. CASE Tick
    <3>1. \A j \in Key : Visible'[j] \in {Visible[j], None}
      <4>1. ASSUME NEW j \in Key
            PROVE  Visible'[j] \in {Visible[j], None}
        <5>1. UNCHANGED items /\ time' = time + 1 /\ time \in Nat
          BY <2>0, <2>6 DEF Tick, TypeOK
        <5>2. Has(j)' = Has(j)
          BY <5>1 DEF Has
        <5>3. Has(j) => items[j].expireAt \in Nat
          BY <2>0, TimeAssumption DEF TypeOK, Has, Entry
        <5>4. Has(j) /\ Expired(j) => Expired(j)'
          BY <5>1, <5>3 DEF Expired
        <5>5. QED BY <5>1, <5>2, <5>4 DEF Visible
      <4>2. QED BY <4>1
    <3>2. CASE \A j \in Key : Visible'[j] = Visible[j]
      <4>1. Visible' = Visible
        BY <3>2 DEF Visible
      <4>2. QED BY <2>6, <4>1 DEF Tick, Lossy!vars
    <3>3. CASE \E k \in Key : Visible'[k] # Visible[k]
      <4>1. PICK k \in Key : Visible'[k] # Visible[k]
        BY <3>3
      <4>2. Visible'[k] = None /\ Lossy!Losing(k) /\ UNCHANGED got
        BY <2>6, <3>1, <4>1 DEF Tick, Lossy!Losing
      <4>3. QED BY <2>1, <4>2 DEF Lossy!Next, Lossy!Lose
    <3>4. QED BY <3>2, <3>3
  <2>7. CASE UNCHANGED vars
    BY <2>7 DEF vars, Lossy!vars, Visible, Has, Expired
  <2>8. QED BY <1>2, <2>3, <2>4, <2>5, <2>6, <2>7 DEF Next
<1>3. QED BY <1>1, <1>2, CacheInvariant, PTL DEF Spec, ImplementsLossyMap, Lossy!Spec
=============================================================================
