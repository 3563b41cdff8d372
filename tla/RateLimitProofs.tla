-------------------------- MODULE RateLimitProofs --------------------------
(***************************************************************************)
(* Proofs about RateLimit, for every capacity, rate, number of pods and    *)
(* requests, and every clock error and delay within the slack of the key.  *)
(***************************************************************************)
EXTENDS RateLimit, TLAPS

(* What so many seconds are worth. *)
Worth(seconds) == Rate * seconds

(* Added to a stored time: how far it may be above the earliest that a      *)
(* command could store now.                                                 *)
Horizon == Skew + Delay - time

(* A command carries the clock of its pod at a moment at most Delay ago. *)
CommandInv ==
  \A r \in Request : Travels(r) =>
    /\ req[r].at <= time /\ time - req[r].at <= Delay
    /\ req[r].stamp \in Stamp(req[r].at)

(* So the time stored in the bucket was near the true time when it was set. *)
BucketInv ==
  bucket.live => /\ bucket.setAt <= time
                 /\ bucket.setAt - Delay - Skew <= bucket.ts
                 /\ bucket.ts <= bucket.setAt + Skew

(* What was handed out and what is left stay within the capacity and the    *)
(* refill up to the stored time.                                            *)
ExcessInv ==
  excess > 0 => /\ bucket.live
                /\ bucket.tokens + excess <= Cap + Worth(bucket.ts + Horizon)

LocalInv ==
  \A p \in Pod : /\ local[p].made => local[p].tokens + local[p].excess <= Cap
                 /\ ~local[p].made => local[p].excess = 0

LimitInv == TypeOK /\ CommandInv /\ BucketInv /\ ExcessInv /\ LocalInv

----------------------------------------------------------------------------
(* Arithmetic *)

(* A product by Rate grows with its factor. *)
LEMMA WorthGrows ==
  ASSUME NEW a \in Int, NEW b \in Int, a <= b
  PROVE  Worth(a) <= Worth(b) /\ Worth(a) \in Int /\ Worth(b) \in Int
BY BucketAssumption DEF Worth

(* It distributes over sums. *)
LEMMA WorthAdds ==
  ASSUME NEW a \in Int, NEW b \in Int
  PROVE  /\ Worth(a + b) = Worth(a) + Worth(b)
         /\ Worth(1) = Rate /\ Worth(0) = 0
BY BucketAssumption DEF Worth

(* A time moves from s to n: by what is refilled, or is set back. *)
LEMMA WorthMoves ==
  ASSUME NEW n \in Int, NEW s \in Int, NEW h \in Int
  PROVE  /\ Worth(n + h) = Worth(s + h) + Worth(Minus(n, s)) - Worth(Minus(s, n))
         /\ Worth(n + h) \in Int /\ Worth(s + h) \in Int
         /\ Worth(Minus(n, s)) \in Nat /\ Worth(Minus(s, n)) \in Nat
<1>1. CASE n > s
  BY <1>1, BucketAssumption DEF Worth, Minus
<1>2. CASE n <= s
  BY <1>2, BucketAssumption DEF Worth, Minus
<1> QED
  BY <1>1, <1>2

(* A bucket fills within the lifetime of its key, less the slack. *)
LEMMA TtlFills == Ttl \in Nat /\ Ttl >= Slack /\ Cap <= Worth(Ttl - Slack)
<1> DEFINE q == (Cap + Rate - 1) \div Rate
<1>1. q \in Nat /\ Rate * q + Rate > Cap + Rate - 1
  BY BucketAssumption
<1>2. Ttl = q + Slack
  BY DEF Ttl
<1> QED
  BY <1>1, <1>2, BucketAssumption, SlackAssumption DEF Worth

(* Subtraction that stops at zero. *)
LEMMA MinusIsNat ==
  ASSUME NEW a \in Int, NEW b \in Int
  PROVE  /\ Minus(a, b) \in Nat
         /\ a > b => Minus(a, b) = a - b
         /\ a <= b => Minus(a, b) = 0
BY DEF Minus

(* A refill leaves at most Cap tokens, and adds at most Rate per second. *)
LEMMA RefillFits ==
  ASSUME TypeOK, NEW now \in Int
  PROVE  /\ Refill(now) \in 0 .. Cap
         /\ bucket.live => Refill(now) <= bucket.tokens + Worth(Minus(now, bucket.ts))
         /\ bucket.live => Refill(now) >= Smaller(Cap, Minus(now, bucket.ts))
         /\ Refill(now) - Taken(now) \in 0 .. Cap
         /\ Taken(now) \in {0, 1} /\ Taken(now) <= Refill(now)
         /\ (Taken(now) = 0) <=> (Refill(now) = 0)
<1> DEFINE d == Minus(now, bucket.ts)
<1>1. bucket.tokens \in 0 .. Cap /\ bucket.ts \in Int
  BY DEF TypeOK
<1>2. d \in Nat
  BY <1>1, MinusIsNat
<1>3. Rate * d \in Nat /\ Rate * d >= d
  BY <1>2, BucketAssumption
<1>4. /\ Refill(now) \in 0 .. Cap
      /\ bucket.live => Refill(now) <= bucket.tokens + Worth(d)
      /\ bucket.live => Refill(now) >= Smaller(Cap, d)
  BY <1>1, <1>2, <1>3, BucketAssumption DEF Refill, Smaller, Worth
<1>5. /\ Taken(now) \in {0, 1} /\ Taken(now) <= Refill(now)
      /\ (Taken(now) = 0) <=> (Refill(now) = 0)
  BY <1>4, BucketAssumption DEF Taken, Allowed
<1>6. Refill(now) - Taken(now) \in 0 .. Cap
  BY <1>4, <1>5, BucketAssumption
<1> QED
  BY <1>4, <1>5, <1>6

(* A second lowers what was handed out by Rate, or to nothing. *)
LEMMA ChargeSecond ==
  ASSUME NEW e \in Nat
  PROVE  /\ Charge(e, 1, 0) \in Nat /\ Charge(e, 1, 0) <= e
         /\ Charge(e, 1, 0) = 0 \/ Charge(e, 1, 0) = e - Rate
BY BucketAssumption DEF Charge, Minus

(* Charging never goes below zero. *)
LEMMA ChargeFits ==
  ASSUME NEW e \in Nat, NEW s \in Nat, NEW k \in Nat
  PROVE  /\ Charge(e, s, k) \in Nat
         /\ \/ Charge(e, s, k) = k
            \/ Charge(e, s, k) = e - Worth(s) + k
BY BucketAssumption DEF Charge, Minus, Worth

----------------------------------------------------------------------------
(* The script, executed on behalf of a command that travels *)

(* The stored time stays near the true time. *)
LEMMA ScriptBucket ==
  ASSUME LimitInv, NEW r \in Request, Travels(r), Script(req[r].stamp)
  PROVE  /\ bucket' \in [live : BOOLEAN, tokens : 0 .. Cap, ts : Int, setAt : 0 .. MaxTime]
         /\ BucketInv' /\ excess' \in Nat
<1> DEFINE n == req[r].stamp
<1>1. /\ n \in Int /\ req[r].at \in Nat /\ time \in 0 .. MaxTime
      /\ req[r].at <= time /\ time - req[r].at <= Delay
      /\ req[r].at - Skew <= n /\ n <= req[r].at + Skew
  BY ClockAssumption DEF LimitInv, TypeOK, CommandInv, Stamp
<1>2. Refill(n) - Taken(n) \in 0 .. Cap /\ Taken(n) \in Nat
  BY <1>1, RefillFits DEF LimitInv
<1>3. /\ bucket' = [live |-> TRUE, tokens |-> Refill(n) - Taken(n), ts |-> n, setAt |-> time]
      /\ excess' = Charge(excess, Rewound(n), Taken(n)) /\ time' = time
  BY DEF Script
<1>4. Rewound(n) \in Nat
  BY <1>1, MinusIsNat DEF Rewound, LimitInv, TypeOK
<1>5. excess' \in Nat
  BY <1>2, <1>3, <1>4, ChargeFits DEF LimitInv, TypeOK
<1>6. bucket' \in [live : BOOLEAN, tokens : 0 .. Cap, ts : Int, setAt : 0 .. MaxTime]
  BY <1>1, <1>2, <1>3
<1>7. BucketInv'
  BY <1>1, <1>3, ClockAssumption DEF BucketInv
<1> QED
  BY <1>5, <1>6, <1>7

(* What is handed out was refilled up to the command's stamp. *)
LEMMA ScriptExcess ==
  ASSUME LimitInv, NEW r \in Request, Travels(r), Script(req[r].stamp)
  PROVE  ExcessInv'
<1> DEFINE n == req[r].stamp
           back == Worth(Rewound(n))
<1>1. /\ n \in Int /\ Horizon \in Int /\ n + Horizon >= 0
      /\ excess \in Nat /\ bucket.ts \in Int /\ bucket.tokens \in 0 .. Cap /\ Cap \in Nat
  BY ClockAssumption, BucketAssumption
     DEF LimitInv, TypeOK, CommandInv, Stamp, Horizon
<1>2. /\ bucket'.live /\ bucket'.tokens = Refill(n) - Taken(n) /\ bucket'.ts = n
      /\ excess' = Charge(excess, Rewound(n), Taken(n)) /\ Horizon' = Horizon
  BY DEF Script, Horizon
<1>3. /\ Refill(n) \in 0 .. Cap /\ Taken(n) \in Nat /\ Taken(n) <= Refill(n)
      /\ bucket.live => Refill(n) <= bucket.tokens + Worth(Minus(n, bucket.ts))
  BY <1>1, RefillFits DEF LimitInv
<1>4. Worth(n + Horizon) \in Nat
  <2>1. \A x \in Int : x >= 0 => Worth(x) \in Nat
    BY BucketAssumption DEF Worth
  <2> QED
    BY <1>1, <2>1
<1>5. Rewound(n) \in Nat /\ back \in Nat
  <2>1. Rewound(n) \in Nat
    BY <1>1, MinusIsNat DEF Rewound
  <2>2. \A x \in Nat : Worth(x) \in Nat
    BY BucketAssumption DEF Worth
  <2> QED
    BY <2>1, <2>2
<1>6. SUFFICES ASSUME excess' > 0
               PROVE  Refill(n) - Taken(n) + excess' <= Cap + Worth(n + Horizon)
  BY <1>2 DEF ExcessInv
<1> HIDE DEF n, back
<1>7. CASE excess' = Taken(n)
  BY <1>1, <1>3, <1>4, <1>7
<1>8. CASE excess' = excess - back + Taken(n) /\ excess' # Taken(n)
  <2>1. bucket.live /\ bucket.tokens + excess <= Cap + Worth(bucket.ts + Horizon)
    <3>1. excess # 0
      <4>1. SUFFICES ASSUME excess = 0 PROVE excess' = Taken(n)
        BY <1>8
      <4>2. Charge(0, Rewound(n), Taken(n)) = Taken(n)
        BY <1>3, <1>5 DEF Charge, Minus, Worth, back
      <4> QED
        BY <1>2, <4>1, <4>2
    <3> QED
      BY <1>1, <3>1 DEF LimitInv, ExcessInv
  <2>2. /\ Worth(n + Horizon) = Worth(bucket.ts + Horizon)
                                 + Worth(Minus(n, bucket.ts)) - Worth(Minus(bucket.ts, n))
        /\ Worth(bucket.ts + Horizon) \in Int /\ Worth(Minus(n, bucket.ts)) \in Nat
    BY <1>1, WorthMoves
  <2>3. back = Worth(Minus(bucket.ts, n))
    BY <2>1 DEF back, Rewound
  <2> QED
    BY <1>1, <1>3, <1>4, <1>5, <1>8, <2>1, <2>2, <2>3
<1>9. excess' = Taken(n) \/ excess' = excess - back + Taken(n)
  BY <1>1, <1>2, <1>3, <1>5, ChargeFits DEF back
<1> QED
  BY <1>7, <1>8, <1>9

----------------------------------------------------------------------------
(* The steps *)

(* The shared bucket keeps what it says of itself while nothing moves it.   *)
LEMMA BucketStays ==
  ASSUME BucketInv, ExcessInv, UNCHANGED <<time, bucket, excess>>
  PROVE  BucketInv' /\ ExcessInv'
BY DEF BucketInv, ExcessInv, Horizon

(* A request arrives with the clock of its pod. *)
LEMMA ArriveLimit ==
  ASSUME LimitInv, NEW r \in Request, NEW p \in Pod, Arrive(r, p)
  PROVE  LimitInv'
<1>1. PICK now \in Stamp(time) :
        req' = [req EXCEPT ![r] = [pc |-> "sent", pod |-> p, stamp |-> now,
                                   at |-> time, ok |-> FALSE]]
  BY DEF Arrive
<1>2. now \in Int /\ time \in 0 .. MaxTime
  BY ClockAssumption DEF LimitInv, TypeOK, Stamp
<1>3. UNCHANGED <<time, bucket, late, local, excess>>
  BY DEF Arrive
<1>4. TypeOK'
  BY <1>1, <1>2, <1>3 DEF LimitInv, TypeOK, Limiter
<1>5. CommandInv'
  <2> SUFFICES ASSUME NEW s \in Request, Travels(s)'
               PROVE  /\ req'[s].at <= time /\ time - req'[s].at <= Delay
                      /\ req'[s].stamp \in Stamp(req'[s].at)
    BY <1>3 DEF CommandInv, Stamp
  <2>1. CASE s = r
    BY <1>1, <1>2, <2>1, ClockAssumption DEF LimitInv, TypeOK
  <2>2. CASE s # r
    <3>1. req'[s] = req[s]
      BY <1>1, <2>2 DEF LimitInv, TypeOK
    <3> QED
      BY <1>3, <3>1 DEF LimitInv, CommandInv, Travels
  <2> QED
    BY <2>1, <2>2
<1>6. LocalInv'
  BY <1>3 DEF LimitInv, LocalInv
<1> QED
  BY <1>3, <1>4, <1>5, <1>6, BucketStays DEF LimitInv

(* A request moves on: its command keeps its stamp, and travels only if it  *)
(* did.                                                                     *)
LEMMA CommandsStay ==
  ASSUME CommandInv, UNCHANGED time,
         \A s \in Request : Travels(s)' =>
            /\ Travels(s)
            /\ req'[s].at = req[s].at /\ req'[s].stamp = req[s].stamp
  PROVE  CommandInv'
BY DEF CommandInv, Stamp

(* Redis executes a command whose request waits for it. *)
LEMMA ExecuteLimit ==
  ASSUME LimitInv, NEW r \in Request, Execute(r)
  PROVE  LimitInv'
<1>1. /\ req[r].pc = "sent" /\ Script(req[r].stamp) /\ UNCHANGED <<time, late, local>>
      /\ req' = [req EXCEPT ![r].pc = "ran", ![r].ok = Allowed(req[r].stamp)]
  BY DEF Execute, Script
<1>2. Travels(r)
  BY <1>1 DEF Travels
<1>3. /\ bucket' \in [live : BOOLEAN, tokens : 0 .. Cap, ts : Int, setAt : 0 .. MaxTime]
      /\ BucketInv' /\ excess' \in Nat /\ ExcessInv'
  BY <1>1, <1>2, ScriptBucket, ScriptExcess
<1>4. req' \in [Request -> [pc : {"idle", "sent", "ran", "create"}, pod : Pod,
                           stamp : Int, at : 0 .. MaxTime, ok : BOOLEAN]]
  <2>1. Allowed(req[r].stamp) \in BOOLEAN
    BY DEF Allowed
  <2> DEFINE b == Allowed(req[r].stamp)
  <2> HIDE DEF b
  <2>2. b \in BOOLEAN /\ req' = [req EXCEPT ![r].pc = "ran", ![r].ok = b]
    BY <1>1, <2>1 DEF b
  <2>3. [req[r] EXCEPT !.pc = "ran", !.ok = b]
          \in [pc : {"idle", "sent", "ran", "create"}, pod : Pod,
               stamp : Int, at : 0 .. MaxTime, ok : BOOLEAN]
    BY <2>2 DEF LimitInv, TypeOK
  <2>4. req' = [req EXCEPT ![r] = [req[r] EXCEPT !.pc = "ran", !.ok = b]]
    BY <2>2 DEF LimitInv, TypeOK
  <2> QED
    BY <2>3, <2>4 DEF LimitInv, TypeOK
<1>5. TypeOK'
  BY <1>1, <1>3, <1>4 DEF LimitInv, TypeOK
<1>6. CommandInv'
  BY <1>1, <1>2, CommandsStay DEF LimitInv, TypeOK, Travels
<1>7. LocalInv'
  BY <1>1 DEF LimitInv, LocalInv
<1> QED
  BY <1>3, <1>5, <1>6, <1>7 DEF LimitInv

(* Redis executes a command that was given up. *)
LEMMA ExecuteLateLimit ==
  ASSUME LimitInv, NEW r \in Request, ExecuteLate(r)
  PROVE  LimitInv'
<1>1. /\ r \in late /\ Script(req[r].stamp) /\ late' = late \ {r}
      /\ UNCHANGED <<time, req, local>>
  BY DEF ExecuteLate, Script
<1>2. Travels(r)
  BY <1>1 DEF Travels
<1>3. /\ bucket' \in [live : BOOLEAN, tokens : 0 .. Cap, ts : Int, setAt : 0 .. MaxTime]
      /\ BucketInv' /\ excess' \in Nat /\ ExcessInv'
  BY <1>1, <1>2, ScriptBucket, ScriptExcess
<1>4. TypeOK'
  BY <1>1, <1>3 DEF LimitInv, TypeOK, Limiter
<1>5. CommandInv'
  BY <1>1, CommandsStay DEF LimitInv, Travels
<1>6. LocalInv'
  BY <1>1 DEF LimitInv, LocalInv
<1> QED
  BY <1>3, <1>4, <1>5, <1>6 DEF LimitInv

(* The reply is lost, or arrives. *)
LEMMA ReplyLimit ==
  ASSUME LimitInv, NEW r \in Request, Resend(r) \/ Reply(r)
  PROVE  LimitInv'
<1>1. /\ req[r].pc = "ran" /\ UNCHANGED <<time, bucket, late, local, excess>>
      /\ \E pc \in {"sent", "idle"} : req' = [req EXCEPT ![r].pc = pc]
  BY DEF Resend, Reply
<1>2. TypeOK'
  BY <1>1 DEF LimitInv, TypeOK, Limiter
<1>3. CommandInv'
  BY <1>1, CommandsStay DEF LimitInv, TypeOK, Travels
<1>4. LocalInv'
  BY <1>1 DEF LimitInv, LocalInv
<1> QED
  BY <1>1, <1>2, <1>3, <1>4, BucketStays DEF LimitInv

(* Asking a limiter takes what it admits. *)
LEMMA AllowFits ==
  ASSUME NEW l \in Limiter, l.made => l.tokens + l.excess <= Cap, l.made
  PROVE  Allow(l) \in Limiter /\ Allow(l).made
         /\ Allow(l).tokens + Allow(l).excess <= Cap
<1>1. l.made \in BOOLEAN /\ l.tokens \in 0 .. Cap /\ l.excess \in Nat /\ Cap \in Nat
  BY BucketAssumption DEF Limiter
<1>2. CASE l.tokens >= 1
  <2> DEFINE k == l.tokens - 1
             e == l.excess + 1
  <2>1. k \in 0 .. Cap /\ e \in Nat /\ k + e = l.tokens + l.excess
    BY <1>1, <1>2
  <2>2. Allow(l) = [l EXCEPT !.tokens = k, !.excess = e]
    BY <1>2 DEF Allow
  <2> HIDE DEF k, e
  <2>3. /\ Allow(l) \in Limiter /\ Allow(l).made = l.made
        /\ Allow(l).tokens = k /\ Allow(l).excess = e
    BY <2>1, <2>2 DEF Limiter
  <2> QED
    BY <2>1, <2>3
<1>3. CASE ~(l.tokens >= 1)
  BY <1>3 DEF Allow
<1> QED
  BY <1>2, <1>3

(* The local fallback: a limiter that exists is asked, or is created once.  *)
LEMMA LocalLimit ==
  ASSUME LimitInv, NEW p \in Pod, NEW l \in Limiter,
         l.made, l.tokens + l.excess <= Cap,
         local' = [local EXCEPT ![p] = Allow(l)]
  PROVE  local' \in [Pod -> Limiter] /\ LocalInv'
<1>1. /\ Allow(l) \in Limiter /\ Allow(l).made
      /\ Allow(l).tokens + Allow(l).excess <= Cap
  BY AllowFits
<1>2. local \in [Pod -> Limiter]
  BY DEF LimitInv, TypeOK
<1>3. \A q \in Pod : local'[q] = IF q = p THEN Allow(l) ELSE local[q]
  BY <1>2
<1> QED
  BY <1>1, <1>2, <1>3 DEF LimitInv, LocalInv

(* A request gives up on Redis. *)
LEMMA GiveUpLimit ==
  ASSUME LimitInv, NEW r \in Request, GiveUp(r)
  PROVE  LimitInv'
<1> DEFINE p == req[r].pod
<1>1. /\ req[r].pc \in {"sent", "ran"} /\ UNCHANGED <<time, bucket, excess>>
      /\ late' \in {late, late \cup {r}} /\ (req[r].pc = "ran" => late' = late)
      /\ \E pc \in {"create", "idle"} : req' = [req EXCEPT ![r].pc = pc]
      /\ local' = IF NoLimiter(p) THEN local ELSE [local EXCEPT ![p] = Allow(@)]
  BY DEF GiveUp
<1>2. p \in Pod /\ local \in [Pod -> Limiter]
  BY DEF LimitInv, TypeOK
<1>3. local' \in [Pod -> Limiter] /\ LocalInv'
  <2>1. CASE NoLimiter(p)
    BY <1>1, <1>2, <2>1 DEF LimitInv, LocalInv
  <2>2. CASE ~NoLimiter(p)
    <3>1. local' = [local EXCEPT ![p] = Allow(local[p])]
      BY <1>1, <2>2
    <3>2. /\ local[p] \in Limiter /\ local[p].made
          /\ local[p].tokens + local[p].excess <= Cap
      BY <1>2, <2>2 DEF NoLimiter, LimitInv, LocalInv
    <3> QED
      BY <1>2, <3>1, <3>2, LocalLimit
  <2> QED
    BY <2>1, <2>2
<1>4. TypeOK'
  BY <1>1, <1>3 DEF LimitInv, TypeOK
<1>5. CommandInv'
  BY <1>1, CommandsStay DEF LimitInv, TypeOK, Travels
<1> QED
  BY <1>1, <1>3, <1>4, <1>5, BucketStays DEF LimitInv

(* LoadOrStore keeps the limiter that is there. *)
LEMMA CreateLimit ==
  ASSUME LimitInv, NEW r \in Request, Create(r)
  PROVE  LimitInv'
<1> DEFINE p == req[r].pod
<1>1. /\ req[r].pc = "create" /\ UNCHANGED <<time, bucket, late, excess>>
      /\ req' = [req EXCEPT ![r].pc = "idle"]
      /\ local' = [local EXCEPT ![p] = Allow(LoadOrStore(p))]
  BY DEF Create
<1>2. p \in Pod /\ local \in [Pod -> Limiter]
  BY DEF LimitInv, TypeOK
<1>3. /\ LoadOrStore(p) \in Limiter /\ LoadOrStore(p).made
      /\ LoadOrStore(p).tokens + LoadOrStore(p).excess <= Cap
  BY <1>2, BucketAssumption
     DEF LoadOrStore, NewLimiter, NoLimiter, Limiter, LimitInv, LocalInv
<1>4. local' \in [Pod -> Limiter] /\ LocalInv'
  BY <1>1, <1>2, <1>3, LocalLimit
<1>5. TypeOK'
  BY <1>1, <1>4 DEF LimitInv, TypeOK
<1>6. CommandInv'
  BY <1>1, CommandsStay DEF LimitInv, TypeOK, Travels
<1> QED
  BY <1>1, <1>4, <1>5, <1>6, BucketStays DEF LimitInv

(* The key expires: nothing is owed any more by then, so that a full bucket *)
(* grants no more than the refill would have.                               *)
LEMMA ExpireLimit ==
  ASSUME LimitInv, Expire
  PROVE  LimitInv'
<1>1. /\ bucket.live /\ time - bucket.setAt >= Ttl /\ bucket' = NoBucket
      /\ UNCHANGED <<time, req, late, local, excess>>
  BY DEF Expire
<1>2. /\ bucket.ts \in Int /\ bucket.tokens \in Nat /\ excess \in Nat /\ Horizon \in Int
      /\ bucket.ts + Horizon <= 2 * Skew + Delay - Ttl
      /\ Ttl \in Nat /\ Slack \in Nat /\ Skew \in Nat /\ Delay \in Nat
  BY <1>1, TtlFills, ClockAssumption, SlackAssumption
     DEF LimitInv, TypeOK, BucketInv, Horizon
<1>3. excess = 0
  <2>1. SUFFICES ASSUME excess > 0 PROVE FALSE
    BY <1>2
  <2>2. excess <= Cap + Worth(bucket.ts + Horizon) - bucket.tokens
    <3>1. bucket.tokens + excess <= Cap + Worth(bucket.ts + Horizon)
      BY <2>1 DEF LimitInv, ExcessInv
    <3>2. Worth(bucket.ts + Horizon) \in Int
      BY <1>2, WorthGrows, bucket.ts + Horizon <= bucket.ts + Horizon
    <3> QED
      BY <1>2, <3>1, <3>2, BucketAssumption
  <2>3. \A x, y \in Int : x <= 0 - y => Worth(x) <= 0 - Worth(y) /\ Worth(x) \in Int
    BY BucketAssumption DEF Worth
  <2>4. bucket.ts + Horizon <= 0 - (Ttl - Slack) /\ Ttl - Slack \in Int
        /\ bucket.ts + Horizon \in Int
    BY <1>2, SlackAssumption
  <2>5. Worth(bucket.ts + Horizon) <= 0 - Worth(Ttl - Slack)
    BY <1>2, <2>3, <2>4
  <2>6. Cap <= Worth(Ttl - Slack) /\ Worth(Ttl - Slack) \in Int
    BY <1>2, TtlFills, WorthGrows, Ttl - Slack <= Ttl - Slack
  <2>7. Worth(bucket.ts + Horizon) \in Int
    BY <1>2, <2>3, <2>4
  <2> QED
    BY <1>2, <2>1, <2>2, <2>5, <2>6, <2>7, BucketAssumption
<1>4. TypeOK'
  BY <1>1, BucketAssumption, ClockAssumption DEF LimitInv, TypeOK, NoBucket, Limiter
<1>5. CommandInv'
  BY <1>1, CommandsStay DEF LimitInv, Travels
<1>6. BucketInv' /\ ExcessInv'
  BY <1>1, <1>3 DEF BucketInv, ExcessInv, NoBucket
<1>7. LocalInv'
  BY <1>1 DEF LimitInv, LocalInv
<1> QED
  BY <1>4, <1>5, <1>6, <1>7 DEF LimitInv

(* A second passes: what was handed out is a second older, the horizon is   *)
(* one lower.                                                               *)
LEMMA TickLimit ==
  ASSUME LimitInv, Tick
  PROVE  LimitInv'
<1>1. /\ time < MaxTime /\ time' = time + 1
      /\ bucket' = bucket /\ req' = req /\ late' = late
      /\ \A r \in Request : Travels(r) => time - req[r].at < Delay
      /\ excess' = Charge(excess, 1, 0)
  BY DEF Tick
<1>0. local' = [p \in Pod |-> [local[p] EXCEPT !.tokens = Smaller(Cap, @ + Rate),
                                               !.excess = Charge(@, 1, 0)]]
  BY DEF Tick
<1>2. /\ time \in Nat /\ MaxTime \in Nat /\ excess \in Nat /\ Rate \in Nat /\ Cap \in Nat
      /\ bucket.ts \in Int /\ bucket.setAt \in Nat /\ bucket.tokens \in 0 .. Cap
      /\ local \in [Pod -> Limiter] /\ Skew \in Nat /\ Delay \in Nat
  BY BucketAssumption, ClockAssumption DEF LimitInv, TypeOK
<1>4. \A p \in Pod :
        /\ local'[p] \in Limiter /\ local'[p].made = local[p].made
        /\ local'[p].tokens <= local[p].tokens + Rate /\ local'[p].tokens <= Cap
        /\ local'[p].excess = Charge(local[p].excess, 1, 0)
  <2> SUFFICES ASSUME NEW p \in Pod
               PROVE  /\ local'[p] \in Limiter /\ local'[p].made = local[p].made
                      /\ local'[p].tokens <= local[p].tokens + Rate /\ local'[p].tokens <= Cap
                      /\ local'[p].excess = Charge(local[p].excess, 1, 0)
    OBVIOUS
  <2> DEFINE k == Smaller(Cap, local[p].tokens + Rate)
             e == Charge(local[p].excess, 1, 0)
  <2>1. local[p] \in Limiter
    BY <1>2
  <2>2. k \in 0 .. Cap /\ k <= local[p].tokens + Rate
    BY <1>2, <2>1 DEF Limiter, Smaller
  <2>3. e \in Nat
    BY <2>1, ChargeSecond DEF Limiter
  <2>4. local'[p] = [local[p] EXCEPT !.tokens = k, !.excess = e]
    BY <1>0
  <2> HIDE DEF k, e
  <2>5. /\ local'[p] \in Limiter /\ local'[p].made = local[p].made
        /\ local'[p].tokens = k /\ local'[p].excess = e
    BY <2>1, <2>2, <2>3, <2>4 DEF Limiter
  <2> QED
    BY <1>2, <2>2, <2>5 DEF e
<1>5. LocalInv'
  <2> SUFFICES ASSUME NEW p \in Pod
               PROVE  /\ local'[p].made => local'[p].tokens + local'[p].excess <= Cap
                      /\ ~local'[p].made => local'[p].excess = 0
    BY DEF LocalInv
  <2>1. /\ local[p].made => local[p].tokens + local[p].excess <= Cap
        /\ ~local[p].made => local[p].excess = 0
    BY DEF LimitInv, LocalInv
  <2>2. local[p].tokens \in Nat /\ local[p].excess \in Nat /\ local'[p].tokens \in Nat
    BY <1>2, <1>4 DEF Limiter
  <2> QED
    BY <1>2, <1>4, <2>1, <2>2, ChargeSecond
<1>6. TypeOK'
  <2>1. local' \in [Pod -> Limiter]
    BY <1>0, <1>4
  <2> QED
    BY <1>1, <1>2, <2>1, ChargeSecond DEF LimitInv, TypeOK
<1>7. CommandInv'
  <2> SUFFICES ASSUME NEW r \in Request, Travels(r)'
               PROVE  /\ req'[r].at <= time' /\ time' - req'[r].at <= Delay
                      /\ req'[r].stamp \in Stamp(req'[r].at)
    BY DEF CommandInv, Stamp
  <2>1. Travels(r) /\ req'[r] = req[r]
    BY <1>1 DEF Travels
  <2>2. req[r].at \in Nat
    BY DEF LimitInv, TypeOK
  <2> QED
    BY <1>1, <1>2, <2>1, <2>2 DEF LimitInv, CommandInv
<1>8. BucketInv'
  BY <1>1, <1>2 DEF LimitInv, BucketInv
<1>9. ExcessInv'
  <2>1. SUFFICES ASSUME excess' > 0
                 PROVE  /\ bucket.live
                        /\ bucket.tokens + excess' <= Cap + Worth(bucket.ts + Horizon')
    BY <1>1 DEF ExcessInv
  <2>2. excess > 0 /\ excess' = excess - Rate
    BY <1>1, <1>2, <2>1, ChargeSecond
  <2>3. bucket.live /\ bucket.tokens + excess <= Cap + Worth(bucket.ts + Horizon)
    BY <2>2 DEF LimitInv, ExcessInv
  <2>4. Worth(bucket.ts + Horizon') = Worth(bucket.ts + Horizon) - Rate
        /\ Worth(bucket.ts + Horizon) \in Int
    <3>1. bucket.ts + Horizon' \in Int /\ bucket.ts + Horizon = (bucket.ts + Horizon') + 1
      BY <1>1, <1>2 DEF Horizon
    <3>2. \A x \in Int : Worth(x) = Worth(x + 1) - Rate /\ Worth(x + 1) \in Int
      BY BucketAssumption DEF Worth
    <3> QED
      BY <3>1, <3>2
  <2> QED
    BY <1>2, <2>2, <2>3, <2>4
<1> QED
  BY <1>5, <1>6, <1>7, <1>8, <1>9 DEF LimitInv

----------------------------------------------------------------------------
(* The theorems *)

(* The invariant holds at first: nothing was handed out. *)
LEMMA InitLimit == Init => LimitInv
<1> SUFFICES ASSUME Init PROVE LimitInv
  OBVIOUS
<1>1. TypeOK
  BY BucketAssumption, ClockAssumption DEF Init, TypeOK, NoBucket, Limiter
<1>2. CommandInv
  BY DEF Init, CommandInv, Travels
<1>3. BucketInv /\ ExcessInv
  BY DEF Init, BucketInv, ExcessInv, NoBucket
<1>4. LocalInv
  BY DEF Init, LocalInv
<1> QED
  BY <1>1, <1>2, <1>3, <1>4 DEF LimitInv

(* Every step keeps it. *)
LEMMA NextLimit == LimitInv /\ [Next]_vars => LimitInv'
<1> SUFFICES ASSUME LimitInv, [Next]_vars PROVE LimitInv'
  OBVIOUS
<1>1. ASSUME NEW r \in Request, NEW p \in Pod, Arrive(r, p) PROVE LimitInv'
  BY <1>1, ArriveLimit
<1>2. ASSUME NEW r \in Request, Execute(r) PROVE LimitInv'
  BY <1>2, ExecuteLimit
<1>3. ASSUME NEW r \in Request, ExecuteLate(r) PROVE LimitInv'
  BY <1>3, ExecuteLateLimit
<1>4. ASSUME NEW r \in Request, Resend(r) \/ Reply(r) PROVE LimitInv'
  BY <1>4, ReplyLimit
<1>5. ASSUME NEW r \in Request, GiveUp(r) PROVE LimitInv'
  BY <1>5, GiveUpLimit
<1>6. ASSUME NEW r \in Request, Create(r) PROVE LimitInv'
  BY <1>6, CreateLimit
<1>7. CASE Expire
  BY <1>7, ExpireLimit
<1>8. CASE Tick
  BY <1>8, TickLimit
<1>9. CASE UNCHANGED vars
  <2>1. TypeOK'
    BY <1>9 DEF vars, LimitInv, TypeOK
  <2>2. CommandInv'
    BY <1>9, CommandsStay DEF vars, LimitInv, Travels
  <2>3. BucketInv' /\ ExcessInv'
    BY <1>9, BucketStays DEF vars, LimitInv
  <2>4. LocalInv'
    BY <1>9 DEF vars, LimitInv, LocalInv
  <2> QED
    BY <2>1, <2>2, <2>3, <2>4 DEF LimitInv
<1> QED
  BY <1>1, <1>2, <1>3, <1>4, <1>5, <1>6, <1>7, <1>8, <1>9 DEF Next

(* The inductive invariant of the rate limiter. *)
THEOREM LimitInvariant == Spec => []LimitInv
<1>1. Init => LimitInv
  BY InitLimit
<1>2. LimitInv /\ [Next]_vars => LimitInv'
  BY NextLimit
<1> QED
  BY <1>1, <1>2, PTL DEF Spec

(* Every reachable state is well typed: the script never writes a count of  *)
(* tokens outside the capacity.                                             *)
THEOREM LimitTypeCorrect == Spec => []TypeOK
<1>1. LimitInv => TypeOK
  BY DEF LimitInv
<1> QED
  BY <1>1, LimitInvariant, PTL

(* The shared bucket's bound, however commands are delayed, reordered and   *)
(* repeated, and whenever the key expires.                                  *)
THEOREM SharedBucketBounded == Spec => []SharedBound
<1>1. LimitInv => SharedBound
  <2> SUFFICES ASSUME LimitInv PROVE SharedBound
    OBVIOUS
  <2> DEFINE k == 2 * Skew + Delay
  <2>1. /\ excess \in Nat /\ Cap \in Nat /\ k \in Nat /\ bucket.tokens \in Nat
        /\ bucket.ts \in Int /\ Horizon \in Int
    BY BucketAssumption, ClockAssumption DEF LimitInv, TypeOK, Horizon
  <2>2. SharedBound <=> excess <= Cap + Worth(k)
    BY DEF SharedBound, Worth
  <2>3. \A x \in Nat : Worth(x) \in Nat
    BY BucketAssumption DEF Worth
  <2>4. CASE excess = 0
    BY <2>1, <2>2, <2>3, <2>4
  <2>5. CASE excess > 0
    <3>1. bucket.live /\ bucket.tokens + excess <= Cap + Worth(bucket.ts + Horizon)
      BY <2>5 DEF LimitInv, ExcessInv
    <3>2. bucket.ts + Horizon <= k
      BY <3>1, ClockAssumption DEF LimitInv, TypeOK, BucketInv, Horizon
    <3>3. \A x, y \in Int : x <= y => Worth(x) <= Worth(y) /\ Worth(x) \in Int
      BY BucketAssumption DEF Worth
    <3>4. Worth(bucket.ts + Horizon) <= Worth(k) /\ Worth(bucket.ts + Horizon) \in Int
      <4>1. bucket.ts + Horizon \in Int /\ k \in Int
        BY <2>1
      <4> QED
        BY <3>2, <3>3, <4>1
    <3> QED
      BY <2>1, <2>2, <2>3, <3>1, <3>4
  <2> QED
    BY <2>1, <2>4, <2>5
<1> QED
  BY <1>1, LimitInvariant, PTL

(* The fallback's bound, for any number of requests that race to create it. *)
THEOREM FallbackBounded == Spec => []LocalBound
<1>1. LimitInv => LocalBound
  <2> SUFFICES ASSUME LimitInv, NEW p \in Pod PROVE local[p].excess <= Cap
    BY DEF LocalBound
  <2>1. /\ local[p].made \in BOOLEAN /\ local[p].tokens \in Nat /\ local[p].excess \in Nat
        /\ Cap \in Nat
    BY BucketAssumption DEF LimitInv, TypeOK, Limiter
  <2> QED
    BY <2>1 DEF LimitInv, LocalInv
<1> QED
  BY <1>1, LimitInvariant, PTL

(* No client is locked out by a clock that runs ahead.                      *)
THEOREM NoLockout == Spec => DeniedOnlyWhenBusy
<1> DEFINE Busy == bucket.live /\ time - bucket.setAt <= 2 * Skew + Delay
           Denied(r) == req[r].pc = "sent" /\ req'[r].pc = "ran" /\ ~req'[r].ok
<1>1. ASSUME LimitInv, [Next]_vars
      PROVE  [\A r \in Request : Denied(r) => Busy]_vars
  <2> SUFFICES ASSUME NEW r \in Request, Denied(r), Next PROVE Busy
    BY <1>1 DEF vars
  <2>1. req \in [Request -> [pc : {"idle", "sent", "ran", "create"}, pod : Pod,
                            stamp : Int, at : 0 .. MaxTime, ok : BOOLEAN]]
    BY <1>1 DEF LimitInv, TypeOK
  <2>2. Execute(r)
    BY <2>1 DEF Next, Arrive, Execute, ExecuteLate, Resend, Reply, GiveUp, Create, Expire, Tick
  <2> DEFINE n == req[r].stamp
  <2>3. ~Allowed(n)
    BY <2>1, <2>2 DEF Execute
  <2>4. /\ n \in Int /\ bucket.ts \in Int /\ bucket.setAt \in Nat /\ time \in Nat
        /\ Skew \in Nat /\ Delay \in Nat /\ Cap \in Nat \ {0}
        /\ n >= time - Delay - Skew
    BY <1>1, <2>2, ClockAssumption, BucketAssumption
       DEF LimitInv, TypeOK, CommandInv, Travels, Execute, Stamp
  <2>5. bucket.live => Minus(n, bucket.ts) = 0
    <3>1. bucket.live => Refill(n) >= Smaller(Cap, Minus(n, bucket.ts))
      BY <1>1, <2>4, RefillFits DEF LimitInv
    <3>2. Refill(n) < 1 /\ Refill(n) \in 0 .. Cap
      BY <1>1, <2>3, <2>4, RefillFits DEF LimitInv, Allowed
    <3>3. Minus(n, bucket.ts) \in Nat
      BY <2>4, MinusIsNat
    <3> QED
      BY <2>4, <3>1, <3>2, <3>3 DEF Smaller
  <2>6. bucket.live
    BY <2>3, BucketAssumption DEF Allowed, Refill
  <2>7. n <= bucket.ts
    BY <2>4, <2>5, <2>6 DEF Minus
  <2> QED
    BY <1>1, <2>4, <2>6, <2>7 DEF LimitInv, BucketInv
<1> QED
  BY <1>1, LimitInvariant, PTL DEF Spec, DeniedOnlyWhenBusy
============================================================================
