----------------------------- MODULE RateLimit -----------------------------
(***************************************************************************)
(* middleware/ratelimit.go: the token bucket of one client IP.  A request  *)
(* to /api/v1/encode runs a Lua script on the bucket that all pods share   *)
(* in Redis, stamped with the clock of its own pod; when no reply comes    *)
(* within 50 ms it asks the pod's local limiter instead, while its command *)
(* may still reach Redis.  Time and clocks are in seconds, as in the code. *)
(***************************************************************************)
EXTENDS Integers

CONSTANTS
  Pod,
  Request,  \* requests under way at one time
  Cap,      \* capacity of a bucket
  Rate,     \* tokens per second
  Slack,    \* seconds the key outlives the time it takes to fill a bucket
  Skew,     \* pods' clocks differ from the true time by at most this
  Delay,    \* a command reaches Redis at most this long after its stamp
  MaxTime   \* bound: seconds that pass

ASSUME BucketAssumption == Cap \in Nat \ {0} /\ Rate \in Nat \ {0}
ASSUME ClockAssumption  == Skew \in Nat /\ Delay \in Nat /\ MaxTime \in Nat
(* The code keeps a key 10 seconds longer than it takes to fill a bucket. *)
ASSUME SlackAssumption  == Slack \in Nat /\ 2 * Skew + Delay <= Slack

VARIABLES
  time,    \* the true time
  bucket,  \* rl:ip:{ip}; setAt is when it was written, from which its TTL runs
  req,     \* per request, its local state
  late,    \* requests that gave up on a command Redis may still execute
  local,   \* per pod, its limiter for the client
  excess   \* history, see Charge

vars == <<time, bucket, req, late, local, excess>>

NoBucket == [live |-> FALSE, tokens |-> Cap, ts |-> 0, setAt |-> 0]
NoLimiter(p) == ~local[p].made

Stamp(t) == t - Skew .. t + Skew
Limiter == [made : BOOLEAN, tokens : 0 .. Cap, excess : Nat]

TypeOK ==
  /\ time \in 0 .. MaxTime
  /\ bucket \in [live : BOOLEAN, tokens : 0 .. Cap, ts : Int, setAt : 0 .. MaxTime]
  /\ req \in [Request -> [pc : {"idle", "sent", "ran", "create"}, pod : Pod,
                          stamp : Int, at : 0 .. MaxTime, ok : BOOLEAN]]
  /\ late \subseteq Request
  /\ local \in [Pod -> Limiter]
  /\ excess \in Nat

Smaller(a, b) == IF a < b THEN a ELSE b
Minus(a, b) == IF a > b THEN a - b ELSE 0

(* The tokens handed out in any interval that ends now, less Rate for each  *)
(* second of it: the largest such difference.                               *)
Charge(e, seconds, taken) == Minus(e, Rate * seconds) + taken

----------------------------------------------------------------------------
(* The script *)

Ttl == (Cap + Rate - 1) \div Rate + Slack

(* Mutant: no math.min. *)
RefillUncapped(now) ==
  IF bucket.live THEN bucket.tokens + Rate * Minus(now, bucket.ts) ELSE Cap

(* Mutant: the interval is divided by the rate. *)
RefillDivided(now) ==
  IF bucket.live
  THEN Smaller(Cap, bucket.tokens + Minus(now, bucket.ts) \div Rate) ELSE Cap

Refill(now) ==
  IF bucket.live
  THEN Smaller(Cap, bucket.tokens + Rate * Minus(now, bucket.ts)) ELSE Cap

Allowed(now) == Refill(now) >= 1
Taken(now) == IF Allowed(now) THEN 1 ELSE 0

(* Seconds by which the stored time goes back: they are refilled twice. *)
Rewound(now) == IF bucket.live THEN Minus(bucket.ts, now) ELSE 0

(* Mutant: SET keeps the time of the first command. *)
ScriptKeepsTime(now) ==
  /\ bucket' = [live |-> TRUE, tokens |-> Refill(now) - Taken(now),
                ts |-> IF bucket.live THEN bucket.ts ELSE now, setAt |-> time]
  /\ excess' = Charge(excess, Rewound(now), Taken(now))
  /\ UNCHANGED <<time, local>>

(* SET stores `now' even if the time that was stored is later. *)
Script(now) ==
  /\ bucket' = [live |-> TRUE, tokens |-> Refill(now) - Taken(now), ts |-> now, setAt |-> time]
  /\ excess' = Charge(excess, Rewound(now), Taken(now))
  /\ UNCHANGED <<time, local>>

(* The key expires. *)
Expire ==
  /\ bucket.live /\ time - bucket.setAt >= Ttl
  /\ bucket' = NoBucket
  /\ UNCHANGED <<time, req, late, local, excess>>

----------------------------------------------------------------------------
(* RateLimitMiddleware *)

Arrive(r, p) ==
  /\ req[r].pc = "idle" /\ r \notin late
  /\ \E now \in Stamp(time) :
       req' = [req EXCEPT ![r] =
                 [pc |-> "sent", pod |-> p, stamp |-> now, at |-> time, ok |-> FALSE]]
  /\ UNCHANGED <<time, bucket, late, local, excess>>

Execute(r) ==
  /\ req[r].pc = "sent"
  /\ Script(req[r].stamp)
  /\ req' = [req EXCEPT ![r].pc = "ran", ![r].ok = Allowed(req[r].stamp)]
  /\ UNCHANGED late

ExecuteLate(r) ==
  /\ r \in late
  /\ Script(req[r].stamp)
  /\ late' = late \ {r}
  /\ UNCHANGED req

(* go-redis runs the command again when it has lost the reply. *)
Resend(r) ==
  /\ req[r].pc = "ran"
  /\ req' = [req EXCEPT ![r].pc = "sent"]
  /\ UNCHANGED <<time, bucket, late, local, excess>>

(* The reply decides: the handler, or 429. *)
Reply(r) ==
  /\ req[r].pc = "ran"
  /\ req' = [req EXCEPT ![r].pc = "idle"]
  /\ UNCHANGED <<time, bucket, late, local, excess>>

(* Allow of a limiter that exists. *)
Allow(limiter) ==
  IF limiter.tokens >= 1
  THEN [limiter EXCEPT !.tokens = @ - 1, !.excess = @ + 1] ELSE limiter

(* An error, or 50 ms without a reply: the command may have been lost, or    *)
(* not.  Load finds a limiter and asks it, or there is none yet.            *)
GiveUp(r) ==
  LET p == req[r].pod IN
  /\ req[r].pc \in {"sent", "ran"}
  /\ late' \in {late, late \cup {r}} /\ (req[r].pc = "ran" => late' = late)
  /\ req' = [req EXCEPT ![r].pc = IF NoLimiter(p) THEN "create" ELSE "idle"]
  /\ local' = IF NoLimiter(p) THEN local ELSE [local EXCEPT ![p] = Allow(@)]
  /\ UNCHANGED <<time, bucket, excess>>

NewLimiter(old) == [made |-> TRUE, tokens |-> Cap, excess |-> old.excess]

(* Mutant: Store instead of LoadOrStore. *)
StoreLimiter(p) == NewLimiter(local[p])

(* LoadOrStore: the first of several new limiters stays. *)
LoadOrStore(p) == IF NoLimiter(p) THEN NewLimiter(local[p]) ELSE local[p]

Create(r) ==
  LET p == req[r].pod IN
  /\ req[r].pc = "create"
  /\ local' = [local EXCEPT ![p] = Allow(LoadOrStore(p))]
  /\ req' = [req EXCEPT ![r].pc = "idle"]
  /\ UNCHANGED <<time, bucket, late, excess>>

----------------------------------------------------------------------------
(* A command or its reply is on the way. *)
Travels(r) == req[r].pc \in {"sent", "ran"} \/ r \in late

(* A second passes; local limiters refill.  Nothing travels for more than   *)
(* Delay, and no key outlives its TTL.                                      *)
Tick ==
  /\ time < MaxTime
  /\ \A r \in Request : Travels(r) => time - req[r].at < Delay
  /\ bucket.live => time - bucket.setAt < Ttl
  /\ time' = time + 1
  /\ local' = [p \in Pod |-> [local[p] EXCEPT !.tokens = Smaller(Cap, @ + Rate),
                                              !.excess = Charge(@, 1, 0)]]
  /\ excess' = Charge(excess, 1, 0)
  /\ UNCHANGED <<bucket, req, late>>

Init ==
  /\ time = 0
  /\ bucket = NoBucket
  /\ \E p \in Pod : req = [r \in Request |-> [pc |-> "idle", pod |-> p, stamp |-> 0,
                                              at |-> 0, ok |-> FALSE]]
  /\ late = {}
  /\ local = [p \in Pod |-> [made |-> FALSE, tokens |-> Cap, excess |-> 0]]
  /\ excess = 0

Next ==
  \/ \E r \in Request, p \in Pod : Arrive(r, p)
  \/ \E r \in Request : Execute(r) \/ ExecuteLate(r) \/ Resend(r) \/ Reply(r)
  \/ \E r \in Request : GiveUp(r) \/ Create(r)
  \/ Expire \/ Tick

Spec == Init /\ [][Next]_vars

----------------------------------------------------------------------------
(* In no interval does the shared bucket hand out more than its capacity    *)
(* and the refill of the interval, of its edges' clock errors, and of each  *)
(* second by which a command that was stamped earlier than the one before   *)
(* it has set the stored time back.  A key that expires, and is full again  *)
(* for it, changes nothing (ratelimit.go:24).                               *)
SharedBound == excess <= Cap + Rate * (2 * Skew + Delay)

(* In no interval does the fallback of one pod admit more than the capacity *)
(* and the refill, though requests race to create the limiter               *)
(* (ratelimit.go:72).                                                       *)
LocalBound == \A p \in Pod : local[p].excess <= Cap

(* Clocks that run ahead do not lock a client out: the shared bucket denies *)
(* a request only shortly after another command for the client.             *)
DeniedOnlyWhenBusy ==
  [][\A r \in Request :
       req[r].pc = "sent" /\ req'[r].pc = "ran" /\ ~req'[r].ok =>
         bucket.live /\ time - bucket.setAt <= 2 * Skew + Delay]_vars
============================================================================
