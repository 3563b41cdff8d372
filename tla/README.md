# Formal model of shortlink-system

TLA+ specifications, TLC configurations and TLAPS proofs for the short link service in `src/`
(Go, MySQL with read replicas, Redis Cluster with replicas, RabbitMQ, several pods on Kubernetes).
The code is the reference; comments and documents of the repository are used only as statements to
compare it with.

## 1. The system

A client posts a long URL and gets a short code (`Create`), or follows a code (`Redirect`). Any pod
serves either. A code is the Base62 form of a Snowflake id.

```
          Create                                     Redirect
            |                                            |
  urlhash L1 -> urlhash Redis -> master      L1 -> singleflight [L1 -> Redis -> Bloom -> read DB -> master]
            |                                            |
   Snowflake id, Base62                            SET shortlink (value or ""), fill L1
            |
   TX: short_links + outbox_messages ----> OutboxWorker -> RabbitMQ -> CacheSyncConsumer
            |                              (claim, publish, mark)        |
   L1, then Redis pipeline <-- same keys, same Bloom bits, same L1 ------+
```

| Component | State | Operations | Talks to | Hard behaviour | What makes it correct |
|---|---|---|---|---|---|
| ShortLinkService (`internal/service`) | two L1 caches, `bloomReady`, singleflight calls, the rebuild goroutine | Create, Redirect, RebuildBloom, writeThrough | MySQL, Redis, Snowflake, Bloom | requests racing on and across pods; values read, then written much later; failures that are only logged; restarts | one code per URL; cached values are the table's; no 404 for a link that is established; every request is answered; hidden links reappear |
| Storage (`internal/repository/storage.go`, `scripts/init.sql`) | table `short_links`, its replicas, Redis keys | unique inserts, reads from master or replica, GET/SET | MySQL, Redis | replica lag, replica-routed GETs, case-folding collation, lost commit acknowledgements | the unique keys; not-found is decided by the master |
| Bloom filter (`pkg/bloom`) | bitmap shared in Redis | QueueAdd, AddMulti, Contains | Redis | bits written by several paths, in part, or lost | no false negative for covered codes |
| L1 cache (`pkg/cache`) | sharded LRU with TTL | Get, Set, eviction | none | eviction at capacity, expired entries | at most loses entries |
| Outbox (`internal/repository/outbox.go`, `internal/worker/outbox.go`) | table `outbox_messages`, a worker per pod | claim with lease, publish, mark sent or failed, cleanup | MySQL, RabbitMQ | stolen leases, crashes between publish and mark, failed updates | nothing retired and lost; exact retry budget; live claims respected; everything synced in the end |
| RabbitMQ client (`pkg/mq`) | one connection per pod | Publish without confirms, Consume with ack/nack | broker | loss, redelivery, closed connections that stay closed | at-least-once delivery |
| Cache sync consumer (`internal/worker/consumer.go`) | the message in hand | handleMessage | Redis, L1 | redelivery, retries, late messages | writes only what the table says |
| Snowflake (`pkg/snowflake`) | last timestamp and sequence, per process | Generate | the wall clock | clock setbacks, sequence overflow, restarts, node ids | ids unique and increasing |
| Base62 (`pkg/base62`) | none | Encode, Decode | none | width, overflow | injective, inverse, fits `varchar(10)` |
| Rate limiter (`internal/middleware`) | a bucket per IP in Redis, a local one per pod | the Lua script, local fallback | Redis | clocks of several pods, switching to the fallback | bounded admissions |
| HTTP API (`internal/api`) | none | handlers, health | all of the above | mapping of errors | the documented statuses |
| Configuration, wiring, deployment | none that changes | start, shutdown | all | shutdown does not wait for the workers | covered by crash and restart |

## 2. The modules

| Module | Models |
|---|---|
| `LinkService` | what clients see: a table of links that only grows, codes handed out, answers to lookups |
| `Store` | the data tier that pods share: table and unique keys, collation, replicas, outbox as a source of at-least-once messages, Redis keys, Bloom bits, TTLs, replication and failovers |
| `ShortLink` (EXTENDS `Store`) | any number of pods running Create, Redirect, RebuildBloom and the consumer over one Store; implements `LinkService` |
| `Mailbox` | what outbox, broker and consumers promise together, and `Store` relies on |
| `Outbox` | outbox rows, workers, queue, consumers and connections: how a message travels; implements `Mailbox` |
| `LossyMap` | what `ShortLink` takes an L1 cache to be |
| `L1Cache` | shards, LRU lists, lazy expiry; implements `LossyMap` |
| `RateLimit` | the token bucket script in Redis and the local fallback of each pod, for one client |
| `Snowflake` | Generate on several processes with their own clocks, which `ShortLink` abstracts to "some id" |
| `Base62` | Encode and Decode |
| `ShortCodes` (EXTENDS `Snowflake`, `Base62`) | the codes that Create makes of ids, and the column that holds them |
| `MCShortLink`, `MCOutbox`, `MCL1Cache`, `MCRateLimit`, `MCSnowflake` | instances for TLC: collations, shards, node ids, clock setbacks, the alphabet, symmetry sets |
| `ShortLinkProofs` | typing, and that calls and waiting requests go together |
| `ShortLinkAgreement` (EXTENDS `ShortLinkProofs`) | caches agree with the table, and de-duplication works |
| `ShortLinkNotFound` (EXTENDS `ShortLinkAgreement`) | Bloom rebuilds, 404 answers, the repair of lost write-throughs, and that what is resolvable stays so |
| `ShortLinkRefinement` (EXTENDS `ShortLinkNotFound`) | the service implements `LinkService` |
| `OutboxProofs`, `L1CacheProofs`, `RateLimitProofs` | the proofs about these modules |
| `ShortCodesProofs` (EXTENDS `ShortCodes`) | ids are unique and increase; the codec is inverse, of the right length and injective on them |

How they fit together:

```
  LinkService                 <- what clients see
      ^ implements
  ShortLink + Store ----- relies on ------> Mailbox    LossyMap    ids that are unique, codes that are injective
                                               ^           ^              ^
                                            Outbox      L1Cache      Snowflake, Base62 (ShortCodes)
  RateLimit: in front of Create, independent of the rest
```

### Store

`rows` is `short_links` as a function from code to URL, `Miss` where there is no row. The id and the
code it encodes are one number, so the rebuild's order by id is the order of `Code`. `Conflicts`
is the pair of unique keys; `Fold` is the collation of `short_code` (`utf8mb4_unicode_ci` compares
without case) and is a constant, so that the theorems hold for every collation. `CommitTx` is
the transaction of Create: row and message, or nothing. `replicated` says which rows each read replica
has; `GetReadDB` may pick any. `link` and `hash` are `shortlink:{code}` and `urlhash:{md5}` on
the Redis primary and on replicas, to which GETs may be routed. `bloom` is the set of codes whose bits
are all set; `Contains` may answer FALSE for the others and TRUE for anything. A failover of the node of
a key promotes one of its replicas, or comes back empty if there is none, and writes that were acknowledged are gone
(`LinkFailover`, `HashFailover`, `BloomFailover`).

### ShortLink

One step is one call to a cache, Redis or MySQL, or one section of memory between two calls, so every
interleaving of requests at call boundaries is a behaviour. The local state of a request is
a record with a `pc`:

| Code | Actions |
|---|---|
| `Create`, shortlink.go:81-175 | `CreateStart` (local index), `CreateRedis`, `CreateFind` (master), `CreateBackfill`, `CreateReturnExisting`, `CreateInsert` (Generate and transaction), `CreateFill` (L1s) |
| `writeThrough` and `withRetry`, 177-193, 340-358 | `CreatePipe` (one command of the pipeline), `CreatePipeFail` (again, or give up), `CreateReturn` |
| `RebuildBloom`, 212-243 | `RebuildScan` (one page, or ready, or error), `RebuildWrite` (all bits, or some and error) |
| `Redirect` and `resolveRedirect`, 245-328 | `RedirectStart` (L1), `RedirectDo` (join or start a call), `FlightRecheck`, `FlightRedis`, `FlightBloom`, `FlightSlave`, `FlightMaster`, `FlightSet`, `FlightFill` |
| `handleMessage`, consumer.go | `SyncStart`, `SyncPipe`, `SyncPipeFail`, `SyncFill` |
| L1 TTL and eviction; a pod's death and its successor | `L1Expire`, `HashL1Expire`, `PodRestart` |

`FlightSet` writes the value that an earlier step read, however much happened in between. `Faults`
selects the failures of an instance: `"redis"` (a command or pipeline fails, possibly after having been
applied in part), `"db"` (a query fails; a commit may have taken effect), `"restart"` and `"failover"`.
`Expiring` selects the caches whose entries expire in an instance.
`issued` and `early` are history: the codes returned for each URL, and the codes that were looked up
before they were `Safe`, or whose bits a failover has lost. A code is `Safe` once it is committed and either its bits are set or the
rebuild of every pod began after the commit.

### Outbox

A row has a status, a retry count, an owner and a lease that is running or not. `Claim` is
`SELECT ... FOR UPDATE SKIP LOCKED` with the update and the commit, in one step, at its commit. The
rows it may pass over (`Locked`) are any that another instance could have locked in a claim that commits
later or rolls back; a claim takes the oldest of the others. `StatusAfter` compares as MySQL
does, with the count that the same UPDATE has incremented already. The worker then takes the actions `Publish`, `PublishError`, `PublishLost`, `MarkFailed`,
`MarkSent`, `MarkError`, `CleanupSelect` and `CleanupDelete` in the order of `processPending`.
Deliveries are counted as ready, unacknowledged or handled but not acknowledged. `ConnClose` loses the
connection of an instance for good, as the code never dials again; `Crash` and `Restart` bring a new one.

An instance has one connection for both roles, so a `PublishLost`, the publication that returns nil and never arrives,
is also the loss of the connection. `dropped` remembers the messages that were swallowed so.

### L1Cache

`items` is the maps of all shards and `lru` their lists; a hash picks the shard (`ShardOf`). Each method runs
under the mutex of its shard, so it is one action: `Get` is `Hit`, `GetExpired` or `GetMiss`, `Set` is `Update` or `Add`
with the evictions at its end, `Invalidate` deletes. `PerShard` divides the capacity, and is at least one.
`capacity` is chosen at the start among those of the instance. `written` and
`since` are history: what was set last, and the keys used in a shard since a key's own last use.

### RateLimit

Time passes in seconds, as in the script. A pod stamps a command with its own clock (`Stamp`, within `Skew` of the true time),
and Redis executes it within `Delay` seconds: `Execute`. The pod gives up after 50 ms or on an error
(`GiveUp`) and asks the limiter of `LocalFallbackLimiter`; the command may still be executed
(`ExecuteLate`), and go-redis may run one again (`Resend`). The first fallback of a pod creates the limiter in
two steps, `Load` in `GiveUp` and `LoadOrStore` in `Create`, which other requests may interleave. `Script` stores the
time of its own stamp, an earlier one too. `excess` is history: the most that was handed out in
any interval ending now, over what the rate allows for that interval. The limiter of `golang.org/x/time/rate`
is external, and refilled at each second here.

### Snowflake

The state of `Node` (`timestamp`, `step`) with a wall clock per pod. `Generate` either assigns an id,
starts to sleep for a setback within `MaxBackward` (`Wake` reads the clock again and does not compare),
fails for a larger one, or spins at sequence overflow (`SpinEnd`). A sleep is measured by the
monotonic clock, which `SetBack` does not change. An id is the number made of its fields
(`Id`), negative for a clock before `Epoch`; the node's step mask is `% Steps`. `NodeOf` is the node of a pod: crc32 of
its address modulo the number of nodes, or 1 if it has none. `Setbacks` and `Restarts` say
which pods' clocks are set back and when, and which pods restart; `Deployment` says what uniqueness needs of them.

### Base62 and ShortCodes

`Encode` and `Decode` are recursive functions over an alphabet in any order; `Decode` works modulo `Word` (2^64)
and rejects unknown characters. `ShortCode` converts an id to uint64 first, as Create does. `Capacity`, the power
`Strings[Width]` of the base, is the number of ids whose codes the column holds, and `Horizon` the first
millisecond at which an id is not among them. `RangeAssumption` says that the fields of an id fit a word (41, 10 and 12
of 64 bits); without it two ids could be one unsigned number.

## 3. The runs

Passing runs. All are exhaustive for their instance, on two workers.

| Run | Question | Instance |
|---|---|---|
| `create` | Can racing requests, caches, errors and lost commit acknowledgements give a URL two codes? Can rows inserted between two pages escape a rebuild? | 2 URLs, 2 codes (each may be a legacy row), 2 creators, 1 pod, pages of 1, Redis and DB faults |
| `caches` | Can retries, redelivery, replica lag, failovers or late fills leave a URL in a cache that is not the table's, or a 404 that should not be, or hide again what has become resolvable? | 1 creator, 1 reader, the consumer, 1 read replica, 1 Redis replica, 2 attempts, Redis faults and failovers |
| `redirect` | Can a pod that starts, restarts or fails to rebuild answer 404 for an established link? | 2 pods, 1 creator, 1 reader, restarts, Redis faults, expiry |
| `answered` | Is every request answered, including those that join a call, does a call run exactly while somebody waits for it, and is every answer one that `LinkService` allows? | 2 readers, 1 creator, DB faults |
| `resolvable` | Does a link that is hidden by earlier lookups come back for good, and is a lost write-through always still to be repaired? | 1 creator, 1 reader, consumer, DB faults |
| `outbox_safety` | Can crashes, stolen leases, failed updates or requeues make the outbox forget a message nobody handled, or touch a live claim? | 2 rows, 2 instances, batch of 2, retry limit 1, connections stay open |
| `outbox` | Is the retry budget exact and a verdict final when owners overlap and connections close? Is each row settled once the troubles stop? | 1 row, 2 instances, limit 3, all faults |
| `gateway` | How much can late, reordered, repeated commands and skewed clocks make the limiter admit, and can they lock a client out? | 1 pod, 2 requests, capacity 2, 2 tokens per second, clocks off by 1 s, delays of 1 s, 5 s |
| `l1cache` | Do map and lists agree, and does the cache only lose entries, and only the right ones? | 4 keys in shards of 1 and 3, capacity 1 (less than the shards) or 4, TTL 1 |
| `snowflake` | Are ids unique and increasing under overflow, setbacks and restarts, and do their codes differ, decode and fit? | 2 pods, 4 ms, 2 ids per ms, tolerance 2, 4 nodes, an epoch within the run, 3 digits |

`TypeOK` is checked in one run of each module that has one. The instances are small, and chosen so that each hazard
occurs: two codes are needed for a duplicate and for an insert behind or ahead of the cursor; one code
is enough for a stale negative entry, since codes interact only through the collation, the unique
keys and the page; two pods are needed only where one pod's readiness matters to another's;
two attempts are the least with a retry. Two outbox rows make a batch that can be interrupted in the
middle. A sequence of two ids per millisecond overflows at the third; the epoch is the second of the four milliseconds, so
that ids before it are negative, and with three digits and two characters the ids of the third
do not all fit. Three keys in a shard of two entries evict, and a capacity of one over two shards is the one that rounds to
zero. In `gateway` the bound of `SharedBound` is reached, so a smaller one would fail; commands overtake each other with
two requests, and the key expires within the run.

For every safety property, action property and refinement above, the theorems of section 5 remove the bounds; three
liveness properties are only checked.

Bounds stated as constants: `MaxAttempts` (withRetry uses 3), `BatchSize` (pages of 500
rows, batches of 100 in the code), `MaxRetry` (3), `MaxCopies` (copies of a message counted in the
queue; further copies are not counted), `MaxTime` (where a clock stops: milliseconds in `Snowflake`, seconds in `RateLimit`, units of
the TTL in `L1Cache`), `Steps` (4096), `Nodes` (1024), `MaxBackward` (5 ms), `Cap` and `Rate` (10 and 2 per second), `Slack` (the 10 s that
the key outlives a full refill), `Skew` and `Delay` (assumed of the deployment: the script has no bound, and
`SharedBound` needs `2 * Skew + Delay <= Slack`), `Ttl` and `Capacities` (5 minutes, 10000), `Word` (2^64), `Width` (10).

Runs of which a violation is expected, each the trace of a disagreement between the code and a
statement of the repository:

| Run | What it shows |
|---|---|
| `bad_case` | Codes that differ by case are one code for MySQL: a code that was never issued redirects to another code's URL, although the API promises 404 for a code that does not exist. (By the same key an insert of such a code fails as a duplicate.) |
| `bad_retry` | `MarkOutboxFailed` increments `retry_count` and then compares `retry_count + 1` with the limit, in one UPDATE. MySQL evaluates the assignments from left to right, so the comparison sees the new count: a row is failed after two failures although the limit is three. |

Other such observations have no run of their own; they follow from the actions named. A closed AMQP
connection is never reopened (`ConnClose`): from then on each Publish of that instance fails
(`PublishError`), and a row that it claims until its retries are used up is failed and never
synced, although the comment at shortlink.go:171 relies on the consumer as a fallback. A request that
loses the unique index on `long_url_hash` (`CreateInsert` with `Conflicts`) returns an error instead of
the winner's code, although Create is described as idempotent. The de-duplication path
(`CreateReturnExisting`) may return a code whose Bloom bits are not set yet, so a ready pod may answer
404 for it until the write-through or the consumer sets them. A lookup that began before the commit may
overwrite a fresh L1 entry with `""` (`FlightFill`). Publishing without confirms can lose a message that
is then marked sent (`PublishLost`). A worker slower than its lease publishes what another has claimed
(`ExpireHeld`). A Redis failover that loses Bloom bits makes ready pods answer 404 for those codes until a write-through or the
consumer sets them again (`Failover`); nothing else does.

In `Snowflake`, Generate reads the clock again after a wait and does not compare again: a second setback during the
wait resets the sequence at an earlier millisecond, and ids repeat, although pkg/snowflake/README.md:8 describes
the setback as handled (`Wake` with `SetBack`; give a pod `"sleep"` among its `Setbacks`, and `UniqueIds`
fails). A setback across a restart repeats ids too, as do two addresses with one `crc32 % 1024`, or
an address whose node is 1 beside a pod that finds none (`NodeOf`). These are what `Deployment` excludes.

The real constants put `Horizon` in May 2032: 62^10 ids are 6.34 years of milliseconds with 22 low bits, counted from 2026-01-01.
From then on codes have 11 characters and do not fit `varchar(10)`, and every insert fails. The same
happens on a pod whose clock is before the epoch, as its ids are negative and their uint64 large.

In `RateLimit`, the script stores the stamp of the command it executes, even if that is earlier than the one stored, so
an interval may be refilled again and again: over a long time, with pods' clocks apart by a second or more, more than the 2 per
second of main.go:96 may be admitted. `SharedBound` bounds the surplus of all but these seconds, which
`Rewound` counts. A request that gives up may be charged in both buckets. And the
fallback admits its capacity once per pod.

The int32 counter of `GetReadDB` overflows after 2^31 reads of a process; the index is then negative and the access
panics. `ReadViews` abstracts the counter to a choice of replica.

## 4. Fairness

`ShortLink!Fairness` assumes weak fairness of each request's own steps, of a rebuild and of a consumer's
handling of a message: goroutines that can run do run, and calls return (they have contexts and driver
timeouts). It assumes the same of the expiry of L1 and Redis entries, which have TTLs.
`SyncStart` of each message is strongly fair: the queue and redelivery hand out each message again while
it is not acknowledged, and a consumer is busy from time to time. No fairness is assumed of failures,
of new requests, or of Redis errors: `CreatePipeFail` may give up or not.

`Outbox!Fairness` assumes that the ticker loop, the consumer loop and the broker run, that time ends an
abandoned lease, and that a crashed process is restarted. `EventuallySettled` is conditional on `Calm`: `Trouble`
(crashes, failed updates, lost commits, stolen leases, Redis failures) happens only finitely
often, and some instance has its connection again and again; nothing can be promised otherwise, and the run places no
bound on how often it happens before. An instance that has lost its connection goes on claiming rows and failing them, and messages
may be swallowed with a connection, so the property allows these two ends besides the message being synced.

`Snowflake`, `L1Cache` and `RateLimit` have no liveness property. A severe setback makes `Generate` fail for as long as it
lasts; the others are bounds on what happens, and the operations of a cache are single steps.

Deadlock is checked in all passing runs but `snowflake`, and in `bad_case`. `Snowflake` may stop when its
clocks reach `MaxTime`, and `bad_retry`, which has no crashes, when its only row is retired.

## 5. What is proved

All for every value of the constants that satisfies the named assumptions of each module: any number of URLs,
codes, pods, requests, rows, instances, replicas, keys and shards, any page size, collation, capacity, rate and field
width, and any choice of failures. The assumptions say that sentinels are not values, that codes are positive
integers, that consumers are pods, and that lengths are positive; `SlackAssumption` is the only one about the deployment
(the clock error and delay that the key's extra 10 seconds cover), and `RangeAssumption` the only one that relates the
widths of fields.

The service:

- `TypeCorrect`: `Spec => []TypeOK`. `TypeInv` strengthens `TypeOK` with what each `pc` implies about
  the fields of a request, message, rebuild and call (a creator in `pipe` has a pod, a URL and a code, and
  so on). Without it, an update at `creator[k].pod` cannot be shown to be well typed.
- `CallsAlwaysHaveWaiters`: `Spec => []CallsHaveWaiters`. It is inductive together with `TypeInv`: a request joins
  the call of its code or starts it, a call that returns answers all who wait for it, and a restart
  takes both. A request that waited without a call would wait for ever: this is the safety that `EveryRequestAnswered`
  rests on.
- `CachesAlwaysAgree`: `Spec => []CachesAgree`, and `Deduplication`: `Spec => []OneCodePerURL`.
  `Agreement` adds that the unique keys hold, that outbox messages and requests past the commit carry
  the row's URL and code, and that replicas hold only committed rows. The argument: a row never
  changes once it is committed, so everything copied from a row stays true of it,
  wherever and however late it is written. A code is issued only when it is the row of its URL,
  and the unique key on the URL's hash makes that one code.
- `RebuildAlwaysCovers`: `Spec => []RebuildCovers`. The invariant is that a code which was committed
  before the scan is in the bitmap, in the page in hand, or above the cursor. It survives inserts,
  because new rows are not owed by this scan, and each page, because pages are taken in order.
- `NoLateNotFound`: `Spec => []NotFoundOnlyIfEarly`. `NotFoundInv` adds that a call or a request whose
  code is not in `early` is about a `Safe` code. `Safe` is stable, except that a restart of a pod
  could disturb it, and does not: the new rebuild starts from all that is committed. A ready filter
  covers a Safe code, and the master has its row, so neither can answer "not found"; and negative entries
  are copied only from earlier ones.
- `RepairAlwaysPending`: `Spec => []RepairPending`. `HandlersCover` adds that a consumer whose pipeline no longer has the
  Bloom command has covered the code of its message; `RepairPending` is not inductive without it, as `SyncFill` acknowledges on the
  strength of an empty pipeline alone. Every other end of a handler (error, retries used up, restart) leaves the
  message.
- `ResolvableForGood`: `Spec => StaysResolvable`. By `NotFoundInv` no step makes a new negative entry for a `Safe` code,
  and one that copies an entry (a hit, a fill, a late `SET`, replication, a promotion) needs one to copy. With the theorem
  before this is the safety half of `EventuallyResolvable`: what is left to liveness is that the message is
  handled and the old entries expire.
- `SystemIsLinkService`: `Spec => ImplementsLinkService`. Each step commits a link, hands out a code, or leaves
  both alone and at most answers lookups. That a code handed out is the URL's row is `Agreement`; that an answer is right is
  `CachesAgree` for URLs and `NotFoundInv` for 404s; and what is settled stays so, unless a failover makes it early.

The outbox (`OutboxProofs`):

- `OutboxTypeCorrect`, `NoSentMessageLost` (`SentNotLost`), `RetryBudgetExact` (`RetryBudget`), `RetiredRowsStay`
  (`TerminalStable`). The invariant `Inv` adds that an unclaimed row has no owner, and `Memory`: a worker
  that remembers a message as published can rely on it being carried or dropped, one that is about to delete a row
  on its being retired, and what is acknowledged was handled. `SentNotLost` is not inductive without it, as `MarkSent` acts on memory.
  Two summaries replace twenty actions: each step moves each row along one of a few edges (`RowMove`),
  and each worker along one of a few others (`WorkerMove`); `CarriedKept` says that what is carried stays
  so until it is synced or dropped.
- `OutboxIsMailbox`: `Spec => ImplementsMailbox`. A row that is inserted is a `Commit`, `HandleOk` is a `Handle`,
  and what leaves the transit in any other step is forgotten: with connections that stay open, only what was handled.
- `NoCommittedMessageLost`: if no connection closes but with its process, a committed message is handled or in
  transit. No row is failed then either, as an instance that can publish has its connection.
- `LiveClaimsRespected`: `Spec => LiveClaimRespected`. A row under a running lease is not claimable, and the updates that
  end a claim select by owner; deletion is of retired rows, which is where the invariant is needed.

The rate limiter (`RateLimitProofs`):

- `LimitTypeCorrect`, `SharedBucketBounded` (`SharedBound`), `FallbackBounded` (`LocalBound`), `NoLockout`
  (`DeniedOnlyWhenBusy`). `CommandInv` and `BucketInv` bound a stamp, and the stored time, by the true time.
  `ExcessInv` is the potential: tokens left and excess together are at most the capacity and what the
  time up to the stored one is worth. A command that moves the stored time moves both sides by the
  same amount; an expired key is old enough that `excess` was zero, which is where the slack is needed.

Ids and codes (`ShortCodesProofs`):

- `IdTypeCorrect`, and under `Deployment` also `IdsAreUnique` (`UniqueIds`) and `IdsIncrease` (`IncreasingIds`). `IInv`
  says that every id of a pod is `Before` its timestamp and sequence or, when a process has forgotten these,
  before the millisecond in which the new one starts, and that a sleeping pod has `CaughtUp` when its sleep ends. Both
  properties follow since a new id is after every one of its node, and fields below their widths
  compare in order.
- `CodecRoundTrip` and `CodeLength`: what `Encode` and `Decode` compute for every number, alphabet and word. The
  recursive functions are first shown to satisfy their recursive equations on all of `Nat` (`Recursion`,
  from the library's theorem that every non-empty set over a well-founded order has a least element); what is said
  of every number then holds because the least exception would have a smaller one, its quotient (`Descent`).
- `EveryCodeDecodes` (`CodesDecode`), `EveryCodeFits` (`CodesFit`) and `CodesAreDistinct` (`DistinctCodes`) apply them to the ids. For
  the last, ids lie in one interval shorter than the word (`InRange`), so that the conversion to unsigned loses nothing,
  and a code is decoded to one number only. It needs no assumption on clocks, restarts or nodes. With
  `IdsAreUnique` it justifies that `Store` takes an id and its code to be one thing.

The cache (`L1CacheProofs`):

- `CacheTypeCorrect`, `AlwaysCoherent` (`Coherent`), `RecentlyUsedKept` (`RecentKept`). `Recency` says that
  what was set last is in the map unless it expired or as many keys as the shard holds were used since, and that whatever precedes a key in its list
  was used after it; so the key that `Add` evicts, the last one, has a full shard of others
  that were used since.
- `CacheIsLossyMap`: `Spec => ImplementsLossyMap`. An entry that has expired is already invisible, so lazy expiry
  is a stutter, and eviction or time passing loses entries.

Each proof has one lemma per action, and under it one step for each conjunct the action can
disturb.

Only model-checked: liveness (`EveryRequestAnswered`, `EventuallyResolvable`, `EventuallySettled`), since fairness and
ENABLED are beyond the prover. `CallsHaveWaiters`, `RepairPending` with `StaysResolvable`, and `NoCommittedMessageLost` are the
invariants that these rest on, and are proved. The two runs that expect a violation have their traces and need no proof.

## 6. What is not modelled

- Cancelled contexts: the shared call runs under the context of its first caller; an error at a database
  step stands for it.
- A write that is applied after its error was reported, in `ShortLink`: every failed command took effect before its error, or
  never. (`RateLimit` has such commands.)
- MD5 collisions: `long_url_hash` is the URL. The hash, seeds and offsets of the Bloom filter: they decide which
  false positives occur, and any may occur here.
- The counter of `GetReadDB`, see section 3.
- `Live` and `Ready`: functions of two pings without state; what follows from them over time is the doing of Kubernetes.
- The memory of `LocalFallbackLimiter`, which keeps a limiter for every address for good, and other clients: limiters
  of different addresses do not interact.
- A backlog of outbox rows under fairness: `outbox` has one row, and `outbox_safety`, which has two, checks no liveness;
  two rows under fairness are too many states for TLC. Claims take the oldest row first.
- The Base62 of strings that no id has: `Decode` has them (an error, or a number that wraps), no property is about them.
- Connection set-up, HTTP parsing, configuration files, logging, manifests: no behaviour over time.
- Helpers without callers (`MarkOutboxSent`, `WaitUntilReady`, the hash-tag and batch helpers of storage.go).

## 7. How the project grew, and what could follow

The order was that of the list of modules: the service and its store first, then the outbox and ids, then the parts whose
contract the service relies on and the limiter in front of it, then the abstract specifications and the refinements.
What could follow, in this order:

1. `ApiStatus`: results mapped to statuses. Every error of Redirect becomes a 404, where
   `internal/api/README.md` describes a 500.
2. `BloomFilter`: bits and bitmap size, to say how likely a false positive is kept out of the database; this is a question of
   counting, not of behaviour.
3. `EventuallySettled` with a backlog: a proof on paper needs the order of claims, and TLC an instance with two rows.
4. Contexts in `ShortLink`: a client that disconnects cancels the call others have joined.
