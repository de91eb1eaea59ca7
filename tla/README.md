# Notifyx in TLA+

Specifications of the Notifyx backend (`src/backend`), TLC configurations that
check them on small instances, and TLAPS proofs about all of them. Paths below
are relative to `src/backend/internal` unless they start with `src/`.

## The system and its parts

    client ── POST /notifications ──> handlers/notification.go
                 │ dedup/dedup.go          Redis: one string per idempotency key
                 │ ratelimit/limiter.go    Redis: two sorted sets per window
                 │ createAndQueue          Postgres transaction + Kafka publish
                 ▼
          channel topic ──> kafka/consumers: email, push, sms ──> provider
                 │                                 └─> delivery status row
                 │  └──────────────> in-app ──> ws/hub.go ──> browser
                 │                         └──> offlinequeue/queue.go (Redis)
                 ▼ after 3 failed tries
           DLQ topic ──> kafka/consumers/dlq.go ──> dlq_messages, status rows

Beside these run the scheduler (publishes scheduled notifications when due), the
replayer (publishes what the rate limiter had put aside), the cleanup cron
(deletes notifications past their 90 days), the administration API for tenants,
API keys, channels, limits and templates, analytics, and a Flutter client.
`src/backend/cmd/server/main.go` wires the parts and stops them.

| Part | Code | Module | State |
|---|---|---|---|
| Consumer loop | `kafka/consumers/consumer.go` | `Consumer`, `OffsetContract` | modelled, proved |
| Rate limiter | `ratelimit/limiter.go` | `RateLimiter` | modelled, proved |
| Ingestion API, idempotency keys | `api/handlers/notification.go`, `dedup/dedup.go` | `Send` | modelled without the reads, proved |
| Delivery and DLQ handlers, status rows | `kafka/consumers/{email,push,sms,dlq}.go`, `repository/postgres` | `Delivery` | modelled, proved |
| WebSocket hub, offline queue, presence, in-app handler | `ws`, `offlinequeue`, `presence`, `kafka/consumers/inapp.go` | `Hub` | modelled, proved |
| Scheduler, replayer, cleanup, shutdown order | `scheduler`, `ratelimit/replayer.go`, `main.go` | `Crons` | modelled, proved |
| Tenants, API keys, authentication, templates | `api/handlers/{tenant,template}.go`, `api/middleware/auth.go`, `repository/postgres`, the schema | `Tenants` | modelled without single reads and `Render`, proved |
| Kafka producer, provider clients | `kafka/producer`, `channels` | in `Send`, `Delivery`, `Crons` | outcomes of a call only |
| Analytics, History, Get, List | reads | – | not modelled |
| Flutter client, configuration, metrics, tracing, migrations | | – | not modelled |

`PROJECT.json` has the complete list with sources, the lines each definition
translates, and the hazards that chose the properties.

## How the modules correspond to the code

In every module an action is one statement on shared state (a query, a Redis
command or script, a publish, a channel operation, a lock-protected section)
with the local code up to the next one. Two Booleans describe an unreliable
call: whether it took effect, and whether the caller got a success. "A slip to
guard against" marks a faulty variant of the definition after it; the properties
are checked to fail when the variant takes its place.

**Consumer** is `ChannelConsumer.Run` and `handleWithRetry`. The broker is
`log` and `committed`, the reader's position `pos`, the code's position `pc`,
`cur`, `attempt`. `Fetch`, `FetchFails`, `FetchWaitEnds`, `HandlerReturns`,
`BackoffEnds`, `PublishDLQ` and `CommitMessages` are the loop's steps; `Crash`,
`Shutdown`, `Restart`, `Rebalance` and `Append` its surroundings. `fates` is a
history variable: what `handleWithRetry` decided about each position.
`HasProducer` tells the channel consumers from the DLQ consumer.

**OffsetContract** is what the loop promises: messages are appended, each
position gets decided, and the group offset only advances over decided ones.
`HonoursContract` instantiates it with the variables of `Consumer`.

**RateLimiter** is one tenant's concurrent `Allow` calls: the two queries of
`resolveLimits`, `time.Now()`, and the Lua script as one atomic step. A sorted
set is a set of calls, scored by `stamp`; `ttl*` are the keys' expiries.

**Send** is `Send`, `Batch` and `Schedule` through `processSend` and
`createAndQueue`. Each request has a `pc`, a row (`none`, `open`, `committed`),
and an answer; `dedup` is Redis. An INSERT that meets an uncommitted row of the
same (tenant, key) waits, as in Postgres. `configured` is the deployment:
without Redis or Kafka the parts are nil pointers inside interfaces, as in
`main.go`, and calling one panics.

**Delivery** composes `createAndQueue`'s transaction with two instances of
`Consumer`, over the channel topic and the DLQ topic, and spells out the
handlers' statements between the loop's steps. Email, push and SMS handlers have
the same shape. A notification is one execution of `createAndQueue`.

**Hub** is one user's connections: for each the goroutine of `Connect`/`readPump`
and that of `writePump`, and the in-app consumer's handler. `SendToUser` is two
steps because it sends after it has released the lock.

**Crons** is the scheduler, the replayer and the cleanup cron of one process
beside the consumers' effects on the rows. A notification is owed a publication
by one of the crons (`cron`); `Tick` reads a batch of the oldest rows and gives
each a goroutine, `job` is the statement it is at, and at most `MaxConcurrent`
of them have a slot. `process` follows `main` through `cancelBg`, `bgWg.Wait`,
`prod.Close` and `e.Shutdown`: while it is "draining" the goroutines' context is
cancelled and their calls fail. `Restart` may change the deployment: without Redis
there is no replayer; without Kafka the replayer requeues without publishing, and
the scheduler calls a nil pointer and panics. `again` and `skipped` are history:
publications that went unrecorded, and rows requeued without Kafka. That Schedule
accepts a notification is one step here; the gap between its two commits is in
`Send`.

**Tenants** is the administration API, the templates and the checks a Send makes
before it persists. `db` holds the committed rows of six tables; a request has a
list of statements, `todo`, of which `at` have run in its open transaction. The
rows written so far are its locks, foreign keys share the parent row, `Waits` says
who waits for whom, and `Cycle` is what Postgres' deadlock detector breaks.
`Durable` commits with `ON DELETE CASCADE` and `SET NULL`. Lookups that precede a
transaction (`GetByID`, `Auth`, `IsEnabled`, `resolveTemplate`) are steps of their
own, so what they found may have changed.

## Runs

Passing runs:

| Run | Question | Bounds |
|---|---|---|
| `consumer` | Does the loop commit past an undecided message? Does it implement `OffsetContract`? Is every message decided, and does the loop stop after `cancelBg`? | 1 partition, 3 messages, 2 disruptions, 3 tries |
| `limiter` | Do the limits hold when scripts run out of order or twice, and limits change meanwhile? | 3 calls, 2 channels, limits 1–2, window 2 s, delay 1 s, clock 3 s, 1 update |
| `delivery` | Are statuses earned, is `attempts` right, is every published notification settled? | 1 notification, 2 messages per topic, 1 disruption, failing statements |
| `send` | Idempotency of concurrent requests with one key; is every request answered? | a Batch of 2 with one in flight, a Send and a Schedule, 1 fault, 1 expiry, with and without Redis and Kafka |
| `hub` | Reconnects, full buffers, offline queue and presence; is a superseded connection told to end? | 2 connections, 2 messages, buffer of 1, 1 fault, with and without Redis |
| `crons` | Does a cron forget or repeat a notification? Does one that is stuck hold up another? Does a shutdown end, and close the producer last? | 2 notifications, 1 of them stuck, batch of 2, one slot, clock 2, retention 1, 2 faults, with and without Redis or Kafka |
| `tenants` | Do rows outlive their tenant? Are configuration changes whole? Is every request answered in spite of locks and deadlocks? | 2 requests of any kind, 3 tenants (one still to be created), 2 channels, 1 fault |

The bounds admit the cases the properties are about. Three messages on a
partition are a failed one, one that is committed over it and one to fetch after
a restart; two disruptions are a crash during the recovery from another. Three
calls on two channels exceed the channel's limit and the global one, and one of
them may run late. A Batch, a Send and a Schedule with one key are creators and
duplicates of each other and a request that skips Redis; the fault is a cancelled
client, a failed call or a crash. A buffer of one is full after one message. Two
notifications are one that is stuck and one that must pass it, in the same cron or
in different ones; two faults are a crash or a signal after a failed record, and a
clock of 2 lets one notification fall due before it expires and another after.
Two requests are enough for every race of a check with a write and for a
deadlock, which needs two lists of two channels in opposite orders. Clocks, log
lengths, copies, faults, expiries, updates and disruptions are the only bounded
counters and each has its constant. `delivery` follows one notification, and its
writer appends a message at most once: two notifications, or two copies, together
with a disruption are out of reach. What two messages behind each other mean for
the loop is in `consumer` and its proof, and a second copy is handled as a
redelivery is. Calls, connections and messages are interchangeable where a run
uses symmetry; the runs with liveness use none.

Five runs end in a violation: they check a statement of the documentation or of
a comment that the code does not keep.

| Run | Statement | What happens |
|---|---|---|
| `consumer_loss` | `consumer.go`: an offset is committed only if its message was handled or is on the DLQ | after a failed DLQ publish the loop continues, and the next commit covers the message |
| `delivery_recorded` | `SYSTEM_DESIGN_SPEC.md`: `delivered` is what the provider confirmed | the consumer runs before the transaction commits; its update finds no row and is not repeated |
| `send_tenants` | `src/README.md`: entities are isolated by `tenant_id` | the Redis key of a reservation does not name the tenant |
| `hub_panic` | `hub.go`: `SendToUser` returns false if it cannot send | it sends on a channel a reconnect has closed |
| `crons_shutdown` | `main.go`: stopping the background workers lets in-flight work complete | the status updates after a publish run on the cancelled context and fail; the next process publishes again |

Other promises are broken in some cases only. There the properties say what is
left of them, and their exceptions are the cases:

- A message whose DLQ publish failed, or on which the DLQ handler failed three
  times, is lost: the exceptions of `NothingVanishes` and `PublishedIsSettled`.
- A publish that reached the topic and returned an error leaves a message without
  rows, in spite of "persist + publish commit or roll back together"
  (`notification.go:33`): `OneMessagePerKey` counts only rows that exist.
- A provider call whose answer is lost is repeated, and `delivered` may become
  `failed` when a message was both redelivered and sent to the DLQ:
  `StatusIsEarned` says that each status was true at some time, not which is last.
- A reservation stays behind when Redis fails or loses a reply, the client goes
  away, or the process dies or panics: the set `hurt` in `ReservationIsReleased`.
- After a commit whose reply was lost the key is released although the row
  exists, and a repeated Schedule is never matched with the original; clients then
  get an error from the unique constraint, never a second notification
  (`OneNotificationPerKey`).
- Without Redis or Kafka requests panic (`Panic`), because the nil pointers that
  `main.go` stores in interfaces are not nil interfaces.
- A push between the two commands of `Flush`, a flushed message that meets a full
  buffer, and a message in the channel of a connection that broke are lost: the
  set `lost` in `MessagesAreSomewhere`.
- A superseded connection deletes the presence key its successor has set.
  `NoGhostPresence` is the other direction, and shows that deleting only for the
  newest connection would not be right either: a slow `SetOnline` of the older
  one would be left behind.
- A failed, cancelled or cut-off record after a cron's publish means a second
  message: `again` in `DuplicatesAreExplained`. (`src/requirements/architecture.md:26`
  marks a row fired before it is published; the code does it after.)
- A cron's `SetStatus(queued)` can overwrite the `delivered` of a fast consumer
  until its goroutine ends: `DoneIsDone` starts there.
- As many stuck rows as the batch limit, of one tenant even, keep all others from
  being published, as they stay the oldest: the condition of `BatchReachesOthers`
  and `OthersProgress`.
- A notification scheduled later than its retention is deleted unsent, and one that
  the replayer meets without Kafka is marked queued and never published: the
  exceptions of `OthersProgress` and `NothingForgotten`.
- Without Kafka a due notification panics the scheduler and with it the process,
  where the comment at `scheduler.go:81` has the row "left unfired": `main.go:176`
  passes a nil pointer as an interface. Nothing is lost (`NothingForgotten`).
- Of two PUTs that list channels in opposite orders one may be answered 500;
  `UpdatesAreWhole` and `EveryRequestAnswered` say that it changes nothing and that
  both are answered. A channel that is disabled, or a key that is revoked, after it
  was checked does not stop the Send under way.

## Fairness

- Consumer and Delivery: strong fairness of fetching from a partition, because
  the reader interleaves failing fetches (network errors) with good ones, and
  of a fetch that fails because the context is done; weak fairness of the loop's
  other steps, which run unless the process dies, and of `Restart` (the
  process manager). Nothing is assumed of outcomes: a handler may fail for ever.
- Send: weak fairness of each request's goroutine.
- Crons: weak fairness of the tickers, of each goroutine, of `main`'s shutdown and
  of `Restart`. Strong fairness of a yes from `Allow` for a notification that is
  not stuck is an assumption on the environment: its window has room now and then
  when the replayer asks. Nothing is assumed of cleanup, consumers or clock.
- Tenants: weak fairness of the requests taken together: while some request can
  take a step, some request does. Requests are finite, so all of them get on.
- Hub: none; its properties are safety.

Deadlock checking is off in configurations in which everything may be finished:
all requests answered, all messages handled, all faults spent.

## Proofs

Every component has a module of proofs, named after it; `AttemptsProofs` is a second
one for `Delivery`. The proofs hold for any
number of messages, calls, requests, connections, notifications and faults, and for
all other constants that satisfy the assumption named in the component's module:
that bounds and sizes are natural numbers (positive where the code has a positive
default), that placeholders such as "no message" are not among the real values,
and that the table of notifications is finite. TLC evaluates the assumptions in the
runs. The inductive invariants below were checked on the runs' instances before they
were proved.

| Component | Proved for all constants |
|---|---|
| `Consumer` | `TypeOK`, `CommitCovers`, and the refinement `HonoursContract` |
| `RateLimiter` | `TypeOK`, `WindowBound`, `SlotHeld`, `AllowedIsCounted` |
| `Send` | `TypeOK`, `AnswersArePersisted`, `OneNotificationPerKey` (under `KeysAreOwned`), `OneMessagePerKey`, `ReservationIsReleased` |
| `Delivery` | `TypeOK`, `StatusIsEarned`, `NothingVanishes`, `AttemptsCountOutcomes` |
| `Hub` | `TypeOK`, `HubHoldsLatest`, `EntryIsOpen`, `SupersededIsTold`, `NoGhostPresence`, `MessagesAreSomewhere` |
| `Crons` | `TypeOK`, `NothingForgotten`, `DuplicatesAreExplained`, `ClosedIsQuiet`, `BatchReachesOthers`, and the action property `DoneIsDone` |
| `Tenants` | `TypeOK`, `NoOrphans`, `EveryTenantHasKey`, `TemplatesAreSound`, and the action property `UpdatesAreWhole` |

- `ConsumerProofs`. `CommitCovers` is not inductive: that a commit is safe rests on
  everything below the message in hand being decided (`InHandSound`), on the message
  itself being decided at the commit (`ReadyToCommit`), and on the reader having
  handed out nothing undecided but that message (`FetchedDecided`). Together they are
  `CoverInv`. `OutsideCoverInv` says that the invariant survives whatever happens
  around the loop: a longer log, a signal, a crash.
- `RateLimiterProofs`. `LimiterInv` adds that timestamps are in the past, that a
  stale limit was configured once, and that a key outlives the windows of the calls
  in it; then a script counts every call admitted in a window it may extend.
  `MaxDelay` bounds the time from `time.Now()` to the script's run. The bound holds
  for windows shorter than `windowSize` by that delay: with two timestamps further
  apart, the later script may trim what the earlier should count. A call that was
  told yes was admitted by the run whose reply arrived or by one before it, and
  admissions are not taken back (`AllowedStaysCounted`).
- `SendProofs`. `SendInv` says that rows follow the code's position, that clashing
  rows exclude each other, that what Redis holds under a key was sent with that key,
  that answers name committed rows, and that a key is held only by a request that has
  passed `Reserve` and, once it has ended, has its row or is in `hurt`
  (`ReservationsAreHeld`). `SendIsIdempotent` assumes `KeysAreOwned` (no two tenants
  choose one key; `send_tenants` shows why).
- `DeliveryProofs` builds on `ConsumerProofs`: `ChanP` and `DeadP` are instances of
  it for the two loops, each step of `Delivery` is a step of a loop or happens around
  it, and so both keep `CoverInv`. `DeliveryInv` adds what the handlers have done
  between their statements (`MidHandler`) and what each fate stands for: a handled
  message was accepted by the provider, one with fate "dlq" is on the DLQ topic, one
  handled there has its row (`ChanFates`, `DeadFates`). Topics and histories only
  grow (`HistoryGrows`), so what a fate stands for stays true, and `NothingVanishes`
  is `CommitCovers` with the fates read in this way.
- `AttemptsProofs`. `AttemptsInv` is an account: what `attempts` says, plus one for a
  message in hand whose status update is still to come (`ChanOwes`, `DeadOwes`), is
  at most the copies that the two readers have passed since they were last set back
  and, for each time that they were (`Rereads`), all the copies there are. A fetch
  passes the copy it hands out, the update pays what is owed, a retry does neither.
  A shutdown counts as a disruption before the readers are set back, and the restart
  that follows it does not, so `Rereads` is one behind while the process is ending.
- `HubProofs`. `HubInv` says that every attached connection but the one in the map
  has had its channel closed (`OthersAreClosed`), that a connection which never
  registered has left no trace, that a `Flush` about to send has a channel, which is
  its own as long as nobody else has registered (`FlushHasTarget`), and where each
  message is from the moment the handler has sent or pushed it (`MessagesAreKept`).
  `FlushHasTarget` is why `HubHoldsLatest` holds: the panic on a closed channel skips
  `unregister`, and never happens to the connection in the map.
- `CronsProofs`. A goroutine that closes a row has published it (`JobsArePublished`),
  and one on its way to `Publish` has a cause for each message there is already
  (`CopiesAreCaused`). `BatchReachesOthers` is about a single state, and follows from
  the cardinalities of finite sets.
- `TenantsProofs` first shows that every action is of one of six kinds: a request
  starts, goes on without writing, writes a row, stops, commits, or the process dies.
  `TenantsInv` says which statements a handler's list may hold (`WellFormed`), that
  locks are disjoint, that what an uncommitted row refers to exists or is written by
  the same transaction and is not being deleted (`ParentsAreHeld`), and that only a
  request that has committed has written anything. With it a commit, with the
  cascades of a delete, keeps the foreign keys. `UpdatesAreWhole` follows because the
  tables change at a commit only, and then by all of its request's statements.

Only model-checked:

- liveness (`EveryMessageDecided`, `ShutdownStops`, `PublishedIsSettled`,
  `EveryRequestAnswered`, `OthersProgress`, `ShutdownEnds`): fairness and ENABLED
  are outside the prover;
- that the five statements of the documentation fail: a violation is an execution.

## What is abstracted

Message bodies, recipients, names and IDs are model values; JSON decoding and
validation succeed or fail. Postgres is read committed with row locks and the
constraints that matter, Redis executes commands and scripts atomically and may
lose a reply, Kafka keeps what it acknowledged. Topic retention is not modelled.
Keys are drawn without collisions. A single server process is assumed, as in
`src/planning/decisions.md`.

## Not modelled

- Analytics, History, Get and List: reads that change nothing and on which nothing
  is decided.
- `Render`, formats of requests to providers, FCM's token cache (read and
  refreshed in one section under a mutex).
- Requests that `e.Shutdown` still serves after `prod.Close`: their publish returns
  an error, which `Send` has as a failed publish.
- The connection pool's limit: in the models every statement gets a connection.
- Configuration, logging, metrics, tracing, migrations: start-up and observation.
- The Flutter client: view state, read from the backend again on every load.

## Plan

That both loops of `Delivery` implement `OffsetContract`, from `StepImplements` of
`ConsumerProofs`. `Arrive` then has to take several messages in one step, since a
retried `Publish` may append more than one copy.
