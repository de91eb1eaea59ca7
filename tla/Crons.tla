------------------------------- MODULE Crons --------------------------------
(***************************************************************************)
(* The background crons and the life of the process that runs them:        *)
(* backend/internal/scheduler/scheduler.go, internal/ratelimit/            *)
(* replayer.go, the cleanup loop and the shutdown sequence of cmd/server/  *)
(* main.go, over the rows that repository/postgres keeps for them.         *)
(*                                                                         *)
(* A notification that Schedule or a rate-limited Send has persisted is    *)
(* owed a publication by one cron.  Both crons read a batch of the oldest  *)
(* such rows, run one goroutine per row, and publish before they record    *)
(* it.  Schedule never asks the rate limiter, so a notification belongs to *)
(* the same cron for ever.                                                 *)
(***************************************************************************)
EXTENDS Integers, FiniteSets

CONSTANTS
    Notifications,
    Stuck,          \* those Kafka never accepts, or whose window never has room
    Deployments,    \* what is configured: REDIS_URL, KAFKA_BOOTSTRAP_SERVERS
    Delays,         \* how far ahead a client may schedule
    Retention,      \* expires_at - created_at
    BatchSize,      \* batchSize of both crons
    MaxConcurrent,  \* maxConcurrentFires, maxConcurrentReplays
    MaxClock,       \* bound: the clock
    MaxFaults       \* bound: errors, crashes, signals

ASSUME CronsAssumption ==
    /\ IsFiniteSet(Notifications)
    /\ Stuck \subseteq Notifications
    /\ Deployments \subseteq SUBSET {"redis", "kafka"}
    /\ Delays \subseteq Nat \ {0}
    /\ {Retention, MaxClock, MaxFaults} \subseteq Nat
    /\ {BatchSize, MaxConcurrent} \subseteq Nat \ {0}

VARIABLES
    row,         \* the notification's row, with all that cascades from it
    cron,        \* the cron that owes it a publication
    stamp,       \* scheduled_at of a scheduled row, created_at of a limited one
    expires,     \* expires_at
    nstatus,     \* notifications.status
    dstatus,     \* notification_deliveries.status
    fired,       \* notifications whose scheduled_notifications row is fired
    copies,      \* history: messages that reached the topic
    unread,      \* those no consumer has handled
    job,         \* what the notification's goroutine does next
    process,     \* where main is
    configured,  \* the deployment the process runs in
    now,
    faults,
    again,       \* history: publications that went unrecorded
    skipped      \* history: notifications requeued without Kafka

rows == <<row, cron, stamp, expires>>
statuses == <<nstatus, dstatus, fired>>
topic == <<copies, unread>>
main == <<process, configured>>
vars == <<rows, statuses, topic, job, main, now, faults, again, skipped>>

Init ==
    /\ row = [n \in Notifications |-> "absent"]
    /\ cron = [n \in Notifications |-> "scheduler"]
    /\ stamp = [n \in Notifications |-> 0]
    /\ expires = [n \in Notifications |-> 0]
    /\ nstatus = [n \in Notifications |-> "pending"]
    /\ dstatus = [n \in Notifications |-> "pending"]
    /\ fired = {}
    /\ copies = [n \in Notifications |-> 0]
    /\ unread = [n \in Notifications |-> 0]
    /\ job = [n \in Notifications |-> "off"]
    /\ process = "running"
    /\ configured \in Deployments
    /\ now = 0
    /\ faults = 0
    /\ again = [n \in Notifications |-> 0]
    /\ skipped = {}

-----------------------------------------------------------------------------

Goto(n, label) == job' = [job EXCEPT ![n] = label]

\* A call of n's goroutine fails: cancelBg has cancelled its context, or
\* something broke.
Fault(n) ==
    IF process = "draining" THEN UNCHANGED faults
                            ELSE faults < MaxFaults /\ faults' = faults + 1

\* A call with a live context succeeds.
Works == process = "running" /\ UNCHANGED faults

\* The row its cron's query would still return, were it due.
Open(n) ==
    /\ row[n] = "live"
    /\ IF cron[n] = "scheduler" THEN n \notin fired ELSE nstatus[n] = "queued_rate_limited"

\* Its goroutine has published it and not yet recorded so.
Unrecorded(n) ==
    /\ Open(n)
    /\ "kafka" \in configured
    /\ \/ job[n] = "notification"
       \/ job[n] \in {"delivery", "mark"} /\ cron[n] = "scheduler"

\* The process ends, and all goroutines with it.
Die ==
    /\ process' = "down"
    /\ job' = [n \in Notifications |-> "off"]
    /\ again' = [n \in Notifications |-> again[n] + IF Unrecorded(n) THEN 1 ELSE 0]
    /\ UNCHANGED <<rows, statuses, topic, configured, now, skipped>>

-----------------------------------------------------------------------------
\* What the API leaves behind.

\* Schedule: createAndQueue without publishing, then Scheduled.Create.
AcceptScheduled(n, delay) ==
    /\ row[n] = "absent"
    /\ process # "down"
    /\ row' = [row EXCEPT ![n] = "live"]
    /\ cron' = [cron EXCEPT ![n] = "scheduler"]
    /\ stamp' = [stamp EXCEPT ![n] = now + delay]
    /\ expires' = [expires EXCEPT ![n] = now + Retention]
    /\ UNCHANGED <<statuses, topic, job, main, now, faults, again, skipped>>

\* processSend when the limiter refuses.
AcceptLimited(n) ==
    /\ row[n] = "absent"
    /\ process # "down"
    /\ "redis" \in configured
    /\ row' = [row EXCEPT ![n] = "live"]
    /\ cron' = [cron EXCEPT ![n] = "replayer"]
    /\ stamp' = [stamp EXCEPT ![n] = now]
    /\ expires' = [expires EXCEPT ![n] = now + Retention]
    /\ nstatus' = [nstatus EXCEPT ![n] = "queued_rate_limited"]
    /\ dstatus' = [dstatus EXCEPT ![n] = "queued_rate_limited"]
    /\ UNCHANGED <<fired, topic, job, main, now, faults, again, skipped>>

-----------------------------------------------------------------------------
\* The ticks.

\* A slip to guard against: the query forgets fired = FALSE.
DueFired == {n \in Notifications :
                row[n] = "live" /\ cron[n] = "scheduler" /\ stamp[n] <= now}

\* GetDueUnfired and GetByStatus, before their LIMIT.
Due == {n \in Notifications : Open(n) /\ cron[n] = "scheduler" /\ stamp[n] <= now}

Limited == {n \in Notifications : Open(n) /\ cron[n] = "replayer"}

\* A slip to guard against: the LIMIT is one short.
BatchesShort(S) ==
    {B \in SUBSET S :
        /\ Cardinality(B) = IF Cardinality(S) < BatchSize THEN Cardinality(S) ELSE BatchSize - 1
        /\ \A m \in B, n \in S \ B : stamp[m] <= stamp[n]}

\* ORDER BY ... ASC LIMIT: ties are broken anyhow.
Batches(S) ==
    {B \in SUBSET S :
        /\ Cardinality(B) = IF Cardinality(S) < BatchSize THEN Cardinality(S) ELSE BatchSize
        /\ \A m \in B, n \in S \ B : stamp[m] <= stamp[n]}

\* The goroutines of cron c, and those that have a slot of its semaphore.
Jobs(c) == {n \in Notifications : cron[n] = c /\ job[n] # "off"}

Busy(c) == {n \in Jobs(c) : job[n] # "start"}

\* A slip to guard against: a tick does not wait for the one before.
TickOverlaps(c) ==
    /\ process = "running"
    /\ c = "replayer" => "redis" \in configured
    /\ \E B \in Batches(IF c = "scheduler" THEN Due ELSE Limited) :
          job' = [n \in Notifications |-> IF n \in B THEN "start" ELSE job[n]]
    /\ UNCHANGED <<rows, statuses, topic, main, now, faults, again, skipped>>

\* tickOnce and replayOnce read their batch once wg.Wait has returned from the
\* last one.  main starts the replayer only with Redis.  A failed query is a
\* tick that reads nothing.
Tick(c) ==
    /\ process = "running"
    /\ c = "replayer" => "redis" \in configured
    /\ Jobs(c) = {}
    /\ \E B \in Batches(IF c = "scheduler" THEN Due ELSE Limited) :
          job' = [n \in Notifications |-> IF n \in B THEN "start" ELSE job[n]]
    /\ UNCHANGED <<rows, statuses, topic, main, now, faults, again, skipped>>

-----------------------------------------------------------------------------
\* fireOne and replayOne, call by call.

\* replayOne asks the limiter first; fireOne reads its rows at once.
Allow(n, allowed) ==
    /\ job[n] = "start"
    /\ cron[n] = "replayer"
    /\ Cardinality(Busy("replayer")) < MaxConcurrent
    /\ allowed => n \notin Stuck
    /\ Works
    /\ Goto(n, IF allowed THEN "load" ELSE "off")
    /\ UNCHANGED <<rows, statuses, topic, main, now, again, skipped>>

StartFire(n) ==
    /\ job[n] = "start"
    /\ cron[n] = "scheduler"
    /\ Cardinality(Busy("scheduler")) < MaxConcurrent
    /\ Goto(n, "load")
    /\ UNCHANGED <<rows, statuses, topic, main, now, faults, again, skipped>>

\* GetByID and GetByNotificationID: a row that is gone ends the goroutine.
\* Without Kafka replayOne goes on to the statuses, while fireOne's producer is
\* a nil pointer in an interface and so not nil.
Load(n) ==
    /\ job[n] = "load"
    /\ Works
    /\ Goto(n, IF row[n] # "live" THEN "off"
               ELSE IF cron[n] = "replayer" /\ "kafka" \notin configured THEN "notification"
               ELSE "publish")
    /\ skipped' = IF row[n] = "live" /\ cron[n] = "replayer" /\ "kafka" \notin configured
                  THEN skipped \union {n} ELSE skipped
    /\ UNCHANGED <<rows, statuses, topic, main, now, again>>

\* A slip to guard against: a read that fails is tried again, whatever the context.
ReadRetried(n) ==
    /\ job[n] \in {"start", "load"}
    /\ Fault(n)
    /\ UNCHANGED <<rows, statuses, topic, job, main, now, again, skipped>>

\* Allow, GetByID or GetByNotificationID returns an error.
ReadFails(n) ==
    /\ job[n] \in {"start", "load"}
    /\ Fault(n)
    /\ Goto(n, "off")
    /\ UNCHANGED <<rows, statuses, topic, main, now, again, skipped>>

AppendMessage(n) ==
    /\ copies' = [copies EXCEPT ![n] = @ + 1]
    /\ unread' = [unread EXCEPT ![n] = @ + 1]

Publish(n) ==
    /\ job[n] = "publish"
    /\ "kafka" \in configured
    /\ n \notin Stuck
    /\ Works
    /\ AppendMessage(n)
    /\ Goto(n, "notification")
    /\ UNCHANGED <<rows, statuses, main, now, again, skipped>>

\* A slip to guard against: an error of Publish is only logged.
PublishFailsOn(n, took) ==
    /\ job[n] = "publish"
    /\ "kafka" \in configured
    /\ ~took
    /\ Fault(n)
    /\ Goto(n, "notification")
    /\ UNCHANGED <<rows, statuses, topic, main, now, again, skipped>>

\* A slip to guard against: the goroutine keeps its slot on the error path.
PublishFailsLeaks(n, took) ==
    /\ job[n] = "publish"
    /\ "kafka" \in configured
    /\ ~took
    /\ IF n \in Stuck THEN UNCHANGED faults ELSE Fault(n)
    /\ Goto(n, "leaked")
    /\ UNCHANGED <<rows, statuses, topic, main, now, again, skipped>>

\* Publish returns an error; took: the message had reached the topic.
PublishFails(n, took) ==
    /\ job[n] = "publish"
    /\ "kafka" \in configured
    /\ IF n \in Stuck THEN ~took /\ UNCHANGED faults ELSE Fault(n)
    /\ IF took THEN AppendMessage(n) ELSE UNCHANGED topic
    /\ again' = [again EXCEPT ![n] = @ + IF took THEN 1 ELSE 0]
    /\ Goto(n, "off")
    /\ UNCHANGED <<rows, statuses, main, now, skipped>>

\* UpdateStatus(queued), SetStatus(queued) and MarkFired, each on a row that
\* may be gone.  Their errors are only logged.
UpdateNotification(n, ok) ==
    /\ job[n] = "notification"
    /\ IF ok THEN Works ELSE Fault(n)
    /\ nstatus' = IF ok /\ row[n] = "live" THEN [nstatus EXCEPT ![n] = "queued"] ELSE nstatus
    /\ again' = [again EXCEPT ![n] =
                    @ + IF ~ok /\ cron[n] = "replayer" /\ Unrecorded(n) THEN 1 ELSE 0]
    /\ Goto(n, "delivery")
    /\ UNCHANGED <<rows, dstatus, fired, topic, main, now, skipped>>

SetDelivery(n, ok) ==
    /\ job[n] = "delivery"
    /\ IF ok THEN Works ELSE Fault(n)
    /\ dstatus' = IF ok /\ row[n] = "live" THEN [dstatus EXCEPT ![n] = "queued"] ELSE dstatus
    /\ Goto(n, IF cron[n] = "scheduler" THEN "mark" ELSE "off")
    /\ UNCHANGED <<rows, nstatus, fired, topic, main, now, again, skipped>>

MarkFired(n, ok) ==
    /\ job[n] = "mark"
    /\ IF ok THEN Works ELSE Fault(n)
    /\ fired' = IF ok /\ row[n] = "live" THEN fired \union {n} ELSE fired
    /\ again' = [again EXCEPT ![n] = @ + IF ~ok /\ Unrecorded(n) THEN 1 ELSE 0]
    /\ Goto(n, "off")
    /\ UNCHANGED <<rows, nstatus, dstatus, topic, main, now, skipped>>

-----------------------------------------------------------------------------
\* The channel and DLQ consumers, by what they leave behind.

Deliver(n) ==
    /\ process = "running"
    /\ "kafka" \in configured
    /\ unread[n] > 0
    /\ unread' = [unread EXCEPT ![n] = @ - 1]
    /\ dstatus' = IF row[n] = "live" THEN [dstatus EXCEPT ![n] = "delivered"] ELSE dstatus
    /\ UNCHANGED <<rows, nstatus, fired, copies, job, main, now, faults, again, skipped>>

\* After the last retry; nothing is recorded for a notification that is gone.
DeadLetter(n) ==
    /\ process = "running"
    /\ "kafka" \in configured
    /\ unread[n] > 0
    /\ unread' = [unread EXCEPT ![n] = @ - 1]
    /\ dstatus' = IF row[n] = "live" THEN [dstatus EXCEPT ![n] = "failed"] ELSE dstatus
    /\ nstatus' = IF row[n] = "live" THEN [nstatus EXCEPT ![n] = "failed"] ELSE nstatus
    /\ UNCHANGED <<rows, fired, copies, job, main, now, faults, again, skipped>>

-----------------------------------------------------------------------------
\* The cleanup cron and the clock.

Expired(n) == row[n] = "live" /\ expires[n] < now

\* DeleteExpired, with the foreign keys' ON DELETE CASCADE.
Cleanup ==
    /\ process = "running"
    /\ \E n \in Notifications : Expired(n)
    /\ row' = [n \in Notifications |-> IF Expired(n) THEN "deleted" ELSE row[n]]
    /\ UNCHANGED <<cron, stamp, expires, statuses, topic, job, main, now, faults, again, skipped>>

Clock ==
    /\ now < MaxClock
    /\ now' = now + 1
    /\ UNCHANGED <<rows, statuses, topic, job, main, faults, again, skipped>>

-----------------------------------------------------------------------------
\* The process.

\* SIGTERM: main calls cancelBg.
Signal ==
    /\ process = "running"
    /\ faults < MaxFaults
    /\ faults' = faults + 1
    /\ process' = "draining"
    /\ UNCHANGED <<rows, statuses, topic, job, configured, now, again, skipped>>

\* A slip to guard against: nobody waits for the background workers.
CloseAtOnce ==
    /\ process = "draining"
    /\ process' = "closed"
    /\ UNCHANGED <<rows, statuses, topic, job, configured, now, faults, again, skipped>>

\* bgWg.Wait has returned: prod.Close.
CloseProducer ==
    /\ process = "draining"
    /\ \A n \in Notifications : job[n] = "off"
    /\ process' = "closed"
    /\ UNCHANGED <<rows, statuses, topic, job, configured, now, faults, again, skipped>>

\* e.Shutdown has returned, after 10 s at the latest.
Exit ==
    /\ process = "closed"
    /\ process' = "down"
    /\ UNCHANGED <<rows, statuses, topic, job, configured, now, faults, again, skipped>>

Crash ==
    /\ process # "down"
    /\ faults < MaxFaults
    /\ faults' = faults + 1
    /\ Die

\* fireOne calls Publish on a nil pointer; the panic of a goroutine ends the
\* process.
FirePanics(n) ==
    /\ job[n] = "publish"
    /\ "kafka" \notin configured
    /\ Die
    /\ UNCHANGED faults

\* The next process may be configured otherwise.
Restart ==
    /\ process = "down"
    /\ process' = "running"
    /\ configured' \in Deployments
    /\ UNCHANGED <<rows, statuses, topic, job, now, faults, again, skipped>>

\* What n's goroutine does next.
Step(n) ==
    \/ \E allowed \in BOOLEAN : Allow(n, allowed)
    \/ StartFire(n)
    \/ Load(n)
    \/ ReadFails(n)
    \/ Publish(n)
    \/ \E took \in BOOLEAN : PublishFails(n, took)
    \/ \E ok \in BOOLEAN : UpdateNotification(n, ok) \/ SetDelivery(n, ok) \/ MarkFired(n, ok)
    \/ FirePanics(n)

Next ==
    \/ \E n \in Notifications :
          \/ \E delay \in Delays : AcceptScheduled(n, delay)
          \/ AcceptLimited(n)
          \/ Step(n)
          \/ Deliver(n)
          \/ DeadLetter(n)
    \/ \E c \in {"scheduler", "replayer"} : Tick(c)
    \/ Cleanup
    \/ Clock
    \/ Signal
    \/ CloseProducer
    \/ Exit
    \/ Crash
    \/ Restart

Spec == Init /\ [][Next]_vars

\* The tickers tick, goroutines go on, main goes on, a process that ended is
\* started again, and a window that is not stuck has room now and then.
FairSpec ==
    /\ Spec
    /\ \A c \in {"scheduler", "replayer"} : WF_vars(Tick(c))
    /\ \A n \in Notifications : WF_vars(Step(n)) /\ SF_vars(Allow(n, TRUE))
    /\ WF_vars(CloseProducer) /\ WF_vars(Exit) /\ WF_vars(Restart)

-----------------------------------------------------------------------------

\* Every variable has its type.
TypeOK ==
    /\ row \in [Notifications -> {"absent", "live", "deleted"}]
    /\ cron \in [Notifications -> {"scheduler", "replayer"}]
    /\ stamp \in [Notifications -> Nat]
    /\ expires \in [Notifications -> Nat]
    /\ nstatus \in [Notifications -> {"pending", "queued_rate_limited", "queued", "failed"}]
    /\ dstatus \in [Notifications -> {"pending", "queued_rate_limited", "queued", "delivered",
                                      "failed"}]
    /\ fired \subseteq Notifications
    /\ copies \in [Notifications -> Nat]
    /\ unread \in [Notifications -> Nat]
    /\ job \in [Notifications -> {"off", "start", "load", "publish", "notification", "delivery",
                                  "mark"}]
    /\ process \in {"running", "draining", "closed", "down"}
    /\ configured \in Deployments
    /\ now \in Nat
    /\ faults \in 0..MaxFaults
    /\ again \in [Notifications -> Nat]
    /\ skipped \subseteq Notifications

\* No cron forgets a notification: one that its query no longer returns has
\* reached the topic, whatever failed or crashed between the publication and its
\* record, unless replayOne requeued it in a deployment without Kafka.
NothingForgotten ==
    \A n \in Notifications :
        row[n] = "live" /\ ~Open(n) => copies[n] > 0 \/ n \in skipped

\* A second message for a notification has a cause: each one beyond the first
\* stands for a publication whose record failed, was cancelled by a shutdown or
\* was cut off by a crash.  Ticks, restarts and consumers alone repeat nothing.
DuplicatesAreExplained ==
    \A n \in Notifications : copies[n] <= again[n] + 1

\* The crons are through with n.
Done(n) == row[n] = "live" /\ ~Open(n) /\ job[n] = "off"

\* A step that neither takes n up nor undoes what its consumers recorded.
LeftAlone(n) ==
    /\ Done(n)' \/ row'[n] = "deleted"
    /\ copies'[n] = copies[n]
    /\ dstatus[n] \in {"delivered", "failed"} => dstatus'[n] # "queued"

\* Once the crons are through with a notification they never take it up again,
\* whatever restarts and whatever its consumers record meanwhile: it is not published
\* again, and "delivered" or "failed" is not overwritten.  (Until the goroutine ends,
\* its SetStatus can overwrite a fast consumer's "delivered".)
DoneIsDone == [][\A n \in Notifications : Done(n) => LeftAlone(n)]_vars

\* No goroutine of a cron is left when the producer is closed.
ClosedIsQuiet ==
    process \in {"closed", "down"} => \A n \in Notifications : job[n] = "off"

\* Rows that are stuck cannot keep the others out of a tick while they are fewer
\* than the LIMIT of the query: every batch then holds a row that is not stuck, if
\* there is one.  (As many stuck rows as the LIMIT, of one tenant even, starve all
\* the others: they stay the oldest.)
BatchReachesOthers ==
    Cardinality(Stuck) < BatchSize =>
        \A S \in {Due, Limited} : \A B \in Batches(S) :
            S \ Stuck # {} => B \ Stuck # {}

\* A notification that is due, or waits for room in its window, is published or
\* expires, although goroutines of the same ticks are stuck, fail or panic, and the
\* process is stopped and started again.
OthersProgress ==
    Cardinality(Stuck) < BatchSize =>
        \A n \in Notifications \ Stuck :
            Open(n) /\ stamp[n] <= now
                ~> copies[n] > 0 \/ row[n] = "deleted" \/ configured # {"redis", "kafka"}

\* A shutdown ends: no goroutine keeps bgWg.Wait waiting.
ShutdownEnds == process = "draining" ~> process = "down"

\* main.go on cancelBg and bgWg.Wait: "Stop background workers (Kafka consumers,
\* rate-limit replayer) - let in-flight work complete": after them, what was
\* published is recorded and not published again by the next process.
ShutdownCompletesWork ==
    process = "closed" => \A n \in Notifications : copies[n] > 0 => ~Open(n)
=============================================================================
