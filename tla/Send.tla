-------------------------------- MODULE Send --------------------------------
(***************************************************************************)
(* The ingestion API: Send, Batch and Schedule                             *)
(* (backend/internal/api/handlers/notification.go) with the idempotency    *)
(* keys of backend/internal/dedup/dedup.go and the unique constraint on    *)
(* (tenant_id, idempotency_key) of migrations/001_initial_schema.up.sql.   *)
(*                                                                         *)
(* A request is one execution of processSend, or of Schedule; the          *)
(* recipients of a Batch are the requests of one HTTP call.  The uuid the  *)
(* handler draws for a notification is the request itself.                 *)
(***************************************************************************)
EXTENDS Naturals, FiniteSets

CONSTANTS
    Requests,
    Kind,            \* [Requests -> {"send", "batch", "schedule"}]
    Call,            \* the HTTP call a request belongs to
    Tenant,          \* the tenant that makes it
    Key,             \* its idempotency key, or NoKey
    NoKey,
    NoRequest,
    Deployments,     \* what is configured: REDIS_URL, KAFKA_BOOTSTRAP_SERVERS
    MaxLookups,      \* tries of the duplicate's lookup
    MaxConcurrent,   \* requests of one Batch in flight
    MaxFaults,       \* bound: errors, disconnects and crashes
    MaxExpiries      \* bound: reservations that expire

Keys == {Key[r] : r \in Requests} \ {NoKey}

ASSUME SendAssumption ==
    /\ Kind \in [Requests -> {"send", "batch", "schedule"}]
    /\ NoRequest \notin Requests
    /\ Deployments \subseteq SUBSET {"redis", "kafka"}
    /\ MaxLookups \in Nat \ {0}
    /\ MaxConcurrent \in Nat \ {0}
    /\ {MaxFaults, MaxExpiries} \subseteq Nat

VARIABLES
    dedup,       \* Redis: the request an idempotency key is reserved for
    row,         \* Postgres: the notification's row, with its delivery row
    status,      \* the status it was created with
    topic,       \* notifications that reached the channel topic
    scheduled,   \* notifications with a scheduled_notifications row
    pc,
    found,       \* the request's existingID
    lookups,
    cancelled,   \* requests whose context is cancelled
    reply,
    faults,
    expiries,
    configured,  \* the deployment the process runs in
    hurt         \* history: requests whose reservation an error left behind

request == <<pc, found, lookups, reply>>
environment == <<cancelled, faults, expiries, configured, hurt>>
vars == <<dedup, row, status, topic, scheduled, request, environment>>

Init ==
    /\ dedup = [k \in Keys |-> NoRequest]
    /\ row = [r \in Requests |-> "none"]
    /\ status = [r \in Requests |-> "pending"]
    /\ topic = {}
    /\ scheduled = {}
    /\ pc = [r \in Requests |-> "idle"]
    /\ found = [r \in Requests |-> NoRequest]
    /\ lookups = [r \in Requests |-> 0]
    /\ cancelled = {}
    /\ reply = [r \in Requests |-> "none"]
    /\ faults = 0
    /\ expiries = 0
    /\ configured \in Deployments
    /\ hurt = {}

-----------------------------------------------------------------------------

InFlight(r) == pc[r] \notin {"idle", "done"}
SameCall(r) == {q \in Requests : Call[q] = Call[r]}

\* The key a recipient of a Batch gets: the call's key and its position.
BatchKey(key, i) == IF key = NoKey THEN NoKey ELSE <<key, i>>

\* Two rows the unique constraint on (tenant_id, idempotency_key) keeps apart.
Clash(q, r) == q # r /\ Key[r] # NoKey /\ Tenant[q] = Tenant[r] /\ Key[q] = Key[r]

Goto(r, label) == pc' = [pc EXCEPT ![r] = label]

Answer(r, text) ==
    /\ Goto(r, "done")
    /\ reply' = [reply EXCEPT ![r] = text]

\* After createAndQueue or Allow failed: processSend releases the key first,
\* Schedule answers at once.
Fail(r) ==
    IF Kind[r] = "schedule" THEN Answer(r, "error")
                            ELSE Goto(r, "release") /\ UNCHANGED reply

\* An operation of r fails: its context is cancelled, or something broke.
Fault(r) ==
    /\ IF r \in cancelled THEN UNCHANGED faults
                          ELSE faults < MaxFaults /\ faults' = faults + 1
    /\ UNCHANGED <<cancelled, expiries, configured>>

-----------------------------------------------------------------------------
\* The handlers up to processSend or createAndQueue.

Receive(r) ==
    /\ pc[r] = "idle"
    /\ reply[r] = "none"
    /\ Cardinality({q \in SameCall(r) : InFlight(q)}) < MaxConcurrent
    /\ Goto(r, IF Kind[r] = "schedule" THEN "insert"
               ELSE IF Key[r] # NoKey THEN "reserve" ELSE "limit")
    /\ UNCHANGED <<dedup, row, status, topic, scheduled, found, lookups, reply, environment>>

\* Validate, IsEnabled or resolveTemplate turn the whole call away.
Reject(r) ==
    /\ \A q \in SameCall(r) : pc[q] = "idle"
    /\ pc' = [q \in Requests |-> IF q \in SameCall(r) THEN "done" ELSE pc[q]]
    /\ reply' = [q \in Requests |-> IF q \in SameCall(r) THEN "rejected" ELSE reply[q]]
    /\ UNCHANGED <<dedup, row, status, topic, scheduled, found, lookups, environment>>

-----------------------------------------------------------------------------
\* Deduplicator.Reserve.  The Redis key holds no tenant.

Reserve(r) ==
    /\ pc[r] = "reserve"
    /\ "redis" \in configured
    /\ r \notin cancelled
    /\ IF dedup[Key[r]] = NoRequest
       THEN /\ dedup' = [dedup EXCEPT ![Key[r]] = r]
            /\ Goto(r, "limit")
            /\ UNCHANGED found
       ELSE /\ found' = [found EXCEPT ![r] = dedup[Key[r]]]
            /\ Goto(r, "lookup")
            /\ UNCHANGED dedup
    /\ UNCHANGED <<row, status, topic, scheduled, lookups, reply, environment>>

\* Reserve returns an error; took: the script had run.
ReserveFails(r, took) ==
    /\ pc[r] = "reserve"
    /\ "redis" \in configured
    /\ took => dedup[Key[r]] = NoRequest
    /\ Fault(r)
    /\ dedup' = IF took THEN [dedup EXCEPT ![Key[r]] = r] ELSE dedup
    /\ hurt' = IF took THEN hurt \union {r} ELSE hurt
    /\ Answer(r, "error")
    /\ UNCHANGED <<row, status, topic, scheduled, found, lookups>>

\* The reply of the script is lost and go-redis runs it again: the request
\* meets its own reservation.
ReserveRetried(r) ==
    /\ pc[r] = "reserve"
    /\ "redis" \in configured
    /\ r \notin cancelled
    /\ dedup[Key[r]] = NoRequest
    /\ Fault(r)
    /\ dedup' = [dedup EXCEPT ![Key[r]] = r]
    /\ found' = [found EXCEPT ![r] = r]
    /\ hurt' = hurt \union {r}
    /\ Goto(r, "lookup")
    /\ UNCHANGED <<row, status, topic, scheduled, lookups, reply>>

\* Slips to guard against: the duplicate is answered from Redis alone, or the
\* loop runs once too often.
LookupTrustsRedis(r) ==
    /\ pc[r] = "lookup"
    /\ Answer(r, "duplicate")
    /\ UNCHANGED <<dedup, row, status, topic, scheduled, found, lookups, environment>>

LookupOnceMore(r) ==
    /\ pc[r] = "lookup"
    /\ lookups' = [lookups EXCEPT ![r] = @ + 1]
    /\ IF row[found[r]] = "committed" THEN Answer(r, "duplicate")
       ELSE IF lookups[r] = MaxLookups THEN Answer(r, "error")
       ELSE UNCHANGED <<pc, reply>>
    /\ UNCHANGED <<dedup, row, status, topic, scheduled, found, environment>>

\* One turn of the loop that waits for the original's row.
Lookup(r) ==
    /\ pc[r] = "lookup"
    /\ r \notin cancelled
    /\ lookups' = [lookups EXCEPT ![r] = @ + 1]
    /\ IF row[found[r]] = "committed" THEN Answer(r, "duplicate")
       ELSE IF lookups'[r] = MaxLookups THEN Answer(r, "error")
       ELSE UNCHANGED <<pc, reply>>
    /\ UNCHANGED <<dedup, row, status, topic, scheduled, found, environment>>

LookupFails(r) ==
    /\ pc[r] = "lookup"
    /\ Fault(r)
    /\ Answer(r, "error")
    /\ UNCHANGED <<dedup, row, status, topic, scheduled, found, lookups, hurt>>

-----------------------------------------------------------------------------
\* The rate limiter's verdict decides the status and whether to publish.

Limit(r, allowed) ==
    /\ pc[r] = "limit"
    /\ "redis" \in configured
    /\ r \notin cancelled
    /\ status' = [status EXCEPT ![r] = IF allowed THEN "pending" ELSE "queued_rate_limited"]
    /\ Goto(r, "insert")
    /\ UNCHANGED <<dedup, row, topic, scheduled, found, lookups, reply, environment>>

LimitFails(r) ==
    /\ pc[r] = "limit"
    /\ "redis" \in configured
    /\ Fault(r)
    /\ Fail(r)
    /\ UNCHANGED <<dedup, row, status, topic, scheduled, found, lookups, hurt>>

-----------------------------------------------------------------------------
\* createAndQueue.

\* A slip to guard against: the table has no unique constraint.
InsertUnchecked(r) ==
    /\ pc[r] = "insert"
    /\ r \notin cancelled
    /\ row' = [row EXCEPT ![r] = "open"]
    /\ Goto(r, IF Kind[r] # "schedule" /\ status[r] = "pending" THEN "publish" ELSE "commit")
    /\ UNCHANGED <<dedup, status, topic, scheduled, found, lookups, reply, environment>>

\* The INSERTs.  Postgres makes a row that clashes with an uncommitted one
\* wait, and refuses one that clashes with a committed one.
Insert(r) ==
    /\ pc[r] = "insert"
    /\ r \notin cancelled
    /\ \A q \in Requests : Clash(q, r) => row[q] # "open"
    /\ IF \E q \in Requests : Clash(q, r) /\ row[q] = "committed"
       THEN Fail(r) /\ UNCHANGED row
       ELSE /\ row' = [row EXCEPT ![r] = "open"]
            /\ Goto(r, IF Kind[r] # "schedule" /\ status[r] = "pending"
                       THEN "publish" ELSE "commit")
            /\ UNCHANGED reply
    /\ UNCHANGED <<dedup, status, topic, scheduled, found, lookups, environment>>

InsertFails(r) ==
    /\ pc[r] = "insert"
    /\ Fault(r)
    /\ Fail(r)
    /\ UNCHANGED <<dedup, row, status, topic, scheduled, found, lookups, hurt>>

\* A slip to guard against: the transaction stays open after a failed publish.
PublishLeavesOpen(r, took, ok) ==
    /\ pc[r] = "publish"
    /\ "kafka" \in configured
    /\ ok => took /\ r \notin cancelled
    /\ IF ok THEN UNCHANGED environment ELSE Fault(r) /\ UNCHANGED hurt
    /\ topic' = IF took THEN topic \union {r} ELSE topic
    /\ IF ok THEN Goto(r, "commit") /\ UNCHANGED reply ELSE Fail(r)
    /\ UNCHANGED <<dedup, row, status, scheduled, found, lookups>>

\* Producer.Publish: took: the message reached the topic; ok: it returned nil.
\* An error rolls the transaction back.
Publish(r, took, ok) ==
    /\ pc[r] = "publish"
    /\ "kafka" \in configured
    /\ ok => took /\ r \notin cancelled
    /\ IF ok THEN UNCHANGED environment ELSE Fault(r) /\ UNCHANGED hurt
    /\ topic' = IF took THEN topic \union {r} ELSE topic
    /\ row' = IF ok THEN row ELSE [row EXCEPT ![r] = "none"]
    /\ IF ok THEN Goto(r, "commit") /\ UNCHANGED reply ELSE Fail(r)
    /\ UNCHANGED <<dedup, status, scheduled, found, lookups>>

\* tx.Commit returns nil.
Commit(r) ==
    /\ pc[r] = "commit"
    /\ r \notin cancelled
    /\ row' = [row EXCEPT ![r] = "committed"]
    /\ IF Kind[r] = "schedule" THEN Goto(r, "schedule") /\ UNCHANGED reply
                               ELSE Answer(r, "created")
    /\ UNCHANGED <<dedup, status, topic, scheduled, found, lookups, environment>>

\* tx.Commit returns an error; took: Postgres had committed.
CommitFails(r, took) ==
    /\ pc[r] = "commit"
    /\ Fault(r)
    /\ row' = [row EXCEPT ![r] = IF took THEN "committed" ELSE "none"]
    /\ Fail(r)
    /\ UNCHANGED <<dedup, status, topic, scheduled, found, lookups, hurt>>

-----------------------------------------------------------------------------
\* releaseDedup, and the end of Schedule.

\* A slip to guard against: the error path forgets the reservation.
ReleaseForgotten(r) ==
    /\ pc[r] = "release"
    /\ r \notin cancelled
    /\ Answer(r, "error")
    /\ UNCHANGED <<dedup, row, status, topic, scheduled, found, lookups, environment>>

\* DEL, whoever holds the key now.
Release(r) ==
    /\ pc[r] = "release"
    /\ Key[r] = NoKey \/ r \notin cancelled
    /\ dedup' = [k \in Keys |-> IF k = Key[r] THEN NoRequest ELSE dedup[k]]
    /\ Answer(r, "error")
    /\ UNCHANGED <<row, status, topic, scheduled, found, lookups, environment>>

\* DEL fails, which is only logged.
ReleaseFails(r) ==
    /\ pc[r] = "release"
    /\ Key[r] # NoKey
    /\ Fault(r)
    /\ hurt' = hurt \union {r}
    /\ Answer(r, "error")
    /\ UNCHANGED <<dedup, row, status, topic, scheduled, found, lookups>>

\* Scheduled.Create, outside the transaction.
CreateScheduled(r, ok) ==
    /\ pc[r] = "schedule"
    /\ ok => r \notin cancelled
    /\ IF ok THEN UNCHANGED environment ELSE Fault(r) /\ UNCHANGED hurt
    /\ scheduled' = IF ok THEN scheduled \union {r} ELSE scheduled
    /\ Answer(r, IF ok THEN "created" ELSE "error")
    /\ UNCHANGED <<dedup, row, status, topic, found, lookups>>

-----------------------------------------------------------------------------
\* What happens around the handlers.

\* The client of a call goes away.
Cancel(r) ==
    /\ InFlight(r)
    /\ r \notin cancelled
    /\ faults < MaxFaults
    /\ faults' = faults + 1
    /\ cancelled' = cancelled \union SameCall(r)
    /\ UNCHANGED <<dedup, row, status, topic, scheduled, request, expiries, configured, hurt>>

\* The requests of gone end where they are: their transactions roll back and
\* nobody releases their keys.
Die(gone, text) ==
    /\ pc' = [q \in Requests |-> IF q \in gone THEN "done" ELSE pc[q]]
    /\ reply' = [q \in Requests |-> IF q \in gone THEN text ELSE reply[q]]
    /\ row' = [q \in Requests |-> IF q \in gone /\ row[q] = "open" THEN "none" ELSE row[q]]
    /\ hurt' = hurt \union gone
    /\ UNCHANGED <<dedup, status, topic, scheduled, found, lookups, cancelled, expiries,
                   configured>>

Crash ==
    /\ faults < MaxFaults
    /\ faults' = faults + 1
    /\ \E r \in Requests : InFlight(r)
    /\ Die({r \in Requests : InFlight(r)}, "lost")

\* main puts nil pointers into the interfaces of NotificationService, so the
\* handler's nil checks pass and the method panics.  Echo recovers the panic of
\* a handler; in one of Batch's goroutines it ends the process.
Panic(r) ==
    /\ \/ pc[r] \in {"reserve", "limit"} /\ "redis" \notin configured
       \/ pc[r] = "publish" /\ "kafka" \notin configured
    /\ Die(IF Kind[r] = "batch" THEN {q \in Requests : InFlight(q)} ELSE {r}, "panic")
    /\ UNCHANGED faults

\* The TTL of a reservation passes.
Expire(k) ==
    /\ dedup[k] # NoRequest
    /\ expiries < MaxExpiries
    /\ expiries' = expiries + 1
    /\ dedup' = [dedup EXCEPT ![k] = NoRequest]
    /\ UNCHANGED <<row, status, topic, scheduled, request, cancelled, faults, configured,
                   hurt>>

\* What r's goroutine does next.
Step(r) ==
    \/ Reserve(r)
    \/ \E took \in BOOLEAN : ReserveFails(r, took)
    \/ ReserveRetried(r)
    \/ Lookup(r)
    \/ LookupFails(r)
    \/ \E allowed \in BOOLEAN : Limit(r, allowed)
    \/ LimitFails(r)
    \/ Insert(r)
    \/ InsertFails(r)
    \/ \E took, ok \in BOOLEAN : Publish(r, took, ok)
    \/ Commit(r)
    \/ \E took \in BOOLEAN : CommitFails(r, took)
    \/ Release(r)
    \/ ReleaseFails(r)
    \/ \E ok \in BOOLEAN : CreateScheduled(r, ok)
    \/ Panic(r)

Next ==
    \/ \E r \in Requests : Receive(r) \/ Reject(r) \/ Step(r) \/ Cancel(r)
    \/ Crash
    \/ \E k \in Keys : Expire(k)

Spec == Init /\ [][Next]_vars

\* A goroutine that can go on does.
FairSpec == Spec /\ \A r \in Requests : WF_vars(Step(r))

-----------------------------------------------------------------------------

\* Every variable has its type.
TypeOK ==
    /\ dedup \in [Keys -> Requests \union {NoRequest}]
    /\ row \in [Requests -> {"none", "open", "committed"}]
    /\ status \in [Requests -> {"pending", "queued_rate_limited"}]
    /\ topic \subseteq Requests
    /\ scheduled \subseteq Requests
    /\ pc \in [Requests -> {"idle", "reserve", "lookup", "limit", "insert", "publish", "commit",
                            "schedule", "release", "done"}]
    /\ found \in [Requests -> Requests \union {NoRequest}]
    /\ lookups \in [Requests -> 0..MaxLookups]
    /\ cancelled \subseteq Requests
    /\ reply \in [Requests -> {"none", "rejected", "error", "created", "duplicate", "lost", "panic"}]
    /\ faults \in 0..MaxFaults
    /\ expiries \in 0..MaxExpiries
    /\ configured \in Deployments
    /\ hurt \subseteq Requests

\* The notification a client was told about.
Succeeded(r) == reply[r] \in {"created", "duplicate"}
Told(r) == IF reply[r] = "created" THEN r ELSE found[r]

\* A client is only told about a notification that is persisted under the key
\* it sent, and a client whose Schedule succeeded about one the scheduler will
\* find, whatever the other requests, Redis and the transactions do meanwhile.
AnswersArePersisted ==
    \A r \in Requests : Succeeded(r) =>
        /\ row[Told(r)] = "committed"
        /\ Key[Told(r)] = Key[r]
        /\ Kind[r] = "schedule" => r \in scheduled

\* Idempotency: all clients of one tenant that succeed with the same key are
\* told about the same notification, also after the reservation expired or was
\* deleted by another request.
OneNotificationPerKey ==
    \A q, r \in Requests :
        Clash(q, r) /\ Succeeded(q) /\ Succeeded(r) => Told(q) = Told(r)

\* Of the notifications of one key, at most one that may still be committed has
\* reached the topic: the INSERT that precedes the publish keeps the others out.
OneMessagePerKey ==
    \A q, r \in topic : Clash(q, r) => row[q] = "none" \/ row[r] = "none"

\* A reservation outlives its request only if the notification is persisted,
\* or the request could not release it: its process died or panicked, its
\* context was cancelled, or Redis failed.
ReservationIsReleased ==
    \A k \in Keys :
        LET r == dedup[k]
        IN  r # NoRequest /\ pc[r] = "done" => row[r] = "committed" \/ r \in hurt

\* Every request that was received is answered: no request waits for ever for
\* another one's key, row or transaction.
EveryRequestAnswered == \A r \in Requests : InFlight(r) ~> pc[r] = "done"

\* "All entities are partition-isolated by tenant_id at the database and
\* memory layers": a client is told about a notification of its own tenant.
TenantsAreSeparate ==
    \A r \in Requests : Succeeded(r) => Tenant[Told(r)] = Tenant[r]
=============================================================================
