-------------------------------- MODULE Hub ---------------------------------
(***************************************************************************)
(* In-app delivery to one (tenant, user): the WebSocket hub                *)
(* (backend/internal/ws/hub.go), the Connect handler (ws/handler.go), the  *)
(* Redis offline queue (offlinequeue/queue.go), the presence record        *)
(* (presence/presence.go) and the in-app consumer's handler                *)
(* (kafka/consumers/inapp.go).                                             *)
(*                                                                         *)
(* Every connection has two goroutines, Connect (which ends in readPump)   *)
(* and writePump; the consumer is a third.  SendToUser reads the hub's map *)
(* under the lock and sends on the channel after it has let the lock go,   *)
(* so it is two steps here.                                                *)
(***************************************************************************)
EXTENDS Naturals, Sequences, Functions

CONSTANTS
    Conns,           \* WebSocket connections the user opens
    Messages,        \* in-app messages for the user
    NoConn,
    NoMessage,
    Deployments,     \* whether REDIS_URL is set, a subset of BOOLEAN
    BufferSize,      \* sendBufferSize
    MaxRetries,      \* tries of the consumer's handler
    MaxFaults        \* bound: errors of Redis and Postgres, expiries, crashes

ASSUME HubAssumption ==
    /\ NoConn \notin Conns
    /\ NoMessage \notin Messages
    /\ Deployments \subseteq BOOLEAN
    /\ BufferSize \in Nat \ {0}
    /\ MaxRetries \in Nat \ {0}
    /\ MaxFaults \in Nat

VARIABLES
    entry,       \* Hub.conns for the user
    latest,      \* history: the connection registered last
    cpc,         \* where the Connect of a connection is
    pending,     \* what it flushed and has still to send
    target,      \* the connection its SendToUser found
    buffer,      \* Conn.send
    closed,      \* connections whose Conn.send is closed
    pump,        \* writePump
    socket,      \* the connection as the server can see it
    presence,    \* Redis: the presence key exists
    offline,     \* Redis: the offline queue
    todo,        \* messages the consumer has still to handle
    hpc, hmsg, htarget, htries,   \* the consumer and its handler
    dstatus,     \* notification_deliveries.status
    received,    \* messages the user has got
    dlq,         \* messages the consumer published to the DLQ
    lost,        \* history: messages that were lost, and how
    panicked,    \* history: a send on a closed channel
    redis,
    faults

hub == <<entry, latest, buffer, closed>>
connect == <<cpc, pending, target>>
wire == <<pump, socket, received>>
consumer == <<todo, hpc, hmsg, htarget, htries, dstatus, dlq>>
vars == <<hub, connect, wire, presence, offline, consumer, lost, panicked, redis, faults>>

Init ==
    /\ entry = NoConn
    /\ latest = NoConn
    /\ cpc = [c \in Conns |-> "idle"]
    /\ pending = [c \in Conns |-> <<>>]
    /\ target = [c \in Conns |-> NoConn]
    /\ buffer = [c \in Conns |-> <<>>]
    /\ closed = {}
    /\ pump = [c \in Conns |-> "off"]
    /\ socket = [c \in Conns |-> "none"]
    /\ presence = FALSE
    /\ offline = <<>>
    /\ todo = Messages
    /\ hpc = "idle" /\ hmsg = NoMessage /\ htarget = NoConn /\ htries = 0
    /\ dstatus = [m \in Messages |-> "pending"]
    /\ received = {}
    /\ dlq = {}
    /\ lost = {}
    /\ panicked = FALSE
    /\ redis \in Deployments
    /\ faults = 0

-----------------------------------------------------------------------------

Goto(c, label) == cpc' = [cpc EXCEPT ![c] = label]
Lose(ms, how) == lost' = lost \union {<<m, how>> : m \in ms}

\* ok, or one more fault.
Outcome(ok) ==
    IF ok THEN UNCHANGED faults ELSE faults < MaxFaults /\ faults' = faults + 1

-----------------------------------------------------------------------------
\* Connect.

\* A slip to guard against: the map keeps the connection that was closed.
RegisterForgetsMap(c) ==
    /\ cpc[c] = "idle"
    /\ closed' = closed \union ({entry} \ {NoConn})
    /\ entry' = IF entry = NoConn THEN c ELSE entry
    /\ latest' = c
    /\ socket' = [socket EXCEPT ![c] = "open"]
    /\ Goto(c, "online")
    /\ UNCHANGED <<buffer, pending, target, pump, received, presence, offline, consumer, lost,
                   panicked, redis, faults>>

\* Hub.register, after the handshake.
Register(c) ==
    /\ cpc[c] = "idle"
    /\ closed' = closed \union ({entry} \ {NoConn})
    /\ entry' = c
    /\ latest' = c
    /\ socket' = [socket EXCEPT ![c] = "open"]
    /\ Goto(c, "online")
    /\ UNCHANGED <<buffer, pending, target, pump, received, presence, offline, consumer, lost,
                   panicked, redis, faults>>

\* presence.SetOnline, whose error is only logged; writePump starts.
SetOnline(c, ok) ==
    /\ cpc[c] = "online"
    /\ Outcome(ok)
    /\ presence' = (presence \/ (redis /\ ok))
    /\ pump' = [pump EXCEPT ![c] = "running"]
    /\ Goto(c, IF redis THEN "range" ELSE "read")
    /\ UNCHANGED <<hub, pending, target, socket, received, offline, consumer, lost, panicked,
                   redis>>

\* Flush, first command: LRANGE.
FlushRange(c, ok) ==
    /\ cpc[c] = "range"
    /\ Outcome(ok)
    /\ pending' = [pending EXCEPT ![c] = IF ok THEN offline ELSE <<>>]
    /\ Goto(c, IF ok /\ offline # <<>> THEN "del" ELSE "read")
    /\ UNCHANGED <<hub, target, wire, presence, offline, consumer, lost, panicked, redis>>

\* Flush, second command: DEL of the whole list, with what came after LRANGE.
\* took: Redis ran it; on an error Connect gets no payloads.
FlushDel(c, took, ok) ==
    /\ cpc[c] = "del"
    /\ ok => took
    /\ Outcome(ok)
    /\ offline' = IF took THEN <<>> ELSE offline
    /\ IF took THEN Lose(Range(offline) \ (IF ok THEN Range(pending[c]) ELSE {}), "flush")
               ELSE UNCHANGED lost
    /\ pending' = IF ok THEN pending ELSE [pending EXCEPT ![c] = <<>>]
    /\ Goto(c, IF ok THEN "send" ELSE "read")
    /\ UNCHANGED <<hub, target, wire, presence, consumer, panicked, redis>>

\* SendToUser for the next flushed payload, first half; false is ignored.
FlushLookup(c) ==
    /\ cpc[c] = "send"
    /\ IF pending[c] = <<>> THEN Goto(c, "read") /\ UNCHANGED <<pending, target, lost>>
       ELSE IF entry = NoConn
            THEN /\ Lose({Head(pending[c])}, "dropped")
                 /\ pending' = [pending EXCEPT ![c] = Tail(@)]
                 /\ UNCHANGED <<cpc, target>>
            ELSE /\ target' = [target EXCEPT ![c] = entry]
                 /\ Goto(c, "select")
                 /\ UNCHANGED <<pending, lost>>
    /\ UNCHANGED <<hub, wire, presence, offline, consumer, panicked, redis, faults>>

\* Second half.  A closed channel panics, and Echo's Recover ends Connect.
FlushSelect(c) ==
    /\ cpc[c] = "select"
    /\ IF target[c] \in closed
       THEN /\ panicked' = TRUE
            /\ Lose(Range(pending[c]), "panic")
            /\ pending' = [pending EXCEPT ![c] = <<>>]
            /\ Goto(c, "done")
            /\ UNCHANGED buffer
       ELSE /\ IF Len(buffer[target[c]]) < BufferSize
               THEN /\ buffer' = [buffer EXCEPT ![target[c]] = Append(@, Head(pending[c]))]
                    /\ UNCHANGED lost
               ELSE Lose({Head(pending[c])}, "dropped") /\ UNCHANGED buffer
            /\ pending' = [pending EXCEPT ![c] = Tail(@)]
            /\ Goto(c, "send")
            /\ UNCHANGED panicked
    /\ target' = [target EXCEPT ![c] = NoConn]
    /\ UNCHANGED <<entry, latest, closed, wire, presence, offline, consumer, redis,
                   faults>>

\* readPump returns once the socket is closed or the client is gone.
ReadEnds(c) ==
    /\ cpc[c] = "read"
    /\ socket[c] # "open"
    /\ Goto(c, "unregister")
    /\ UNCHANGED <<hub, pending, target, wire, presence, offline, consumer, lost, panicked, redis,
                   faults>>

\* A slip to guard against: whatever connection is in the map is removed.
UnregisterAny(c) ==
    /\ cpc[c] = "unregister"
    /\ entry' = NoConn
    /\ Goto(c, "leave")
    /\ UNCHANGED <<latest, buffer, closed, pending, target, wire, presence, offline, consumer,
                   lost, panicked, redis, faults>>

\* Hub.unregister.
Unregister(c) ==
    /\ cpc[c] = "unregister"
    /\ entry' = IF entry = c THEN NoConn ELSE entry
    /\ Goto(c, "leave")
    /\ UNCHANGED <<latest, buffer, closed, pending, target, wire, presence, offline, consumer,
                   lost, panicked, redis, faults>>

\* A slip to guard against: a superseded connection leaves the key alone, also
\* when it was the last to set it.
DeletePresenceIfLatest(c, ok) ==
    /\ cpc[c] = "leave"
    /\ Outcome(ok)
    /\ presence' = IF redis /\ ok /\ c = latest THEN FALSE ELSE presence
    /\ Goto(c, "done")
    /\ UNCHANGED <<hub, pending, target, wire, offline, consumer, lost, panicked, redis>>

\* presence.Delete, whichever connection set the key; an error is only logged.
DeletePresence(c, ok) ==
    /\ cpc[c] = "leave"
    /\ Outcome(ok)
    /\ presence' = IF redis /\ ok THEN FALSE ELSE presence
    /\ Goto(c, "done")
    /\ UNCHANGED <<hub, pending, target, wire, offline, consumer, lost, panicked, redis>>

-----------------------------------------------------------------------------
\* writePump.

ExitPump(c) ==
    /\ pump' = [pump EXCEPT ![c] = "exited"]
    /\ socket' = [socket EXCEPT ![c] = "closed"]
    /\ Lose(Range(buffer[c]), "socket")
    /\ buffer' = [buffer EXCEPT ![c] = <<>>]

\* A payload is written: to the client, or into the buffers of a dead peer.
PumpWrites(c) ==
    /\ pump[c] = "running"
    /\ buffer[c] # <<>>
    /\ buffer' = [buffer EXCEPT ![c] = Tail(@)]
    /\ IF socket[c] = "open"
       THEN received' = received \union {Head(buffer[c])} /\ UNCHANGED lost
       ELSE Lose({Head(buffer[c])}, "socket") /\ UNCHANGED received
    /\ UNCHANGED <<entry, latest, closed, connect, pump, socket, presence, offline, consumer,
                   panicked, redis, faults>>

\* A write or a ping fails.
PumpFails(c) ==
    /\ pump[c] = "running"
    /\ socket[c] # "open"
    /\ ExitPump(c)
    /\ UNCHANGED <<entry, latest, closed, connect, received, presence, offline, consumer, panicked,
                   redis, faults>>

\* A slip to guard against: the pump returns without closing the socket.
PumpClosedKeepsSocket(c) ==
    /\ pump[c] = "running"
    /\ c \in closed
    /\ buffer[c] = <<>>
    /\ pump' = [pump EXCEPT ![c] = "exited"]
    /\ UNCHANGED <<hub, socket, connect, received, presence, offline, consumer, lost, panicked,
                   redis, faults>>

\* The channel is closed and empty.
PumpClosed(c) ==
    /\ pump[c] = "running"
    /\ c \in closed
    /\ buffer[c] = <<>>
    /\ ExitPump(c)
    /\ UNCHANGED <<entry, latest, closed, connect, received, presence, offline, consumer, panicked,
                   redis, faults>>

\* The client closes the connection, or vanishes.
ClientGone(c) ==
    /\ socket[c] = "open"
    /\ socket' = [socket EXCEPT ![c] = "gone"]
    /\ UNCHANGED <<hub, connect, pump, received, presence, offline, consumer, lost, panicked, redis,
                   faults>>

-----------------------------------------------------------------------------
\* The in-app consumer.

Fetch(m) ==
    /\ hpc = "idle"
    /\ m \in todo
    /\ hmsg' = m
    /\ hpc' = "lookup"
    /\ UNCHANGED <<hub, connect, wire, presence, offline, todo, htarget, htries, dstatus, dlq, lost,
                   panicked, redis, faults>>

\* The handler is done with its message, and the loop commits it.
Handled ==
    /\ todo' = todo \ {hmsg}
    /\ hpc' = "idle"
    /\ hmsg' = NoMessage
    /\ htries' = 0

\* A slip to guard against: one try too many.
HandlerFailsOffByOne ==
    IF htries < MaxRetries
    THEN /\ htries' = htries + 1
         /\ hpc' = "lookup"
         /\ UNCHANGED <<todo, hmsg, dlq>>
    ELSE Handled /\ dlq' = dlq \union {hmsg}

\* The handler returns an error: another try, or the DLQ.
HandlerFails ==
    IF htries + 1 < MaxRetries
    THEN /\ htries' = htries + 1
         /\ hpc' = "lookup"
         /\ UNCHANGED <<todo, hmsg, dlq>>
    ELSE Handled /\ dlq' = dlq \union {hmsg}

\* SendToUser, first half.
HandleLookup ==
    /\ hpc = "lookup"
    /\ htarget' = entry
    /\ IF entry # NoConn THEN hpc' = "select" /\ UNCHANGED <<todo, hmsg, htries, dlq>>
       ELSE IF redis THEN hpc' = "push" /\ UNCHANGED <<todo, hmsg, htries, dlq>>
       ELSE HandlerFails
    /\ UNCHANGED <<hub, connect, wire, presence, offline, dstatus, lost, panicked, redis, faults>>

\* Everything the process holds is gone; its sockets break.  Redis stays.
Die(how) ==
    /\ entry' = NoConn
    /\ cpc' = [c \in Conns |-> IF cpc[c] = "idle" THEN "idle" ELSE "done"]
    /\ pump' = [c \in Conns |-> IF cpc[c] = "idle" THEN pump[c] ELSE "exited"]
    /\ socket' = [c \in Conns |-> IF cpc[c] = "idle" THEN socket[c] ELSE "closed"]
    /\ Lose(UNION {Range(pending[c]) \union Range(buffer[c]) : c \in Conns}, how)
    /\ pending' = [c \in Conns |-> <<>>]
    /\ buffer' = [c \in Conns |-> <<>>]
    /\ target' = [c \in Conns |-> NoConn]
    /\ hpc' = "idle" /\ hmsg' = NoMessage /\ htarget' = NoConn /\ htries' = 0
    /\ UNCHANGED <<latest, closed, received, presence, offline, todo, dstatus, dlq, redis>>

\* A slip to guard against: a full buffer counts as delivered.
HandleSelectIgnoresFull ==
    /\ hpc = "select"
    /\ IF htarget \in closed THEN panicked' = TRUE /\ Die("panic")
       ELSE /\ buffer' = IF Len(buffer[htarget]) < BufferSize
                         THEN [buffer EXCEPT ![htarget] = Append(@, hmsg)] ELSE buffer
            /\ hpc' = "delivered"
            /\ htarget' = NoConn
            /\ UNCHANGED <<entry, latest, closed, connect, wire, presence, offline, todo, hmsg,
                           htries, dstatus, dlq, lost, panicked, redis>>
    /\ UNCHANGED faults

\* Second half.  A closed channel panics; nobody recovers it in the consumer's
\* goroutine, so the process dies.  A full buffer makes SendToUser false.  What
\* is sent after writePump has returned stays in the channel.
HandleSelect ==
    /\ hpc = "select"
    /\ IF htarget \in closed THEN panicked' = TRUE /\ Die("panic")
       ELSE /\ IF Len(buffer[htarget]) < BufferSize
               THEN /\ buffer' = [buffer EXCEPT ![htarget] = Append(@, hmsg)]
                    /\ hpc' = "delivered"
                    /\ UNCHANGED <<todo, hmsg, htries, dlq>>
               ELSE /\ UNCHANGED buffer
                    /\ IF redis THEN hpc' = "push" /\ UNCHANGED <<todo, hmsg, htries, dlq>>
                                ELSE HandlerFails
            /\ htarget' = NoConn
            /\ UNCHANGED <<entry, latest, closed, connect, wire, presence, offline, dstatus, lost,
                           panicked, redis>>
    /\ UNCHANGED faults

\* deliveries.UpdateStatus(delivered), whose error is only logged.
MarkDelivered(ok) ==
    /\ hpc = "delivered"
    /\ Outcome(ok)
    /\ dstatus' = IF ok THEN [dstatus EXCEPT ![hmsg] = "delivered"] ELSE dstatus
    /\ Handled
    /\ UNCHANGED <<hub, connect, wire, presence, offline, htarget, dlq, lost, panicked,
                   redis>>

\* queue.Push; took: Redis ran it.
Push(took, ok) ==
    /\ hpc = "push"
    /\ ok => took
    /\ Outcome(ok)
    /\ offline' = IF took THEN Append(offline, hmsg) ELSE offline
    /\ IF ok THEN hpc' = "queued" /\ UNCHANGED <<todo, hmsg, htries, dlq>> ELSE HandlerFails
    /\ UNCHANGED <<hub, connect, wire, presence, htarget, dstatus, lost, panicked, redis>>

\* deliveries.SetStatus(queued), whose error is only logged.
MarkQueued(ok) ==
    /\ hpc = "queued"
    /\ Outcome(ok)
    /\ dstatus' = IF ok THEN [dstatus EXCEPT ![hmsg] = "queued"] ELSE dstatus
    /\ Handled
    /\ UNCHANGED <<hub, connect, wire, presence, offline, htarget, dlq, lost, panicked,
                   redis>>

-----------------------------------------------------------------------------

Crash ==
    /\ Outcome(FALSE)
    /\ Die("crash")
    /\ UNCHANGED panicked

\* The presence key's TTL: nothing but SetOnline renews it.
PresenceExpires ==
    /\ presence
    /\ Outcome(FALSE)
    /\ presence' = FALSE
    /\ UNCHANGED <<hub, connect, wire, offline, consumer, lost, panicked, redis>>

\* The offline queue's TTL.
OfflineExpires ==
    /\ offline # <<>>
    /\ Outcome(FALSE)
    /\ Lose(Range(offline), "expired")
    /\ offline' = <<>>
    /\ UNCHANGED <<hub, connect, wire, presence, consumer, panicked, redis>>

ConnectStep(c) ==
    \/ \E ok \in BOOLEAN : SetOnline(c, ok)
    \/ \E ok \in BOOLEAN : FlushRange(c, ok)
    \/ \E took, ok \in BOOLEAN : FlushDel(c, took, ok)
    \/ FlushLookup(c)
    \/ FlushSelect(c)
    \/ ReadEnds(c)
    \/ Unregister(c)
    \/ \E ok \in BOOLEAN : DeletePresence(c, ok)

PumpStep(c) == PumpWrites(c) \/ PumpFails(c) \/ PumpClosed(c)

ConsumerStep ==
    \/ \E m \in Messages : Fetch(m)
    \/ HandleLookup
    \/ HandleSelect
    \/ \E ok \in BOOLEAN : MarkDelivered(ok)
    \/ \E took, ok \in BOOLEAN : Push(took, ok)
    \/ \E ok \in BOOLEAN : MarkQueued(ok)

Next ==
    \/ \E c \in Conns : Register(c) \/ ConnectStep(c) \/ PumpStep(c) \/ ClientGone(c)
    \/ ConsumerStep
    \/ Crash
    \/ PresenceExpires
    \/ OfflineExpires

Spec == Init /\ [][Next]_vars

-----------------------------------------------------------------------------

\* Every variable has its type.
TypeOK ==
    /\ {entry, latest, htarget} \subseteq Conns \union {NoConn}
    /\ target \in [Conns -> Conns \union {NoConn}]
    /\ cpc \in [Conns -> {"idle", "online", "range", "del", "send", "select", "read",
                          "unregister", "leave", "done"}]
    /\ pending \in [Conns -> Seq(Messages)]
    /\ buffer \in [Conns -> Seq(Messages)]
    /\ \A c \in Conns : Len(buffer[c]) <= BufferSize
    /\ closed \subseteq Conns
    /\ pump \in [Conns -> {"off", "running", "exited"}]
    /\ socket \in [Conns -> {"none", "open", "gone", "closed"}]
    /\ presence \in BOOLEAN /\ panicked \in BOOLEAN /\ redis \in BOOLEAN
    /\ offline \in Seq(Messages)
    /\ todo \subseteq Messages
    /\ hpc \in {"idle", "lookup", "select", "delivered", "push", "queued"}
    /\ hmsg \in Messages \union {NoMessage}
    /\ htries \in 0..(MaxRetries - 1)
    /\ dstatus \in [Messages -> {"pending", "queued", "delivered"}]
    /\ received \subseteq Messages
    /\ dlq \subseteq Messages
    /\ faults \in 0..MaxFaults

\* Connections whose Connect is between register and unregister.
Attached == {c \in Conns : cpc[c] \notin {"idle", "leave", "done"}}

\* The hub reaches the connection that registered last as long as its Connect
\* has not unregistered it, and otherwise none: a late unregister of an older
\* connection never hides a newer one, and no dead connection stays in the map.
HubHoldsLatest == entry = IF latest \in Attached THEN latest ELSE NoConn

\* The hub's connection is never one whose channel is closed, so register never
\* closes a channel a second time (which would panic).
EntryIsOpen == entry \notin closed

\* A message the consumer is done with was received, or is in the offline queue,
\* a flush, a channel or the DLQ, or was lost in one of the ways of "lost": the
\* consumer's choice between socket and queue itself loses none.
MessagesAreSomewhere ==
    \A m \in Messages \ todo :
        \/ m \in received \union dlq \union Range(offline)
        \/ \E c \in Conns : m \in Range(pending[c]) \union Range(buffer[c])
        \/ \E loss \in lost : loss[1] = m

\* A connection the hub no longer reaches is on its way out: register closed its
\* channel, on which writePump ends, and no writePump ends without closing the
\* socket, on which readPump and Connect end.  No pair of goroutines is left waiting
\* on a connection nobody will use again.
SupersededIsTold ==
    \A c \in Attached :
        /\ c # entry => c \in closed
        /\ pump[c] = "exited" => socket[c] = "closed"

\* No presence key outlives the connections: unless Redis failed, the process
\* died or a Connect panicked, the key is only there while some Connect will still
\* delete it, in whatever order connections supersede each other and leave.
NoGhostPresence ==
    presence /\ faults = 0 /\ ~panicked =>
        \E c \in Conns : cpc[c] \notin {"idle", "online", "done"}

\* hub.go: SendToUser "Returns false if there is no connection, or its send
\* buffer is full".
SendToUserReturns == ~panicked
=============================================================================
