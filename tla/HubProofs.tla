------------------------------ MODULE HubProofs -----------------------------
(***************************************************************************)
(* Proofs about the hub, for any number of connections, messages, faults   *)
(* and any buffer: which connection the map holds while connections        *)
(* supersede each other and leave late, that each superseded connection is *)
(* told, and that messages are lost only in the ways of "lost".            *)
(***************************************************************************)
EXTENDS Hub, SequenceTheorems, TLAPS

\* The parts of TypeOK: the connections, the messages on their way, the rest.
ConnType ==
    /\ entry \in Conns \union {NoConn}
    /\ latest \in Conns \union {NoConn}
    /\ target \in [Conns -> Conns \union {NoConn}]
    /\ cpc \in [Conns -> {"idle", "online", "range", "del", "send", "select", "read",
                          "unregister", "leave", "done"}]
    /\ closed \subseteq Conns
    /\ pump \in [Conns -> {"off", "running", "exited"}]
    /\ socket \in [Conns -> {"none", "open", "gone", "closed"}]

QueueType ==
    /\ pending \in [Conns -> Seq(Messages)]
    /\ buffer \in [Conns -> Seq(Messages)]
    /\ \A c \in Conns : Len(buffer[c]) <= BufferSize
    /\ offline \in Seq(Messages)
    /\ received \subseteq Messages

HandlerType ==
    /\ todo \subseteq Messages
    /\ hpc \in {"idle", "lookup", "select", "delivered", "push", "queued"}
    /\ hmsg \in Messages \union {NoMessage}
    /\ htarget \in Conns \union {NoConn}
    /\ htries \in 0..(MaxRetries - 1)
    /\ dstatus \in [Messages -> {"pending", "queued", "delivered"}]
    /\ dlq \subseteq Messages
    /\ faults \in 0..MaxFaults

FlagType == presence \in BOOLEAN /\ panicked \in BOOLEAN /\ redis \in BOOLEAN

\* A connection that has not registered is nowhere.
FreshIsBlank ==
    \A c \in Conns : cpc[c] = "idle" =>
        c # latest /\ c \notin closed /\ pump[c] = "off" /\ socket[c] = "none"

\* writePump closes the socket when it returns, and nobody reopens it.
ExitedIsClosed ==
    \A c \in Conns : pump[c] = "exited" => socket[c] = "closed"

\* Register has closed the channel of every other connection that is attached.
OthersAreClosed ==
    \A c \in Attached : c # entry => c \in closed

\* A flush that is about to send has a payload and a channel, its own as long as no
\* other connection has registered: so the panic on a closed channel, which skips
\* unregister, never happens to the connection in the map.
FlushHasTarget ==
    \A c \in Conns : cpc[c] = "select" =>
        pending[c] # <<>> /\ target[c] \in Conns /\ (c = latest => target[c] = c)

\* The handler has a message, and a channel when it is about to send.
HandlerHasMessage ==
    /\ hpc # "idle" => hmsg \in Messages
    /\ hpc = "select" => htarget \in Conns

\* Presence is recorded only with Redis.
PresenceNeedsRedis == presence => redis

\* What a connection has taken out of the offline queue and not yet sent on.  Between
\* LRANGE and DEL its payloads are only copies.
Held(c) == IF cpc[c] \in {"send", "select"} THEN Range(pending[c]) ELSE {}

\* Where a message can be, once the consumer is through with it.
Somewhere(m) ==
    \/ m \in received \union dlq \union Range(offline)
    \/ \E c \in Conns : m \in Range(buffer[c]) \union Held(c)
    \/ \E loss \in lost : loss[1] = m

\* A message is somewhere from the moment the handler has sent or pushed it.
MessagesAreKept ==
    \A m \in Messages :
        m \notin todo \/ (m = hmsg /\ hpc \in {"delivered", "queued"}) => Somewhere(m)

\* The inductive invariant.
HubInv ==
    /\ ConnType /\ QueueType /\ HandlerType /\ FlagType
    /\ FreshIsBlank
    /\ ExitedIsClosed
    /\ HubHoldsLatest
    /\ EntryIsOpen
    /\ OthersAreClosed
    /\ FlushHasTarget
    /\ HandlerHasMessage
    /\ PresenceNeedsRedis
    /\ NoGhostPresence
    /\ MessagesAreKept

-----------------------------------------------------------------------------
\* What the queues' operations do to the set of messages in them.

LEMMA RangeOfEmpty == Range(<<>>) = {}
  BY DEF Range

LEMMA RangeOfAppend ==
    ASSUME NEW S, NEW s \in Seq(S), NEW e \in S
    PROVE  Range(Append(s, e)) = Range(s) \union {e}
  <1>1. /\ Append(s, e) \in Seq(S) /\ Len(Append(s, e)) = Len(s) + 1 /\ Len(s) \in Nat
        /\ \A i \in 1..Len(s) : Append(s, e)[i] = s[i]
        /\ Append(s, e)[Len(s) + 1] = e
    BY AppendProperties, LenProperties
  <1>2. /\ Range(s) = {s[i] : i \in 1..Len(s)}
        /\ Range(Append(s, e)) = {Append(s, e)[i] : i \in 1..(Len(s) + 1)}
    BY <1>1, RangeEquality
  <1> QED
    BY <1>1, <1>2

LEMMA RangeOfTail ==
    ASSUME NEW S, NEW s \in Seq(S), s # <<>>
    PROVE  Range(s) = {Head(s)} \union Range(Tail(s))
  <1>1. /\ Tail(s) \in Seq(S) /\ Len(Tail(s)) = Len(s) - 1 /\ Len(s) \in Nat \ {0}
        /\ \A i \in 1..Len(Tail(s)) : Tail(s)[i] = s[i + 1]
        /\ Head(s) = s[1]
    BY HeadTailProperties, EmptySeq
  <1>2. /\ Range(s) = {s[i] : i \in 1..Len(s)}
        /\ Range(Tail(s)) = {Tail(s)[i] : i \in 1..(Len(s) - 1)}
    BY <1>1, RangeEquality
  <1>3. ASSUME NEW i \in 1..Len(s)
        PROVE  s[i] \in {Head(s)} \union Range(Tail(s))
    <2>1. CASE i = 1
      BY <1>1, <2>1
    <2>2. CASE i # 1
      <3>1. i - 1 \in 1..(Len(s) - 1) /\ Tail(s)[i - 1] = s[i]
        BY <1>1, <2>2
      <3> QED
        BY <1>2, <3>1
    <2> QED
      BY <2>1, <2>2
  <1>4. ASSUME NEW i \in 1..(Len(s) - 1)
        PROVE  Tail(s)[i] \in Range(s)
    <2>1. i + 1 \in 1..Len(s) /\ Tail(s)[i] = s[i + 1]
      BY <1>1
    <2> QED
      BY <1>2, <2>1
  <1>5. Head(s) \in Range(s)
    BY <1>1, <1>2
  <1> QED
    BY <1>2, <1>3, <1>4, <1>5

-----------------------------------------------------------------------------

\* Before the first connection the hub is empty.
LEMMA InitHubInv == Init => HubInv
  <1> SUFFICES ASSUME Init PROVE HubInv
    OBVIOUS
  <1> USE HubAssumption DEF Init
  <1>1. ConnType
    BY DEF ConnType
  <1>2. QueueType
    BY EmptySeq DEF QueueType
  <1>3. HandlerType
    BY DEF HandlerType
  <1>4. FlagType
    BY DEF FlagType
  <1>5. FreshIsBlank /\ ExitedIsClosed /\ OthersAreClosed
    BY DEF FreshIsBlank, ExitedIsClosed, OthersAreClosed, Attached
  <1>6. HubHoldsLatest /\ EntryIsOpen
    BY DEF HubHoldsLatest, EntryIsOpen, Attached
  <1>7. FlushHasTarget /\ HandlerHasMessage /\ PresenceNeedsRedis /\ NoGhostPresence
    BY DEF FlushHasTarget, HandlerHasMessage, PresenceNeedsRedis, NoGhostPresence
  <1>8. MessagesAreKept
    BY DEF MessagesAreKept
  <1> QED
    BY <1>1, <1>2, <1>3, <1>4, <1>5, <1>6, <1>7, <1>8 DEF HubInv

\* A send on a channel with room keeps every buffer within its size.
Sent(b, c, m) ==
    Len(b[c]) < BufferSize =>
        /\ [b EXCEPT ![c] = Append(@, m)] \in [Conns -> Seq(Messages)]
        /\ \A d \in Conns : Len([b EXCEPT ![c] = Append(@, m)][d]) <= BufferSize

LEMMA SendKeepsBuffers ==
    ASSUME QueueType, NEW c \in Conns, NEW m \in Messages
    PROVE  Sent(buffer, c, m)
  <1>1. /\ buffer \in [Conns -> Seq(Messages)] /\ buffer[c] \in Seq(Messages)
        /\ \A d \in Conns : Len(buffer[d]) <= BufferSize
        /\ BufferSize \in Nat
    BY HubAssumption DEF QueueType
  <1>2. Append(buffer[c], m) \in Seq(Messages) /\ Len(Append(buffer[c], m)) = Len(buffer[c]) + 1
    BY <1>1, AppendProperties
  <1>3. Len(buffer[c]) \in Nat
    BY <1>1, LenProperties
  <1> QED
    BY <1>1, <1>2, <1>3 DEF Sent

\* Every step keeps the connections in their types.
LEMMA HubKeepsConns ==
    ASSUME HubInv, [Next]_vars
    PROVE  ConnType'
  <1>0. ConnType
    BY DEF HubInv
  <1> USE HubAssumption, <1>0 DEF ConnType, hub, connect, wire, consumer
  <1>1. ASSUME NEW c \in Conns,
               Register(c) \/ ConnectStep(c) \/ PumpStep(c) \/ ClientGone(c)
        PROVE  ConnType'
    <2>1. CASE Register(c)
      BY <2>1 DEF Register, Goto
    <2>2. CASE \E ok \in BOOLEAN : SetOnline(c, ok)
      BY <2>2 DEF SetOnline, Outcome, Goto
    <2>3. CASE \E ok \in BOOLEAN : FlushRange(c, ok)
      BY <2>3 DEF FlushRange, Outcome, Goto
    <2>4. CASE \E took, ok \in BOOLEAN : FlushDel(c, took, ok)
      BY <2>4 DEF FlushDel, Outcome, Goto
    <2>5. CASE FlushLookup(c)
      BY <2>5 DEF FlushLookup, Goto
    <2>6. CASE FlushSelect(c)
      BY <2>6 DEF FlushSelect, Goto
    <2>7. CASE ReadEnds(c)
      BY <2>7 DEF ReadEnds, Goto
    <2>8. CASE Unregister(c)
      BY <2>8 DEF Unregister, Goto
    <2>9. CASE \E ok \in BOOLEAN : DeletePresence(c, ok)
      BY <2>9 DEF DeletePresence, Outcome, Goto
    <2>10. CASE PumpWrites(c)
      BY <2>10 DEF PumpWrites
    <2>11. CASE PumpFails(c)
      BY <2>11 DEF PumpFails, ExitPump
    <2>12. CASE PumpClosed(c)
      BY <2>12 DEF PumpClosed, ExitPump
    <2>13. CASE ClientGone(c)
      BY <2>13 DEF ClientGone
    <2> QED
      BY <1>1, <2>1, <2>2, <2>3, <2>4, <2>5, <2>6, <2>7,
         <2>8, <2>9, <2>10, <2>11, <2>12, <2>13 DEF ConnectStep, PumpStep
  <1>2. CASE \E x \in Messages : Fetch(x)
    BY <1>2 DEF Fetch
  <1>3. CASE HandleLookup
    BY <1>3 DEF HandleLookup, HandlerFails, Handled
  <1>4. CASE HandleSelect
    BY <1>4 DEF HandleSelect, HandlerFails, Handled, Die
  <1>5. CASE \E ok \in BOOLEAN : MarkDelivered(ok)
    BY <1>5 DEF MarkDelivered, Outcome, Handled
  <1>6. CASE \E took, ok \in BOOLEAN : Push(took, ok)
    BY <1>6 DEF Push, Outcome, HandlerFails, Handled
  <1>7. CASE \E ok \in BOOLEAN : MarkQueued(ok)
    BY <1>7 DEF MarkQueued, Outcome, Handled
  <1>8. CASE Crash
    BY <1>8 DEF Crash, Outcome, Die
  <1>9. CASE PresenceExpires
    BY <1>9 DEF PresenceExpires, Outcome
  <1>10. CASE OfflineExpires
    BY <1>10 DEF OfflineExpires, Outcome
  <1>11. CASE UNCHANGED vars
    BY <1>11 DEF vars
  <1> QED
    BY <1>1, <1>2, <1>3, <1>4, <1>5, <1>6, <1>7, <1>8, <1>9, <1>10, <1>11 DEF Next, ConsumerStep

\* One entry of a function is replaced.
LEMMA ReplacedKeepsType ==
    ASSUME NEW S, NEW T, NEW f \in [S -> T], NEW c \in S, NEW e \in T
    PROVE  [f EXCEPT ![c] = e] \in [S -> T]
  OBVIOUS

\* A payload that is sent, flushed or written is a message, and no buffer overflows.
LEMMA HubKeepsQueues ==
    ASSUME HubInv, [Next]_vars
    PROVE  QueueType'
  <1>0. QueueType /\ FlushHasTarget /\ HandlerHasMessage
    BY DEF HubInv
  <1> USE HubAssumption, <1>0 DEF QueueType, FlushHasTarget, HandlerHasMessage, hub,
          connect, wire, consumer
  <1>1. ASSUME NEW c \in Conns,
               Register(c) \/ ConnectStep(c) \/ PumpStep(c) \/ ClientGone(c)
        PROVE  QueueType'
    <2>1. CASE Register(c)
      BY <2>1 DEF Register, Goto
    <2>2. CASE \E ok \in BOOLEAN : SetOnline(c, ok)
      BY <2>2 DEF SetOnline
    <2>3. CASE \E ok \in BOOLEAN : FlushRange(c, ok)
      <3>1. pending' \in [Conns -> Seq(Messages)]
        BY <2>3, EmptySeq DEF FlushRange
      <3> QED
        BY <2>3, <3>1 DEF FlushRange
    <2>4. CASE \E took, ok \in BOOLEAN : FlushDel(c, took, ok)
      <3>1. pending' \in [Conns -> Seq(Messages)] /\ offline' \in Seq(Messages)
        BY <2>4, EmptySeq DEF FlushDel
      <3> QED
        BY <2>4, <3>1 DEF FlushDel
    <2>5. CASE FlushLookup(c)
      <3>1. \/ pending' = pending
            \/ pending[c] # <<>> /\ pending' = [pending EXCEPT ![c] = Tail(pending[c])]
        BY <2>5 DEF FlushLookup
      <3>2. pending[c] # <<>> => Tail(pending[c]) \in Seq(Messages)
        BY HeadTailProperties
      <3>3. pending' \in [Conns -> Seq(Messages)]
        BY <3>1, <3>2
      <3> QED
        BY <2>5, <3>3 DEF FlushLookup
    <2>6. CASE FlushSelect(c)
      <3>1. /\ target[c] \in Conns /\ pending[c] # <<>> /\ pending[c] \in Seq(Messages)
            /\ pending \in [Conns -> Seq(Messages)]
        BY <2>6 DEF FlushSelect
      <3>2. Head(pending[c]) \in Messages /\ Tail(pending[c]) \in Seq(Messages)
        BY <3>1, HeadTailProperties
      <3>3. Sent(buffer, target[c], Head(pending[c]))
        BY <3>1, <3>2, SendKeepsBuffers
      <3>4. pending' \in [Conns -> Seq(Messages)]
        <4>1. \/ pending' = [pending EXCEPT ![c] = <<>>]
              \/ pending' = [pending EXCEPT ![c] = Tail(pending[c])]
          BY <2>6 DEF FlushSelect
        <4>2. <<>> \in Seq(Messages)
          BY EmptySeq
        <4>3. [pending EXCEPT ![c] = <<>>] \in [Conns -> Seq(Messages)]
          BY <3>1, <4>2, ReplacedKeepsType
        <4>4. [pending EXCEPT ![c] = Tail(pending[c])] \in [Conns -> Seq(Messages)]
          BY <3>1, <3>2, ReplacedKeepsType
        <4> QED
          BY <4>1, <4>3, <4>4, Zenon
      <3>5. \/ buffer' = buffer
            \/ /\ buffer' = [buffer EXCEPT ![target[c]] = Append(@, Head(pending[c]))]
               /\ Len(buffer[target[c]]) < BufferSize
        BY <2>6 DEF FlushSelect
      <3>6. buffer' \in [Conns -> Seq(Messages)] /\ \A d \in Conns : Len(buffer'[d]) <= BufferSize
        BY <3>3, <3>5 DEF Sent
      <3> QED
        BY <2>6, <3>4, <3>6 DEF FlushSelect
    <2>7. CASE ReadEnds(c)
      BY <2>7 DEF ReadEnds, Goto
    <2>8. CASE Unregister(c)
      BY <2>8 DEF Unregister, Goto
    <2>9. CASE \E ok \in BOOLEAN : DeletePresence(c, ok)
      BY <2>9 DEF DeletePresence, Outcome, Goto
    <2>10. CASE PumpWrites(c)
      <3>1. /\ buffer[c] # <<>> /\ buffer[c] \in Seq(Messages)
            /\ buffer \in [Conns -> Seq(Messages)]
            /\ \A d \in Conns : Len(buffer[d]) <= BufferSize
            /\ BufferSize \in Nat
        BY <2>10 DEF PumpWrites
      <3>2. /\ Head(buffer[c]) \in Messages /\ Tail(buffer[c]) \in Seq(Messages)
            /\ Len(Tail(buffer[c])) <= BufferSize
        BY <3>1, HeadTailProperties, EmptySeq
      <3>3. buffer' = [buffer EXCEPT ![c] = Tail(buffer[c])]
        BY <2>10 DEF PumpWrites
      <3>4. buffer' \in [Conns -> Seq(Messages)] /\ \A d \in Conns : Len(buffer'[d]) <= BufferSize
        BY <3>1, <3>2, <3>3
      <3> QED
        BY <2>10, <3>2, <3>4 DEF PumpWrites
    <2>11. CASE PumpFails(c)
      BY <2>11, EmptySeq DEF PumpFails, ExitPump
    <2>12. CASE PumpClosed(c)
      BY <2>12, EmptySeq DEF PumpClosed, ExitPump
    <2>13. CASE ClientGone(c)
      BY <2>13 DEF ClientGone
    <2> QED
      BY <1>1, <2>1, <2>2, <2>3, <2>4, <2>5, <2>6, <2>7,
         <2>8, <2>9, <2>10, <2>11, <2>12, <2>13 DEF ConnectStep, PumpStep
  <1>2. CASE \E x \in Messages : Fetch(x)
    BY <1>2 DEF Fetch
  <1>3. CASE HandleLookup
    BY <1>3 DEF HandleLookup
  <1>4. CASE HandleSelect
    <2>1. htarget \in Conns /\ hmsg \in Messages
      BY <1>4 DEF HandleSelect
    <2>2. Sent(buffer, htarget, hmsg)
      BY <2>1, SendKeepsBuffers
    <2>3. \/ buffer' = buffer
          \/ buffer' = [d \in Conns |-> <<>>]
          \/ /\ buffer' = [buffer EXCEPT ![htarget] = Append(@, hmsg)]
             /\ Len(buffer[htarget]) < BufferSize
      BY <1>4 DEF HandleSelect, Die
    <2>4. buffer' \in [Conns -> Seq(Messages)] /\ \A d \in Conns : Len(buffer'[d]) <= BufferSize
      <3>1. CASE buffer' = [d \in Conns |-> <<>>]
        BY <3>1, EmptySeq
      <3>2. CASE buffer' # [d \in Conns |-> <<>>]
        BY <2>2, <2>3, <3>2 DEF Sent
      <3> QED
        BY <3>1, <3>2
    <2>5. pending' = pending \/ pending' = [d \in Conns |-> <<>>]
      BY <1>4 DEF HandleSelect, Die
    <2>6. pending' \in [Conns -> Seq(Messages)]
      BY <2>5, EmptySeq
    <2> QED
      BY <1>4, <2>4, <2>6 DEF HandleSelect, Die
  <1>5. CASE \E ok \in BOOLEAN : MarkDelivered(ok)
    BY <1>5 DEF MarkDelivered, Outcome, Handled
  <1>6. CASE \E took, ok \in BOOLEAN : Push(took, ok)
    <2>1. offline' \in Seq(Messages)
      BY <1>6, AppendProperties DEF Push
    <2> QED
      BY <1>6, <2>1 DEF Push
  <1>7. CASE \E ok \in BOOLEAN : MarkQueued(ok)
    BY <1>7 DEF MarkQueued, Outcome, Handled
  <1>8. CASE Crash
    <2>1. pending' \in [Conns -> Seq(Messages)] /\ buffer' \in [Conns -> Seq(Messages)]
      BY <1>8, EmptySeq DEF Crash, Die
    <2>2. \A d \in Conns : Len(buffer'[d]) <= BufferSize
      BY <1>8, EmptySeq DEF Crash, Die
    <2> QED
      BY <1>8, <2>1, <2>2 DEF Crash, Die
  <1>9. CASE PresenceExpires
    BY <1>9 DEF PresenceExpires, Outcome
  <1>10. CASE OfflineExpires
    BY <1>10, EmptySeq DEF OfflineExpires
  <1>11. CASE UNCHANGED vars
    BY <1>11 DEF vars
  <1> QED
    BY <1>1, <1>2, <1>3, <1>4, <1>5, <1>6, <1>7, <1>8, <1>9, <1>10, <1>11 DEF Next, ConsumerStep

\* The handler tries at most MaxRetries times, and faults are bounded.
LEMMA HubKeepsHandler ==
    ASSUME HubInv, [Next]_vars
    PROVE  (HandlerType /\ HandlerHasMessage)'
  <1>0. ConnType /\ HandlerType /\ HandlerHasMessage
    BY DEF HubInv
  <1> USE HubAssumption, <1>0 DEF HandlerType, HandlerHasMessage, hub, connect, wire, consumer
  <1>1. ASSUME NEW c \in Conns,
               Register(c) \/ ConnectStep(c) \/ PumpStep(c) \/ ClientGone(c)
        PROVE  (HandlerType /\ HandlerHasMessage)'
    <2>1. CASE Register(c)
      BY <2>1 DEF Register, Goto
    <2>2. CASE \E ok \in BOOLEAN : SetOnline(c, ok)
      BY <2>2 DEF SetOnline, Outcome, Goto
    <2>3. CASE \E ok \in BOOLEAN : FlushRange(c, ok)
      BY <2>3 DEF FlushRange, Outcome, Goto
    <2>4. CASE \E took, ok \in BOOLEAN : FlushDel(c, took, ok)
      BY <2>4 DEF FlushDel, Outcome, Goto
    <2>5. CASE FlushLookup(c)
      BY <2>5 DEF FlushLookup, Goto
    <2>6. CASE FlushSelect(c)
      BY <2>6 DEF FlushSelect, Goto
    <2>7. CASE ReadEnds(c)
      BY <2>7 DEF ReadEnds, Goto
    <2>8. CASE Unregister(c)
      BY <2>8 DEF Unregister, Goto
    <2>9. CASE \E ok \in BOOLEAN : DeletePresence(c, ok)
      BY <2>9 DEF DeletePresence, Outcome, Goto
    <2>10. CASE PumpWrites(c)
      BY <2>10 DEF PumpWrites
    <2>11. CASE PumpFails(c)
      BY <2>11 DEF PumpFails, ExitPump
    <2>12. CASE PumpClosed(c)
      BY <2>12 DEF PumpClosed, ExitPump
    <2>13. CASE ClientGone(c)
      BY <2>13 DEF ClientGone
    <2> QED
      BY <1>1, <2>1, <2>2, <2>3, <2>4, <2>5, <2>6, <2>7,
         <2>8, <2>9, <2>10, <2>11, <2>12, <2>13 DEF ConnectStep, PumpStep
  <1>2. CASE \E x \in Messages : Fetch(x)
    BY <1>2 DEF Fetch
  <1>3. CASE HandleLookup
    <2>1. entry \in Conns \union {NoConn}
      BY DEF ConnType
    <2> QED
      BY <1>3, <2>1 DEF HandleLookup, HandlerFails, Handled
  <1>4. CASE HandleSelect
    BY <1>4 DEF HandleSelect, HandlerFails, Handled, Die
  <1>5. CASE \E ok \in BOOLEAN : MarkDelivered(ok)
    BY <1>5 DEF MarkDelivered, Outcome, Handled
  <1>6. CASE \E took, ok \in BOOLEAN : Push(took, ok)
    BY <1>6 DEF Push, Outcome, HandlerFails, Handled
  <1>7. CASE \E ok \in BOOLEAN : MarkQueued(ok)
    BY <1>7 DEF MarkQueued, Outcome, Handled
  <1>8. CASE Crash
    BY <1>8 DEF Crash, Outcome, Die
  <1>9. CASE PresenceExpires
    BY <1>9 DEF PresenceExpires, Outcome
  <1>10. CASE OfflineExpires
    BY <1>10 DEF OfflineExpires, Outcome
  <1>11. CASE UNCHANGED vars
    BY <1>11 DEF vars
  <1> QED
    BY <1>1, <1>2, <1>3, <1>4, <1>5, <1>6, <1>7, <1>8, <1>9, <1>10, <1>11 DEF Next, ConsumerStep

\* Flags stay Boolean, and presence is set with Redis only.
LEMMA HubKeepsFlags ==
    ASSUME HubInv, [Next]_vars
    PROVE  (FlagType /\ PresenceNeedsRedis)'
  <1>0. FlagType /\ PresenceNeedsRedis
    BY DEF HubInv
  <1> USE HubAssumption, <1>0 DEF FlagType, PresenceNeedsRedis, hub, connect, wire, consumer
  <1>1. ASSUME NEW c \in Conns,
               Register(c) \/ ConnectStep(c) \/ PumpStep(c) \/ ClientGone(c)
        PROVE  (FlagType /\ PresenceNeedsRedis)'
    <2>1. CASE Register(c)
      BY <2>1 DEF Register, Goto
    <2>2. CASE \E ok \in BOOLEAN : SetOnline(c, ok)
      BY <2>2 DEF SetOnline, Outcome, Goto
    <2>3. CASE \E ok \in BOOLEAN : FlushRange(c, ok)
      BY <2>3 DEF FlushRange, Outcome, Goto
    <2>4. CASE \E took, ok \in BOOLEAN : FlushDel(c, took, ok)
      BY <2>4 DEF FlushDel, Outcome, Goto
    <2>5. CASE FlushLookup(c)
      BY <2>5 DEF FlushLookup, Goto
    <2>6. CASE FlushSelect(c)
      BY <2>6 DEF FlushSelect, Goto
    <2>7. CASE ReadEnds(c)
      BY <2>7 DEF ReadEnds, Goto
    <2>8. CASE Unregister(c)
      BY <2>8 DEF Unregister, Goto
    <2>9. CASE \E ok \in BOOLEAN : DeletePresence(c, ok)
      <3>1. (presence' = presence \/ presence' = FALSE) /\ UNCHANGED <<panicked, redis>>
        BY <2>9 DEF DeletePresence
      <3>2. CASE presence' = presence
        BY <3>1, <3>2
      <3>3. CASE presence' = FALSE
        BY <3>1, <3>3
      <3> QED
        BY <3>1, <3>2, <3>3
    <2>10. CASE PumpWrites(c)
      BY <2>10 DEF PumpWrites
    <2>11. CASE PumpFails(c)
      BY <2>11 DEF PumpFails, ExitPump
    <2>12. CASE PumpClosed(c)
      BY <2>12 DEF PumpClosed, ExitPump
    <2>13. CASE ClientGone(c)
      BY <2>13 DEF ClientGone
    <2> QED
      BY <1>1, <2>1, <2>2, <2>3, <2>4, <2>5, <2>6, <2>7,
         <2>8, <2>9, <2>10, <2>11, <2>12, <2>13 DEF ConnectStep, PumpStep
  <1>2. CASE \E x \in Messages : Fetch(x)
    BY <1>2 DEF Fetch
  <1>3. CASE HandleLookup
    BY <1>3 DEF HandleLookup, HandlerFails, Handled
  <1>4. CASE HandleSelect
    BY <1>4 DEF HandleSelect, HandlerFails, Handled, Die
  <1>5. CASE \E ok \in BOOLEAN : MarkDelivered(ok)
    BY <1>5 DEF MarkDelivered, Outcome, Handled
  <1>6. CASE \E took, ok \in BOOLEAN : Push(took, ok)
    BY <1>6 DEF Push, Outcome, HandlerFails, Handled
  <1>7. CASE \E ok \in BOOLEAN : MarkQueued(ok)
    BY <1>7 DEF MarkQueued, Outcome, Handled
  <1>8. CASE Crash
    BY <1>8 DEF Crash, Outcome, Die
  <1>9. CASE PresenceExpires
    BY <1>9 DEF PresenceExpires, Outcome
  <1>10. CASE OfflineExpires
    BY <1>10 DEF OfflineExpires, Outcome
  <1>11. CASE UNCHANGED vars
    BY <1>11 DEF vars
  <1> QED
    BY <1>1, <1>2, <1>3, <1>4, <1>5, <1>6, <1>7, <1>8, <1>9, <1>10, <1>11 DEF Next, ConsumerStep

\* A connection is touched by its own goroutines only, and a pump that ends closes
\* its socket.
LEMMA HubKeepsWire ==
    ASSUME HubInv, [Next]_vars
    PROVE  (FreshIsBlank /\ ExitedIsClosed)'
  <1>0. ConnType /\ FreshIsBlank /\ ExitedIsClosed /\ HubHoldsLatest
    BY DEF HubInv
  <1> USE HubAssumption, <1>0 DEF ConnType, FreshIsBlank, ExitedIsClosed, HubHoldsLatest,
          Attached, hub, connect, wire, consumer
  <1>1. ASSUME NEW c \in Conns,
               Register(c) \/ ConnectStep(c) \/ PumpStep(c) \/ ClientGone(c)
        PROVE  (FreshIsBlank /\ ExitedIsClosed)'
    <2>1. CASE Register(c)
      BY <2>1 DEF Register, Goto
    <2>2. CASE \E ok \in BOOLEAN : SetOnline(c, ok)
      BY <2>2 DEF SetOnline, Outcome, Goto
    <2>3. CASE \E ok \in BOOLEAN : FlushRange(c, ok)
      BY <2>3 DEF FlushRange, Outcome, Goto
    <2>4. CASE \E took, ok \in BOOLEAN : FlushDel(c, took, ok)
      BY <2>4 DEF FlushDel, Outcome, Goto
    <2>5. CASE FlushLookup(c)
      BY <2>5 DEF FlushLookup, Goto
    <2>6. CASE FlushSelect(c)
      BY <2>6 DEF FlushSelect, Goto
    <2>7. CASE ReadEnds(c)
      BY <2>7 DEF ReadEnds, Goto
    <2>8. CASE Unregister(c)
      BY <2>8 DEF Unregister, Goto
    <2>9. CASE \E ok \in BOOLEAN : DeletePresence(c, ok)
      BY <2>9 DEF DeletePresence, Outcome, Goto
    <2>10. CASE PumpWrites(c)
      BY <2>10 DEF PumpWrites
    <2>11. CASE PumpFails(c)
      BY <2>11 DEF PumpFails, ExitPump
    <2>12. CASE PumpClosed(c)
      BY <2>12 DEF PumpClosed, ExitPump
    <2>13. CASE ClientGone(c)
      BY <2>13 DEF ClientGone
    <2> QED
      BY <1>1, <2>1, <2>2, <2>3, <2>4, <2>5, <2>6, <2>7,
         <2>8, <2>9, <2>10, <2>11, <2>12, <2>13 DEF ConnectStep, PumpStep
  <1>2. CASE \E x \in Messages : Fetch(x)
    BY <1>2 DEF Fetch
  <1>3. CASE HandleLookup
    BY <1>3 DEF HandleLookup, HandlerFails, Handled
  <1>4. CASE HandleSelect
    BY <1>4 DEF HandleSelect, HandlerFails, Handled, Die
  <1>5. CASE \E ok \in BOOLEAN : MarkDelivered(ok)
    BY <1>5 DEF MarkDelivered, Outcome, Handled
  <1>6. CASE \E took, ok \in BOOLEAN : Push(took, ok)
    BY <1>6 DEF Push, Outcome, HandlerFails, Handled
  <1>7. CASE \E ok \in BOOLEAN : MarkQueued(ok)
    BY <1>7 DEF MarkQueued, Outcome, Handled
  <1>8. CASE Crash
    BY <1>8 DEF Crash, Outcome, Die
  <1>9. CASE PresenceExpires
    BY <1>9 DEF PresenceExpires, Outcome
  <1>10. CASE OfflineExpires
    BY <1>10 DEF OfflineExpires, Outcome
  <1>11. CASE UNCHANGED vars
    BY <1>11 DEF vars
  <1> QED
    BY <1>1, <1>2, <1>3, <1>4, <1>5, <1>6, <1>7, <1>8, <1>9, <1>10, <1>11 DEF Next, ConsumerStep

\* The map follows register and unregister, in whatever order they come.
LEMMA HubKeepsMap ==
    ASSUME HubInv, [Next]_vars
    PROVE  (HubHoldsLatest /\ EntryIsOpen /\ OthersAreClosed)'
  <1>0. /\ ConnType /\ FreshIsBlank /\ FlushHasTarget
        /\ HubHoldsLatest /\ EntryIsOpen /\ OthersAreClosed
    BY DEF HubInv
  <1>s. ASSUME UNCHANGED <<cpc, entry, latest, closed>>
        PROVE  (HubHoldsLatest /\ EntryIsOpen /\ OthersAreClosed)'
    BY <1>0, <1>s DEF HubHoldsLatest, EntryIsOpen, OthersAreClosed, Attached
  <1>d. ASSUME NEW how, Die(how)
        PROVE  (HubHoldsLatest /\ EntryIsOpen /\ OthersAreClosed)'
    <2>1. Attached' = {} /\ entry' = NoConn /\ UNCHANGED closed
      BY <1>d DEF Die, Attached
    <2>2. NoConn \notin closed
      BY <1>0, HubAssumption DEF ConnType
    <2> QED
      BY <2>1, <2>2 DEF HubHoldsLatest, EntryIsOpen, OthersAreClosed
  <1>h. ASSUME HandleSelect
        PROVE  (HubHoldsLatest /\ EntryIsOpen /\ OthersAreClosed)'
    <2>1. Die("panic") \/ UNCHANGED <<cpc, entry, latest, closed>>
      BY <1>h DEF HandleSelect, connect
    <2> QED
      BY <1>d, <1>s, <2>1
  <1>p. ASSUME NEW took, NEW ok, Push(took, ok)
        PROVE  (HubHoldsLatest /\ EntryIsOpen /\ OthersAreClosed)'
    BY <1>p, <1>s DEF Push, hub, connect
  <1> USE HubAssumption, <1>0 DEF ConnType, FreshIsBlank, FlushHasTarget, HubHoldsLatest,
          EntryIsOpen, OthersAreClosed, Attached, hub, connect, wire, consumer
  <1>1. ASSUME NEW c \in Conns,
               Register(c) \/ ConnectStep(c) \/ PumpStep(c) \/ ClientGone(c)
        PROVE  (HubHoldsLatest /\ EntryIsOpen /\ OthersAreClosed)'
    <2>1. CASE Register(c)
      BY <2>1 DEF Register, Goto
    <2>2. CASE \E ok \in BOOLEAN : SetOnline(c, ok)
      BY <2>2 DEF SetOnline, Outcome, Goto
    <2>3. CASE \E ok \in BOOLEAN : FlushRange(c, ok)
      BY <2>3 DEF FlushRange, Outcome, Goto
    <2>4. CASE \E took, ok \in BOOLEAN : FlushDel(c, took, ok)
      BY <2>4 DEF FlushDel, Outcome, Goto
    <2>5. CASE FlushLookup(c)
      BY <2>5 DEF FlushLookup, Goto
    <2>6. CASE FlushSelect(c)
      BY <2>6 DEF FlushSelect, Goto
    <2>7. CASE ReadEnds(c)
      BY <2>7 DEF ReadEnds, Goto
    <2>8. CASE Unregister(c)
      BY <2>8 DEF Unregister, Goto
    <2>9. CASE \E ok \in BOOLEAN : DeletePresence(c, ok)
      BY <2>9 DEF DeletePresence, Outcome, Goto
    <2>10. CASE PumpWrites(c)
      BY <2>10 DEF PumpWrites
    <2>11. CASE PumpFails(c)
      BY <2>11 DEF PumpFails, ExitPump
    <2>12. CASE PumpClosed(c)
      BY <2>12 DEF PumpClosed, ExitPump
    <2>13. CASE ClientGone(c)
      BY <2>13 DEF ClientGone
    <2> QED
      BY <1>1, <2>1, <2>2, <2>3, <2>4, <2>5, <2>6, <2>7,
         <2>8, <2>9, <2>10, <2>11, <2>12, <2>13 DEF ConnectStep, PumpStep
  <1>2. CASE \E x \in Messages : Fetch(x)
    BY <1>2 DEF Fetch
  <1>3. CASE HandleLookup
    BY <1>3 DEF HandleLookup, HandlerFails, Handled
  <1>4. CASE HandleSelect
    BY <1>h, <1>4
  <1>5. CASE \E ok \in BOOLEAN : MarkDelivered(ok)
    BY <1>5 DEF MarkDelivered, Outcome, Handled
  <1>6. CASE \E took, ok \in BOOLEAN : Push(took, ok)
    BY <1>p, <1>6
  <1>7. CASE \E ok \in BOOLEAN : MarkQueued(ok)
    BY <1>7 DEF MarkQueued, Outcome, Handled
  <1>8. CASE Crash
    BY <1>d, <1>8 DEF Crash
  <1>9. CASE PresenceExpires
    BY <1>9 DEF PresenceExpires, Outcome
  <1>10. CASE OfflineExpires
    BY <1>10 DEF OfflineExpires, Outcome
  <1>11. CASE UNCHANGED vars
    BY <1>11 DEF vars
  <1> QED
    BY <1>1, <1>2, <1>3, <1>4, <1>5, <1>6, <1>7, <1>8, <1>9, <1>10, <1>11 DEF Next, ConsumerStep

\* A target is read from the map while the connection is in it.
LEMMA HubKeepsTargets ==
    ASSUME HubInv, [Next]_vars
    PROVE  FlushHasTarget'
  <1>0. ConnType /\ QueueType /\ HubHoldsLatest /\ FlushHasTarget
    BY DEF HubInv
  <1>l. ASSUME NEW c \in Conns, FlushLookup(c) PROVE FlushHasTarget'
    <2>0. /\ cpc = [d \in Conns |-> cpc[d]] /\ target = [d \in Conns |-> target[d]]
          /\ pending = [d \in Conns |-> pending[d]]
      BY <1>0 DEF ConnType, QueueType
    <2>1. /\ latest' = latest /\ cpc[c] = "send"
          /\ \A d \in Conns : d # c => /\ cpc'[d] = cpc[d] /\ target'[d] = target[d]
                                       /\ pending'[d] = pending[d]
      BY <1>l, <2>0 DEF FlushLookup, Goto, hub
    <2>2. cpc'[c] = "select" =>
            pending'[c] # <<>> /\ target'[c] = entry /\ entry # NoConn
      BY <1>l, <2>0, <2>1 DEF FlushLookup, Goto
    <2>3. entry # NoConn => entry = latest /\ entry \in Conns
      BY <1>0 DEF HubHoldsLatest, Attached
    <2> QED
      BY <1>0, <2>1, <2>2, <2>3 DEF FlushHasTarget
  <1> USE HubAssumption, <1>0 DEF ConnType, QueueType, HubHoldsLatest, FlushHasTarget,
          Attached, hub, connect, wire, consumer
  <1>1. ASSUME NEW c \in Conns,
               Register(c) \/ ConnectStep(c) \/ PumpStep(c) \/ ClientGone(c)
        PROVE  FlushHasTarget'
    <2>1. CASE Register(c)
      BY <2>1 DEF Register, Goto
    <2>2. CASE \E ok \in BOOLEAN : SetOnline(c, ok)
      BY <2>2 DEF SetOnline, Outcome, Goto
    <2>3. CASE \E ok \in BOOLEAN : FlushRange(c, ok)
      BY <2>3 DEF FlushRange, Outcome, Goto
    <2>4. CASE \E took, ok \in BOOLEAN : FlushDel(c, took, ok)
      BY <2>4 DEF FlushDel, Outcome, Goto
    <2>5. CASE FlushLookup(c)
      BY <1>l, <2>5
    <2>6. CASE FlushSelect(c)
      BY <2>6 DEF FlushSelect, Goto
    <2>7. CASE ReadEnds(c)
      BY <2>7 DEF ReadEnds, Goto
    <2>8. CASE Unregister(c)
      BY <2>8 DEF Unregister, Goto
    <2>9. CASE \E ok \in BOOLEAN : DeletePresence(c, ok)
      BY <2>9 DEF DeletePresence, Outcome, Goto
    <2>10. CASE PumpWrites(c)
      BY <2>10 DEF PumpWrites
    <2>11. CASE PumpFails(c)
      BY <2>11 DEF PumpFails, ExitPump
    <2>12. CASE PumpClosed(c)
      BY <2>12 DEF PumpClosed, ExitPump
    <2>13. CASE ClientGone(c)
      BY <2>13 DEF ClientGone
    <2> QED
      BY <1>1, <2>1, <2>2, <2>3, <2>4, <2>5, <2>6, <2>7,
         <2>8, <2>9, <2>10, <2>11, <2>12, <2>13 DEF ConnectStep, PumpStep
  <1>2. CASE \E x \in Messages : Fetch(x)
    BY <1>2 DEF Fetch
  <1>3. CASE HandleLookup
    BY <1>3 DEF HandleLookup, HandlerFails, Handled
  <1>4. CASE HandleSelect
    BY <1>4 DEF HandleSelect, HandlerFails, Handled, Die
  <1>5. CASE \E ok \in BOOLEAN : MarkDelivered(ok)
    BY <1>5 DEF MarkDelivered, Outcome, Handled
  <1>6. CASE \E took, ok \in BOOLEAN : Push(took, ok)
    BY <1>6 DEF Push, Outcome, HandlerFails, Handled
  <1>7. CASE \E ok \in BOOLEAN : MarkQueued(ok)
    BY <1>7 DEF MarkQueued, Outcome, Handled
  <1>8. CASE Crash
    BY <1>8 DEF Crash, Outcome, Die
  <1>9. CASE PresenceExpires
    BY <1>9 DEF PresenceExpires, Outcome
  <1>10. CASE OfflineExpires
    BY <1>10 DEF OfflineExpires, Outcome
  <1>11. CASE UNCHANGED vars
    BY <1>11 DEF vars
  <1> QED
    BY <1>1, <1>2, <1>3, <1>4, <1>5, <1>6, <1>7, <1>8, <1>9, <1>10, <1>11 DEF Next, ConsumerStep

\* A Connect ends without deleting the presence key only in a fault or a panic.
LEMMA HubKeepsPresence ==
    ASSUME HubInv, [Next]_vars
    PROVE  NoGhostPresence'
  <1>0. ConnType /\ HandlerType /\ FlagType /\ PresenceNeedsRedis /\ NoGhostPresence
    BY DEF HubInv
  <1> USE HubAssumption, <1>0 DEF ConnType, HandlerType, FlagType, PresenceNeedsRedis,
          NoGhostPresence, hub, connect, wire, consumer
  <1>1. ASSUME NEW c \in Conns,
               Register(c) \/ ConnectStep(c) \/ PumpStep(c) \/ ClientGone(c)
        PROVE  NoGhostPresence'
    <2>1. CASE Register(c)
      BY <2>1 DEF Register, Goto
    <2>2. CASE \E ok \in BOOLEAN : SetOnline(c, ok)
      BY <2>2 DEF SetOnline, Outcome, Goto
    <2>3. CASE \E ok \in BOOLEAN : FlushRange(c, ok)
      BY <2>3 DEF FlushRange, Outcome, Goto
    <2>4. CASE \E took, ok \in BOOLEAN : FlushDel(c, took, ok)
      BY <2>4 DEF FlushDel, Outcome, Goto
    <2>5. CASE FlushLookup(c)
      BY <2>5 DEF FlushLookup, Goto
    <2>6. CASE FlushSelect(c)
      BY <2>6 DEF FlushSelect, Goto
    <2>7. CASE ReadEnds(c)
      BY <2>7 DEF ReadEnds, Goto
    <2>8. CASE Unregister(c)
      BY <2>8 DEF Unregister, Goto
    <2>9. CASE \E ok \in BOOLEAN : DeletePresence(c, ok)
      <3>1. PICK ok \in BOOLEAN : DeletePresence(c, ok)
        BY <2>9
      <3>2. CASE ok /\ redis
        BY <3>1, <3>2 DEF DeletePresence
      <3>3. CASE ok /\ ~redis
        <4>1. ~presence /\ presence' = presence
          BY <3>1, <3>3 DEF DeletePresence
        <4> QED
          BY <4>1
      <3>4. CASE ~ok
        <4>1. faults' # 0
          BY <3>1, <3>4 DEF DeletePresence, Outcome
        <4> QED
          BY <4>1
      <3> QED
        BY <3>2, <3>3, <3>4
    <2>10. CASE PumpWrites(c)
      BY <2>10 DEF PumpWrites
    <2>11. CASE PumpFails(c)
      BY <2>11 DEF PumpFails, ExitPump
    <2>12. CASE PumpClosed(c)
      BY <2>12 DEF PumpClosed, ExitPump
    <2>13. CASE ClientGone(c)
      BY <2>13 DEF ClientGone
    <2> QED
      BY <1>1, <2>1, <2>2, <2>3, <2>4, <2>5, <2>6, <2>7,
         <2>8, <2>9, <2>10, <2>11, <2>12, <2>13 DEF ConnectStep, PumpStep
  <1>2. CASE \E x \in Messages : Fetch(x)
    BY <1>2 DEF Fetch
  <1>3. CASE HandleLookup
    BY <1>3 DEF HandleLookup, HandlerFails, Handled
  <1>4. CASE HandleSelect
    BY <1>4 DEF HandleSelect, HandlerFails, Handled, Die
  <1>5. CASE \E ok \in BOOLEAN : MarkDelivered(ok)
    BY <1>5 DEF MarkDelivered, Outcome, Handled
  <1>6. CASE \E took, ok \in BOOLEAN : Push(took, ok)
    BY <1>6 DEF Push, Outcome, HandlerFails, Handled
  <1>7. CASE \E ok \in BOOLEAN : MarkQueued(ok)
    BY <1>7 DEF MarkQueued, Outcome, Handled
  <1>8. CASE Crash
    BY <1>8 DEF Crash, Outcome, Die
  <1>9. CASE PresenceExpires
    BY <1>9 DEF PresenceExpires, Outcome
  <1>10. CASE OfflineExpires
    BY <1>10 DEF OfflineExpires, Outcome
  <1>11. CASE UNCHANGED vars
    BY <1>11 DEF vars
  <1> QED
    BY <1>1, <1>2, <1>3, <1>4, <1>5, <1>6, <1>7, <1>8, <1>9, <1>10, <1>11 DEF Next, ConsumerStep

-----------------------------------------------------------------------------
\* Messages.

\* What is lost is recorded, and stays so.
LEMMA LoseRecords ==
    ASSUME NEW ms, NEW how, Lose(ms, how)
    PROVE  lost \subseteq lost' /\ \A m \in ms : \E loss \in lost' : loss[1] = m
  <1>1. \A m \in ms : <<m, how>> \in lost' /\ <<m, how>>[1] = m
    BY DEF Lose
  <1> QED
    BY <1>1 DEF Lose

\* When writePump returns, what is left in the channel is lost.
LEMMA PumpExitKeeps ==
    ASSUME ConnType, QueueType, NEW c \in Conns, ExitPump(c),
           UNCHANGED <<connect, received, dlq, offline>>,
           NEW m \in Messages, Somewhere(m)
    PROVE  Somewhere(m)'
  <1>1. Lose(Range(buffer[c]), "socket") /\ buffer' = [buffer EXCEPT ![c] = <<>>]
    BY DEF ExitPump
  <1>2. lost \subseteq lost' /\ (m \in Range(buffer[c]) => \E loss \in lost' : loss[1] = m)
    BY <1>1, LoseRecords
  <1>3. \A d \in Conns : Held(d)' = Held(d) /\ (d # c => buffer'[d] = buffer[d])
    BY <1>1 DEF Held, connect, QueueType
  <1> QED
    BY <1>2, <1>3 DEF Somewhere

\* When the process dies, what it held is lost, and what Redis holds stays.
LEMMA DieKeeps ==
    ASSUME NEW how, Die(how), NEW m \in Messages, Somewhere(m)
    PROVE  Somewhere(m)'
  <1>1. /\ Lose(UNION {Range(pending[c]) \union Range(buffer[c]) : c \in Conns}, how)
        /\ UNCHANGED <<received, dlq, offline>>
    BY DEF Die
  <1>2. ASSUME NEW c \in Conns, m \in Range(buffer[c]) \union Held(c)
        PROVE  m \in UNION {Range(pending[d]) \union Range(buffer[d]) : d \in Conns}
    BY <1>2 DEF Held
  <1>3. /\ lost \subseteq lost'
        /\ \A c \in Conns : m \in Range(buffer[c]) \union Held(c) =>
              \E loss \in lost' : loss[1] = m
    BY <1>1, <1>2, LoseRecords
  <1> QED
    BY <1>1, <1>3 DEF Somewhere

\* What the other connections hold does not change when one of them goes on.
LEMMA OthersHold ==
    ASSUME ConnType, QueueType, NEW c \in Conns,
           UNCHANGED cpc \/ \E l : Goto(c, l),
           UNCHANGED pending \/ \E p : pending' = [pending EXCEPT ![c] = p]
    PROVE  \A d \in Conns : d # c => Held(d)' = Held(d)
  <1>1. cpc = [d \in Conns |-> cpc[d]] /\ pending = [d \in Conns |-> pending[d]]
    BY DEF ConnType, QueueType
  <1>2. ASSUME NEW d \in Conns, d # c PROVE cpc'[d] = cpc[d] /\ pending'[d] = pending[d]
    BY <1>1, <1>2 DEF Goto
  <1> QED
    BY <1>2 DEF Held

\* And what one holds depends on where it is.
LEMMA HeldAt ==
    ASSUME ConnType, NEW c \in Conns, NEW l, Goto(c, l)
    PROVE  Held(c)' = IF l \in {"send", "select"} THEN Range(pending'[c]) ELSE {}
  <1>1. cpc'[c] = l
    BY DEF ConnType, Goto
  <1> QED
    BY <1>1 DEF Held

\* The rules by which a message stays somewhere: it is in one of the places afterwards, or
\* every place it can be in hands it on.
LEMMA SomewhereIf ==
    ASSUME NEW m
    PROVE  /\ m \in received' => Somewhere(m)'
           /\ m \in dlq' => Somewhere(m)'
           /\ m \in Range(offline') => Somewhere(m)'
           /\ \A d \in Conns : m \in Range(buffer'[d]) => Somewhere(m)'
           /\ \A d \in Conns : m \in Held(d)' => Somewhere(m)'
           /\ (\E loss \in lost' : loss[1] = m) => Somewhere(m)'
  BY DEF Somewhere

LEMMA HandedOn ==
    ASSUME NEW m, Somewhere(m),
           received \subseteq received', dlq \subseteq dlq', lost \subseteq lost',
           m \in Range(offline) => Somewhere(m)',
           \A d \in Conns : m \in Range(buffer[d]) => Somewhere(m)',
           \A d \in Conns : m \in Held(d) => Somewhere(m)'
    PROVE  Somewhere(m)'
  <1>1. CASE m \in received \/ m \in dlq
    BY <1>1, SomewhereIf
  <1>2. CASE \E loss \in lost : loss[1] = m
    BY <1>2, SomewhereIf
  <1>3. CASE m \in Range(offline) \/ \E d \in Conns : m \in Range(buffer[d]) \union Held(d)
    BY <1>3
  <1> QED
    BY <1>1, <1>2, <1>3 DEF Somewhere

LEMMA NothingMoves ==
    ASSUME NEW m, Somewhere(m), UNCHANGED <<buffer, received, dlq, offline>>,
           lost \subseteq lost', \A d \in Conns : Held(d)' = Held(d)
    PROVE  Somewhere(m)'
  BY HandedOn, SomewhereIf

\* A connection that is not sending holds nothing, wherever it goes.
LEMMA ConnectMoves ==
    ASSUME ConnType, QueueType, NEW m, Somewhere(m), NEW c \in Conns,
           cpc[c] \notin {"send", "select"},
           \E l \in {"online", "range", "del", "read", "unregister", "leave", "done"} : Goto(c, l),
           UNCHANGED pending \/ \E p : pending' = [pending EXCEPT ![c] = p],
           UNCHANGED <<buffer, received, dlq, offline, lost>>
    PROVE  Somewhere(m)'
  <1>1. \A d \in Conns : d # c => Held(d)' = Held(d)
    BY OthersHold
  <1>2. Held(c) = {} /\ Held(c)' = {}
    BY HeldAt DEF Held
  <1> QED
    BY <1>1, <1>2, NothingMoves

\* The steps of Flush.
LEMMA FlushDelKeeps ==
    ASSUME ConnType, QueueType, NEW m, Somewhere(m), NEW c \in Conns,
           NEW took \in BOOLEAN, NEW ok \in BOOLEAN, FlushDel(c, took, ok)
    PROVE  Somewhere(m)'
  <1>1. UNCHANGED <<buffer, received, dlq>> /\ cpc[c] = "del"
    BY DEF FlushDel, hub, wire, consumer
  <1>2. \A d \in Conns : d # c => Held(d)' = Held(d)
    BY OthersHold DEF FlushDel
  <1>3. Held(c) = {}
    BY <1>1 DEF Held
  <1>4. lost \subseteq lost'
    BY LoseRecords DEF FlushDel
  <1>5. m \in Range(offline) => Somewhere(m)'
    <2>1. CASE ~took
      BY <2>1, SomewhereIf DEF FlushDel
    <2>2. CASE took /\ ok
      <3>1. Lose(Range(offline) \ Range(pending[c]), "flush")
        BY <2>2 DEF FlushDel
      <3>2. UNCHANGED pending /\ Goto(c, "send")
        BY <2>2 DEF FlushDel
      <3>3. Held(c)' = Range(pending[c])
        BY <3>2, HeldAt
      <3>4. \A x \in Range(offline) \ Range(pending[c]) : \E loss \in lost' : loss[1] = x
        BY <3>1, LoseRecords
      <3> QED
        BY <3>3, <3>4, SomewhereIf
    <2>3. CASE took /\ ~ok
      <3>1. Lose(Range(offline) \ {}, "flush")
        BY <2>3 DEF FlushDel
      <3>2. \A x \in Range(offline) \ {} : \E loss \in lost' : loss[1] = x
        BY <3>1, LoseRecords
      <3> QED
        BY <3>2, SomewhereIf
    <2> QED
      BY <2>1, <2>2, <2>3
  <1>6. \A d \in Conns : m \in Held(d) => Somewhere(m)'
    BY <1>2, <1>3, SomewhereIf
  <1>7. \A d \in Conns : m \in Range(buffer[d]) => Somewhere(m)'
    BY <1>1, SomewhereIf
  <1> QED
    BY <1>1, <1>4, <1>5, <1>6, <1>7, HandedOn

LEMMA FlushLookupKeeps ==
    ASSUME ConnType, QueueType, NEW m, Somewhere(m), NEW c \in Conns, FlushLookup(c)
    PROVE  Somewhere(m)'
  <1>1. UNCHANGED <<buffer, received, dlq, offline>> /\ cpc[c] = "send"
    BY DEF FlushLookup, hub, wire, consumer
  <1>2. \A d \in Conns : d # c => Held(d)' = Held(d)
    BY OthersHold DEF FlushLookup
  <1>3. Held(c) = Range(pending[c])
    BY <1>1 DEF Held
  <1>4. lost \subseteq lost'
    BY LoseRecords DEF FlushLookup
  <1>5. m \in Range(pending[c]) => Somewhere(m)'
    <2>1. CASE pending[c] = <<>>
      BY <2>1, RangeOfEmpty
    <2>2. CASE pending[c] # <<>> /\ entry = NoConn
      <3>1. Lose({Head(pending[c])}, "dropped") /\ UNCHANGED cpc
        BY <2>2 DEF FlushLookup
      <3>2. pending' = [pending EXCEPT ![c] = Tail(pending[c])]
        BY <2>2 DEF FlushLookup
      <3>3. pending'[c] = Tail(pending[c]) /\ pending[c] \in Seq(Messages)
        BY <3>2 DEF QueueType
      <3>4. Range(pending[c]) = {Head(pending[c])} \union Range(Tail(pending[c]))
        BY <2>2, <3>3, RangeOfTail
      <3>5. Held(c)' = Range(Tail(pending[c]))
        BY <1>1, <3>1, <3>3 DEF Held
      <3>6. \A x \in {Head(pending[c])} : \E loss \in lost' : loss[1] = x
        BY <3>1, LoseRecords
      <3> QED
        BY <3>4, <3>5, <3>6, SomewhereIf
    <2>3. CASE pending[c] # <<>> /\ entry # NoConn
      <3>1. UNCHANGED pending /\ Goto(c, "select")
        BY <2>3 DEF FlushLookup
      <3>2. Held(c)' = Range(pending[c])
        BY <3>1, HeldAt
      <3> QED
        BY <3>2, SomewhereIf
    <2> QED
      BY <2>1, <2>2, <2>3
  <1>6. \A d \in Conns : m \in Held(d) => Somewhere(m)'
    BY <1>2, <1>3, <1>5, SomewhereIf
  <1>7. /\ \A d \in Conns : m \in Range(buffer[d]) => Somewhere(m)'
        /\ m \in Range(offline) => Somewhere(m)'
    BY <1>1, SomewhereIf
  <1> QED
    BY <1>1, <1>4, <1>6, <1>7, HandedOn

LEMMA FlushSelectKeeps ==
    ASSUME ConnType, QueueType, FlushHasTarget, NEW m, Somewhere(m), NEW c \in Conns,
           FlushSelect(c)
    PROVE  Somewhere(m)'
  <1>1. UNCHANGED <<received, dlq, offline>> /\ cpc[c] = "select"
    BY DEF FlushSelect, wire, consumer
  <1>2. pending[c] # <<>> /\ pending[c] \in Seq(Messages) /\ target[c] \in Conns
    BY <1>1 DEF FlushHasTarget, QueueType
  <1>3. \A d \in Conns : d # c => Held(d)' = Held(d)
    BY OthersHold DEF FlushSelect
  <1>4. Held(c) = Range(pending[c])
    BY <1>1 DEF Held
  <1>5. lost \subseteq lost'
    BY LoseRecords DEF FlushSelect
  <1>6. /\ \A d \in Conns : m \in Range(buffer[d]) => Somewhere(m)'
        /\ m \in Range(pending[c]) => Somewhere(m)'
    <2>1. CASE target[c] \in closed
      <3>1. Lose(Range(pending[c]), "panic") /\ UNCHANGED buffer
        BY <2>1 DEF FlushSelect
      <3>2. \A x \in Range(pending[c]) : \E loss \in lost' : loss[1] = x
        BY <3>1, LoseRecords
      <3> QED
        BY <3>1, <3>2, SomewhereIf
    <2>2. CASE target[c] \notin closed
      <3>1. Range(pending[c]) = {Head(pending[c])} \union Range(Tail(pending[c]))
        BY <1>2, RangeOfTail
      <3>2. pending' = [pending EXCEPT ![c] = Tail(pending[c])] /\ Goto(c, "send")
        BY <2>2 DEF FlushSelect
      <3>3. pending'[c] = Tail(pending[c])
        BY <3>2 DEF QueueType
      <3>4. Held(c)' = Range(Tail(pending[c]))
        BY <3>2, <3>3, HeldAt
      <3>5. m \in Range(Tail(pending[c])) => Somewhere(m)'
        BY <3>4, SomewhereIf
      <3>6. CASE Len(buffer[target[c]]) < BufferSize
        <4>1. buffer' = [buffer EXCEPT ![target[c]] =
                           Append(buffer[target[c]], Head(pending[c]))]
          BY <2>2, <3>6 DEF FlushSelect
        <4>2. /\ buffer'[target[c]] = Append(buffer[target[c]], Head(pending[c]))
              /\ \A d \in Conns : d # target[c] => buffer'[d] = buffer[d]
              /\ buffer[target[c]] \in Seq(Messages)
          BY <1>2, <4>1 DEF QueueType
        <4>3. Head(pending[c]) \in Messages
          BY <1>2, HeadTailProperties
        <4>4. Range(buffer'[target[c]]) = Range(buffer[target[c]]) \union {Head(pending[c])}
          BY <4>2, <4>3, RangeOfAppend
        <4>5. \A d \in Conns : m \in Range(buffer[d]) => m \in Range(buffer'[d])
          BY <4>2, <4>4
        <4>6. m = Head(pending[c]) => m \in Range(buffer'[target[c]])
          BY <4>4
        <4> QED
          BY <1>2, <3>1, <3>5, <4>5, <4>6, SomewhereIf
      <3>7. CASE ~(Len(buffer[target[c]]) < BufferSize)
        <4>1. Lose({Head(pending[c])}, "dropped") /\ UNCHANGED buffer
          BY <2>2, <3>7 DEF FlushSelect
        <4>2. \A x \in {Head(pending[c])} : \E loss \in lost' : loss[1] = x
          BY <4>1, LoseRecords
        <4> QED
          BY <3>1, <3>5, <4>1, <4>2, SomewhereIf
      <3> QED
        BY <3>6, <3>7
    <2> QED
      BY <2>1, <2>2
  <1>7. \A d \in Conns : m \in Held(d) => Somewhere(m)'
    BY <1>3, <1>4, <1>6, SomewhereIf
  <1>8. m \in Range(offline) => Somewhere(m)'
    BY <1>1, SomewhereIf
  <1> QED
    BY <1>1, <1>5, <1>6, <1>7, <1>8, HandedOn

\* writePump hands the first message of its channel to the client, or loses it.
LEMMA PumpWritesKeeps ==
    ASSUME QueueType, NEW m, Somewhere(m), NEW c \in Conns, PumpWrites(c)
    PROVE  Somewhere(m)'
  <1>1. /\ UNCHANGED <<cpc, pending, dlq, offline>>
        /\ buffer' = [buffer EXCEPT ![c] = Tail(buffer[c])]
    BY DEF PumpWrites, connect, consumer
  <1>2. /\ buffer[c] # <<>> /\ buffer[c] \in Seq(Messages) /\ buffer'[c] = Tail(buffer[c])
        /\ \A d \in Conns : d # c => buffer'[d] = buffer[d]
    BY <1>1 DEF PumpWrites, QueueType
  <1>3. Range(buffer[c]) = {Head(buffer[c])} \union Range(buffer'[c])
    BY <1>2, RangeOfTail
  <1>4. /\ lost \subseteq lost' /\ received \subseteq received'
        /\ m = Head(buffer[c]) => Somewhere(m)'
    <2>1. CASE socket[c] = "open"
      <3>1. received' = received \union {Head(buffer[c])} /\ UNCHANGED lost
        BY <2>1 DEF PumpWrites
      <3> QED
        BY <3>1, SomewhereIf
    <2>2. CASE socket[c] # "open"
      <3>1. Lose({Head(buffer[c])}, "socket") /\ UNCHANGED received
        BY <2>2 DEF PumpWrites
      <3>2. \A x \in {Head(buffer[c])} : \E loss \in lost' : loss[1] = x
        BY <3>1, LoseRecords
      <3>3. lost \subseteq lost'
        BY <3>1, LoseRecords
      <3> QED
        BY <3>1, <3>2, <3>3, SomewhereIf
    <2> QED
      BY <2>1, <2>2
  <1>5. \A d \in Conns : m \in Range(buffer[d]) => Somewhere(m)'
    BY <1>2, <1>3, <1>4, SomewhereIf
  <1>6. \A d \in Conns : Held(d)' = Held(d)
    BY <1>1 DEF Held
  <1>7. /\ m \in Range(offline) => Somewhere(m)'
        /\ \A d \in Conns : m \in Held(d) => Somewhere(m)'
    BY <1>1, <1>6, SomewhereIf
  <1> QED
    BY <1>1, <1>4, <1>5, <1>7, HandedOn

\* A message that is somewhere stays somewhere: each step hands it on, or records its
\* loss.
LEMMA SomewhereStays ==
    ASSUME HubInv, [Next]_vars, NEW m \in Messages, Somewhere(m)
    PROVE  Somewhere(m)'
  <1>0. ConnType /\ QueueType /\ FlushHasTarget /\ HandlerHasMessage
    BY DEF HubInv
  <1>s. ASSUME UNCHANGED <<cpc, pending, buffer, received, dlq, offline, lost>>
        PROVE  Somewhere(m)'
    BY <1>s, NothingMoves DEF Held
  <1> USE DEF hub, connect, wire, consumer
  <1>1. ASSUME NEW c \in Conns,
               Register(c) \/ ConnectStep(c) \/ PumpStep(c) \/ ClientGone(c)
        PROVE  Somewhere(m)'
    <2>1. CASE Register(c)
      BY <1>0, <2>1, ConnectMoves DEF Register
    <2>2. CASE \E ok \in BOOLEAN : SetOnline(c, ok)
      <3>1. \E l \in {"range", "read"} : Goto(c, l)
        BY <2>2 DEF SetOnline
      <3>2. /\ cpc[c] \notin {"send", "select"}
            /\ UNCHANGED <<pending, buffer, received, dlq, offline, lost>>
        BY <2>2 DEF SetOnline
      <3> QED
        BY <1>0, <3>1, <3>2, ConnectMoves
    <2>3. CASE \E ok \in BOOLEAN : FlushRange(c, ok)
      <3>1. \E l \in {"del", "read"} : Goto(c, l)
        BY <2>3 DEF FlushRange
      <3>2. /\ cpc[c] \notin {"send", "select"}
            /\ UNCHANGED <<buffer, received, dlq, offline, lost>>
            /\ \E p : pending' = [pending EXCEPT ![c] = p]
        BY <2>3 DEF FlushRange
      <3> QED
        BY <1>0, <3>1, <3>2, ConnectMoves
    <2>4. CASE \E took, ok \in BOOLEAN : FlushDel(c, took, ok)
      BY <1>0, <2>4, FlushDelKeeps
    <2>5. CASE FlushLookup(c)
      BY <1>0, <2>5, FlushLookupKeeps
    <2>6. CASE FlushSelect(c)
      BY <1>0, <2>6, FlushSelectKeeps
    <2>7. CASE ReadEnds(c)
      BY <1>0, <2>7, ConnectMoves DEF ReadEnds
    <2>8. CASE Unregister(c)
      BY <1>0, <2>8, ConnectMoves DEF Unregister
    <2>9. CASE \E ok \in BOOLEAN : DeletePresence(c, ok)
      BY <1>0, <2>9, ConnectMoves DEF DeletePresence
    <2>10. CASE PumpWrites(c)
      BY <1>0, <2>10, PumpWritesKeeps
    <2>11. CASE PumpFails(c)
      BY <1>0, <2>11, PumpExitKeeps DEF PumpFails
    <2>12. CASE PumpClosed(c)
      BY <1>0, <2>12, PumpExitKeeps DEF PumpClosed
    <2>13. CASE ClientGone(c)
      BY <1>s, <2>13 DEF ClientGone
    <2> QED
      BY <1>1, <2>1, <2>2, <2>3, <2>4, <2>5, <2>6, <2>7,
         <2>8, <2>9, <2>10, <2>11, <2>12, <2>13 DEF ConnectStep, PumpStep
  <1>d. ASSUME UNCHANGED <<cpc, pending, received, lost>>, dlq \subseteq dlq',
               Range(offline) \subseteq Range(offline'),
               \A d \in Conns : Range(buffer[d]) \subseteq Range(buffer'[d])
        PROVE  Somewhere(m)'
    <2>1. \A d \in Conns : Held(d)' = Held(d)
      BY <1>d DEF Held
    <2> QED
      BY <1>d, <2>1, HandedOn, SomewhereIf
  <1>2. CASE \E x \in Messages : Fetch(x)
    BY <1>s, <1>2 DEF Fetch
  <1>3. CASE HandleLookup
    BY <1>d, <1>3 DEF HandleLookup, HandlerFails
  <1>4. CASE HandleSelect
    <2>1. CASE htarget \in closed
      <3>1. Die("panic")
        BY <1>4, <2>1 DEF HandleSelect
      <3> QED
        BY <3>1, DieKeeps
    <2>2. CASE htarget \notin closed
      <3>1. htarget \in Conns /\ hmsg \in Messages
        BY <1>0, <1>4 DEF HandleSelect, HandlerHasMessage
      <3>2. UNCHANGED <<cpc, pending, received, offline, lost>> /\ dlq \subseteq dlq'
        BY <1>4, <2>2 DEF HandleSelect, HandlerFails
      <3>3. \/ buffer' = buffer
            \/ buffer' = [buffer EXCEPT ![htarget] = Append(buffer[htarget], hmsg)]
        BY <1>4, <2>2 DEF HandleSelect
      <3>4. Range(Append(buffer[htarget], hmsg)) = Range(buffer[htarget]) \union {hmsg}
        BY <1>0, <3>1, RangeOfAppend DEF QueueType
      <3>5. \A d \in Conns : Range(buffer[d]) \subseteq Range(buffer'[d])
        BY <1>0, <3>1, <3>3, <3>4 DEF QueueType
      <3> QED
        BY <1>d, <3>2, <3>5
    <2> QED
      BY <2>1, <2>2
  <1>5. CASE \E ok \in BOOLEAN : MarkDelivered(ok)
    BY <1>s, <1>5 DEF MarkDelivered
  <1>6. CASE \E took, ok \in BOOLEAN : Push(took, ok)
    <2>1. hmsg \in Messages
      BY <1>0, <1>6 DEF Push, HandlerHasMessage
    <2>2. Range(Append(offline, hmsg)) = Range(offline) \union {hmsg}
      BY <1>0, <2>1, RangeOfAppend DEF QueueType
    <2>3. Range(offline) \subseteq Range(offline') /\ dlq \subseteq dlq'
      BY <1>6, <2>2 DEF Push, HandlerFails
    <2>4. UNCHANGED <<buffer, cpc, pending, received, lost>>
      BY <1>6 DEF Push
    <2> QED
      BY <1>d, <2>3, <2>4
  <1>7. CASE \E ok \in BOOLEAN : MarkQueued(ok)
    BY <1>s, <1>7 DEF MarkQueued
  <1>8. CASE Crash
    BY <1>8, DieKeeps DEF Crash
  <1>9. CASE PresenceExpires
    BY <1>s, <1>9 DEF PresenceExpires
  <1>10. CASE OfflineExpires
    <2>1. Lose(Range(offline), "expired") /\ UNCHANGED <<buffer, cpc, pending, received, dlq>>
      BY <1>10 DEF OfflineExpires
    <2>2. lost \subseteq lost' /\ \A x \in Range(offline) : \E loss \in lost' : loss[1] = x
      BY <2>1, LoseRecords
    <2>3. \A d \in Conns : Held(d)' = Held(d)
      BY <2>1 DEF Held
    <2> QED
      BY <2>1, <2>2, <2>3, HandedOn, SomewhereIf
  <1>11. CASE UNCHANGED vars
    BY <1>s, <1>11 DEF vars
  <1> QED
    BY <1>1, <1>2, <1>3, <1>4, <1>5, <1>6, <1>7, <1>8, <1>9, <1>10, <1>11 DEF Next, ConsumerStep

\* When the handler runs out of tries its message is in the DLQ.
LEMMA HandlerFailsKeeps ==
    ASSUME HandlerFails, NEW m \in Messages, m \in todo, m \notin todo'
    PROVE  m \in dlq'
  BY DEF HandlerFails, Handled

\* The consumer takes a message off its list only when the message is somewhere: in the
\* channel or the queue it was sent to, or in the DLQ.
LEMMA HubKeepsMessages ==
    ASSUME HubInv, [Next]_vars
    PROVE  MessagesAreKept'
  <1>0. QueueType /\ HandlerType /\ HandlerHasMessage /\ MessagesAreKept
    BY DEF HubInv
  <1> SUFFICES ASSUME NEW m \in Messages,
                      m \notin todo' \/ (m = hmsg' /\ hpc' \in {"delivered", "queued"}),
                      m \in todo, ~(m = hmsg /\ hpc \in {"delivered", "queued"})
               PROVE  Somewhere(m)'
    BY <1>0, SomewhereStays DEF MessagesAreKept
  <1>1. ASSUME NEW c \in Conns,
               Register(c) \/ ConnectStep(c) \/ PumpStep(c) \/ ClientGone(c)
        PROVE  UNCHANGED consumer
    BY <1>1 DEF Register, ConnectStep, SetOnline, FlushRange, FlushDel, FlushLookup, FlushSelect,
                ReadEnds, Unregister, DeletePresence, PumpStep, PumpWrites, PumpFails,
                PumpClosed, ClientGone
  <1>2. CASE UNCHANGED <<todo, hpc, hmsg>>
    BY <1>2
  <1>3. CASE \E x \in Messages : Fetch(x)
    BY <1>3 DEF Fetch
  <1>4. CASE HandleLookup
    <2>1. m \notin todo'
      BY <1>4 DEF HandleLookup, HandlerFails, Handled
    <2>2. HandlerFails
      BY <1>4, <2>1 DEF HandleLookup
    <2> QED
      BY <2>1, <2>2, HandlerFailsKeeps DEF Somewhere
  <1>5. CASE HandleSelect
    <2>1. htarget \notin closed
      BY <1>5 DEF HandleSelect, Die
    <2>2. CASE Len(buffer[htarget]) < BufferSize
      <3>1. /\ htarget \in Conns /\ hmsg \in Messages /\ m = hmsg
            /\ buffer' = [buffer EXCEPT ![htarget] = Append(buffer[htarget], hmsg)]
        BY <1>0, <1>5, <2>1, <2>2 DEF HandleSelect, HandlerHasMessage
      <3>2. m \in Range(buffer'[htarget])
        BY <1>0, <3>1, RangeOfAppend DEF QueueType
      <3> QED
        BY <3>1, <3>2 DEF Somewhere
    <2>3. CASE ~(Len(buffer[htarget]) < BufferSize)
      <3>1. m \notin todo'
        BY <1>5, <2>1, <2>3 DEF HandleSelect, HandlerFails, Handled
      <3>2. HandlerFails
        BY <1>5, <2>1, <2>3, <3>1 DEF HandleSelect
      <3> QED
        BY <3>1, <3>2, HandlerFailsKeeps DEF Somewhere
    <2> QED
      BY <2>2, <2>3
  <1>6. CASE \E ok \in BOOLEAN : MarkDelivered(ok) \/ MarkQueued(ok)
    BY <1>6 DEF MarkDelivered, MarkQueued, Handled
  <1>7. CASE \E took, ok \in BOOLEAN : Push(took, ok)
    <2>1. PICK took, ok \in BOOLEAN : Push(took, ok)
      BY <1>7
    <2>2. CASE ok
      <3>1. m = hmsg /\ took /\ offline' = Append(offline, hmsg)
        BY <2>1, <2>2 DEF Push
      <3>2. m \in Range(offline')
        BY <1>0, <3>1, RangeOfAppend DEF QueueType
      <3> QED
        BY <3>2 DEF Somewhere
    <2>3. CASE ~ok
      <3>1. HandlerFails
        BY <2>1, <2>3 DEF Push
      <3>2. m \notin todo'
        BY <3>1 DEF HandlerFails, Handled
      <3> QED
        BY <3>1, <3>2, HandlerFailsKeeps DEF Somewhere
    <2> QED
      BY <2>2, <2>3
  <1>8. CASE Crash
    BY <1>8 DEF Crash, Die
  <1>9. CASE PresenceExpires \/ OfflineExpires
    BY <1>9, <1>2 DEF PresenceExpires, OfflineExpires, consumer
  <1>10. CASE UNCHANGED vars
    BY <1>10, <1>2 DEF vars, consumer
  <1>11. ASSUME UNCHANGED consumer PROVE Somewhere(m)'
    BY <1>11, <1>2 DEF consumer
  <1> QED
    BY <1>1, <1>3, <1>4, <1>5, <1>6, <1>7, <1>8, <1>9, <1>10, <1>11 DEF Next, ConsumerStep

-----------------------------------------------------------------------------

\* The invariant is inductive.
LEMMA NextHubInv == HubInv /\ [Next]_vars => HubInv'
  <1> SUFFICES ASSUME HubInv, [Next]_vars PROVE HubInv'
    OBVIOUS
  <1> QED
    BY HubKeepsConns, HubKeepsQueues, HubKeepsHandler, HubKeepsFlags, HubKeepsWire,
       HubKeepsMap, HubKeepsTargets, HubKeepsPresence, HubKeepsMessages DEF HubInv

\* It holds initially, and every step of every goroutine keeps it.
LEMMA AlwaysHubInv == Spec => []HubInv
  <1> QED
    BY InitHubInv, NextHubInv, PTL DEF Spec

\* Every variable keeps its type; in particular no channel holds more than its buffer.
THEOREM HubTypeCorrect == Spec => []TypeOK
  <1>1. HubInv => TypeOK
    BY DEF HubInv, ConnType, QueueType, HandlerType, FlagType, TypeOK
  <1> QED
    BY <1>1, AlwaysHubInv, PTL

\* However registers and late unregisters interleave, SendToUser finds the connection
\* that registered last, as long as it has not unregistered.
THEOREM HubReachesLatest == Spec => []HubHoldsLatest
  <1>1. HubInv => HubHoldsLatest
    BY DEF HubInv
  <1> QED
    BY <1>1, AlwaysHubInv, PTL

\* register never closes a channel twice.
THEOREM HubEntryIsOpen == Spec => []EntryIsOpen
  <1>1. HubInv => EntryIsOpen
    BY DEF HubInv
  <1> QED
    BY <1>1, AlwaysHubInv, PTL

\* A connection that is attached and not in the map has its channel closed, and a
\* writePump that has returned has closed its socket.
THEOREM HubTellsSuperseded == Spec => []SupersededIsTold
  <1>1. HubInv => SupersededIsTold
    BY DEF HubInv, OthersAreClosed, ExitedIsClosed, SupersededIsTold, Attached
  <1> QED
    BY <1>1, AlwaysHubInv, PTL

\* Without faults and panics some Connect is still there to delete the presence key.
THEOREM HubNoGhostPresence == Spec => []NoGhostPresence
  <1>1. HubInv => NoGhostPresence
    BY DEF HubInv
  <1> QED
    BY <1>1, AlwaysHubInv, PTL

\* A message the in-app consumer is done with reached the user, waits for them, is in
\* the DLQ, or its loss has one of the causes of "lost".
THEOREM HubMessagesAreSomewhere == Spec => []MessagesAreSomewhere
  <1>1. HubInv => MessagesAreSomewhere
    <2> SUFFICES ASSUME HubInv, NEW m \in Messages \ todo, Somewhere(m)
                 PROVE  \/ m \in received \union dlq \union Range(offline)
                        \/ \E c \in Conns : m \in Range(pending[c]) \union Range(buffer[c])
                        \/ \E loss \in lost : loss[1] = m
      BY DEF HubInv, MessagesAreKept, MessagesAreSomewhere
    <2> QED
      BY DEF Somewhere, Held
  <1> QED
    BY <1>1, AlwaysHubInv, PTL
=============================================================================
