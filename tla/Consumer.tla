------------------------------ MODULE Consumer ------------------------------
(***************************************************************************)
(* The Kafka consumer loop shared by every channel and by the dead-letter  *)
(* queue (backend/internal/kafka/consumers/consumer.go): fetch a message,  *)
(* run the handler up to MaxRetries times, hand the message to the DLQ     *)
(* topic when every attempt failed, and commit the offset.                 *)
(*                                                                         *)
(* A partition is an append-only log.  Offsets are numbered from 1, so     *)
(* committed[p] is both the number of messages the group has committed and *)
(* the last offset that a restarted consumer will not see again.  What     *)
(* became of each position is kept in the history variable fates; the code *)
(* has no such record, which is why its loss is hard to notice.            *)
(***************************************************************************)
EXTENDS Naturals, Sequences

CONSTANTS
    Partitions,      \* partitions of the consumer's topic
    Messages,        \* values a producer may append
    Malformed,       \* the ones json.Unmarshal rejects
    HasProducer,     \* FALSE for the DLQ consumer, whose producer is nil
    MaxRetries,      \* maxRetries
    MaxLen,          \* bound: messages per partition
    MaxDisruptions   \* bound: crashes, shutdowns and rebalances

ASSUME ConsumerAssumption ==
    /\ Partitions # {}
    /\ Malformed \subseteq Messages
    /\ HasProducer \in BOOLEAN
    /\ MaxRetries \in Nat \ {0}
    /\ MaxLen \in Nat
    /\ MaxDisruptions \in Nat

VARIABLES
    log,          \* log[p]: the messages appended to partition p (broker)
    committed,    \* committed[p]: last committed offset (broker)
    pos,          \* pos[p]: last offset the reader handed out (memory)
    pc,           \* where Run / handleWithRetry is
    cur,          \* <<partition, offset>> of the message in hand
    attempt,      \* attempt, the loop counter of handleWithRetry
    ctxDone,      \* ctx.Err() # nil: shutdown has begun
    disruptions,  \* crashes, shutdowns and rebalances so far
    fates         \* history: what became of each position

loopVars == <<committed, pos, pc, cur, attempt, ctxDone, disruptions, fates>>
vars == <<log, loopVars>>

-----------------------------------------------------------------------------

Position == Partitions \X Nat

\* What handleWithRetry made of a position, once it returned:
\*   handled    the handler returned nil
\*   dlq        the message reached the DLQ topic
\*   malformed  it could not be decoded and was skipped
\*   dropped    the DLQ consumer gave up on it
\*   unhandled  retries and the DLQ publish failed, and the loop went on
Fates == {"handled", "dlq", "malformed", "dropped", "unhandled"}

SafeFates == Fates \ {"unhandled"}

PCs == {"fetch", "fetchWait", "handle", "backoff", "publish", "commit", "stopped"}

\* The message in hand is between FetchMessage and the end of the iteration.
Busy == pc \in {"handle", "backoff", "publish", "commit"}

\* No message in hand.
NoMessage == <<CHOOSE p \in Partitions : TRUE, 0>>

HasFate(p, o) == \E f \in Fates : <<<<p, o>>, f>> \in fates

Become(f) == fates' = fates \cup {<<cur, f>>}

-----------------------------------------------------------------------------

Init ==
    /\ log = [p \in Partitions |-> <<>>]
    /\ committed = [p \in Partitions |-> 0]
    /\ pos = [p \in Partitions |-> 0]
    /\ pc = "fetch"
    /\ cur = NoMessage
    /\ attempt = 1
    /\ ctxDone = FALSE
    /\ disruptions = 0
    /\ fates = {}

\* External: some producer appends to the topic.
Append1(p, m) ==
    /\ Len(log[p]) < MaxLen
    /\ log' = [log EXCEPT ![p] = Append(@, m)]
    /\ UNCHANGED loopVars

\* FetchMessage returns the next message of partition p; a message that does
\* not decode goes straight to the commit.
Fetch(p) ==
    /\ pc = "fetch"
    /\ pos[p] < Len(log[p])
    /\ pos' = [pos EXCEPT ![p] = @ + 1]
    /\ cur' = <<p, pos[p] + 1>>
    /\ attempt' = 1
    /\ IF log[p][pos[p] + 1] \in Malformed
       THEN /\ pc' = "commit"
            /\ fates' = fates \cup {<<<<p, pos[p] + 1>>, "malformed">>}
       ELSE /\ pc' = "handle"
            /\ UNCHANGED fates
    /\ UNCHANGED <<committed, ctxDone, disruptions>>

\* A slip to guard against: the loop retries the fetch without looking at ctx.
FetchFailsForever ==
    /\ pc = "fetch"
    /\ pc' = "fetchWait"
    /\ UNCHANGED <<committed, pos, cur, attempt, ctxDone, disruptions, fates>>

\* FetchMessage returns an error: the loop ends on shutdown, otherwise it
\* waits fetchErrorBackoff.
FetchFails ==
    /\ pc = "fetch"
    /\ pc' = IF ctxDone THEN "stopped" ELSE "fetchWait"
    /\ UNCHANGED <<committed, pos, cur, attempt, ctxDone, disruptions, fates>>

\* The wait after a failed fetch ends, by time or by shutdown.
FetchWaitEnds ==
    /\ pc = "fetchWait"
    /\ \/ pc' = "fetch"
       \/ ctxDone /\ pc' = "stopped"
    /\ UNCHANGED <<committed, pos, cur, attempt, ctxDone, disruptions, fates>>

\* A slip to guard against: "<=" for "<" in the test for another retry.
HandlerReturnsOffByOne(ok) ==
    /\ pc = "handle"
    /\ \/ ok /\ pc' = "commit" /\ Become("handled")
       \/ ~ok /\ attempt <= MaxRetries /\ pc' = "backoff" /\ UNCHANGED fates
       \/ ~ok /\ attempt > MaxRetries /\ pc' = "publish" /\ UNCHANGED fates
    /\ UNCHANGED <<committed, pos, cur, attempt, ctxDone, disruptions>>

\* The handler returns nil (ok) or an error.  The last error leads to the DLQ
\* publish, or, without a producer, to dropping the message.
HandlerReturns(ok) ==
    /\ pc = "handle"
    /\ \/ /\ ok
          /\ pc' = "commit"
          /\ Become("handled")
       \/ /\ ~ok
          /\ attempt < MaxRetries
          /\ pc' = "backoff"
          /\ UNCHANGED fates
       \/ /\ ~ok
          /\ attempt = MaxRetries
          /\ HasProducer
          /\ pc' = "publish"
          /\ UNCHANGED fates
       \/ /\ ~ok
          /\ attempt = MaxRetries
          /\ ~HasProducer
          /\ pc' = "commit"
          /\ Become("dropped")
    /\ UNCHANGED <<committed, pos, cur, attempt, ctxDone, disruptions>>

\* A slip to guard against: a retry cut short by shutdown reports success.
BackoffEndsCommits ==
    /\ pc = "backoff"
    /\ \/ pc' = "handle" /\ attempt' = attempt + 1
       \/ ctxDone /\ pc' = "commit" /\ UNCHANGED attempt
    /\ UNCHANGED <<committed, pos, cur, ctxDone, disruptions, fates>>

\* The select between retryBackoff and ctx.Done(): retry, or return false,
\* on which Run returns without committing.
BackoffEnds ==
    /\ pc = "backoff"
    /\ \/ /\ pc' = "handle"
          /\ attempt' = attempt + 1
          /\ UNCHANGED cur
       \/ /\ ctxDone
          /\ pc' = "stopped"
          /\ cur' = NoMessage
          /\ UNCHANGED attempt
    /\ UNCHANGED <<committed, pos, ctxDone, disruptions, fates>>

\* A slip to guard against: the offset is committed although the DLQ publish
\* failed, as the loop once did.
PublishDLQCommits(appended, ok) ==
    /\ pc = "publish"
    /\ ok => appended
    /\ pc' = "commit"
    /\ fates' = fates \cup (IF appended THEN {<<cur, "dlq">>} ELSE {})
    /\ UNCHANGED <<committed, pos, cur, attempt, ctxDone, disruptions>>

\* producer.Publish(TopicDLQ).  appended: the broker stored the message;
\* ok: the call returned nil.  A lost acknowledgement is appended without ok.
\* On an error Run returns if shutdown has begun and otherwise continues with
\* the next message, leaving this offset uncommitted.
PublishDLQ(appended, ok) ==
    /\ pc = "publish"
    /\ ok => appended
    /\ pc' = IF ok THEN "commit" ELSE IF ctxDone THEN "stopped" ELSE "fetch"
    /\ cur' = IF ok THEN cur ELSE NoMessage
    /\ fates' = fates
         \cup (IF appended THEN {<<cur, "dlq">>} ELSE {})
         \cup (IF ~ok /\ ~ctxDone THEN {<<cur, "unhandled">>} ELSE {})
    /\ UNCHANGED <<committed, pos, attempt, ctxDone, disruptions>>

\* reader.CommitMessages.  stored: the group coordinator recorded the offset;
\* ok: the call returned nil.  A failed commit is logged and the loop goes on.
CommitMessages(stored, ok) ==
    /\ pc = "commit"
    /\ ok => stored
    /\ committed' = IF stored THEN [committed EXCEPT ![cur[1]] = cur[2]]
                              ELSE committed
    /\ pc' = IF ~ok /\ ctxDone THEN "stopped" ELSE "fetch"
    /\ cur' = NoMessage
    /\ UNCHANGED <<pos, attempt, ctxDone, disruptions, fates>>

Disrupt ==
    /\ disruptions < MaxDisruptions
    /\ disruptions' = disruptions + 1

\* main's cancelBg() on SIGTERM.
Cancel ==
    /\ Disrupt
    /\ pc # "stopped"
    /\ ~ctxDone
    /\ ctxDone' = TRUE
    /\ UNCHANGED <<committed, pos, pc, cur, attempt, fates>>

\* The process dies: everything in memory is gone.
Crash ==
    /\ Disrupt
    /\ pc # "stopped"
    /\ pc' = "stopped"
    /\ cur' = NoMessage
    /\ UNCHANGED <<committed, pos, attempt, ctxDone, fates>>

\* Slips to guard against: the reader goes on from where it was, not from the
\* committed offsets; or the group's offsets are forgotten.
RestartFromMemory ==
    /\ pc = "stopped"
    /\ pc' = "fetch"
    /\ attempt' = 1
    /\ ctxDone' = FALSE
    /\ UNCHANGED <<committed, pos, cur, disruptions, fates>>

RestartForgetsOffsets ==
    /\ pc = "stopped"
    /\ pc' = "fetch"
    /\ committed' = [p \in Partitions |-> 0]
    /\ pos' = [p \in Partitions |-> 0]
    /\ attempt' = 1
    /\ ctxDone' = FALSE
    /\ UNCHANGED <<cur, disruptions, fates>>

\* A new process resumes from the committed offsets.
Restart ==
    /\ pc = "stopped"
    /\ pc' = "fetch"
    /\ pos' = committed
    /\ attempt' = 1
    /\ ctxDone' = FALSE
    /\ UNCHANGED <<committed, cur, disruptions, fates>>

\* External: the group rebalances and the reader re-reads its partitions from
\* the committed offsets, whatever message the loop has in hand.
Rebalance ==
    /\ Disrupt
    /\ pc # "stopped"
    /\ pos' = committed
    /\ UNCHANGED <<committed, pc, cur, attempt, ctxDone, fates>>

Step ==
    \/ \E p \in Partitions : Fetch(p)
    \/ FetchFails
    \/ FetchWaitEnds
    \/ \E ok \in BOOLEAN : HandlerReturns(ok)
    \/ BackoffEnds
    \/ \E appended, ok \in BOOLEAN : PublishDLQ(appended, ok)
    \/ \E stored, ok \in BOOLEAN : CommitMessages(stored, ok)
    \/ Cancel
    \/ Crash
    \/ Restart
    \/ Rebalance

Next ==
    \/ \E p \in Partitions, m \in Messages : Append1(p, m)
    \/ Step /\ UNCHANGED log

Spec == Init /\ [][Next]_vars

\* The goroutine keeps running and every call it makes returns (clients have
\* timeouts); the broker is reachable again and again (strong fairness of
\* Fetch); after cancelBg the select inside FetchMessage eventually picks
\* ctx.Done(); the host restarts a stopped process.
Fairness ==
    /\ \A p \in Partitions : SF_vars(Fetch(p) /\ UNCHANGED log)
    /\ SF_vars(FetchFails /\ ctxDone /\ UNCHANGED log)
    /\ WF_vars(FetchWaitEnds /\ UNCHANGED log)
    /\ WF_vars((\E ok \in BOOLEAN : HandlerReturns(ok)) /\ UNCHANGED log)
    /\ WF_vars(BackoffEnds /\ UNCHANGED log)
    /\ WF_vars((\E a, ok \in BOOLEAN : PublishDLQ(a, ok)) /\ UNCHANGED log)
    /\ WF_vars((\E s, ok \in BOOLEAN : CommitMessages(s, ok)) /\ UNCHANGED log)
    /\ WF_vars(Restart /\ UNCHANGED log)

FairSpec == Spec /\ Fairness

-----------------------------------------------------------------------------

\* Every variable of the loop and of the broker has its type, and positions
\* stay inside the log.
TypeOK ==
    /\ log \in [Partitions -> Seq(Messages)]
    /\ committed \in [Partitions -> Nat]
    /\ pos \in [Partitions -> Nat]
    /\ pc \in PCs
    /\ cur \in Position
    /\ attempt \in 1..MaxRetries
    /\ ctxDone \in BOOLEAN
    /\ disruptions \in 0..MaxDisruptions
    /\ fates \subseteq Position \X Fates
    /\ \A p \in Partitions :
          /\ committed[p] <= Len(log[p])
          /\ pos[p] <= Len(log[p])

\* Whatever crashes, shutdowns, rebalances, failed commits and failed fetches
\* happen, the committed offset of a partition never passes a message on which
\* handleWithRetry did not finish: the only way past a message that is neither
\* handled, in the DLQ, malformed nor dropped is the "continue" after a failed
\* DLQ publish.
CommitCovers ==
    \A p \in Partitions : \A o \in 1..committed[p] : HasFate(p, o)

\* The claim of Run's comment, "Only commit when the message was either handled
\* successfully or safely handed off to the DLQ": no committed offset covers a
\* message that is recorded nowhere.
CommittedIsRecorded ==
    \A p \in Partitions : \A o \in 1..committed[p] :
        \E f \in SafeFates : <<<<p, o>>, f>> \in fates

\* Every message that reaches the topic is eventually decided by
\* handleWithRetry, through any number of failed fetches and retries and
\* across restarts.
EveryMessageDecided ==
    \A p \in Partitions, o \in 1..MaxLen :
        (o <= Len(log[p])) ~> HasFate(p, o)

\* The loop implements the contract of OffsetContract: it decides positions that
\* exist and commits an offset only when everything up to it is decided.
Contract == INSTANCE OffsetContract WITH
    length <- [p \in Partitions |-> Len(log[p])]

HonoursContract == Contract!Spec

\* After cancelBg the loop returns, so that bgWg.Wait() in main returns.
ShutdownStops == ctxDone ~> (pc = "stopped")
=============================================================================
