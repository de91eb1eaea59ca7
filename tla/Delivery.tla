------------------------------ MODULE Delivery ------------------------------
(***************************************************************************)
(* A notification from POST /notifications to its last status row:         *)
(* createAndQueue (backend/internal/api/handlers/notification.go) writes   *)
(* the rows and publishes inside one transaction; a channel consumer       *)
(* (consumers/email.go, push.go, sms.go) calls the provider and marks the  *)
(* delivery; the DLQ consumer (consumers/dlq.go) records what failed.      *)
(*                                                                         *)
(* Chan and Dead are two instances of the consumer loop of Consumer, over  *)
(* the channel topic and the DLQ topic.  Their handler's return is one of  *)
(* the loop's steps; what the handler does before it is spelled out here.  *)
(* A notification stands for one execution of createAndQueue.              *)
(***************************************************************************)
EXTENDS Naturals, Sequences, FiniteSets

CONSTANTS
    Notifications,
    MaxRetries,
    DBFails,         \* a statement on Postgres may fail
    MaxCopies,       \* bound: copies of a message the writer's retries append
    MaxLen,          \* bound: messages per topic
    MaxDisruptions   \* bound: crashes, shutdowns and rebalances

ASSUME DeliveryAssumption ==
    /\ DBFails \in BOOLEAN
    /\ MaxCopies \in Nat \ {0}
    /\ MaxRetries \in Nat \ {0}
    /\ MaxLen \in Nat
    /\ MaxDisruptions \in Nat

VARIABLES
    tx,          \* progress of createAndQueue's transaction
    nstatus,     \* notifications.status (seen once tx is committed)
    dstatus,     \* notification_deliveries.status
    attempts,    \* notification_deliveries.attempts
    dlqRows,     \* rows of dlq_messages, by notification
    accepted,    \* history: times the provider accepted the notification
    topic, cCommitted, cPos, cPc, cCur, cAttempt, cFates,  \* channel consumer
    cStep,       \* statement the channel handler is at
    dlq, dCommitted, dPos, dPc, dCur, dAttempt, dFates,    \* DLQ consumer
    dStep,       \* statement the DLQ handler is at
    ctxDone,     \* main has called cancelBg
    disruptions

rows == <<nstatus, dstatus, attempts, dlqRows>>
cLoop == <<cCommitted, cPos, cPc, cCur, cAttempt, cFates>>
dLoop == <<dCommitted, dPos, dPc, dCur, dAttempt, dFates>>
process == <<ctxDone, disruptions>>
vars == <<tx, rows, accepted, topic, cLoop, cStep, dlq, dLoop, dStep, process>>

Chan == INSTANCE Consumer WITH
    Partitions <- {"p"}, Messages <- Notifications, Malformed <- {}, HasProducer <- TRUE,
    log <- topic, committed <- cCommitted, pos <- cPos, pc <- cPc, cur <- cCur,
    attempt <- cAttempt, fates <- cFates

Dead == INSTANCE Consumer WITH
    Partitions <- {"p"}, Messages <- Notifications, Malformed <- {}, HasProducer <- FALSE,
    log <- dlq, committed <- dCommitted, pos <- dPos, pc <- dPc, cur <- dCur,
    attempt <- dAttempt, fates <- dFates

-----------------------------------------------------------------------------

Statuses == {"pending", "delivered", "failed"}

\* The rows of n exist for other connections.
Visible(n) == tx[n] = "committed"

\* The message each consumer has in hand.
cMsg == topic["p"][cCur[2]]
dMsg == dlq["p"][dCur[2]]

\* log with k copies of n appended.
With(log, n, k) == [log EXCEPT !["p"] = @ \o [i \in 1..k |-> n]]

Fits(log, k) == Len(log["p"]) + k <= MaxLen

\* Counting goes no further than "more than once".
Bump(count) == IF count < 2 THEN count + 1 ELSE count

\* Some loop of the process still runs.
Running == ~(cPc = "stopped" /\ dPc = "stopped")

\* Postgres rolls back what a dead connection had not committed.
RollBackOpen ==
    tx' = [n \in Notifications |->
             IF tx[n] \in {"inserted", "published"} THEN "rolledBack" ELSE tx[n]]

\* Occurrences of n in a topic.
Copies(log, n) == Cardinality({o \in 1..Len(log["p"]) : log["p"][o] = n})

Init ==
    /\ tx = [n \in Notifications |-> "none"]
    /\ nstatus = [n \in Notifications |-> "pending"]
    /\ dstatus = [n \in Notifications |-> "pending"]
    /\ attempts = [n \in Notifications |-> 0]
    /\ dlqRows = [n \in Notifications |-> 0]
    /\ accepted = [n \in Notifications |-> 0]
    /\ Chan!Init
    /\ Dead!Init
    /\ cStep = "send"
    /\ dStep = "create"

-----------------------------------------------------------------------------
\* createAndQueue, with publish = true.

\* Begin and the two INSERTs.  (If one fails, nothing has happened.)
Insert(n) ==
    /\ tx[n] = "none"
    /\ Running
    /\ tx' = [tx EXCEPT ![n] = "inserted"]
    /\ UNCHANGED <<rows, accepted, topic, cLoop, cStep, dlq, dLoop, dStep, process>>

\* Producer.Publish: k copies are appended; ok: it returned nil.  An error
\* rolls the transaction back, whatever reached the topic.
Publish(n, k, ok) ==
    /\ tx[n] = "inserted"
    /\ ok => k > 0
    /\ Fits(topic, k)
    /\ topic' = With(topic, n, k)
    /\ tx' = [tx EXCEPT ![n] = IF ok THEN "published" ELSE "rolledBack"]
    /\ UNCHANGED <<rows, accepted, cLoop, cStep, dlq, dLoop, dStep, process>>

\* tx.Commit: the rows become visible, or the transaction is rolled back.
Commit(n) ==
    /\ tx[n] = "published"
    /\ tx' = [tx EXCEPT ![n] = "committed"]
    /\ UNCHANGED <<rows, accepted, topic, cLoop, cStep, dlq, dLoop, dStep, process>>

CommitFails(n) ==
    /\ DBFails
    /\ tx[n] = "published"
    /\ tx' = [tx EXCEPT ![n] = "rolledBack"]
    /\ UNCHANGED <<rows, accepted, topic, cLoop, cStep, dlq, dLoop, dStep, process>>

-----------------------------------------------------------------------------
\* The channel handler: client.Send, then deliveries.UpdateStatus.

\* A slip to guard against: attempts is updated on every failed try.
SendCountsRetries(took, ok) ==
    /\ cPc = "handle"
    /\ cStep = "send"
    /\ ok => took
    /\ accepted' = IF took THEN [accepted EXCEPT ![cMsg] = Bump(@)] ELSE accepted
    /\ IF ok THEN cStep' = "mark" /\ UNCHANGED <<cLoop, process, attempts>>
             ELSE /\ Chan!HandlerReturns(FALSE)
                  /\ attempts' = [attempts EXCEPT ![cMsg] = @ + 1]
                  /\ UNCHANGED cStep
    /\ UNCHANGED <<tx, nstatus, dstatus, dlqRows, topic, dlq, dLoop, dStep>>

\* client.Send: took: the provider accepted the notification; ok: the call
\* returned nil.  On an error the handler returns it.
Send(took, ok) ==
    /\ cPc = "handle"
    /\ cStep = "send"
    /\ ok => took
    /\ accepted' = IF took THEN [accepted EXCEPT ![cMsg] = Bump(@)] ELSE accepted
    /\ IF ok THEN cStep' = "mark" /\ UNCHANGED <<cLoop, process>>
             ELSE Chan!HandlerReturns(FALSE) /\ UNCHANGED cStep
    /\ UNCHANGED <<tx, rows, topic, dlq, dLoop, dStep>>

\* NotificationDeliveryRepository.UpdateStatus on the row of n: sets the status
\* and adds one to attempts; no row, or a failed statement, changes nothing.
UpdateDelivery(n, status) ==
    \/ /\ Visible(n)
       /\ dstatus' = [dstatus EXCEPT ![n] = status]
       /\ attempts' = [attempts EXCEPT ![n] = @ + 1]
    \/ /\ DBFails \/ ~Visible(n)
       /\ UNCHANGED <<dstatus, attempts>>

\* deliveries.UpdateStatus(delivered), whose error is only logged; the handler
\* returns nil.
MarkDelivered ==
    /\ cPc = "handle"
    /\ cStep = "mark"
    /\ UpdateDelivery(cMsg, "delivered")
    /\ cStep' = "send"
    /\ Chan!HandlerReturns(TRUE)
    /\ UNCHANGED <<tx, nstatus, dlqRows, accepted, topic, dlq, dLoop, dStep>>

\* The loop's own steps around the handler.
ChannelLoop ==
    /\ \/ Chan!Fetch("p")
       \/ Chan!FetchFails
       \/ Chan!FetchWaitEnds
       \/ Chan!BackoffEnds
       \/ \E stored, ok \in BOOLEAN : Chan!CommitMessages(stored, ok)
    /\ UNCHANGED <<tx, rows, accepted, topic, cStep, dlq, dLoop, dStep>>

\* The loop's publish to the DLQ topic, of k copies.
PublishDLQ(k, ok) ==
    /\ Fits(dlq, k)
    /\ Chan!PublishDLQ(k > 0, ok)
    /\ dlq' = With(dlq, cMsg, k)
    /\ UNCHANGED <<tx, rows, accepted, topic, cStep, dLoop, dStep>>

-----------------------------------------------------------------------------
\* The DLQ handler: dlqRepo.Create, then the two status updates.

\* A slip to guard against: a failed INSERT is only logged, like the updates.
CreateDLQRowIgnoresError ==
    /\ dPc = "handle"
    /\ dStep = "create"
    /\ \/ Visible(dMsg) /\ dlqRows' = [dlqRows EXCEPT ![dMsg] = Bump(@)]
       \/ (DBFails \/ ~Visible(dMsg)) /\ UNCHANGED dlqRows
    /\ dStep' = "delivery"
    /\ UNCHANGED <<tx, nstatus, dstatus, attempts, accepted, topic, cLoop, cStep, dlq, dLoop,
                   process>>

\* The INSERT needs the notification's row (foreign key).
CreateDLQRow ==
    /\ dPc = "handle"
    /\ dStep = "create"
    /\ \/ /\ Visible(dMsg)
          /\ dlqRows' = [dlqRows EXCEPT ![dMsg] = Bump(@)]
          /\ dStep' = "delivery"
          /\ UNCHANGED <<dLoop, process>>
       \/ /\ DBFails \/ ~Visible(dMsg)
          /\ Dead!HandlerReturns(FALSE)
          /\ UNCHANGED <<dlqRows, dStep>>
    /\ UNCHANGED <<tx, nstatus, dstatus, attempts, accepted, topic, cLoop, cStep, dlq>>

\* deliveries.UpdateStatus(failed), whose error is only logged.
MarkDeliveryFailed ==
    /\ dPc = "handle"
    /\ dStep = "delivery"
    /\ UpdateDelivery(dMsg, "failed")
    /\ dStep' = "notification"
    /\ UNCHANGED <<tx, nstatus, dlqRows, accepted, topic, cLoop, cStep, dlq, dLoop, process>>

\* notifications.UpdateStatus(failed), whose error is only logged; the handler
\* returns nil.
MarkNotificationFailed ==
    /\ dPc = "handle"
    /\ dStep = "notification"
    /\ \/ Visible(dMsg) /\ nstatus' = [nstatus EXCEPT ![dMsg] = "failed"]
       \/ (DBFails \/ ~Visible(dMsg)) /\ UNCHANGED nstatus
    /\ dStep' = "create"
    /\ Dead!HandlerReturns(TRUE)
    /\ UNCHANGED <<tx, dstatus, attempts, dlqRows, accepted, topic, cLoop, cStep, dlq>>

DLQLoop ==
    /\ \/ Dead!Fetch("p")
       \/ Dead!FetchFails
       \/ Dead!FetchWaitEnds
       \/ Dead!BackoffEnds
       \/ \E stored, ok \in BOOLEAN : Dead!CommitMessages(stored, ok)
    /\ UNCHANGED <<tx, rows, accepted, topic, cLoop, cStep, dlq, dStep>>

-----------------------------------------------------------------------------
\* The process around them.

\* SIGTERM: cancelBg ends both loops.
Shutdown ==
    /\ Chan!Disrupt
    /\ ~ctxDone
    /\ Running
    /\ ctxDone' = TRUE
    /\ UNCHANGED <<tx, rows, accepted, topic, cLoop, cStep, dlq, dLoop, dStep>>

\* The process dies.
Crash ==
    /\ Chan!Disrupt
    /\ Running
    /\ cPc' = "stopped" /\ dPc' = "stopped"
    /\ cCur' = Chan!NoMessage /\ dCur' = Dead!NoMessage
    /\ cStep' = "send" /\ dStep' = "create"
    /\ RollBackOpen
    /\ UNCHANGED <<rows, accepted, topic, cCommitted, cPos, cAttempt, cFates,
                   dlq, dCommitted, dPos, dAttempt, dFates, ctxDone>>

\* Both loops have ended; the process exits and a new one starts.
Restart ==
    /\ Chan!Restart
    /\ Dead!Restart
    /\ RollBackOpen
    /\ UNCHANGED <<rows, accepted, topic, cStep, dlq, dStep>>

\* The channel topic's consumer group rebalances.
Rebalance ==
    /\ Chan!Rebalance
    /\ UNCHANGED <<tx, rows, accepted, topic, cStep, dlq, dLoop, dStep>>

Next ==
    \/ \E n \in Notifications :
          \/ Insert(n)
          \/ \E k \in 0..MaxCopies, ok \in BOOLEAN : Publish(n, k, ok)
          \/ Commit(n)
          \/ CommitFails(n)
    \/ \E took, ok \in BOOLEAN : Send(took, ok)
    \/ MarkDelivered
    \/ ChannelLoop
    \/ \E k \in 0..MaxCopies, ok \in BOOLEAN : PublishDLQ(k, ok)
    \/ CreateDLQRow
    \/ MarkDeliveryFailed
    \/ MarkNotificationFailed
    \/ DLQLoop
    \/ Shutdown
    \/ Crash
    \/ Restart
    \/ Rebalance

Spec == Init /\ [][Next]_vars

\* The fairness of Consumer, for both loops, with the handlers' statements in
\* the place of their return.
FetchFrom(loop) ==
    /\ \/ loop = "channel" /\ Chan!Fetch("p") /\ UNCHANGED dLoop
       \/ loop = "dlq" /\ Dead!Fetch("p") /\ UNCHANGED cLoop
    /\ UNCHANGED <<tx, rows, accepted, topic, cStep, dlq, dStep>>

StopFetching(loop) ==
    /\ ctxDone
    /\ \/ loop = "channel" /\ Chan!FetchFails /\ UNCHANGED dLoop
       \/ loop = "dlq" /\ Dead!FetchFails /\ UNCHANGED cLoop
    /\ UNCHANGED <<tx, rows, accepted, topic, cStep, dlq, dStep>>

Fairness ==
    /\ \A loop \in {"channel", "dlq"} :
          SF_vars(FetchFrom(loop)) /\ SF_vars(StopFetching(loop))
    /\ WF_vars(ChannelLoop /\ cPc # "fetch")
    /\ WF_vars(\E took, ok \in BOOLEAN : Send(took, ok))
    /\ WF_vars(MarkDelivered)
    /\ WF_vars(\E k \in 0..MaxCopies, ok \in BOOLEAN : PublishDLQ(k, ok))
    /\ WF_vars(DLQLoop /\ dPc # "fetch")
    /\ WF_vars(CreateDLQRow)
    /\ WF_vars(MarkDeliveryFailed)
    /\ WF_vars(MarkNotificationFailed)
    /\ WF_vars(Restart)

FairSpec == Spec /\ Fairness

-----------------------------------------------------------------------------

\* Every variable has its type.
TypeOK ==
    /\ tx \in [Notifications -> {"none", "inserted", "published", "committed", "rolledBack"}]
    /\ nstatus \in [Notifications -> Statuses]
    /\ dstatus \in [Notifications -> Statuses]
    /\ attempts \in [Notifications -> Nat]
    /\ dlqRows \in [Notifications -> 0..2]
    /\ accepted \in [Notifications -> 0..2]
    /\ cStep \in {"send", "mark"}
    /\ dStep \in {"create", "delivery", "notification"}
    /\ Chan!TypeOK
    /\ Dead!TypeOK

\* A row says "delivered" only for a notification the provider accepted, and
\* "failed", on the delivery or on the notification, only if dlq_messages has a
\* row for it: no interleaving of the two consumers, of redeliveries and of the
\* transaction makes a status lie about what happened.
StatusIsEarned ==
    \A n \in Notifications :
        /\ dstatus[n] = "delivered" => accepted[n] > 0
        /\ dstatus[n] = "failed" \/ nstatus[n] = "failed" => dlqRows[n] > 0

\* A message whose offset is committed was accepted by the provider or is on
\* the DLQ topic, and one committed on the DLQ topic has its row in
\* dlq_messages; the exceptions are the DLQ publish that failed ("unhandled")
\* and the DLQ handler that failed MaxRetries times ("dropped").
NothingVanishes ==
    /\ \A o \in 1..cCommitted["p"] :
          \/ accepted[topic["p"][o]] > 0
          \/ Copies(dlq, topic["p"][o]) > 0
          \/ <<<<"p", o>>, "unhandled">> \in cFates
    /\ \A o \in 1..dCommitted["p"] :
          \/ dlqRows[dlq["p"][o]] > 0
          \/ <<<<"p", o>>, "dropped">> \in dFates

\* notification_deliveries.attempts counts Kafka-level outcomes, not retries:
\* at most one for each copy of the message on the two topics and for each time
\* the copies are read again after a crash, shutdown or rebalance.
AttemptsCountOutcomes ==
    \A n \in Notifications :
        attempts[n] <= (disruptions + 1) * (Copies(topic, n) + Copies(dlq, n))

\* "Zero event loss", as far as the code keeps it: every notification that
\* reaches the topic, whether or not its transaction commits, is eventually
\* accepted by the provider or recorded in dlq_messages, unless the DLQ publish
\* fails or the DLQ handler gives the message up.
PublishedIsSettled ==
    \A n \in Notifications :
        Copies(topic, n) > 0 ~>
            \/ accepted[n] > 0
            \/ dlqRows[n] > 0
            \/ \E o \in 1..Len(topic["p"]) :
                  topic["p"][o] = n /\ <<<<"p", o>>, "unhandled">> \in cFates
            \/ \E o \in 1..Len(dlq["p"]) :
                  dlq["p"][o] = n /\ <<<<"p", o>>, "dropped">> \in dFates

\* "delivered: Successful transmission confirmed by the third-party channel
\* provider": once the offset of an accepted notification is committed and its
\* row is visible, the row no longer says "pending".
AcceptedIsRecorded ==
    \A o \in 1..cCommitted["p"] :
        LET n == topic["p"][o]
        IN  Visible(n) /\ accepted[n] > 0 => dstatus[n] # "pending"
=============================================================================
