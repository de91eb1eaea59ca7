--------------------------- MODULE DeliveryProofs ---------------------------
(***************************************************************************)
(* Proofs about the path of a notification, for any number of              *)
(* notifications, copies, retries, crashes, shutdowns and rebalances: what *)
(* the status rows say is true, and what is committed on a topic is        *)
(* recorded.  The two consumer loops keep the invariant of ConsumerProofs, *)
(* of which ChanP and DeadP are instances like Chan and Dead in Delivery.  *)
(***************************************************************************)
EXTENDS Delivery, SequenceTheorems, FiniteSetTheorems, TLAPS

ChanP == INSTANCE ConsumerProofs WITH
    Partitions <- {"p"}, Messages <- Notifications, Malformed <- {}, HasProducer <- TRUE,
    log <- topic, committed <- cCommitted, pos <- cPos, pc <- cPc, cur <- cCur,
    attempt <- cAttempt, fates <- cFates

DeadP == INSTANCE ConsumerProofs WITH
    Partitions <- {"p"}, Messages <- Notifications, Malformed <- {}, HasProducer <- FALSE,
    log <- dlq, committed <- dCommitted, pos <- dPos, pc <- dPc, cur <- dCur,
    attempt <- dAttempt, fates <- dFates

\* The part of TypeOK that is not the loops'.
RowsType ==
    /\ tx \in [Notifications -> {"none", "inserted", "published", "committed", "rolledBack"}]
    /\ nstatus \in [Notifications -> Statuses]
    /\ dstatus \in [Notifications -> Statuses]
    /\ attempts \in [Notifications -> Nat]
    /\ dlqRows \in [Notifications -> 0..2]
    /\ accepted \in [Notifications -> 0..2]
    /\ cStep \in {"send", "mark"}
    /\ dStep \in {"create", "delivery", "notification"}

\* The handlers are between their statements only while the loop is in the handler,
\* and what they did before is still true of the message in hand.
MidHandler ==
    /\ cStep = "mark" => cPc = "handle" /\ accepted[cMsg] > 0
    /\ dStep # "create" => dPc = "handle" /\ dlqRows[dMsg] > 0

OnDLQ(n) == \E o \in 1..Len(dlq["p"]) : dlq["p"][o] = n

\* What each fate on the channel topic stands for.
ChanFates ==
    \A x \in cFates :
        /\ x[1][2] \in 1..Len(topic["p"])
        /\ x[2] \in {"handled", "dlq", "unhandled"}
        /\ x[2] = "handled" => accepted[topic["p"][x[1][2]]] > 0
        /\ x[2] = "dlq" => OnDLQ(topic["p"][x[1][2]])

\* And on the DLQ topic.
DeadFates ==
    \A x \in dFates :
        /\ x[1][2] \in 1..Len(dlq["p"])
        /\ x[2] \in {"handled", "dropped"}
        /\ x[2] = "handled" => dlqRows[dlq["p"][x[1][2]]] > 0

\* The inductive invariant.
DeliveryInv ==
    /\ RowsType
    /\ ChanP!CoverInv
    /\ DeadP!CoverInv
    /\ MidHandler
    /\ ChanFates
    /\ DeadFates
    /\ StatusIsEarned

-----------------------------------------------------------------------------
\* The loops.

\* The assumptions of Consumer hold of both.
LEMMA LoopAssumptions == ChanP!ConsumerAssumption /\ DeadP!ConsumerAssumption
BY DeliveryAssumption DEF ChanP!ConsumerAssumption, DeadP!ConsumerAssumption

\* A topic with copies appended is a topic, longer by them and otherwise the same.
LEMMA AppendedLog ==
    ASSUME NEW log \in [{"p"} -> Seq(Notifications)], NEW n \in Notifications, NEW k \in Nat
    PROVE  /\ With(log, n, k) \in [{"p"} -> Seq(Notifications)]
           /\ Len(With(log, n, k)["p"]) = Len(log["p"]) + k
           /\ Len(log["p"]) \in Nat
           /\ \A i \in 1..Len(log["p"]) : With(log, n, k)["p"][i] = log["p"][i]
           /\ \A i \in Len(log["p"]) + 1..Len(log["p"]) + k : With(log, n, k)["p"][i] = n
<1> DEFINE s == log["p"]
           u == [i \in 1..k |-> n]
<1>1. s \in Seq(Notifications) /\ Len(s) \in Nat
  BY LenProperties
<1>2. u \in Seq(Notifications) /\ Len(u) = k
  OBVIOUS
<1>3. With(log, n, k) = [log EXCEPT !["p"] = s \o u]
  BY DEF With
<1> HIDE DEF u
<1>4. /\ s \o u \in Seq(Notifications)
      /\ Len(s \o u) = Len(s) + Len(u)
      /\ \A i \in 1..Len(s) + Len(u) : (s \o u)[i] = IF i <= Len(s) THEN s[i] ELSE u[i - Len(s)]
  BY <1>1, <1>2, ConcatProperties
<1>5. With(log, n, k) \in [{"p"} -> Seq(Notifications)] /\ With(log, n, k)["p"] = s \o u
  BY <1>3, <1>4
<1>6. ASSUME NEW i \in 1..Len(s) PROVE (s \o u)[i] = s[i]
  BY <1>1, <1>2, <1>4
<1>7. ASSUME NEW i \in Len(s) + 1..Len(s) + k PROVE (s \o u)[i] = n
  <2>1. i \in 1..Len(s) + Len(u) /\ ~(i <= Len(s)) /\ i - Len(s) \in 1..k
    BY <1>1, <1>2
  <2>2. u[i - Len(s)] = n
    BY <2>1 DEF u
  <2> QED
    BY <1>4, <2>1, <2>2
<1> QED
  BY <1>1, <1>2, <1>4, <1>5, <1>6, <1>7

\* The message the channel consumer has in hand is on its topic.
LEMMA ChanInHand ==
    ASSUME ChanP!CoverInv
    PROVE  /\ topic \in [{"p"} -> Seq(Notifications)] /\ Len(topic["p"]) \in Nat
           /\ \A o \in 1..Len(topic["p"]) : topic["p"][o] \in Notifications
           /\ cCur = <<"p", cCur[2]>> /\ cCur[2] \in Nat
           /\ cPc \in {"handle", "backoff", "publish", "commit"} =>
                 cCur[2] \in 1..Len(topic["p"]) /\ cMsg \in Notifications
<1>1. topic \in [{"p"} -> Seq(Notifications)] /\ cCur \in {"p"} \X Nat
  BY DEF ChanP!CoverInv, ChanP!TypeOK, ChanP!Position
<1>2. Len(topic["p"]) \in Nat /\ \A o \in 1..Len(topic["p"]) : topic["p"][o] \in Notifications
  BY <1>1, LenProperties, ElementOfSeq
<1>3. cCur = <<"p", cCur[2]>> /\ cCur[1] = "p" /\ cCur[2] \in Nat
  BY <1>1
<1>4. cPc \in {"handle", "backoff", "publish", "commit"} => cCur[2] \in 1..Len(topic["p"])
  BY <1>3 DEF ChanP!CoverInv, ChanP!InHandSound, ChanP!Busy
<1> QED
  BY <1>1, <1>2, <1>3, <1>4 DEF cMsg

\* The steps of the channel loop that Delivery names are steps of Consumer.
LEMMA ChanSteps ==
    ASSUME \/ Chan!Fetch("p") \/ Chan!FetchFails \/ Chan!FetchWaitEnds \/ Chan!BackoffEnds
           \/ \E ok \in BOOLEAN : Chan!HandlerReturns(ok)
           \/ \E appended, ok \in BOOLEAN : Chan!PublishDLQ(appended, ok)
           \/ \E stored, ok \in BOOLEAN : Chan!CommitMessages(stored, ok)
           \/ Chan!Restart \/ Chan!Rebalance
    PROVE  ChanP!Step
<1>1. Chan!Fetch("p") => ChanP!Fetch("p")
  BY DEF Chan!Fetch, ChanP!Fetch
<1>2. Chan!FetchFails => ChanP!FetchFails
  BY DEF Chan!FetchFails, ChanP!FetchFails
<1>3. Chan!FetchWaitEnds => ChanP!FetchWaitEnds
  BY DEF Chan!FetchWaitEnds, ChanP!FetchWaitEnds
<1>4. Chan!BackoffEnds => ChanP!BackoffEnds
  BY DEF Chan!BackoffEnds, ChanP!BackoffEnds, Chan!NoMessage, ChanP!NoMessage
<1>5. ASSUME NEW ok \in BOOLEAN, Chan!HandlerReturns(ok) PROVE ChanP!HandlerReturns(ok)
  BY <1>5 DEF Chan!HandlerReturns, ChanP!HandlerReturns, Chan!Become, ChanP!Become
<1>6. ASSUME NEW appended \in BOOLEAN, NEW ok \in BOOLEAN, Chan!PublishDLQ(appended, ok)
      PROVE  ChanP!PublishDLQ(appended, ok)
  BY <1>6 DEF Chan!PublishDLQ, ChanP!PublishDLQ, Chan!NoMessage, ChanP!NoMessage
<1>7. ASSUME NEW stored \in BOOLEAN, NEW ok \in BOOLEAN, Chan!CommitMessages(stored, ok)
      PROVE  ChanP!CommitMessages(stored, ok)
  BY <1>7 DEF Chan!CommitMessages, ChanP!CommitMessages, Chan!NoMessage, ChanP!NoMessage
<1>8. Chan!Restart => ChanP!Restart
  BY DEF Chan!Restart, ChanP!Restart
<1>9. Chan!Rebalance => ChanP!Rebalance
  BY DEF Chan!Rebalance, ChanP!Rebalance, Chan!Disrupt, ChanP!Disrupt
<1> QED
  BY <1>1, <1>2, <1>3, <1>4, <1>5, <1>6, <1>7, <1>8, <1>9 DEF ChanP!Step

\* The message the DLQ consumer has in hand is on its topic.
LEMMA DeadInHand ==
    ASSUME DeadP!CoverInv
    PROVE  /\ dlq \in [{"p"} -> Seq(Notifications)] /\ Len(dlq["p"]) \in Nat
           /\ \A o \in 1..Len(dlq["p"]) : dlq["p"][o] \in Notifications
           /\ dCur = <<"p", dCur[2]>> /\ dCur[2] \in Nat
           /\ dPc \in {"handle", "backoff", "publish", "commit"} =>
                 dCur[2] \in 1..Len(dlq["p"]) /\ dMsg \in Notifications
<1>1. dlq \in [{"p"} -> Seq(Notifications)] /\ dCur \in {"p"} \X Nat
  BY DEF DeadP!CoverInv, DeadP!TypeOK, DeadP!Position
<1>2. Len(dlq["p"]) \in Nat /\ \A o \in 1..Len(dlq["p"]) : dlq["p"][o] \in Notifications
  BY <1>1, LenProperties, ElementOfSeq
<1>3. dCur = <<"p", dCur[2]>> /\ dCur[1] = "p" /\ dCur[2] \in Nat
  BY <1>1
<1>4. dPc \in {"handle", "backoff", "publish", "commit"} => dCur[2] \in 1..Len(dlq["p"])
  BY <1>3 DEF DeadP!CoverInv, DeadP!InHandSound, DeadP!Busy
<1> QED
  BY <1>1, <1>2, <1>3, <1>4 DEF dMsg

\* The steps of the DLQ loop that Delivery names are steps of Consumer.
LEMMA DeadSteps ==
    ASSUME \/ Dead!Fetch("p") \/ Dead!FetchFails \/ Dead!FetchWaitEnds \/ Dead!BackoffEnds
           \/ \E ok \in BOOLEAN : Dead!HandlerReturns(ok)
           \/ \E appended, ok \in BOOLEAN : Dead!PublishDLQ(appended, ok)
           \/ \E stored, ok \in BOOLEAN : Dead!CommitMessages(stored, ok)
           \/ Dead!Restart \/ Dead!Rebalance
    PROVE  DeadP!Step
<1>1. Dead!Fetch("p") => DeadP!Fetch("p")
  BY DEF Dead!Fetch, DeadP!Fetch
<1>2. Dead!FetchFails => DeadP!FetchFails
  BY DEF Dead!FetchFails, DeadP!FetchFails
<1>3. Dead!FetchWaitEnds => DeadP!FetchWaitEnds
  BY DEF Dead!FetchWaitEnds, DeadP!FetchWaitEnds
<1>4. Dead!BackoffEnds => DeadP!BackoffEnds
  BY DEF Dead!BackoffEnds, DeadP!BackoffEnds, Dead!NoMessage, DeadP!NoMessage
<1>5. ASSUME NEW ok \in BOOLEAN, Dead!HandlerReturns(ok) PROVE DeadP!HandlerReturns(ok)
  BY <1>5 DEF Dead!HandlerReturns, DeadP!HandlerReturns, Dead!Become, DeadP!Become
<1>6. ASSUME NEW appended \in BOOLEAN, NEW ok \in BOOLEAN, Dead!PublishDLQ(appended, ok)
      PROVE  DeadP!PublishDLQ(appended, ok)
  BY <1>6 DEF Dead!PublishDLQ, DeadP!PublishDLQ, Dead!NoMessage, DeadP!NoMessage
<1>7. ASSUME NEW stored \in BOOLEAN, NEW ok \in BOOLEAN, Dead!CommitMessages(stored, ok)
      PROVE  DeadP!CommitMessages(stored, ok)
  BY <1>7 DEF Dead!CommitMessages, DeadP!CommitMessages, Dead!NoMessage, DeadP!NoMessage
<1>8. Dead!Restart => DeadP!Restart
  BY DEF Dead!Restart, DeadP!Restart
<1>9. Dead!Rebalance => DeadP!Rebalance
  BY DEF Dead!Rebalance, DeadP!Rebalance, Dead!Disrupt, DeadP!Disrupt
<1> QED
  BY <1>1, <1>2, <1>3, <1>4, <1>5, <1>6, <1>7, <1>8, <1>9 DEF DeadP!Step

\* What else goes on leaves a loop as it is, or stops it.
LEMMA ChanOutside ==
    ASSUME ChanP!CoverInv,
           topic' \in [{"p"} -> Seq(Notifications)], Len(topic'["p"]) >= Len(topic["p"]),
           UNCHANGED <<cCommitted, cPos, cAttempt, cFates>>,
           UNCHANGED <<cPc, cCur>> \/ (cPc' = "stopped" /\ cCur' = Chan!NoMessage),
           UNCHANGED process \/ (Chan!Disrupt /\ ctxDone' \in BOOLEAN)
    PROVE  ChanP!CoverInv'
<1>1. ctxDone \in BOOLEAN /\ disruptions \in 0..MaxDisruptions
  BY DEF ChanP!CoverInv, ChanP!TypeOK
<1>2. ctxDone' \in BOOLEAN /\ disruptions' \in 0..MaxDisruptions
  BY <1>1, DeliveryAssumption DEF process, Chan!Disrupt
<1>3. Chan!NoMessage = ChanP!NoMessage
  BY DEF Chan!NoMessage, ChanP!NoMessage
<1> QED
  BY <1>2, <1>3, LoopAssumptions, ChanP!OutsideCoverInv

LEMMA DeadOutside ==
    ASSUME DeadP!CoverInv,
           dlq' \in [{"p"} -> Seq(Notifications)], Len(dlq'["p"]) >= Len(dlq["p"]),
           UNCHANGED <<dCommitted, dPos, dAttempt, dFates>>,
           UNCHANGED <<dPc, dCur>> \/ (dPc' = "stopped" /\ dCur' = Dead!NoMessage),
           UNCHANGED process \/ (Chan!Disrupt /\ ctxDone' \in BOOLEAN)
    PROVE  DeadP!CoverInv'
<1>1. ctxDone \in BOOLEAN /\ disruptions \in 0..MaxDisruptions
  BY DEF DeadP!CoverInv, DeadP!TypeOK
<1>2. ctxDone' \in BOOLEAN /\ disruptions' \in 0..MaxDisruptions
  BY <1>1, DeliveryAssumption DEF process, Chan!Disrupt
<1>3. Dead!NoMessage = DeadP!NoMessage
  BY DEF Dead!NoMessage, DeadP!NoMessage
<1> QED
  BY <1>2, <1>3, LoopAssumptions, DeadP!OutsideCoverInv

\* Both loops keep their invariant under every step of the system.
LEMMA ChanKeepsCover ==
    ASSUME ChanP!CoverInv, Next
    PROVE  ChanP!CoverInv'
<1>0. topic \in [{"p"} -> Seq(Notifications)] /\ Len(topic["p"]) \in Nat
      /\ ctxDone \in BOOLEAN
  BY ChanInHand DEF ChanP!CoverInv, ChanP!TypeOK
<1>1. ASSUME UNCHANGED <<topic, cLoop, process>> PROVE ChanP!CoverInv'
  BY <1>0, <1>1, ChanOutside DEF cLoop
<1>2. ASSUME ChanP!Step, UNCHANGED topic PROVE ChanP!CoverInv'
  BY <1>2, LoopAssumptions, ChanP!StepCoverInv
<1>3. ASSUME NEW n \in Notifications, Insert(n) \/ Commit(n) \/ CommitFails(n)
      PROVE  ChanP!CoverInv'
  BY <1>1, <1>3 DEF Insert, Commit, CommitFails
<1>4. ASSUME NEW n \in Notifications, NEW k \in 0..MaxCopies, NEW ok \in BOOLEAN,
             Publish(n, k, ok)
      PROVE  ChanP!CoverInv'
  <2>1. topic' = With(topic, n, k) /\ UNCHANGED <<cLoop, process>> /\ k \in Nat
    BY <1>4 DEF Publish
  <2>2. topic' \in [{"p"} -> Seq(Notifications)] /\ Len(topic'["p"]) >= Len(topic["p"])
    BY <1>0, <2>1, AppendedLog
  <2> QED
    BY <2>1, <2>2, ChanOutside DEF cLoop
<1>5. ASSUME NEW took \in BOOLEAN, NEW ok \in BOOLEAN, Send(took, ok) PROVE ChanP!CoverInv'
  <2>1. CASE ok
    BY <1>1, <1>5, <2>1 DEF Send
  <2>2. CASE ~ok
    BY <1>2, <1>5, <2>2, ChanSteps DEF Send
  <2> QED
    BY <2>1, <2>2
<1>6. ASSUME MarkDelivered PROVE ChanP!CoverInv'
  BY <1>2, <1>6, ChanSteps DEF MarkDelivered
<1>7. ASSUME ChannelLoop PROVE ChanP!CoverInv'
  BY <1>2, <1>7, ChanSteps DEF ChannelLoop
<1>8. ASSUME NEW k \in 0..MaxCopies, NEW ok \in BOOLEAN, PublishDLQ(k, ok)
      PROVE  ChanP!CoverInv'
  <2>1. Chan!PublishDLQ(k > 0, ok) /\ UNCHANGED topic
    BY <1>8 DEF PublishDLQ
  <2>2. CASE k > 0
    <3>1. Chan!PublishDLQ(TRUE, ok)
      BY <2>1, <2>2 DEF Chan!PublishDLQ
    <3> QED
      BY <1>2, <2>1, <3>1, ChanSteps
  <2>3. CASE ~(k > 0)
    <3>1. Chan!PublishDLQ(FALSE, ok)
      BY <2>1, <2>3 DEF Chan!PublishDLQ
    <3> QED
      BY <1>2, <2>1, <3>1, ChanSteps
  <2> QED
    BY <2>2, <2>3
<1>9. ASSUME CreateDLQRow \/ MarkDeliveryFailed \/ MarkNotificationFailed \/ DLQLoop
      PROVE  ChanP!CoverInv'
  <2>1. UNCHANGED <<topic, cLoop>>
    BY <1>9 DEF CreateDLQRow, MarkDeliveryFailed, MarkNotificationFailed, DLQLoop
  <2>2. UNCHANGED process
    BY <1>9 DEF CreateDLQRow, MarkDeliveryFailed, MarkNotificationFailed, DLQLoop, process,
       Dead!HandlerReturns, Dead!Fetch, Dead!FetchFails, Dead!FetchWaitEnds, Dead!BackoffEnds,
       Dead!CommitMessages
  <2> QED
    BY <1>1, <2>1, <2>2
<1>10. ASSUME Shutdown PROVE ChanP!CoverInv'
  BY <1>0, <1>10, ChanOutside DEF Shutdown, cLoop
<1>11. ASSUME Crash PROVE ChanP!CoverInv'
  BY <1>0, <1>11, ChanOutside DEF Crash
<1>12. ASSUME Restart \/ Rebalance PROVE ChanP!CoverInv'
  BY <1>2, <1>12, ChanSteps DEF Restart, Rebalance
<1> QED
  BY <1>3, <1>4, <1>5, <1>6, <1>7, <1>8, <1>9, <1>10, <1>11, <1>12 DEF Next

LEMMA DeadKeepsCover ==
    ASSUME ChanP!CoverInv, DeadP!CoverInv, Next
    PROVE  DeadP!CoverInv'
<1>0. dlq \in [{"p"} -> Seq(Notifications)] /\ Len(dlq["p"]) \in Nat
      /\ ctxDone \in BOOLEAN
  BY DeadInHand DEF DeadP!CoverInv, DeadP!TypeOK
<1>1. ASSUME UNCHANGED <<dlq, dLoop, process>> PROVE DeadP!CoverInv'
  BY <1>0, <1>1, DeadOutside DEF dLoop
<1>2. ASSUME DeadP!Step, UNCHANGED dlq PROVE DeadP!CoverInv'
  BY <1>2, LoopAssumptions, DeadP!StepCoverInv
<1>3. ASSUME NEW n \in Notifications,
             \/ Insert(n) \/ Commit(n) \/ CommitFails(n)
             \/ \E k \in 0..MaxCopies, ok \in BOOLEAN : Publish(n, k, ok)
      PROVE  DeadP!CoverInv'
  BY <1>1, <1>3 DEF Insert, Publish, Commit, CommitFails
<1>4. ASSUME NEW took \in BOOLEAN, NEW ok \in BOOLEAN, Send(took, ok) PROVE DeadP!CoverInv'
  <2>1. UNCHANGED <<dlq, dLoop, process>>
    BY <1>4 DEF Send, Chan!HandlerReturns, process
  <2> QED
    BY <1>1, <2>1
<1>5. ASSUME MarkDelivered \/ ChannelLoop PROVE DeadP!CoverInv'
  <2>1. UNCHANGED <<dlq, dLoop>>
    BY <1>5 DEF MarkDelivered, ChannelLoop
  <2>2. UNCHANGED process
    BY <1>5 DEF MarkDelivered, ChannelLoop, process, Chan!HandlerReturns, Chan!Fetch,
       Chan!FetchFails, Chan!FetchWaitEnds, Chan!BackoffEnds, Chan!CommitMessages
  <2> QED
    BY <1>1, <2>1, <2>2
<1>6. ASSUME NEW k \in 0..MaxCopies, NEW ok \in BOOLEAN, PublishDLQ(k, ok)
      PROVE  DeadP!CoverInv'
  <2>1. dlq' = With(dlq, cMsg, k) /\ UNCHANGED <<dLoop, process>> /\ k \in Nat
    BY <1>6 DEF PublishDLQ, Chan!PublishDLQ, process
  <2>2. cMsg \in Notifications
    BY <1>6, ChanInHand DEF PublishDLQ, Chan!PublishDLQ
  <2>3. dlq' \in [{"p"} -> Seq(Notifications)] /\ Len(dlq'["p"]) >= Len(dlq["p"])
    BY <1>0, <2>1, <2>2, AppendedLog
  <2> QED
    BY <2>1, <2>3, DeadOutside DEF dLoop
<1>7. ASSUME CreateDLQRow PROVE DeadP!CoverInv'
  BY <1>1, <1>2, <1>7, DeadSteps DEF CreateDLQRow
<1>8. ASSUME MarkDeliveryFailed PROVE DeadP!CoverInv'
  BY <1>1, <1>8 DEF MarkDeliveryFailed
<1>9. ASSUME MarkNotificationFailed \/ DLQLoop PROVE DeadP!CoverInv'
  BY <1>2, <1>9, DeadSteps DEF MarkNotificationFailed, DLQLoop
<1>10. ASSUME Shutdown PROVE DeadP!CoverInv'
  BY <1>0, <1>10, DeadOutside DEF Shutdown, dLoop
<1>11. ASSUME Crash PROVE DeadP!CoverInv'
  BY <1>0, <1>11, DeadOutside DEF Crash
<1>12. ASSUME Restart PROVE DeadP!CoverInv'
  BY <1>2, <1>12, DeadSteps DEF Restart
<1>13. ASSUME Rebalance PROVE DeadP!CoverInv'
  BY <1>0, <1>13, DeadOutside DEF Rebalance, Chan!Rebalance, dLoop
<1> QED
  BY <1>3, <1>4, <1>5, <1>6, <1>7, <1>8, <1>9, <1>10, <1>11, <1>12, <1>13 DEF Next

-----------------------------------------------------------------------------
\* The rows, and what has happened.

\* A statement on a delivery row changes it for the good or not at all.
LEMMA UpdateDeliveryType ==
    ASSUME RowsType, NEW n \in Notifications, NEW status \in Statuses, UpdateDelivery(n, status)
    PROVE  /\ dstatus' \in [Notifications -> Statuses] /\ attempts' \in [Notifications -> Nat]
           /\ \A m \in Notifications : dstatus'[m] = dstatus[m] \/ (m = n /\ dstatus'[m] = status)
BY DEF RowsType, UpdateDelivery

LEMMA DeliveryKeepsType ==
    ASSUME RowsType, ChanP!CoverInv, DeadP!CoverInv, Next
    PROVE  RowsType'
<1>b. \A m \in 0..2 : Bump(m) \in 0..2
  BY DEF Bump
<1>1. ASSUME NEW n \in Notifications,
             \/ Insert(n) \/ Commit(n) \/ CommitFails(n)
             \/ \E k \in 0..MaxCopies, ok \in BOOLEAN : Publish(n, k, ok)
      PROVE  RowsType'
  <2>1. tx' \in [Notifications -> {"none", "inserted", "published", "committed", "rolledBack"}]
    BY <1>1 DEF RowsType, Insert, Publish, Commit, CommitFails
  <2>2. UNCHANGED <<rows, accepted, cStep, dStep>>
    BY <1>1 DEF Insert, Publish, Commit, CommitFails
  <2> QED
    BY <2>1, <2>2 DEF RowsType, rows
<1>2. ASSUME NEW took \in BOOLEAN, NEW ok \in BOOLEAN, Send(took, ok) PROVE RowsType'
  <2>1. cMsg \in Notifications
    BY <1>2, ChanInHand DEF Send
  <2>2. accepted' = accepted \/ accepted' = [accepted EXCEPT ![cMsg] = Bump(accepted[cMsg])]
    BY <1>2 DEF Send
  <2>3. accepted' \in [Notifications -> 0..2]
    BY <1>b, <2>1, <2>2 DEF RowsType
  <2>4. cStep' \in {"send", "mark"} /\ UNCHANGED <<tx, rows, dStep>>
    BY <1>2 DEF Send, RowsType
  <2> QED
    BY <2>3, <2>4 DEF RowsType, rows
<1>3. ASSUME MarkDelivered PROVE RowsType'
  <2>1. cMsg \in Notifications
    BY <1>3, ChanInHand DEF MarkDelivered
  <2>2. dstatus' \in [Notifications -> Statuses] /\ attempts' \in [Notifications -> Nat]
    BY <1>3, <2>1, UpdateDeliveryType DEF MarkDelivered, Statuses
  <2> QED
    BY <1>3, <2>2 DEF MarkDelivered, RowsType
<1>4. ASSUME \/ ChannelLoop \/ DLQLoop \/ Shutdown \/ Rebalance
             \/ \E k \in 0..MaxCopies, ok \in BOOLEAN : PublishDLQ(k, ok)
      PROVE  RowsType'
  <2>1. UNCHANGED <<tx, rows, accepted, cStep, dStep>>
    BY <1>4 DEF ChannelLoop, DLQLoop, Shutdown, Rebalance, PublishDLQ
  <2> QED
    BY <2>1 DEF RowsType, rows
<1>5. ASSUME CreateDLQRow PROVE RowsType'
  <2>1. dMsg \in Notifications
    BY <1>5, DeadInHand DEF CreateDLQRow
  <2>2. dlqRows' = dlqRows \/ dlqRows' = [dlqRows EXCEPT ![dMsg] = Bump(dlqRows[dMsg])]
    BY <1>5 DEF CreateDLQRow
  <2>3. dlqRows' \in [Notifications -> 0..2]
    BY <1>b, <2>1, <2>2 DEF RowsType
  <2>4. /\ dStep' \in {"create", "delivery", "notification"}
        /\ UNCHANGED <<tx, nstatus, dstatus, attempts, accepted, cStep>>
    BY <1>5 DEF CreateDLQRow, RowsType
  <2> QED
    BY <2>3, <2>4 DEF RowsType
<1>6. ASSUME MarkDeliveryFailed PROVE RowsType'
  <2>1. dMsg \in Notifications
    BY <1>6, DeadInHand DEF MarkDeliveryFailed
  <2>2. dstatus' \in [Notifications -> Statuses] /\ attempts' \in [Notifications -> Nat]
    BY <1>6, <2>1, UpdateDeliveryType DEF MarkDeliveryFailed, Statuses
  <2> QED
    BY <1>6, <2>2 DEF MarkDeliveryFailed, RowsType
<1>7. ASSUME MarkNotificationFailed PROVE RowsType'
  <2>1. nstatus' \in [Notifications -> Statuses]
    BY <1>7 DEF MarkNotificationFailed, RowsType, Statuses
  <2> QED
    BY <1>7, <2>1 DEF MarkNotificationFailed, RowsType
<1>8. ASSUME Crash \/ Restart PROVE RowsType'
  <2>1. tx' \in [Notifications -> {"none", "inserted", "published", "committed", "rolledBack"}]
    BY <1>8 DEF Crash, Restart, RollBackOpen, RowsType
  <2>2. cStep' \in {"send", "mark"} /\ dStep' \in {"create", "delivery", "notification"}
    BY <1>8 DEF Crash, Restart, RowsType
  <2>3. UNCHANGED <<rows, accepted>>
    BY <1>8 DEF Crash, Restart
  <2> QED
    BY <2>1, <2>2, <2>3 DEF RowsType, rows
<1> QED
  BY <1>1, <1>2, <1>3, <1>4, <1>5, <1>6, <1>7, <1>8 DEF Next

\* What was accepted or recorded stays so, and topics only grow.
LEMMA HistoryGrows ==
    ASSUME RowsType, ChanP!CoverInv, DeadP!CoverInv, Next
    PROVE  /\ \A n \in Notifications : /\ accepted[n] > 0 => accepted'[n] > 0
                                       /\ dlqRows[n] > 0 => dlqRows'[n] > 0
           /\ \A o \in 1..Len(topic["p"]) :
                 o \in 1..Len(topic'["p"]) /\ topic'["p"][o] = topic["p"][o]
           /\ \A o \in 1..Len(dlq["p"]) :
                 o \in 1..Len(dlq'["p"]) /\ dlq'["p"][o] = dlq["p"][o]
<1>b. \A m \in 0..2 : Bump(m) > 0
  BY DEF Bump
<1>0. /\ topic \in [{"p"} -> Seq(Notifications)] /\ Len(topic["p"]) \in Nat
      /\ dlq \in [{"p"} -> Seq(Notifications)] /\ Len(dlq["p"]) \in Nat
  BY ChanInHand, DeadInHand
<1>1. \A n \in Notifications : accepted[n] > 0 => accepted'[n] > 0
  <2>1. ASSUME NEW took \in BOOLEAN, NEW ok \in BOOLEAN, Send(took, ok)
        PROVE  \A n \in Notifications : accepted[n] > 0 => accepted'[n] > 0
    <3>1. accepted' = accepted \/ accepted' = [accepted EXCEPT ![cMsg] = Bump(accepted[cMsg])]
      BY <2>1 DEF Send
    <3> QED
      BY <1>b, <3>1 DEF RowsType
  <2>2. (\E took, ok \in BOOLEAN : Send(took, ok)) \/ UNCHANGED accepted
    BY DEF Next, Insert, Publish, Commit, CommitFails, MarkDelivered, ChannelLoop, PublishDLQ,
       CreateDLQRow, MarkDeliveryFailed, MarkNotificationFailed, DLQLoop, Shutdown, Crash,
       Restart, Rebalance
  <2> QED
    BY <2>1, <2>2
<1>2. \A n \in Notifications : dlqRows[n] > 0 => dlqRows'[n] > 0
  <2>1. ASSUME CreateDLQRow
        PROVE  \A n \in Notifications : dlqRows[n] > 0 => dlqRows'[n] > 0
    <3>1. dlqRows' = dlqRows \/ dlqRows' = [dlqRows EXCEPT ![dMsg] = Bump(dlqRows[dMsg])]
      BY <2>1 DEF CreateDLQRow
    <3> QED
      BY <1>b, <3>1 DEF RowsType
  <2>2. CreateDLQRow \/ UNCHANGED dlqRows
    BY DEF Next, rows, Insert, Publish, Commit, CommitFails, Send, MarkDelivered, ChannelLoop,
       PublishDLQ, MarkDeliveryFailed, MarkNotificationFailed, DLQLoop, Shutdown, Crash,
       Restart, Rebalance
  <2> QED
    BY <2>1, <2>2
<1>3. \A o \in 1..Len(topic["p"]) : o \in 1..Len(topic'["p"]) /\ topic'["p"][o] = topic["p"][o]
  <2>1. ASSUME NEW n \in Notifications, NEW k \in Nat, topic' = With(topic, n, k),
               NEW o \in 1..Len(topic["p"])
        PROVE  o \in 1..Len(topic'["p"]) /\ topic'["p"][o] = topic["p"][o]
    <3>1. Len(With(topic, n, k)["p"]) = Len(topic["p"]) + k
      BY <1>0, AppendedLog
    <3>2. \A i \in 1..Len(topic["p"]) : With(topic, n, k)["p"][i] = topic["p"][i]
      BY <1>0, AppendedLog
    <3> QED
      BY <1>0, <2>1, <3>1, <3>2
  <2>2. ASSUME NEW n \in Notifications, NEW k \in 0..MaxCopies, NEW ok \in BOOLEAN,
               Publish(n, k, ok)
        PROVE  k \in Nat /\ topic' = With(topic, n, k)
    BY <2>2 DEF Publish
  <2>3. \/ UNCHANGED topic
        \/ \E n \in Notifications, k \in 0..MaxCopies, ok \in BOOLEAN : Publish(n, k, ok)
    BY DEF Next, Insert, Commit, CommitFails, Send, MarkDelivered, ChannelLoop,
       PublishDLQ, CreateDLQRow, MarkDeliveryFailed, MarkNotificationFailed, DLQLoop, Shutdown,
       Crash, Restart, Rebalance
  <2> QED
    BY <2>1, <2>2, <2>3
<1>4. \A o \in 1..Len(dlq["p"]) : o \in 1..Len(dlq'["p"]) /\ dlq'["p"][o] = dlq["p"][o]
  <2>1. ASSUME NEW n \in Notifications, NEW k \in Nat, dlq' = With(dlq, n, k),
               NEW o \in 1..Len(dlq["p"])
        PROVE  o \in 1..Len(dlq'["p"]) /\ dlq'["p"][o] = dlq["p"][o]
    BY <1>0, <2>1, AppendedLog
  <2>2. ASSUME NEW k \in 0..MaxCopies, NEW ok \in BOOLEAN, PublishDLQ(k, ok)
        PROVE  cMsg \in Notifications /\ k \in Nat /\ dlq' = With(dlq, cMsg, k)
    BY <2>2, ChanInHand DEF PublishDLQ, Chan!PublishDLQ
  <2>3. UNCHANGED dlq \/ \E k \in 0..MaxCopies, ok \in BOOLEAN : PublishDLQ(k, ok)
    BY DEF Next, Insert, Publish, Commit, CommitFails, Send, MarkDelivered, ChannelLoop,
       CreateDLQRow, MarkDeliveryFailed, MarkNotificationFailed, DLQLoop, Shutdown, Crash,
       Restart, Rebalance
  <2> QED
    BY <2>1, <2>2, <2>3
<1> QED
  BY <1>1, <1>2, <1>3, <1>4

-----------------------------------------------------------------------------
\* Inside the handlers.

LEMMA DeliveryKeepsMidHandler ==
    ASSUME RowsType, ChanP!CoverInv, DeadP!CoverInv, MidHandler, Next
    PROVE  MidHandler'
<1>b. \A m \in 0..2 : Bump(m) > 0
  BY DEF Bump
<1>1. ASSUME cStep' = "mark" PROVE cPc' = "handle" /\ accepted'[cMsg'] > 0
  <2>1. ASSUME cStep = "mark", UNCHANGED <<cPc, cCur>>
        PROVE  cPc' = "handle" /\ accepted'[cMsg'] > 0
    <3>1. cPc = "handle" /\ accepted[cMsg] > 0
      BY <2>1 DEF MidHandler
    <3>2. cMsg \in Notifications /\ cCur[2] \in 1..Len(topic["p"])
      BY <3>1, ChanInHand
    <3>3. cMsg' = cMsg
      BY <2>1, <3>2, HistoryGrows DEF cMsg
    <3>4. accepted'[cMsg] > 0
      BY <3>1, <3>2, HistoryGrows
    <3> QED
      BY <2>1, <3>1, <3>3, <3>4
  <2>2. ASSUME NEW took \in BOOLEAN, NEW ok \in BOOLEAN, Send(took, ok)
        PROVE  cPc' = "handle" /\ accepted'[cMsg'] > 0
    <3>1. took /\ cPc = "handle" /\ UNCHANGED <<cPc, cCur, topic>>
      BY <1>1, <2>2 DEF Send, cLoop
    <3>2. cMsg \in Notifications /\ cMsg' = cMsg
      BY <3>1, ChanInHand DEF cMsg
    <3>3. accepted' = [accepted EXCEPT ![cMsg] = Bump(accepted[cMsg])]
      BY <2>2, <3>1 DEF Send
    <3> QED
      BY <1>b, <3>1, <3>2, <3>3 DEF RowsType
  <2>3. ASSUME ChannelLoop PROVE cPc # "handle" /\ UNCHANGED cStep
    BY <2>3 DEF ChannelLoop, Chan!Fetch, Chan!FetchFails, Chan!FetchWaitEnds,
       Chan!BackoffEnds, Chan!CommitMessages
  <2>4. ASSUME (\E k \in 0..MaxCopies, ok \in BOOLEAN : PublishDLQ(k, ok)) \/ Restart
        PROVE  cPc # "handle" /\ UNCHANGED cStep
    BY <2>4 DEF PublishDLQ, Chan!PublishDLQ, Restart, Chan!Restart
  <2>5. ASSUME MarkDelivered \/ Crash PROVE FALSE
    BY <1>1, <2>5 DEF MarkDelivered, Crash
  <2>6. ASSUME \/ \E n \in Notifications :
                     \/ Insert(n) \/ Commit(n) \/ CommitFails(n)
                     \/ \E k \in 0..MaxCopies, ok \in BOOLEAN : Publish(n, k, ok)
               \/ CreateDLQRow \/ MarkDeliveryFailed \/ MarkNotificationFailed \/ DLQLoop
               \/ Shutdown \/ Rebalance
        PROVE  UNCHANGED <<cStep, cPc, cCur>>
    BY <2>6 DEF Insert, Commit, CommitFails, Publish, CreateDLQRow, MarkDeliveryFailed,
       MarkNotificationFailed, DLQLoop, Shutdown, Rebalance, Chan!Rebalance, cLoop
  <2> QED
    BY <1>1, <2>1, <2>2, <2>3, <2>4, <2>5, <2>6 DEF Next, MidHandler
<1>2. ASSUME dStep' # "create" PROVE dPc' = "handle" /\ dlqRows'[dMsg'] > 0
  <2>1. ASSUME dStep # "create", UNCHANGED <<dPc, dCur>>
        PROVE  dPc' = "handle" /\ dlqRows'[dMsg'] > 0
    <3>1. dPc = "handle" /\ dlqRows[dMsg] > 0
      BY <2>1 DEF MidHandler
    <3>2. dMsg \in Notifications /\ dCur[2] \in 1..Len(dlq["p"])
      BY <3>1, DeadInHand
    <3>3. dMsg' = dMsg
      BY <2>1, <3>2, HistoryGrows DEF dMsg
    <3>4. dlqRows'[dMsg] > 0
      BY <3>1, <3>2, HistoryGrows
    <3> QED
      BY <2>1, <3>1, <3>3, <3>4
  <2>2. ASSUME CreateDLQRow PROVE dPc' = "handle" /\ dlqRows'[dMsg'] > 0
    <3>1. dPc = "handle" /\ UNCHANGED <<dPc, dCur, dlq>>
      BY <1>2, <2>2 DEF CreateDLQRow, dLoop
    <3>2. dMsg \in Notifications /\ dMsg' = dMsg
      BY <3>1, DeadInHand DEF dMsg
    <3>3. dlqRows' = [dlqRows EXCEPT ![dMsg] = Bump(dlqRows[dMsg])]
      BY <1>2, <2>2 DEF CreateDLQRow
    <3> QED
      BY <1>b, <3>1, <3>2, <3>3 DEF RowsType
  <2>3. ASSUME DLQLoop PROVE dPc # "handle" /\ UNCHANGED dStep
    BY <2>3 DEF DLQLoop, Dead!Fetch, Dead!FetchFails, Dead!FetchWaitEnds,
       Dead!BackoffEnds, Dead!CommitMessages
  <2>4. ASSUME Restart PROVE dPc # "handle" /\ UNCHANGED dStep
    BY <2>4 DEF Restart, Dead!Restart
  <2>5. ASSUME MarkNotificationFailed \/ Crash PROVE FALSE
    BY <1>2, <2>5 DEF MarkNotificationFailed, Crash
  <2>6. ASSUME MarkDeliveryFailed PROVE dStep # "create" /\ UNCHANGED <<dPc, dCur>>
    BY <2>6 DEF MarkDeliveryFailed, dLoop
  <2>7. ASSUME \/ \E n \in Notifications :
                     \/ Insert(n) \/ Commit(n) \/ CommitFails(n)
                     \/ \E k \in 0..MaxCopies, ok \in BOOLEAN : Publish(n, k, ok)
               \/ \E took, ok \in BOOLEAN : Send(took, ok)
               \/ MarkDelivered \/ ChannelLoop
               \/ \E k \in 0..MaxCopies, ok \in BOOLEAN : PublishDLQ(k, ok)
               \/ Shutdown \/ Rebalance
        PROVE  UNCHANGED <<dStep, dPc, dCur>>
    BY <2>7 DEF Insert, Commit, CommitFails, Publish, Send, MarkDelivered, ChannelLoop,
       PublishDLQ, Shutdown, Rebalance, dLoop
  <2> QED
    BY <1>2, <2>1, <2>2, <2>3, <2>4, <2>5, <2>6, <2>7 DEF Next, MidHandler
<1> QED
  BY <1>1, <1>2 DEF MidHandler

-----------------------------------------------------------------------------
\* The statuses.

LEMMA DeliveryKeepsStatuses ==
    ASSUME RowsType, ChanP!CoverInv, DeadP!CoverInv, MidHandler, StatusIsEarned, Next
    PROVE  StatusIsEarned'
<1> SUFFICES ASSUME NEW n \in Notifications
             PROVE  /\ dstatus'[n] = "delivered" => accepted'[n] > 0
                    /\ dstatus'[n] = "failed" \/ nstatus'[n] = "failed" => dlqRows'[n] > 0
  BY DEF StatusIsEarned
<1>1. /\ dstatus[n] = "delivered" => accepted'[n] > 0
      /\ dstatus[n] = "failed" \/ nstatus[n] = "failed" => dlqRows'[n] > 0
  BY HistoryGrows DEF StatusIsEarned
<1>2. ASSUME MarkDelivered
      PROVE  /\ dstatus'[n] = "delivered" => accepted'[n] > 0
             /\ dstatus'[n] = "failed" \/ nstatus'[n] = "failed" => dlqRows'[n] > 0
  <2>1. cMsg \in Notifications /\ accepted[cMsg] > 0
    BY <1>2, ChanInHand DEF MarkDelivered, MidHandler
  <2>2. dstatus'[n] = dstatus[n] \/ (n = cMsg /\ dstatus'[n] = "delivered")
    BY <1>2, <2>1, UpdateDeliveryType DEF MarkDelivered, Statuses
  <2>3. accepted'[cMsg] > 0 /\ UNCHANGED nstatus
    BY <1>2, <2>1 DEF MarkDelivered
  <2> QED
    BY <1>1, <2>2, <2>3
<1>3. ASSUME MarkDeliveryFailed
      PROVE  /\ dstatus'[n] = "delivered" => accepted'[n] > 0
             /\ dstatus'[n] = "failed" \/ nstatus'[n] = "failed" => dlqRows'[n] > 0
  <2>1. dMsg \in Notifications /\ dlqRows[dMsg] > 0
    BY <1>3, DeadInHand DEF MarkDeliveryFailed, MidHandler
  <2>2. dstatus'[n] = dstatus[n] \/ (n = dMsg /\ dstatus'[n] = "failed")
    BY <1>3, <2>1, UpdateDeliveryType DEF MarkDeliveryFailed, Statuses
  <2>3. dlqRows'[dMsg] > 0 /\ UNCHANGED nstatus
    BY <1>3, <2>1 DEF MarkDeliveryFailed
  <2> QED
    BY <1>1, <2>2, <2>3
<1>4. ASSUME MarkNotificationFailed
      PROVE  /\ dstatus'[n] = "delivered" => accepted'[n] > 0
             /\ dstatus'[n] = "failed" \/ nstatus'[n] = "failed" => dlqRows'[n] > 0
  <2>1. dMsg \in Notifications /\ dlqRows[dMsg] > 0
    BY <1>4, DeadInHand DEF MarkNotificationFailed, MidHandler
  <2>2. nstatus'[n] = nstatus[n] \/ n = dMsg
    BY <1>4 DEF MarkNotificationFailed, RowsType
  <2>3. dlqRows'[dMsg] > 0 /\ UNCHANGED dstatus
    BY <1>4, <2>1 DEF MarkNotificationFailed
  <2> QED
    BY <1>1, <2>2, <2>3
<1>5. \/ MarkDelivered \/ MarkDeliveryFailed \/ MarkNotificationFailed
      \/ UNCHANGED <<nstatus, dstatus>>
  BY DEF Next, Insert, Publish, Commit, CommitFails, Send, ChannelLoop, PublishDLQ,
     CreateDLQRow, DLQLoop, Shutdown, Crash, Restart, Rebalance, rows
<1> QED
  BY <1>1, <1>2, <1>3, <1>4, <1>5

-----------------------------------------------------------------------------
\* The fates.

\* The fates the channel loop adds in a step.
LEMMA ChanNewFates ==
    ASSUME Next
    PROVE  \/ UNCHANGED cFates
           \/ MarkDelivered /\ cFates' = cFates \cup {<<cCur, "handled">>}
           \/ \E k \in 0..MaxCopies, ok \in BOOLEAN :
                 /\ PublishDLQ(k, ok)
                 /\ cPc = "publish"
                 /\ \A x \in cFates' : \/ x \in cFates
                                       \/ x = <<cCur, "dlq">> /\ k > 0
                                       \/ x = <<cCur, "unhandled">>
<1>1. ASSUME NEW took \in BOOLEAN, NEW ok \in BOOLEAN, Send(took, ok)
      PROVE  UNCHANGED cFates
  BY <1>1 DEF Send, Chan!HandlerReturns, cLoop
<1>2. ASSUME MarkDelivered PROVE cFates' = cFates \cup {<<cCur, "handled">>}
  BY <1>2 DEF MarkDelivered, Chan!HandlerReturns, Chan!Become
<1>3. ASSUME ChannelLoop PROVE UNCHANGED cFates
  BY <1>3 DEF ChannelLoop, Chan!Fetch, Chan!FetchFails, Chan!FetchWaitEnds,
     Chan!BackoffEnds, Chan!CommitMessages
<1>4. ASSUME NEW k \in 0..MaxCopies, NEW ok \in BOOLEAN, PublishDLQ(k, ok)
      PROVE  /\ cPc = "publish"
             /\ \A x \in cFates' : \/ x \in cFates
                                   \/ x = <<cCur, "dlq">> /\ k > 0
                                   \/ x = <<cCur, "unhandled">>
  BY <1>4 DEF PublishDLQ, Chan!PublishDLQ
<1>5. ASSUME \/ \E n \in Notifications :
                   \/ Insert(n) \/ Commit(n) \/ CommitFails(n)
                   \/ \E k \in 0..MaxCopies, ok \in BOOLEAN : Publish(n, k, ok)
             \/ CreateDLQRow \/ MarkDeliveryFailed \/ MarkNotificationFailed \/ DLQLoop
             \/ Shutdown \/ Crash \/ Restart \/ Rebalance
      PROVE  UNCHANGED cFates
  BY <1>5 DEF Insert, Commit, CommitFails, Publish, CreateDLQRow, MarkDeliveryFailed,
     MarkNotificationFailed, DLQLoop, Shutdown, Crash, Restart, Chan!Restart, Rebalance,
     Chan!Rebalance, cLoop
<1> QED
  BY <1>1, <1>2, <1>3, <1>4, <1>5 DEF Next

\* The fates the DLQ loop adds in a step.
LEMMA DeadNewFates ==
    ASSUME Next
    PROVE  \/ UNCHANGED dFates
           \/ MarkNotificationFailed /\ dFates' = dFates \cup {<<dCur, "handled">>}
           \/ CreateDLQRow /\ dFates' = dFates \cup {<<dCur, "dropped">>}
<1>1. ASSUME CreateDLQRow PROVE UNCHANGED dFates \/ dFates' = dFates \cup {<<dCur, "dropped">>}
  BY <1>1 DEF CreateDLQRow, Dead!HandlerReturns, Dead!Become, dLoop
<1>2. ASSUME MarkNotificationFailed PROVE dFates' = dFates \cup {<<dCur, "handled">>}
  BY <1>2 DEF MarkNotificationFailed, Dead!HandlerReturns, Dead!Become
<1>3. ASSUME DLQLoop PROVE UNCHANGED dFates
  BY <1>3 DEF DLQLoop, Dead!Fetch, Dead!FetchFails, Dead!FetchWaitEnds,
     Dead!BackoffEnds, Dead!CommitMessages
<1>4. ASSUME \/ \E n \in Notifications :
                   \/ Insert(n) \/ Commit(n) \/ CommitFails(n)
                   \/ \E k \in 0..MaxCopies, ok \in BOOLEAN : Publish(n, k, ok)
             \/ \E took, ok \in BOOLEAN : Send(took, ok)
             \/ MarkDelivered \/ ChannelLoop
             \/ \E k \in 0..MaxCopies, ok \in BOOLEAN : PublishDLQ(k, ok)
             \/ MarkDeliveryFailed \/ Shutdown \/ Crash \/ Restart \/ Rebalance
      PROVE  UNCHANGED dFates
  BY <1>4 DEF Insert, Commit, CommitFails, Publish, Send, MarkDelivered, ChannelLoop,
     PublishDLQ, MarkDeliveryFailed, Shutdown, Crash, Restart, Dead!Restart, Rebalance, dLoop
<1> QED
  BY <1>1, <1>2, <1>3, <1>4 DEF Next

LEMMA DeliveryKeepsChanFates ==
    ASSUME RowsType, ChanP!CoverInv, DeadP!CoverInv, MidHandler, ChanFates, Next
    PROVE  ChanFates'
<1> DEFINE Sound(x) ==
        /\ x[1][2] \in 1..Len(topic'["p"])
        /\ x[2] \in {"handled", "dlq", "unhandled"}
        /\ x[2] = "handled" => accepted'[topic'["p"][x[1][2]]] > 0
        /\ x[2] = "dlq" => \E i \in 1..Len(dlq'["p"]) : dlq'["p"][i] = topic'["p"][x[1][2]]
<1>1. ASSUME NEW x \in cFates PROVE Sound(x)
  <2> DEFINE o == x[1][2]
  <2>1. /\ o \in 1..Len(topic["p"]) /\ x[2] \in {"handled", "dlq", "unhandled"}
        /\ x[2] = "handled" => accepted[topic["p"][o]] > 0
        /\ x[2] = "dlq" => OnDLQ(topic["p"][o])
    BY DEF ChanFates
  <2>2. o \in 1..Len(topic'["p"]) /\ topic'["p"][o] = topic["p"][o]
    BY <2>1, HistoryGrows
  <2>3. topic["p"][o] \in Notifications
    BY <2>1, ChanInHand
  <2>4. x[2] = "handled" => accepted'[topic["p"][o]] > 0
    BY <2>1, <2>3, HistoryGrows
  <2>5. ASSUME OnDLQ(topic["p"][o])
        PROVE  \E i \in 1..Len(dlq'["p"]) : dlq'["p"][i] = topic["p"][o]
    BY <2>5, HistoryGrows DEF OnDLQ
  <2> QED
    BY <2>1, <2>2, <2>4, <2>5
<1>2. ASSUME MarkDelivered PROVE Sound(<<cCur, "handled">>)
  <2>1. cCur[2] \in 1..Len(topic["p"]) /\ accepted[cMsg] > 0 /\ UNCHANGED <<topic, accepted>>
    BY <1>2, ChanInHand DEF MarkDelivered, MidHandler
  <2> QED
    BY <2>1 DEF cMsg
<1>3. ASSUME NEW k \in 0..MaxCopies, NEW ok \in BOOLEAN, PublishDLQ(k, ok), cPc = "publish"
      PROVE  Sound(<<cCur, "unhandled">>) /\ (k > 0 => Sound(<<cCur, "dlq">>))
  <2>1. cCur[2] \in 1..Len(topic["p"]) /\ cMsg \in Notifications /\ UNCHANGED topic
    BY <1>3, ChanInHand DEF PublishDLQ
  <2>2. dlq \in [{"p"} -> Seq(Notifications)] /\ Len(dlq["p"]) \in Nat
    BY DeadInHand
  <2>3. ASSUME k > 0 PROVE \E i \in 1..Len(dlq'["p"]) : dlq'["p"][i] = cMsg
    <3>1. k \in Nat /\ dlq' = With(dlq, cMsg, k)
      BY <1>3 DEF PublishDLQ
    <3>2. Len(With(dlq, cMsg, k)["p"]) = Len(dlq["p"]) + k
      BY <2>1, <2>2, <3>1, AppendedLog
    <3>3. \A i \in Len(dlq["p"]) + 1..Len(dlq["p"]) + k : With(dlq, cMsg, k)["p"][i] = cMsg
      BY <2>1, <2>2, <3>1, AppendedLog
    <3>4. /\ Len(dlq["p"]) + 1 \in Len(dlq["p"]) + 1..Len(dlq["p"]) + k
          /\ Len(dlq["p"]) + 1 \in 1..Len(dlq["p"]) + k
      BY <2>2, <2>3, <3>1
    <3> QED
      BY <3>1, <3>2, <3>3, <3>4
  <2>4. topic'["p"][cCur[2]] = cMsg
    BY <2>1 DEF cMsg
  <2> QED
    BY <2>1, <2>3, <2>4
<1>4. ASSUME NEW x \in cFates' PROVE Sound(x)
  BY <1>1, <1>2, <1>3, ChanNewFates
<1> QED
  BY <1>4 DEF ChanFates, OnDLQ

LEMMA DeliveryKeepsDeadFates ==
    ASSUME RowsType, ChanP!CoverInv, DeadP!CoverInv, MidHandler, DeadFates, Next
    PROVE  DeadFates'
<1> DEFINE Sound(x) ==
        /\ x[1][2] \in 1..Len(dlq'["p"])
        /\ x[2] \in {"handled", "dropped"}
        /\ x[2] = "handled" => dlqRows'[dlq'["p"][x[1][2]]] > 0
<1>1. ASSUME NEW x \in dFates PROVE Sound(x)
  <2> DEFINE o == x[1][2]
  <2>1. /\ o \in 1..Len(dlq["p"]) /\ x[2] \in {"handled", "dropped"}
        /\ x[2] = "handled" => dlqRows[dlq["p"][o]] > 0
    BY DEF DeadFates
  <2>2. o \in 1..Len(dlq'["p"]) /\ dlq'["p"][o] = dlq["p"][o]
    BY <2>1, HistoryGrows
  <2>3. dlq["p"][o] \in Notifications
    BY <2>1, DeadInHand
  <2>4. x[2] = "handled" => dlqRows'[dlq["p"][o]] > 0
    BY <2>1, <2>3, HistoryGrows
  <2> QED
    BY <2>1, <2>2, <2>4
<1>2. ASSUME MarkNotificationFailed PROVE Sound(<<dCur, "handled">>)
  <2>1. dCur[2] \in 1..Len(dlq["p"]) /\ dlqRows[dMsg] > 0 /\ UNCHANGED <<dlq, dlqRows>>
    BY <1>2, DeadInHand DEF MarkNotificationFailed, MidHandler
  <2> QED
    BY <2>1 DEF dMsg
<1>3. ASSUME CreateDLQRow PROVE Sound(<<dCur, "dropped">>)
  <2>1. dCur[2] \in 1..Len(dlq["p"]) /\ UNCHANGED dlq
    BY <1>3, DeadInHand DEF CreateDLQRow
  <2> QED
    BY <2>1
<1>4. ASSUME NEW x \in dFates' PROVE Sound(x)
  BY <1>1, <1>2, <1>3, DeadNewFates
<1> QED
  BY <1>4 DEF DeadFates

-----------------------------------------------------------------------------
\* The invariant.

LEMMA InitDeliveryInv == Init => DeliveryInv
<1> SUFFICES ASSUME Init PROVE DeliveryInv
  OBVIOUS
<1>1. RowsType
  BY DEF Init, RowsType, Statuses
<1>2. ChanP!CoverInv
  <2>1. Chan!Init => ChanP!Init
    BY DEF Chan!Init, ChanP!Init, Chan!NoMessage, ChanP!NoMessage
  <2> QED
    BY <2>1, LoopAssumptions, ChanP!InitCoverInv DEF Init
<1>3. DeadP!CoverInv
  <2>1. Dead!Init => DeadP!Init
    BY DEF Dead!Init, DeadP!Init, Dead!NoMessage, DeadP!NoMessage
  <2> QED
    BY <2>1, LoopAssumptions, DeadP!InitCoverInv DEF Init
<1>4. MidHandler
  BY DEF Init, MidHandler
<1>5. ChanFates /\ DeadFates
  BY DEF Init, Chan!Init, Dead!Init, ChanFates, DeadFates
<1>6. StatusIsEarned
  BY DEF Init, StatusIsEarned
<1> QED
  BY <1>1, <1>2, <1>3, <1>4, <1>5, <1>6 DEF DeliveryInv

LEMMA NextDeliveryInv == DeliveryInv /\ [Next]_vars => DeliveryInv'
<1> SUFFICES ASSUME DeliveryInv, [Next]_vars PROVE DeliveryInv'
  OBVIOUS
<1>1. CASE Next
  <2> USE <1>1 DEF DeliveryInv
  <2>1. RowsType'
    BY DeliveryKeepsType
  <2>2. ChanP!CoverInv'
    BY ChanKeepsCover
  <2>3. DeadP!CoverInv'
    BY DeadKeepsCover
  <2>4. MidHandler'
    BY DeliveryKeepsMidHandler
  <2>5. ChanFates'
    BY DeliveryKeepsChanFates
  <2>6. DeadFates'
    BY DeliveryKeepsDeadFates
  <2>7. StatusIsEarned'
    BY DeliveryKeepsStatuses
  <2> QED
    BY <2>1, <2>2, <2>3, <2>4, <2>5, <2>6, <2>7
<1>2. CASE UNCHANGED vars
  <2>1. UNCHANGED <<tx, nstatus, dstatus, attempts, dlqRows, accepted, topic, cLoop, cStep,
                    dlq, dLoop, dStep, process>>
    BY <1>2 DEF vars, rows
  <2>2. ChanP!CoverInv'
    <3>1. topic \in [{"p"} -> Seq(Notifications)] /\ Len(topic["p"]) \in Nat
      BY ChanInHand DEF DeliveryInv
    <3> QED
      BY <2>1, <3>1, ChanOutside DEF DeliveryInv, cLoop
  <2>3. DeadP!CoverInv'
    <3>1. dlq \in [{"p"} -> Seq(Notifications)] /\ Len(dlq["p"]) \in Nat
      BY DeadInHand DEF DeliveryInv
    <3> QED
      BY <2>1, <3>1, DeadOutside DEF DeliveryInv, dLoop
  <2>4. RowsType'
    BY <2>1 DEF DeliveryInv, RowsType
  <2>5. MidHandler'
    BY <2>1 DEF DeliveryInv, MidHandler, cMsg, dMsg, cLoop, dLoop
  <2>6. ChanFates' /\ DeadFates'
    BY <2>1 DEF DeliveryInv, ChanFates, DeadFates, OnDLQ, cLoop, dLoop
  <2>7. StatusIsEarned'
    BY <2>1 DEF DeliveryInv, StatusIsEarned
  <2> QED
    BY <2>2, <2>3, <2>4, <2>5, <2>6, <2>7 DEF DeliveryInv
<1> QED
  BY <1>1, <1>2

LEMMA AlwaysDeliveryInv == Spec => []DeliveryInv
BY InitDeliveryInv, NextDeliveryInv, PTL DEF Spec

-----------------------------------------------------------------------------
\* The theorems.

\* Rows, topics, offsets and both loops always have their types, whatever the two
\* consumers, the transactions of createAndQueue, crashes and restarts do.
THEOREM DeliveryTypeCorrect == Spec => []TypeOK
<1>1. ChanP!TypeOK => Chan!TypeOK
  BY DEF ChanP!TypeOK, Chan!TypeOK, ChanP!PCs, Chan!PCs, ChanP!Position, Chan!Position,
     ChanP!Fates, Chan!Fates
<1>2. DeadP!TypeOK => Dead!TypeOK
  BY DEF DeadP!TypeOK, Dead!TypeOK, DeadP!PCs, Dead!PCs, DeadP!Position, Dead!Position,
     DeadP!Fates, Dead!Fates
<1>3. DeliveryInv => TypeOK
  BY <1>1, <1>2 DEF DeliveryInv, RowsType, TypeOK, ChanP!CoverInv, DeadP!CoverInv
<1> QED
  BY <1>3, AlwaysDeliveryInv, PTL

\* A row says "delivered" only for what the provider accepted and "failed" only for what
\* has a row in dlq_messages: the statuses that UpdateStatus writes do not lie, in any
\* interleaving of the channel consumer, the DLQ consumer and redeliveries.
THEOREM DeliveryStatusesAreEarned == Spec => []StatusIsEarned
<1>1. DeliveryInv => StatusIsEarned
  BY DEF DeliveryInv
<1> QED
  BY <1>1, AlwaysDeliveryInv, PTL

\* A topic with n on it has a copy of n.
LEMMA CopiesArePositive ==
    ASSUME NEW log \in [{"p"} -> Seq(Notifications)], NEW o \in 1..Len(log["p"])
    PROVE  Copies(log, log["p"][o]) > 0
<1> DEFINE S == {i \in 1..Len(log["p"]) : log["p"][i] = log["p"][o]}
<1>1. Len(log["p"]) \in Nat
  BY LenProperties
<1>2. IsFiniteSet(1..Len(log["p"]))
  BY <1>1, FS_Interval
<1>3. IsFiniteSet(S)
  BY <1>2, FS_Subset
<1>4. S # {}
  OBVIOUS
<1>5. Cardinality(S) \in Nat /\ Cardinality(S) # 0
  BY <1>3, <1>4, FS_CardinalityType, FS_EmptySet
<1> QED
  BY <1>5 DEF Copies

\* What a committed offset covers was accepted by the provider or handed to the DLQ topic,
\* and what is committed there has its row, apart from the two losses the code allows: the
\* failed DLQ publish after which Run goes on, and the DLQ handler's last failed attempt.
THEOREM DeliveryNothingVanishes == Spec => []NothingVanishes
<1>1. ASSUME DeliveryInv, NEW o \in 1..cCommitted["p"]
      PROVE  \/ accepted[topic["p"][o]] > 0
             \/ Copies(dlq, topic["p"][o]) > 0
             \/ <<<<"p", o>>, "unhandled">> \in cFates
  <2>1. PICK f \in ChanP!Fates : <<<<"p", o>>, f>> \in cFates
    BY <1>1 DEF DeliveryInv, ChanP!CoverInv, ChanP!CommitCovers, ChanP!HasFate
  <2>2. /\ f \in {"handled", "dlq", "unhandled"}
        /\ f = "handled" => accepted[topic["p"][o]] > 0
        /\ f = "dlq" => OnDLQ(topic["p"][o])
    BY <1>1, <2>1 DEF DeliveryInv, ChanFates
  <2>3. ASSUME OnDLQ(topic["p"][o]) PROVE Copies(dlq, topic["p"][o]) > 0
    <3>1. dlq \in [{"p"} -> Seq(Notifications)]
      BY <1>1, DeadInHand DEF DeliveryInv
    <3>2. PICK i \in 1..Len(dlq["p"]) : dlq["p"][i] = topic["p"][o]
      BY <2>3 DEF OnDLQ
    <3>3. Copies(dlq, dlq["p"][i]) > 0
      BY <3>1, CopiesArePositive
    <3> QED
      BY <3>2, <3>3
  <2> QED
    BY <2>1, <2>2, <2>3
<1>2. ASSUME DeliveryInv, NEW o \in 1..dCommitted["p"]
      PROVE  dlqRows[dlq["p"][o]] > 0 \/ <<<<"p", o>>, "dropped">> \in dFates
  <2>1. PICK f \in DeadP!Fates : <<<<"p", o>>, f>> \in dFates
    BY <1>2 DEF DeliveryInv, DeadP!CoverInv, DeadP!CommitCovers, DeadP!HasFate
  <2>2. f \in {"handled", "dropped"} /\ (f = "handled" => dlqRows[dlq["p"][o]] > 0)
    BY <1>2, <2>1 DEF DeliveryInv, DeadFates
  <2> QED
    BY <2>1, <2>2
<1>3. DeliveryInv => NothingVanishes
  BY <1>1, <1>2 DEF NothingVanishes
<1> QED
  BY <1>3, AlwaysDeliveryInv, PTL
=============================================================================
