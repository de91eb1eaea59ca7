----------------------------- MODULE CronsProofs ----------------------------
(***************************************************************************)
(* Proofs about the crons, for any number of notifications, faults,        *)
(* restarts and deployments: none is forgotten, none is published twice    *)
(* without a cause, and a closed producer has no user left.                *)
(***************************************************************************)
EXTENDS Crons, FiniteSetTheorems, TLAPS

\* A notification that is not accepted yet has left no trace.
AbsentIsBlank ==
    \A n \in Notifications : row[n] = "absent" =>
        job[n] = "off" /\ copies[n] = 0 /\ n \notin fired

\* What is past Publish, or waits for a consumer, has reached the topic, or was
\* requeued without Kafka.
JobsArePublished ==
    \A n \in Notifications :
        /\ job[n] \in {"notification", "delivery", "mark"} => copies[n] > 0 \/ n \in skipped
        /\ unread[n] > 0 => copies[n] > 0

\* Each message of a row that is still open, and each of one whose goroutine is on
\* its way to Publish, is already accounted for: the next one is the first, or has
\* a cause.
CopiesAreCaused ==
    \A n \in Notifications :
        /\ Open(n) /\ ~Unrecorded(n) => copies[n] <= again[n]
        /\ job[n] \in {"start", "load", "publish"} => copies[n] <= again[n]

\* The inductive invariant.  NothingForgotten needs JobsArePublished, to know that
\* a goroutine which closes a row has published it; DuplicatesAreExplained needs
\* CopiesAreCaused, to know that a goroutine which publishes is entitled to.
CronsInv ==
    /\ TypeOK
    /\ ClosedIsQuiet
    /\ AbsentIsBlank
    /\ JobsArePublished
    /\ NothingForgotten
    /\ CopiesAreCaused
    /\ DuplicatesAreExplained

-----------------------------------------------------------------------------

\* Before the first request nothing is owed.
LEMMA InitCronsInv == Init => CronsInv
  <1> SUFFICES ASSUME Init PROVE CronsInv
    OBVIOUS
  <1> USE CronsAssumption DEF CronsAssumption, Init
  <1>1. TypeOK
    BY DEF TypeOK
  <1>2. ClosedIsQuiet /\ AbsentIsBlank /\ JobsArePublished
    BY DEF ClosedIsQuiet, AbsentIsBlank, JobsArePublished
  <1>3. NothingForgotten /\ CopiesAreCaused /\ DuplicatesAreExplained
    BY DEF NothingForgotten, CopiesAreCaused, DuplicatesAreExplained, Open
  <1> QED
    BY <1>1, <1>2, <1>3 DEF CronsInv

\* Every step keeps the types.
LEMMA CronsKeepType ==
    ASSUME CronsInv, [Next]_vars
    PROVE  TypeOK'
  <1> USE CronsAssumption DEF CronsAssumption, CronsInv, TypeOK, rows, statuses, topic, main
  <1>1. ASSUME NEW n \in Notifications,
               \/ \E delay \in Delays : AcceptScheduled(n, delay)
               \/ AcceptLimited(n) \/ Step(n) \/ Deliver(n) \/ DeadLetter(n)
        PROVE  TypeOK'
    <2>1. CASE \E delay \in Delays : AcceptScheduled(n, delay)
      BY <2>1 DEF AcceptScheduled
    <2>2. CASE AcceptLimited(n)
      BY <2>2 DEF AcceptLimited
    <2>3. CASE \E allowed \in BOOLEAN : Allow(n, allowed)
      BY <2>3 DEF Allow, Works, Goto
    <2>4. CASE StartFire(n)
      BY <2>4 DEF StartFire, Goto
    <2>5. CASE Load(n)
      BY <2>5 DEF Load, Works, Goto
    <2>6. CASE ReadFails(n)
      BY <2>6 DEF ReadFails, Fault, Goto
    <2>7. CASE Publish(n)
      BY <2>7 DEF Publish, Works, AppendMessage, Goto
    <2>8. CASE \E took \in BOOLEAN : PublishFails(n, took)
      BY <2>8 DEF PublishFails, Fault, AppendMessage, Goto
    <2>9. CASE \E ok \in BOOLEAN : UpdateNotification(n, ok)
      BY <2>9 DEF UpdateNotification, Works, Fault, Goto
    <2>10. CASE \E ok \in BOOLEAN : SetDelivery(n, ok)
      BY <2>10 DEF SetDelivery, Works, Fault, Goto
    <2>11. CASE \E ok \in BOOLEAN : MarkFired(n, ok)
      BY <2>11 DEF MarkFired, Works, Fault, Goto
    <2>12. CASE FirePanics(n)
      BY <2>12 DEF FirePanics, Die
    <2>13. CASE Deliver(n)
      BY <2>13 DEF Deliver
    <2>14. CASE DeadLetter(n)
      BY <2>14 DEF DeadLetter
    <2> QED
      BY <1>1, <2>1, <2>2, <2>3, <2>4, <2>5, <2>6, <2>7,
         <2>8, <2>9, <2>10, <2>11, <2>12, <2>13, <2>14 DEF Step
  <1>2. CASE \E c \in {"scheduler", "replayer"} : Tick(c)
    BY <1>2 DEF Tick, Batches, Due, Limited, Jobs
  <1>3. CASE Cleanup
    BY <1>3 DEF Cleanup, Expired
  <1>4. CASE Clock
    BY <1>4 DEF Clock
  <1>5. CASE Signal
    BY <1>5 DEF Signal
  <1>6. CASE CloseProducer
    BY <1>6 DEF CloseProducer
  <1>7. CASE Exit
    BY <1>7 DEF Exit
  <1>8. CASE Crash
    BY <1>8 DEF Crash, Die
  <1>9. CASE Restart
    BY <1>9 DEF Restart
  <1>10. CASE UNCHANGED vars
    BY <1>10 DEF vars
  <1> QED
    BY <1>1, <1>2, <1>3, <1>4, <1>5, <1>6, <1>7, <1>8, <1>9, <1>10 DEF Next

\* Only a process that has waited for its goroutines closes the producer.
LEMMA CronsKeepQuiet ==
    ASSUME CronsInv, [Next]_vars
    PROVE  ClosedIsQuiet'
  <1> USE DEF CronsInv, TypeOK, rows, statuses, topic, main, ClosedIsQuiet, AbsentIsBlank
  <1>1. ASSUME NEW n \in Notifications,
               \/ \E delay \in Delays : AcceptScheduled(n, delay)
               \/ AcceptLimited(n) \/ Step(n) \/ Deliver(n) \/ DeadLetter(n)
        PROVE  ClosedIsQuiet'
    <2>1. CASE \E delay \in Delays : AcceptScheduled(n, delay)
      BY <2>1 DEF AcceptScheduled
    <2>2. CASE AcceptLimited(n)
      BY <2>2 DEF AcceptLimited
    <2>3. CASE \E allowed \in BOOLEAN : Allow(n, allowed)
      BY <2>3 DEF Allow, Works, Goto
    <2>4. CASE StartFire(n)
      BY <2>4 DEF StartFire, Goto
    <2>5. CASE Load(n)
      BY <2>5 DEF Load, Works, Goto
    <2>6. CASE ReadFails(n)
      BY <2>6 DEF ReadFails, Fault, Goto
    <2>7. CASE Publish(n)
      BY <2>7 DEF Publish, Works, AppendMessage, Goto
    <2>8. CASE \E took \in BOOLEAN : PublishFails(n, took)
      BY <2>8 DEF PublishFails, Fault, AppendMessage, Goto
    <2>9. CASE \E ok \in BOOLEAN : UpdateNotification(n, ok)
      BY <2>9 DEF UpdateNotification, Works, Fault, Goto
    <2>10. CASE \E ok \in BOOLEAN : SetDelivery(n, ok)
      BY <2>10 DEF SetDelivery, Works, Fault, Goto
    <2>11. CASE \E ok \in BOOLEAN : MarkFired(n, ok)
      BY <2>11 DEF MarkFired, Works, Fault, Goto
    <2>12. CASE FirePanics(n)
      BY <2>12 DEF FirePanics, Die
    <2>13. CASE Deliver(n)
      BY <2>13 DEF Deliver
    <2>14. CASE DeadLetter(n)
      BY <2>14 DEF DeadLetter
    <2> QED
      BY <1>1, <2>1, <2>2, <2>3, <2>4, <2>5, <2>6, <2>7,
         <2>8, <2>9, <2>10, <2>11, <2>12, <2>13, <2>14 DEF Step
  <1>2. CASE \E c \in {"scheduler", "replayer"} : Tick(c)
    BY <1>2 DEF Tick, Batches, Due, Limited, Jobs
  <1>3. CASE Cleanup
    BY <1>3 DEF Cleanup, Expired
  <1>4. CASE Clock
    BY <1>4 DEF Clock
  <1>5. CASE Signal
    BY <1>5 DEF Signal
  <1>6. CASE CloseProducer
    BY <1>6 DEF CloseProducer
  <1>7. CASE Exit
    BY <1>7 DEF Exit
  <1>8. CASE Crash
    BY <1>8 DEF Crash, Die
  <1>9. CASE Restart
    BY <1>9 DEF Restart
  <1>10. CASE UNCHANGED vars
    BY <1>10 DEF vars
  <1> QED
    BY <1>1, <1>2, <1>3, <1>4, <1>5, <1>6, <1>7, <1>8, <1>9, <1>10 DEF Next

\* A trace is left by accepted notifications only, and a goroutine is past Publish
\* only with a message.
LEMMA CronsKeepTraces ==
    ASSUME CronsInv, [Next]_vars
    PROVE  (AbsentIsBlank /\ JobsArePublished)'
  <1> USE DEF CronsInv, TypeOK, rows, statuses, topic, main, AbsentIsBlank,
          JobsArePublished, Open
  <1>1. ASSUME NEW n \in Notifications,
               \/ \E delay \in Delays : AcceptScheduled(n, delay)
               \/ AcceptLimited(n) \/ Step(n) \/ Deliver(n) \/ DeadLetter(n)
        PROVE  (AbsentIsBlank /\ JobsArePublished)'
    <2>1. CASE \E delay \in Delays : AcceptScheduled(n, delay)
      BY <2>1 DEF AcceptScheduled
    <2>2. CASE AcceptLimited(n)
      BY <2>2 DEF AcceptLimited
    <2>3. CASE \E allowed \in BOOLEAN : Allow(n, allowed)
      BY <2>3 DEF Allow, Works, Goto
    <2>4. CASE StartFire(n)
      BY <2>4 DEF StartFire, Goto
    <2>5. CASE Load(n)
      BY <2>5 DEF Load, Works, Goto
    <2>6. CASE ReadFails(n)
      BY <2>6 DEF ReadFails, Fault, Goto
    <2>7. CASE Publish(n)
      BY <2>7 DEF Publish, Works, AppendMessage, Goto
    <2>8. CASE \E took \in BOOLEAN : PublishFails(n, took)
      BY <2>8 DEF PublishFails, Fault, AppendMessage, Goto
    <2>9. CASE \E ok \in BOOLEAN : UpdateNotification(n, ok)
      BY <2>9 DEF UpdateNotification, Works, Fault, Goto
    <2>10. CASE \E ok \in BOOLEAN : SetDelivery(n, ok)
      BY <2>10 DEF SetDelivery, Works, Fault, Goto
    <2>11. CASE \E ok \in BOOLEAN : MarkFired(n, ok)
      BY <2>11 DEF MarkFired, Works, Fault, Goto
    <2>12. CASE FirePanics(n)
      BY <2>12 DEF FirePanics, Die
    <2>13. CASE Deliver(n)
      BY <2>13 DEF Deliver
    <2>14. CASE DeadLetter(n)
      BY <2>14 DEF DeadLetter
    <2> QED
      BY <1>1, <2>1, <2>2, <2>3, <2>4, <2>5, <2>6, <2>7,
         <2>8, <2>9, <2>10, <2>11, <2>12, <2>13, <2>14 DEF Step
  <1>2. CASE \E c \in {"scheduler", "replayer"} : Tick(c)
    BY <1>2 DEF Tick, Batches, Due, Limited, Jobs
  <1>3. CASE Cleanup
    BY <1>3 DEF Cleanup, Expired
  <1>4. CASE Clock
    BY <1>4 DEF Clock
  <1>5. CASE Signal
    BY <1>5 DEF Signal
  <1>6. CASE CloseProducer
    BY <1>6 DEF CloseProducer
  <1>7. CASE Exit
    BY <1>7 DEF Exit
  <1>8. CASE Crash
    BY <1>8 DEF Crash, Die
  <1>9. CASE Restart
    BY <1>9 DEF Restart
  <1>10. CASE UNCHANGED vars
    BY <1>10 DEF vars
  <1> QED
    BY <1>1, <1>2, <1>3, <1>4, <1>5, <1>6, <1>7, <1>8, <1>9, <1>10 DEF Next

\* Whatever closes a row has published it.
LEMMA CronsForgetNothing ==
    ASSUME CronsInv, [Next]_vars
    PROVE  NothingForgotten'
  <1> USE DEF CronsInv, TypeOK, rows, statuses, topic, main, AbsentIsBlank,
          JobsArePublished, NothingForgotten, Open
  <1>1. ASSUME NEW n \in Notifications,
               \/ \E delay \in Delays : AcceptScheduled(n, delay)
               \/ AcceptLimited(n) \/ Step(n) \/ Deliver(n) \/ DeadLetter(n)
        PROVE  NothingForgotten'
    <2>1. CASE \E delay \in Delays : AcceptScheduled(n, delay)
      BY <2>1 DEF AcceptScheduled
    <2>2. CASE AcceptLimited(n)
      BY <2>2 DEF AcceptLimited
    <2>3. CASE \E allowed \in BOOLEAN : Allow(n, allowed)
      BY <2>3 DEF Allow, Works, Goto
    <2>4. CASE StartFire(n)
      BY <2>4 DEF StartFire, Goto
    <2>5. CASE Load(n)
      BY <2>5 DEF Load, Works, Goto
    <2>6. CASE ReadFails(n)
      BY <2>6 DEF ReadFails, Fault, Goto
    <2>7. CASE Publish(n)
      BY <2>7 DEF Publish, Works, AppendMessage, Goto
    <2>8. CASE \E took \in BOOLEAN : PublishFails(n, took)
      BY <2>8 DEF PublishFails, Fault, AppendMessage, Goto
    <2>9. CASE \E ok \in BOOLEAN : UpdateNotification(n, ok)
      BY <2>9 DEF UpdateNotification, Works, Fault, Goto
    <2>10. CASE \E ok \in BOOLEAN : SetDelivery(n, ok)
      BY <2>10 DEF SetDelivery, Works, Fault, Goto
    <2>11. CASE \E ok \in BOOLEAN : MarkFired(n, ok)
      BY <2>11 DEF MarkFired, Works, Fault, Goto
    <2>12. CASE FirePanics(n)
      BY <2>12 DEF FirePanics, Die
    <2>13. CASE Deliver(n)
      BY <2>13 DEF Deliver
    <2>14. CASE DeadLetter(n)
      BY <2>14 DEF DeadLetter
    <2> QED
      BY <1>1, <2>1, <2>2, <2>3, <2>4, <2>5, <2>6, <2>7,
         <2>8, <2>9, <2>10, <2>11, <2>12, <2>13, <2>14 DEF Step
  <1>2. CASE \E c \in {"scheduler", "replayer"} : Tick(c)
    BY <1>2 DEF Tick, Batches, Due, Limited, Jobs
  <1>3. CASE Cleanup
    BY <1>3 DEF Cleanup, Expired
  <1>4. CASE Clock
    BY <1>4 DEF Clock
  <1>5. CASE Signal
    BY <1>5 DEF Signal
  <1>6. CASE CloseProducer
    BY <1>6 DEF CloseProducer
  <1>7. CASE Exit
    BY <1>7 DEF Exit
  <1>8. CASE Crash
    BY <1>8 DEF Crash, Die
  <1>9. CASE Restart
    BY <1>9 DEF Restart
  <1>10. CASE UNCHANGED vars
    BY <1>10 DEF vars
  <1> QED
    BY <1>1, <1>2, <1>3, <1>4, <1>5, <1>6, <1>7, <1>8, <1>9, <1>10 DEF Next

\* A message beyond the first follows a publication that went unrecorded.
LEMMA CronsKeepCauses ==
    ASSUME CronsInv, [Next]_vars
    PROVE  (CopiesAreCaused /\ DuplicatesAreExplained)'
  <1> USE DEF CronsInv, TypeOK, rows, statuses, topic, main, ClosedIsQuiet, AbsentIsBlank,
          CopiesAreCaused, DuplicatesAreExplained, Open, Unrecorded
  <1>1. ASSUME NEW n \in Notifications,
               \/ \E delay \in Delays : AcceptScheduled(n, delay)
               \/ AcceptLimited(n) \/ Step(n) \/ Deliver(n) \/ DeadLetter(n)
        PROVE  (CopiesAreCaused /\ DuplicatesAreExplained)'
    <2>1. CASE \E delay \in Delays : AcceptScheduled(n, delay)
      BY <2>1 DEF AcceptScheduled
    <2>2. CASE AcceptLimited(n)
      BY <2>2 DEF AcceptLimited
    <2>3. CASE \E allowed \in BOOLEAN : Allow(n, allowed)
      BY <2>3 DEF Allow, Works, Goto
    <2>4. CASE StartFire(n)
      BY <2>4 DEF StartFire, Goto
    <2>5. CASE Load(n)
      BY <2>5 DEF Load, Works, Goto
    <2>6. CASE ReadFails(n)
      BY <2>6 DEF ReadFails, Fault, Goto
    <2>7. CASE Publish(n)
      BY <2>7 DEF Publish, Works, AppendMessage, Goto
    <2>8. CASE \E took \in BOOLEAN : PublishFails(n, took)
      BY <2>8 DEF PublishFails, Fault, AppendMessage, Goto
    <2>9. CASE \E ok \in BOOLEAN : UpdateNotification(n, ok)
      BY <2>9 DEF UpdateNotification, Works, Fault, Goto
    <2>10. CASE \E ok \in BOOLEAN : SetDelivery(n, ok)
      BY <2>10 DEF SetDelivery, Works, Fault, Goto
    <2>11. CASE \E ok \in BOOLEAN : MarkFired(n, ok)
      BY <2>11 DEF MarkFired, Works, Fault, Goto
    <2>12. CASE FirePanics(n)
      BY <2>12 DEF FirePanics, Die
    <2>13. CASE Deliver(n)
      BY <2>13 DEF Deliver
    <2>14. CASE DeadLetter(n)
      BY <2>14 DEF DeadLetter
    <2> QED
      BY <1>1, <2>1, <2>2, <2>3, <2>4, <2>5, <2>6, <2>7,
         <2>8, <2>9, <2>10, <2>11, <2>12, <2>13, <2>14 DEF Step
  <1>2. CASE \E c \in {"scheduler", "replayer"} : Tick(c)
    BY <1>2 DEF Tick, Batches, Due, Limited, Jobs
  <1>3. CASE Cleanup
    BY <1>3 DEF Cleanup, Expired
  <1>4. CASE Clock
    BY <1>4 DEF Clock
  <1>5. CASE Signal
    BY <1>5 DEF Signal
  <1>6. CASE CloseProducer
    BY <1>6 DEF CloseProducer
  <1>7. CASE Exit
    BY <1>7 DEF Exit
  <1>8. CASE Crash
    BY <1>8 DEF Crash, Die
  <1>9. CASE Restart
    BY <1>9 DEF Restart
  <1>10. CASE UNCHANGED vars
    BY <1>10 DEF vars
  <1> QED
    BY <1>1, <1>2, <1>3, <1>4, <1>5, <1>6, <1>7, <1>8, <1>9, <1>10 DEF Next

\* The invariant is inductive.
LEMMA NextCronsInv == CronsInv /\ [Next]_vars => CronsInv'
  <1> SUFFICES ASSUME CronsInv, [Next]_vars PROVE CronsInv'
    OBVIOUS
  <1> QED
    BY CronsKeepType, CronsKeepQuiet, CronsKeepTraces, CronsForgetNothing, CronsKeepCauses
       DEF CronsInv

\* It holds initially, and every step of the crons and of main keeps it.
LEMMA AlwaysCronsInv == Spec => []CronsInv
  <1> QED
    BY InitCronsInv, NextCronsInv, PTL DEF Spec

\* No step takes up a notification that the crons are through with.
LEMMA CronsLeaveDone ==
    ASSUME CronsInv, [Next]_vars
    PROVE  \A m \in Notifications : Done(m) => LeftAlone(m)
  <1> USE DEF CronsInv, TypeOK, rows, statuses, topic, main, Done, LeftAlone, Open
  <1>1. ASSUME NEW n \in Notifications,
               \/ \E delay \in Delays : AcceptScheduled(n, delay)
               \/ AcceptLimited(n) \/ Step(n) \/ Deliver(n) \/ DeadLetter(n)
        PROVE  \A m \in Notifications : Done(m) => LeftAlone(m)
    <2>1. CASE \E delay \in Delays : AcceptScheduled(n, delay)
      BY <2>1 DEF AcceptScheduled
    <2>2. CASE AcceptLimited(n)
      BY <2>2 DEF AcceptLimited
    <2>3. CASE \E allowed \in BOOLEAN : Allow(n, allowed)
      BY <2>3 DEF Allow, Works, Goto
    <2>4. CASE StartFire(n)
      BY <2>4 DEF StartFire, Goto
    <2>5. CASE Load(n)
      BY <2>5 DEF Load, Works, Goto
    <2>6. CASE ReadFails(n)
      BY <2>6 DEF ReadFails, Fault, Goto
    <2>7. CASE Publish(n)
      BY <2>7 DEF Publish, Works, AppendMessage, Goto
    <2>8. CASE \E took \in BOOLEAN : PublishFails(n, took)
      BY <2>8 DEF PublishFails, Fault, AppendMessage, Goto
    <2>9. CASE \E ok \in BOOLEAN : UpdateNotification(n, ok)
      BY <2>9 DEF UpdateNotification, Works, Fault, Goto
    <2>10. CASE \E ok \in BOOLEAN : SetDelivery(n, ok)
      BY <2>10 DEF SetDelivery, Works, Fault, Goto
    <2>11. CASE \E ok \in BOOLEAN : MarkFired(n, ok)
      BY <2>11 DEF MarkFired, Works, Fault, Goto
    <2>12. CASE FirePanics(n)
      BY <2>12 DEF FirePanics, Die
    <2>13. CASE Deliver(n)
      BY <2>13 DEF Deliver
    <2>14. CASE DeadLetter(n)
      BY <2>14 DEF DeadLetter
    <2> QED
      BY <1>1, <2>1, <2>2, <2>3, <2>4, <2>5, <2>6, <2>7,
         <2>8, <2>9, <2>10, <2>11, <2>12, <2>13, <2>14 DEF Step
  <1>2. CASE \E c \in {"scheduler", "replayer"} : Tick(c)
    BY <1>2 DEF Tick, Batches, Due, Limited, Jobs
  <1>3. CASE Cleanup
    BY <1>3 DEF Cleanup, Expired
  <1>4. CASE Clock
    BY <1>4 DEF Clock
  <1>5. CASE Signal
    BY <1>5 DEF Signal
  <1>6. CASE CloseProducer
    BY <1>6 DEF CloseProducer
  <1>7. CASE Exit
    BY <1>7 DEF Exit
  <1>8. CASE Crash
    BY <1>8 DEF Crash, Die
  <1>9. CASE Restart
    BY <1>9 DEF Restart
  <1>10. CASE UNCHANGED vars
    BY <1>10 DEF vars
  <1> QED
    BY <1>1, <1>2, <1>3, <1>4, <1>5, <1>6, <1>7, <1>8, <1>9, <1>10 DEF Next

-----------------------------------------------------------------------------

\* Every variable of the crons keeps its type.
THEOREM CronsTypeCorrect == Spec => []TypeOK
  <1>1. CronsInv => TypeOK
    BY DEF CronsInv
  <1> QED
    BY <1>1, AlwaysCronsInv, PTL

\* fireOne and replayOne close a row only after its message has reached the topic
\* (or, in a deployment without Kafka, was skipped), whatever fails, crashes or
\* restarts.
THEOREM CronsNothingForgotten == Spec => []NothingForgotten
  <1>1. CronsInv => NothingForgotten
    BY DEF CronsInv
  <1> QED
    BY <1>1, AlwaysCronsInv, PTL

\* The crons publish a notification again only for a publication they could not
\* record.
THEOREM CronsExplainDuplicates == Spec => []DuplicatesAreExplained
  <1>1. CronsInv => DuplicatesAreExplained
    BY DEF CronsInv
  <1> QED
    BY <1>1, AlwaysCronsInv, PTL

\* prod.Close comes after the last goroutine of a cron has returned.
THEOREM CronsCloseQuietly == Spec => []ClosedIsQuiet
  <1>1. CronsInv => ClosedIsQuiet
    BY DEF CronsInv
  <1> QED
    BY <1>1, AlwaysCronsInv, PTL

\* A notification the crons are through with is never published again, and its
\* consumers' verdict stays.
THEOREM CronsDoneIsDone == Spec => DoneIsDone
  <1>1. CronsInv /\ [Next]_vars => [\A n \in Notifications : Done(n) => LeftAlone(n)]_vars
    BY CronsLeaveDone
  <1> QED
    BY <1>1, AlwaysCronsInv, PTL DEF Spec, DoneIsDone

\* The batch of tickOnce or replayOnce holds a row that is not stuck, if there is one,
\* for any table and any LIMIT that the stuck rows do not fill.
THEOREM CronsBatchReachesOthers == Spec => []BatchReachesOthers
  <1>1. BatchReachesOthers
    <2> USE CronsAssumption DEF CronsAssumption
    <2> SUFFICES ASSUME Cardinality(Stuck) < BatchSize,
                        NEW S \in {Due, Limited}, NEW B \in Batches(S),
                        B \subseteq Stuck
                 PROVE  S \subseteq Stuck
      BY DEF BatchReachesOthers
    <2>1. S \subseteq Notifications /\ B \subseteq S
      BY DEF Due, Limited, Batches
    <2>2. IsFiniteSet(S) /\ IsFiniteSet(Stuck)
      BY <2>1, FS_Subset
    <2>3. IsFiniteSet(B) /\ Cardinality(B) <= Cardinality(Stuck)
      BY <2>2, FS_Subset
    <2>4. /\ Cardinality(B) \in Nat /\ Cardinality(Stuck) \in Nat /\ Cardinality(S) \in Nat
          /\ BatchSize \in Nat
      BY <2>2, <2>3, FS_CardinalityType
    <2>5. Cardinality(B) = IF Cardinality(S) < BatchSize THEN Cardinality(S) ELSE BatchSize
      BY DEF Batches
    <2>6. Cardinality(B) = Cardinality(S)
      BY <2>3, <2>4, <2>5
    <2> QED
      BY <2>1, <2>2, <2>6, FS_Subset
  <1> QED
    BY <1>1, PTL
=============================================================================
