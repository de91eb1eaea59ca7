--------------------------- MODULE AttemptsProofs ---------------------------
(***************************************************************************)
(* The proof that notification_deliveries.attempts counts outcomes and not *)
(* retries, for any number of notifications, copies, retries, crashes,     *)
(* shutdowns and rebalances: each reading of a copy adds at most one, and  *)
(* each disruption makes the readers read their topics at most once more.  *)
(***************************************************************************)
EXTENDS DeliveryProofs

\* Copies of n among the first pos messages of a topic.
Passed(log, pos, n) == Cardinality({o \in 1..pos : log["p"][o] = n})

\* Copies of n that each reader has handed out since it was last set back.
ChanPassed(n) == Passed(topic, cPos["p"], n)
DeadPassed(n) == Passed(dlq, dPos["p"], n)

\* The message in hand is n and may still add one to attempts.
ChanOwes(n) == IF cPc \in {"handle", "backoff"} /\ cMsg = n THEN 1 ELSE 0
DeadOwes(n) ==
    IF dPc \in {"handle", "backoff"} /\ dStep # "notification" /\ dMsg = n THEN 1 ELSE 0

\* A disruption after which the readers have not been set back yet.
Ended == ctxDone \/ cPc = "stopped" \/ dPc = "stopped"

\* How often the readers have been set back, at most.
Rereads == IF Ended THEN disruptions - 1 ELSE disruptions

\* The inductive form of AttemptsCountOutcomes.
AttemptsInv ==
    /\ Ended => disruptions > 0
    /\ \A n \in Notifications :
          attempts[n] + ChanOwes(n) + DeadOwes(n) <=
              Rereads * (Copies(topic, n) + Copies(dlq, n)) + (ChanPassed(n) + DeadPassed(n))

AttemptsFullInv == DeliveryInv /\ AttemptsInv

-----------------------------------------------------------------------------
\* Arithmetic.

LEMMA ProductsGrow ==
    ASSUME NEW e \in Nat, NEW f \in Nat, NEW s \in Nat, NEW t \in Nat, e <= f, s <= t
    PROVE  e * s \in Nat /\ f * t \in Nat /\ e * s <= f * t
<1>1. PICK i \in Nat : f = e + i
  <2>1. f - e \in Nat /\ f = e + (f - e)
    OBVIOUS
  <2> QED
    BY <2>1
<1>2. PICK j \in Nat : t = s + j
  <2>1. t - s \in Nat /\ t = s + (t - s)
    OBVIOUS
  <2> QED
    BY <2>1
<1>3. \A x, y \in Nat : x * y \in Nat
  OBVIOUS
<1>4. (e + i) * (s + j) = e * s + e * j + i * s + i * j
  OBVIOUS
<1>5. e * s \in Nat /\ e * j \in Nat /\ i * s \in Nat /\ i * j \in Nat
  BY <1>3
<1> HIDE <1>3
<1>6. f * t = e * s + e * j + i * s + i * j
  BY <1>1, <1>2, <1>4
<1> QED
  BY <1>5, <1>6

\* A step that adds no more than the readers pass keeps the bound.
LEMMA BoundIsKept ==
    ASSUME NEW a \in Nat, NEW e \in Nat, NEW s \in Nat, NEW p \in Nat,
           NEW a1 \in Nat, NEW e1 \in Nat, NEW s1 \in Nat, NEW p1 \in Nat,
           a <= e * s + p, a1 + p <= a + p1, e <= e1, s <= s1
    PROVE  a1 <= e1 * s1 + p1
<1>1. e * s \in Nat /\ e1 * s1 \in Nat /\ e * s <= e1 * s1
  BY ProductsGrow
<1> QED
  BY <1>1

\* A step that adds nothing and sets the readers back keeps it too.
LEMMA BoundIsKeptByReset ==
    ASSUME NEW a \in Nat, NEW e \in Nat, NEW s \in Nat, NEW p \in Nat,
           NEW a1 \in Nat, NEW e1 \in Nat, NEW s1 \in Nat, NEW p1 \in Nat,
           a <= e * s + p, a1 <= a, p <= s, e1 = e + 1, s <= s1
    PROVE  a1 <= e1 * s1 + p1
<1>1. e * s \in Nat /\ (e + 1) * s \in Nat /\ e1 * s1 \in Nat /\ (e + 1) * s <= e1 * s1
  BY ProductsGrow
<1>2. (e + 1) * s = e * s + s
  OBVIOUS
<1> QED
  BY <1>1, <1>2

-----------------------------------------------------------------------------
\* Counting.

LEMMA PassedAreFinite ==
    ASSUME NEW log, NEW n, NEW pos \in Nat
    PROVE  /\ IsFiniteSet({o \in 1..pos : log["p"][o] = n})
           /\ Passed(log, pos, n) \in Nat
<1>1. IsFiniteSet(1..pos)
  BY FS_Interval
<1>2. IsFiniteSet({o \in 1..pos : log["p"][o] = n})
  BY <1>1, FS_Subset
<1> QED
  BY <1>2, FS_CardinalityType DEF Passed

LEMMA PassedOneMore ==
    ASSUME NEW log, NEW n, NEW pos \in Nat
    PROVE  Passed(log, pos + 1, n) =
               IF log["p"][pos + 1] = n THEN Passed(log, pos, n) + 1 ELSE Passed(log, pos, n)
<1> DEFINE S == {o \in 1..pos : log["p"][o] = n}
           T == {o \in 1..(pos + 1) : log["p"][o] = n}
<1>1. IsFiniteSet(S)
  BY PassedAreFinite
<1>2. CASE log["p"][pos + 1] = n
  <2>1. T = S \cup {pos + 1} /\ pos + 1 \notin S
    BY <1>2
  <2>2. Cardinality(T) = Cardinality(S) + 1
    BY <1>1, <2>1, FS_AddElement
  <2> QED
    BY <1>2, <2>2 DEF Passed
<1>3. CASE log["p"][pos + 1] # n
  <2>1. T = S
    BY <1>3
  <2> QED
    BY <1>3, <2>1 DEF Passed
<1> QED
  BY <1>2, <1>3

\* More of a topic, or a longer topic, has no fewer copies.
LEMMA PassedGrow ==
    ASSUME NEW log, NEW log1, NEW n, NEW pos \in Nat, NEW pos1 \in Nat, pos <= pos1,
           \A o \in 1..pos : log1["p"][o] = log["p"][o]
    PROVE  Passed(log, pos, n) <= Passed(log1, pos1, n)
<1>1. {o \in 1..pos : log["p"][o] = n} \subseteq {o \in 1..pos1 : log1["p"][o] = n}
  OBVIOUS
<1>2. IsFiniteSet({o \in 1..pos1 : log1["p"][o] = n})
  BY PassedAreFinite
<1> QED
  BY <1>1, <1>2, FS_Subset DEF Passed

LEMMA PassedSame ==
    ASSUME NEW log, NEW log1, NEW n, NEW pos \in Nat,
           \A o \in 1..pos : log1["p"][o] = log["p"][o]
    PROVE  Passed(log1, pos, n) = Passed(log, pos, n)
<1>1. {o \in 1..pos : log1["p"][o] = n} = {o \in 1..pos : log["p"][o] = n}
  OBVIOUS
<1> QED
  BY <1>1 DEF Passed

-----------------------------------------------------------------------------
\* The readers.

\* What the counts need of the loops' types.
LEMMA ReadersType ==
    ASSUME DeliveryInv
    PROVE  /\ cPos["p"] \in Nat /\ cPos["p"] <= Len(topic["p"]) /\ Len(topic["p"]) \in Nat
           /\ dPos["p"] \in Nat /\ dPos["p"] <= Len(dlq["p"]) /\ Len(dlq["p"]) \in Nat
           /\ cPos \in [{"p"} -> Nat] /\ dPos \in [{"p"} -> Nat]
           /\ ctxDone \in BOOLEAN /\ disruptions \in Nat
<1>1. /\ cPos \in [{"p"} -> Nat] /\ cPos["p"] <= Len(topic["p"])
      /\ ctxDone \in BOOLEAN /\ disruptions \in 0..MaxDisruptions
  BY DEF DeliveryInv, ChanP!CoverInv, ChanP!TypeOK
<1>2. dPos \in [{"p"} -> Nat] /\ dPos["p"] <= Len(dlq["p"])
  BY DEF DeliveryInv, DeadP!CoverInv, DeadP!TypeOK
<1> QED
  BY <1>1, <1>2, ChanInHand, DeadInHand DEF DeliveryInv

\* The counts are numbers, and a reader has passed no more copies than there are.
Counted ==
    \A n \in Notifications :
        /\ attempts[n] \in Nat /\ ChanOwes(n) \in 0..1 /\ DeadOwes(n) \in 0..1
        /\ ChanPassed(n) \in Nat /\ DeadPassed(n) \in Nat
        /\ Copies(topic, n) \in Nat /\ Copies(dlq, n) \in Nat
        /\ ChanPassed(n) <= Copies(topic, n) /\ DeadPassed(n) <= Copies(dlq, n)

LEMMA CountsType == DeliveryInv => Counted
<1> SUFFICES ASSUME DeliveryInv, NEW n \in Notifications
             PROVE  /\ attempts[n] \in Nat /\ ChanOwes(n) \in 0..1 /\ DeadOwes(n) \in 0..1
                    /\ ChanPassed(n) \in Nat /\ DeadPassed(n) \in Nat
                    /\ Copies(topic, n) \in Nat /\ Copies(dlq, n) \in Nat
                    /\ ChanPassed(n) <= Copies(topic, n) /\ DeadPassed(n) <= Copies(dlq, n)
  BY DEF Counted
<1>1. attempts[n] \in Nat /\ ChanOwes(n) \in 0..1 /\ DeadOwes(n) \in 0..1
  BY DEF DeliveryInv, RowsType, ChanOwes, DeadOwes
<1>2. /\ cPos["p"] \in Nat /\ cPos["p"] <= Len(topic["p"]) /\ Len(topic["p"]) \in Nat
      /\ dPos["p"] \in Nat /\ dPos["p"] <= Len(dlq["p"]) /\ Len(dlq["p"]) \in Nat
  BY ReadersType
<1>3. /\ Copies(topic, n) = Passed(topic, Len(topic["p"]), n)
      /\ Copies(dlq, n) = Passed(dlq, Len(dlq["p"]), n)
  BY DEF Copies, Passed
<1>4. /\ ChanPassed(n) \in Nat /\ Copies(topic, n) \in Nat
      /\ DeadPassed(n) \in Nat /\ Copies(dlq, n) \in Nat
  BY <1>2, <1>3, PassedAreFinite DEF ChanPassed, DeadPassed
<1>5. Passed(topic, cPos["p"], n) <= Passed(topic, Len(topic["p"]), n)
  BY <1>2, PassedGrow
<1>6. Passed(dlq, dPos["p"], n) <= Passed(dlq, Len(dlq["p"]), n)
  BY <1>2, PassedGrow
<1> QED
  BY <1>1, <1>3, <1>4, <1>5, <1>6 DEF ChanPassed, DeadPassed

LEMMA CountsTypeNext == DeliveryInv /\ Next => Counted /\ Counted'
<1>1. DeliveryInv /\ Next => DeliveryInv'
  BY NextDeliveryInv
<1> QED
  BY <1>1, CountsType, PTL

\* Topics only grow, so copies do not go away, and a reader that stays has passed as many.
LEMMA CountsGrow ==
    ASSUME DeliveryInv, Next, NEW n \in Notifications
    PROVE  /\ Copies(topic, n) + Copies(dlq, n) <= (Copies(topic, n) + Copies(dlq, n))'
           /\ UNCHANGED cPos => ChanPassed(n)' = ChanPassed(n)
           /\ UNCHANGED dPos => DeadPassed(n)' = DeadPassed(n)
<1>0. DeliveryInv'
  BY NextDeliveryInv
<1>1. /\ Len(topic["p"]) \in Nat /\ Len(topic'["p"]) \in Nat
      /\ Len(dlq["p"]) \in Nat /\ Len(dlq'["p"]) \in Nat
  BY <1>0, ChanInHand, DeadInHand DEF DeliveryInv
<1>2. /\ \A o \in 1..Len(topic["p"]) :
            o \in 1..Len(topic'["p"]) /\ topic'["p"][o] = topic["p"][o]
      /\ \A o \in 1..Len(dlq["p"]) :
            o \in 1..Len(dlq'["p"]) /\ dlq'["p"][o] = dlq["p"][o]
  BY HistoryGrows DEF DeliveryInv
<1>3. Len(topic["p"]) <= Len(topic'["p"]) /\ Len(dlq["p"]) <= Len(dlq'["p"])
  <2>1. ASSUME NEW l \in Nat, NEW k \in Nat, \A o \in 1..l : o \in 1..k PROVE l <= k
    <3>1. CASE l = 0
      BY <3>1
    <3>2. CASE l # 0
      BY <2>1, <3>2
    <3> QED
      BY <3>1, <3>2
  <2> QED
    BY <1>1, <1>2, <2>1
<1>4. Copies(topic, n) <= Copies(topic, n)'
  <2>1. Passed(topic, Len(topic["p"]), n) <= Passed(topic', Len(topic'["p"]), n)
    BY <1>1, <1>2, <1>3, PassedGrow
  <2> QED
    BY <2>1 DEF Passed, Copies
<1>5. Copies(dlq, n) <= Copies(dlq, n)'
  <2>1. Passed(dlq, Len(dlq["p"]), n) <= Passed(dlq', Len(dlq'["p"]), n)
    BY <1>1, <1>2, <1>3, PassedGrow
  <2> QED
    BY <2>1 DEF Passed, Copies
<1>6. ASSUME UNCHANGED cPos PROVE ChanPassed(n)' = ChanPassed(n)
  <2>1. Passed(topic', cPos["p"], n) = Passed(topic, cPos["p"], n)
    BY <1>2, ReadersType, PassedSame
  <2> QED
    BY <1>6, <2>1 DEF ChanPassed, Passed
<1>7. ASSUME UNCHANGED dPos PROVE DeadPassed(n)' = DeadPassed(n)
  <2>1. Passed(dlq', dPos["p"], n) = Passed(dlq, dPos["p"], n)
    BY <1>2, ReadersType, PassedSame
  <2> QED
    BY <1>7, <2>1 DEF DeadPassed, Passed
<1>8. Copies(topic, n)' \in Nat /\ Copies(dlq, n)' \in Nat
  BY CountsTypeNext DEF Counted
<1>9. Copies(topic, n) \in Nat /\ Copies(dlq, n) \in Nat
  BY CountsType DEF Counted
<1> QED
  BY <1>4, <1>5, <1>6, <1>7, <1>8, <1>9

\* What is owed while a loop keeps its message, and when it has none to handle.
LEMMA OwedSteps ==
    ASSUME DeliveryInv, Next, NEW n \in Notifications
    PROVE  /\ UNCHANGED <<cPc, cCur>> => ChanOwes(n)' = ChanOwes(n)
           /\ cPc \in {"handle", "backoff"} /\ UNCHANGED cCur => ChanOwes(n)' <= ChanOwes(n)
           /\ cPc' \notin {"handle", "backoff"} => ChanOwes(n)' = 0
           /\ UNCHANGED <<dPc, dCur, dStep>> => DeadOwes(n)' = DeadOwes(n)
           /\ dPc \in {"handle", "backoff"} /\ dStep # "notification" /\ UNCHANGED dCur =>
                 DeadOwes(n)' <= DeadOwes(n)
           /\ dPc' \notin {"handle", "backoff"} \/ dStep' = "notification" => DeadOwes(n)' = 0
<1>1. ASSUME cPc \in {"handle", "backoff"}, UNCHANGED cCur PROVE cMsg' = cMsg
  <2>1. cCur[2] \in 1..Len(topic["p"])
    BY <1>1, ChanInHand DEF DeliveryInv
  <2> QED
    BY <1>1, <2>1, HistoryGrows DEF DeliveryInv, cMsg
<1>2. ASSUME dPc \in {"handle", "backoff"}, UNCHANGED dCur PROVE dMsg' = dMsg
  <2>1. dCur[2] \in 1..Len(dlq["p"])
    BY <1>2, DeadInHand DEF DeliveryInv
  <2> QED
    BY <1>2, <2>1, HistoryGrows DEF DeliveryInv, dMsg
<1>3. UNCHANGED <<cPc, cCur>> => ChanOwes(n)' = ChanOwes(n)
  BY <1>1 DEF ChanOwes
<1>4. cPc \in {"handle", "backoff"} /\ UNCHANGED cCur => ChanOwes(n)' <= ChanOwes(n)
  BY <1>1 DEF ChanOwes
<1>5. cPc' \notin {"handle", "backoff"} => ChanOwes(n)' = 0
  BY DEF ChanOwes
<1>6. UNCHANGED <<dPc, dCur, dStep>> => DeadOwes(n)' = DeadOwes(n)
  BY <1>2 DEF DeadOwes
<1>7. dPc \in {"handle", "backoff"} /\ dStep # "notification" /\ UNCHANGED dCur =>
         DeadOwes(n)' <= DeadOwes(n)
  BY <1>2 DEF DeadOwes
<1>8. dPc' \notin {"handle", "backoff"} \/ dStep' = "notification" => DeadOwes(n)' = 0
  BY DEF DeadOwes
<1> QED
  BY <1>3, <1>4, <1>5, <1>6, <1>7, <1>8

-----------------------------------------------------------------------------
\* Each loop owes no more than its reader has passed.

LEMMA ChanPays ==
    ASSUME DeliveryInv, Next, NEW n \in Notifications, ~Restart, ~Rebalance, ~MarkDelivered
    PROVE  ChanOwes(n)' + ChanPassed(n) <= ChanOwes(n) + ChanPassed(n)'
<1> DEFINE Goal == ChanOwes(n)' + ChanPassed(n) <= ChanOwes(n) + ChanPassed(n)'
<1>0. DeliveryInv'
  BY NextDeliveryInv
<1>t. /\ ChanOwes(n) \in 0..1 /\ ChanPassed(n) \in Nat
      /\ ChanOwes(n)' \in 0..1 /\ ChanPassed(n)' \in Nat
  BY CountsTypeNext DEF Counted
<1>1. ASSUME UNCHANGED cPos, ChanOwes(n)' <= ChanOwes(n) PROVE Goal
  <2>1. ChanPassed(n)' = ChanPassed(n)
    BY <1>1, CountsGrow
  <2> QED
    BY <1>1, <1>t, <2>1
<1>2. ASSUME UNCHANGED cPos, cPc' \notin {"handle", "backoff"} PROVE Goal
  <2>1. ChanOwes(n)' = 0
    BY <1>2, OwedSteps
  <2> QED
    BY <1>1, <1>2, <1>t, <2>1
<1>3. ASSUME UNCHANGED <<cPos, cCur>>, cPc \in {"handle", "backoff"} PROVE Goal
  <2>1. ChanOwes(n)' <= ChanOwes(n)
    BY <1>3, OwedSteps
  <2> QED
    BY <1>1, <1>3, <2>1
<1>4. ASSUME UNCHANGED <<cPos, cPc, cCur>> PROVE Goal
  <2>1. ChanOwes(n)' = ChanOwes(n)
    BY <1>4, OwedSteps
  <2> QED
    BY <1>1, <1>4, <1>t, <2>1
<1>5. ASSUME Chan!Fetch("p"), UNCHANGED topic PROVE Goal
  <2>1. cPos' = [cPos EXCEPT !["p"] = cPos["p"] + 1] /\ cCur' = <<"p", cPos["p"] + 1>>
    BY <1>5 DEF Chan!Fetch
  <2>2. cPos["p"] \in Nat /\ cPos'["p"] = cPos["p"] + 1
    BY <2>1, ReadersType
  <2>3. cMsg' = topic["p"][cPos["p"] + 1]
    BY <1>5, <2>1 DEF cMsg
  <2>4. ChanPassed(n)' = Passed(topic, cPos["p"] + 1, n)
    BY <1>5, <2>2 DEF ChanPassed, Passed
  <2>5. ChanPassed(n)' = IF cMsg' = n THEN ChanPassed(n) + 1 ELSE ChanPassed(n)
    BY <2>2, <2>3, <2>4, PassedOneMore DEF ChanPassed
  <2>6. cMsg' # n => ChanOwes(n)' = 0
    BY DEF ChanOwes
  <2> QED
    BY <1>t, <2>5, <2>6
<1>6. ASSUME ChannelLoop PROVE Goal
  <2>1. ASSUME Chan!FetchFails \/ Chan!FetchWaitEnds
        PROVE  UNCHANGED cPos /\ cPc' \notin {"handle", "backoff"}
    BY <2>1 DEF Chan!FetchFails, Chan!FetchWaitEnds
  <2>2. ASSUME Chan!BackoffEnds
        PROVE  /\ UNCHANGED cPos /\ cPc = "backoff"
               /\ UNCHANGED cCur \/ cPc' \notin {"handle", "backoff"}
    BY <2>2 DEF Chan!BackoffEnds
  <2>3. ASSUME NEW stored \in BOOLEAN, NEW ok \in BOOLEAN, Chan!CommitMessages(stored, ok)
        PROVE  UNCHANGED cPos /\ cPc' \notin {"handle", "backoff"}
    BY <2>3 DEF Chan!CommitMessages
  <2>4. UNCHANGED topic
    BY <1>6 DEF ChannelLoop
  <2> HIDE DEF Goal
  <2> QED
    BY <1>2, <1>3, <1>5, <1>6, <2>1, <2>2, <2>3, <2>4 DEF ChannelLoop
<1>7. ASSUME NEW took \in BOOLEAN, NEW ok \in BOOLEAN, Send(took, ok)
      PROVE  UNCHANGED <<cPos, cCur>> /\ cPc = "handle"
  BY <1>7 DEF Send, Chan!HandlerReturns, cLoop
<1>8. ASSUME NEW k \in 0..MaxCopies, NEW ok \in BOOLEAN, PublishDLQ(k, ok)
      PROVE  UNCHANGED cPos /\ cPc' \notin {"handle", "backoff"}
  BY <1>8 DEF PublishDLQ, Chan!PublishDLQ
<1>9. ASSUME Crash PROVE UNCHANGED cPos /\ cPc' \notin {"handle", "backoff"}
  BY <1>9 DEF Crash
<1>10. ASSUME \/ \E m \in Notifications :
                    \/ Insert(m) \/ Commit(m) \/ CommitFails(m)
                    \/ \E k \in 0..MaxCopies, ok \in BOOLEAN : Publish(m, k, ok)
              \/ CreateDLQRow \/ MarkDeliveryFailed \/ MarkNotificationFailed \/ DLQLoop
              \/ Shutdown
       PROVE  UNCHANGED <<cPos, cPc, cCur>>
  BY <1>10 DEF Insert, Commit, CommitFails, Publish, CreateDLQRow, MarkDeliveryFailed,
     MarkNotificationFailed, DLQLoop, Shutdown, cLoop
<1> HIDE DEF Goal
<1>11. Goal
  BY <1>2, <1>3, <1>4, <1>6, <1>7, <1>8, <1>9, <1>10 DEF Next
<1> QED
  BY <1>11 DEF Goal

LEMMA DeadPays ==
    ASSUME DeliveryInv, Next, NEW n \in Notifications, ~Restart, ~MarkDeliveryFailed
    PROVE  DeadOwes(n)' + DeadPassed(n) <= DeadOwes(n) + DeadPassed(n)'
<1> DEFINE Goal == DeadOwes(n)' + DeadPassed(n) <= DeadOwes(n) + DeadPassed(n)'
<1>0. DeliveryInv'
  BY NextDeliveryInv
<1>t. /\ DeadOwes(n) \in 0..1 /\ DeadPassed(n) \in Nat
      /\ DeadOwes(n)' \in 0..1 /\ DeadPassed(n)' \in Nat
  BY CountsTypeNext DEF Counted
<1>1. ASSUME UNCHANGED dPos, DeadOwes(n)' <= DeadOwes(n) PROVE Goal
  <2>1. DeadPassed(n)' = DeadPassed(n)
    BY <1>1, CountsGrow
  <2> QED
    BY <1>1, <1>t, <2>1
<1>2. ASSUME UNCHANGED dPos, dPc' \notin {"handle", "backoff"} PROVE Goal
  <2>1. DeadOwes(n)' = 0
    BY <1>2, OwedSteps
  <2> QED
    BY <1>1, <1>2, <1>t, <2>1
<1>3. ASSUME UNCHANGED <<dPos, dCur>>, dPc \in {"handle", "backoff"}, dStep # "notification"
      PROVE  Goal
  <2>1. DeadOwes(n)' <= DeadOwes(n)
    BY <1>3, OwedSteps
  <2> QED
    BY <1>1, <1>3, <2>1
<1>4. ASSUME UNCHANGED <<dPos, dPc, dCur, dStep>> PROVE Goal
  <2>1. DeadOwes(n)' = DeadOwes(n)
    BY <1>4, OwedSteps
  <2> QED
    BY <1>1, <1>4, <1>t, <2>1
<1>5. ASSUME Dead!Fetch("p"), UNCHANGED dlq PROVE Goal
  <2>1. dPos' = [dPos EXCEPT !["p"] = dPos["p"] + 1] /\ dCur' = <<"p", dPos["p"] + 1>>
    BY <1>5 DEF Dead!Fetch
  <2>2. dPos["p"] \in Nat /\ dPos'["p"] = dPos["p"] + 1
    BY <2>1, ReadersType
  <2>3. dMsg' = dlq["p"][dPos["p"] + 1]
    BY <1>5, <2>1 DEF dMsg
  <2>4. DeadPassed(n)' = Passed(dlq, dPos["p"] + 1, n)
    BY <1>5, <2>2 DEF DeadPassed, Passed
  <2>5. DeadPassed(n)' = IF dMsg' = n THEN DeadPassed(n) + 1 ELSE DeadPassed(n)
    BY <2>2, <2>3, <2>4, PassedOneMore DEF DeadPassed
  <2>6. dMsg' # n => DeadOwes(n)' = 0
    BY DEF DeadOwes
  <2> QED
    BY <1>t, <2>5, <2>6
<1>6. ASSUME DLQLoop PROVE Goal
  <2>1. ASSUME Dead!FetchFails \/ Dead!FetchWaitEnds
        PROVE  UNCHANGED dPos /\ dPc' \notin {"handle", "backoff"}
    BY <2>1 DEF Dead!FetchFails, Dead!FetchWaitEnds
  <2>2. ASSUME Dead!BackoffEnds
        PROVE  /\ UNCHANGED dPos /\ dPc = "backoff" /\ dStep # "notification"
               /\ UNCHANGED dCur \/ dPc' \notin {"handle", "backoff"}
    BY <2>2 DEF Dead!BackoffEnds, DeliveryInv, MidHandler
  <2>3. ASSUME NEW stored \in BOOLEAN, NEW ok \in BOOLEAN, Dead!CommitMessages(stored, ok)
        PROVE  UNCHANGED dPos /\ dPc' \notin {"handle", "backoff"}
    BY <2>3 DEF Dead!CommitMessages
  <2>4. UNCHANGED dlq
    BY <1>6 DEF DLQLoop
  <2> HIDE DEF Goal
  <2> QED
    BY <1>2, <1>3, <1>5, <1>6, <2>1, <2>2, <2>3, <2>4 DEF DLQLoop
<1>7. ASSUME CreateDLQRow
      PROVE  UNCHANGED <<dPos, dCur>> /\ dPc = "handle" /\ dStep # "notification"
  BY <1>7 DEF CreateDLQRow, Dead!HandlerReturns, dLoop
<1>8. ASSUME MarkNotificationFailed PROVE UNCHANGED dPos /\ dPc' \notin {"handle", "backoff"}
  BY <1>8 DEF MarkNotificationFailed, Dead!HandlerReturns
<1>9. ASSUME Crash PROVE UNCHANGED dPos /\ dPc' \notin {"handle", "backoff"}
  BY <1>9 DEF Crash
<1>10. ASSUME \/ \E m \in Notifications :
                    \/ Insert(m) \/ Commit(m) \/ CommitFails(m)
                    \/ \E k \in 0..MaxCopies, ok \in BOOLEAN : Publish(m, k, ok)
              \/ \E took, ok \in BOOLEAN : Send(took, ok)
              \/ MarkDelivered \/ ChannelLoop
              \/ \E k \in 0..MaxCopies, ok \in BOOLEAN : PublishDLQ(k, ok)
              \/ Shutdown \/ Rebalance
       PROVE  UNCHANGED <<dPos, dPc, dCur, dStep>>
  BY <1>10 DEF Insert, Commit, CommitFails, Publish, Send, MarkDelivered, ChannelLoop,
     PublishDLQ, Shutdown, Rebalance, dLoop
<1> HIDE DEF Goal
<1>11. Goal
  BY <1>2, <1>3, <1>4, <1>6, <1>7, <1>8, <1>9, <1>10 DEF Next
<1> QED
  BY <1>11 DEF Goal

-----------------------------------------------------------------------------
\* What a status update adds.

LEMMA UpdateAddsOne ==
    ASSUME RowsType, NEW m \in Notifications, NEW status, UpdateDelivery(m, status),
           NEW n \in Notifications
    PROVE  attempts'[n] = attempts[n] \/ (n = m /\ attempts'[n] = attempts[n] + 1)
BY DEF RowsType, UpdateDelivery

LEMMA MarksPay ==
    ASSUME DeliveryInv, Next, NEW n \in Notifications
    PROVE  /\ MarkDelivered => attempts'[n] + ChanOwes(n)' <= attempts[n] + ChanOwes(n)
           /\ MarkDeliveryFailed => attempts'[n] + DeadOwes(n)' <= attempts[n] + DeadOwes(n)
           /\ MarkDelivered \/ MarkDeliveryFailed \/ UNCHANGED attempts
<1>t. attempts[n] \in Nat /\ ChanOwes(n) \in 0..1 /\ DeadOwes(n) \in 0..1
  BY CountsType DEF Counted
<1>1. ASSUME MarkDelivered PROVE attempts'[n] + ChanOwes(n)' <= attempts[n] + ChanOwes(n)
  <2>1. cMsg \in Notifications /\ cPc = "handle"
    BY <1>1, ChanInHand DEF MarkDelivered, DeliveryInv
  <2>2. attempts'[n] = attempts[n] \/ (n = cMsg /\ attempts'[n] = attempts[n] + 1)
    BY <1>1, <2>1, UpdateAddsOne DEF MarkDelivered, DeliveryInv
  <2>3. n = cMsg => ChanOwes(n) = 1
    BY <2>1 DEF ChanOwes
  <2>4. cPc' \notin {"handle", "backoff"}
    BY <1>1 DEF MarkDelivered, Chan!HandlerReturns
  <2>5. ChanOwes(n)' = 0
    BY <2>4, OwedSteps
  <2> QED
    BY <1>t, <2>2, <2>3, <2>5
<1>2. ASSUME MarkDeliveryFailed PROVE attempts'[n] + DeadOwes(n)' <= attempts[n] + DeadOwes(n)
  <2>1. dMsg \in Notifications /\ dPc = "handle" /\ dStep = "delivery"
    BY <1>2, DeadInHand DEF MarkDeliveryFailed, DeliveryInv
  <2>2. attempts'[n] = attempts[n] \/ (n = dMsg /\ attempts'[n] = attempts[n] + 1)
    BY <1>2, <2>1, UpdateAddsOne DEF MarkDeliveryFailed, DeliveryInv
  <2>3. n = dMsg => DeadOwes(n) = 1
    BY <2>1 DEF DeadOwes
  <2>4. dStep' = "notification"
    BY <1>2 DEF MarkDeliveryFailed
  <2>5. DeadOwes(n)' = 0
    BY <2>4, OwedSteps
  <2> QED
    BY <1>t, <2>2, <2>3, <2>5
<1>3. MarkDelivered \/ MarkDeliveryFailed \/ UNCHANGED attempts
  BY DEF Next, rows, Insert, Publish, Commit, CommitFails, Send, ChannelLoop, PublishDLQ,
     CreateDLQRow, MarkNotificationFailed, DLQLoop, Shutdown, Crash, Restart, Rebalance
<1> QED
  BY <1>1, <1>2, <1>3

\* A loop stops only after a disruption, and every time the readers are set back there has
\* been another one.
LEMMA RereadsGrow ==
    ASSUME DeliveryInv, Ended => disruptions > 0, Next
    PROVE  /\ Ended' => disruptions' > 0
           /\ Rereads \in Nat /\ Rereads' \in Nat /\ Rereads <= Rereads'
           /\ Restart \/ Rebalance => Rereads' = Rereads + 1
<1> DEFINE Goal == /\ Ended' => disruptions' > 0
                   /\ Rereads \in Nat /\ Rereads' \in Nat /\ Rereads <= Rereads'
<1>t. disruptions \in Nat
  BY ReadersType
<1>1. ASSUME UNCHANGED disruptions, Ended' => Ended PROVE Goal
  BY <1>1, <1>t DEF Rereads
<1>2. ASSUME disruptions' = disruptions + 1 PROVE Goal
  BY <1>2, <1>t DEF Rereads
<1>3. ASSUME \/ \E n \in Notifications :
                   \/ Insert(n) \/ Commit(n) \/ CommitFails(n)
                   \/ \E k \in 0..MaxCopies, ok \in BOOLEAN : Publish(n, k, ok)
             \/ MarkDeliveryFailed
      PROVE  UNCHANGED disruptions /\ (Ended' => Ended)
  BY <1>3 DEF Insert, Commit, CommitFails, Publish, MarkDeliveryFailed, Ended, process, cLoop,
     dLoop
<1>4. ASSUME \/ \E took, ok \in BOOLEAN : Send(took, ok)
             \/ MarkDelivered
             \/ \E k \in 0..MaxCopies, ok \in BOOLEAN : PublishDLQ(k, ok)
      PROVE  UNCHANGED disruptions /\ (Ended' => Ended)
  BY <1>4 DEF Send, MarkDelivered, PublishDLQ, Chan!HandlerReturns, Chan!PublishDLQ, Ended,
     process, cLoop, dLoop
<1>5. ASSUME ChannelLoop PROVE UNCHANGED disruptions /\ (Ended' => Ended)
  BY <1>5 DEF ChannelLoop, Chan!Fetch, Chan!FetchFails, Chan!FetchWaitEnds, Chan!BackoffEnds,
     Chan!CommitMessages, Ended, dLoop
<1>6. ASSUME CreateDLQRow \/ MarkNotificationFailed
      PROVE  UNCHANGED disruptions /\ (Ended' => Ended)
  BY <1>6 DEF CreateDLQRow, MarkNotificationFailed, Dead!HandlerReturns, Ended, process, cLoop,
     dLoop
<1>7. ASSUME DLQLoop PROVE UNCHANGED disruptions /\ (Ended' => Ended)
  BY <1>7 DEF DLQLoop, Dead!Fetch, Dead!FetchFails, Dead!FetchWaitEnds, Dead!BackoffEnds,
     Dead!CommitMessages, Ended, cLoop
<1>8. ASSUME Shutdown \/ Crash PROVE disruptions' = disruptions + 1
  BY <1>8 DEF Shutdown, Crash, Chan!Disrupt
<1>9. ASSUME Rebalance PROVE disruptions' = disruptions + 1 /\ (Ended' <=> Ended)
  BY <1>9 DEF Rebalance, Chan!Rebalance, Chan!Disrupt, Ended, dLoop
<1>10. ASSUME Restart PROVE UNCHANGED disruptions /\ Ended /\ ~Ended'
  BY <1>10 DEF Restart, Chan!Restart, Dead!Restart, Ended
<1>11. ASSUME Rebalance PROVE Rereads' = Rereads + 1
  BY <1>9, <1>11, <1>t DEF Rereads
<1>12. ASSUME Restart PROVE Rereads' = Rereads + 1
  BY <1>10, <1>12, <1>t DEF Rereads
<1> HIDE DEF Goal
<1>13. Goal
  BY <1>1, <1>2, <1>3, <1>4, <1>5, <1>6, <1>7, <1>8, <1>9, <1>10 DEF Next
<1> QED
  BY <1>11, <1>12, <1>13 DEF Goal

LEMMA AttemptsUnchanged ==
    ASSUME AttemptsFullInv, UNCHANGED vars
    PROVE  AttemptsFullInv'
<1>1. DeliveryInv'
  BY NextDeliveryInv DEF AttemptsFullInv
<1>2. UNCHANGED <<attempts, topic, cPc, cCur, cPos, dlq, dPc, dCur, dPos, dStep, ctxDone,
                  disruptions>>
  BY DEF vars, rows, cLoop, dLoop, process
<1>3. cMsg' = cMsg /\ dMsg' = dMsg
  BY <1>2 DEF cMsg, dMsg
<1>4. (Ended' <=> Ended) /\ Rereads' = Rereads
  BY <1>2 DEF Ended, Rereads
<1>5. ASSUME NEW n \in Notifications
      PROVE  /\ ChanOwes(n)' = ChanOwes(n) /\ DeadOwes(n)' = DeadOwes(n)
             /\ Copies(topic, n)' = Copies(topic, n) /\ Copies(dlq, n)' = Copies(dlq, n)
             /\ ChanPassed(n)' = ChanPassed(n) /\ DeadPassed(n)' = DeadPassed(n)
  BY <1>2, <1>3 DEF ChanOwes, DeadOwes, Copies, ChanPassed, DeadPassed, Passed
<1>6. AttemptsInv
  BY DEF AttemptsFullInv
<1>7. AttemptsInv'
  BY <1>2, <1>4, <1>5, <1>6 DEF AttemptsInv
<1> QED
  BY <1>1, <1>7 DEF AttemptsFullInv

-----------------------------------------------------------------------------
\* The invariant and the theorem.

LEMMA ResetsPay ==
    ASSUME DeliveryInv, Next, NEW n \in Notifications, Restart \/ Rebalance
    PROVE  /\ attempts'[n] = attempts[n]
           /\ ChanOwes(n)' <= ChanOwes(n) /\ DeadOwes(n)' <= DeadOwes(n)
<1>t. ChanOwes(n) \in 0..1 /\ DeadOwes(n) \in 0..1
  BY CountsType DEF Counted
<1>1. attempts'[n] = attempts[n]
  BY DEF Restart, Rebalance, rows
<1>2. CASE Restart
  <2>1. cPc' \notin {"handle", "backoff"} /\ dPc' \notin {"handle", "backoff"}
    BY <1>2 DEF Restart, Chan!Restart, Dead!Restart
  <2>2. ChanOwes(n)' = 0 /\ DeadOwes(n)' = 0
    BY <2>1, OwedSteps
  <2> QED
    BY <1>1, <1>t, <2>2
<1>3. CASE Rebalance
  <2>1. UNCHANGED <<cPc, cCur>> \/ cPc' \notin {"handle", "backoff"}
    BY <1>3 DEF Rebalance, Chan!Rebalance
  <2>2. UNCHANGED <<dPc, dCur, dStep>>
    BY <1>3 DEF Rebalance, dLoop
  <2>3. ChanOwes(n)' = ChanOwes(n) \/ ChanOwes(n)' = 0
    BY <2>1, OwedSteps
  <2>4. DeadOwes(n)' = DeadOwes(n)
    BY <2>2, OwedSteps
  <2> QED
    BY <1>1, <1>t, <2>3, <2>4
<1> QED
  BY <1>2, <1>3

\* Otherwise what a step adds, the readers have passed.
LEMMA StepsPay ==
    ASSUME DeliveryInv, Next, NEW n \in Notifications, ~Restart, ~Rebalance
    PROVE  attempts'[n] + ChanOwes(n)' + DeadOwes(n)' + (ChanPassed(n) + DeadPassed(n)) <=
             attempts[n] + ChanOwes(n) + DeadOwes(n) + (ChanPassed(n)' + DeadPassed(n)')
<1>t. /\ attempts[n] \in Nat /\ ChanOwes(n) \in 0..1 /\ DeadOwes(n) \in 0..1
      /\ ChanPassed(n) \in Nat /\ DeadPassed(n) \in Nat
      /\ attempts'[n] \in Nat /\ ChanOwes(n)' \in 0..1 /\ DeadOwes(n)' \in 0..1
      /\ ChanPassed(n)' \in Nat /\ DeadPassed(n)' \in Nat
  BY CountsTypeNext DEF Counted
<1>1. CASE MarkDelivered
  <2>1. UNCHANGED cPos /\ ~MarkDeliveryFailed
    BY <1>1 DEF MarkDelivered, MarkDeliveryFailed, Chan!HandlerReturns
  <2>2. ChanPassed(n)' = ChanPassed(n)
    BY <2>1, CountsGrow
  <2>3. DeadOwes(n)' + DeadPassed(n) <= DeadOwes(n) + DeadPassed(n)'
    BY <2>1, DeadPays
  <2>4. attempts'[n] + ChanOwes(n)' <= attempts[n] + ChanOwes(n)
    BY <1>1, MarksPay
  <2> QED
    BY <1>t, <2>2, <2>3, <2>4
<1>2. CASE ~MarkDelivered /\ MarkDeliveryFailed
  <2>1. UNCHANGED dPos
    BY <1>2 DEF MarkDeliveryFailed, dLoop
  <2>2. DeadPassed(n)' = DeadPassed(n)
    BY <2>1, CountsGrow
  <2>3. ChanOwes(n)' + ChanPassed(n) <= ChanOwes(n) + ChanPassed(n)'
    BY <1>2, ChanPays
  <2>4. attempts'[n] + DeadOwes(n)' <= attempts[n] + DeadOwes(n)
    BY <1>2, MarksPay
  <2> QED
    BY <1>t, <2>2, <2>3, <2>4
<1>3. CASE ~MarkDelivered /\ ~MarkDeliveryFailed
  <2>1. attempts'[n] = attempts[n]
    BY <1>3, MarksPay
  <2>2. ChanOwes(n)' + ChanPassed(n) <= ChanOwes(n) + ChanPassed(n)'
    BY <1>3, ChanPays
  <2>3. DeadOwes(n)' + DeadPassed(n) <= DeadOwes(n) + DeadPassed(n)'
    BY <1>3, DeadPays
  <2> QED
    BY <1>t, <2>1, <2>2, <2>3
<1> QED
  BY <1>1, <1>2, <1>3

LEMMA NextAttemptsInv ==
    ASSUME AttemptsFullInv, [Next]_vars
    PROVE  AttemptsFullInv'
<1>1. CASE UNCHANGED vars
  BY <1>1, AttemptsUnchanged
<1>2. CASE Next
  <2>0. DeliveryInv /\ AttemptsInv
    BY DEF AttemptsFullInv
  <2>1. DeliveryInv'
    BY <1>2, <2>0, NextDeliveryInv
  <2>2. /\ Ended' => disruptions' > 0
        /\ Rereads \in Nat /\ Rereads' \in Nat /\ Rereads <= Rereads'
        /\ Restart \/ Rebalance => Rereads' = Rereads + 1
    BY <1>2, <2>0, RereadsGrow DEF AttemptsInv
  <2>3. ASSUME NEW n \in Notifications
        PROVE  attempts'[n] + ChanOwes(n)' + DeadOwes(n)' <=
                 Rereads' * (Copies(topic, n)' + Copies(dlq, n)')
                   + (ChanPassed(n)' + DeadPassed(n)')
    <3> DEFINE a == attempts[n] + ChanOwes(n) + DeadOwes(n)
               s == Copies(topic, n) + Copies(dlq, n)
               p == ChanPassed(n) + DeadPassed(n)
               a1 == attempts'[n] + ChanOwes(n)' + DeadOwes(n)'
               s1 == Copies(topic, n)' + Copies(dlq, n)'
               p1 == ChanPassed(n)' + DeadPassed(n)'
    <3>1. /\ a \in Nat /\ s \in Nat /\ p \in Nat /\ p <= s
          /\ a1 \in Nat /\ s1 \in Nat /\ p1 \in Nat
      <4>1. /\ attempts[n] \in Nat /\ ChanOwes(n) \in 0..1 /\ DeadOwes(n) \in 0..1
            /\ ChanPassed(n) \in Nat /\ DeadPassed(n) \in Nat
            /\ Copies(topic, n) \in Nat /\ Copies(dlq, n) \in Nat
            /\ ChanPassed(n) <= Copies(topic, n) /\ DeadPassed(n) <= Copies(dlq, n)
        BY <2>0, CountsType DEF Counted
      <4>2. /\ attempts'[n] \in Nat /\ ChanOwes(n)' \in 0..1 /\ DeadOwes(n)' \in 0..1
            /\ ChanPassed(n)' \in Nat /\ DeadPassed(n)' \in Nat
            /\ Copies(topic, n)' \in Nat /\ Copies(dlq, n)' \in Nat
        BY <1>2, <2>0, CountsTypeNext DEF Counted
      <4> QED
        BY <4>1, <4>2
    <3>2. a <= Rereads * s + p
      BY <2>0 DEF AttemptsInv
    <3>3. s <= s1
      BY <1>2, <2>0, CountsGrow
    <3>4. CASE Restart \/ Rebalance
      <4>1. a1 <= a
        <5>1. /\ attempts'[n] = attempts[n]
              /\ ChanOwes(n)' <= ChanOwes(n) /\ DeadOwes(n)' <= DeadOwes(n)
          BY <1>2, <2>0, <3>4, ResetsPay
        <5>2. /\ attempts[n] \in Nat /\ ChanOwes(n) \in 0..1 /\ DeadOwes(n) \in 0..1
              /\ ChanOwes(n)' \in 0..1 /\ DeadOwes(n)' \in 0..1
          BY <1>2, <2>0, CountsTypeNext DEF Counted
        <5> QED
          BY <5>1, <5>2
      <4> HIDE DEF a, s, p, a1, s1, p1
      <4>2. a1 <= Rereads' * s1 + p1
        BY <2>2, <3>1, <3>2, <3>3, <3>4, <4>1, BoundIsKeptByReset
      <4> QED
        BY <4>2 DEF a1, s1, p1
    <3>5. CASE ~Restart /\ ~Rebalance
      <4>1. a1 + p <= a + p1
        BY <1>2, <2>0, <3>5, StepsPay
      <4> HIDE DEF a, s, p, a1, s1, p1
      <4>2. a1 <= Rereads' * s1 + p1
        BY <2>2, <3>1, <3>2, <3>3, <4>1, BoundIsKept
      <4> QED
        BY <4>2 DEF a1, s1, p1
    <3> QED
      BY <3>4, <3>5
  <2> QED
    BY <2>1, <2>2, <2>3 DEF AttemptsFullInv, AttemptsInv
<1> QED
  BY <1>1, <1>2

LEMMA InitAttemptsInv == Init => AttemptsFullInv
<1> SUFFICES ASSUME Init PROVE AttemptsFullInv
  OBVIOUS
<1>1. DeliveryInv
  BY InitDeliveryInv
<1>2. Counted
  BY <1>1, CountsType
<1>3. cPc = "fetch" /\ dPc = "fetch" /\ ctxDone = FALSE /\ disruptions = 0
  BY DEF Init, Chan!Init, Dead!Init
<1>4. ~Ended /\ Rereads = 0
  BY <1>3 DEF Ended, Rereads
<1>5. ASSUME NEW n \in Notifications
      PROVE  attempts[n] + ChanOwes(n) + DeadOwes(n) <=
               Rereads * (Copies(topic, n) + Copies(dlq, n)) + (ChanPassed(n) + DeadPassed(n))
  <2>1. attempts[n] = 0
    BY DEF Init
  <2>2. ChanOwes(n) = 0 /\ DeadOwes(n) = 0
    BY <1>3 DEF ChanOwes, DeadOwes
  <2>3. /\ Copies(topic, n) \in Nat /\ Copies(dlq, n) \in Nat
        /\ ChanPassed(n) \in Nat /\ DeadPassed(n) \in Nat
    BY <1>2 DEF Counted
  <2> QED
    BY <1>4, <2>1, <2>2, <2>3
<1> QED
  BY <1>1, <1>4, <1>5 DEF AttemptsFullInv, AttemptsInv

LEMMA InvBoundsAttempts == AttemptsFullInv => AttemptsCountOutcomes
<1> SUFFICES ASSUME AttemptsFullInv, NEW n \in Notifications
             PROVE  attempts[n] <= (disruptions + 1) * (Copies(topic, n) + Copies(dlq, n))
  BY DEF AttemptsCountOutcomes
<1> DEFINE s == Copies(topic, n) + Copies(dlq, n)
           p == ChanPassed(n) + DeadPassed(n)
<1>0. DeliveryInv /\ AttemptsInv
  BY DEF AttemptsFullInv
<1>1. /\ attempts[n] \in Nat /\ ChanOwes(n) \in 0..1 /\ DeadOwes(n) \in 0..1
      /\ s \in Nat /\ p \in Nat /\ p <= s
  BY <1>0, CountsType DEF Counted
<1>2. disruptions \in Nat
  BY <1>0, ReadersType
<1>3. Rereads \in Nat /\ Rereads <= disruptions
  BY <1>0, <1>2 DEF AttemptsInv, Rereads
<1>4. attempts[n] + ChanOwes(n) + DeadOwes(n) <= Rereads * s + p
  BY <1>0 DEF AttemptsInv
<1> HIDE DEF s, p
<1>5. /\ Rereads * s \in Nat /\ disruptions * s \in Nat /\ Rereads * s <= disruptions * s
  BY <1>1, <1>2, <1>3, ProductsGrow
<1>6. (disruptions + 1) * s = disruptions * s + s
  BY <1>1, <1>2
<1>7. attempts[n] <= disruptions * s + s
  BY <1>1, <1>4, <1>5
<1> QED
  BY <1>6, <1>7 DEF s

\* attempts counts outcomes: UpdateStatus adds one for each reading of a copy of the
\* message on the channel topic and on the DLQ topic, never one for each of the loop's
\* retries, and a crash, a shutdown or a rebalance lets each copy be read once more.
THEOREM AttemptsAreOutcomes == Spec => []AttemptsCountOutcomes
<1>1. Init => AttemptsFullInv
  BY InitAttemptsInv
<1>2. AttemptsFullInv /\ [Next]_vars => AttemptsFullInv'
  BY NextAttemptsInv
<1>3. AttemptsFullInv => AttemptsCountOutcomes
  BY InvBoundsAttempts
<1> QED
  BY <1>1, <1>2, <1>3, PTL DEF Spec
=============================================================================
