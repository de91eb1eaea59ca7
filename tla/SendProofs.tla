----------------------------- MODULE SendProofs -----------------------------
(***************************************************************************)
(* Idempotency, proved for any number of requests, keys, faults and        *)
(* expiries.  The unique constraint alone is not enough: the argument      *)
(* needs that what Redis stores under a key was sent with that key, that a *)
(* row is open exactly while its request is inside createAndQueue's        *)
(* transaction, and that a committed row stays.                            *)
(***************************************************************************)
EXTENDS Send, TLAPS

\* A key belongs to one tenant.  The Redis key names no tenant, so without this
\* OneNotificationPerKey fails.
KeysAreOwned ==
    \A q, r \in Requests : Key[q] = Key[r] /\ Key[r] # NoKey => Tenant[q] = Tenant[r]

\* Only a request inside the transaction has an open row, and only one that
\* left it by way of tx.Commit has a committed one.
RowsFollowCode ==
    \A r \in Requests :
        /\ row[r] = "open" <=> pc[r] \in {"publish", "commit"}
        /\ row[r] = "committed" => pc[r] \in {"schedule", "release", "done"}
        /\ pc[r] = "schedule" => row[r] = "committed"

\* The unique constraint, kept for uncommitted rows by the waiting INSERT.
RowsAreUnique ==
    \A q, r \in Requests : Clash(q, r) => row[q] = "none" \/ row[r] = "none"

\* What Redis holds under a key, and so what a duplicate finds, has that key.
ReservationsMatch ==
    /\ \A k \in Keys : dedup[k] \in Requests => Key[dedup[k]] = k
    /\ \A r \in Requests : found[r] \in Requests => Key[found[r]] = Key[r]

\* Reserve runs with a key, and a lookup has something to look up and tries left.
CodeHasKey ==
    \A r \in Requests :
        /\ pc[r] \in {"reserve", "lookup"} => Key[r] \in Keys /\ Kind[r] # "schedule"
        /\ pc[r] = "lookup" => found[r] \in Requests
        /\ pc[r] \in {"idle", "reserve", "lookup"} => lookups[r] < MaxLookups

\* A success names a committed notification, and ends the request; that of a
\* Schedule has its scheduled_notifications row.
AnswersAreCommitted ==
    \A r \in Requests : Succeeded(r) =>
        /\ pc[r] = "done"
        /\ Told(r) \in Requests
        /\ row[Told(r)] = "committed"
        /\ Key[Told(r)] = Key[r]
        /\ Kind[r] = "schedule" => r \in scheduled

\* A key is reserved for a request that has passed Reserve and, once it is done,
\* has its row committed or could not release the key.
ReservationsAreHeld ==
    \A k \in Keys : dedup[k] \in Requests =>
        LET r == dedup[k]
        IN  /\ Kind[r] # "schedule"
            /\ pc[r] \notin {"idle", "reserve"}
            /\ pc[r] = "lookup" => r \in hurt
            /\ pc[r] = "done" => row[r] = "committed" \/ r \in hurt

SendInv ==
    /\ TypeOK
    /\ RowsFollowCode
    /\ RowsAreUnique
    /\ ReservationsMatch
    /\ CodeHasKey
    /\ AnswersAreCommitted
    /\ ReservationsAreHeld

-----------------------------------------------------------------------------

\* Initially nothing is reserved, inserted or answered.
LEMMA InitSendInv == Init => SendInv
  <1> SUFFICES ASSUME Init PROVE SendInv
    OBVIOUS
  <1> USE SendAssumption DEF Init
  <1>1. TypeOK
    BY DEF TypeOK
  <1>2. RowsFollowCode /\ RowsAreUnique /\ ReservationsMatch /\ CodeHasKey /\ AnswersAreCommitted
    BY DEF RowsFollowCode, RowsAreUnique, ReservationsMatch, CodeHasKey, AnswersAreCommitted,
           Succeeded
  <1>3. ReservationsAreHeld
    BY DEF ReservationsAreHeld
  <1> QED
    BY <1>1, <1>2, <1>3 DEF SendInv

\* A step keeps every variable in its type.
LEMMA SendKeepsType ==
    ASSUME SendInv, [Next]_vars
    PROVE  TypeOK'
  <1> USE SendAssumption DEF SendInv, TypeOK, environment, request
  <1>1. ASSUME NEW r \in Requests,
               Receive(r) \/ Reject(r) \/ Step(r) \/ Cancel(r)
        PROVE  TypeOK'
    <2>1. CASE Receive(r)
      BY <2>1 DEF Receive, Goto
    <2>2. CASE Reject(r)
      BY <2>2 DEF Reject, SameCall
    <2>3. CASE Reserve(r)
      BY <2>3 DEF Reserve, Goto, CodeHasKey
    <2>4. CASE \E took \in BOOLEAN : ReserveFails(r, took)
      BY <2>4 DEF ReserveFails, Fault, Answer, Goto, CodeHasKey
    <2>5. CASE ReserveRetried(r)
      BY <2>5 DEF ReserveRetried, Fault, Goto, CodeHasKey
    <2>6. CASE Lookup(r)
      BY <2>6 DEF Lookup, Answer, Goto, CodeHasKey
    <2>7. CASE LookupFails(r)
      BY <2>7 DEF LookupFails, Fault, Answer, Goto
    <2>8. CASE \E allowed \in BOOLEAN : Limit(r, allowed)
      BY <2>8 DEF Limit, Goto
    <2>9. CASE LimitFails(r)
      BY <2>9 DEF LimitFails, Fault, Fail, Answer, Goto
    <2>10. CASE Insert(r)
      BY <2>10 DEF Insert, Fail, Answer, Goto
    <2>11. CASE InsertFails(r)
      BY <2>11 DEF InsertFails, Fault, Fail, Answer, Goto
    <2>12. CASE \E took, ok \in BOOLEAN : Publish(r, took, ok)
      BY <2>12 DEF Publish, Fault, Fail, Answer, Goto
    <2>13. CASE Commit(r)
      BY <2>13 DEF Commit, Answer, Goto
    <2>14. CASE \E took \in BOOLEAN : CommitFails(r, took)
      BY <2>14 DEF CommitFails, Fault, Fail, Answer, Goto
    <2>15. CASE Release(r)
      BY <2>15 DEF Release, Answer, Goto
    <2>16. CASE ReleaseFails(r)
      BY <2>16 DEF ReleaseFails, Fault, Answer, Goto
    <2>17. CASE \E ok \in BOOLEAN : CreateScheduled(r, ok)
      BY <2>17 DEF CreateScheduled, Fault, Answer, Goto
    <2>18. CASE Panic(r)
      BY <2>18 DEF Panic, Die, InFlight
    <2>19. CASE Cancel(r)
      BY <2>19 DEF Cancel, InFlight, SameCall
    <2> QED
      BY <1>1, <2>1, <2>2, <2>3, <2>4, <2>5, <2>6, <2>7, <2>8, <2>9, <2>10, <2>11, <2>12,
         <2>13, <2>14, <2>15, <2>16, <2>17, <2>18, <2>19 DEF Step
  <1>2. CASE Crash
    BY <1>2 DEF Crash, Die, InFlight
  <1>3. CASE \E k \in Keys : Expire(k)
    BY <1>3 DEF Expire
  <1>4. CASE UNCHANGED vars
    BY <1>4 DEF vars
  <1> QED
    BY <1>1, <1>2, <1>3, <1>4 DEF Next

\* A row is opened, committed and rolled back where the code says.
LEMMA SendKeepsRows ==
    ASSUME SendInv, [Next]_vars
    PROVE  RowsFollowCode'
  <1> USE DEF SendInv, TypeOK, environment, request, RowsFollowCode
  <1>1. ASSUME NEW r \in Requests,
               Receive(r) \/ Reject(r) \/ Step(r) \/ Cancel(r)
        PROVE  RowsFollowCode'
    <2>1. CASE Receive(r)
      BY <2>1 DEF Receive, Goto
    <2>2. CASE Reject(r)
      BY <2>2 DEF Reject, SameCall
    <2>3. CASE Reserve(r)
      BY <2>3 DEF Reserve, Goto
    <2>4. CASE \E took \in BOOLEAN : ReserveFails(r, took)
      BY <2>4 DEF ReserveFails, Fault, Answer, Goto
    <2>5. CASE ReserveRetried(r)
      BY <2>5 DEF ReserveRetried, Fault, Goto
    <2>6. CASE Lookup(r)
      BY <2>6 DEF Lookup, Answer, Goto
    <2>7. CASE LookupFails(r)
      BY <2>7 DEF LookupFails, Fault, Answer, Goto
    <2>8. CASE \E allowed \in BOOLEAN : Limit(r, allowed)
      BY <2>8 DEF Limit, Goto
    <2>9. CASE LimitFails(r)
      BY <2>9 DEF LimitFails, Fault, Fail, Answer, Goto
    <2>10. CASE Insert(r)
      BY <2>10 DEF Insert, Fail, Answer, Goto
    <2>11. CASE InsertFails(r)
      BY <2>11 DEF InsertFails, Fault, Fail, Answer, Goto
    <2>12. CASE \E took, ok \in BOOLEAN : Publish(r, took, ok)
      BY <2>12 DEF Publish, Fault, Fail, Answer, Goto
    <2>13. CASE Commit(r)
      BY <2>13 DEF Commit, Answer, Goto
    <2>14. CASE \E took \in BOOLEAN : CommitFails(r, took)
      BY <2>14 DEF CommitFails, Fault, Fail, Answer, Goto
    <2>15. CASE Release(r)
      BY <2>15 DEF Release, Answer, Goto
    <2>16. CASE ReleaseFails(r)
      BY <2>16 DEF ReleaseFails, Fault, Answer, Goto
    <2>17. CASE \E ok \in BOOLEAN : CreateScheduled(r, ok)
      BY <2>17 DEF CreateScheduled, Fault, Answer, Goto
    <2>18. CASE Panic(r)
      BY <2>18 DEF Panic, Die, InFlight
    <2>19. CASE Cancel(r)
      BY <2>19 DEF Cancel, InFlight, SameCall
    <2> QED
      BY <1>1, <2>1, <2>2, <2>3, <2>4, <2>5, <2>6, <2>7, <2>8, <2>9, <2>10, <2>11, <2>12,
         <2>13, <2>14, <2>15, <2>16, <2>17, <2>18, <2>19 DEF Step
  <1>2. CASE Crash
    BY <1>2 DEF Crash, Die, InFlight
  <1>3. CASE \E k \in Keys : Expire(k)
    BY <1>3 DEF Expire
  <1>4. CASE UNCHANGED vars
    BY <1>4 DEF vars
  <1> QED
    BY <1>1, <1>2, <1>3, <1>4 DEF Next

\* No step makes two rows of one key live.
LEMMA SendKeepsUnique ==
    ASSUME SendInv, [Next]_vars
    PROVE  RowsAreUnique'
  <1> USE DEF SendInv, TypeOK, environment, request, RowsFollowCode, RowsAreUnique, Clash
  <1>1. ASSUME NEW r \in Requests,
               Receive(r) \/ Reject(r) \/ Step(r) \/ Cancel(r)
        PROVE  RowsAreUnique'
    <2>1. CASE Receive(r)
      BY <2>1 DEF Receive, Goto
    <2>2. CASE Reject(r)
      BY <2>2 DEF Reject, SameCall
    <2>3. CASE Reserve(r)
      BY <2>3 DEF Reserve, Goto
    <2>4. CASE \E took \in BOOLEAN : ReserveFails(r, took)
      BY <2>4 DEF ReserveFails, Fault, Answer, Goto
    <2>5. CASE ReserveRetried(r)
      BY <2>5 DEF ReserveRetried, Fault, Goto
    <2>6. CASE Lookup(r)
      BY <2>6 DEF Lookup, Answer, Goto
    <2>7. CASE LookupFails(r)
      BY <2>7 DEF LookupFails, Fault, Answer, Goto
    <2>8. CASE \E allowed \in BOOLEAN : Limit(r, allowed)
      BY <2>8 DEF Limit, Goto
    <2>9. CASE LimitFails(r)
      BY <2>9 DEF LimitFails, Fault, Fail, Answer, Goto
    <2>10. CASE Insert(r)
      BY <2>10 DEF Insert, Fail, Answer, Goto
    <2>11. CASE InsertFails(r)
      BY <2>11 DEF InsertFails, Fault, Fail, Answer, Goto
    <2>12. CASE \E took, ok \in BOOLEAN : Publish(r, took, ok)
      BY <2>12 DEF Publish, Fault, Fail, Answer, Goto
    <2>13. CASE Commit(r)
      BY <2>13 DEF Commit, Answer, Goto
    <2>14. CASE \E took \in BOOLEAN : CommitFails(r, took)
      BY <2>14 DEF CommitFails, Fault, Fail, Answer, Goto
    <2>15. CASE Release(r)
      BY <2>15 DEF Release, Answer, Goto
    <2>16. CASE ReleaseFails(r)
      BY <2>16 DEF ReleaseFails, Fault, Answer, Goto
    <2>17. CASE \E ok \in BOOLEAN : CreateScheduled(r, ok)
      BY <2>17 DEF CreateScheduled, Fault, Answer, Goto
    <2>18. CASE Panic(r)
      BY <2>18 DEF Panic, Die, InFlight
    <2>19. CASE Cancel(r)
      BY <2>19 DEF Cancel, InFlight, SameCall
    <2> QED
      BY <1>1, <2>1, <2>2, <2>3, <2>4, <2>5, <2>6, <2>7, <2>8, <2>9, <2>10, <2>11, <2>12,
         <2>13, <2>14, <2>15, <2>16, <2>17, <2>18, <2>19 DEF Step
  <1>2. CASE Crash
    BY <1>2 DEF Crash, Die, InFlight
  <1>3. CASE \E k \in Keys : Expire(k)
    BY <1>3 DEF Expire
  <1>4. CASE UNCHANGED vars
    BY <1>4 DEF vars
  <1> QED
    BY <1>1, <1>2, <1>3, <1>4 DEF Next

\* Reservations are made, and found, under the request's own key.
LEMMA SendKeepsMatch ==
    ASSUME SendInv, [Next]_vars
    PROVE  (ReservationsMatch /\ CodeHasKey)'
  <1> USE SendAssumption DEF SendInv, TypeOK, environment, request, ReservationsMatch,
          CodeHasKey
  <1>1. ASSUME NEW r \in Requests,
               Receive(r) \/ Reject(r) \/ Step(r) \/ Cancel(r)
        PROVE  (ReservationsMatch /\ CodeHasKey)'
    <2>1. CASE Receive(r)
      BY <2>1 DEF Receive, Goto, Keys
    <2>2. CASE Reject(r)
      BY <2>2 DEF Reject, SameCall
    <2>3. CASE Reserve(r)
      BY <2>3 DEF Reserve, Goto
    <2>4. CASE \E took \in BOOLEAN : ReserveFails(r, took)
      BY <2>4 DEF ReserveFails, Fault, Answer, Goto
    <2>5. CASE ReserveRetried(r)
      BY <2>5 DEF ReserveRetried, Fault, Goto
    <2>6. CASE Lookup(r)
      BY <2>6 DEF Lookup, Answer, Goto
    <2>7. CASE LookupFails(r)
      BY <2>7 DEF LookupFails, Fault, Answer, Goto
    <2>8. CASE \E allowed \in BOOLEAN : Limit(r, allowed)
      BY <2>8 DEF Limit, Goto
    <2>9. CASE LimitFails(r)
      BY <2>9 DEF LimitFails, Fault, Fail, Answer, Goto
    <2>10. CASE Insert(r)
      BY <2>10 DEF Insert, Fail, Answer, Goto
    <2>11. CASE InsertFails(r)
      BY <2>11 DEF InsertFails, Fault, Fail, Answer, Goto
    <2>12. CASE \E took, ok \in BOOLEAN : Publish(r, took, ok)
      BY <2>12 DEF Publish, Fault, Fail, Answer, Goto
    <2>13. CASE Commit(r)
      BY <2>13 DEF Commit, Answer, Goto
    <2>14. CASE \E took \in BOOLEAN : CommitFails(r, took)
      BY <2>14 DEF CommitFails, Fault, Fail, Answer, Goto
    <2>15. CASE Release(r)
      BY <2>15 DEF Release, Answer, Goto
    <2>16. CASE ReleaseFails(r)
      BY <2>16 DEF ReleaseFails, Fault, Answer, Goto
    <2>17. CASE \E ok \in BOOLEAN : CreateScheduled(r, ok)
      BY <2>17 DEF CreateScheduled, Fault, Answer, Goto
    <2>18. CASE Panic(r)
      BY <2>18 DEF Panic, Die, InFlight
    <2>19. CASE Cancel(r)
      BY <2>19 DEF Cancel, InFlight, SameCall
    <2> QED
      BY <1>1, <2>1, <2>2, <2>3, <2>4, <2>5, <2>6, <2>7, <2>8, <2>9, <2>10, <2>11, <2>12,
         <2>13, <2>14, <2>15, <2>16, <2>17, <2>18, <2>19 DEF Step
  <1>2. CASE Crash
    BY <1>2 DEF Crash, Die, InFlight
  <1>3. CASE \E k \in Keys : Expire(k)
    BY <1>3 DEF Expire
  <1>4. CASE UNCHANGED vars
    BY <1>4 DEF vars
  <1> QED
    BY <1>1, <1>2, <1>3, <1>4 DEF Next

\* A success is given for a committed row, which stays.
LEMMA SendKeepsAnswers ==
    ASSUME SendInv, [Next]_vars
    PROVE  AnswersAreCommitted'
  <1> USE DEF SendInv, TypeOK, environment, request, RowsFollowCode, ReservationsMatch,
          CodeHasKey, AnswersAreCommitted, Succeeded, Told
  <1>1. ASSUME NEW r \in Requests,
               Receive(r) \/ Reject(r) \/ Step(r) \/ Cancel(r)
        PROVE  AnswersAreCommitted'
    <2>1. CASE Receive(r)
      BY <2>1, SMTT(30) DEF Receive, Goto
    <2>2. CASE Reject(r)
      BY <2>2 DEF Reject, SameCall
    <2>3. CASE Reserve(r)
      BY <2>3 DEF Reserve, Goto
    <2>4. CASE \E took \in BOOLEAN : ReserveFails(r, took)
      BY <2>4 DEF ReserveFails, Fault, Answer, Goto
    <2>5. CASE ReserveRetried(r)
      BY <2>5 DEF ReserveRetried, Fault, Goto
    <2>6. CASE Lookup(r)
      BY <2>6 DEF Lookup, Answer, Goto
    <2>7. CASE LookupFails(r)
      BY <2>7 DEF LookupFails, Fault, Answer, Goto
    <2>8. CASE \E allowed \in BOOLEAN : Limit(r, allowed)
      BY <2>8 DEF Limit, Goto
    <2>9. CASE LimitFails(r)
      BY <2>9 DEF LimitFails, Fault, Fail, Answer, Goto
    <2>10. CASE Insert(r)
      BY <2>10 DEF Insert, Fail, Answer, Goto
    <2>11. CASE InsertFails(r)
      BY <2>11 DEF InsertFails, Fault, Fail, Answer, Goto
    <2>12. CASE \E took, ok \in BOOLEAN : Publish(r, took, ok)
      BY <2>12 DEF Publish, Fault, Fail, Answer, Goto
    <2>13. CASE Commit(r)
      BY <2>13 DEF Commit, Answer, Goto
    <2>14. CASE \E took \in BOOLEAN : CommitFails(r, took)
      BY <2>14 DEF CommitFails, Fault, Fail, Answer, Goto
    <2>15. CASE Release(r)
      BY <2>15 DEF Release, Answer, Goto
    <2>16. CASE ReleaseFails(r)
      BY <2>16 DEF ReleaseFails, Fault, Answer, Goto
    <2>17. CASE \E ok \in BOOLEAN : CreateScheduled(r, ok)
      BY <2>17 DEF CreateScheduled, Fault, Answer, Goto
    <2>18. CASE Panic(r)
      BY <2>18 DEF Panic, Die, InFlight
    <2>19. CASE Cancel(r)
      BY <2>19 DEF Cancel, InFlight, SameCall
    <2> QED
      BY <1>1, <2>1, <2>2, <2>3, <2>4, <2>5, <2>6, <2>7, <2>8, <2>9, <2>10, <2>11, <2>12,
         <2>13, <2>14, <2>15, <2>16, <2>17, <2>18, <2>19 DEF Step
  <1>2. CASE Crash
    BY <1>2 DEF Crash, Die, InFlight
  <1>3. CASE \E k \in Keys : Expire(k)
    BY <1>3 DEF Expire
  <1>4. CASE UNCHANGED vars
    BY <1>4 DEF vars
  <1> QED
    BY <1>1, <1>2, <1>3, <1>4 DEF Next

\* A request that leaves its reservation behind has committed its row, or is hurt:
\* every error path of processSend goes through releaseDedup.
LEMMA SendKeepsHeld ==
    ASSUME SendInv, [Next]_vars
    PROVE  ReservationsAreHeld'
  <1>t. /\ ReservationsAreHeld /\ dedup = [k \in Keys |-> dedup[k]]
        /\ pc = [q \in Requests |-> pc[q]] /\ row = [q \in Requests |-> row[q]]
    BY DEF SendInv, TypeOK
  \* A step of r past the reservation that fails over to a release, or answers what
  \* has none.
  <1>s. ASSUME NEW r \in Requests, UNCHANGED <<dedup, hurt>>,
               \A q \in Requests : q # r => pc'[q] = pc[q] /\ row'[q] = row[q],
               pc'[r] \in {"insert", "publish", "commit", "release", "done"},
               pc'[r] = "done" => Kind[r] = "schedule"
        PROVE  ReservationsAreHeld'
    BY <1>t, <1>s DEF ReservationsAreHeld
  <1>a. ASSUME NEW r \in Requests, Receive(r) PROVE ReservationsAreHeld'
    <2>1. pc[r] = "idle" /\ UNCHANGED <<dedup, row, hurt>>
      BY <1>a DEF Receive, environment
    <2>2. \A q \in Requests : q # r => pc'[q] = pc[q]
      BY <1>a, <1>t DEF Receive, Goto
    <2> QED
      BY <1>t, <2>1, <2>2 DEF ReservationsAreHeld
  <1>b. ASSUME NEW r \in Requests, Insert(r) PROVE ReservationsAreHeld'
    BY <1>b, <1>s, <1>t DEF Insert, Fail, Answer, Goto, environment
  <1>c. ASSUME NEW r \in Requests, NEW took, NEW ok \in BOOLEAN, Publish(r, took, ok)
        PROVE  ReservationsAreHeld'
    <2>1. UNCHANGED <<dedup, hurt>>
      BY <1>c DEF Publish, environment
    <2>2. \A q \in Requests : q # r => row'[q] = row[q]
      BY <1>c, <1>t DEF Publish
    <2>3. Goto(r, "commit") \/ Fail(r)
      BY <1>c DEF Publish
    <2>4. /\ \A q \in Requests : q # r => pc'[q] = pc[q]
          /\ pc'[r] \in {"commit", "release", "done"}
          /\ pc'[r] = "done" => Kind[r] = "schedule"
      BY <1>t, <2>3 DEF Fail, Answer, Goto
    <2> QED
      BY <1>s, <2>1, <2>2, <2>4
  <1>d. ASSUME NEW k \in Keys, Expire(k) PROVE ReservationsAreHeld'
    <2>1. UNCHANGED <<pc, row, hurt>> /\ dedup' = [dedup EXCEPT ![k] = NoRequest]
      BY <1>d DEF Expire, request
    <2>2. \A j \in Keys : dedup'[j] \in Requests => dedup'[j] = dedup[j]
      BY <1>t, <2>1, SendAssumption
    <2> QED
      BY <1>t, <2>1, <2>2 DEF ReservationsAreHeld
  <1> USE SendAssumption DEF SendInv, TypeOK, environment, request, RowsFollowCode,
         ReservationsMatch, CodeHasKey, ReservationsAreHeld
  <1>1. ASSUME NEW r \in Requests,
               Receive(r) \/ Reject(r) \/ Step(r) \/ Cancel(r)
        PROVE  ReservationsAreHeld'
    <2>1. CASE Receive(r)
      BY <1>a, <2>1
    <2>2. CASE Reject(r)
      BY <2>2, SMTT(30) DEF Reject, SameCall
    <2>3. CASE Reserve(r)
      <3>1. /\ pc[r] = "reserve" /\ Key[r] \in Keys /\ Kind[r] # "schedule"
            /\ \A q \in Requests : q # r => pc'[q] = pc[q]
            /\ UNCHANGED <<row, hurt>>
        BY <2>3 DEF Reserve, Goto
      <3>2. CASE UNCHANGED dedup
        BY <3>1, <3>2
      <3>3. CASE dedup' = [dedup EXCEPT ![Key[r]] = r] /\ pc'[r] = "limit"
        BY <3>1, <3>3
      <3> QED
        BY <2>3, <3>2, <3>3, SMTT(30) DEF Reserve, Goto
    <2>4. CASE \E took \in BOOLEAN : ReserveFails(r, took)
      BY <2>4, SMTT(30) DEF ReserveFails, Fault, Answer, Goto
    <2>5. CASE ReserveRetried(r)
      BY <2>5, SMTT(30) DEF ReserveRetried, Fault, Goto
    <2>6. CASE Lookup(r)
      BY <2>6, SMTT(30) DEF Lookup, Answer, Goto
    <2>7. CASE LookupFails(r)
      BY <2>7 DEF LookupFails, Fault, Answer, Goto
    <2>8. CASE \E allowed \in BOOLEAN : Limit(r, allowed)
      BY <2>8 DEF Limit, Goto
    <2>9. CASE LimitFails(r)
      BY <2>9, SMTT(30) DEF LimitFails, Fault, Fail, Answer, Goto
    <2>10. CASE Insert(r)
      BY <1>b, <2>10
    <2>11. CASE InsertFails(r)
      BY <2>11 DEF InsertFails, Fault, Fail, Answer, Goto
    <2>12. CASE \E took, ok \in BOOLEAN : Publish(r, took, ok)
      BY <1>c, <2>12, SMTT(30)
    <2>13. CASE Commit(r)
      BY <2>13 DEF Commit, Answer, Goto
    <2>14. CASE \E took \in BOOLEAN : CommitFails(r, took)
      BY <2>14 DEF CommitFails, Fault, Fail, Answer, Goto
    <2>15. CASE Release(r)
      BY <2>15, SMTT(30) DEF Release, Answer, Goto
    <2>16. CASE ReleaseFails(r)
      BY <2>16 DEF ReleaseFails, Fault, Answer, Goto
    <2>17. CASE \E ok \in BOOLEAN : CreateScheduled(r, ok)
      BY <2>17, SMTT(30) DEF CreateScheduled, Fault, Answer, Goto
    <2>18. CASE Panic(r)
      BY <2>18 DEF Panic, Die, InFlight
    <2>19. CASE Cancel(r)
      BY <2>19 DEF Cancel, InFlight, SameCall
    <2> QED
      BY <1>1, <2>1, <2>2, <2>3, <2>4, <2>5, <2>6, <2>7, <2>8, <2>9, <2>10, <2>11, <2>12,
         <2>13, <2>14, <2>15, <2>16, <2>17, <2>18, <2>19 DEF Step
  <1>2. CASE Crash
    BY <1>2 DEF Crash, Die, InFlight
  <1>3. CASE \E k \in Keys : Expire(k)
    BY <1>d, <1>3
  <1>4. CASE UNCHANGED vars
    BY <1>4 DEF vars
  <1> QED
    BY <1>1, <1>2, <1>3, <1>4 DEF Next

\* The strengthened invariant is inductive.
LEMMA NextSendInv == SendInv /\ [Next]_vars => SendInv'
  <1> SUFFICES ASSUME SendInv, [Next]_vars PROVE SendInv'
    OBVIOUS
  <1> QED
    BY SendKeepsType, SendKeepsRows, SendKeepsUnique, SendKeepsMatch,
       SendKeepsAnswers, SendKeepsHeld DEF SendInv

\* The invariant holds initially and every step of a handler keeps it.
LEMMA AlwaysSendInv == Spec => []SendInv
  <1> QED
    BY InitSendInv, NextSendInv, PTL DEF Spec

\* Two successes under one key name rows of one tenant and key, both committed;
\* RowsAreUnique leaves one.
LEMMA InvGivesOneNotification ==
    ASSUME SendInv, KeysAreOwned
    PROVE  OneNotificationPerKey
  <1> SUFFICES ASSUME NEW q \in Requests, NEW r \in Requests,
                      Clash(q, r), Succeeded(q), Succeeded(r),
                      Told(q) # Told(r)
               PROVE  FALSE
    BY DEF OneNotificationPerKey
  <1>1. /\ Told(q) \in Requests /\ row[Told(q)] = "committed" /\ Key[Told(q)] = Key[q]
        /\ Told(r) \in Requests /\ row[Told(r)] = "committed" /\ Key[Told(r)] = Key[r]
    BY DEF SendInv, AnswersAreCommitted
  <1>2. Key[q] = Key[r] /\ Key[r] # NoKey
    BY DEF Clash
  <1>3. Tenant[Told(q)] = Tenant[Told(r)]
    BY <1>1, <1>2 DEF KeysAreOwned
  <1>4. Clash(Told(q), Told(r))
    BY <1>1, <1>2, <1>3 DEF Clash
  <1> QED
    BY <1>1, <1>4 DEF SendInv, RowsAreUnique

\* Every variable of the ingestion API keeps its type.
THEOREM SendTypeCorrect == Spec => []TypeOK
  <1>1. SendInv => TypeOK
    BY DEF SendInv
  <1> QED
    BY <1>1, AlwaysSendInv, PTL

\* No interleaving with other requests, and no fault, makes a handler report a
\* notification that is not persisted under the client's key, or a schedule the
\* scheduler will not find.
THEOREM SendAnswersArePersisted == Spec => []AnswersArePersisted
  <1>1. SendInv => AnswersArePersisted
    BY DEF SendInv, AnswersAreCommitted, AnswersArePersisted
  <1> QED
    BY <1>1, AlwaysSendInv, PTL

\* Idempotency of processSend: whatever fails, expires or crashes, clients that
\* succeed with the same key are told about the same notification, as long as no
\* two tenants choose the same key.
THEOREM SendIsIdempotent ==
    ASSUME KeysAreOwned
    PROVE  Spec => []OneNotificationPerKey
  <1>1. SendInv => OneNotificationPerKey
    BY InvGivesOneNotification, KeysAreOwned
  <1> QED
    BY <1>1, AlwaysSendInv, PTL

\* createAndQueue publishes at most one notification per key that can still be
\* committed: the unique constraint guards the publish, which comes after the
\* INSERT and inside its transaction.
THEOREM SendPublishesOnce == Spec => []OneMessagePerKey
  <1>1. SendInv => OneMessagePerKey
    BY DEF SendInv, TypeOK, RowsAreUnique, OneMessagePerKey
  <1> QED
    BY <1>1, AlwaysSendInv, PTL

\* No interleaving makes processSend end without its row and leave the key reserved:
\* only a crash, a panic, a cancelled context or a failing Redis does.
THEOREM SendReleasesReservations == Spec => []ReservationIsReleased
  <1>1. SendInv => ReservationIsReleased
    BY DEF SendInv, TypeOK, ReservationsAreHeld, ReservationIsReleased
  <1> QED
    BY <1>1, AlwaysSendInv, PTL
=============================================================================
