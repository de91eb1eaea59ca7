--------------------------- MODULE ConsumerProofs ---------------------------
(***************************************************************************)
(* Proofs about the consumer loop, for any number of partitions, messages, *)
(* retries, crashes, shutdowns and rebalances.                             *)
(***************************************************************************)
EXTENDS Consumer, TLAPS

\* Nothing below the message in hand was left undecided.
InHandSound ==
    Busy => /\ cur[2] \in 1..Len(log[cur[1]])
            /\ \A i \in 1..(cur[2] - 1) : HasFate(cur[1], i)

\* handleWithRetry has returned true for the message about to be committed.
ReadyToCommit == pc = "commit" => HasFate(cur[1], cur[2])

\* Whatever the reader has handed out is decided, or is the message in hand.
FetchedDecided ==
    pc # "stopped" =>
        \A p \in Partitions : \A i \in 1..pos[p] :
            HasFate(p, i) \/ (Busy /\ cur = <<p, i>>)

\* A retry is only ever scheduled while attempts remain.
BackoffHasRoom == pc = "backoff" => attempt < MaxRetries

\* The inductive invariant.  CommitCovers alone is not inductive: a commit
\* needs InHandSound and ReadyToCommit, and the next fetch FetchedDecided.
CoverInv ==
    /\ TypeOK
    /\ CommitCovers
    /\ InHandSound
    /\ ReadyToCommit
    /\ FetchedDecided
    /\ BackoffHasRoom

-----------------------------------------------------------------------------

\* The placeholder for "no message in hand" has the type of a position.
LEMMA NoMessageType == NoMessage \in Position
  BY ConsumerAssumption DEF ConsumerAssumption, NoMessage, Position

\* The loop starts with nothing appended, fetched or committed.
LEMMA InitCoverInv == Init => CoverInv
<1> SUFFICES ASSUME Init PROVE CoverInv
  OBVIOUS
<1>1. TypeOK
  <2>1. log \in [Partitions -> Seq(Messages)]
    BY DEF Init
  <2>2. cur \in Position
    BY NoMessageType DEF Init
  <2>3. /\ committed \in [Partitions -> Nat] /\ pos \in [Partitions -> Nat]
        /\ pc \in PCs /\ ctxDone \in BOOLEAN /\ fates \subseteq Position \X Fates
    BY DEF Init, PCs
  <2>4. attempt \in 1..MaxRetries /\ disruptions \in 0..MaxDisruptions
    BY ConsumerAssumption DEF Init, ConsumerAssumption
  <2>5. ASSUME NEW p \in Partitions
        PROVE  committed[p] <= Len(log[p]) /\ pos[p] <= Len(log[p])
    <3>1. log[p] = << >> /\ committed[p] = 0 /\ pos[p] = 0
      BY DEF Init
    <3> QED
      BY <3>1
  <2> QED
    BY <2>1, <2>2, <2>3, <2>4, <2>5 DEF TypeOK
<1>2. CommitCovers /\ FetchedDecided
  BY DEF Init, CommitCovers, FetchedDecided
<1>3. InHandSound /\ ReadyToCommit /\ BackoffHasRoom
  BY DEF Init, InHandSound, ReadyToCommit, BackoffHasRoom, Busy
<1> QED
  BY <1>1, <1>2, <1>3 DEF CoverInv

\* A step of the loop that leaves the log alone keeps every position and
\* counter in its type.
LEMMA StepType == TypeOK /\ InHandSound /\ BackoffHasRoom /\ Step /\ UNCHANGED log => TypeOK'
<1> SUFFICES ASSUME TypeOK, InHandSound, BackoffHasRoom, Step, UNCHANGED log PROVE TypeOK'
  OBVIOUS
<1> USE ConsumerAssumption, NoMessageType DEF ConsumerAssumption
<1>0. \A p \in Partitions : Len(log[p]) \in Nat
  BY DEF TypeOK
<1>1. ASSUME NEW p \in Partitions, Fetch(p) PROVE TypeOK'
  <2>1. pos[p] \in Nat /\ pos[p] + 1 <= Len(log[p])
    BY <1>0, <1>1 DEF Fetch, TypeOK
  <2>2. pos' \in [Partitions -> Nat] /\ \A q \in Partitions : pos'[q] <= Len(log'[q])
    BY <1>0, <1>1, <2>1 DEF TypeOK, Fetch
  <2>3. <<p, pos[p] + 1>> \in Position
    BY <2>1 DEF Position
  <2>4. fates' \subseteq Position \X Fates
    <3>1. <<<<p, pos[p] + 1>>, "malformed">> \in Position \X Fates
      BY <2>3 DEF Fates
    <3>2. fates' = fates \/ fates' = fates \cup {<<<<p, pos[p] + 1>>, "malformed">>}
      BY <1>1 DEF Fetch
    <3> QED
      BY <3>1, <3>2 DEF TypeOK
  <2>5. pc' \in PCs /\ cur' \in Position /\ attempt' \in 1..MaxRetries
    BY <1>1, <2>3 DEF Fetch, PCs
  <2>6. log' = log /\ committed' = committed /\ ctxDone' = ctxDone
        /\ disruptions' = disruptions
    BY <1>1 DEF Fetch
  <2> QED
    BY <2>2, <2>4, <2>5, <2>6 DEF TypeOK
<1>2. ASSUME FetchFails \/ FetchWaitEnds PROVE TypeOK'
  BY <1>2 DEF FetchFails, FetchWaitEnds, TypeOK, PCs
<1>3. ASSUME NEW ok \in BOOLEAN, HandlerReturns(ok) PROVE TypeOK'
  <2>1. fates' \subseteq Position \X Fates
    BY <1>3 DEF HandlerReturns, Become, TypeOK, Fates
  <2> QED
    BY <1>3, <2>1 DEF HandlerReturns, TypeOK, PCs
<1>4. ASSUME BackoffEnds PROVE TypeOK'
  BY <1>4 DEF BackoffEnds, BackoffHasRoom, TypeOK, PCs
<1>5. ASSUME NEW appended \in BOOLEAN, NEW ok \in BOOLEAN, PublishDLQ(appended, ok)
      PROVE  TypeOK'
  <2>1. <<cur, "dlq">> \in Position \X Fates /\ <<cur, "unhandled">> \in Position \X Fates
    BY DEF TypeOK, Fates
  <2>2. fates' \subseteq Position \X Fates
    BY <1>5, <2>1 DEF PublishDLQ, TypeOK
  <2>3. pc' \in PCs /\ cur' \in Position
    BY <1>5 DEF PublishDLQ, PCs, TypeOK
  <2> QED
    BY <1>5, <2>2, <2>3 DEF PublishDLQ, TypeOK
<1>6. ASSUME NEW stored \in BOOLEAN, NEW ok \in BOOLEAN, CommitMessages(stored, ok)
      PROVE  TypeOK'
  <2>1. cur[1] \in Partitions /\ cur[2] \in 1..Len(log[cur[1]])
    BY <1>6 DEF CommitMessages, InHandSound, Busy, TypeOK, Position
  <2>2. committed' \in [Partitions -> Nat]
        /\ \A p \in Partitions : committed'[p] <= Len(log[p])
    BY <1>0, <1>6, <2>1 DEF CommitMessages, TypeOK
  <2>3. pc' \in PCs /\ cur' \in Position
    BY <1>6 DEF CommitMessages, PCs
  <2> QED
    BY <1>6, <2>2, <2>3 DEF CommitMessages, TypeOK
<1>7. ASSUME Cancel \/ Crash \/ Rebalance PROVE TypeOK'
  <2>1. disruptions' \in 0..MaxDisruptions
    BY <1>7 DEF Cancel, Crash, Rebalance, Disrupt, TypeOK
  <2>2. pc' \in PCs /\ cur' \in Position /\ ctxDone' \in BOOLEAN
    BY <1>7 DEF Cancel, Crash, Rebalance, TypeOK, PCs
  <2>3. pos' = pos \/ pos' = committed
    BY <1>7 DEF Cancel, Crash, Rebalance
  <2>4. UNCHANGED <<log, committed, attempt, fates>>
    BY <1>7 DEF Cancel, Crash, Rebalance
  <2> QED
    BY <2>1, <2>2, <2>3, <2>4 DEF TypeOK
<1>8. ASSUME Restart PROVE TypeOK'
  <2>1. pc' \in PCs /\ ctxDone' \in BOOLEAN
    BY <1>8 DEF Restart, PCs
  <2>3. attempt' \in 1..MaxRetries
    BY <1>8 DEF Restart
  <2>2. pos' = committed /\ UNCHANGED <<log, committed, cur, disruptions, fates>>
    BY <1>8 DEF Restart
  <2> QED
    BY <2>1, <2>2, <2>3 DEF TypeOK
<1> QED
  BY <1>1, <1>2, <1>3, <1>4, <1>5, <1>6, <1>7, <1>8 DEF Step

-----------------------------------------------------------------------------

\* Decided positions stay decided: no step removes a fate.
LEMMA FatesGrow ==
  ASSUME fates \subseteq fates', NEW p, NEW o, HasFate(p, o)
  PROVE  HasFate(p, o)'
  BY DEF HasFate

\* A step of the loop keeps the invariant: only Fetch moves the reader on, and
\* only a message with a fate leaves the hand for anything but a stop.
LEMMA StepCoverInv == CoverInv /\ Step /\ UNCHANGED log => CoverInv'
<1> SUFFICES ASSUME CoverInv, Step, UNCHANGED log PROVE CoverInv'
  OBVIOUS
<1> USE ConsumerAssumption DEF ConsumerAssumption
<1>0. TypeOK /\ TypeOK' /\ \A p \in Partitions : Len(log[p]) \in Nat
  BY StepType DEF CoverInv, TypeOK
<1>a. fates \subseteq fates'
  BY DEF Step, Fetch, FetchFails, FetchWaitEnds, HandlerReturns, Become, BackoffEnds,
         PublishDLQ, CommitMessages, Cancel, Crash, Restart, Rebalance
<1>b. \A p, o : HasFate(p, o) => HasFate(p, o)'
  BY <1>a, FatesGrow
<1>1. ASSUME NEW p \in Partitions, Fetch(p) PROVE CoverInv'
  <2>1. CommitCovers'
    BY <1>b, <1>1 DEF CoverInv, CommitCovers, Fetch
  <2>2. \A i \in 1..pos[p] : HasFate(p, i)
    BY <1>1 DEF CoverInv, FetchedDecided, Fetch, Busy
  <2>3. cur' = <<p, pos[p] + 1>> /\ pos[p] + 1 \in 1..Len(log[p]) /\ pos[p] \in Nat
    BY <1>0, <1>1 DEF Fetch, TypeOK
  <2>4. InHandSound'
    BY <1>b, <2>2, <2>3 DEF InHandSound
  <2>5. ReadyToCommit'
    BY <1>1 DEF ReadyToCommit, Fetch, HasFate, Fates
  <2>6. FetchedDecided'
    <3> SUFFICES ASSUME NEW q \in Partitions, NEW i \in 1..pos'[q]
                 PROVE  HasFate(q, i)' \/ (Busy' /\ cur' = <<q, i>>)
      BY DEF FetchedDecided
    <3>1. Busy'
      BY <1>1 DEF Fetch, Busy
    <3>2. CASE q = p /\ i = pos[p] + 1
      BY <2>3, <3>1, <3>2
    <3>3. CASE ~(q = p /\ i = pos[p] + 1)
      <4>1. i \in 1..pos[q]
        BY <1>0, <1>1, <2>3, <3>3 DEF Fetch, TypeOK
      <4> QED
        BY <1>1, <1>b, <4>1 DEF CoverInv, FetchedDecided, Fetch, Busy
    <3> QED
      BY <3>2, <3>3
  <2>7. BackoffHasRoom'
    BY <1>1 DEF Fetch, BackoffHasRoom
  <2> QED
    BY <1>0, <2>1, <2>4, <2>5, <2>6, <2>7 DEF CoverInv
<1>2. ASSUME FetchFails \/ FetchWaitEnds PROVE CoverInv'
  BY <1>0, <1>2, <1>b DEF CoverInv, FetchFails, FetchWaitEnds, CommitCovers, InHandSound,
     ReadyToCommit, FetchedDecided, BackoffHasRoom, Busy
<1>3. ASSUME NEW ok \in BOOLEAN, HandlerReturns(ok) PROVE CoverInv'
  <2>1. Busy /\ Busy' /\ UNCHANGED <<committed, pos, cur, log, attempt>>
    BY <1>3 DEF HandlerReturns, Busy
  <2>2. CommitCovers' /\ InHandSound' /\ FetchedDecided'
    BY <1>b, <1>3, <2>1 DEF CoverInv, CommitCovers, InHandSound, FetchedDecided, HandlerReturns
  <2>3. ReadyToCommit'
    <3>1. cur = <<cur[1], cur[2]>>
      BY <1>0 DEF TypeOK, Position
    <3> QED
      BY <1>3, <3>1 DEF ReadyToCommit, HandlerReturns, Become, HasFate, Fates
  <2>4. BackoffHasRoom'
    BY <1>3 DEF BackoffHasRoom, HandlerReturns
  <2> QED
    BY <1>0, <2>2, <2>3, <2>4 DEF CoverInv
<1>4. ASSUME BackoffEnds PROVE CoverInv'
  BY <1>0, <1>4, <1>b DEF CoverInv, BackoffEnds, CommitCovers, InHandSound,
     ReadyToCommit, FetchedDecided, BackoffHasRoom, Busy
<1>5. ASSUME NEW appended \in BOOLEAN, NEW ok \in BOOLEAN, PublishDLQ(appended, ok)
      PROVE  CoverInv'
  <2>0. cur = <<cur[1], cur[2]>>
    BY <1>0 DEF TypeOK, Position
  <2>1. Busy /\ UNCHANGED <<committed, pos, log, attempt>>
    BY <1>5 DEF PublishDLQ, Busy
  <2>2. CommitCovers' /\ BackoffHasRoom'
    BY <1>b, <1>5, <2>1 DEF CoverInv, CommitCovers, BackoffHasRoom, PublishDLQ
  <2>3. pc' # "stopped" => <<cur, "dlq">> \in fates' \/ <<cur, "unhandled">> \in fates'
    BY <1>5 DEF PublishDLQ
  <2>4. Busy' => pc' = "commit" /\ cur' = cur
    BY <1>5 DEF PublishDLQ, Busy
  <2>5. InHandSound'
    BY <1>b, <2>1, <2>4 DEF CoverInv, InHandSound
  <2>6. ReadyToCommit'
    BY <2>0, <2>3, <2>4 DEF ReadyToCommit, Busy, HasFate, Fates
  <2>7. FetchedDecided'
    <3> SUFFICES ASSUME pc' # "stopped", NEW q \in Partitions, NEW i \in 1..pos'[q]
                 PROVE  HasFate(q, i)'
      BY DEF FetchedDecided
    <3>0. pc # "stopped" /\ i \in 1..pos[q]
      BY <1>5, <2>1 DEF PublishDLQ
    <3>1. HasFate(q, i) \/ cur = <<q, i>>
      BY <3>0 DEF CoverInv, FetchedDecided
    <3>2. cur = <<q, i>> => HasFate(q, i)'
      BY <2>3 DEF HasFate, Fates
    <3> QED
      BY <1>b, <3>1, <3>2
  <2> QED
    BY <1>0, <2>2, <2>5, <2>6, <2>7 DEF CoverInv
<1>6. ASSUME NEW stored \in BOOLEAN, NEW ok \in BOOLEAN, CommitMessages(stored, ok)
      PROVE  CoverInv'
  <2>1. Busy /\ ~Busy' /\ UNCHANGED <<pos, log, attempt, fates>>
    BY <1>6 DEF CommitMessages, Busy
  <2>2. cur[1] \in Partitions /\ cur[2] \in Nat /\ cur = <<cur[1], cur[2]>>
    BY <1>0 DEF TypeOK, Position
  <2>3. \A i \in 1..cur[2] : HasFate(cur[1], i)
    BY <1>6, <2>1, <2>2 DEF CoverInv, InHandSound, ReadyToCommit, CommitMessages
  <2>4. CommitCovers'
    BY <1>0, <1>b, <1>6, <2>2, <2>3 DEF CoverInv, CommitCovers, CommitMessages, TypeOK
  <2>5. InHandSound' /\ ReadyToCommit' /\ BackoffHasRoom'
    BY <1>6, <2>1 DEF InHandSound, ReadyToCommit, BackoffHasRoom, CommitMessages
  <2>6. FetchedDecided'
    <3> SUFFICES ASSUME NEW q \in Partitions, NEW i \in 1..pos'[q]
                 PROVE  HasFate(q, i)'
      BY DEF FetchedDecided
    <3>1. HasFate(q, i) \/ cur = <<q, i>>
      BY <1>6, <2>1 DEF CoverInv, FetchedDecided, CommitMessages
    <3>2. HasFate(cur[1], cur[2])
      BY <1>6 DEF CoverInv, ReadyToCommit, CommitMessages
    <3> QED
      BY <1>b, <3>1, <3>2
  <2> QED
    BY <1>0, <2>4, <2>5, <2>6 DEF CoverInv
<1>7. ASSUME Cancel PROVE CoverInv'
  BY <1>0, <1>7, <1>b DEF CoverInv, Cancel, CommitCovers, InHandSound,
     ReadyToCommit, FetchedDecided, BackoffHasRoom, Busy
<1>8. ASSUME Crash PROVE CoverInv'
  BY <1>0, <1>8, <1>b DEF CoverInv, Crash, CommitCovers, InHandSound,
     ReadyToCommit, FetchedDecided, BackoffHasRoom, Busy
<1>9. ASSUME Restart \/ Rebalance PROVE CoverInv'
  <2>1. pos' = committed /\ UNCHANGED <<log, committed, cur, fates>>
    BY <1>9 DEF Restart, Rebalance
  <2>2. pc' = "fetch" \/ (pc' = pc /\ attempt' = attempt)
    BY <1>9 DEF Restart, Rebalance
  <2>3. CommitCovers' /\ FetchedDecided'
    BY <1>b, <2>1 DEF CoverInv, CommitCovers, FetchedDecided
  <2>4. InHandSound' /\ ReadyToCommit' /\ BackoffHasRoom'
    BY <1>b, <2>1, <2>2 DEF CoverInv, InHandSound, ReadyToCommit, BackoffHasRoom, Busy
  <2> QED
    BY <1>0, <2>3, <2>4 DEF CoverInv
<1> QED
  BY <1>1, <1>2, <1>3, <1>4, <1>5, <1>6, <1>7, <1>8, <1>9 DEF Step

\* Nothing that happens outside the loop disturbs it: the log may grow, the context
\* may end and the process may die.
LEMMA OutsideCoverInv ==
  ASSUME CoverInv,
         log' \in [Partitions -> Seq(Messages)],
         \A q \in Partitions : Len(log'[q]) >= Len(log[q]),
         UNCHANGED <<committed, pos, attempt, fates>>,
         UNCHANGED <<pc, cur>> \/ (pc' = "stopped" /\ cur' = NoMessage),
         ctxDone' \in BOOLEAN, disruptions' \in 0..MaxDisruptions
  PROVE  CoverInv'
<1>0. \A q \in Partitions : Len(log[q]) \in Nat /\ Len(log'[q]) \in Nat
  BY DEF CoverInv, TypeOK
<1>1. TypeOK'
  <2>1. pc' \in PCs /\ cur' \in Position
    BY NoMessageType DEF CoverInv, TypeOK, PCs
  <2>2. \A q \in Partitions : committed'[q] <= Len(log'[q]) /\ pos'[q] <= Len(log'[q])
    BY <1>0 DEF CoverInv, TypeOK
  <2> QED
    BY <2>1, <2>2 DEF CoverInv, TypeOK
<1>2. CASE pc' = "stopped" /\ cur' = NoMessage
  BY <1>1, <1>2 DEF CoverInv, CommitCovers, InHandSound, ReadyToCommit, FetchedDecided,
     BackoffHasRoom, Busy, HasFate
<1>3. CASE UNCHANGED <<pc, cur>>
  <2>1. InHandSound'
    <3>1. cur[1] \in Partitions /\ cur[2] \in Nat
      BY DEF CoverInv, TypeOK, Position
    <3>2. Busy => cur[2] \in 1..Len(log'[cur[1]])
      BY <1>0, <3>1 DEF CoverInv, InHandSound
    <3>3. Busy => \A i \in 1..(cur[2] - 1) : HasFate(cur[1], i)
      BY DEF CoverInv, InHandSound
    <3> QED
      BY <1>3, <3>2, <3>3 DEF InHandSound, Busy, HasFate
  <2>2. CommitCovers' /\ ReadyToCommit' /\ FetchedDecided' /\ BackoffHasRoom'
    BY <1>3 DEF CoverInv, CommitCovers, ReadyToCommit, FetchedDecided, BackoffHasRoom,
       Busy, HasFate
  <2> QED
    BY <1>1, <2>1, <2>2 DEF CoverInv
<1> QED
  BY <1>2, <1>3

\* Appending to the log, in particular: positions only gain room.
LEMMA AppendCoverInv ==
  ASSUME CoverInv, NEW p \in Partitions, NEW m \in Messages, Append1(p, m)
  PROVE  CoverInv'
<1>1. /\ log' \in [Partitions -> Seq(Messages)]
      /\ \A q \in Partitions : Len(log'[q]) >= Len(log[q])
  BY DEF CoverInv, TypeOK, Append1
<1>2. UNCHANGED loopVars
  BY DEF Append1
<1> QED
  BY <1>1, <1>2, OutsideCoverInv DEF loopVars, CoverInv, TypeOK

\* The invariant is inductive.
LEMMA NextCoverInv == CoverInv /\ [Next]_vars => CoverInv'
<1> SUFFICES ASSUME CoverInv, [Next]_vars PROVE CoverInv'
  OBVIOUS
<1>1. CASE UNCHANGED vars
  BY <1>1 DEF CoverInv, TypeOK, CommitCovers, InHandSound, ReadyToCommit, FetchedDecided,
     BackoffHasRoom, Busy, HasFate, vars, loopVars
<1>2. CASE Next
  BY <1>2, StepCoverInv, AppendCoverInv DEF Next
<1> QED
  BY <1>1, <1>2

-----------------------------------------------------------------------------

\* Run and handleWithRetry keep every variable in its type and every position
\* inside the log, in every behaviour.
THEOREM ConsumerTypeCorrect == Spec => []TypeOK
<1>1. CoverInv => TypeOK
  BY DEF CoverInv
<1> QED
  BY <1>1, InitCoverInv, NextCoverInv, PTL DEF Spec

\* The committed offset never passes a message on which handleWithRetry did
\* not finish, for any number of partitions, crashes, shutdowns and rebalances.
THEOREM CommitsCoverDecided == Spec => []CommitCovers
<1>1. CoverInv => CommitCovers
  BY DEF CoverInv
<1> QED
  BY <1>1, InitCoverInv, NextCoverInv, PTL DEF Spec

-----------------------------------------------------------------------------

\* A step that adds the fates F to a position inside the log, and changes
\* neither the log nor an offset, is a Decide step of the contract.
LEMMA DecideStep ==
  ASSUME CoverInv, NEW p \in Partitions, NEW o \in 1..Len(log[p]), NEW F \in SUBSET Fates,
         fates' = fates \cup {<<<<p, o>>, f>> : f \in F}, UNCHANGED <<log, committed>>
  PROVE  Contract!Next
<1>1. Contract!Decide(p, o, F)
  BY DEF Contract!Decide
<1>2. o \in 1..[q \in Partitions |-> Len(log[q])][p]
  OBVIOUS
<1> QED
  BY <1>1, <1>2 DEF Contract!Next

\* Every step of the loop is a step of the contract or changes nothing that
\* the contract speaks of.
LEMMA StepImplements ==
  ASSUME CoverInv, Step, UNCHANGED log
  PROVE  Contract!Next \/ UNCHANGED <<log, committed, fates>>
<1> DEFINE Goal == Contract!Next \/ UNCHANGED <<log, committed, fates>>
<1>0. /\ cur = <<cur[1], cur[2]>> /\ cur[1] \in Partitions
      /\ Busy => cur[2] \in 1..Len(log[cur[1]])
  BY DEF CoverInv, TypeOK, Position, InHandSound
<1>a. ASSUME NEW F \in SUBSET Fates, Busy, UNCHANGED committed,
             fates' = fates \cup {<<cur, f>> : f \in F}
      PROVE  Goal
  <2>1. fates' = fates \cup {<<<<cur[1], cur[2]>>, f>> : f \in F}
    BY <1>0, <1>a
  <2>2. cur[2] \in 1..Len(log[cur[1]]) /\ UNCHANGED <<log, committed>>
    BY <1>0, <1>a
  <2>3. Contract!Next
    BY <1>0, <2>1, <2>2, DecideStep
  <2> QED
    BY <2>3
<1>b. ASSUME NEW f \in Fates, Busy, UNCHANGED committed, Become(f) PROVE Goal
  <2>1. fates' = fates \cup {<<cur, g>> : g \in {f}}
    BY <1>b DEF Become
  <2> QED
    BY <1>a, <1>b, <2>1
<1>1. ASSUME NEW p \in Partitions, Fetch(p) PROVE Goal
  <2>1. pos[p] + 1 \in 1..Len(log[p])
    BY <1>1 DEF CoverInv, TypeOK, Fetch
  <2>2. CASE fates' = fates
    BY <1>1, <2>2 DEF Fetch
  <2>3. CASE fates' = fates \cup {<<<<p, pos[p] + 1>>, "malformed">>}
    <3>1. fates' = fates \cup {<<<<p, pos[p] + 1>>, f>> : f \in {"malformed"}}
      BY <2>3
    <3> QED
      BY <1>1, <2>1, <3>1, DecideStep DEF Fetch, Fates
  <2> QED
    BY <1>1, <2>2, <2>3 DEF Fetch
<1>2. ASSUME FetchFails \/ FetchWaitEnds \/ BackoffEnds PROVE Goal
  BY <1>2 DEF FetchFails, FetchWaitEnds, BackoffEnds
<1>3. ASSUME NEW ok \in BOOLEAN, HandlerReturns(ok) PROVE Goal
  BY <1>3, <1>b DEF HandlerReturns, Busy, Fates
<1>4. ASSUME NEW appended \in BOOLEAN, NEW ok \in BOOLEAN, PublishDLQ(appended, ok)
      PROVE  Goal
  <2> DEFINE F == (IF appended THEN {"dlq"} ELSE {})
                     \cup (IF ~ok /\ ~ctxDone THEN {"unhandled"} ELSE {})
  <2>1. fates' = fates \cup {<<cur, f>> : f \in F}
    BY <1>4 DEF PublishDLQ
  <2> QED
    BY <1>4, <1>a, <2>1 DEF PublishDLQ, Busy, Fates
<1>5. ASSUME NEW stored \in BOOLEAN, NEW ok \in BOOLEAN, CommitMessages(stored, ok)
      PROVE  Goal
  <2>1. CASE ~stored
    BY <1>5, <2>1 DEF CommitMessages
  <2>2. CASE stored
    <3>1. cur[2] \in 1..Len(log[cur[1]]) /\ cur[2] \in Nat
      BY <1>0, <1>5 DEF CommitMessages, Busy, CoverInv, TypeOK, Position
    <3>2. \A i \in 1..cur[2] : HasFate(cur[1], i)
      BY <1>5, <3>1 DEF CoverInv, InHandSound, ReadyToCommit, CommitMessages, Busy
    <3>3. Contract!Commit(cur[1], cur[2])
      BY <1>0, <1>5, <2>2, <3>1, <3>2
      DEF Contract!Commit, Contract!Decided, HasFate, CommitMessages
    <3> QED
      BY <1>0, <3>1, <3>3 DEF Contract!Next
  <2> QED
    BY <2>1, <2>2
<1>6. ASSUME Cancel \/ Crash \/ Restart \/ Rebalance PROVE Goal
  BY <1>6 DEF Cancel, Crash, Restart, Rebalance
<1> QED
  BY <1>1, <1>2, <1>3, <1>4, <1>5, <1>6 DEF Step

\* The loop implements the contract: it decides only positions that exist and
\* commits an offset only when everything up to it is decided.
THEOREM ConsumerImplementsContract == Spec => HonoursContract
<1>1. Init => Contract!Init
  BY DEF Init, Contract!Init
<1>2. CoverInv /\ [Next]_vars => [Contract!Next]_(Contract!cvars)
  <2> SUFFICES ASSUME CoverInv, [Next]_vars
               PROVE  Contract!Next \/ UNCHANGED Contract!cvars
    OBVIOUS
  <2>1. CASE UNCHANGED vars
    BY <2>1 DEF vars, loopVars, Contract!cvars
  <2>2. CASE Step /\ UNCHANGED log
    BY <2>2, StepImplements DEF Contract!cvars
  <2>3. ASSUME NEW p \in Partitions, NEW m \in Messages, Append1(p, m)
        PROVE  Contract!Next
    <3>1. Contract!Arrive(p)
      <4>1. log' = [log EXCEPT ![p] = Append(log[p], m)] /\ UNCHANGED <<committed, fates>>
        BY <2>3 DEF Append1, loopVars
      <4>2. \A q \in Partitions : Len(log'[q]) = IF q = p THEN Len(log[q]) + 1 ELSE Len(log[q])
        BY <4>1 DEF CoverInv, TypeOK
      <4>3. [q \in Partitions |-> Len(log[q])]'
              = [[q \in Partitions |-> Len(log[q])] EXCEPT ![p] = @ + 1]
        BY <4>2
      <4> QED
        BY <4>1, <4>3 DEF Contract!Arrive
    <3> QED
      BY <3>1 DEF Contract!Next
  <2> QED
    BY <2>1, <2>2, <2>3 DEF Next
<1> QED
  BY <1>1, <1>2, InitCoverInv, NextCoverInv, PTL DEF Spec, HonoursContract, Contract!Spec

=============================================================================
