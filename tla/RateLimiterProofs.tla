------------------------- MODULE RateLimiterProofs -------------------------
(***************************************************************************)
(* Proofs about the sliding-window limiter, for any set of calls and       *)
(* channels, any limits and any interleaving of scripts.                   *)
(***************************************************************************)
EXTENDS RateLimiter, FiniteSetTheorems, TLAPS

\* A timestamp is never in the future, and is fixed once the script has run.
StampsPast ==
    /\ \A c \in Calls : stamp[c] <= clock
    /\ \A c \in admitted : pc[c] \notin {"idle", "tenant"}

\* The sorted sets hold admitted calls only, and there are finitely many.
SetsFinite ==
    /\ IsFiniteSet(admitted)
    /\ zglobal \subseteq admitted
    /\ \A ch \in Channels : zchannel[ch] \subseteq admitted

\* A limit that a call has read, however stale, was once configured.
CapsBelowPeak ==
    /\ globalMax <= peakGlobal
    /\ \A ch \in Channels : channelMax[ch] <= peakChannel[ch]
    /\ \A c \in Calls : globalCap[c] <= peakGlobal /\ maxPerMin[c] <= peakChannel[Channel[c]]

\* A key outlives the windows of all the calls recorded in it.
KeyOutlives ==
    /\ ttlGlobal <= Expiry
    /\ \A c \in zglobal : stamp[c] + Window < ttlGlobal
    /\ \A ch \in Channels :
          /\ ttlChannel[ch] <= Expiry
          /\ \A c \in zchannel[ch] : stamp[c] + Window < ttlChannel[ch]

\* The inductive invariant.  WindowBound needs SlotHeld, to know that the calls
\* already admitted in a window are still counted when the script runs; SlotHeld
\* needs StampsPast against early trimming and KeyOutlives against early expiry.
LimiterInv ==
    /\ TypeOK
    /\ StampsPast
    /\ SetsFinite
    /\ CapsBelowPeak
    /\ KeyOutlives
    /\ SlotHeld
    /\ WindowBound

-----------------------------------------------------------------------------

\* Adding one element to a part of a set that has room stays within the cap.
LEMMA RoomForOne ==
  ASSUME NEW Z, IsFiniteSet(Z), NEW A \in SUBSET Z, NEW x,
         NEW k \in Nat, NEW cap \in Nat, Cardinality(Z) < k, k <= cap
  PROVE  Cardinality(A \cup {x}) <= cap
<1>1. IsFiniteSet(A) /\ Cardinality(A) <= Cardinality(Z)
  BY FS_Subset
<1>2. Cardinality(A) \in Nat /\ Cardinality(Z) \in Nat
  BY <1>1, FS_CardinalityType
<1>3. Cardinality(A \cup {x}) <= Cardinality(A) + 1
  BY <1>1, <1>2, FS_AddElement
<1>4. Cardinality(A \cup {x}) \in Nat
  BY <1>1, FS_AddElement, FS_CardinalityType
<1> QED
  BY <1>1, <1>2, <1>3, <1>4

\* Before the first call both windows are empty.
LEMMA InitLimiterInv == Init => LimiterInv
<1> SUFFICES ASSUME Init PROVE LimiterInv
  OBVIOUS
<1> USE LimiterAssumption DEF LimiterAssumption
<1>1. PICK m \in Caps : channelMax = [ch \in Channels |-> m]
  BY DEF Init
<1>2. TypeOK
  BY <1>1 DEF Init, TypeOK, PCs
<1>3. StampsPast
  BY DEF Init, StampsPast
<1>4. SetsFinite
  BY FS_EmptySet DEF Init, SetsFinite
<1>5. CapsBelowPeak
  BY <1>1, <1>2 DEF Init, CapsBelowPeak, TypeOK
<1>6. KeyOutlives
  BY <1>2 DEF Init, KeyOutlives, TypeOK, Expiry
<1>7. SlotHeld
  BY DEF Init, SlotHeld
<1>8. WindowBound
  <2> SUFFICES ASSUME NEW t \in 0..MaxClock, NEW ch \in Channels
               PROVE  /\ Cardinality(AdmittedIn(t)) <= peakGlobal
                      /\ Cardinality({c \in AdmittedIn(t) : Channel[c] = ch}) <= peakChannel[ch]
    BY <1>2, FS_EmptySet DEF WindowBound, AdmittedIn, Init, TypeOK
  <2>1. AdmittedIn(t) = {} /\ {c \in AdmittedIn(t) : Channel[c] = ch} = {}
    BY DEF AdmittedIn, Init
  <2> QED
    BY <1>2, <2>1, FS_EmptySet DEF TypeOK
<1> QED
  BY <1>2, <1>3, <1>4, <1>5, <1>6, <1>7, <1>8 DEF LimiterInv

-----------------------------------------------------------------------------

\* The heart of the argument: when the script admits c in a window, every call
\* already admitted in that window has survived the trim, so the count the
\* script compared with the limit included it.
LEMMA WindowSurvivesTrim ==
  ASSUME LimiterInv, NEW c \in Calls, clock <= stamp[c] + MaxDelay,
         NEW t \in 0..MaxClock, t <= stamp[c], stamp[c] < t + (Window - MaxDelay)
  PROVE  /\ AdmittedIn(t) \subseteq Trim(zglobal, stamp[c])
         /\ {d \in AdmittedIn(t) : Channel[d] = Channel[c]}
              \subseteq Trim(zchannel[Channel[c]], stamp[c])
<1> USE LimiterAssumption DEF LimiterAssumption
<1>0. SUFFICES ASSUME NEW d \in AdmittedIn(t)
               PROVE  /\ d \in zglobal
                      /\ d \in zchannel[Channel[d]]
                      /\ stamp[d] + Window > stamp[c]
  BY DEF Trim
<1>1. d \in Calls /\ d \in admitted /\ t <= stamp[d]
  BY DEF AdmittedIn, LimiterInv, TypeOK
<1>2. /\ stamp[c] \in Nat /\ stamp[d] \in Nat /\ clock \in Nat
      /\ stamp[c] <= clock
  BY <1>1 DEF LimiterInv, TypeOK, StampsPast
<1>3. clock < stamp[d] + Window
  BY <1>1, <1>2
<1> QED
  BY <1>1, <1>2, <1>3 DEF LimiterInv, SlotHeld

\* The script keeps the invariant.
LEMMA ScriptKeepsInv ==
  ASSUME LimiterInv, NEW c \in Calls, pc[c] = "script", clock <= stamp[c] + MaxDelay,
         SlidingWindowScript(c), pc' \in [Calls -> PCs],
         \A d \in Calls : d = c \/ pc'[d] = pc[d], pc'[c] \notin {"idle", "tenant"},
         UNCHANGED <<clock, limits, globalCap, maxPerMin, stamp>>
  PROVE  LimiterInv'
<1> USE LimiterAssumption DEF LimiterAssumption
<1> DEFINE ch == Channel[c]
           me == IF Room(c) THEN {c} ELSE {}
<1>0. TypeOK /\ StampsPast /\ SetsFinite /\ CapsBelowPeak /\ KeyOutlives /\ SlotHeld /\ WindowBound
  BY DEF LimiterInv
<1>1. /\ zchannel' = [zchannel EXCEPT ![ch] = Trim(zchannel[ch], stamp[c]) \cup me]
      /\ zglobal' = Trim(zglobal, stamp[c]) \cup me
      /\ admitted' = admitted \cup me
      /\ ch \in Channels /\ me \subseteq {c} /\ me \subseteq Calls
  BY DEF SlidingWindowScript
<1>2. /\ ttlGlobal' = IF Room(c) THEN Expiry ELSE ttlGlobal
      /\ ttlChannel' = [ttlChannel EXCEPT ![ch] = IF Room(c) THEN Expiry ELSE ttlChannel[ch]]
  BY <1>0 DEF SlidingWindowScript, TypeOK
<1>3. UNCHANGED <<clock, globalMax, channelMax, updates, peakGlobal, peakChannel,
                  globalCap, maxPerMin, stamp>> /\ Expiry' = Expiry
  BY DEF limits, Expiry
<1>4. Expiry \in Nat /\ clock \in Nat /\ \A d \in Calls : stamp[d] \in Nat
  BY <1>0 DEF Expiry, TypeOK
<1>5. TypeOK'
  BY <1>0, <1>1, <1>2, <1>3, <1>4 DEF TypeOK, Trim
<1>6. StampsPast'
  BY <1>0, <1>1, <1>3 DEF StampsPast, TypeOK
<1>7. SetsFinite'
  <2>1. IsFiniteSet(admitted')
    <3>1. admitted' = admitted \/ admitted' = admitted \cup {c}
      BY <1>1
    <3> QED
      BY <1>0, <3>1, FS_AddElement DEF SetsFinite
  <2> QED
    BY <1>0, <1>1, <2>1 DEF SetsFinite, Trim, TypeOK
<1>8. CapsBelowPeak'
  BY <1>0, <1>3 DEF CapsBelowPeak
<1>9. KeyOutlives'
  BY <1>0, <1>1, <1>2, <1>3, <1>4 DEF KeyOutlives, Trim, TypeOK, StampsPast, Expiry
<1>10. SlotHeld'
  BY <1>0, <1>1, <1>3, <1>4 DEF SlotHeld, Trim, TypeOK, StampsPast
<1>11. WindowBound'
  <2> SUFFICES ASSUME NEW t \in 0..MaxClock
               PROVE  /\ Cardinality(AdmittedIn(t)') <= peakGlobal
                      /\ \A k \in Channels :
                           Cardinality({d \in AdmittedIn(t)' : Channel[d] = k}) <= peakChannel[k]
    BY <1>3 DEF WindowBound
  <2> DEFINE A == AdmittedIn(t)
             On(k) == {d \in A : Channel[d] = k}
  <2>1. AdmittedIn(t)' = {d \in admitted' : t <= stamp[d] /\ stamp[d] < t + (Window - MaxDelay)}
    BY <1>3 DEF AdmittedIn
  <2>2. /\ Cardinality(A) <= peakGlobal
        /\ \A k \in Channels : Cardinality(On(k)) <= peakChannel[k]
    BY <1>0 DEF WindowBound
  <2>3. CASE ~(Room(c) /\ t <= stamp[c] /\ stamp[c] < t + (Window - MaxDelay))
    <3>1. AdmittedIn(t)' = A
      BY <1>1, <2>1, <2>3 DEF AdmittedIn
    <3> QED
      BY <2>2, <3>1
  <2>4. CASE Room(c) /\ t <= stamp[c] /\ stamp[c] < t + (Window - MaxDelay)
    <3> DEFINE Zg == Trim(zglobal, stamp[c])
               Zc == Trim(zchannel[ch], stamp[c])
    <3>1. A \subseteq Zg /\ On(ch) \subseteq Zc
      BY <2>4, WindowSurvivesTrim
    <3>2. IsFiniteSet(Zg) /\ IsFiniteSet(Zc)
      BY <1>0, <1>1, FS_Subset DEF SetsFinite, Trim
    <3>3. AdmittedIn(t)' = A \cup {c}
      BY <1>1, <2>1, <2>4 DEF AdmittedIn
    <3>4. Cardinality(A \cup {c}) <= peakGlobal
      BY <1>0, <2>4, <3>1, <3>2, RoomForOne DEF Room, CapsBelowPeak, TypeOK
    <3>5. Cardinality(On(ch) \cup {c}) <= peakChannel[ch]
      BY <1>0, <1>1, <2>4, <3>1, <3>2, RoomForOne DEF Room, CapsBelowPeak, TypeOK
    <3>6. ASSUME NEW k \in Channels
          PROVE  Cardinality({d \in A \cup {c} : Channel[d] = k}) <= peakChannel[k]
      <4>1. CASE k = ch
        <5>1. {d \in A \cup {c} : Channel[d] = k} = On(ch) \cup {c}
          BY <4>1
        <5> QED
          BY <3>5, <4>1, <5>1
      <4>2. CASE k # ch
        <5>1. {d \in A \cup {c} : Channel[d] = k} = On(k)
          BY <4>2
        <5> QED
          BY <2>2, <5>1
      <4> QED
        BY <4>1, <4>2
    <3> QED
      BY <3>3, <3>4, <3>6
  <2> QED
    BY <2>3, <2>4
<1> QED
  BY <1>5, <1>6, <1>7, <1>8, <1>9, <1>10, <1>11 DEF LimiterInv

\* A second passes: a key that Redis drops holds no call whose window is open.
LEMMA TickKeepsInv == LimiterInv /\ Tick => LimiterInv'
<1> SUFFICES ASSUME LimiterInv, Tick PROVE LimiterInv'
  OBVIOUS
<1> USE LimiterAssumption DEF LimiterAssumption
<1>0. TypeOK /\ StampsPast /\ SetsFinite /\ CapsBelowPeak /\ KeyOutlives /\ SlotHeld /\ WindowBound
  BY DEF LimiterInv
<1>1. /\ clock' = clock + 1 /\ clock' \in 0..MaxClock /\ clock \in Nat
      /\ UNCHANGED <<globalMax, channelMax, updates, peakGlobal, peakChannel,
                     pc, globalCap, maxPerMin, stamp, ttlChannel, ttlGlobal, admitted>>
      /\ zglobal' = IF ttlGlobal = clock' THEN {} ELSE zglobal
      /\ zchannel' = [ch \in Channels |-> IF ttlChannel[ch] = clock' THEN {} ELSE zchannel[ch]]
  BY <1>0 DEF Tick, limits, calls, TypeOK
<1>2. TypeOK'
  BY <1>0, <1>1 DEF TypeOK
<1>3. StampsPast' /\ SetsFinite' /\ CapsBelowPeak'
  BY <1>0, <1>1 DEF StampsPast, SetsFinite, CapsBelowPeak, TypeOK
<1>4. KeyOutlives'
  BY <1>0, <1>1 DEF KeyOutlives, TypeOK, Expiry
<1>5. SlotHeld'
  BY <1>0, <1>1 DEF SlotHeld, KeyOutlives, TypeOK
<1>6. WindowBound'
  BY <1>0, <1>1 DEF WindowBound, AdmittedIn
<1> QED
  BY <1>2, <1>3, <1>4, <1>5, <1>6 DEF LimiterInv

\* The steps of Allow before the script, and its failures, touch neither the
\* sorted sets nor the timestamp of an admitted call.
LEMMA ResolveKeepsInv ==
  ASSUME LimiterInv, NEW c \in Calls,
         ResolveGlobal(c) \/ ResolveChannel(c) \/ AllowFails(c)
  PROVE  LimiterInv'
<1> USE LimiterAssumption DEF LimiterAssumption
<1>0. TypeOK /\ StampsPast /\ SetsFinite /\ CapsBelowPeak /\ KeyOutlives /\ SlotHeld /\ WindowBound
  BY DEF LimiterInv
<1>1. UNCHANGED <<clock, globalMax, channelMax, updates, peakGlobal, peakChannel,
                  zchannel, zglobal, ttlChannel, ttlGlobal, admitted>>
  BY DEF ResolveGlobal, ResolveChannel, AllowFails, limits, redis
<1>2. TypeOK'
  <2>1. pc' \in [Calls -> PCs]
    BY <1>0 DEF ResolveGlobal, ResolveChannel, AllowFails, TypeOK, PCs
  <2>2. globalCap' \in [Calls -> Nat] /\ maxPerMin' \in [Calls -> Nat] /\ stamp' \in [Calls -> Nat]
    <3>1. globalMax \in Nat /\ channelMax[Channel[c]] \in Nat /\ clock \in Nat
      <4>1. globalMax \in Caps /\ channelMax[Channel[c]] \in Caps /\ clock \in 0..MaxClock
        BY <1>0 DEF TypeOK
      <4>2. \A x \in Caps : x \in Nat
        OBVIOUS
      <4>3. clock \in Nat
        BY <4>1
      <4> QED
        BY <4>1, <4>2, <4>3
    <3>2. globalCap \in [Calls -> Nat] /\ maxPerMin \in [Calls -> Nat] /\ stamp \in [Calls -> Nat]
      BY <1>0 DEF TypeOK
    <3> QED
      BY <3>1, <3>2 DEF ResolveGlobal, ResolveChannel, AllowFails
  <2> QED
    BY <1>0, <1>1, <2>1, <2>2 DEF TypeOK
<1>3. \A d \in admitted : stamp'[d] = stamp[d] /\ pc'[d] \notin {"idle", "tenant"}
  BY <1>0 DEF ResolveGlobal, ResolveChannel, AllowFails, TypeOK, StampsPast
<1>4. \A d \in Calls : stamp'[d] <= clock
  BY <1>0 DEF ResolveGlobal, ResolveChannel, AllowFails, TypeOK, StampsPast
<1>5. StampsPast' /\ SetsFinite'
  BY <1>0, <1>1, <1>3, <1>4 DEF StampsPast, SetsFinite
<1>6. CapsBelowPeak'
  BY <1>0, <1>1 DEF ResolveGlobal, ResolveChannel, AllowFails, CapsBelowPeak, TypeOK
<1>7. KeyOutlives'
  BY <1>0, <1>1, <1>3 DEF KeyOutlives, SetsFinite, Expiry
<1>8. SlotHeld'
  BY <1>0, <1>1, <1>3 DEF SlotHeld
<1>9. WindowBound'
  <2>1. \A t : AdmittedIn(t)' = AdmittedIn(t)
    BY <1>1, <1>3 DEF AdmittedIn
  <2> QED
    BY <1>0, <1>1, <2>1 DEF WindowBound
<1> QED
  BY <1>2, <1>5, <1>6, <1>7, <1>8, <1>9 DEF LimiterInv

\* Changing the limits only raises the bound.
LEMMA UpdateKeepsInv ==
  ASSUME LimiterInv, NEW g \in Caps, NEW m \in [Channels -> Caps], UpdateRateLimits(g, m)
  PROVE  LimiterInv'
<1> USE LimiterAssumption DEF LimiterAssumption
<1>0. TypeOK /\ StampsPast /\ SetsFinite /\ CapsBelowPeak /\ KeyOutlives /\ SlotHeld /\ WindowBound
  BY DEF LimiterInv
<1>1. UNCHANGED <<clock, pc, globalCap, maxPerMin, stamp,
                  zchannel, zglobal, ttlChannel, ttlGlobal, admitted>>
  BY DEF UpdateRateLimits, calls, redis
<1>2. /\ peakGlobal' \in Nat /\ peakGlobal <= peakGlobal' /\ g <= peakGlobal'
      /\ peakChannel' \in [Channels -> Nat]
      /\ \A ch \in Channels : peakChannel[ch] <= peakChannel'[ch] /\ m[ch] <= peakChannel'[ch]
  <2>1. g \in Nat /\ \A ch \in Channels : m[ch] \in Nat /\ peakChannel[ch] \in Nat
    BY <1>0 DEF TypeOK
  <2>2. /\ peakGlobal \in Nat /\ peakGlobal' = Larger(peakGlobal, g)
        /\ peakChannel' = [ch \in Channels |-> Larger(peakChannel[ch], m[ch])]
    BY <1>0 DEF UpdateRateLimits, TypeOK
  <2>3. \A a, b \in Nat : Larger(a, b) \in Nat /\ a <= Larger(a, b) /\ b <= Larger(a, b)
    BY DEF Larger
  <2> QED
    BY <2>1, <2>2, <2>3
<1>3. TypeOK'
  BY <1>0, <1>1, <1>2 DEF UpdateRateLimits, TypeOK
<1>4. StampsPast' /\ SetsFinite' /\ KeyOutlives' /\ SlotHeld'
  BY <1>0, <1>1 DEF StampsPast, SetsFinite, KeyOutlives, SlotHeld, Expiry
<1>5. CapsBelowPeak'
  BY <1>0, <1>1, <1>2 DEF UpdateRateLimits, CapsBelowPeak, TypeOK
<1>6. WindowBound'
  <2> SUFFICES ASSUME NEW t \in 0..MaxClock
               PROVE  /\ Cardinality(AdmittedIn(t)) <= peakGlobal'
                      /\ \A ch \in Channels :
                           Cardinality({c \in AdmittedIn(t) : Channel[c] = ch}) <= peakChannel'[ch]
    BY <1>1 DEF WindowBound, AdmittedIn
  <2>1. /\ IsFiniteSet(AdmittedIn(t))
        /\ \A ch \in Channels : IsFiniteSet({c \in AdmittedIn(t) : Channel[c] = ch})
    BY <1>0, FS_Subset DEF SetsFinite, AdmittedIn
  <2>2. /\ Cardinality(AdmittedIn(t)) \in Nat
        /\ \A ch \in Channels : Cardinality({c \in AdmittedIn(t) : Channel[c] = ch}) \in Nat
    BY <2>1, FS_CardinalityType
  <2> QED
    BY <1>0, <1>2, <2>2 DEF WindowBound, TypeOK
<1> QED
  BY <1>3, <1>4, <1>5, <1>6 DEF LimiterInv

\* The invariant is inductive.
LEMMA NextLimiterInv == LimiterInv /\ [Next]_vars => LimiterInv'
<1> SUFFICES ASSUME LimiterInv, [Next]_vars PROVE LimiterInv'
  OBVIOUS
<1>1. ASSUME NEW c \in Calls, RunScript(c) \/ ReplyLost(c) PROVE LimiterInv'
  BY <1>1, ScriptKeepsInv DEF RunScript, ReplyLost, LimiterInv, TypeOK, PCs
<1>2. CASE UNCHANGED vars
  BY <1>2 DEF vars, limits, calls, redis, LimiterInv, TypeOK, StampsPast, SetsFinite,
     CapsBelowPeak, KeyOutlives, Expiry, SlotHeld, WindowBound, AdmittedIn
<1> QED
  BY <1>1, <1>2, TickKeepsInv, ResolveKeepsInv, UpdateKeepsInv DEF Next

-----------------------------------------------------------------------------

\* Allow never admits more calls in a window than the largest limit configured,
\* per channel and over all channels, for any number of concurrent calls.
THEOREM LimiterBound == Spec => []WindowBound
<1>1. LimiterInv => WindowBound
  BY DEF LimiterInv
<1> QED
  BY <1>1, InitLimiterInv, NextLimiterInv, PTL DEF Spec

\* An admitted call is counted in both sorted sets until its window has passed.
THEOREM LimiterHoldsSlots == Spec => [](TypeOK /\ SlotHeld)
<1>1. LimiterInv => TypeOK /\ SlotHeld
  BY DEF LimiterInv
<1> QED
  BY <1>1, InitLimiterInv, NextLimiterInv, PTL DEF Spec

\* A call is told that it is allowed only by the run of the script that counts
\* it, and nothing takes a call out of the history of what the script recorded.
LEMMA AllowedStaysCounted ==
  LimiterInv /\ AllowedIsCounted /\ [Next]_vars => AllowedIsCounted'
<1> SUFFICES ASSUME LimiterInv, AllowedIsCounted, [Next]_vars PROVE AllowedIsCounted'
  OBVIOUS
<1>0. pc \in [Calls -> PCs]
  BY DEF LimiterInv, TypeOK
<1>1. ASSUME NEW c \in Calls, ResolveGlobal(c) \/ ResolveChannel(c) \/ AllowFails(c)
      PROVE  AllowedIsCounted'
  BY <1>0, <1>1 DEF ResolveGlobal, ResolveChannel, AllowFails, redis, AllowedIsCounted
<1>2. ASSUME NEW c \in Calls, RunScript(c) PROVE AllowedIsCounted'
  BY <1>0, <1>2 DEF RunScript, SlidingWindowScript, AllowedIsCounted
<1>3. ASSUME NEW c \in Calls, ReplyLost(c) PROVE AllowedIsCounted'
  BY <1>0, <1>3 DEF ReplyLost, SlidingWindowScript, AllowedIsCounted
<1>4. ASSUME NEW g, NEW m, UpdateRateLimits(g, m) PROVE AllowedIsCounted'
  BY <1>4 DEF UpdateRateLimits, calls, redis, AllowedIsCounted
<1>5. CASE Tick
  BY <1>5 DEF Tick, calls, AllowedIsCounted
<1>6. CASE UNCHANGED vars
  BY <1>6 DEF vars, calls, redis, AllowedIsCounted
<1> QED
  BY <1>1, <1>2, <1>3, <1>4, <1>5, <1>6 DEF Next

\* A call that was told it is allowed is counted, however many runs of its script
\* lost their reply before.
THEOREM LimiterCountsAllowed == Spec => []AllowedIsCounted
<1>1. Init => AllowedIsCounted
  BY DEF Init, AllowedIsCounted
<1> QED
  BY <1>1, InitLimiterInv, NextLimiterInv, AllowedStaysCounted, PTL DEF Spec

\* The sorted sets and the limits keep their types: a limit is never 0, and a set
\* holds only calls.
THEOREM LimiterTypeCorrect == Spec => []TypeOK
<1>1. LimiterInv => TypeOK
  BY DEF LimiterInv
<1> QED
  BY <1>1, InitLimiterInv, NextLimiterInv, PTL DEF Spec

=============================================================================
