---------------------------- MODULE RateLimiter ----------------------------
(***************************************************************************)
(* The sliding-window rate limiter of one tenant                           *)
(* (backend/internal/ratelimit/limiter.go): concurrent Allow calls resolve *)
(* the tenant's limits in Postgres, take a timestamp, and run one Lua      *)
(* script in Redis that trims, counts and records in two sorted sets.      *)
(*                                                                         *)
(* The member a call writes is unique to it, so a sorted set is a set of   *)
(* calls, scored by stamp.  Limits change under the calls' feet, scripts   *)
(* run in any order of their timestamps, replies are lost and go-redis     *)
(* runs the script again.  The clock ticks in seconds.                     *)
(***************************************************************************)
EXTENDS Naturals, FiniteSets

CONSTANTS
    Calls,       \* Allow calls, each made once
    Channels,
    Channel,     \* Channel[c]: the channel call c asks for
    Caps,        \* values max_per_min and global_rate_cap may take
    Window,      \* windowSize
    MaxDelay,    \* seconds from time.Now() to the script's run, at most
    MaxClock,    \* bound: the clock
    MaxUpdates   \* bound: UpdateRateLimits requests

ASSUME LimiterAssumption ==
    /\ Channel \in [Calls -> Channels]
    /\ Caps \subseteq Nat \ {0}
    /\ Window \in Nat \ {0}
    /\ MaxDelay \in 0..Window
    /\ MaxClock \in Nat
    /\ MaxUpdates \in Nat

VARIABLES
    clock,       \* seconds since the start
    globalMax,   \* tenants.global_rate_cap
    channelMax,  \* tenant_rate_limits.max_per_min, or the default, by channel
    updates,     \* UpdateRateLimits requests so far
    pc,          \* where each Allow call is
    globalCap,   \* the cap it read from tenants
    maxPerMin,   \* the limit it read from tenant_rate_limits
    stamp,       \* its now
    zchannel,    \* rate:{tenant}:channel, by channel
    zglobal,     \* rate:{tenant}:global
    ttlChannel,  \* when each channel key expires
    ttlGlobal,   \* when the global key expires
    peakGlobal,  \* history: the largest global cap there has been
    peakChannel, \* history: the largest limit there has been, by channel
    admitted     \* history: calls the script has recorded

limits == <<globalMax, channelMax, updates, peakGlobal, peakChannel>>
calls == <<pc, globalCap, maxPerMin, stamp>>
redis == <<zchannel, zglobal, ttlChannel, ttlGlobal, admitted>>
vars == <<clock, limits, calls, redis>>

PCs == {"idle", "tenant", "script", "allowed", "denied", "error"}

Larger(a, b) == IF a > b THEN a ELSE b

-----------------------------------------------------------------------------

Init ==
    /\ clock = 0
    /\ globalMax \in Caps
    /\ \E m \in Caps : channelMax = [ch \in Channels |-> m]
    /\ updates = 0
    /\ pc = [c \in Calls |-> "idle"]
    /\ globalCap = [c \in Calls |-> 0]
    /\ maxPerMin = [c \in Calls |-> 0]
    /\ stamp = [c \in Calls |-> 0]
    /\ zchannel = [ch \in Channels |-> {}]
    /\ zglobal = {}
    /\ ttlChannel = [ch \in Channels |-> 0]
    /\ ttlGlobal = 0
    /\ peakGlobal = globalMax
    /\ peakChannel = channelMax
    /\ admitted = {}

\* resolveLimits, first query: tenants.GetByID.
ResolveGlobal(c) ==
    /\ pc[c] = "idle"
    /\ globalCap' = [globalCap EXCEPT ![c] = globalMax]
    /\ pc' = [pc EXCEPT ![c] = "tenant"]
    /\ UNCHANGED <<clock, limits, maxPerMin, stamp, redis>>

\* resolveLimits, second query: rateLimits.GetByChannel; then time.Now().
ResolveChannel(c) ==
    /\ pc[c] = "tenant"
    /\ maxPerMin' = [maxPerMin EXCEPT ![c] = channelMax[Channel[c]]]
    /\ stamp' = [stamp EXCEPT ![c] = clock]
    /\ pc' = [pc EXCEPT ![c] = "script"]
    /\ UNCHANGED <<clock, limits, globalCap, redis>>

\* A query fails, or the script never reaches Redis: Allow returns an error.
AllowFails(c) ==
    /\ pc[c] \in {"idle", "tenant", "script"}
    /\ pc' = [pc EXCEPT ![c] = "error"]
    /\ UNCHANGED <<clock, limits, globalCap, maxPerMin, stamp, redis>>

\* A slip to guard against: the trim takes the last second of the window too.
TrimEarly(z, now) == {d \in z : stamp[d] + Window > now + 1}

\* ZREMRANGEBYSCORE key 0 (now - window).
Trim(z, now) == {d \in z : stamp[d] + Window > now}

\* The two keys' lifetime after a script that recorded its call.
Expiry == clock + Window + 1

\* A slip to guard against: ">" for ">=" in the script's comparison.
RoomOffByOne(c) ==
    /\ Cardinality(Trim(zchannel[Channel[c]], stamp[c])) <= maxPerMin[c]
    /\ Cardinality(Trim(zglobal, stamp[c])) <= globalCap[c]

\* Both windows have room for call c, after trimming.
Room(c) ==
    /\ Cardinality(Trim(zchannel[Channel[c]], stamp[c])) < maxPerMin[c]
    /\ Cardinality(Trim(zglobal, stamp[c])) < globalCap[c]

\* slidingWindowScript: atomic in Redis.  It returns 1 exactly when Room(c).
SlidingWindowScript(c) ==
    LET ch == Channel[c]
        me == IF Room(c) THEN {c} ELSE {}
    IN  /\ zchannel' = [zchannel EXCEPT ![ch] = Trim(@, stamp[c]) \cup me]
        /\ zglobal' = Trim(zglobal, stamp[c]) \cup me
        /\ admitted' = admitted \cup me
        /\ IF Room(c)
           THEN /\ ttlChannel' = [ttlChannel EXCEPT ![ch] = Expiry]
                /\ ttlGlobal' = Expiry
           ELSE UNCHANGED <<ttlChannel, ttlGlobal>>

\* A slip to guard against: the script's answer looks at the channel alone.
RunScriptChannelOnly(c) ==
    /\ pc[c] = "script"
    /\ clock <= stamp[c] + MaxDelay
    /\ SlidingWindowScript(c)
    /\ pc' = [pc EXCEPT ![c] =
                IF Cardinality(Trim(zchannel[Channel[c]], stamp[c])) < maxPerMin[c]
                THEN "allowed" ELSE "denied"]
    /\ UNCHANGED <<clock, limits, globalCap, maxPerMin, stamp>>

\* The script runs, within MaxDelay of the call's timestamp, and its result is
\* returned.
RunScript(c) ==
    /\ pc[c] = "script"
    /\ clock <= stamp[c] + MaxDelay
    /\ SlidingWindowScript(c)
    /\ pc' = [pc EXCEPT ![c] = IF Room(c) THEN "allowed" ELSE "denied"]
    /\ UNCHANGED <<clock, limits, globalCap, maxPerMin, stamp>>

\* The script runs and its reply is lost: go-redis tries again with the same
\* arguments, or Allow returns an error.
ReplyLost(c) ==
    /\ pc[c] = "script"
    /\ clock <= stamp[c] + MaxDelay
    /\ SlidingWindowScript(c)
    /\ \/ UNCHANGED pc
       \/ pc' = [pc EXCEPT ![c] = "error"]
    /\ UNCHANGED <<clock, limits, globalCap, maxPerMin, stamp>>

\* A slip to guard against: a global cap of 0 passes Validate.
UpdateRateLimitsZero(g, m) ==
    /\ updates < MaxUpdates
    /\ updates' = updates + 1
    /\ globalMax' = 0
    /\ channelMax' = m
    /\ UNCHANGED <<clock, peakGlobal, peakChannel, calls, redis>>

\* UpdateRateLimits commits a new global cap and new limits of some channels.
UpdateRateLimits(g, m) ==
    /\ updates < MaxUpdates
    /\ updates' = updates + 1
    /\ globalMax' = g
    /\ channelMax' = m
    /\ peakGlobal' = Larger(peakGlobal, g)
    /\ peakChannel' = [ch \in Channels |-> Larger(peakChannel[ch], m[ch])]
    /\ UNCHANGED <<clock, calls, redis>>

\* A second passes, and Redis drops the keys whose time has come.
Tick ==
    /\ clock < MaxClock
    /\ clock' = clock + 1
    /\ zchannel' = [ch \in Channels |->
                      IF ttlChannel[ch] = clock' THEN {} ELSE zchannel[ch]]
    /\ zglobal' = IF ttlGlobal = clock' THEN {} ELSE zglobal
    /\ UNCHANGED <<limits, calls, ttlChannel, ttlGlobal, admitted>>

Next ==
    \/ \E c \in Calls :
          \/ ResolveGlobal(c)
          \/ ResolveChannel(c)
          \/ AllowFails(c)
          \/ RunScript(c)
          \/ ReplyLost(c)
    \/ \E g \in Caps, m \in [Channels -> Caps] : UpdateRateLimits(g, m)
    \/ Tick

Spec == Init /\ [][Next]_vars

-----------------------------------------------------------------------------

\* Every variable has its type; sorted sets hold only calls.
TypeOK ==
    /\ clock \in 0..MaxClock
    /\ globalMax \in Caps
    /\ channelMax \in [Channels -> Caps]
    /\ updates \in 0..MaxUpdates
    /\ pc \in [Calls -> PCs]
    /\ globalCap \in [Calls -> Nat]
    /\ maxPerMin \in [Calls -> Nat]
    /\ stamp \in [Calls -> Nat]
    /\ zchannel \in [Channels -> SUBSET Calls]
    /\ zglobal \subseteq Calls
    /\ ttlChannel \in [Channels -> Nat]
    /\ ttlGlobal \in Nat
    /\ peakGlobal \in Nat
    /\ peakChannel \in [Channels -> Nat]
    /\ admitted \subseteq Calls

\* The calls the script has admitted with a timestamp in the window that starts
\* at t.  The window is shorter than windowSize by the longest delay between
\* time.Now() and the script's run.
AdmittedIn(t) ==
    {c \in admitted : t <= stamp[c] /\ stamp[c] < t + (Window - MaxDelay)}

\* In no window does Allow admit more than the tenant's global cap over all
\* channels, nor more than a channel's limit on that channel, whatever the order
\* in which concurrent scripts run.  When limits are changed the bound is the
\* largest value they have had.
WindowBound ==
    \A t \in 0..MaxClock :
        /\ Cardinality(AdmittedIn(t)) <= peakGlobal
        /\ \A ch \in Channels :
              Cardinality({c \in AdmittedIn(t) : Channel[c] = ch}) <= peakChannel[ch]

\* An admitted call fills a place in both sorted sets until its window has
\* passed: neither another call's trim nor a key's expiry frees it early, and
\* the script never records it in one set alone.
SlotHeld ==
    \A c \in Calls :
        c \in admitted /\ clock < stamp[c] + Window =>
            c \in zglobal /\ c \in zchannel[Channel[c]]

\* A call that was told it is allowed has been counted, also when an earlier
\* run of its script was lost.
AllowedIsCounted ==
    \A c \in Calls : pc[c] = "allowed" => c \in admitted
=============================================================================
