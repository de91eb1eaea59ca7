--------------------------- MODULE OffsetContract ---------------------------
(***************************************************************************)
(* What a consumer owes its topic, without saying how: messages arrive,    *)
(* positions are decided in any order and any number of times, and the     *)
(* committed offset of a partition may be moved, forwards or backwards, to *)
(* any offset with nothing undecided at or below it.                       *)
(***************************************************************************)
EXTENDS Naturals

CONSTANTS Partitions, Fates

VARIABLES
    length,     \* length[p]: messages appended to partition p
    committed,  \* committed[p]: last committed offset
    fates       \* <<position, fate>> pairs decided so far

cvars == <<length, committed, fates>>

Decided(p, o) == \E f \in Fates : <<<<p, o>>, f>> \in fates

Init ==
    /\ length = [p \in Partitions |-> 0]
    /\ committed = [p \in Partitions |-> 0]
    /\ fates = {}

Arrive(p) ==
    /\ length' = [length EXCEPT ![p] = @ + 1]
    /\ UNCHANGED <<committed, fates>>

Decide(p, o, F) ==
    /\ o \in 1..length[p]
    /\ fates' = fates \cup {<<<<p, o>>, f>> : f \in F}
    /\ UNCHANGED <<length, committed>>

Commit(p, o) ==
    /\ o \in 1..length[p]
    /\ \A i \in 1..o : Decided(p, i)
    /\ committed' = [committed EXCEPT ![p] = o]
    /\ UNCHANGED <<length, fates>>

Next ==
    \E p \in Partitions :
        \/ Arrive(p)
        \/ \E o \in 1..length[p] :
              \/ \E F \in SUBSET Fates : Decide(p, o, F)
              \/ Commit(p, o)

Spec == Init /\ [][Next]_cvars
=============================================================================
