------------------------------- MODULE MCHub --------------------------------
(* Hub with concrete connections and messages for TLC. *)
EXTENDS Hub, TLC

CONSTANTS c1, c2, m1, m2

HubSymmetry == Permutations(Conns) \union Permutations(Messages)
=============================================================================
