----------------------------- MODULE MCConsumer -----------------------------
(***************************************************************************)
(* Instances of Consumer for TLC.                                          *)
(***************************************************************************)
EXTENDS Consumer

CONSTANTS p1, p2, good, bad
=============================================================================
