------------------------------- MODULE MCCrons ------------------------------
(* Crons with concrete notifications for TLC. *)
EXTENDS Crons

CONSTANTS n1, n2
=============================================================================
