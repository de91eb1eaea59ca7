--------------------------- MODULE MCRateLimiter ---------------------------
(***************************************************************************)
(* Instances of RateLimiter for TLC.                                       *)
(***************************************************************************)
EXTENDS RateLimiter, TLC

CONSTANTS c1, c2, c3, email, sms

\* Two calls on one channel and one on the other.
MCChannel == [c \in Calls |-> IF c \in {c1, c2} THEN email ELSE sms]

CallSymmetry == Permutations({c1, c2})
=============================================================================
