------------------------------- MODULE MCSend -------------------------------
(* Send with concrete requests for TLC. *)
EXTENDS Send

CONSTANTS r1, r2, r3, r4, k1, acme, zeta

One(kind) == [r \in Requests |-> kind]
Itself == [r \in Requests |-> r]

\* Requests of one tenant that repeat one key.
Sends == One("send")
Acme == One(acme)
SameKey == One(k1)

\* Two clients of different tenants that chose the same key.
TwoTenants == [r \in Requests |-> IF r = r1 THEN acme ELSE zeta]

\* A Batch of two recipients, r1 and r2, a Send and a Schedule.  The Send and the
\* Schedule repeat the key that Batch derives for its first recipient.
BatchSendSchedule ==
    [r \in Requests |-> CASE r = r3 -> "send" [] r = r4 -> "schedule" [] OTHER -> "batch"]
OneBatch == [r \in Requests |-> IF r = r2 THEN r1 ELSE r]
BatchKeys == [r \in Requests |-> IF r = r2 THEN BatchKey(k1, 1) ELSE BatchKey(k1, 0)]
=============================================================================
