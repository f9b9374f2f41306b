----------------------------- MODULE MCBilling -----------------------------
(* Model values for checking accounts and the outbox together.             *)
EXTENDS BillingProperties

CONSTANTS a1, c1, c2, h1, h2, r1, w1, w2, o1

Sole == [r \in Rows |-> a1]
=============================================================================
