------------------------------ MODULE MCOutbox ------------------------------
(* Model values and symmetry for checking the outbox.                      *)
EXTENDS OutboxProperties, TLC

CONSTANTS r1, r2, w1, w2, o1, o2

Interchangeable ==
  Permutations(Rows) \cup Permutations(Workers) \cup Permutations(Operators)
=============================================================================
