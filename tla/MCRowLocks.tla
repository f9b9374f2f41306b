----------------------------- MODULE MCRowLocks -----------------------------
(* Model values for checking the transactions statement by statement.      *)
EXTENDS RowLocksProperties

CONSTANTS a1, a2, v1, o1, o2
=============================================================================
