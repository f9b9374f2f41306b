----------------------------- MODULE MCAccounts -----------------------------
(* Model values and symmetry for checking accounts and webhooks.           *)
EXTENDS AccountsProperties, TLC

CONSTANTS a1, a2, c1, c2, h1, h2, k1, k2

(* Both calls are made by one account. *)
Same == [k \in Calls |-> a1]

Interchangeable == Permutations(Customers) \cup Permutations(Webhooks) \cup Permutations(Calls)
=============================================================================
