------------------------------ MODULE MCAccess ------------------------------
(* Model values and symmetry for checking keys and tenants.                *)
EXTENDS AccessProperties, TLC

CONSTANTS k0, k1, k2, k3, a1, a2, p1, p2, x1, x2, q1, q2

(* What administrators ask for: a customer's key, a reader's that expires, *)
(* and an administrator's whose scopes are a customer's.                   *)
Asked == {[kind |-> "customer", scopes |-> {}, expires |-> FALSE],
          [kind |-> "customer", scopes |-> {"read"}, expires |-> TRUE],
          [kind |-> "admin", scopes |-> Ordinary, expires |-> FALSE]}

Interchangeable ==
  Permutations(Keys \ {Root}) \cup Permutations(People) \cup Permutations(Agents)
    \cup Permutations(Requests) \cup Permutations(Ids \ {Home})
=============================================================================
