--------------------------- MODULE SpendAuthority ---------------------------
(***************************************************************************)
(* What a spend mandate promises, with nothing said about how: money and   *)
(* call slots are set aside for an attempt before it runs, set aside once  *)
(* per logical operation, and in the end either spent or given back, once. *)
(***************************************************************************)
EXTENDS Integers

CONSTANTS Attempts, Purses, Operations, None, Funds, CallCap

VARIABLES
  order,     \* what each attempt is for: a purse, an operation, a price
  standing,  \* what became of it
  cents,     \* what a purse has left
  calls      \* how many calls it has granted

vars == <<order, standing, cents, calls>>

Orders == [purse : Purses, operation : Operations \cup {None}, amount : Nat]

Init ==
  /\ order \in [Attempts -> Orders]
  /\ standing = [a \in Attempts |-> "none"]
  /\ cents = Funds
  /\ calls = [p \in Purses |-> 0]

(* Nobody else holds or has spent money for the same operation.            *)
Alone(a) ==
  \A b \in Attempts :
    /\ b # a
    /\ order[a].operation # None
    /\ order[b].operation = order[a].operation
    => standing[b] \notin {"held", "committed"}

Hold(a) ==
  LET p == order[a].purse
  IN  /\ standing[a] = "none"
      /\ Alone(a)
      /\ order[a].amount <= cents[p]
      /\ CallCap[p] # None => calls[p] < CallCap[p]
      /\ standing' = [standing EXCEPT ![a] = "held"]
      /\ cents' = [cents EXCEPT ![p] = @ - order[a].amount]
      /\ calls' = [calls EXCEPT ![p] = @ + 1]
      /\ UNCHANGED order

Spend(a) ==
  /\ standing[a] = "held"
  /\ standing' = [standing EXCEPT ![a] = "committed"]
  /\ UNCHANGED <<order, cents, calls>>

GiveBack(a) ==
  LET p == order[a].purse
  IN  /\ standing[a] = "held"
      /\ standing' = [standing EXCEPT ![a] = "released"]
      /\ cents' = [cents EXCEPT ![p] = @ + order[a].amount]
      /\ calls' = [calls EXCEPT ![p] = @ - 1]
      /\ UNCHANGED order

Next == \E a \in Attempts : Hold(a) \/ Spend(a) \/ GiveBack(a)

Spec == Init /\ [][Next]_vars
=============================================================================
