------------------------------ MODULE Metering ------------------------------
(***************************************************************************)
(* What the billing of receipts promises, with nothing said about queues,  *)
(* workers or webhooks: a receipt is owed to one customer of its account   *)
(* or to nobody, counted at most once, and only if it is owed to somebody; *)
(* the books say "sent" of what has been counted.                          *)
(***************************************************************************)
EXTENDS Integers

CONSTANTS Receipts, Ids, Customers, AccountOf, None

VARIABLES
  bound,  \* which customer has ever belonged to which account
  due,    \* the customer who is to pay a receipt
  books,  \* "none", "owed", "sent", "off"
  meter   \* how often a receipt has been counted

vars == <<bound, due, books, meter>>

Init ==
  /\ bound = {}
  /\ due = [r \in Receipts |-> None]
  /\ books = [r \in Receipts |-> "none"]
  /\ meter = [r \in Receipts |-> 0]

Bind(a, c) ==
  /\ bound' = bound \cup {<<a, c>>}
  /\ UNCHANGED <<due, books, meter>>

(* Decided once: a customer attached later does not pay for it.            *)
Owe(r, c) ==
  /\ books[r] = "none"
  /\ c = None \/ <<AccountOf[r], c>> \in bound
  /\ books' = [books EXCEPT ![r] = "owed"]
  /\ due' = [due EXCEPT ![r] = c]
  /\ UNCHANGED <<bound, meter>>

(* Perhaps after the books have given up.                                  *)
Count(r) ==
  /\ due[r] # None
  /\ meter[r] = 0
  /\ meter' = [meter EXCEPT ![r] = 1]
  /\ UNCHANGED <<bound, due, books>>

EnterSent(r) ==
  /\ books[r] = "owed"
  /\ meter[r] = 1
  /\ books' = [books EXCEPT ![r] = "sent"]
  /\ UNCHANGED <<bound, due, meter>>

WriteOff(r) ==
  /\ books[r] = "owed"
  /\ books' = [books EXCEPT ![r] = "off"]
  /\ UNCHANGED <<bound, due, meter>>

(* Whatever has become of them; what is counted stays counted.             *)
Reopen(some) ==
  /\ \A r \in some : books[r] # "none"
  /\ books' = [r \in Receipts |-> IF r \in some THEN "owed" ELSE books[r]]
  /\ UNCHANGED <<bound, due, meter>>

Next ==
  \/ \E a \in Ids, c \in Customers : Bind(a, c)
  \/ \E r \in Receipts, c \in Customers \cup {None} : Owe(r, c)
  \/ \E r \in Receipts : Count(r) \/ EnterSent(r) \/ WriteOff(r)
  \/ \E some \in SUBSET Receipts : Reopen(some)

Spec == Init /\ [][Next]_vars
=============================================================================
