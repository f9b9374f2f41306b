------------------------- MODULE RowLocksProperties -------------------------
(* What the locks must and must not do to the ledger.                      *)
EXTENDS RowLocks

Statuses == {"none", "reserved", "executing", "executed_fail", "ambiguous", "committed",
             "released", "reconciled_committed", "reconciled_released", "held"}

(* Rows have a status, and a transaction is at one of its statements or at *)
(* the COMMIT after them.                                                  *)
TypeOK ==
  /\ value \in [Rows -> Statuses] /\ draft \in [Rows -> Statuses]
  /\ lock \in [Rows -> Processes \cup {None}]
  /\ cents \in Nat /\ calls \in Nat
  /\ stage \in [Attempts -> {"new", "reserved", "sent", "ran", "raised", "done"}]
  /\ tx \in [Processes -> Transactions \cup {None}]
  /\ \A p \in Processes :
       tx[p] # None => tx[p].at \in 1 .. Len(Statements(tx[p].kind)) + 1

(* The two verdicts on an attempt agree in what is committed: its          *)
(* reservation is committed, released or held as its invocation says,      *)
(* although every transaction writes them by two statements, some the one  *)
(* first and some the other.                                               *)
VerdictsAgree ==
  \A a \in Attempts :
    /\ value[Res(a)] = "committed" <=>
         value[Inv(a)] \in {"committed", "reconciled_committed"}
    /\ value[Res(a)] = "released" <=>
         value[Inv(a)] \in {"released", "reconciled_released"}

(* finalize_* locks the reservation before the invocation, reconcile_* the *)
(* invocation before the reservation.  That is the one way to deadlock:    *)
(* whoever waits in a circle, in it are a worker or a recovery and an      *)
(* operator at the same attempt, waiting for each other.  Attempts do not  *)
(* deadlock over the mandate they share, nor operators among themselves.   *)
DeadlocksArePairs ==
  \A S \in SUBSET Waiting : S # {} /\ Deadlocked(S) =>
    \E p, q \in S :
      /\ tx[p].kind \in {"finalize", "release"} /\ tx[q].kind \in {"commit", "return"}
      /\ tx[p].attempt = tx[q].attempt
      /\ WaitsFor(p) = {q} /\ WaitsFor(q) = {p}

(* Statement by statement the ledger is still what SpendAuthority says:    *)
(* what a transaction commits is one hold, one spend or one giving back.   *)
Authority == INSTANCE SpendAuthority WITH
  Purses <- {"m"}, Operations <- {},
  Funds <- [m \in {"m"} |-> Funds],
  CallCap <- [m \in {"m"} |-> None],
  order <- [a \in Attempts |-> [purse |-> "m", operation |-> None, amount |-> Cost]],
  standing <- [a \in Attempts |-> value[Res(a)]],
  cents <- [m \in {"m"} |-> cents],
  calls <- [m \in {"m"} |-> calls]

CommitsAreAtomic == Authority!Spec

-----------------------------------------------------------------------------
(* A transaction goes on; a lock that comes free again and again is at     *)
(* last given to whoever waits for it (Postgres queues them); and a cycle  *)
(* is broken.                                                              *)
FairSpec ==
  /\ Spec
  /\ \A p \in Processes : SF_vars(Step(p))
  /\ WF_vars(\E p \in Processes : Aborted(p))

(* Nobody waits for ever: a transaction commits, loses or is aborted,      *)
(* whatever locks the others take and give back meanwhile.                 *)
WaitsEnd == \A p \in Processes : tx[p] # None ~> tx[p] = None
=============================================================================
