------------------------------ MODULE RowLocks ------------------------------
(***************************************************************************)
(* How the transactions that settle an attempt meet on Postgres, statement *)
(* by statement: finalize_success, finalize_release, reconcile_commit and  *)
(* reconcile_release of crossing/ledger.py.  Module Ledger takes each of   *)
(* them for one step; here they are what they are, conditional UPDATEs     *)
(* that lock rows until COMMIT, and not all in the same order.             *)
(*                                                                         *)
(* At READ COMMITTED an UPDATE finds its row by the values that were       *)
(* committed when it began.  It then waits for whoever has locked the      *)
(* newest version of the row, and asks its WHERE again of what it finds.   *)
(* A cycle of waiting transactions is broken by aborting one of them.      *)
(*                                                                         *)
(* The statements that are alone in their transaction, and the debit of    *)
(* reserve(), lock one row and nothing else: they are one step each.       *)
(***************************************************************************)
EXTENDS Integers, Sequences, FiniteSets

CONSTANTS
  Attempts,     \* the worker of an attempt goes by its name
  Recoverers,   \* callers of recover_reserved
  Operators,    \* callers of POST /v1/invocations/{id}/reconcile
  None,
  Funds,        \* of the one mandate
  Cost          \* of an attempt

(* An open transaction: which it is, and the statement it is at.           *)
Kinds == {"finalize", "release", "commit", "return"}
Transactions == [kind : Kinds, attempt : Attempts, at : Nat, found : BOOLEAN]

ASSUME RowLocksAssumption ==
  /\ None \notin Attempts \cup Recoverers \cup Operators
  /\ Attempts \cap (Recoverers \cup Operators) = {} /\ Recoverers \cap Operators = {}
  /\ None \notin Transactions
  /\ IsFiniteSet(Attempts)
  /\ Funds \in Nat /\ Cost \in Nat

VARIABLES
  value,        \* the committed status of a row, "none" before it is inserted
  cents, calls, \* the committed remaining_cents and calls_used of the mandate
  lock,         \* which transaction has locked a row
  draft,        \* what it has written there
  stage,        \* of a worker: "new", "reserved", "sent", "ran", "raised", "done"
  tx            \* the transaction of a process and the statement it is at

tables == <<value, cents, calls>>
locks  == <<lock, draft>>
vars   == <<tables, locks, stage, tx>>

Processes == Attempts \cup Recoverers \cup Operators
Inv(a)    == <<"inv", a>>
Res(a)    == <<"res", a>>
Mandate   == <<"mandate", None>>
Rows      == ({"inv", "res"} \X Attempts) \cup {Mandate}

Init ==
  /\ value = [r \in Rows |-> "none"]
  /\ cents = Funds /\ calls = 0
  /\ lock = [r \in Rows |-> None]
  /\ draft = [r \in Rows |-> "none"]
  /\ stage = [a \in Attempts |-> "new"]
  /\ tx = [p \in Processes |-> None]

-----------------------------------------------------------------------------
(* The transactions.                                                       *)

(* UPDATE ... WHERE status IN from; nothing to do for a status in past.    *)
Set(table, from, to, past) ==
  [op |-> "set", on |-> table, from |-> from, to |-> to, past |-> past]

(* A refresh, and an early return if it finds that status.                 *)
Unless(table, status) == [op |-> "unless", on |-> table, from |-> {status}]

(* The refund: an UPDATE of the mandate without a condition.               *)
Credit == [op |-> "credit", on |-> "mandate"]

ReconcileFrom == {"ambiguous", "executed_fail"}

(* Variant: the refund does not ask for a held reservation. *)
ReconcileReleaseUnheld ==
  <<Unless("res", "committed"),
    Set("inv", ReconcileFrom, "reconciled_released", {}),
    Unless("res", "committed"),
    Credit>>

(* Variant: the reservation is settled before the invocation. *)
ReconcileReleaseReversed ==
  <<Unless("res", "committed"),
    Set("res", {"held"}, "released", {}),
    Set("inv", ReconcileFrom, "reconciled_released", {}),
    Credit>>

Finalize ==
  <<Set("res", {"held"}, "committed", {}),
    Set("inv", {"executing"}, "committed", {})>>

Release ==
  <<Set("res", {"held"}, "released", {}),
    Credit,
    Set("inv", {"reserved"}, "released", {})>>

ReconcileCommit ==
  <<Unless("res", "released"),
    Set("inv", ReconcileFrom, "reconciled_committed", {}),
    Unless("res", "released"),
    Set("res", {"held"}, "committed", {"committed"})>>

ReconcileRelease ==
  <<Unless("res", "committed"),
    Set("inv", ReconcileFrom, "reconciled_released", {}),
    Unless("res", "committed"),
    Set("res", {"held"}, "released", {}),
    Credit>>

Statements(kind) ==
  CASE kind = "finalize" -> Finalize
    [] kind = "release"  -> Release
    [] kind = "commit"   -> ReconcileCommit
    [] kind = "return"   -> ReconcileRelease

Begin(p, kind, a) ==
  /\ tx[p] = None
  /\ tx' = [tx EXCEPT ![p] = [kind |-> kind, attempt |-> a, at |-> 1, found |-> FALSE]]

Ended(p)     == tx[p].at > Len(Statements(tx[p].kind))
Statement(p) == Statements(tx[p].kind)[tx[p].at]
Row(p)       == IF Statement(p).on = "mandate" THEN Mandate
                ELSE <<Statement(p).on, tx[p].attempt>>
Seen(p)      == IF lock[Row(p)] = p THEN draft[Row(p)] ELSE value[Row(p)]
At(p, op)    == tx[p] # None /\ ~Ended(p) /\ Statement(p).op = op

Advance(p) == tx' = [tx EXCEPT ![p].at = @ + 1, ![p].found = FALSE]

Leave(p) ==
  /\ tx' = [tx EXCEPT ![p] = None]
  /\ lock' = [r \in Rows |-> IF lock[r] = p THEN None ELSE lock[r]]
  /\ draft' = [r \in Rows |-> IF lock[r] = p THEN "none" ELSE draft[r]]

Written(p) ==
  /\ value' = [r \in Rows |-> IF lock[r] = p THEN draft[r] ELSE value[r]]
  /\ cents' = IF lock[Mandate] = p THEN cents + Cost ELSE cents
  /\ calls' = IF lock[Mandate] = p /\ calls > 0 THEN calls - 1 ELSE calls

Rollback(p) == Leave(p) /\ UNCHANGED tables

(* Variant: there is no savepoint, and the session commits. *)
LoseHalfway(p) == Leave(p) /\ Written(p)

(* Variant: what lost is tried again in the same transaction. *)
LoseRetrying(p) ==
  /\ tx' = [tx EXCEPT ![p].at = 1, ![p].found = FALSE]
  /\ UNCHANGED <<tables, locks>>

(* _FinalizeLost: the savepoint is rolled back, and its locks go with it.  *)
Lose(p) == Rollback(p)

Refresh(p) ==
  /\ At(p, "unless")
  /\ IF Seen(p) \in Statement(p).from
     THEN Lose(p)
     ELSE Advance(p) /\ UNCHANGED <<tables, locks>>
  /\ UNCHANGED stage

Find(p) ==
  /\ At(p, "set") /\ ~tx[p].found
  /\ CASE Seen(p) \in Statement(p).past -> Advance(p) /\ UNCHANGED <<tables, locks>>
       [] Seen(p) \in Statement(p).from -> /\ tx' = [tx EXCEPT ![p].found = TRUE]
                                           /\ UNCHANGED <<tables, locks>>
       [] OTHER                         -> Lose(p)
  /\ UNCHANGED stage

Update(p) ==
  /\ At(p, "set") /\ tx[p].found
  /\ lock[Row(p)] \in {None, p}
  /\ IF Seen(p) \in Statement(p).from
     THEN /\ lock' = [lock EXCEPT ![Row(p)] = p]
          /\ draft' = [draft EXCEPT ![Row(p)] = Statement(p).to]
          /\ Advance(p)
          /\ UNCHANGED tables
     ELSE Lose(p)
  /\ UNCHANGED stage

Refund(p) ==
  /\ At(p, "credit")
  /\ lock[Mandate] = None
  /\ lock' = [lock EXCEPT ![Mandate] = p]
  /\ Advance(p)
  /\ UNCHANGED <<tables, draft, stage>>

Commit(p) ==
  /\ tx[p] # None /\ Ended(p)
  /\ Leave(p) /\ Written(p)
  /\ UNCHANGED stage

Step(p) == Refresh(p) \/ Find(p) \/ Update(p) \/ Refund(p) \/ Commit(p)

(* The database.                                                           *)
WaitsFor(p) ==
  IF At(p, "credit") \/ (At(p, "set") /\ tx[p].found)
  THEN {lock[Row(p)]} \ {None, p}
  ELSE {}

Waiting == {p \in Processes : WaitsFor(p) # {}}

(* Cycles: each waits for one other, and is waited for.                    *)
Deadlocked(S) == UNION {WaitsFor(p) : p \in S} = S

Aborted(p) ==
  /\ \E S \in SUBSET Waiting : p \in S /\ Deadlocked(S)
  /\ Rollback(p)
  /\ UNCHANGED stage

-----------------------------------------------------------------------------
(* The life of an attempt.                                                 *)

Free(r) == lock[r] = None

Reserve(a) ==
  /\ stage[a] = "new"
  /\ Free(Mandate) /\ cents >= Cost
  /\ cents' = cents - Cost /\ calls' = calls + 1
  /\ value' = [value EXCEPT ![Inv(a)] = "reserved", ![Res(a)] = "held"]
  /\ stage' = [stage EXCEPT ![a] = "reserved"]
  /\ UNCHANGED <<locks, tx>>

(* A conditional UPDATE of the invocation, then COMMIT.                    *)
Move(a, from, to) ==
  /\ Free(Inv(a))
  /\ value' = IF value[Inv(a)] \in from THEN [value EXCEPT ![Inv(a)] = to] ELSE value

MarkExecuting(a) ==
  /\ stage[a] = "reserved"
  /\ Move(a, {"reserved"}, "executing")
  /\ stage' = [stage EXCEPT ![a] = IF value[Inv(a)] = "reserved" THEN "sent" ELSE "done"]
  /\ UNCHANGED <<cents, calls, locks, tx>>

ProviderAnswers(a) ==
  /\ stage[a] = "sent"
  /\ \E outcome \in {"ran", "raised"} : stage' = [stage EXCEPT ![a] = outcome]
  /\ UNCHANGED <<tables, locks, tx>>

MarkExecutedFail(a) ==
  /\ stage[a] = "raised"
  /\ Move(a, {"executing"}, "executed_fail")
  /\ stage' = [stage EXCEPT ![a] = "done"]
  /\ UNCHANGED <<cents, calls, locks, tx>>

FinalizeSuccess(a) ==
  /\ stage[a] = "ran"
  /\ Begin(a, "finalize", a)
  /\ stage' = [stage EXCEPT ![a] = "done"]
  /\ UNCHANGED <<tables, locks>>

RecoverAmbiguous(a) ==
  /\ value[Inv(a)] \in {"reserved", "executing"}
  /\ Move(a, {"reserved", "executing"}, "ambiguous")
  /\ UNCHANGED <<cents, calls, locks, stage, tx>>

FinalizeRelease(v, a) ==
  /\ value[Inv(a)] = "reserved"
  /\ Begin(v, "release", a)
  /\ UNCHANGED <<tables, locks, stage>>

Reconcile(o, a) ==
  /\ value[Inv(a)] # "none"
  /\ \E kind \in {"commit", "return"} : Begin(o, kind, a)
  /\ UNCHANGED <<tables, locks, stage>>

(* The connection is gone: the database rolls back what was open.          *)
Crash(p) ==
  /\ IF p \in Attempts THEN stage[p] \notin {"new", "done"} \/ tx[p] # None
     ELSE tx[p] # None
  /\ Rollback(p)
  /\ stage' = IF p \in Attempts THEN [stage EXCEPT ![p] = "done"] ELSE stage

Worker(a) ==
  MarkExecuting(a) \/ ProviderAnswers(a) \/ MarkExecutedFail(a) \/ FinalizeSuccess(a)

Next ==
  \/ \E a \in Attempts : Reserve(a) \/ Worker(a)
  \/ \E a \in Attempts, v \in Recoverers : RecoverAmbiguous(a) \/ FinalizeRelease(v, a)
  \/ \E a \in Attempts, o \in Operators : Reconcile(o, a)
  \/ \E p \in Processes : Step(p) \/ Aborted(p) \/ Crash(p)

Spec == Init /\ [][Next]_vars
=============================================================================
