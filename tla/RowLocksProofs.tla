--------------------------- MODULE RowLocksProofs ---------------------------
(***************************************************************************)
(* Proofs, for every number of attempts, recoverers and operators, that    *)
(* the transactions that settle an attempt are atomic although each locks  *)
(* its rows one by one, and not all in the same order.                     *)
(***************************************************************************)
EXTENDS RowLocksProperties, FiniteSetTheorems, TLAPS

-----------------------------------------------------------------------------
(* The four programs.                                                      *)

Writes(s) == s.op # "unless"

RowOf(s, a) == IF s.on = "mandate" THEN Mandate ELSE <<s.on, a>>

IsStatement(s) ==
  /\ s.op \in {"set", "unless", "credit"}
  /\ s.op = "credit" => s.on = "mandate"
  /\ s.op # "credit" => s.on \in {"inv", "res"} /\ s.from \subseteq Statuses /\ "none" \notin s.from
  /\ s.op = "set" => s.to \in Statuses

LEMMA Programs ==
  ASSUME NEW k \in Kinds
  PROVE  /\ Len(Statements(k)) \in Nat
         /\ \A i \in 1 .. Len(Statements(k)) : IsStatement(Statements(k)[i])
<1>1. CASE k = "finalize"
  BY <1>1 DEF Statements, Finalize, Set, IsStatement, Statuses
<1>2. CASE k = "release"
  BY <1>2 DEF Statements, Release, Set, Credit, IsStatement, Statuses
<1>3. CASE k = "commit"
  BY <1>3 DEF Statements, ReconcileCommit, Set, Unless, ReconcileFrom, IsStatement, Statuses
<1>4. CASE k = "return"
  BY <1>4 DEF Statements, ReconcileRelease, Set, Unless, Credit, ReconcileFrom, IsStatement, Statuses
<1>5. QED
  BY <1>1, <1>2, <1>3, <1>4 DEF Kinds

(* No row is written twice, and only reconcile_commit passes over one, the *)
(* reservation, having locked the invocation.                              *)
LEMMA WritesOnce ==
  ASSUME NEW k \in Kinds,
         NEW i \in 1 .. Len(Statements(k)), NEW j \in 1 .. Len(Statements(k)),
         Writes(Statements(k)[i]), Writes(Statements(k)[j]), Statements(k)[i].on = Statements(k)[j].on
  PROVE  i = j
<1>1. CASE k = "finalize"
  BY <1>1 DEF Statements, Finalize, Set, Writes
<1>2. CASE k = "release"
  BY <1>2 DEF Statements, Release, Set, Credit, Writes
<1>3. CASE k = "commit"
  BY <1>3 DEF Statements, ReconcileCommit, Set, Unless, Writes
<1>4. CASE k = "return"
  BY <1>4 DEF Statements, ReconcileRelease, Set, Unless, Credit, Writes
<1>5. QED
  BY <1>1, <1>2, <1>3, <1>4 DEF Kinds

LEMMA PassesOver ==
  ASSUME NEW k \in Kinds, NEW i \in 1 .. Len(Statements(k)),
         Statements(k)[i].op = "set", Statements(k)[i].past # {}
  PROVE  /\ Statements(k)[i].on = "res" /\ Statements(k)[i].past = {"committed"}
         /\ i > 2 /\ Statements(k)[2].op = "set" /\ Statements(k)[2].on = "inv"
         /\ Statements(k)[2].from = ReconcileFrom
<1>1. CASE k = "finalize"
  BY <1>1 DEF Statements, Finalize, Set
<1>2. CASE k = "release"
  BY <1>2 DEF Statements, Release, Set, Credit
<1>3. CASE k = "commit"
  BY <1>3 DEF Statements, ReconcileCommit, Set, Unless
<1>4. CASE k = "return"
  BY <1>4 DEF Statements, ReconcileRelease, Set, Unless, Credit
<1>5. QED
  BY <1>1, <1>2, <1>3, <1>4 DEF Kinds

-----------------------------------------------------------------------------
(* Steps, as far as rows and transactions go.                              *)

Named(p) == tx[p].kind \in Kinds /\ tx[p].attempt \in Attempts

Reserves(a) ==
  /\ stage[a] = "new" /\ Free(Mandate) /\ cents >= Cost
  /\ cents' = cents - Cost /\ calls' = calls + 1
  /\ value' = [value EXCEPT ![Inv(a)] = "reserved", ![Res(a)] = "held"]
  /\ stage' = [stage EXCEPT ![a] = "reserved"]
  /\ UNCHANGED <<locks, tx>>

Unsettled == {"executing", "executed_fail", "ambiguous"}

Later == stage' \in [Attempts -> {"new", "reserved", "sent", "ran", "raised", "done"}]
         /\ \A a \in Attempts : stage'[a] = "new" => stage[a] = "new"

Moves(a) ==
  /\ Free(Inv(a)) /\ Later
  /\ value[Inv(a)] \in {"reserved", "executing"}
  /\ \E to \in Unsettled : value' = [value EXCEPT ![Inv(a)] = to]
  /\ UNCHANGED <<cents, calls, locks, tx>>

Begins(p) ==
  /\ tx[p] = None /\ Later
  /\ \E k \in Kinds, a \in Attempts :
       tx' = [tx EXCEPT ![p] = [kind |-> k, attempt |-> a, at |-> 1, found |-> FALSE]]
  /\ UNCHANGED <<tables, locks>>

Rests == Later /\ UNCHANGED <<tables, locks, tx>>

Advances(p) ==
  /\ tx[p] # None /\ ~Ended(p)
  /\ ~Writes(Statement(p))
  /\ Advance(p) /\ UNCHANGED <<tables, locks, stage>>

(* The first half of an UPDATE.                                            *)
Finds(p) ==
  /\ tx[p] # None
  /\ tx' = [tx EXCEPT ![p].found = TRUE]
  /\ UNCHANGED <<tables, locks, stage>>

Locks(p) ==
  /\ tx[p] # None /\ ~Ended(p) /\ Writes(Statement(p))
  /\ lock[Row(p)] \in {None, p}
  /\ Statement(p).op = "set" => Seen(p) \in Statement(p).from
  /\ lock' = [lock EXCEPT ![Row(p)] = p]
  /\ draft' = IF Statement(p).op = "set" THEN [draft EXCEPT ![Row(p)] = Statement(p).to] ELSE draft
  /\ Advance(p) /\ UNCHANGED <<tables, stage>>

Loses(p) == Leave(p) /\ Later /\ UNCHANGED tables

Commits(p) == tx[p] # None /\ Ended(p) /\ Leave(p) /\ Written(p) /\ UNCHANGED stage

-----------------------------------------------------------------------------
(* Two-phase locking.  A transaction holds the rows of the statements it   *)
(* has passed and no others; what it found in them is still there.         *)

Holding ==
  \A p \in Processes : tx[p] # None =>
    \A i \in 1 .. tx[p].at - 1 :
      LET s == Statements(tx[p].kind)[i]
          r == RowOf(s, tx[p].attempt)
      IN  Writes(s) => /\ lock[r] = p
                       /\ s.op = "set" => draft[r] = s.to /\ value[r] \in s.from

Owned ==
  \A r \in Rows : lock[r] # None =>
    LET t == tx[lock[r]]
    IN  /\ t # None
        /\ \E i \in 1 .. t.at - 1 :
             Writes(Statements(t.kind)[i]) /\ r = RowOf(Statements(t.kind)[i], t.attempt)

Fresh == \A a \in Attempts : stage[a] = "new" => value[Inv(a)] = "none" /\ value[Res(a)] = "none"

LEMMA RowsOf ==
  ASSUME NEW s, IsStatement(s), NEW a \in Attempts
  PROVE  RowOf(s, a) \in Rows
BY DEF IsStatement, RowOf, Rows

LEMMA InTransaction ==
  ASSUME TypeOK, NEW p \in Processes, tx[p] # None
  PROVE  /\ tx[p] \in Transactions /\ tx[p].kind \in Kinds /\ tx[p].attempt \in Attempts
         /\ Len(Statements(tx[p].kind)) \in Nat /\ tx[p].at \in Nat
         /\ \A i \in 1 .. tx[p].at - 1 :
              i \in 1 .. Len(Statements(tx[p].kind)) /\ IsStatement(Statements(tx[p].kind)[i])
         /\ Ended(p) => tx[p].at = Len(Statements(tx[p].kind)) + 1
         /\ ~Ended(p) => /\ tx[p].at \in 1 .. Len(Statements(tx[p].kind))
                         /\ IsStatement(Statement(p))
                         /\ Row(p) = RowOf(Statement(p), tx[p].attempt) /\ Row(p) \in Rows
<1>1. tx[p] \in Transactions
  BY DEF TypeOK
<1>2. tx[p].kind \in Kinds /\ tx[p].attempt \in Attempts /\ tx[p].at \in Nat
  BY <1>1 DEF Transactions
<1>3. /\ Len(Statements(tx[p].kind)) \in Nat
      /\ \A i \in 1 .. Len(Statements(tx[p].kind)) : IsStatement(Statements(tx[p].kind)[i])
  BY <1>2, Programs
<1>4. tx[p].at \in 1 .. Len(Statements(tx[p].kind)) + 1
  BY DEF TypeOK
<1>5. Ended(p) <=> tx[p].at > Len(Statements(tx[p].kind))
  BY DEF Ended
<1>6. /\ \A i \in 1 .. tx[p].at - 1 :
           i \in 1 .. Len(Statements(tx[p].kind)) /\ IsStatement(Statements(tx[p].kind)[i])
      /\ Ended(p) => tx[p].at = Len(Statements(tx[p].kind)) + 1
      /\ ~Ended(p) => tx[p].at \in 1 .. Len(Statements(tx[p].kind)) /\ IsStatement(Statement(p))
  BY <1>2, <1>3, <1>4, <1>5 DEF Statement
<1>7. Row(p) = RowOf(Statement(p), tx[p].attempt)
  BY DEF Row, RowOf
<1>8. QED
  BY <1>1, <1>2, <1>3, <1>6, <1>7, RowsOf

(* A transaction has not yet locked the row it is about to write.          *)
LEMMA NotYetLocked ==
  ASSUME TypeOK, Owned, NEW p \in Processes, tx[p] # None, ~Ended(p), Writes(Statement(p))
  PROVE  lock[Row(p)] # p
<1> SUFFICES ASSUME lock[Row(p)] = p PROVE FALSE
  OBVIOUS
<1>1. p # None
  BY RowLocksAssumption DEF Processes
<1>2. PICK i \in 1 .. tx[p].at - 1 :
             /\ Writes(Statements(tx[p].kind)[i])
             /\ Row(p) = RowOf(Statements(tx[p].kind)[i], tx[p].attempt)
  BY <1>1, InTransaction DEF Owned
<1>3. Statements(tx[p].kind)[i].on = Statement(p).on
  BY <1>2, InTransaction DEF Row, RowOf, IsStatement, Mandate
<1>4. i = tx[p].at
  BY <1>2, <1>3, InTransaction, WritesOnce DEF Statement
<1>5. QED
  BY <1>4, InTransaction

(* reconcile_commit never passes over a committed reservation: it has      *)
(* locked an invocation that is still to be settled.                       *)
LEMMA NothingPassed ==
  ASSUME TypeOK, Holding, Owned, VerdictsAgree,
         NEW p \in Processes, At(p, "set")
  PROVE  Seen(p) \notin Statement(p).past
<1> SUFFICES ASSUME Seen(p) \in Statement(p).past PROVE FALSE
  OBVIOUS
<1> DEFINE k == tx[p].kind  a == tx[p].attempt
<1>1. /\ k \in Kinds /\ a \in Attempts /\ tx[p].at \in 1 .. Len(Statements(k)) /\ tx[p] # None
      /\ Statement(p).op = "set" /\ ~Ended(p)
  BY InTransaction DEF At
<1>2. /\ Statement(p).on = "res" /\ Seen(p) = "committed" /\ tx[p].at > 2
      /\ Statements(k)[2].op = "set" /\ Statements(k)[2].on = "inv"
      /\ Statements(k)[2].from = ReconcileFrom
  BY <1>1, PassesOver DEF Statement
<1>3. Row(p) = Res(a) /\ value[Res(a)] = "committed"
  BY <1>1, <1>2, NotYetLocked DEF Row, Res, Seen, Writes
<1>4. value[Inv(a)] \in ReconcileFrom
  <2>1. 2 \in 1 .. tx[p].at - 1
    BY <1>1, <1>2, InTransaction
  <2>2. value[RowOf(Statements(k)[2], a)] \in Statements(k)[2].from
    BY <1>1, <1>2, <2>1 DEF Holding, Writes
  <2>3. QED
    BY <1>2, <2>2 DEF RowOf, Inv
<1>5. QED
  BY <1>1, <1>3, <1>4 DEF VerdictsAgree, ReconcileFrom

LockStep ==
  \/ Rests
  \/ \E a \in Attempts : Reserves(a) \/ Moves(a)
  \/ \E p \in Processes :
       Begins(p) \/ Advances(p) \/ Finds(p) \/ Locks(p) \/ Loses(p) \/ Commits(p)

(* Every step of the system is one of these.                               *)
LEMMA LockSteps ==
  TypeOK /\ Holding /\ Owned /\ VerdictsAgree /\ [Next]_vars => LockStep
<1> SUFFICES ASSUME TypeOK, Holding, Owned, VerdictsAgree, [Next]_vars PROVE LockStep
  OBVIOUS
<1> USE DEF tables, locks
<1>1. ASSUME UNCHANGED stage PROVE Later
  BY <1>1 DEF Later, TypeOK
<1>2. ASSUME NEW p \in Processes, Refresh(p) PROVE LockStep
  <2>1. tx[p] # None /\ ~Ended(p) /\ ~Writes(Statement(p)) /\ UNCHANGED stage
    BY <1>2 DEF Refresh, At, Writes
  <2>2. CASE Seen(p) \in Statement(p).from
    BY <1>1, <1>2, <2>1, <2>2 DEF Refresh, Lose, Rollback, Loses, LockStep
  <2>3. CASE Seen(p) \notin Statement(p).from
    BY <1>2, <2>1, <2>3 DEF Refresh, Advances, LockStep
  <2>4. QED
    BY <2>2, <2>3
<1>3. ASSUME NEW p \in Processes, Find(p) PROVE LockStep
  <2>1. At(p, "set") /\ tx[p] # None /\ Seen(p) \notin Statement(p).past /\ UNCHANGED stage
    BY <1>3, NothingPassed DEF Find, At
  <2>2. CASE Seen(p) \in Statement(p).from
    BY <1>3, <2>1, <2>2 DEF Find, Finds, LockStep
  <2>3. CASE Seen(p) \notin Statement(p).from
    BY <1>1, <1>3, <2>1, <2>3 DEF Find, Lose, Rollback, Loses, LockStep
  <2>4. QED
    BY <2>2, <2>3
<1>4. ASSUME NEW p \in Processes, Update(p) PROVE LockStep
  <2>1. /\ tx[p] # None /\ ~Ended(p) /\ Writes(Statement(p)) /\ Statement(p).op = "set"
        /\ lock[Row(p)] \in {None, p} /\ UNCHANGED stage
    BY <1>4 DEF Update, At, Writes
  <2>2. CASE Seen(p) \in Statement(p).from
    BY <1>4, <2>1, <2>2 DEF Update, Locks, LockStep
  <2>3. CASE Seen(p) \notin Statement(p).from
    BY <1>1, <1>4, <2>1, <2>3 DEF Update, Lose, Rollback, Loses, LockStep
  <2>4. QED
    BY <2>2, <2>3
<1>5. ASSUME NEW p \in Processes, Refund(p) PROVE LockStep
  <2>1. tx[p] # None /\ ~Ended(p) /\ Statement(p).op = "credit" /\ Writes(Statement(p))
    BY <1>5 DEF Refund, At, Writes
  <2>2. Row(p) = Mandate
    BY <2>1, InTransaction DEF Row, IsStatement
  <2>3. Locks(p)
    BY <1>5, <2>1, <2>2 DEF Refund, Locks
  <2>4. QED
    BY <2>3 DEF LockStep
<1>6. ASSUME NEW p \in Processes, Commit(p) PROVE LockStep
  BY <1>6 DEF Commit, Commits, LockStep
<1>7. ASSUME NEW p \in Processes, Aborted(p) PROVE LockStep
  BY <1>1, <1>7 DEF Aborted, Rollback, Loses, LockStep
<1>8. ASSUME NEW p \in Processes, Crash(p) PROVE LockStep
  <2>1. Later
    BY <1>8 DEF Crash, Later, TypeOK
  <2>2. QED
    BY <1>8, <2>1 DEF Crash, Rollback, Loses, LockStep
<1>9. ASSUME NEW a \in Attempts, Reserve(a) PROVE LockStep
  BY <1>9 DEF Reserve, Reserves, LockStep
<1>10. ASSUME NEW a \in Attempts, Worker(a) PROVE LockStep
  <2>1. Later
    BY <1>10 DEF Worker, MarkExecuting, ProviderAnswers, MarkExecutedFail, FinalizeSuccess, Later, TypeOK
  <2>2. CASE MarkExecuting(a)
    BY <2>1, <2>2 DEF MarkExecuting, Move, Moves, Unsettled, Rests, LockStep
  <2>3. CASE ProviderAnswers(a)
    BY <2>1, <2>3 DEF ProviderAnswers, Rests, LockStep
  <2>4. CASE MarkExecutedFail(a)
    BY <2>1, <2>4 DEF MarkExecutedFail, Move, Moves, Unsettled, Rests, LockStep
  <2>5. CASE FinalizeSuccess(a)
    BY <2>1, <2>5 DEF FinalizeSuccess, Begin, Begins, Kinds, LockStep, Processes
  <2>6. QED
    BY <1>10, <2>2, <2>3, <2>4, <2>5 DEF Worker
<1>11. ASSUME NEW a \in Attempts, RecoverAmbiguous(a) PROVE LockStep
  BY <1>1, <1>11 DEF RecoverAmbiguous, Move, Moves, Unsettled, Rests, LockStep
<1>12. ASSUME NEW a \in Attempts, NEW v \in Recoverers, FinalizeRelease(v, a) PROVE LockStep
  BY <1>1, <1>12 DEF FinalizeRelease, Begin, Begins, Kinds, LockStep, Processes
<1>13. ASSUME NEW a \in Attempts, NEW o \in Operators, Reconcile(o, a) PROVE LockStep
  BY <1>1, <1>13 DEF Reconcile, Begin, Begins, Kinds, LockStep, Processes
<1>14. CASE UNCHANGED vars
  BY <1>1, <1>14 DEF vars, Rests, LockStep
<1>15. QED
  BY <1>2, <1>3, <1>4, <1>5, <1>6, <1>7, <1>8, <1>9, <1>10, <1>11, <1>12, <1>13, <1>14
     DEF Next, Step

-----------------------------------------------------------------------------
LEMMA TypeStep == TypeOK /\ Holding /\ LockStep => TypeOK'
<1> SUFFICES ASSUME TypeOK, Holding, LockStep PROVE TypeOK'
  OBVIOUS
<1> USE RowLocksAssumption DEF tables, locks
<1>1. CASE Rests
  BY <1>1 DEF Rests, Later, TypeOK
<1>2. ASSUME NEW a \in Attempts, Reserves(a) PROVE TypeOK'
  <2>1. cents' \in Nat /\ calls' \in Nat
    BY <1>2 DEF Reserves, TypeOK
  <2>2. QED
    BY <1>2, <2>1 DEF Reserves, TypeOK, Statuses
<1>3. ASSUME NEW a \in Attempts, Moves(a) PROVE TypeOK'
  <2>1. PICK to \in Unsettled : value' = [value EXCEPT ![Inv(a)] = to]
    BY <1>3 DEF Moves
  <2>2. to \in Statuses
    BY DEF Unsettled, Statuses
  <2>3. QED
    BY <1>3, <2>1, <2>2 DEF Moves, Later, TypeOK
<1>4. ASSUME NEW p \in Processes, Begins(p) PROVE TypeOK'
  <2>1. PICK k \in Kinds, a \in Attempts :
               tx' = [tx EXCEPT ![p] = [kind |-> k, attempt |-> a, at |-> 1, found |-> FALSE]]
    BY <1>4 DEF Begins
  <2>2. [kind |-> k, attempt |-> a, at |-> 1, found |-> FALSE] \in Transactions
    BY DEF Transactions
  <2>3. 1 \in 1 .. Len(Statements(k)) + 1
    BY Programs
  <2>4. QED
    BY <1>4, <2>1, <2>2, <2>3 DEF Begins, Later, TypeOK
<1>5. ASSUME NEW p \in Processes, tx[p] # None, ~Ended(p), Advance(p)
      PROVE  /\ tx' \in [Processes -> Transactions \cup {None}]
             /\ \A q \in Processes :
                  tx'[q] # None => tx'[q].at \in 1 .. Len(Statements(tx'[q].kind)) + 1
  <2> DEFINE t == [tx[p] EXCEPT !.at = @ + 1, !.found = FALSE]
  <2>1. t \in Transactions /\ t.kind = tx[p].kind /\ t.at = tx[p].at + 1
    <3>1. tx[p] \in Transactions /\ tx[p].at + 1 \in Nat
      BY <1>5, InTransaction
    <3>2. QED
      BY <3>1 DEF Transactions
  <2>2. tx' = [tx EXCEPT ![p] = t]
    BY <1>5 DEF Advance
  <2>3. t.at \in 1 .. Len(Statements(t.kind)) + 1
    BY <1>5, <2>1, InTransaction
  <2> HIDE DEF t
  <2>4. QED
    BY <2>1, <2>2, <2>3 DEF TypeOK
<1>6. ASSUME NEW p \in Processes, Advances(p) PROVE TypeOK'
  BY <1>5, <1>6 DEF Advances, TypeOK
<1>7. ASSUME NEW p \in Processes, Finds(p) PROVE TypeOK'
  <2> DEFINE t == [tx[p] EXCEPT !.found = TRUE]
  <2>1. t \in Transactions /\ t.kind = tx[p].kind /\ t.at = tx[p].at
    BY <1>7, InTransaction DEF Transactions, Finds
  <2>2. tx' = [tx EXCEPT ![p] = t]
    BY <1>7 DEF Finds
  <2>3. tx[p] # None
    BY <1>7 DEF Finds
  <2> HIDE DEF t
  <2>4. QED
    BY <1>7, <2>1, <2>2, <2>3 DEF Finds, TypeOK
<1>8. ASSUME NEW p \in Processes, Locks(p) PROVE TypeOK'
  <2>1. /\ tx' \in [Processes -> Transactions \cup {None}]
        /\ \A q \in Processes :
             tx'[q] # None => tx'[q].at \in 1 .. Len(Statements(tx'[q].kind)) + 1
    BY <1>5, <1>8 DEF Locks
  <2>2. Row(p) \in Rows /\ (Statement(p).op = "set" => Statement(p).to \in Statuses)
    BY <1>8, InTransaction DEF Locks, IsStatement
  <2>3. QED
    BY <1>8, <2>1, <2>2 DEF Locks, TypeOK
<1>9. ASSUME NEW p \in Processes, Leave(p)
      PROVE  /\ tx' \in [Processes -> Transactions \cup {None}]
             /\ \A q \in Processes :
                  tx'[q] # None => tx'[q].at \in 1 .. Len(Statements(tx'[q].kind)) + 1
             /\ lock' \in [Rows -> Processes \cup {None}] /\ draft' \in [Rows -> Statuses]
  BY <1>9 DEF Leave, TypeOK, Statuses
<1>10. ASSUME NEW p \in Processes, Loses(p) PROVE TypeOK'
  BY <1>9, <1>10 DEF Loses, Later, TypeOK
<1>11. ASSUME NEW p \in Processes, Commits(p) PROVE TypeOK'
  <2>1. value' \in [Rows -> Statuses] /\ cents' \in Nat /\ calls' \in Nat
    BY <1>11 DEF Commits, Written, TypeOK
  <2>2. QED
    BY <1>9, <1>11, <2>1 DEF Commits, TypeOK
<1>12. QED
  BY <1>1, <1>2, <1>3, <1>4, <1>6, <1>7, <1>8, <1>10, <1>11 DEF LockStep

-----------------------------------------------------------------------------
(* A row of an attempt that somebody has locked has been inserted.         *)
LEMMA LockedRowsExist ==
  ASSUME TypeOK, Holding, Owned, NEW a \in Attempts, NEW r \in {Inv(a), Res(a)}, lock[r] # None
  PROVE  value[r] # "none"
<1>1. r \in Rows /\ r # Mandate /\ lock[r] \in Processes
  BY DEF Inv, Res, Rows, Mandate, TypeOK
<1> DEFINE p == lock[r]
<1>2. tx[p] # None
  BY <1>1 DEF Owned
<1>3. PICK i \in 1 .. tx[p].at - 1 :
             Writes(Statements(tx[p].kind)[i]) /\ r = RowOf(Statements(tx[p].kind)[i], tx[p].attempt)
  BY <1>1 DEF Owned
<1>4. IsStatement(Statements(tx[p].kind)[i])
  BY <1>1, <1>2, InTransaction
<1>5. Statements(tx[p].kind)[i].op = "set" /\ "none" \notin Statements(tx[p].kind)[i].from
  BY <1>1, <1>3, <1>4 DEF RowOf, IsStatement, Writes
<1>6. value[r] \in Statements(tx[p].kind)[i].from
  BY <1>1, <1>2, <1>3, <1>5 DEF Holding
<1>7. QED
  BY <1>5, <1>6

(* Nobody changes a row that another transaction has locked.               *)
LEMMA RowsKept ==
  ASSUME TypeOK, Holding, Owned, Fresh, LockStep,
         NEW q \in Processes, tx[q] # None, tx'[q] # None,
         NEW r \in Rows, lock[r] = q
  PROVE  lock'[r] = q /\ draft'[r] = draft[r] /\ value'[r] = value[r]
<1> USE DEF tables, locks
<1>1. q # None
  BY RowLocksAssumption DEF Processes
<1>2. CASE Rests
  BY <1>2 DEF Rests
<1>3. ASSUME NEW a \in Attempts, Reserves(a)
      PROVE  lock'[r] = q /\ draft'[r] = draft[r] /\ value'[r] = value[r]
  <2>1. value[Inv(a)] = "none" /\ value[Res(a)] = "none"
    BY <1>3 DEF Reserves, Fresh
  <2>2. r # Inv(a) /\ r # Res(a)
    BY <1>1, <2>1, LockedRowsExist
  <2>3. QED
    BY <1>3, <2>2 DEF Reserves, TypeOK
<1>4. ASSUME NEW a \in Attempts, Moves(a)
      PROVE  lock'[r] = q /\ draft'[r] = draft[r] /\ value'[r] = value[r]
  <2>1. r # Inv(a)
    BY <1>1, <1>4 DEF Moves, Free
  <2>2. QED
    BY <1>4, <2>1 DEF Moves, TypeOK
<1>5. ASSUME NEW p \in Processes, Begins(p) \/ Advances(p) \/ Finds(p)
      PROVE  lock'[r] = q /\ draft'[r] = draft[r] /\ value'[r] = value[r]
  BY <1>5 DEF Begins, Advances, Finds
<1>6. ASSUME NEW p \in Processes, Locks(p)
      PROVE  lock'[r] = q /\ draft'[r] = draft[r] /\ value'[r] = value[r]
  <2>1. r # Row(p)
    BY <1>1, <1>6, NotYetLocked DEF Locks
  <2>2. QED
    BY <1>6, <2>1 DEF Locks, TypeOK
<1>7. ASSUME NEW p \in Processes, Loses(p) \/ Commits(p)
      PROVE  lock'[r] = q /\ draft'[r] = draft[r] /\ value'[r] = value[r]
  <2>1. p # q
    BY <1>7 DEF Loses, Commits, Leave, TypeOK
  <2>2. QED
    BY <1>7, <2>1 DEF Loses, Commits, Leave, Written, TypeOK
<1>8. QED
  BY <1>2, <1>3, <1>4, <1>5, <1>6, <1>7 DEF LockStep

(* What a step does to a transaction that goes on.                         *)
LEMMA Progress ==
  ASSUME TypeOK, LockStep, NEW q \in Processes, tx'[q] # None
  PROVE  \/ tx[q] = None /\ tx'[q].at = 1
         \/ /\ tx[q] # None /\ tx'[q].kind = tx[q].kind /\ tx'[q].attempt = tx[q].attempt
            /\ \/ tx'[q].at = tx[q].at
               \/ tx'[q].at = tx[q].at + 1 /\ (Advances(q) \/ Locks(q))
<1>1. CASE tx'[q] = tx[q]
  BY <1>1
<1>2. ASSUME NEW p \in Processes, Begins(p), tx'[q] # tx[q] PROVE tx[q] = None /\ tx'[q].at = 1
  BY <1>2 DEF Begins, TypeOK
<1>3. ASSUME NEW p \in Processes, Advance(p), tx[p] # None, tx'[q] # tx[q]
      PROVE  p = q /\ tx'[q].kind = tx[q].kind /\ tx'[q].attempt = tx[q].attempt
             /\ tx'[q].at = tx[q].at + 1
  <2>1. tx[p] \in Transactions
    BY <1>3, InTransaction
  <2>2. QED
    BY <1>3, <2>1 DEF Advance, TypeOK, Transactions
<1>4. ASSUME NEW p \in Processes, Finds(p), tx'[q] # tx[q]
      PROVE  tx[q] # None /\ tx'[q].kind = tx[q].kind /\ tx'[q].attempt = tx[q].attempt
             /\ tx'[q].at = tx[q].at
  <2>1. tx[p] \in Transactions
    BY <1>4, InTransaction DEF Finds
  <2>2. QED
    BY <1>4, <2>1 DEF Finds, TypeOK, Transactions
<1>5. ASSUME NEW p \in Processes, Advances(p) \/ Locks(p), tx'[q] # tx[q]
      PROVE  /\ tx[q] # None /\ tx'[q].kind = tx[q].kind /\ tx'[q].attempt = tx[q].attempt
             /\ tx'[q].at = tx[q].at + 1 /\ (Advances(q) \/ Locks(q))
  BY <1>3, <1>5 DEF Advances, Locks
<1>6. ASSUME NEW p \in Processes, Loses(p) \/ Commits(p) PROVE tx'[q] = tx[q]
  BY <1>6 DEF Loses, Commits, Leave, TypeOK
<1>7. ASSUME NEW a \in Attempts, Reserves(a) \/ Moves(a) PROVE tx'[q] = tx[q]
  BY <1>7 DEF Reserves, Moves
<1>8. CASE Rests
  BY <1>1, <1>8 DEF Rests
<1>9. QED
  BY <1>1, <1>2, <1>4, <1>5, <1>6, <1>7, <1>8 DEF LockStep

LEMMA HoldingStep == TypeOK /\ Holding /\ Owned /\ Fresh /\ LockStep => Holding'
<1> SUFFICES ASSUME TypeOK, Holding, Owned, Fresh, LockStep,
                    NEW q \in Processes, tx'[q] # None,
                    NEW i \in 1 .. tx'[q].at - 1,
                    Writes(Statements(tx'[q].kind)[i])
             PROVE  LET s == Statements(tx'[q].kind)[i]
                        r == RowOf(s, tx'[q].attempt)
                    IN  lock'[r] = q /\ (s.op = "set" => draft'[r] = s.to /\ value'[r] \in s.from)
  BY DEF Holding
<1>1. /\ tx[q] # None /\ tx'[q].kind = tx[q].kind /\ tx'[q].attempt = tx[q].attempt
      /\ i \notin 1 .. tx[q].at - 1 => i = tx[q].at /\ (Advances(q) \/ Locks(q))
  <2>1. CASE tx'[q].at = 1
    BY <2>1
  <2>2. CASE tx'[q].at = tx[q].at /\ tx[q] # None
    BY <2>2, Progress
  <2>3. CASE tx'[q].at = tx[q].at + 1 /\ tx[q] # None
    BY <2>3, Progress, InTransaction
  <2>4. QED
    BY <2>1, <2>2, <2>3, Progress
<1> DEFINE s == Statements(tx[q].kind)[i]
           r == RowOf(s, tx[q].attempt)
<1>2. Writes(s)
  BY <1>1
<1>3. CASE i \in 1 .. tx[q].at - 1
  <2>1. IsStatement(s) /\ r \in Rows
    BY <1>1, <1>3, InTransaction, RowsOf
  <2>2. lock[r] = q /\ (s.op = "set" => draft[r] = s.to /\ value[r] \in s.from)
    BY <1>1, <1>2, <1>3 DEF Holding
  <2>3. lock'[r] = q /\ draft'[r] = draft[r] /\ value'[r] = value[r]
    BY <1>1, <2>1, <2>2, RowsKept
  <2>4. QED
    BY <1>1, <2>2, <2>3
<1>4. CASE i = tx[q].at /\ Locks(q)
  <2>1. s = Statement(q) /\ r = Row(q) /\ r \in Rows /\ ~Ended(q)
    BY <1>1, <1>4, InTransaction DEF Statement, Locks
  <2>2. lock[r] # q
    BY <1>1, <1>2, <2>1, NotYetLocked
  <2>3. s.op = "set" => value[r] \in s.from
    BY <1>4, <2>1, <2>2 DEF Locks, Seen
  <2>4. /\ lock' = [lock EXCEPT ![r] = q] /\ value' = value
        /\ s.op = "set" => draft' = [draft EXCEPT ![r] = s.to]
    BY <1>4, <2>1 DEF Locks, tables
  <2> HIDE DEF s, r
  <2>5. lock'[r] = q /\ (s.op = "set" => draft'[r] = s.to /\ value'[r] \in s.from)
    BY <2>1, <2>3, <2>4 DEF TypeOK
  <2>6. QED
    BY <1>1, <2>5 DEF s, r
<1>5. CASE i = tx[q].at /\ Advances(q)
  BY <1>2, <1>5 DEF Advances, Statement
<1>6. QED
  BY <1>1, <1>3, <1>4, <1>5

LEMMA OwnedStep == TypeOK /\ Holding /\ Owned /\ LockStep => Owned'
<1> SUFFICES ASSUME TypeOK, Holding, Owned, LockStep, NEW r \in Rows, lock'[r] # None
             PROVE  LET t == tx'[lock'[r]]
                    IN  /\ t # None
                        /\ \E i \in 1 .. t.at - 1 :
                             /\ Writes(Statements(t.kind)[i])
                             /\ r = RowOf(Statements(t.kind)[i], t.attempt)
  BY DEF Owned
<1> DEFINE q == lock'[r]
<1> USE DEF tables, locks
<1>1. q \in Processes
  BY TypeStep DEF TypeOK
<1>2. \/ lock[r] = q /\ tx'[q] # None
      \/ Locks(q) /\ r = Row(q)
  <2>1. ASSUME lock'[r] = lock[r], tx' = tx PROVE lock[r] = q /\ tx'[q] # None
    BY <2>1 DEF Owned
  <2>2. CASE Rests
    BY <2>1, <2>2 DEF Rests
  <2>3. ASSUME NEW a \in Attempts, Reserves(a) \/ Moves(a) PROVE lock[r] = q /\ tx'[q] # None
    BY <2>1, <2>3 DEF Reserves, Moves
  <2>4. ASSUME NEW p \in Processes, Begins(p) PROVE lock[r] = q /\ tx'[q] # None
    <3>1. lock[r] = q /\ tx[q] # None
      BY <2>4 DEF Begins, Owned
    <3>2. q # p
      BY <2>4, <3>1 DEF Begins
    <3>3. tx'[q] = tx[q]
      BY <1>1, <2>4, <3>2 DEF Begins, TypeOK
    <3>4. QED
      BY <3>1, <3>3
  <2>5. ASSUME NEW p \in Processes, Advance(p) \/ Finds(p), tx[p] # None, tx[q] # None
        PROVE  tx'[q] # None
    <3>1. CASE q # p
      BY <1>1, <2>5, <3>1 DEF Advance, Finds, TypeOK
    <3>2. CASE q = p
      <4>1. tx[p] \in Transactions /\ tx[p].at + 1 \in Nat
        BY <2>5, InTransaction
      <4>2. /\ [tx[p] EXCEPT !.at = @ + 1, !.found = FALSE] \in Transactions
            /\ [tx[p] EXCEPT !.found = TRUE] \in Transactions
        BY <4>1 DEF Transactions
      <4>3. QED
        BY <1>1, <2>5, <3>2, <4>2, RowLocksAssumption DEF Advance, Finds, TypeOK
    <3>3. QED
      BY <3>1, <3>2
  <2>6. ASSUME NEW p \in Processes, Advances(p) \/ Finds(p) PROVE lock[r] = q /\ tx'[q] # None
    <3>1. lock[r] = q /\ tx[q] # None /\ tx[p] # None
      BY <2>6 DEF Advances, Finds, Owned
    <3>2. QED
      BY <2>5, <2>6, <3>1 DEF Advances
  <2>7. ASSUME NEW p \in Processes, Locks(p)
        PROVE  \/ lock[r] = q /\ tx'[q] # None
               \/ Locks(q) /\ r = Row(q)
    <3>1. CASE r = Row(p)
      <4>1. q = p
        BY <2>7, <3>1 DEF Locks, TypeOK
      <4>2. QED
        BY <2>7, <3>1, <4>1
    <3>2. CASE r # Row(p)
      <4>1. lock[r] = q /\ tx[q] # None /\ tx[p] # None
        BY <2>7, <3>2 DEF Locks, Owned, TypeOK
      <4>2. QED
        BY <2>5, <2>7, <4>1 DEF Locks
    <3>3. QED
      BY <3>1, <3>2
  <2>8. ASSUME NEW p \in Processes, Leave(p) PROVE lock[r] = q /\ tx'[q] # None
    <3>1. lock[r] = q /\ q # p
      BY <2>8 DEF Leave
    <3>2. tx'[q] = tx[q] /\ tx[q] # None
      BY <1>1, <2>8, <3>1 DEF Leave, TypeOK, Owned
    <3>3. QED
      BY <3>1, <3>2
  <2>9. QED
    BY <2>2, <2>3, <2>4, <2>6, <2>7, <2>8 DEF LockStep, Loses, Commits
<1>3. CASE lock[r] = q /\ tx'[q] # None
  <2>1. tx[q] # None
    BY <1>3 DEF Owned
  <2>2. PICK i \in 1 .. tx[q].at - 1 :
               Writes(Statements(tx[q].kind)[i]) /\ r = RowOf(Statements(tx[q].kind)[i], tx[q].attempt)
    BY <1>3 DEF Owned
  <2>3. tx'[q].kind = tx[q].kind /\ tx'[q].attempt = tx[q].attempt
        /\ (tx'[q].at = tx[q].at \/ tx'[q].at = tx[q].at + 1)
    BY <1>1, <1>3, <2>1, Progress
  <2>4. i \in 1 .. tx'[q].at - 1
    BY <1>1, <2>1, <2>3, InTransaction
  <2>5. QED
    BY <1>3, <2>2, <2>3, <2>4
<1>4. CASE Locks(q) /\ r = Row(q)
  <2>1. tx[q] # None /\ tx[q] \in Transactions /\ tx[q].at \in Nat /\ tx[q].at >= 1
        /\ Row(q) = RowOf(Statement(q), tx[q].attempt) /\ Writes(Statement(q))
    BY <1>1, <1>4, InTransaction DEF Locks
  <2> DEFINE t == [tx[q] EXCEPT !.at = @ + 1, !.found = FALSE]
  <2>2. t \in Transactions /\ t.kind = tx[q].kind /\ t.attempt = tx[q].attempt /\ t.at = tx[q].at + 1
    <3>1. tx[q].at + 1 \in Nat
      BY <2>1
    <3>2. QED
      BY <2>1, <3>1 DEF Transactions
  <2>3. tx'[q] = t
    BY <1>1, <1>4 DEF Locks, Advance, TypeOK
  <2> HIDE DEF t
  <2>4. tx[q].at \in 1 .. t.at - 1 /\ t # None
    BY <2>1, <2>2, RowLocksAssumption
  <2>5. Writes(Statements(t.kind)[tx[q].at]) /\ r = RowOf(Statements(t.kind)[tx[q].at], t.attempt)
    BY <1>4, <2>1, <2>2 DEF Statement
  <2>6. QED
    BY <2>3, <2>4, <2>5
<1>5. QED
  BY <1>2, <1>3, <1>4

LEMMA FreshStep == TypeOK /\ Holding /\ Owned /\ Fresh /\ LockStep => Fresh'
<1> SUFFICES ASSUME TypeOK, Holding, Owned, Fresh, LockStep, NEW a \in Attempts, stage'[a] = "new"
             PROVE  value'[Inv(a)] = "none" /\ value'[Res(a)] = "none"
  BY DEF Fresh, Inv, Res
<1> USE DEF tables
<1>1. stage[a] = "new"
  BY DEF LockStep, Rests, Reserves, Moves, Begins, Advances, Finds, Locks, Loses, Commits, Later, TypeOK
<1>2. value[Inv(a)] = "none" /\ value[Res(a)] = "none"
  BY <1>1 DEF Fresh
<1>3. ASSUME NEW b \in Attempts, Reserves(b) PROVE value'[Inv(a)] = "none" /\ value'[Res(a)] = "none"
  <2>1. a # b
    BY <1>3 DEF Reserves, TypeOK
  <2>2. QED
    BY <1>2, <1>3, <2>1 DEF Reserves, TypeOK, Inv, Res, Rows
<1>4. ASSUME NEW b \in Attempts, Moves(b) PROVE value'[Inv(a)] = "none" /\ value'[Res(a)] = "none"
  <2>1. Inv(b) # Inv(a) /\ Inv(b) # Res(a)
    BY <1>2, <1>4 DEF Moves, Inv, Res
  <2>2. PICK to \in Unsettled : value' = [value EXCEPT ![Inv(b)] = to]
    BY <1>4 DEF Moves
  <2>3. QED
    BY <1>2, <2>1, <2>2 DEF TypeOK, Inv, Res, Rows
<1>5. ASSUME NEW p \in Processes, Commits(p) PROVE value'[Inv(a)] = "none" /\ value'[Res(a)] = "none"
  <2>1. p # None
    BY RowLocksAssumption DEF Processes
  <2>2. lock[Inv(a)] # p /\ lock[Res(a)] # p
    BY <1>2, <2>1, LockedRowsExist
  <2>3. Inv(a) \in Rows /\ Res(a) \in Rows
    BY DEF Inv, Res, Rows
  <2>4. QED
    BY <1>2, <1>5, <2>2, <2>3 DEF Commits, Written
<1>6. CASE UNCHANGED value
  BY <1>2, <1>6
<1>7. QED
  BY <1>3, <1>4, <1>5, <1>6
     DEF LockStep, Rests, Begins, Advances, Finds, Locks, Loses

-----------------------------------------------------------------------------
(* What a COMMIT does: both verdicts on one attempt, and its money if it   *)
(* goes back.                                                              *)

Decides(a, verdict, statuses) ==
  /\ value[Res(a)] = "held"
  /\ value'[Res(a)] = verdict /\ value'[Inv(a)] \in statuses
  /\ \A b \in Attempts \ {a} : value'[Res(b)] = value[Res(b)] /\ value'[Inv(b)] = value[Inv(b)]

Spends(a) ==
  /\ Decides(a, "committed", {"committed", "reconciled_committed"})
  /\ UNCHANGED <<cents, calls>>

Returns(a) ==
  /\ Decides(a, "released", {"released", "reconciled_released"})
  /\ cents' = cents + Cost
  /\ calls' = IF calls > 0 THEN calls - 1 ELSE calls

LEMMA CommitSteps ==
  ASSUME TypeOK, Holding, Owned, NEW p \in Processes, Commits(p)
  PROVE  \E a \in Attempts : Spends(a) \/ Returns(a)
<1> DEFINE k == tx[p].kind
           a == tx[p].attempt
           S(i) == Statements(k)[i]
<1>1. k \in Kinds /\ a \in Attempts /\ tx[p] # None /\ tx[p].at = Len(Statements(k)) + 1
      /\ Len(Statements(k)) \in Nat
  BY InTransaction DEF Commits
<1>2. p # None /\ \A b \in Attempts : Res(b) \in Rows /\ Inv(b) \in Rows /\ Res(b) # Inv(b)
  BY RowLocksAssumption DEF Processes, Res, Inv, Rows
<1>3. ASSUME NEW i \in 1 .. Len(Statements(k)), S(i).op = "set"
      PROVE  LET r == RowOf(S(i), a)
             IN  lock[r] = p /\ draft[r] = S(i).to /\ value[r] \in S(i).from
  BY <1>1, <1>3 DEF Holding, Writes
<1>4. ASSUME NEW i \in 1 .. Len(Statements(k)), S(i).op = "credit"
      PROVE  lock[Mandate] = p
  <2>1. S(i).on = "mandate"
    BY <1>1, <1>4, Programs DEF IsStatement
  <2>2. Writes(S(i)) /\ RowOf(S(i), a) = Mandate /\ i \in 1 .. tx[p].at - 1
    BY <1>1, <1>4, <2>1 DEF Writes, RowOf
  <2>3. QED
    BY <1>1, <2>2 DEF Holding
<1>5. ASSUME NEW r \in Rows, lock[r] = p
      PROVE  \E i \in 1 .. Len(Statements(k)) : Writes(S(i)) /\ r = RowOf(S(i), a)
  BY <1>1, <1>2, <1>5 DEF Owned
<1>6. \A b \in Attempts \ {a} : lock[Res(b)] # p /\ lock[Inv(b)] # p
  BY <1>2, <1>5 DEF RowOf, Res, Inv, Mandate
<1>7. /\ \A r \in Rows : value'[r] = IF lock[r] = p THEN draft[r] ELSE value[r]
      /\ cents' = IF lock[Mandate] = p THEN cents + Cost ELSE cents
      /\ calls' = IF lock[Mandate] = p /\ calls > 0 THEN calls - 1 ELSE calls
  BY DEF Commits, Written
<1>8. \A b \in Attempts \ {a} : value'[Res(b)] = value[Res(b)] /\ value'[Inv(b)] = value[Inv(b)]
  BY <1>2, <1>6, <1>7
<1>9. ASSUME lock[Mandate] = p
      PROVE  \E i \in 1 .. Len(Statements(k)) : S(i).op = "credit"
  <2>1. Mandate \in Rows
    BY DEF Rows
  <2>2. PICK i \in 1 .. Len(Statements(k)) : Writes(S(i)) /\ Mandate = RowOf(S(i), a)
    BY <1>5, <1>9, <2>1
  <2>3. IsStatement(S(i))
    BY <1>1, Programs
  <2>4. QED
    BY <2>2, <2>3 DEF IsStatement, RowOf, Mandate, Writes
<1> HIDE DEF k, a
<1>10. CASE k = "finalize"
  <2>1. /\ Len(Statements(k)) = 2
        /\ S(1) = Set("res", {"held"}, "committed", {}) /\ S(2) = Set("inv", {"executing"}, "committed", {})
    BY <1>10 DEF Statements, Finalize
  <2>2. lock[Res(a)] = p /\ draft[Res(a)] = "committed" /\ value[Res(a)] = "held"
    BY <1>3, <2>1 DEF Set, RowOf, Res
  <2>3. lock[Inv(a)] = p /\ draft[Inv(a)] = "committed"
    BY <1>3, <2>1 DEF Set, RowOf, Inv
  <2>4. lock[Mandate] # p
    BY <1>9, <2>1 DEF Set
  <2>5. Spends(a)
    BY <1>1, <1>2, <1>7, <1>8, <2>2, <2>3, <2>4 DEF Spends, Decides
  <2>6. QED
    BY <1>1, <2>5
<1>11. CASE k = "release"
  <2>1. /\ Len(Statements(k)) = 3
        /\ S(1) = Set("res", {"held"}, "released", {}) /\ S(2) = Credit
        /\ S(3) = Set("inv", {"reserved"}, "released", {})
    BY <1>11 DEF Statements, Release
  <2>2. lock[Res(a)] = p /\ draft[Res(a)] = "released" /\ value[Res(a)] = "held"
    BY <1>3, <2>1 DEF Set, RowOf, Res
  <2>3. lock[Inv(a)] = p /\ draft[Inv(a)] = "released"
    BY <1>3, <2>1 DEF Set, RowOf, Inv
  <2>4. lock[Mandate] = p
    BY <1>4, <2>1 DEF Credit
  <2>5. Returns(a)
    BY <1>1, <1>2, <1>7, <1>8, <2>2, <2>3, <2>4 DEF Returns, Decides
  <2>6. QED
    BY <1>1, <2>5
<1>12. CASE k = "commit"
  <2>1. /\ Len(Statements(k)) = 4
        /\ S(1) = Unless("res", "released") /\ S(3) = Unless("res", "released")
        /\ S(2) = Set("inv", ReconcileFrom, "reconciled_committed", {})
        /\ S(4) = Set("res", {"held"}, "committed", {"committed"})
    BY <1>12 DEF Statements, ReconcileCommit
  <2>2. lock[Res(a)] = p /\ draft[Res(a)] = "committed" /\ value[Res(a)] = "held"
    BY <1>3, <2>1 DEF Set, RowOf, Res
  <2>3. lock[Inv(a)] = p /\ draft[Inv(a)] = "reconciled_committed"
    BY <1>3, <2>1 DEF Set, RowOf, Inv
  <2>4. lock[Mandate] # p
    BY <1>9, <2>1 DEF Set, Unless
  <2>5. Spends(a)
    BY <1>1, <1>2, <1>7, <1>8, <2>2, <2>3, <2>4 DEF Spends, Decides
  <2>6. QED
    BY <1>1, <2>5
<1>13. CASE k = "return"
  <2>1. /\ Len(Statements(k)) = 5
        /\ S(2) = Set("inv", ReconcileFrom, "reconciled_released", {})
        /\ S(4) = Set("res", {"held"}, "released", {}) /\ S(5) = Credit
    BY <1>13 DEF Statements, ReconcileRelease
  <2>2. lock[Res(a)] = p /\ draft[Res(a)] = "released" /\ value[Res(a)] = "held"
    BY <1>3, <2>1 DEF Set, RowOf, Res
  <2>3. lock[Inv(a)] = p /\ draft[Inv(a)] = "reconciled_released"
    BY <1>3, <2>1 DEF Set, RowOf, Inv
  <2>4. lock[Mandate] = p
    BY <1>4, <2>1 DEF Credit
  <2>5. Returns(a)
    BY <1>1, <1>2, <1>7, <1>8, <2>2, <2>3, <2>4 DEF Returns, Decides
  <2>6. QED
    BY <1>1, <2>5
<1>14. QED
  BY <1>1, <1>10, <1>11, <1>12, <1>13 DEF Kinds

(* What a step does to the ledger.                                         *)
LedgerStep ==
  \/ \E a \in Attempts : Reserves(a) \/ Moves(a) \/ Spends(a) \/ Returns(a)
  \/ UNCHANGED tables

LEMMA LedgerSteps == TypeOK /\ Holding /\ Owned /\ LockStep => LedgerStep
BY CommitSteps
   DEF LockStep, LedgerStep, Rests, Begins, Advances, Finds, Locks, Loses

LEMMA VerdictsStep == TypeOK /\ VerdictsAgree /\ LedgerStep => VerdictsAgree'
<1> SUFFICES ASSUME TypeOK, VerdictsAgree, LedgerStep, NEW b \in Attempts
             PROVE  /\ value'[Res(b)] = "committed" <=>
                         value'[Inv(b)] \in {"committed", "reconciled_committed"}
                    /\ value'[Res(b)] = "released" <=>
                         value'[Inv(b)] \in {"released", "reconciled_released"}
  BY DEF VerdictsAgree, Res, Inv
<1>1. \A a \in Attempts :
        /\ Res(a) \in Rows /\ Inv(a) \in Rows /\ Res(a) # Inv(b) /\ Inv(a) # Res(b)
        /\ a # b => Res(a) # Res(b) /\ Inv(a) # Inv(b)
  BY DEF Res, Inv, Rows
<1>2. ASSUME NEW a \in Attempts, Reserves(a)
      PROVE  \/ value'[Res(b)] = "held" /\ value'[Inv(b)] = "reserved"
             \/ value'[Res(b)] = value[Res(b)] /\ value'[Inv(b)] = value[Inv(b)]
  <2>1. value' = [value EXCEPT ![Inv(a)] = "reserved", ![Res(a)] = "held"]
    BY <1>2 DEF Reserves
  <2>2. value \in [Rows -> Statuses]
    BY DEF TypeOK
  <2>3. CASE a = b
    BY <1>1, <2>1, <2>2, <2>3
  <2>4. CASE a # b
    BY <1>1, <2>1, <2>2, <2>4
  <2>5. QED
    BY <2>3, <2>4
<1>3. ASSUME NEW a \in Attempts, Moves(a)
      PROVE  /\ value'[Res(b)] = value[Res(b)]
             /\ \/ value'[Inv(b)] = value[Inv(b)]
                \/ value[Inv(b)] \in {"reserved", "executing"} /\ value'[Inv(b)] \in Unsettled
  <2>1. PICK to \in Unsettled : value' = [value EXCEPT ![Inv(a)] = to]
    BY <1>3 DEF Moves
  <2>2. value \in [Rows -> Statuses] /\ value[Inv(a)] \in {"reserved", "executing"}
    BY <1>3 DEF Moves, TypeOK
  <2>3. CASE a = b
    BY <1>1, <2>1, <2>2, <2>3
  <2>4. CASE a # b
    BY <1>1, <2>1, <2>2, <2>4
  <2>5. QED
    BY <2>3, <2>4
<1>4. ASSUME NEW a \in Attempts, Spends(a) \/ Returns(a)
      PROVE  \/ value'[Res(b)] = value[Res(b)] /\ value'[Inv(b)] = value[Inv(b)]
             \/ value'[Res(b)] = "committed" /\ value'[Inv(b)] \in {"committed", "reconciled_committed"}
             \/ value'[Res(b)] = "released" /\ value'[Inv(b)] \in {"released", "reconciled_released"}
  BY <1>4 DEF Spends, Returns, Decides
<1>5. QED
  BY <1>2, <1>3, <1>4 DEF LedgerStep, VerdictsAgree, Unsettled, tables

-----------------------------------------------------------------------------
(* calls_used counts the attempts that hold money or have spent it.        *)

Paid == {a \in Attempts : value[Res(a)] \in {"held", "committed"}}

Counted == calls = Cardinality(Paid)

LEMMA PaidSteps ==
  ASSUME TypeOK, Fresh, NEW a \in Attempts
  PROVE  /\ Reserves(a) => Paid' = Paid \cup {a} /\ a \notin Paid /\ value[Res(a)] = "none"
         /\ Moves(a) \/ Spends(a) => Paid' = Paid
         /\ Returns(a) => Paid' = Paid \ {a} /\ a \in Paid
<1>1. \A b \in Attempts :
        /\ Res(b) \in Rows /\ Inv(a) \in Rows /\ Inv(a) # Res(b)
        /\ a # b => Res(a) # Res(b)
  BY DEF Res, Inv, Rows
<1>2. value \in [Rows -> Statuses]
  BY DEF TypeOK
<1>3. ASSUME Reserves(a) PROVE Paid' = Paid \cup {a} /\ a \notin Paid /\ value[Res(a)] = "none"
  <2>1. value' = [value EXCEPT ![Inv(a)] = "reserved", ![Res(a)] = "held"] /\ value[Res(a)] = "none"
    BY <1>3 DEF Reserves, Fresh
  <2>2. value'[Res(a)] = "held"
    BY <1>1, <1>2, <2>1
  <2>3. \A b \in Attempts \ {a} : value'[Res(b)] = value[Res(b)]
    BY <1>1, <1>2, <2>1
  <2>4. QED
    BY <2>1, <2>2, <2>3 DEF Paid, Res
<1>4. ASSUME Moves(a) PROVE Paid' = Paid
  <2>1. PICK to \in Unsettled : value' = [value EXCEPT ![Inv(a)] = to]
    BY <1>4 DEF Moves
  <2>2. \A b \in Attempts : value'[Res(b)] = value[Res(b)]
    BY <1>1, <1>2, <2>1
  <2>3. QED
    BY <2>2 DEF Paid, Res
<1>5. ASSUME Spends(a) PROVE Paid' = Paid
  BY <1>5 DEF Spends, Decides, Paid, Res
<1>6. ASSUME Returns(a) PROVE Paid' = Paid \ {a} /\ a \in Paid
  BY <1>6 DEF Returns, Decides, Paid, Res
<1>7. QED
  BY <1>3, <1>4, <1>5, <1>6

LEMMA PaidCounts ==
  ASSUME TypeOK, Counted
  PROVE  IsFiniteSet(Paid) /\ \A a \in Paid : calls > 0
<1>1. IsFiniteSet(Paid)
  BY RowLocksAssumption, FS_Subset DEF Paid
<1>2. QED
  BY <1>1, FS_EmptySet, FS_CardinalityType DEF Counted, TypeOK

LEMMA CountedStep == TypeOK /\ Fresh /\ Counted /\ LedgerStep => Counted'
<1> SUFFICES ASSUME TypeOK, Fresh, Counted, LedgerStep PROVE Counted'
  OBVIOUS
<1>1. IsFiniteSet(Paid) /\ (\A a \in Paid : calls > 0) /\ calls \in Nat
  BY PaidCounts DEF TypeOK
<1>2. ASSUME NEW a \in Attempts, Reserves(a) PROVE Counted'
  <2>1. Cardinality(Paid') = Cardinality(Paid) + 1
    BY <1>1, <1>2, PaidSteps, FS_AddElement
  <2>2. QED
    BY <1>2, <2>1 DEF Counted, Reserves
<1>3. ASSUME NEW a \in Attempts, Moves(a) \/ Spends(a) PROVE Counted'
  <2>1. Paid' = Paid /\ calls' = calls
    BY <1>3, PaidSteps DEF Moves, Spends
  <2>2. QED
    BY <2>1 DEF Counted
<1>4. ASSUME NEW a \in Attempts, Returns(a) PROVE Counted'
  <2>1. Paid' = Paid \ {a} /\ a \in Paid
    BY <1>4, PaidSteps
  <2>2. Cardinality(Paid') = Cardinality(Paid) - 1
    BY <1>1, <2>1, FS_RemoveElement
  <2>3. calls' = calls - 1
    BY <1>1, <1>4, <2>1 DEF Returns
  <2>4. QED
    BY <2>2, <2>3 DEF Counted
<1>5. CASE UNCHANGED tables
  BY <1>5 DEF Counted, Paid, Res, tables
<1>6. QED
  BY <1>2, <1>3, <1>4, <1>5 DEF LedgerStep

(* Every step is a step of the spend authority, or none.                   *)
LEMMA AuthorityStep ==
  TypeOK /\ Fresh /\ Counted /\ LedgerStep => [Authority!Next]_(Authority!vars)
<1> SUFFICES ASSUME TypeOK, Fresh, Counted, LedgerStep
             PROVE  [Authority!Next]_(Authority!vars)
  OBVIOUS
<1>1. \A b \in Attempts : Res(b) \in Rows /\ (\A a \in Attempts : a # b => Res(a) # Res(b) /\ Inv(a) # Res(b))
  BY DEF Res, Inv, Rows
<1>2. value \in [Rows -> Statuses] /\ cents \in Nat
  BY DEF TypeOK
<1> DEFINE standing == [a \in Attempts |-> value[Res(a)]]
<1>3. ASSUME NEW a \in Attempts, Reserves(a) PROVE Authority!Hold(a)
  <2>1. value' = [value EXCEPT ![Inv(a)] = "reserved", ![Res(a)] = "held"] /\ value[Res(a)] = "none"
    BY <1>3, PaidSteps DEF Reserves
  <2>2. \A b \in Attempts : value'[Res(b)] = IF b = a THEN "held" ELSE value[Res(b)]
    <3>1. Inv(a) # Res(a) /\ Inv(a) \in Rows
      BY DEF Res, Inv, Rows
    <3>2. QED
      BY <1>1, <1>2, <2>1, <3>1
  <2>3. [b \in Attempts |-> value'[Res(b)]] = [standing EXCEPT ![a] = "held"]
    BY <2>2
  <2>4. Cost <= cents /\ cents' = cents - Cost /\ calls' = calls + 1
    BY <1>2, <1>3, RowLocksAssumption DEF Reserves
  <2>5. QED
    BY <2>1, <2>3, <2>4 DEF Authority!Hold, Authority!Alone, Res
<1>4. ASSUME NEW a \in Attempts, Spends(a) PROVE Authority!Spend(a)
  <2>1. [b \in Attempts |-> value'[Res(b)]] = [standing EXCEPT ![a] = "committed"]
    BY <1>4 DEF Spends, Decides
  <2>2. QED
    BY <1>4, <2>1 DEF Authority!Spend, Spends, Decides, Res
<1>5. ASSUME NEW a \in Attempts, Returns(a) PROVE Authority!GiveBack(a)
  <2>1. [b \in Attempts |-> value'[Res(b)]] = [standing EXCEPT ![a] = "released"]
    BY <1>5 DEF Returns, Decides
  <2>2. calls' = calls - 1 /\ cents' = cents + Cost
    BY <1>5, PaidSteps, PaidCounts DEF Returns
  <2>3. QED
    BY <1>5, <2>1, <2>2 DEF Authority!GiveBack, Returns, Decides, Res
<1>6. ASSUME NEW a \in Attempts, Moves(a) PROVE UNCHANGED Authority!vars
  <2>1. PICK to \in Unsettled : value' = [value EXCEPT ![Inv(a)] = to]
    BY <1>6 DEF Moves
  <2>2. \A b \in Attempts : Inv(a) # Res(b)
    BY DEF Res, Inv
  <2>3. \A b \in Attempts : value'[Res(b)] = value[Res(b)]
    BY <1>1, <1>2, <2>1, <2>2
  <2>4. QED
    BY <1>6, <2>3 DEF Moves, Authority!vars, Res
<1>7. CASE UNCHANGED tables
  BY <1>7 DEF tables, Authority!vars, Res
<1>8. QED
  BY <1>3, <1>4, <1>5, <1>6, <1>7 DEF LedgerStep, Authority!Next

-----------------------------------------------------------------------------
IInv == TypeOK /\ Holding /\ Owned /\ Fresh /\ VerdictsAgree /\ Counted

LEMMA InitInv == Init => IInv
<1> SUFFICES ASSUME Init PROVE IInv
  OBVIOUS
<1> USE RowLocksAssumption
<1>1. \A a \in Attempts : Res(a) \in Rows /\ Inv(a) \in Rows
  BY DEF Res, Inv, Rows
<1>2. TypeOK
  BY DEF Init, TypeOK, Statuses
<1>3. Holding /\ Owned
  BY DEF Init, Holding, Owned
<1>4. Fresh /\ VerdictsAgree
  BY <1>1 DEF Init, Fresh, VerdictsAgree
<1>5. Paid = {} /\ calls = 0
  BY <1>1 DEF Init, Paid
<1>6. Counted
  BY <1>5, FS_EmptySet DEF Counted
<1>7. QED
  BY <1>2, <1>3, <1>4, <1>6 DEF IInv

LEMMA InvStep == IInv /\ [Next]_vars => IInv' /\ LedgerStep
<1> SUFFICES ASSUME IInv, [Next]_vars PROVE IInv' /\ LedgerStep
  OBVIOUS
<1>1. LockStep /\ LedgerStep
  BY LockSteps, LedgerSteps DEF IInv
<1>2. TypeOK' /\ Holding' /\ Owned' /\ Fresh' /\ VerdictsAgree' /\ Counted'
  BY <1>1, TypeStep, HoldingStep, OwnedStep, FreshStep, VerdictsStep, CountedStep DEF IInv
<1>3. QED
  BY <1>1, <1>2 DEF IInv

LEMMA Invariant == Spec => []IInv
BY InitInv, InvStep, PTL DEF Spec

(* Rows have statuses, and a transaction is at one of its statements.      *)
THEOREM TypeCorrect == Spec => []TypeOK
<1>1. IInv => TypeOK
  BY DEF IInv
<1>2. QED
  BY <1>1, Invariant, PTL

(* finalize_success writes the reservation first and reconcile_* the       *)
(* invocation first; whatever the database interleaves, aborts or rolls    *)
(* back, what is committed of the two never contradicts each other.        *)
THEOREM VerdictsHold == Spec => []VerdictsAgree
<1>1. IInv => VerdictsAgree
  BY DEF IInv
<1>2. QED
  BY <1>1, Invariant, PTL

(* Ledger takes the settling of an attempt for one step.  It is: statement *)
(* by statement the tables only ever hold, spend and give back, once per   *)
(* attempt, and the cents and the call go back with the same COMMIT.       *)
THEOREM TransactionsAreAtomic == Spec => CommitsAreAtomic
<1>1. Init => Authority!Init
  <2> SUFFICES ASSUME Init PROVE Authority!Init
    OBVIOUS
  <2>1. \A a \in Attempts : value[Res(a)] = "none"
    BY DEF Init, Res, Rows
  <2>2. QED
    BY <2>1, RowLocksAssumption DEF Init, Authority!Init, Authority!Orders
<1>2. IInv /\ [Next]_vars => [Authority!Next]_(Authority!vars)
  BY InvStep, AuthorityStep DEF IInv
<1>3. QED
  BY <1>1, <1>2, Invariant, PTL DEF Spec, CommitsAreAtomic, Authority!Spec

-----------------------------------------------------------------------------
(* Deadlocks.  Which statement of which program locks which table.         *)

Turns ==
  {<<"finalize", "res", 1>>, <<"finalize", "inv", 2>>,
   <<"release", "res", 1>>, <<"release", "mandate", 2>>, <<"release", "inv", 3>>,
   <<"commit", "inv", 2>>, <<"commit", "res", 4>>,
   <<"return", "inv", 2>>, <<"return", "res", 4>>, <<"return", "mandate", 5>>}

LEMMA TurnsOf ==
  ASSUME NEW k \in Kinds, NEW i \in Nat, NEW table
  PROVE  <<k, table, i>> \in Turns
           <=> /\ i \in 1 .. Len(Statements(k))
               /\ Writes(Statements(k)[i]) /\ Statements(k)[i].on = table
<1>1. CASE k = "finalize"
  BY <1>1 DEF Turns, Statements, Finalize, Set, Writes
<1>2. CASE k = "release"
  BY <1>2 DEF Turns, Statements, Release, Set, Credit, Writes
<1>3. CASE k = "commit"
  BY <1>3 DEF Turns, Statements, ReconcileCommit, Set, Unless, Writes
<1>4. CASE k = "return"
  BY <1>4 DEF Turns, Statements, ReconcileRelease, Set, Unless, Credit, Writes
<1>5. QED
  BY <1>1, <1>2, <1>3, <1>4 DEF Kinds

(* A waiting transaction is at the turn of the row it waits for.           *)
LEMMA WaitsAtATurn ==
  ASSUME TypeOK, NEW p \in Waiting
  PROVE  /\ p \in Processes /\ tx[p] # None
         /\ tx[p].kind \in Kinds /\ tx[p].attempt \in Attempts /\ tx[p].at \in Nat
         /\ lock[Row(p)] \notin {None, p} /\ WaitsFor(p) = {lock[Row(p)]}
         /\ \/ <<tx[p].kind, "mandate", tx[p].at>> \in Turns /\ Row(p) = Mandate
            \/ <<tx[p].kind, "inv", tx[p].at>> \in Turns /\ Row(p) = Inv(tx[p].attempt)
            \/ <<tx[p].kind, "res", tx[p].at>> \in Turns /\ Row(p) = Res(tx[p].attempt)
<1>1. /\ p \in Processes /\ lock[Row(p)] \notin {None, p} /\ WaitsFor(p) = {lock[Row(p)]}
      /\ At(p, "credit") \/ At(p, "set")
  BY DEF Waiting, WaitsFor
<1>2. tx[p] # None /\ ~Ended(p) /\ Writes(Statement(p))
  BY <1>1 DEF At, Writes
<1>3. /\ tx[p].kind \in Kinds /\ tx[p].attempt \in Attempts /\ tx[p].at \in Nat
      /\ tx[p].at \in 1 .. Len(Statements(tx[p].kind)) /\ IsStatement(Statement(p))
      /\ Row(p) = RowOf(Statement(p), tx[p].attempt)
  BY <1>1, <1>2, InTransaction
<1>4. <<tx[p].kind, Statement(p).on, tx[p].at>> \in Turns
  BY <1>2, <1>3, TurnsOf DEF Statement
<1>5. Statement(p).on \in {"mandate", "inv", "res"}
  BY <1>3 DEF IsStatement
<1>6. QED
  BY <1>1, <1>2, <1>3, <1>4, <1>5 DEF RowOf, Inv, Res

(* What a transaction holds: the rows of its earlier turns.                *)
LEMMA HoldsWhatItPassed ==
  ASSUME TypeOK, Holding, NEW p \in Processes, tx[p] # None,
         NEW table \in {"inv", "res"}, NEW i \in Nat, i < tx[p].at,
         <<tx[p].kind, table, i>> \in Turns
  PROVE  lock[<<table, tx[p].attempt>>] = p
<1>1. tx[p].kind \in Kinds /\ tx[p].at \in Nat
  BY InTransaction
<1>2. /\ i \in 1 .. tx[p].at - 1
      /\ Writes(Statements(tx[p].kind)[i]) /\ Statements(tx[p].kind)[i].on = table
  BY <1>1, TurnsOf
<1>3. lock[RowOf(Statements(tx[p].kind)[i], tx[p].attempt)] = p
  BY <1>2 DEF Holding
<1>4. QED
  BY <1>2, <1>3 DEF RowOf

LEMMA HoldersPassed ==
  ASSUME TypeOK, Owned, NEW r \in Rows, NEW p \in Processes, lock[r] = p
  PROVE  \E i \in Nat :
           /\ i < tx[p].at
           /\ \/ r = Mandate /\ <<tx[p].kind, "mandate", i>> \in Turns
              \/ r = Inv(tx[p].attempt) /\ <<tx[p].kind, "inv", i>> \in Turns
              \/ r = Res(tx[p].attempt) /\ <<tx[p].kind, "res", i>> \in Turns
<1>1. p # None
  BY RowLocksAssumption DEF Processes
<1>2. /\ tx[p] # None
      /\ \E i \in 1 .. tx[p].at - 1 :
           /\ Writes(Statements(tx[p].kind)[i])
           /\ r = RowOf(Statements(tx[p].kind)[i], tx[p].attempt)
  BY <1>1 DEF Owned
<1>3. PICK i \in 1 .. tx[p].at - 1 :
           /\ Writes(Statements(tx[p].kind)[i])
           /\ r = RowOf(Statements(tx[p].kind)[i], tx[p].attempt)
  BY <1>2
<1>4. /\ tx[p].kind \in Kinds /\ tx[p].at \in Nat
      /\ i \in 1 .. Len(Statements(tx[p].kind)) /\ IsStatement(Statements(tx[p].kind)[i])
  BY <1>2, <1>3, InTransaction
<1>5. i \in Nat /\ i < tx[p].at /\ <<tx[p].kind, Statements(tx[p].kind)[i].on, i>> \in Turns
  BY <1>3, <1>4, TurnsOf
<1>6. Statements(tx[p].kind)[i].on \in {"mandate", "inv", "res"}
  BY <1>4 DEF IsStatement
<1>7. QED
  BY <1>3, <1>5, <1>6 DEF RowOf, Inv, Res

Couple(p, q) ==
  /\ tx[p].kind \in {"finalize", "release"} /\ tx[q].kind \in {"commit", "return"}
  /\ tx[p].attempt = tx[q].attempt
  /\ WaitsFor(p) = {q} /\ WaitsFor(q) = {p}

(* Follow any of the waiting transactions: at a mandate, to the release    *)
(* that refunds; at a reservation, to whoever settles it.  In one or two   *)
(* steps that is a worker or a recovery which holds the reservation and    *)
(* waits for the invocation, and who holds that waits for the reservation. *)
LEMMA CirclesAreCouples ==
  ASSUME TypeOK, Holding, Owned,
         NEW S \in SUBSET Waiting, S # {}, Deadlocked(S)
  PROVE  \E p, q \in S : Couple(p, q)
<1>1. ASSUME NEW p \in S
      PROVE  lock[Row(p)] \in S /\ lock[Row(p)] # p /\ WaitsFor(p) = {lock[Row(p)]}
  BY WaitsAtATurn DEF Deadlocked
<1>2. \A p \in S : /\ p \in Processes /\ tx[p] # None
                   /\ tx[p].kind \in Kinds /\ tx[p].attempt \in Attempts /\ tx[p].at \in Nat
  BY WaitsAtATurn
<1>3. \A a \in Attempts : Inv(a) \in Rows /\ Res(a) \in Rows /\ Mandate \in Rows
                        /\ Inv(a) # Mandate /\ Res(a) # Mandate
                        /\ \A b \in Attempts : Inv(a) # Res(b) /\ (Inv(a) = Inv(b) => a = b) /\ (Res(a) = Res(b) => a = b)
  BY DEF Inv, Res, Mandate, Rows
<1>4. ASSUME NEW p \in S
      PROVE  \/ <<tx[p].kind, tx[p].at>> \in {<<"release", 2>>, <<"return", 5>>} /\ Row(p) = Mandate
             \/ /\ <<tx[p].kind, tx[p].at>> \in {<<"finalize", 2>>, <<"release", 3>>, <<"commit", 2>>, <<"return", 2>>}
                /\ Row(p) = Inv(tx[p].attempt)
             \/ /\ <<tx[p].kind, tx[p].at>> \in {<<"finalize", 1>>, <<"release", 1>>, <<"commit", 4>>, <<"return", 4>>}
                /\ Row(p) = Res(tx[p].attempt)
  BY WaitsAtATurn DEF Turns
<1>5. ASSUME NEW h \in S, lock[Mandate] = h
      PROVE  <<tx[h].kind, tx[h].at>> = <<"release", 3>>
  <2>1. PICK i \in Nat : i < tx[h].at /\ <<tx[h].kind, "mandate", i>> \in Turns
    BY <1>2, <1>3, <1>5, HoldersPassed
  <2>2. (tx[h].kind = "release" /\ i = 2) \/ (tx[h].kind = "return" /\ i = 5)
    BY <2>1 DEF Turns
  <2>3. QED
    BY <1>2, <1>4, <2>1, <2>2
<1>6. ASSUME NEW a \in Attempts, NEW h \in S, lock[Inv(a)] = h
      PROVE  tx[h].attempt = a /\ <<tx[h].kind, tx[h].at>> \in {<<"commit", 4>>, <<"return", 4>>, <<"return", 5>>}
  <2>0. Inv(a) \in Rows /\ Inv(a) # Mandate /\ Inv(a) # Res(tx[h].attempt) /\ h \in Processes
    BY <1>2, <1>3
  <2>1. PICK i \in Nat : /\ i < tx[h].at /\ <<tx[h].kind, "inv", i>> \in Turns
                         /\ Inv(a) = Inv(tx[h].attempt)
    BY <1>6, <2>0, HoldersPassed
  <2>2. <<tx[h].kind, i>> \in {<<"finalize", 2>>, <<"release", 3>>, <<"commit", 2>>, <<"return", 2>>}
    BY <2>1 DEF Turns
  <2>3. QED
    BY <1>2, <1>3, <1>4, <2>1, <2>2
<1>7. ASSUME NEW a \in Attempts, NEW h \in S, lock[Res(a)] = h
      PROVE  /\ tx[h].attempt = a
             /\ <<tx[h].kind, tx[h].at>> \in {<<"finalize", 2>>, <<"release", 2>>, <<"release", 3>>, <<"return", 5>>}
  <2>1. PICK i \in Nat : /\ i < tx[h].at /\ <<tx[h].kind, "res", i>> \in Turns
                         /\ Res(a) = Res(tx[h].attempt)
    BY <1>2, <1>3, <1>7, HoldersPassed
  <2>2. <<tx[h].kind, i>> \in {<<"finalize", 1>>, <<"release", 1>>, <<"commit", 4>>, <<"return", 4>>}
    BY <2>1 DEF Turns
  <2>3. QED
    BY <1>2, <1>3, <1>4, <2>1, <2>2
<1>8. ASSUME NEW p \in S, <<tx[p].kind, tx[p].at>> \in {<<"finalize", 2>>, <<"release", 3>>}
      PROVE  \E r, q \in S : Couple(r, q)
  <2> DEFINE a == tx[p].attempt
             q == lock[Row(p)]
  <2>1. Row(p) = Inv(a) /\ a \in Attempts
    BY <1>2, <1>4, <1>8
  <2>2. q \in S /\ q # p /\ WaitsFor(p) = {q} /\ lock[Inv(a)] = q
    BY <1>1, <2>1
  <2>3. lock[Res(a)] = p
    <3>1. <<tx[p].kind, "res", 1>> \in Turns /\ 1 < tx[p].at
      BY <1>8 DEF Turns
    <3>2. QED
      BY <1>2, <3>1, HoldsWhatItPassed DEF Res
  <2>4. tx[q].attempt = a /\ <<tx[q].kind, tx[q].at>> \in {<<"commit", 4>>, <<"return", 4>>, <<"return", 5>>}
    BY <1>6, <2>1, <2>2
  <2>5. <<tx[q].kind, tx[q].at>> # <<"return", 5>>
    <3> SUFFICES ASSUME tx[q].kind = "return", tx[q].at = 5 PROVE FALSE
      BY <2>4
    <3>1. <<tx[q].kind, "res", 4>> \in Turns /\ 4 < tx[q].at
      BY DEF Turns
    <3>2. lock[Res(a)] = q
      BY <1>2, <2>2, <2>4, <3>1, HoldsWhatItPassed DEF Res
    <3>3. QED
      BY <2>2, <2>3, <3>2
  <2>6. Row(q) = Res(a)
    BY <1>4, <2>2, <2>4, <2>5
  <2>7. WaitsFor(q) = {p}
    BY <1>1, <2>2, <2>3, <2>6
  <2>8. Couple(p, q)
    BY <1>8, <2>2, <2>4, <2>5, <2>7 DEF Couple
  <2>9. QED
    BY <2>2, <2>8
<1>9. ASSUME NEW p \in S, Row(p) = Mandate
      PROVE  \E r, q \in S : Couple(r, q)
  BY <1>1, <1>5, <1>8, <1>9
<1>10. ASSUME NEW p \in S, Row(p) = Res(tx[p].attempt)
       PROVE  \E r, q \in S : Couple(r, q)
  <2>1. PICK h \in S : /\ lock[Res(tx[p].attempt)] = h
                       /\ <<tx[h].kind, tx[h].at>> \in {<<"finalize", 2>>, <<"release", 2>>, <<"release", 3>>, <<"return", 5>>}
    BY <1>1, <1>2, <1>7, <1>10
  <2>2. CASE <<tx[h].kind, tx[h].at>> \in {<<"finalize", 2>>, <<"release", 3>>}
    BY <1>8, <2>2
  <2>3. CASE <<tx[h].kind, tx[h].at>> \in {<<"release", 2>>, <<"return", 5>>}
    <3>1. Row(h) = Mandate
      BY <1>4, <2>3
    <3>2. QED
      BY <1>9, <3>1
  <2>4. QED
    BY <2>1, <2>2, <2>3
<1>11. ASSUME NEW p \in S, Row(p) = Inv(tx[p].attempt)
       PROVE  \E r, q \in S : Couple(r, q)
  <2>1. PICK h \in S : /\ lock[Inv(tx[p].attempt)] = h
                       /\ <<tx[h].kind, tx[h].at>> \in {<<"commit", 4>>, <<"return", 4>>, <<"return", 5>>}
    BY <1>1, <1>2, <1>6, <1>11
  <2>2. Row(h) = Mandate \/ Row(h) = Res(tx[h].attempt)
    BY <1>4, <2>1
  <2>3. QED
    BY <1>9, <1>10, <2>2
<1>12. PICK p \in S : TRUE
  OBVIOUS
<1>13. QED
  BY <1>4, <1>9, <1>10, <1>11, <1>12

(* Two transactions that deadlock are a finalisation or a release and a    *)
(* reconciliation of one attempt, each holding the row the other wants; no *)
(* longer circle exists, however many attempts share the mandate and       *)
(* however many operators are at work.                                     *)
THEOREM DeadlocksNeedBothOrders == Spec => []DeadlocksArePairs
<1>1. IInv => DeadlocksArePairs
  <2> SUFFICES ASSUME IInv, NEW S \in SUBSET Waiting, S # {}, Deadlocked(S)
               PROVE  \E p, q \in S : Couple(p, q)
    BY DEF DeadlocksArePairs, Couple
  <2>1. QED
    BY CirclesAreCouples DEF IInv
<1>2. QED
  BY <1>1, Invariant, PTL
=============================================================================
