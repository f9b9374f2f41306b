---------------------------- MODULE LedgerProofs ----------------------------
(***************************************************************************)
(* Proofs, for every number of calls, mandates, keys and prices, of what   *)
(* LedgerProperties states and TLC checks on small instances.              *)
(***************************************************************************)
EXTENDS LedgerProperties, Sums, FiniteSetTheorems, TLAPS

-----------------------------------------------------------------------------
(* Types.                                                                  *)

(* Whatever claim it meets, a request is answered with a known reason and  *)
(* with a result that belongs to a call, or none.                          *)
LEMMA VerdictTypes ==
  ASSUME TypeOK, NEW r \in Requests
  PROVE  /\ ClaimVerdict(r) \in Reasons
         /\ CheckVerdict(r) \in Reasons \cup {"pass"}
         /\ Claimed(r) => Stored(r, ClaimVerdict(r)) \in Calls \cup {None}
         /\ Stored(r, CheckVerdict(r)) \in Calls \cup {None}
<1>1. ClaimVerdict(r) \in Reasons
  BY DEF ClaimVerdict, Reasons
<1>2. CheckVerdict(r) \in Reasons \cup {"pass"}
  BY <1>1 DEF CheckVerdict, LimitVerdict, Reasons
<1>3. CheckVerdict(r) = "replay" => Claimed(r)
  BY DEF CheckVerdict, LimitVerdict
<1>4. Claimed(r) => SlotOf(r) \in Slots
  BY LedgerAssumption DEF Claimed, Keyed, SlotOf, Slots
<1>5. Claimed(r) => claim[SlotOf(r)].result \in Calls \cup {None}
  BY <1>4 DEF TypeOK
<1>6. QED
  BY <1>1, <1>2, <1>3, <1>5 DEF Stored

(* The columns keep their types whatever the interleaving: in particular   *)
(* no debit takes remaining_cents below zero.                              *)
THEOREM TypeCorrect == Spec => []TypeOK
<1> USE LedgerAssumption
<1>1. Init => TypeOK
  BY DEF Init, TypeOK, Row, Reasons, InvocationStatus, EventKinds, Unclaimed, Slots
<1>2. TypeOK /\ [Next]_vars => TypeOK'
  <2> SUFFICES ASSUME TypeOK, [Next]_vars PROVE TypeOK'
    OBVIOUS
  <2>0. \A c \in Calls : req[c] \in Requests
    BY DEF TypeOK
  <2> USE DEF TypeOK, Row, Reasons, InvocationStatus, EventKinds, Unclaimed, Slots,
              Record, Answer, Continue, Won, session, mandates, idem, attempt,
              SlotOf, Fingerprint, Keyed, Amount, Of
  <2>1. ASSUME NEW c \in Calls, CheckRefused(c) PROVE TypeOK'
    BY <2>1 DEF CheckRefused
  <2>2. ASSUME NEW c \in Calls, CheckAnswers(c) PROVE TypeOK'
    BY <2>2, <2>0, VerdictTypes DEF CheckAnswers
  <2>3. ASSUME NEW c \in Calls, CheckPasses(c) PROVE TypeOK'
    BY <2>3 DEF CheckPasses
  <2>4. ASSUME NEW c \in Calls, ReserveNonceClash(c) PROVE TypeOK'
    BY <2>4 DEF ReserveNonceClash
  <2>5. ASSUME NEW c \in Calls, ReserveClaimLost(c) PROVE TypeOK'
    BY <2>5, <2>0, VerdictTypes DEF ReserveClaimLost, LostVerdicts, Stored, BurnNonce
  <2>6. ASSUME NEW c \in Calls, ReserveDenied(c) PROVE TypeOK'
    BY <2>6 DEF ReserveDenied, BurnNonce, DenyReason
  <2>7. ASSUME NEW c \in Calls, ReserveCommits(c) PROVE TypeOK'
    BY <2>7 DEF ReserveCommits, BurnNonce, CanDebit
  <2>8. ASSUME NEW c \in Calls, MarkExecuting(c) PROVE TypeOK'
    <3>1. CASE invocation[c] = "reserved"
      <4>1. Won(c, "executing") /\ Continue(c, "executing")
        BY <2>8, <3>1 DEF MarkExecuting
      <4>2. UNCHANGED <<req, seen, mandates, idem, reservation, receipts, outbox, events, vendor>>
        BY <2>8 DEF MarkExecuting
      <4>3. QED
        BY <4>1, <4>2
    <3>2. CASE invocation[c] # "reserved"
      <4>1. PICK reason \in Reasons : Answer(c, reason, None) /\ UNCHANGED invocation
        BY <2>8, <3>2 DEF MarkExecuting
      <4>2. UNCHANGED <<req, seen, mandates, idem, reservation, receipts, outbox, events, vendor>>
        BY <2>8 DEF MarkExecuting
      <4>3. QED
        BY <4>1, <4>2
    <3>3. QED
      BY <3>1, <3>2
  <2>9. ASSUME NEW c \in Calls, SendRequest(c) PROVE TypeOK'
    BY <2>9 DEF SendRequest
  <2>10. ASSUME NEW c \in Calls, ProviderReturns(c) PROVE TypeOK'
    BY <2>10 DEF ProviderReturns
  <2>11. ASSUME NEW c \in Calls, ProviderRaises(c) PROVE TypeOK'
    BY <2>11 DEF ProviderRaises
  <2>12. ASSUME NEW c \in Calls, MarkExecutedFail(c) PROVE TypeOK'
    BY <2>12 DEF MarkExecutedFail
  <2>13. ASSUME NEW c \in Calls, FinalizeSuccess(c) PROVE TypeOK'
    BY <2>13 DEF FinalizeSuccess, Bill, Completed
  <2>14. ASSUME NEW c \in Calls, FinalizeLost(c) PROVE TypeOK'
    BY <2>14 DEF FinalizeLost
  <2>15. ASSUME NEW c \in Calls, VendorExecutes(c) PROVE TypeOK'
    BY <2>15 DEF VendorExecutes
  <2>16. ASSUME NEW c \in Calls, VendorLoses(c) PROVE TypeOK'
    BY <2>16 DEF VendorLoses
  <2>17. ASSUME NEW c \in Calls, RecoverAmbiguous(c) PROVE TypeOK'
    BY <2>17 DEF RecoverAmbiguous
  <2>18. ASSUME NEW c \in Calls, RecoverRelease(c) PROVE TypeOK'
    BY <2>18 DEF RecoverRelease, Refund, Cleared
  <2>19. ASSUME NEW c \in Calls, ReconcileCommit(c) PROVE TypeOK'
    BY <2>19 DEF ReconcileCommit, BillOnce, Completed
  <2>20. ASSUME NEW c \in Calls, ReconcileRelease(c) PROVE TypeOK'
    BY <2>20 DEF ReconcileRelease, Refund, Cleared
  <2>21. ASSUME NEW c \in Calls, Crash(c) PROVE TypeOK'
    BY <2>21 DEF Crash
  <2>22. ASSUME NEW m \in Mandates, RevokeMandate(m) PROVE TypeOK'
    BY <2>22 DEF RevokeMandate
  <2>23. ASSUME NEW m \in Mandates, TimePasses(m) PROVE TypeOK'
    BY <2>23 DEF TimePasses
  <2>24. ASSUME NEW p \in Principals, BillingChanges(p) PROVE TypeOK'
    BY <2>24 DEF BillingChanges
  <2>25. CASE UNCHANGED vars
    BY <2>25 DEF vars
  <2> HIDE DEF TypeOK
  <2>26. QED
    BY <2>1, <2>2, <2>3, <2>4, <2>5, <2>6, <2>7, <2>8, <2>9, <2>10, <2>11,
       <2>12, <2>13, <2>14, <2>15, <2>16, <2>17, <2>18, <2>19, <2>20,
       <2>21, <2>22, <2>23, <2>24, <2>25
       DEF Next, Invoke, Vendor, Recover, Reconcile
<1>3. QED BY <1>1, <1>2, PTL DEF Spec

-----------------------------------------------------------------------------
(* The barrier.                                                            *)

(* How far a call has come, against the invocation row it owns and what it *)
(* has sent: the strengthening that makes the barrier inductive.           *)
Phases ==
  \A c \in Calls :
    /\ pc[c] \in {"idle", "checked"} => invocation[c] = "none"
    /\ pc[c] \in {"idle", "checked", "reserved", "executing"} => vendor[c] = "none"
    /\ pc[c] = "returned" => vendor[c] = "executed"
    /\ \/ pc[c] \in {"executing", "calling", "returned", "raised"}
       \/ vendor[c] # "none"
       => invocation[c] \notin {"none", "reserved", "released"}

(* Every step of the code keeps the phase of a call and its rows in step.  *)
LEMMA PhasesStep == TypeOK /\ Phases /\ [Next]_vars => Phases'
<1> SUFFICES ASSUME TypeOK, Phases, [Next]_vars PROVE Phases'
  OBVIOUS
<1> USE DEF TypeOK, Phases, InvocationStatus, Answer, Continue, Won,
           session, mandates, idem, attempt
<1>1. ASSUME NEW c \in Calls, CheckRefused(c) PROVE Phases'
  BY <1>1 DEF CheckRefused
<1>2. ASSUME NEW c \in Calls, CheckAnswers(c) PROVE Phases'
  BY <1>2 DEF CheckAnswers
<1>3. ASSUME NEW c \in Calls, CheckPasses(c) PROVE Phases'
  BY <1>3 DEF CheckPasses
<1>4. ASSUME NEW c \in Calls, ReserveNonceClash(c) PROVE Phases'
  BY <1>4 DEF ReserveNonceClash
<1>5. ASSUME NEW c \in Calls, ReserveClaimLost(c) PROVE Phases'
  BY <1>5 DEF ReserveClaimLost
<1>6. ASSUME NEW c \in Calls, ReserveDenied(c) PROVE Phases'
  BY <1>6 DEF ReserveDenied
<1>7. ASSUME NEW c \in Calls, ReserveCommits(c) PROVE Phases'
  BY <1>7 DEF ReserveCommits
<1>8. ASSUME NEW c \in Calls, MarkExecuting(c) PROVE Phases'
  BY <1>8 DEF MarkExecuting
<1>9. ASSUME NEW c \in Calls, SendRequest(c) PROVE Phases'
  BY <1>9 DEF SendRequest
<1>10. ASSUME NEW c \in Calls, ProviderReturns(c) PROVE Phases'
  BY <1>10 DEF ProviderReturns
<1>11. ASSUME NEW c \in Calls, ProviderRaises(c) PROVE Phases'
  BY <1>11 DEF ProviderRaises
<1>12. ASSUME NEW c \in Calls, MarkExecutedFail(c) PROVE Phases'
  BY <1>12 DEF MarkExecutedFail
<1>13. ASSUME NEW c \in Calls, FinalizeSuccess(c) PROVE Phases'
  BY <1>13 DEF FinalizeSuccess
<1>14. ASSUME NEW c \in Calls, FinalizeLost(c) PROVE Phases'
  BY <1>14 DEF FinalizeLost
<1>15. ASSUME NEW c \in Calls, VendorExecutes(c) PROVE Phases'
  BY <1>15 DEF VendorExecutes
<1>16. ASSUME NEW c \in Calls, VendorLoses(c) PROVE Phases'
  BY <1>16 DEF VendorLoses
<1>17. ASSUME NEW c \in Calls, RecoverAmbiguous(c) PROVE Phases'
  BY <1>17 DEF RecoverAmbiguous
<1>18. ASSUME NEW c \in Calls, RecoverRelease(c) PROVE Phases'
  BY <1>18 DEF RecoverRelease, CanRelease
<1>19. ASSUME NEW c \in Calls, ReconcileCommit(c) PROVE Phases'
  BY <1>19 DEF ReconcileCommit, CanReconcileCommit, ReconcileFrom
<1>20. ASSUME NEW c \in Calls, ReconcileRelease(c) PROVE Phases'
  BY <1>20 DEF ReconcileRelease, CanReconcileRelease, ReconcileFrom
<1>21. ASSUME NEW c \in Calls, Crash(c) PROVE Phases'
  BY <1>21 DEF Crash
<1>22. ASSUME NEW m \in Mandates, RevokeMandate(m) PROVE Phases'
  BY <1>22 DEF RevokeMandate
<1>23. ASSUME NEW m \in Mandates, TimePasses(m) PROVE Phases'
  BY <1>23 DEF TimePasses
<1>24. ASSUME NEW p \in Principals, BillingChanges(p) PROVE Phases'
  BY <1>24 DEF BillingChanges
<1>25. CASE UNCHANGED vars
  BY <1>25 DEF vars
<1>26. QED
  BY <1>1, <1>2, <1>3, <1>4, <1>5, <1>6, <1>7, <1>8, <1>9, <1>10, <1>11,
     <1>12, <1>13, <1>14, <1>15, <1>16, <1>17, <1>18, <1>19, <1>20,
     <1>21, <1>22, <1>23, <1>24, <1>25
     DEF Next, Invoke, Vendor, Recover, Reconcile

(* The phase of a call and its rows are in step in every reachable state.   *)
LEMMA PhasesAlways == Spec => []Phases
<1>1. Init => Phases
  BY DEF Init, Phases
<1>2. QED BY <1>1, PhasesStep, TypeCorrect, PTL DEF Spec

(* Nothing is sent before "executing" is durable, and an attempt whose     *)
(* request may have been sent is never found reserved or released by       *)
(* recovery: invoke() against recover_reserved().                          *)
THEOREM BarrierHolds == Spec => []DispatchBehindBarrier
<1>1. Phases => DispatchBehindBarrier
  BY DEF Phases, DispatchBehindBarrier
<1>2. QED BY <1>1, PhasesAlways, PTL

-----------------------------------------------------------------------------
(* The rows of an attempt.                                                 *)

(* Every step of the code moves the rows of an attempt together.           *)
LEMMA RowsStep == TypeOK /\ Phases /\ RowsAgree /\ [Next]_vars => RowsAgree'
<1> SUFFICES ASSUME TypeOK, Phases, RowsAgree, [Next]_vars PROVE RowsAgree'
  OBVIOUS
<1> USE DEF TypeOK, Phases, RowsAgree, InvocationStatus, EventKinds, Record, Won,
           mandates, idem, attempt
<1>1. ASSUME NEW c \in Calls, CheckRefused(c) PROVE RowsAgree'
  BY <1>1 DEF CheckRefused
<1>2. ASSUME NEW c \in Calls, CheckAnswers(c) PROVE RowsAgree'
  BY <1>2 DEF CheckAnswers
<1>3. ASSUME NEW c \in Calls, CheckPasses(c) PROVE RowsAgree'
  BY <1>3 DEF CheckPasses
<1>4. ASSUME NEW c \in Calls, ReserveNonceClash(c) PROVE RowsAgree'
  BY <1>4 DEF ReserveNonceClash
<1>5. ASSUME NEW c \in Calls, ReserveClaimLost(c) PROVE RowsAgree'
  BY <1>5 DEF ReserveClaimLost
<1>6. ASSUME NEW c \in Calls, ReserveDenied(c) PROVE RowsAgree'
  BY <1>6 DEF ReserveDenied
<1>7. ASSUME NEW c \in Calls, ReserveCommits(c) PROVE RowsAgree'
  BY <1>7 DEF ReserveCommits, Continue
<1>8. ASSUME NEW c \in Calls, MarkExecuting(c) PROVE RowsAgree'
  BY <1>8 DEF MarkExecuting, Continue
<1>9. ASSUME NEW c \in Calls, SendRequest(c) PROVE RowsAgree'
  BY <1>9 DEF SendRequest
<1>10. ASSUME NEW c \in Calls, ProviderReturns(c) PROVE RowsAgree'
  BY <1>10 DEF ProviderReturns
<1>11. ASSUME NEW c \in Calls, ProviderRaises(c) PROVE RowsAgree'
  BY <1>11 DEF ProviderRaises
<1>12. ASSUME NEW c \in Calls, MarkExecutedFail(c) PROVE RowsAgree'
  BY <1>12 DEF MarkExecutedFail
<1>13. ASSUME NEW c \in Calls, FinalizeSuccess(c) PROVE RowsAgree'
  BY <1>13 DEF FinalizeSuccess, CanFinalize, Bill
<1>14. ASSUME NEW c \in Calls, FinalizeLost(c) PROVE RowsAgree'
  BY <1>14 DEF FinalizeLost
<1>15. ASSUME NEW c \in Calls, VendorExecutes(c) PROVE RowsAgree'
  BY <1>15 DEF VendorExecutes
<1>16. ASSUME NEW c \in Calls, VendorLoses(c) PROVE RowsAgree'
  BY <1>16 DEF VendorLoses
<1>17. ASSUME NEW c \in Calls, RecoverAmbiguous(c) PROVE RowsAgree'
  BY <1>17 DEF RecoverAmbiguous
<1>18. ASSUME NEW c \in Calls, RecoverRelease(c) PROVE RowsAgree'
  BY <1>18 DEF RecoverRelease, CanRelease, Refund
<1>19. ASSUME NEW c \in Calls, ReconcileCommit(c) PROVE RowsAgree'
  BY <1>19 DEF ReconcileCommit, CanReconcileCommit, ReconcileFrom, BillOnce
<1>20. ASSUME NEW c \in Calls, ReconcileRelease(c) PROVE RowsAgree'
  BY <1>20 DEF ReconcileRelease, CanReconcileRelease, ReconcileFrom, Refund
<1>21. ASSUME NEW c \in Calls, Crash(c) PROVE RowsAgree'
  BY <1>21 DEF Crash
<1>22. ASSUME NEW m \in Mandates, RevokeMandate(m) PROVE RowsAgree'
  BY <1>22 DEF RevokeMandate
<1>23. ASSUME NEW m \in Mandates, TimePasses(m) PROVE RowsAgree'
  BY <1>23 DEF TimePasses
<1>24. ASSUME NEW p \in Principals, BillingChanges(p) PROVE RowsAgree'
  BY <1>24 DEF BillingChanges
<1>25. CASE UNCHANGED vars
  BY <1>25 DEF vars
<1>26. QED
  BY <1>1, <1>2, <1>3, <1>4, <1>5, <1>6, <1>7, <1>8, <1>9, <1>10, <1>11,
     <1>12, <1>13, <1>14, <1>15, <1>16, <1>17, <1>18, <1>19, <1>20,
     <1>21, <1>22, <1>23, <1>24, <1>25
     DEF Next, Invoke, Vendor, Recover, Reconcile

(* However an attempt ends - by finalize_success, recover_reserved or an   *)
(* operator - its invocation, reservation, receipt, outbox row and ledger  *)
(* events tell the same story: charged once or refunded once, never both.  *)
THEOREM RowsAlwaysAgree == Spec => []RowsAgree
<1>1. Init => RowsAgree
  BY DEF Init, RowsAgree, EventKinds
<1>2. QED BY <1>1, RowsStep, PhasesAlways, TypeCorrect, PTL DEF Spec

-----------------------------------------------------------------------------
(* The four things a step can do with money and keys.                      *)

Reserves(c) ==
  /\ reservation[c] = "none"
  /\ ~Claimed(req[c])
  /\ CanDebit(Of(c), Amount(c))
  /\ reservation' = [reservation EXCEPT ![c] = "held"]
  /\ claim' = IF Keyed(req[c])
              THEN [claim EXCEPT ![SlotOf(req[c])] =
                      [status |-> "in_progress", hash |-> Fingerprint(req[c]), result |-> None]]
              ELSE claim
  /\ remaining' = [remaining EXCEPT ![Of(c)] = @ - Amount(c)]
  /\ calls_used' = [calls_used EXCEPT ![Of(c)] = @ + 1]

Spends(c) ==
  /\ reservation[c] = "held"
  /\ reservation' = [reservation EXCEPT ![c] = "committed"]
  /\ claim' = Completed(c, c) \/ claim' = Completed(c, None)
  /\ UNCHANGED <<remaining, calls_used>>

Releases(c) ==
  /\ reservation[c] = "held"
  /\ reservation' = [reservation EXCEPT ![c] = "released"]
  /\ claim' = Cleared(c)
  /\ remaining' = [remaining EXCEPT ![Of(c)] = @ + Amount(c)]
  /\ calls_used' = [calls_used EXCEPT ![Of(c)] = IF @ > 0 THEN @ - 1 ELSE 0]

Keeps == UNCHANGED <<reservation, claim, remaining, calls_used>>

MoneyStep ==
  /\ UNCHANGED req
  /\ Keeps \/ \E c \in Calls : Reserves(c) \/ Spends(c) \/ Releases(c)

(* What a step of the code may do to the money: nothing, or one reserve,   *)
(* one spend or one release, by one attempt.                               *)
LEMMA MoneySteps == TypeOK /\ Phases /\ RowsAgree /\ [Next]_vars => MoneyStep
<1> SUFFICES ASSUME TypeOK, Phases, RowsAgree, [Next]_vars PROVE MoneyStep
  OBVIOUS
<1> USE DEF MoneyStep, Keeps, session, mandates, idem, attempt
<1>1. ASSUME NEW c \in Calls, CheckRefused(c) PROVE MoneyStep
  BY <1>1 DEF CheckRefused
<1>2. ASSUME NEW c \in Calls, CheckAnswers(c) PROVE MoneyStep
  BY <1>2 DEF CheckAnswers
<1>3. ASSUME NEW c \in Calls, CheckPasses(c) PROVE MoneyStep
  BY <1>3 DEF CheckPasses
<1>4. ASSUME NEW c \in Calls, ReserveNonceClash(c) PROVE MoneyStep
  BY <1>4 DEF ReserveNonceClash
<1>5. ASSUME NEW c \in Calls, ReserveClaimLost(c) PROVE MoneyStep
  BY <1>5 DEF ReserveClaimLost
<1>6. ASSUME NEW c \in Calls, ReserveDenied(c) PROVE MoneyStep
  BY <1>6 DEF ReserveDenied
<1>7. ASSUME NEW c \in Calls, ReserveCommits(c) PROVE MoneyStep
  BY <1>7 DEF ReserveCommits, Reserves, Phases, RowsAgree
<1>8. ASSUME NEW c \in Calls, MarkExecuting(c) PROVE MoneyStep
  BY <1>8 DEF MarkExecuting
<1>9. ASSUME NEW c \in Calls, SendRequest(c) PROVE MoneyStep
  BY <1>9 DEF SendRequest
<1>10. ASSUME NEW c \in Calls, ProviderReturns(c) PROVE MoneyStep
  BY <1>10 DEF ProviderReturns
<1>11. ASSUME NEW c \in Calls, ProviderRaises(c) PROVE MoneyStep
  BY <1>11 DEF ProviderRaises
<1>12. ASSUME NEW c \in Calls, MarkExecutedFail(c) PROVE MoneyStep
  BY <1>12 DEF MarkExecutedFail
<1>13. ASSUME NEW c \in Calls, FinalizeSuccess(c) PROVE MoneyStep
  BY <1>13 DEF FinalizeSuccess, CanFinalize, Bill, Spends
<1>14. ASSUME NEW c \in Calls, FinalizeLost(c) PROVE MoneyStep
  BY <1>14 DEF FinalizeLost
<1>15. ASSUME NEW c \in Calls, VendorExecutes(c) PROVE MoneyStep
  BY <1>15 DEF VendorExecutes
<1>16. ASSUME NEW c \in Calls, VendorLoses(c) PROVE MoneyStep
  BY <1>16 DEF VendorLoses
<1>17. ASSUME NEW c \in Calls, RecoverAmbiguous(c) PROVE MoneyStep
  BY <1>17 DEF RecoverAmbiguous
<1>18. ASSUME NEW c \in Calls, RecoverRelease(c) PROVE MoneyStep
  BY <1>18 DEF RecoverRelease, CanRelease, Refund, Releases
<1>19. ASSUME NEW c \in Calls, ReconcileCommit(c) PROVE MoneyStep
  BY <1>19 DEF ReconcileCommit, CanReconcileCommit, ReconcileFrom, BillOnce, Spends, RowsAgree
<1>20. ASSUME NEW c \in Calls, ReconcileRelease(c) PROVE MoneyStep
  BY <1>20 DEF ReconcileRelease, CanReconcileRelease, Refund, Releases
<1>21. ASSUME NEW c \in Calls, Crash(c) PROVE MoneyStep
  BY <1>21 DEF Crash
<1>22. ASSUME NEW m \in Mandates, RevokeMandate(m) PROVE MoneyStep
  BY <1>22 DEF RevokeMandate
<1>23. ASSUME NEW m \in Mandates, TimePasses(m) PROVE MoneyStep
  BY <1>23 DEF TimePasses
<1>24. ASSUME NEW p \in Principals, BillingChanges(p) PROVE MoneyStep
  BY <1>24 DEF BillingChanges
<1>25. CASE UNCHANGED vars
  BY <1>25 DEF vars
<1>26. QED
  BY <1>1, <1>2, <1>3, <1>4, <1>5, <1>6, <1>7, <1>8, <1>9, <1>10, <1>11,
     <1>12, <1>13, <1>14, <1>15, <1>16, <1>17, <1>18, <1>19, <1>20,
     <1>21, <1>22, <1>23, <1>24, <1>25
     DEF Next, Invoke, Vendor, Recover, Reconcile

-----------------------------------------------------------------------------
(* Keys.                                                                   *)

Exclusive == OneChargePerKey /\ ClaimsBacked

(* A request with a key has a slot in idempotency_records.                 *)
LEMMA SlotTypes ==
  ASSUME TypeOK, NEW c \in Calls, Keyed(req[c])
  PROVE  SlotOf(req[c]) \in Slots /\ Fingerprint(req[c]) # None
BY LedgerAssumption DEF TypeOK, Keyed, SlotOf, Slots, Fingerprint

(* What an unclaimed slot says about the attempts made under it.           *)
LEMMA FreeSlot ==
  ASSUME TypeOK, Exclusive, NEW c \in Calls, ~Claimed(req[c]), Keyed(req[c]),
         NEW d \in Calls, SameOperation(c, d)
  PROVE  reservation[d] \notin Open
<1>1. claim[SlotOf(req[d])].status = "absent"
  BY SlotTypes DEF Claimed, SameOperation
<1>2. QED
  BY <1>1 DEF Exclusive, ClaimsBacked, AttemptsClaim, ClaimMatches, SameOperation

(* Reserves, spends and releases keep the claims exclusive and backed.     *)
LEMMA ExclusiveStep == TypeOK /\ Exclusive /\ MoneyStep => Exclusive'
<1> SUFFICES ASSUME TypeOK, Exclusive, MoneyStep PROVE Exclusive'
  OBVIOUS
<1>0. req' = req /\ \A c \in Calls : Keyed(req[c]) => SlotOf(req[c]) \in Slots
  BY SlotTypes DEF MoneyStep
<1>1. CASE Keeps
  BY <1>0, <1>1 DEF Exclusive, OneChargePerKey, ClaimsBacked, AttemptsClaim, ClaimMatches,
                    ClaimsHaveAttempts, SameOperation, Keeps
<1>2. ASSUME NEW c \in Calls, Reserves(c) PROVE Exclusive'
  <2> USE DEF Reserves, SameOperation, TypeOK, Open, Exclusive, ClaimsBacked
  <2>1. OneChargePerKey'
    BY <1>0, <1>2, FreeSlot DEF OneChargePerKey
  <2>2. AttemptsClaim'
    <3> SUFFICES ASSUME NEW d \in Calls, Keyed(req[d]), reservation'[d] \in Open
                 PROVE  ClaimMatches(d)'
      BY <1>0 DEF AttemptsClaim
    <3>1. CASE d = c
      BY <3>1, <1>0, <1>2 DEF AttemptsClaim, ClaimMatches
    <3>2. CASE d # c
      <4>1. reservation[d] \in Open
        BY <3>2, <1>2
      <4>2. Keyed(req[c]) => SlotOf(req[c]) # SlotOf(req[d])
        BY <3>2, <4>1, <1>2, FreeSlot DEF OneChargePerKey
      <4>3. claim'[SlotOf(req[d])] = claim[SlotOf(req[d])]
        BY <4>2, <1>0, <1>2 DEF Keyed
      <4>4. QED
        BY <3>2, <4>1, <4>3, <1>0, <1>2 DEF AttemptsClaim, ClaimMatches
    <3>3. QED
      BY <3>1, <3>2
  <2>3. ClaimsHaveAttempts'
    <3> SUFFICES ASSUME NEW s \in Slots, claim'[s].status # "absent"
                 PROVE  \E d \in Calls : Keyed(req[d]) /\ SlotOf(req[d]) = s /\ reservation'[d] \in Open
      BY <1>0 DEF ClaimsHaveAttempts
    <3>1. CASE Keyed(req[c]) /\ SlotOf(req[c]) = s
      BY <3>1, <1>0, <1>2 DEF Unclaimed
    <3>2. CASE ~(Keyed(req[c]) /\ SlotOf(req[c]) = s)
      <4>1. claim'[s] = claim[s]
        BY <3>2, <1>0, <1>2 DEF Keyed
      <4>2. PICK d \in Calls : Keyed(req[d]) /\ SlotOf(req[d]) = s /\ reservation[d] \in Open
        BY <4>1 DEF ClaimsHaveAttempts
      <4>3. QED
        BY <4>2, <3>2, <1>2
    <3>3. QED
      BY <3>1, <3>2
  <2>4. QED
    BY <2>1, <2>2, <2>3
<1>3. ASSUME NEW c \in Calls, Spends(c) PROVE Exclusive'
  <2> USE DEF Spends, SameOperation, TypeOK, Open, Exclusive, ClaimsBacked
  <2>1. OneChargePerKey'
    BY <1>0, <1>3 DEF OneChargePerKey
  <2>2. AttemptsClaim'
    <3> SUFFICES ASSUME NEW d \in Calls, Keyed(req[d]), reservation'[d] \in Open
                 PROVE  ClaimMatches(d)'
      BY <1>0 DEF AttemptsClaim
    <3>1. CASE d = c
      BY <3>1, <1>0, <1>3 DEF Completed, AttemptsClaim, ClaimMatches
    <3>2. CASE d # c
      <4>1. reservation[d] \in Open
        BY <3>2, <1>3
      <4>2. Keyed(req[c]) => SlotOf(req[c]) # SlotOf(req[d])
        BY <3>2, <4>1, <1>3 DEF OneChargePerKey
      <4>3. claim'[SlotOf(req[d])] = claim[SlotOf(req[d])]
        BY <4>2, <1>0, <1>3 DEF Completed, Keyed
      <4>4. QED
        BY <3>2, <4>1, <4>3, <1>0, <1>3 DEF AttemptsClaim, ClaimMatches
    <3>3. QED
      BY <3>1, <3>2
  <2>3. ClaimsHaveAttempts'
    <3> SUFFICES ASSUME NEW s \in Slots, claim'[s].status # "absent"
                 PROVE  \E d \in Calls : Keyed(req[d]) /\ SlotOf(req[d]) = s /\ reservation'[d] \in Open
      BY <1>0 DEF ClaimsHaveAttempts
    <3>1. CASE Keyed(req[c]) /\ SlotOf(req[c]) = s
      BY <3>1, <1>0, <1>3 DEF Completed, Unclaimed
    <3>2. CASE ~(Keyed(req[c]) /\ SlotOf(req[c]) = s)
      <4>1. claim'[s] = claim[s]
        BY <3>2, <1>0, <1>3 DEF Completed, Keyed
      <4>2. PICK d \in Calls : Keyed(req[d]) /\ SlotOf(req[d]) = s /\ reservation[d] \in Open
        BY <4>1 DEF ClaimsHaveAttempts
      <4>3. QED
        BY <4>2, <3>2, <1>3
    <3>3. QED
      BY <3>1, <3>2
  <2>4. QED
    BY <2>1, <2>2, <2>3
<1>4. ASSUME NEW c \in Calls, Releases(c) PROVE Exclusive'
  <2> USE DEF Releases, SameOperation, TypeOK, Open, Exclusive, ClaimsBacked
  <2>1. OneChargePerKey'
    BY <1>0, <1>4 DEF OneChargePerKey
  <2>2. AttemptsClaim'
    <3> SUFFICES ASSUME NEW d \in Calls, Keyed(req[d]), reservation'[d] \in Open
                 PROVE  ClaimMatches(d)'
      BY <1>0 DEF AttemptsClaim
    <3>1. CASE d = c
      BY <3>1, <1>0, <1>4 DEF Cleared, AttemptsClaim, ClaimMatches
    <3>2. CASE d # c
      <4>1. reservation[d] \in Open
        BY <3>2, <1>4
      <4>2. Keyed(req[c]) => SlotOf(req[c]) # SlotOf(req[d])
        BY <3>2, <4>1, <1>4 DEF OneChargePerKey
      <4>3. claim'[SlotOf(req[d])] = claim[SlotOf(req[d])]
        BY <4>2, <1>0, <1>4 DEF Cleared, Keyed
      <4>4. QED
        BY <3>2, <4>1, <4>3, <1>0, <1>4 DEF AttemptsClaim, ClaimMatches
    <3>3. QED
      BY <3>1, <3>2
  <2>3. ClaimsHaveAttempts'
    <3> SUFFICES ASSUME NEW s \in Slots, claim'[s].status # "absent"
                 PROVE  \E d \in Calls : Keyed(req[d]) /\ SlotOf(req[d]) = s /\ reservation'[d] \in Open
      BY <1>0 DEF ClaimsHaveAttempts
    <3>1. CASE Keyed(req[c]) /\ SlotOf(req[c]) = s
      BY <3>1, <1>0, <1>4 DEF Cleared, Unclaimed
    <3>2. CASE ~(Keyed(req[c]) /\ SlotOf(req[c]) = s)
      <4>1. claim'[s] = claim[s]
        BY <3>2, <1>0, <1>4 DEF Cleared, Keyed
      <4>2. PICK d \in Calls : Keyed(req[d]) /\ SlotOf(req[d]) = s /\ reservation[d] \in Open
        BY <4>1 DEF ClaimsHaveAttempts
      <4>3. QED
        BY <4>2, <3>2, <1>4
    <3>3. QED
      BY <3>1, <3>2
  <2>4. QED
    BY <2>1, <2>2, <2>3
<1>5. QED
  BY <1>1, <1>2, <1>3, <1>4 DEF MoneyStep

(* Claims are exclusive and backed in every reachable state.               *)
LEMMA ExclusiveAlways == Spec => []Exclusive
<1>1. Init => Exclusive
  BY DEF Init, Exclusive, OneChargePerKey, ClaimsBacked, AttemptsClaim,
                   ClaimsHaveAttempts, Open, Unclaimed
<1>2. QED
  BY <1>1, ExclusiveStep, MoneySteps, TypeCorrect, PhasesAlways, RowsAlwaysAgree, PTL DEF Spec

(* A key is charged once, however often it is released and used again.     *)
THEOREM KeysAreExclusive == Spec => []OneChargePerKey
BY ExclusiveAlways, PTL DEF Exclusive

(* A key is claimed as long as, and only as long as, an attempt under it   *)
(* holds or has spent money: _claim_idempotency,                           *)
(* _complete_logical_operation and _clear_logical_operation together.      *)
THEOREM ClaimsStandForAttempts == Spec => []ClaimsBacked
BY ExclusiveAlways, PTL DEF Exclusive

-----------------------------------------------------------------------------
(* What the vendor did.                                                    *)

(* Strengthened by the call that is about to send.                         *)
Effects ==
  \A c \in Calls :
    /\ reservation[c] = "committed" => vendor[c] = "executed"
    /\ ~LateEvidence /\ (vendor[c] \in {"in_flight", "executed"} \/ pc[c] = "executing")
         => reservation[c] # "released"

(* Every step keeps what the vendor did and what was charged in line.      *)
LEMMA EffectsStep == TypeOK /\ Phases /\ RowsAgree /\ Effects /\ [Next]_vars => Effects'
<1> SUFFICES ASSUME TypeOK, Phases, RowsAgree, Effects, [Next]_vars PROVE Effects'
  OBVIOUS
<1> USE DEF TypeOK, Phases, RowsAgree, Effects, InvocationStatus, Answer, Continue, Won,
            session, mandates, idem, attempt
<1>1. ASSUME NEW c \in Calls, CheckRefused(c) PROVE Effects'
  BY <1>1 DEF CheckRefused
<1>2. ASSUME NEW c \in Calls, CheckAnswers(c) PROVE Effects'
  BY <1>2 DEF CheckAnswers
<1>3. ASSUME NEW c \in Calls, CheckPasses(c) PROVE Effects'
  BY <1>3 DEF CheckPasses
<1>4. ASSUME NEW c \in Calls, ReserveNonceClash(c) PROVE Effects'
  BY <1>4 DEF ReserveNonceClash
<1>5. ASSUME NEW c \in Calls, ReserveClaimLost(c) PROVE Effects'
  BY <1>5 DEF ReserveClaimLost
<1>6. ASSUME NEW c \in Calls, ReserveDenied(c) PROVE Effects'
  BY <1>6 DEF ReserveDenied
<1>7. ASSUME NEW c \in Calls, ReserveCommits(c) PROVE Effects'
  BY <1>7 DEF ReserveCommits
<1>8. ASSUME NEW c \in Calls, MarkExecuting(c) PROVE Effects'
  <2>1. /\ reservation' = reservation /\ vendor' = vendor
        /\ \A d \in Calls : pc'[d] = "executing" => pc[d] = "executing" \/ d = c
        /\ pc'[c] = "executing" => invocation[c] = "reserved"
    BY <1>8 DEF MarkExecuting
  <2>2. invocation[c] = "reserved" => reservation[c] = "held"
    OBVIOUS
  <2>3. QED BY ONLY <2>1, <2>2, Effects, c \in Calls DEF Effects
<1>9. ASSUME NEW c \in Calls, SendRequest(c) PROVE Effects'
  BY <1>9 DEF SendRequest
<1>10. ASSUME NEW c \in Calls, ProviderReturns(c) PROVE Effects'
  BY <1>10 DEF ProviderReturns
<1>11. ASSUME NEW c \in Calls, ProviderRaises(c) PROVE Effects'
  BY <1>11 DEF ProviderRaises
<1>12. ASSUME NEW c \in Calls, MarkExecutedFail(c) PROVE Effects'
  BY <1>12 DEF MarkExecutedFail
<1>13. ASSUME NEW c \in Calls, FinalizeSuccess(c) PROVE Effects'
  BY <1>13 DEF FinalizeSuccess, CanFinalize, Bill
<1>14. ASSUME NEW c \in Calls, FinalizeLost(c) PROVE Effects'
  BY <1>14 DEF FinalizeLost
<1>15. ASSUME NEW c \in Calls, VendorExecutes(c) PROVE Effects'
  BY <1>15 DEF VendorExecutes
<1>16. ASSUME NEW c \in Calls, VendorLoses(c) PROVE Effects'
  BY <1>16 DEF VendorLoses
<1>17. ASSUME NEW c \in Calls, RecoverAmbiguous(c) PROVE Effects'
  BY <1>17 DEF RecoverAmbiguous
<1>18. ASSUME NEW c \in Calls, RecoverRelease(c) PROVE Effects'
  BY <1>18 DEF RecoverRelease, CanRelease, Refund
<1>19. ASSUME NEW c \in Calls, ReconcileCommit(c) PROVE Effects'
  BY <1>19 DEF ReconcileCommit, CanReconcileCommit, ReconcileFrom, BillOnce, DidExecute
<1>20. ASSUME NEW c \in Calls, ReconcileRelease(c) PROVE Effects'
  BY <1>20 DEF ReconcileRelease, CanReconcileRelease, ReconcileFrom, Refund, DidNotExecute
<1>21. ASSUME NEW c \in Calls, Crash(c) PROVE Effects'
  BY <1>21 DEF Crash
<1>22. ASSUME NEW m \in Mandates, RevokeMandate(m) PROVE Effects'
  BY <1>22 DEF RevokeMandate
<1>23. ASSUME NEW m \in Mandates, TimePasses(m) PROVE Effects'
  BY <1>23 DEF TimePasses
<1>24. ASSUME NEW p \in Principals, BillingChanges(p) PROVE Effects'
  BY <1>24 DEF BillingChanges
<1>25. CASE UNCHANGED vars
  BY <1>25 DEF vars
<1>26. QED
  BY <1>1, <1>2, <1>3, <1>4, <1>5, <1>6, <1>7, <1>8, <1>9, <1>10, <1>11,
     <1>12, <1>13, <1>14, <1>15, <1>16, <1>17, <1>18, <1>19, <1>20,
     <1>21, <1>22, <1>23, <1>24, <1>25
     DEF Next, Invoke, Vendor, Recover, Reconcile

(* What the vendor did and what was charged are in line in every reachable *)
(* state.                                                                  *)
LEMMA EffectsAlways == Spec => []Effects
<1>1. Init => Effects
  BY DEF Init, Effects
<1>2. QED
  BY <1>1, EffectsStep, TypeCorrect, PhasesAlways, RowsAlwaysAgree, PTL DEF Spec

(* Money is only spent on a tool that ran: finalize_success after an       *)
(* answer, reconcile_commit on evidence.                                   *)
THEOREM NoChargeWithoutEffect == Spec => []ChargedOnlyForEffects
<1>1. Effects => ChargedOnlyForEffects
  BY DEF Effects, ChargedOnlyForEffects
<1>2. QED
  BY <1>1, EffectsAlways, PTL

(* When operators only certify what can no longer change, what the vendor  *)
(* did is never refunded by recover_reserved or reconcile_release.         *)
THEOREM NoEffectIsRefunded == Spec => [](~LateEvidence => EffectsAreNotRefunded)
<1>1. Effects => (~LateEvidence => EffectsAreNotRefunded)
  BY DEF Effects, EffectsAreNotRefunded
<1>2. QED
  BY <1>1, EffectsAlways, PTL

(* Under the same condition, a key never makes the vendor act twice.       *)
THEOREM NoEffectIsRepeated == Spec => [](~LateEvidence => OneEffectPerKey)
<1>1. ASSUME ~LateEvidence, TypeOK, Phases, RowsAgree, Effects, Exclusive
      PROVE  OneEffectPerKey
  <2> SUFFICES ASSUME NEW c \in Calls, NEW d \in Calls, c # d, SameOperation(c, d),
                      vendor[c] \in {"in_flight", "executed"},
                      vendor[d] \in {"in_flight", "executed"}
               PROVE  FALSE
    BY DEF OneEffectPerKey
  <2>1. reservation[c] \in Open /\ reservation[d] \in Open
    BY <1>1 DEF TypeOK, Phases, RowsAgree, Effects, Open
  <2>2. QED
    BY <1>1, <2>1 DEF Exclusive, OneChargePerKey
<1>2. TypeOK /\ Phases /\ RowsAgree /\ Effects /\ Exclusive => (~LateEvidence => OneEffectPerKey)
  BY <1>1
<1>3. QED
  BY <1>2, TypeCorrect, PhasesAlways, RowsAlwaysAgree, EffectsAlways, ExclusiveAlways, PTL

-----------------------------------------------------------------------------
(* Nonces and answers.                                                     *)

(* A nonce that bought an attempt is in used_nonces.                       *)
NoncesRecorded ==
  /\ \A c \in Calls : reservation[c] # "none" /\ req[c].nonce # None => NonceUsed(req[c])
  /\ OneAttemptPerNonce

(* Every step leaves the nonce of an attempt recorded, and spent once.     *)
LEMMA NoncesStep == TypeOK /\ Phases /\ RowsAgree /\ NoncesRecorded /\ [Next]_vars => NoncesRecorded'
<1> SUFFICES ASSUME TypeOK, Phases, RowsAgree, NoncesRecorded, [Next]_vars
             PROVE  NoncesRecorded'
  OBVIOUS
<1> USE DEF TypeOK, NoncesRecorded, OneAttemptPerNonce, NonceUsed, Of,
            session, mandates, idem, attempt
<1>1. ASSUME NEW c \in Calls, CheckRefused(c) PROVE NoncesRecorded'
  BY <1>1 DEF CheckRefused
<1>2. ASSUME NEW c \in Calls, CheckAnswers(c) PROVE NoncesRecorded'
  BY <1>2 DEF CheckAnswers
<1>3. ASSUME NEW c \in Calls, CheckPasses(c) PROVE NoncesRecorded'
  BY <1>3 DEF CheckPasses
<1>4. ASSUME NEW c \in Calls, ReserveNonceClash(c) PROVE NoncesRecorded'
  BY <1>4 DEF ReserveNonceClash
<1>5. ASSUME NEW c \in Calls, ReserveClaimLost(c) PROVE NoncesRecorded'
  BY <1>5 DEF ReserveClaimLost, BurnNonce
<1>6. ASSUME NEW c \in Calls, ReserveDenied(c) PROVE NoncesRecorded'
  BY <1>6 DEF ReserveDenied, BurnNonce
<1>7. ASSUME NEW c \in Calls, ReserveCommits(c) PROVE NoncesRecorded'
  BY <1>7 DEF ReserveCommits, BurnNonce
<1>8. ASSUME NEW c \in Calls, MarkExecuting(c) PROVE NoncesRecorded'
  BY <1>8 DEF MarkExecuting
<1>9. ASSUME NEW c \in Calls, SendRequest(c) PROVE NoncesRecorded'
  BY <1>9 DEF SendRequest
<1>10. ASSUME NEW c \in Calls, ProviderReturns(c) PROVE NoncesRecorded'
  BY <1>10 DEF ProviderReturns
<1>11. ASSUME NEW c \in Calls, ProviderRaises(c) PROVE NoncesRecorded'
  BY <1>11 DEF ProviderRaises
<1>12. ASSUME NEW c \in Calls, MarkExecutedFail(c) PROVE NoncesRecorded'
  BY <1>12 DEF MarkExecutedFail
<1>13. ASSUME NEW c \in Calls, FinalizeSuccess(c) PROVE NoncesRecorded'
  BY <1>13 DEF FinalizeSuccess, CanFinalize, Bill
<1>14. ASSUME NEW c \in Calls, FinalizeLost(c) PROVE NoncesRecorded'
  BY <1>14 DEF FinalizeLost
<1>15. ASSUME NEW c \in Calls, VendorExecutes(c) PROVE NoncesRecorded'
  BY <1>15 DEF VendorExecutes
<1>16. ASSUME NEW c \in Calls, VendorLoses(c) PROVE NoncesRecorded'
  BY <1>16 DEF VendorLoses
<1>17. ASSUME NEW c \in Calls, RecoverAmbiguous(c) PROVE NoncesRecorded'
  BY <1>17 DEF RecoverAmbiguous
<1>18. ASSUME NEW c \in Calls, RecoverRelease(c) PROVE NoncesRecorded'
  BY <1>18 DEF RecoverRelease, CanRelease, Refund
<1>19. ASSUME NEW c \in Calls, ReconcileCommit(c) PROVE NoncesRecorded'
  BY <1>19 DEF ReconcileCommit, CanReconcileCommit, BillOnce
<1>20. ASSUME NEW c \in Calls, ReconcileRelease(c) PROVE NoncesRecorded'
  BY <1>20 DEF ReconcileRelease, CanReconcileRelease, Refund
<1>21. ASSUME NEW c \in Calls, Crash(c) PROVE NoncesRecorded'
  BY <1>21 DEF Crash
<1>22. ASSUME NEW m \in Mandates, RevokeMandate(m) PROVE NoncesRecorded'
  BY <1>22 DEF RevokeMandate
<1>23. ASSUME NEW m \in Mandates, TimePasses(m) PROVE NoncesRecorded'
  BY <1>23 DEF TimePasses
<1>24. ASSUME NEW p \in Principals, BillingChanges(p) PROVE NoncesRecorded'
  BY <1>24 DEF BillingChanges
<1>25. CASE UNCHANGED vars
  BY <1>25 DEF vars
<1>26. QED
  BY <1>1, <1>2, <1>3, <1>4, <1>5, <1>6, <1>7, <1>8, <1>9, <1>10, <1>11,
     <1>12, <1>13, <1>14, <1>15, <1>16, <1>17, <1>18, <1>19, <1>20,
     <1>21, <1>22, <1>23, <1>24, <1>25
     DEF Next, Invoke, Vendor, Recover, Reconcile

(* "Replay": used_nonces is unique per principal, and a call that finds    *)
(* its nonce there, at the check or at the insert, makes no attempt.       *)
THEOREM NoncesBuyOnce == Spec => []OneAttemptPerNonce
<1>1. Init => NoncesRecorded
  BY DEF Init, NoncesRecorded, OneAttemptPerNonce
<1>2. NoncesRecorded => OneAttemptPerNonce
  BY DEF NoncesRecorded
<1>3. QED
  BY <1>1, <1>2, NoncesStep, TypeCorrect, PhasesAlways, RowsAlwaysAgree, PTL DEF Spec

(* An "ok" is backed by a charge: what a claim hands out for replay.       *)
Backs(c, d) ==
  /\ reservation[d] = "committed" /\ vendor[d] = "executed"
  /\ Fingerprint(req[c]) = Fingerprint(req[d])
  /\ c # d => SameOperation(c, d)

(* The result a claim replays belongs to a charged attempt.                *)
LEMMA ReplayIsBacked ==
  ASSUME TypeOK, Exclusive, Effects, NEW c \in Calls, Claimed(req[c]),
         ClaimVerdict(req[c]) = "replay"
  PROVE  \E d \in Calls : Stored(req[c], "replay") = d /\ Backs(c, d)
<1> DEFINE known == claim[SlotOf(req[c])]
<1>1. /\ known.status = "completed" /\ known.result # None
      /\ known.hash = Fingerprint(req[c])
  BY DEF ClaimVerdict
<1>2. PICK d \in Calls : /\ Keyed(req[d]) /\ SlotOf(req[d]) = SlotOf(req[c])
                         /\ reservation[d] \in Open
  BY <1>1, SlotTypes DEF Exclusive, ClaimsBacked, ClaimsHaveAttempts, Claimed
<1>3. ClaimMatches(d)
  BY <1>2 DEF Exclusive, ClaimsBacked, AttemptsClaim
<1>4. reservation[d] = "committed" /\ known.result = d
  BY <1>1, <1>2, <1>3 DEF ClaimMatches, Open
<1>5. vendor[d] = "executed"
  BY <1>4 DEF Effects
<1>6. QED
  BY <1>1, <1>2, <1>3, <1>4, <1>5 DEF Backs, ClaimMatches, SameOperation, Stored, Claimed

(* What backs an answer is never taken away again.                         *)
LEMMA ChargesStay ==
  TypeOK /\ Phases /\ RowsAgree /\ [Next]_vars =>
    \A c, d \in Calls : Backs(c, d) => Backs(c, d)'
<1> SUFFICES ASSUME TypeOK, Phases, RowsAgree, [Next]_vars,
                    NEW c \in Calls, NEW d \in Calls, Backs(c, d)
             PROVE  Backs(c, d)'
  OBVIOUS
<1>1. req' = req
  BY MoneySteps DEF MoneyStep
<1>2. reservation'[d] = "committed"
  BY MoneySteps DEF MoneyStep, Keeps, Reserves, Spends, Releases, Backs, TypeOK
<1>3. vendor' = vendor \/ (\E e \in Calls : SendRequest(e) \/ VendorExecutes(e) \/ VendorLoses(e))
  BY DEF Next, vars, Invoke, Vendor, Recover, Reconcile, CheckRefused, CheckAnswers,
         CheckPasses, ReserveNonceClash, ReserveClaimLost, ReserveDenied, ReserveCommits,
         MarkExecuting, ProviderReturns, ProviderRaises, MarkExecutedFail, FinalizeSuccess,
         FinalizeLost, RecoverAmbiguous, RecoverRelease, ReconcileCommit, ReconcileRelease,
         Crash, RevokeMandate, TimePasses, BillingChanges
<1>4. vendor'[d] = "executed"
  BY <1>3 DEF SendRequest, VendorExecutes, VendorLoses, Phases, Backs, TypeOK
<1>5. QED
  BY <1>1, <1>2, <1>4 DEF Backs, SameOperation

(* Only a check, a lost claim and a finalisation answer ok or replay.      *)
LEMMA AnswerSources ==
  ASSUME TypeOK, [Next]_vars, NEW c \in Calls, answer'[c].reason \in {"ok", "replay"}
  PROVE  \/ answer'[c] = answer[c]
         \/ CheckAnswers(c) \/ ReserveClaimLost(c) \/ FinalizeSuccess(c)
<1> DEFINE Unanswered == \/ answer'[c] = answer[c]
                         \/ CheckAnswers(c) \/ ReserveClaimLost(c) \/ FinalizeSuccess(c)
<1> USE DEF Answer, Continue, TypeOK, session
<1>1. ASSUME NEW e \in Calls, CheckRefused(e) PROVE Unanswered
  BY <1>1 DEF CheckRefused
<1>2. ASSUME NEW e \in Calls, CheckAnswers(e) PROVE Unanswered
  BY <1>2 DEF CheckAnswers
<1>3. ASSUME NEW e \in Calls, CheckPasses(e) PROVE Unanswered
  BY <1>3 DEF CheckPasses
<1>4. ASSUME NEW e \in Calls, ReserveNonceClash(e) PROVE Unanswered
  BY <1>4 DEF ReserveNonceClash
<1>5. ASSUME NEW e \in Calls, ReserveClaimLost(e) PROVE Unanswered
  BY <1>5 DEF ReserveClaimLost
<1>6. ASSUME NEW e \in Calls, ReserveDenied(e) PROVE Unanswered
  BY <1>6 DEF ReserveDenied, DenyReason
<1>7. ASSUME NEW e \in Calls, ReserveCommits(e) PROVE Unanswered
  BY <1>7 DEF ReserveCommits
<1>8. ASSUME NEW e \in Calls, MarkExecuting(e) PROVE Unanswered
  BY <1>8 DEF MarkExecuting
<1>9. ASSUME NEW e \in Calls, SendRequest(e) PROVE Unanswered
  BY <1>9 DEF SendRequest
<1>10. ASSUME NEW e \in Calls, ProviderReturns(e) PROVE Unanswered
  BY <1>10 DEF ProviderReturns
<1>11. ASSUME NEW e \in Calls, ProviderRaises(e) PROVE Unanswered
  BY <1>11 DEF ProviderRaises
<1>12. ASSUME NEW e \in Calls, MarkExecutedFail(e) PROVE Unanswered
  BY <1>12 DEF MarkExecutedFail
<1>13. ASSUME NEW e \in Calls, FinalizeSuccess(e) PROVE Unanswered
  BY <1>13 DEF FinalizeSuccess
<1>14. ASSUME NEW e \in Calls, FinalizeLost(e) PROVE Unanswered
  BY <1>14 DEF FinalizeLost
<1>15. ASSUME NEW e \in Calls, VendorExecutes(e) PROVE Unanswered
  BY <1>15 DEF VendorExecutes
<1>16. ASSUME NEW e \in Calls, VendorLoses(e) PROVE Unanswered
  BY <1>16 DEF VendorLoses
<1>17. ASSUME NEW e \in Calls, RecoverAmbiguous(e) PROVE Unanswered
  BY <1>17 DEF RecoverAmbiguous
<1>18. ASSUME NEW e \in Calls, RecoverRelease(e) PROVE Unanswered
  BY <1>18 DEF RecoverRelease
<1>19. ASSUME NEW e \in Calls, ReconcileCommit(e) PROVE Unanswered
  BY <1>19 DEF ReconcileCommit
<1>20. ASSUME NEW e \in Calls, ReconcileRelease(e) PROVE Unanswered
  BY <1>20 DEF ReconcileRelease
<1>21. ASSUME NEW e \in Calls, Crash(e) PROVE Unanswered
  BY <1>21 DEF Crash
<1>22. ASSUME NEW m \in Mandates, RevokeMandate(m) PROVE Unanswered
  BY <1>22 DEF RevokeMandate
<1>23. ASSUME NEW m \in Mandates, TimePasses(m) PROVE Unanswered
  BY <1>23 DEF TimePasses
<1>24. ASSUME NEW p \in Principals, BillingChanges(p) PROVE Unanswered
  BY <1>24 DEF BillingChanges
<1>25. CASE UNCHANGED vars
  BY <1>25 DEF vars
<1>26. QED
  BY <1>1, <1>2, <1>3, <1>4, <1>5, <1>6, <1>7, <1>8, <1>9, <1>10, <1>11,
     <1>12, <1>13, <1>14, <1>15, <1>16, <1>17, <1>18, <1>19, <1>20,
     <1>21, <1>22, <1>23, <1>24, <1>25
     DEF Next, Invoke, Vendor, Recover, Reconcile

(* Every step keeps the answers given so far backed by a charged attempt.  *)
LEMMA AnswersStep ==
  TypeOK /\ Phases /\ RowsAgree /\ Effects /\ Exclusive /\ AnswersAreCharged /\ [Next]_vars
    => AnswersAreCharged'
<1> SUFFICES ASSUME TypeOK, Phases, RowsAgree, Effects, Exclusive, AnswersAreCharged, [Next]_vars,
                    NEW c \in Calls, answer'[c].reason \in {"ok", "replay"}
             PROVE  \E d \in Calls : answer'[c].result = d /\ Backs(c, d)'
  BY DEF AnswersAreCharged, Backs
<1> DEFINE New(reason, result) == answer'[c] = [reason |-> reason, result |-> result]
<1>1. CASE answer'[c] = answer[c]
  BY <1>1, ChargesStay DEF AnswersAreCharged, Backs
<1>2. ASSUME CheckAnswers(c) PROVE \E d \in Calls : answer'[c].result = d /\ Backs(c, d)
  <2>1. New(CheckVerdict(req[c]), Stored(req[c], CheckVerdict(req[c])))
    BY <1>2 DEF CheckAnswers, Answer, TypeOK
  <2>2. Claimed(req[c]) /\ ClaimVerdict(req[c]) = "replay" /\ CheckVerdict(req[c]) = "replay"
    BY <2>1 DEF CheckVerdict, LimitVerdict, ClaimVerdict
  <2>3. QED
    BY <2>1, <2>2, ReplayIsBacked
<1>3. ASSUME ReserveClaimLost(c) PROVE \E d \in Calls : answer'[c].result = d /\ Backs(c, d)
  <2>1. PICK verdict \in LostVerdicts(req[c]) : New(verdict, Stored(req[c], verdict))
    BY <1>3 DEF ReserveClaimLost, Answer, TypeOK
  <2>2. Claimed(req[c]) /\ ClaimVerdict(req[c]) = "replay" /\ verdict = "replay"
    BY <1>3, <2>1 DEF ReserveClaimLost, LostVerdicts, ClaimVerdict
  <2>3. QED
    BY <2>1, <2>2, ReplayIsBacked
<1>4. ASSUME FinalizeSuccess(c) PROVE answer'[c].result = c /\ Backs(c, c)'
  <2>1. answer'[c].result = c
    BY <1>4 DEF FinalizeSuccess, Answer, TypeOK
  <2>2. reservation'[c] = "committed" /\ vendor'[c] = "executed"
    BY <1>4 DEF FinalizeSuccess, Bill, Phases, TypeOK
  <2>3. QED
    BY <2>1, <2>2 DEF Backs
<1>5. \/ answer'[c] = answer[c]
      \/ CheckAnswers(c) \/ ReserveClaimLost(c) \/ FinalizeSuccess(c)
  BY AnswerSources
<1>6. QED
  BY <1>1, <1>2, <1>3, <1>4, <1>5, ChargesStay

(* A replay hands out the result of the one charged attempt its key stands *)
(* for, and only to the request that attempt was made for.                 *)
THEOREM AnswersAreBacked == Spec => []AnswersAreCharged
<1>1. Init => AnswersAreCharged
  BY DEF Init, AnswersAreCharged
<1>2. QED
  BY <1>1, AnswersStep, TypeCorrect, PhasesAlways, RowsAlwaysAgree, EffectsAlways,
     ExclusiveAlways, PTL DEF Spec

-----------------------------------------------------------------------------
(* Terminal states.                                                        *)

(* No step of the code leaves a terminal state but by reconciliation.      *)
LEMMA TerminalStep == TypeOK /\ Phases /\ [Next]_vars => TerminalStays
<1> SUFFICES ASSUME TypeOK, Phases, [Next]_vars PROVE TerminalStays
  OBVIOUS
<1> USE DEF TypeOK, TerminalStays, TERMINAL_INVOCATION, ReconcileFrom, InvocationStatus,
            Won, attempt
<1>1. ASSUME NEW c \in Calls, CheckRefused(c) PROVE TerminalStays
  BY <1>1 DEF CheckRefused
<1>2. ASSUME NEW c \in Calls, CheckAnswers(c) PROVE TerminalStays
  BY <1>2 DEF CheckAnswers
<1>3. ASSUME NEW c \in Calls, CheckPasses(c) PROVE TerminalStays
  BY <1>3 DEF CheckPasses
<1>4. ASSUME NEW c \in Calls, ReserveNonceClash(c) PROVE TerminalStays
  BY <1>4 DEF ReserveNonceClash
<1>5. ASSUME NEW c \in Calls, ReserveClaimLost(c) PROVE TerminalStays
  BY <1>5 DEF ReserveClaimLost
<1>6. ASSUME NEW c \in Calls, ReserveDenied(c) PROVE TerminalStays
  BY <1>6 DEF ReserveDenied
<1>7. ASSUME NEW c \in Calls, ReserveCommits(c) PROVE TerminalStays
  BY <1>7 DEF ReserveCommits, Phases
<1>8. ASSUME NEW c \in Calls, MarkExecuting(c) PROVE TerminalStays
  BY <1>8 DEF MarkExecuting
<1>9. ASSUME NEW c \in Calls, SendRequest(c) PROVE TerminalStays
  BY <1>9 DEF SendRequest
<1>10. ASSUME NEW c \in Calls, ProviderReturns(c) PROVE TerminalStays
  BY <1>10 DEF ProviderReturns
<1>11. ASSUME NEW c \in Calls, ProviderRaises(c) PROVE TerminalStays
  BY <1>11 DEF ProviderRaises
<1>12. ASSUME NEW c \in Calls, MarkExecutedFail(c) PROVE TerminalStays
  BY <1>12 DEF MarkExecutedFail
<1>13. ASSUME NEW c \in Calls, FinalizeSuccess(c) PROVE TerminalStays
  BY <1>13 DEF FinalizeSuccess, CanFinalize
<1>14. ASSUME NEW c \in Calls, FinalizeLost(c) PROVE TerminalStays
  BY <1>14 DEF FinalizeLost
<1>15. ASSUME NEW c \in Calls, VendorExecutes(c) PROVE TerminalStays
  BY <1>15 DEF VendorExecutes
<1>16. ASSUME NEW c \in Calls, VendorLoses(c) PROVE TerminalStays
  BY <1>16 DEF VendorLoses
<1>17. ASSUME NEW c \in Calls, RecoverAmbiguous(c) PROVE TerminalStays
  BY <1>17 DEF RecoverAmbiguous
<1>18. ASSUME NEW c \in Calls, RecoverRelease(c) PROVE TerminalStays
  BY <1>18 DEF RecoverRelease, CanRelease
<1>19. ASSUME NEW c \in Calls, ReconcileCommit(c) PROVE TerminalStays
  BY <1>19 DEF ReconcileCommit, CanReconcileCommit
<1>20. ASSUME NEW c \in Calls, ReconcileRelease(c) PROVE TerminalStays
  BY <1>20 DEF ReconcileRelease, CanReconcileRelease
<1>21. ASSUME NEW c \in Calls, Crash(c) PROVE TerminalStays
  BY <1>21 DEF Crash
<1>22. ASSUME NEW m \in Mandates, RevokeMandate(m) PROVE TerminalStays
  BY <1>22 DEF RevokeMandate
<1>23. ASSUME NEW m \in Mandates, TimePasses(m) PROVE TerminalStays
  BY <1>23 DEF TimePasses
<1>24. ASSUME NEW p \in Principals, BillingChanges(p) PROVE TerminalStays
  BY <1>24 DEF BillingChanges
<1>25. CASE UNCHANGED vars
  BY <1>25 DEF vars
<1>26. QED
  BY <1>1, <1>2, <1>3, <1>4, <1>5, <1>6, <1>7, <1>8, <1>9, <1>10, <1>11,
     <1>12, <1>13, <1>14, <1>15, <1>16, <1>17, <1>18, <1>19, <1>20,
     <1>21, <1>22, <1>23, <1>24, <1>25
     DEF Next, Invoke, Vendor, Recover, Reconcile

(* "Terminal invocation states are monotonic": no interleaving of a worker,*)
(* a recovery and an operator leaves a terminal state, but for the way     *)
(* from ambiguous and executed_fail to a reconciled one.                   *)
THEOREM TerminalIsMonotonic == Spec => TerminalIsFinal
<1>1. TypeOK /\ Phases /\ [Next]_vars => [TerminalStays]_vars
  BY TerminalStep
<1>2. QED
  BY <1>1, TypeCorrect, PhasesAlways, PTL DEF Spec, TerminalIsFinal

-----------------------------------------------------------------------------
(* Call slots.                                                             *)

(* Reserves, spends and releases keep calls_used a count of the attempts.  *)
LEMMA CallsCountedStep == TypeOK /\ CallsCounted /\ MoneyStep => CallsCounted'
<1> SUFFICES ASSUME TypeOK, CallsCounted, MoneyStep, NEW m \in Mandates
             PROVE  /\ calls_used'[m] = Cardinality(Charged(m)')
                    /\ MaxCalls[m] # None => calls_used'[m] <= MaxCalls[m]
  BY DEF CallsCounted, Charged, Of
<1>0. /\ IsFiniteSet(Charged(m)) /\ Cardinality(Charged(m)) \in Nat
      /\ calls_used[m] = Cardinality(Charged(m))
      /\ MaxCalls[m] \in Nat \cup {None}
      /\ MaxCalls[m] # None => calls_used[m] <= MaxCalls[m]
  <2>1. IsFiniteSet(Charged(m))
    BY LedgerAssumption, FS_Subset DEF Charged
  <2>2. QED
    BY <2>1, LedgerAssumption, FS_CardinalityType DEF CallsCounted
<1>1. req' = req /\ \A c \in Calls : Of(c) \in Mandates
  BY LedgerAssumption DEF MoneyStep, TypeOK, Of
<1>2. CASE Keeps
  <2>1. Charged(m)' = Charged(m)
    BY <1>1, <1>2 DEF Charged, Keeps, Of
  <2>2. QED
    BY <1>0, <1>2, <2>1 DEF Keeps
<1>3. ASSUME NEW c \in Calls, Reserves(c)
      PROVE  /\ calls_used'[m] = Cardinality(Charged(m)')
             /\ MaxCalls[m] # None => calls_used'[m] <= MaxCalls[m]
  <2>1. CASE Of(c) = m
    <3>1. Charged(m)' = Charged(m) \cup {c} /\ c \notin Charged(m)
      BY <1>1, <1>3, <2>1 DEF Charged, Reserves, Open, TypeOK, Of
    <3>2. Cardinality(Charged(m)') = Cardinality(Charged(m)) + 1
      BY <1>0, <3>1, FS_AddElement
    <3>3. calls_used'[m] = calls_used[m] + 1
      BY <1>3, <2>1 DEF Reserves, TypeOK
    <3>4. MaxCalls[m] = None \/ calls_used[m] < MaxCalls[m]
      BY <1>3, <2>1 DEF Reserves, CanDebit, UnderCallCap
    <3>5. QED
      BY <1>0, <3>2, <3>3, <3>4
  <2>2. CASE Of(c) # m
    <3>1. Charged(m)' = Charged(m)
      BY <1>1, <1>3, <2>2 DEF Charged, Reserves, Open, TypeOK, Of
    <3>2. calls_used'[m] = calls_used[m]
      BY <1>3, <2>2 DEF Reserves, TypeOK
    <3>3. QED
      BY <1>0, <3>1, <3>2
  <2>3. QED
    BY <2>1, <2>2
<1>4. ASSUME NEW c \in Calls, Spends(c)
      PROVE  /\ calls_used'[m] = Cardinality(Charged(m)')
             /\ MaxCalls[m] # None => calls_used'[m] <= MaxCalls[m]
  <2>1. Charged(m)' = Charged(m)
    BY <1>1, <1>4 DEF Charged, Spends, Open, TypeOK, Of
  <2>2. QED
    BY <1>0, <1>4, <2>1 DEF Spends
<1>5. ASSUME NEW c \in Calls, Releases(c)
      PROVE  /\ calls_used'[m] = Cardinality(Charged(m)')
             /\ MaxCalls[m] # None => calls_used'[m] <= MaxCalls[m]
  <2>1. CASE Of(c) = m
    <3>1. Charged(m)' = Charged(m) \ {c} /\ c \in Charged(m)
      BY <1>1, <1>5, <2>1 DEF Charged, Releases, Open, TypeOK, Of
    <3>2. Cardinality(Charged(m)') = Cardinality(Charged(m)) - 1
      BY <1>0, <3>1, FS_RemoveElement
    <3>3. Cardinality(Charged(m)) > 0
      BY <1>0, <3>1, FS_EmptySet
    <3>4. calls_used'[m] = calls_used[m] - 1
      BY <1>0, <1>5, <2>1, <3>3 DEF Releases, TypeOK
    <3>5. QED
      BY <1>0, <3>2, <3>4
  <2>2. CASE Of(c) # m
    <3>1. Charged(m)' = Charged(m)
      BY <1>1, <1>5, <2>2 DEF Charged, Releases, Open, TypeOK, Of
    <3>2. calls_used'[m] = calls_used[m]
      BY <1>5, <2>2 DEF Releases, TypeOK
    <3>3. QED
      BY <1>0, <3>1, <3>2
  <2>3. QED
    BY <2>1, <2>2
<1>6. QED
  BY <1>2, <1>3, <1>4, <1>5 DEF MoneyStep

(* calls_used is the number of attempts that hold or have spent money, so  *)
(* no interleaving of debits and refunds pays for more than max_calls, and *)
(* the floor in _refund_mandate is never needed.                           *)
THEOREM CallCapHolds == Spec => []CallsCounted
<1>1. Init => CallsCounted
  <2> SUFFICES ASSUME Init PROVE CallsCounted
    OBVIOUS
  <2>1. \A m \in Mandates : Charged(m) = {}
    BY DEF Init, Charged, Open
  <2>2. Cardinality({}) = 0
    BY FS_EmptySet
  <2>3. \A m \in Mandates : calls_used[m] = 0 /\ MaxCalls[m] \in Nat \cup {None}
    BY LedgerAssumption DEF Init
  <2>4. QED
    BY <2>1, <2>2, <2>3 DEF CallsCounted
<1>2. QED
  BY <1>1, CallsCountedStep, MoneySteps, TypeCorrect, PhasesAlways, RowsAlwaysAgree, PTL DEF Spec

-----------------------------------------------------------------------------
(* Money.                                                                  *)

Charges(m) == [c \in Charged(m) |-> Amount(c)]

LEMMA ChargesTypes ==
  ASSUME TypeOK, NEW m \in Mandates
  PROVE  IsFiniteSet(Charged(m)) /\ Charges(m) \in [Charged(m) -> Nat]
<1>1. IsFiniteSet(Charged(m))
  BY LedgerAssumption, FS_Subset DEF Charged
<1>2. \A c \in Calls : Amount(c) \in Nat
  BY LedgerAssumption DEF TypeOK, Amount
<1>3. QED
  BY <1>1, <1>2 DEF Charges, Charged

(* Reserves takes from the mandate what it adds to the charges, Releases   *)
(* the other way round, Spends leaves both.                                *)
LEMMA BudgetStep == TypeOK /\ BudgetConserved /\ MoneyStep => BudgetConserved'
<1> SUFFICES ASSUME TypeOK, BudgetConserved, MoneyStep, NEW m \in Mandates
             PROVE  remaining'[m] + SumFunction(Charges(m)') = Budget[m]
  BY DEF BudgetConserved, Charges
<1>1. req' = req /\ \A c \in Calls : Of(c) \in Mandates /\ Amount(c) \in Nat
  BY LedgerAssumption DEF MoneyStep, TypeOK, Of, Amount
<1>0. /\ remaining[m] + SumFunction(Charges(m)) = Budget[m]
      /\ remaining[m] \in Nat /\ Budget[m] \in Nat
      /\ SumFunction(Charges(m)) \in Nat /\ SumFunction(Charges(m)') \in Nat
  <2>1. SumFunction(Charges(m)) \in Nat
    BY ChargesTypes, SumType
  <2>2. SumFunction(Charges(m)') \in Nat
    <3>1. IsFiniteSet(Charged(m)')
      BY LedgerAssumption, FS_Subset DEF Charged
    <3>2. Charges(m)' \in [Charged(m)' -> Nat]
      BY <1>1 DEF Charges, Charged, Amount
    <3>3. QED
      BY <3>1, <3>2, SumType
  <2>3. remaining[m] + SumFunction(Charges(m)) = Budget[m]
    BY DEF BudgetConserved, Charges
  <2>4. remaining[m] \in Nat /\ Budget[m] \in Nat
    BY LedgerAssumption DEF TypeOK
  <2>5. QED
    BY <2>1, <2>2, <2>3, <2>4
<1>2. ASSUME Charged(m)' = Charged(m), remaining'[m] = remaining[m]
      PROVE  remaining'[m] + SumFunction(Charges(m)') = Budget[m]
  <2>1. Charges(m)' = Charges(m)
    BY <1>1, <1>2 DEF Charges, Amount
  <2>2. QED
    BY <1>0, <1>2, <2>1
<1>3. CASE Keeps
  BY <1>1, <1>2, <1>3 DEF Charged, Keeps, Of
<1>4. ASSUME NEW c \in Calls, Reserves(c)
      PROVE  remaining'[m] + SumFunction(Charges(m)') = Budget[m]
  <2>1. CASE Of(c) = m
    <3>1. Charged(m)' = Charged(m) \cup {c} /\ c \notin Charged(m)
      BY <1>1, <1>4, <2>1 DEF Charged, Reserves, Open, TypeOK, Of
    <3>2. /\ Charges(m)' \in [Charged(m) \cup {c} -> Nat]
          /\ \A d \in Charged(m) : Charges(m)'[d] = Charges(m)[d]
          /\ Charges(m)'[c] = Amount(c)
      BY <1>1, <3>1 DEF Charges, Amount, Charged
    <3>3. SumFunction(Charges(m)') = Amount(c) + SumFunction(Charges(m))
      <4>1. IsFiniteSet(Charged(m)) /\ Charges(m) \in [Charged(m) -> Nat]
        BY ChargesTypes
      <4>2. SumFunction(Charges(m)') = Charges(m)'[c] + SumFunction(Charges(m))
        BY <3>1, <3>2, <4>1, SumGrows
      <4>3. QED
        BY <3>2, <4>2
    <3>4. remaining'[m] = remaining[m] - Amount(c)
      BY <1>4, <2>1 DEF Reserves, TypeOK
    <3>5. QED
      BY <1>0, <1>1, <3>3, <3>4
  <2>2. CASE Of(c) # m
    <3>1. Charged(m)' = Charged(m)
      BY <1>1, <1>4, <2>2 DEF Charged, Reserves, Open, TypeOK, Of
    <3>2. remaining'[m] = remaining[m]
      BY <1>4, <2>2 DEF Reserves, TypeOK
    <3>3. QED
      BY <1>2, <3>1, <3>2
  <2>3. QED
    BY <2>1, <2>2
<1>5. ASSUME NEW c \in Calls, Spends(c)
      PROVE  remaining'[m] + SumFunction(Charges(m)') = Budget[m]
  <2>1. Charged(m)' = Charged(m)
    BY <1>1, <1>5 DEF Charged, Spends, Open, TypeOK, Of
  <2>2. QED
    BY <1>2, <1>5, <2>1 DEF Spends
<1>6. ASSUME NEW c \in Calls, Releases(c)
      PROVE  remaining'[m] + SumFunction(Charges(m)') = Budget[m]
  <2>1. CASE Of(c) = m
    <3>1. /\ Charged(m)' = Charged(m) \ {c} /\ c \in Charged(m)
          /\ c \notin Charged(m)' /\ Charged(m) = Charged(m)' \cup {c}
      BY <1>1, <1>6, <2>1 DEF Charged, Releases, Open, TypeOK, Of
    <3>2. /\ Charges(m)' \in [Charged(m)' -> Nat]
          /\ \A d \in Charged(m)' : Charges(m)[d] = Charges(m)'[d]
          /\ Charges(m)[c] = Amount(c)
      BY <1>1, <3>1 DEF Charges, Amount, Charged
    <3>3. SumFunction(Charges(m)) = Amount(c) + SumFunction(Charges(m)')
      <4>1. /\ IsFiniteSet(Charged(m)')
            /\ Charges(m) \in [Charged(m)' \cup {c} -> Nat]
        BY <3>1, ChargesTypes, FS_Subset
      <4>2. SumFunction(Charges(m)) = Charges(m)[c] + SumFunction(Charges(m)')
        BY <3>1, <3>2, <4>1, SumGrows
      <4>3. QED
        BY <3>2, <4>2
    <3>4. remaining'[m] = remaining[m] + Amount(c)
      BY <1>6, <2>1 DEF Releases, TypeOK
    <3>5. QED
      BY <1>0, <1>1, <3>3, <3>4
  <2>2. CASE Of(c) # m
    <3>1. Charged(m)' = Charged(m)
      BY <1>1, <1>6, <2>2 DEF Charged, Releases, Open, TypeOK, Of
    <3>2. remaining'[m] = remaining[m]
      BY <1>6, <2>2 DEF Releases, TypeOK
    <3>3. QED
      BY <1>2, <3>1, <3>2
  <2>3. QED
    BY <2>1, <2>2
<1>7. QED
  BY <1>3, <1>4, <1>5, <1>6 DEF MoneyStep

(* What a mandate may still spend and what its attempts hold or have spent *)
(* are always its budget: concurrent debits, refunds by finalisation,      *)
(* recovery and reconciliation neither lose nor make a cent.               *)
THEOREM MoneyIsConserved == Spec => []BudgetConserved
<1>1. Init => BudgetConserved
  <2> SUFFICES ASSUME Init, NEW m \in Mandates
               PROVE  remaining[m] + SumFunction(Charges(m)) = Budget[m]
    BY DEF BudgetConserved, Charges
  <2>1. DOMAIN Charges(m) = {}
    BY DEF Init, Charges, Charged, Open
  <2>2. SumFunction(Charges(m)) = 0
    BY <2>1, SumEmpty
  <2>3. remaining[m] = Budget[m] /\ Budget[m] \in Nat
    BY LedgerAssumption DEF Init
  <2>4. QED
    BY <2>2, <2>3
<1>2. QED
  BY <1>1, BudgetStep, MoneySteps, TypeCorrect, PhasesAlways, RowsAlwaysAgree, PTL DEF Spec

-----------------------------------------------------------------------------
(* Refusals.                                                               *)

Refused(reason) == reason \notin {"none", "ok", "MCP_ERROR", "FINALIZE_LOST"}

(* A call is answered once, when it ends; only an answer of ok commits;    *)
(* and what a worker finds of an attempt it has reserved is never "none",  *)
(* nor an "executing" that somebody else has written.                      *)
Answered ==
  \A c \in Calls :
    /\ pc[c] # "done" => answer[c].reason = "none"
    /\ pc[c] = "reserved" => invocation[c] \notin {"none", "executing"}
    /\ invocation[c] = "committed" => answer[c].reason = "ok"
    /\ Refused(answer[c].reason) => invocation[c] = "none"

LEMMA AnsweredStep == TypeOK /\ Phases /\ Answered /\ [Next]_vars => Answered'
<1> SUFFICES ASSUME TypeOK, Phases, Answered, [Next]_vars PROVE Answered'
  OBVIOUS
<1> USE DEF TypeOK, Phases, Answered, Refused, InvocationStatus, Answer, Continue, Won,
           session, mandates, idem, attempt
<1>1. ASSUME NEW c \in Calls, CheckRefused(c) PROVE Answered'
  BY <1>1 DEF CheckRefused
<1>2. ASSUME NEW c \in Calls, CheckAnswers(c) PROVE Answered'
  BY <1>2 DEF CheckAnswers
<1>3. ASSUME NEW c \in Calls, CheckPasses(c) PROVE Answered'
  BY <1>3 DEF CheckPasses
<1>4. ASSUME NEW c \in Calls, ReserveNonceClash(c) PROVE Answered'
  BY <1>4 DEF ReserveNonceClash
<1>5. ASSUME NEW c \in Calls, ReserveClaimLost(c) PROVE Answered'
  BY <1>5 DEF ReserveClaimLost
<1>6. ASSUME NEW c \in Calls, ReserveDenied(c) PROVE Answered'
  BY <1>6 DEF ReserveDenied
<1>7. ASSUME NEW c \in Calls, ReserveCommits(c) PROVE Answered'
  BY <1>7 DEF ReserveCommits
<1>8. ASSUME NEW c \in Calls, MarkExecuting(c) PROVE Answered'
  BY <1>8 DEF MarkExecuting, TERMINAL_INVOCATION
<1>9. ASSUME NEW c \in Calls, SendRequest(c) PROVE Answered'
  BY <1>9 DEF SendRequest
<1>10. ASSUME NEW c \in Calls, ProviderReturns(c) PROVE Answered'
  BY <1>10 DEF ProviderReturns
<1>11. ASSUME NEW c \in Calls, ProviderRaises(c) PROVE Answered'
  BY <1>11 DEF ProviderRaises
<1>12. ASSUME NEW c \in Calls, MarkExecutedFail(c) PROVE Answered'
  BY <1>12 DEF MarkExecutedFail
<1>13. ASSUME NEW c \in Calls, FinalizeSuccess(c) PROVE Answered'
  BY <1>13 DEF FinalizeSuccess
<1>14. ASSUME NEW c \in Calls, FinalizeLost(c) PROVE Answered'
  BY <1>14 DEF FinalizeLost
<1>15. ASSUME NEW c \in Calls, VendorExecutes(c) PROVE Answered'
  BY <1>15 DEF VendorExecutes
<1>16. ASSUME NEW c \in Calls, VendorLoses(c) PROVE Answered'
  BY <1>16 DEF VendorLoses
<1>17. ASSUME NEW c \in Calls, RecoverAmbiguous(c) PROVE Answered'
  BY <1>17 DEF RecoverAmbiguous
<1>18. ASSUME NEW c \in Calls, RecoverRelease(c) PROVE Answered'
  BY <1>18 DEF RecoverRelease, CanRelease
<1>19. ASSUME NEW c \in Calls, ReconcileCommit(c) PROVE Answered'
  BY <1>19 DEF ReconcileCommit, CanReconcileCommit, ReconcileFrom
<1>20. ASSUME NEW c \in Calls, ReconcileRelease(c) PROVE Answered'
  BY <1>20 DEF ReconcileRelease, CanReconcileRelease, ReconcileFrom
<1>21. ASSUME NEW c \in Calls, Crash(c) PROVE Answered'
  BY <1>21 DEF Crash
<1>22. ASSUME NEW m \in Mandates, RevokeMandate(m) PROVE Answered'
  BY <1>22 DEF RevokeMandate
<1>23. ASSUME NEW m \in Mandates, TimePasses(m) PROVE Answered'
  BY <1>23 DEF TimePasses
<1>24. ASSUME NEW p \in Principals, BillingChanges(p) PROVE Answered'
  BY <1>24 DEF BillingChanges
<1>25. CASE UNCHANGED vars
  BY <1>25 DEF vars
<1>26. QED
  BY <1>1, <1>2, <1>3, <1>4, <1>5, <1>6, <1>7, <1>8, <1>9, <1>10, <1>11,
     <1>12, <1>13, <1>14, <1>15, <1>16, <1>17, <1>18, <1>19, <1>20,
     <1>21, <1>22, <1>23, <1>24, <1>25
     DEF Next, Invoke, Vendor, Recover, Reconcile

(* A call that was refused has no reservation, and one that was told       *)
(* FINALIZE_LOST or MCP_ERROR is charged by an operator or not at all.     *)
THEOREM RefusalsCostNothing == Spec => []RefusalsAreFree
<1>1. Init => Answered
  BY DEF Init, Answered, Refused
<1>2. Answered /\ RowsAgree /\ TypeOK => RefusalsAreFree
  BY DEF Answered, Refused, RowsAgree, TypeOK, InvocationStatus, RefusalsAreFree
<1>3. QED
  BY <1>1, <1>2, AnsweredStep, PhasesAlways, RowsAlwaysAgree, TypeCorrect, PTL DEF Spec

-----------------------------------------------------------------------------
(* Replays.                                                                *)

(* Behind an answer of ok stands a charge, and the claim of its key, if it *)
(* has one, carries the result.                                            *)
Answers(d) ==
  /\ reservation[d] = "committed"
  /\ Keyed(req[d]) => claim[SlotOf(req[d])].result = d

Replayable == \A d \in Calls : answer[d].reason = "ok" => Answers(d)

(* What a key answers is never taken from it: whoever could reserve, spend *)
(* or release under it would hold money that the first attempt holds.      *)
LEMMA AnswersLast ==
  ASSUME TypeOK, Exclusive, MoneyStep, NEW d \in Calls, Answers(d)
  PROVE  Answers(d)'
<1> USE DEF Answers, TypeOK
<1>1. UNCHANGED <<req, SlotOf(req[d]), Keyed(req[d])>>
  BY DEF MoneyStep, SlotOf, Keyed
<1>2. CASE Keeps
  BY <1>1, <1>2 DEF Keeps
<1>3. ASSUME NEW c \in Calls, reservation[c] # "committed",
             reservation' = [reservation EXCEPT ![c] = reservation'[c]],
             claim' = claim \/ (/\ Keyed(req[c]) /\ ~SameOperation(c, d)
                               /\ \E x : claim' = [claim EXCEPT ![SlotOf(req[c])] = x])
      PROVE  Answers(d)'
  <2>1. reservation'[d] = "committed"
    BY <1>3
  <2>2. ASSUME Keyed(req[d]) PROVE claim'[SlotOf(req[d])] = claim[SlotOf(req[d])]
    <3>1. CASE claim' = claim
      BY <3>1
    <3>2. CASE Keyed(req[c]) /\ ~SameOperation(c, d)
      <4>1. SlotOf(req[c]) # SlotOf(req[d])
        BY <2>2, <3>2 DEF SameOperation
      <4>2. SlotOf(req[d]) \in Slots
        BY <2>2, SlotTypes
      <4>3. QED
        BY <1>3, <4>1, <4>2
    <3>3. QED
      BY <1>3, <3>1, <3>2
  <2>3. QED
    BY <1>1, <2>1, <2>2
<1>4. ASSUME NEW c \in Calls, Reserves(c) PROVE Answers(d)'
  <2>1. ~SameOperation(c, d)
    BY <1>4, FreeSlot DEF Reserves, Open, SameOperation
  <2>2. QED
    BY <1>3, <1>4, <2>1 DEF Reserves
<1>5. ASSUME NEW c \in Calls, Spends(c) \/ Releases(c) PROVE Answers(d)'
  <2>1. reservation[c] = "held" /\ c # d
    BY <1>5 DEF Spends, Releases
  <2>2. ~SameOperation(c, d)
    BY <2>1 DEF Exclusive, OneChargePerKey, Open
  <2>3. QED
    BY <1>3, <1>5, <2>1, <2>2 DEF Spends, Releases, Completed, Cleared
<1>6. QED
  BY <1>2, <1>4, <1>5 DEF MoneyStep

(* Every step keeps the answers replayable.                                *)
LEMMA ReplayableStep ==
  TypeOK /\ Phases /\ RowsAgree /\ Exclusive /\ Replayable /\ [Next]_vars => Replayable'
<1> SUFFICES ASSUME TypeOK, Phases, RowsAgree, Exclusive, Replayable, [Next]_vars,
                    NEW d \in Calls, answer'[d].reason = "ok"
             PROVE  Answers(d)'
  BY DEF Replayable, Answers
<1>1. CASE answer'[d] = answer[d]
  BY <1>1, MoneySteps, AnswersLast DEF Replayable
<1>2. CASE FinalizeSuccess(d)
  BY <1>2, SlotTypes DEF FinalizeSuccess, Bill, Completed, Answers, TypeOK
<1>3. ~CheckAnswers(d)
  BY DEF CheckAnswers, Answer, CheckVerdict, ClaimVerdict, LimitVerdict, TypeOK
<1>4. ~ReserveClaimLost(d)
  BY DEF ReserveClaimLost, LostVerdicts, Answer, ClaimVerdict, TypeOK
<1>5. QED
  BY <1>1, <1>2, <1>3, <1>4, AnswerSources

(* What a retry finds under the key of an operation that was answered.     *)
LEMMA RetryFinds ==
  ASSUME TypeOK, Exclusive, Replayable, NEW c \in Calls, NEW d \in Calls,
         answer[d].reason = "ok", Retries(c, d)
  PROVE  /\ Claimed(req[c]) /\ claim[SlotOf(req[c])].status = "completed"
         /\ ClaimVerdict(req[c]) = "replay" /\ Stored(req[c], "replay") = d
<1>1. /\ SlotOf(req[c]) = SlotOf(req[d]) /\ Keyed(req[c]) /\ Keyed(req[d])
      /\ Fingerprint(req[c]) = Fingerprint(req[d])
  BY DEF Retries, SameOperation
<1>2. Answers(d) /\ d # None
  BY LedgerAssumption DEF Replayable
<1>3. ClaimMatches(d)
  BY <1>1, <1>2 DEF Exclusive, ClaimsBacked, AttemptsClaim, Answers, Open
<1>4. QED
  BY <1>1, <1>2, <1>3 DEF ClaimMatches, Answers, Claimed, ClaimVerdict, Stored

(* Every step that ends a retry replays the answer, or refuses it for one  *)
(* of the reasons that come before the key.                                *)
LEMMA ReplayStep ==
  ASSUME TypeOK, Exclusive, Replayable, [Next]_vars, NEW c \in Calls, NEW d \in Calls,
         answer[d].reason = "ok", Retries(c, d)
  PROVE  ReplaysIt(c, d)
<1> SUFFICES ASSUME pc[c] \in {"idle", "checked"} PROVE ReplaysIt(c, d)
  BY DEF ReplaysIt
<1> USE DEF ReplaysIt, Answer, Continue, TypeOK, session, BeforeReplay
<1>0. /\ Claimed(req[c]) /\ claim[SlotOf(req[c])].status = "completed"
      /\ ClaimVerdict(req[c]) = "replay" /\ Stored(req[c], "replay") = d
  BY RetryFinds
<1>1. ASSUME NEW e \in Calls, CheckRefused(e) PROVE ReplaysIt(c, d)
  BY <1>1 DEF CheckRefused
<1>2. ASSUME NEW e \in Calls, CheckAnswers(e) PROVE ReplaysIt(c, d)
  <2>1. CheckVerdict(req[c]) \in {"MANDATE_REVOKED", "MANDATE_EXPIRED", "replay"}
    BY <1>0 DEF CheckVerdict
  <2>2. CASE e = c
    BY <1>0, <1>2, <2>1, <2>2 DEF CheckAnswers, ReplayOf
  <2>3. CASE e # c
    BY <1>2, <2>3 DEF CheckAnswers
  <2>4. QED
    BY <2>2, <2>3
<1>3. ASSUME NEW e \in Calls, CheckPasses(e) PROVE ReplaysIt(c, d)
  <2>1. CheckVerdict(req[c]) # "pass"
    BY <1>0 DEF CheckVerdict
  <2>2. QED
    BY <1>3, <2>1 DEF CheckPasses
<1>4. ASSUME NEW e \in Calls, ReserveNonceClash(e) PROVE ReplaysIt(c, d)
  BY <1>4 DEF ReserveNonceClash
<1>5. ASSUME NEW e \in Calls, ReserveClaimLost(e) PROVE ReplaysIt(c, d)
  BY <1>0, <1>5 DEF ReserveClaimLost, LostVerdicts, ReplayOf
<1>6. ASSUME NEW e \in Calls, ReserveDenied(e) PROVE ReplaysIt(c, d)
  BY <1>0, <1>6 DEF ReserveDenied
<1>7. ASSUME NEW e \in Calls, ReserveCommits(e) PROVE ReplaysIt(c, d)
  BY <1>0, <1>7 DEF ReserveCommits
<1>8. ASSUME NEW e \in Calls, Crash(e) PROVE ReplaysIt(c, d)
  BY <1>8 DEF Crash
<1>9. ASSUME NEW e \in Calls,
             \/ MarkExecuting(e) \/ SendRequest(e) \/ ProviderReturns(e) \/ ProviderRaises(e)
             \/ MarkExecutedFail(e) \/ FinalizeSuccess(e) \/ FinalizeLost(e)
      PROVE  ReplaysIt(c, d)
  <2>1. e # c
    BY <1>9 DEF MarkExecuting, SendRequest, ProviderReturns, ProviderRaises,
                MarkExecutedFail, FinalizeSuccess, FinalizeLost
  <2>2. pc'[c] = pc[c]
    BY <1>9, <2>1 DEF MarkExecuting, SendRequest, ProviderReturns, ProviderRaises,
                      MarkExecutedFail, FinalizeSuccess, FinalizeLost
  <2>3. QED
    BY <2>2
<1>10. ASSUME NEW e \in Calls, Vendor(e) \/ Recover(e) \/ Reconcile(e) PROVE ReplaysIt(c, d)
  BY <1>10 DEF Vendor, VendorExecutes, VendorLoses, Recover, RecoverAmbiguous, RecoverRelease,
               Reconcile, ReconcileCommit, ReconcileRelease
<1>11. ASSUME NEW m \in Mandates, RevokeMandate(m) \/ TimePasses(m) PROVE ReplaysIt(c, d)
  BY <1>11 DEF RevokeMandate, TimePasses
<1>12. ASSUME NEW p \in Principals, BillingChanges(p) PROVE ReplaysIt(c, d)
  BY <1>12 DEF BillingChanges
<1>13. CASE UNCHANGED vars
  BY <1>13 DEF vars
<1>14. QED
  BY <1>1, <1>2, <1>3, <1>4, <1>5, <1>6, <1>7, <1>8, <1>9, <1>10, <1>11, <1>12, <1>13
     DEF Next, Invoke

(* "Completed claims still replay": whoever retries what was answered ok   *)
(* gets that answer, on SQLite and on Postgres, whatever has happened to   *)
(* the budget, the call cap, the account or other holders of the key.      *)
THEOREM AnswersAreReplayed == Spec => AnsweredKeysReplay
<1>1. Init => Replayable
  BY DEF Init, Replayable
<1>2. TypeOK /\ Exclusive /\ Replayable /\ [Next]_vars =>
        [\A c, d \in Calls : answer[d].reason = "ok" /\ Retries(c, d) => ReplaysIt(c, d)]_vars
  BY ReplayStep
<1>3. QED
  BY <1>1, <1>2, ReplayableStep, ExclusiveAlways, PhasesAlways, RowsAlwaysAgree, TypeCorrect, PTL
     DEF Spec, AnsweredKeysReplay

-----------------------------------------------------------------------------
(* The ledger implements the spend authority.                              *)

(* Every step of the code is a step of the spend authority, or none.       *)
LEMMA AuthorityStep ==
  TypeOK /\ CallsCounted /\ Exclusive /\ MoneyStep => [Authority!Next]_(Authority!vars)
<1> SUFFICES ASSUME TypeOK, CallsCounted, Exclusive, MoneyStep
             PROVE  [Authority!Next]_(Authority!vars)
  OBVIOUS
<1>1. req' = req
  BY DEF MoneyStep
<1>2. [c \in Calls |-> OrderOf(c)]' = [c \in Calls |-> OrderOf(c)]
  BY <1>1 DEF OrderOf, Of, Amount
<1>3. CASE Keeps
  BY <1>2, <1>3 DEF Keeps, Authority!vars
<1>4. ASSUME NEW c \in Calls, Reserves(c) PROVE Authority!Hold(c)
  <2>1. Authority!Alone(c)
    <3> SUFFICES ASSUME NEW d \in Calls, d # c, OrderOf(c).operation # None,
                        OrderOf(d).operation = OrderOf(c).operation
                 PROVE  reservation[d] \notin {"held", "committed"}
      BY DEF Authority!Alone
    <3>1. SameOperation(c, d)
      BY DEF OrderOf, SameOperation
    <3>2. QED
      BY <1>4, <3>1, FreeSlot DEF Reserves, SameOperation, Open
  <2>2. Amount(c) <= remaining[Of(c)]
    BY <1>4, LedgerAssumption DEF Reserves, CanDebit, TypeOK, Amount, Of
  <2>3. QED
    BY <1>2, <1>4, <2>1, <2>2 DEF Authority!Hold, Reserves, CanDebit, UnderCallCap, OrderOf
<1>5. ASSUME NEW c \in Calls, Spends(c) PROVE Authority!Spend(c)
  BY <1>2, <1>5 DEF Spends, Authority!Spend
<1>6. ASSUME NEW c \in Calls, Releases(c) PROVE Authority!GiveBack(c)
  <2>1. calls_used[Of(c)] > 0
    <3>1. Of(c) \in Mandates
      BY LedgerAssumption DEF TypeOK, Of
    <3>2. IsFiniteSet(Charged(Of(c))) /\ c \in Charged(Of(c))
      BY <1>6, LedgerAssumption, FS_Subset DEF Charged, Releases, Open
    <3>3. QED
      BY <3>1, <3>2, FS_EmptySet, FS_CardinalityType DEF CallsCounted, TypeOK
  <2>2. QED
    BY <1>2, <1>6, <2>1 DEF Releases, Authority!GiveBack, OrderOf, TypeOK
<1>7. QED
  BY <1>3, <1>4, <1>5, <1>6 DEF MoneyStep, Authority!Next

(* Seen from its mandates, the whole machinery - claims, savepoints, CASes,*)
(* recovery, reconciliation - only ever holds, spends and gives back, once *)
(* per attempt and one at a time per key.                                  *)
THEOREM ImplementsAuthority == Spec => SpendsByAuthority
<1>1. Init => Authority!Init
  <2> SUFFICES ASSUME Init PROVE Authority!Init
    OBVIOUS
  <2>1. ASSUME NEW c \in Calls PROVE OrderOf(c) \in Authority!Orders
    BY <2>1, LedgerAssumption DEF Init, OrderOf, Authority!Orders, Of, Amount, Keyed, SlotOf, Slots
  <2>2. QED
    BY <2>1 DEF Init, Authority!Init
<1>2. QED
  BY <1>1, AuthorityStep, MoneySteps, CallCapHolds, ExclusiveAlways, TypeCorrect, PhasesAlways,
     RowsAlwaysAgree, PTL DEF Spec, SpendsByAuthority, Authority!Spec
=============================================================================
