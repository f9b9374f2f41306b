------------------------------- MODULE Ledger -------------------------------
(***************************************************************************)
(* The spending core of The Crossing: crossing/ledger.py together with the *)
(* caller that drives it, crossing/lifecycle.py:invoke().                  *)
(*                                                                         *)
(* A call is one execution of invoke().  It makes at most one attempt, so  *)
(* the rows an attempt owns (invocation, reservation, receipt, outbox row, *)
(* ledger events) are indexed by the call that made it.  Calls run         *)
(* concurrently; between the transactions of a call anything may happen:   *)
(* other calls, recovery, an operator's reconciliation, a revocation, the  *)
(* passing of time, the death of the process.                              *)
(*                                                                         *)
(* One action is one database transaction, except that the first one is    *)
(* split in two (Check, Reserve): on Postgres (READ COMMITTED) other       *)
(* transactions commit between what invoke() reads and what it writes.     *)
(* SQLite opens it with BEGIN IMMEDIATE, so nobody else gets in: that is   *)
(* what Serialized = TRUE says.                                            *)
(***************************************************************************)
EXTENDS Integers, FiniteSets

CONSTANTS
  Calls,       \* executions of invoke()
  Mandates,
  Principals,
  Tools,       \* a tool on a server, called with some arguments
  Keys,        \* idempotency keys
  Nonces,      \* request nonces
  None,        \* SQL NULL
  Owner,       \* the principal of a mandate
  Price,       \* what providers.quote answers for a tool
  Budget,      \* a mandate's spend_limit_cents
  MaxCalls,    \* a mandate's max_calls, or None
  Expiring,    \* the mandates that have an expires_at
  Billed,      \* the principals whose account needs a paying Stripe customer:
               \* none if STRIPE_SECRET_KEY is not set
  Requests,    \* the bodies a client may post to /v1/invoke
  Serialized,  \* TRUE: SQLite, BEGIN IMMEDIATE; FALSE: Postgres, READ COMMITTED
  LateEvidence \* TRUE: an operator may certify "did not execute" while the
               \* process that is about to send the request is still alive

ASSUME LedgerAssumption ==
  /\ IsFiniteSet(Calls)
  /\ None \notin Calls \cup Keys \cup Nonces \cup Nat \cup (Mandates \X Tools)
  /\ Owner \in [Mandates -> Principals]
  /\ Price \in [Tools -> Nat]
  /\ Budget \in [Mandates -> Nat]
  /\ MaxCalls \in [Mandates -> Nat \cup {None}]
  /\ Expiring \subseteq Mandates
  /\ Billed \subseteq Principals
  /\ Requests \subseteq [mandate : Mandates, tool : Tools,
                         key : Keys \cup {None}, nonce : Nonces \cup {None}]
  /\ Serialized \in BOOLEAN
  /\ LateEvidence \in BOOLEAN

VARIABLES
  (* a running invoke() *)
  req,         \* the request a call carries
  pc,          \* how far the call has come
  seen,        \* the Mandate object in the call's session, as it was read
  answer,      \* what the call answered
  (* tables mandates and accounts *)
  remaining, calls_used, revoked,
  age,         \* the clock against expires_at
  billable,    \* is_billable of a principal's account
  (* tables idempotency_records and used_nonces *)
  claim, used_nonces,
  (* the rows of the attempt a call made *)
  invocation, reservation, receipts, outbox, events,
  (* the upstream tool server *)
  vendor

session  == <<req, pc, seen, answer>>
mandates == <<remaining, calls_used, revoked, age, billable>>
idem     == <<claim, used_nonces>>
attempt  == <<invocation, reservation, receipts, outbox, events>>
vars     == <<session, mandates, idem, attempt, vendor>>

-----------------------------------------------------------------------------
Slots == Principals \X Keys     \* uq_idem_principal_key

Row == [remaining : Nat, calls_used : Nat, revoked : BOOLEAN]

Reasons == {"none", "ok", "replay", "MANDATE_REVOKED", "MANDATE_EXPIRED",
            "IDEMPOTENCY_CONFLICT", "IN_PROGRESS", "NONCE_REPLAY", "REFUSED",
            "MAX_CALLS_EXCEEDED", "BUDGET_EXCEEDED", "BILLING_REQUIRED",
            "MCP_ERROR", "FINALIZE_LOST", "ERROR"}

InvocationStatus ==
  {"none", "reserved", "executing", "committed", "released", "executed_fail",
   "ambiguous", "reconciled_committed", "reconciled_released"}

EventKinds == {"deny", "reserve", "commit", "release", "reconciled"}

TERMINAL_INVOCATION == InvocationStatus \ {"none", "reserved", "executing"}

ReconcileFrom == {"ambiguous", "executed_fail"}

SlotOf(r) == <<Owner[r.mandate], r.key>>

(* request_fingerprint: a digest of mandate, server, tool and arguments *)
Fingerprint(r) == <<r.mandate, r.tool>>

Keyed(r)  == r.key # None
Amount(c) == Price[req[c].tool]
Of(c)     == req[c].mandate

Unclaimed == [status |-> "absent", hash |-> None, result |-> None]

UnderCallCap(m, used) == MaxCalls[m] = None \/ used < MaxCalls[m]

Init ==
  /\ req \in [Calls -> Requests]
  /\ pc = [c \in Calls |-> "idle"]
  /\ seen = [c \in Calls |-> None]
  /\ answer = [c \in Calls |-> [reason |-> "none", result |-> None]]
  /\ remaining = Budget
  /\ calls_used = [m \in Mandates |-> 0]
  /\ revoked = [m \in Mandates |-> FALSE]
  /\ age = [m \in Mandates |-> "live"]
  /\ billable = [p \in Principals |-> p \notin Billed]
  /\ claim = [s \in Slots |-> Unclaimed]
  /\ used_nonces = {}
  /\ invocation = [c \in Calls |-> "none"]
  /\ reservation = [c \in Calls |-> "none"]
  /\ receipts = [c \in Calls |-> 0]
  /\ outbox = [c \in Calls |-> 0]
  /\ events = [c \in Calls |-> [k \in EventKinds |-> 0]]
  /\ vendor = [c \in Calls |-> "none"]

-----------------------------------------------------------------------------
(* Transactions.                                                           *)

(* SQLite's write lock is taken by the first statement of a transaction    *)
(* and held by a checked call until it has reserved or given up.           *)
LockFree(c) == Serialized => \A d \in Calls : d # c => pc[d] # "checked"

Record(c, kinds) ==
  [events EXCEPT ![c] =
     [k \in EventKinds |-> IF k \in kinds THEN events[c][k] + 1 ELSE events[c][k]]]

Answer(c, reason, result) ==
  /\ pc' = [pc EXCEPT ![c] = "done"]
  /\ answer' = [answer EXCEPT ![c] = [reason |-> reason, result |-> result]]

Continue(c, where) ==
  /\ pc' = [pc EXCEPT ![c] = where]
  /\ UNCHANGED answer

(* Variant: the stored request hash is not compared. *)
ClaimVerdictAnyHash(r) ==
  LET known == claim[SlotOf(r)]
  IN  IF known.status = "completed" /\ known.result # None THEN "replay"
      ELSE "IN_PROGRESS"

(* What a claim that already exists makes of a request for its slot.       *)
ClaimVerdict(r) ==
  LET known == claim[SlotOf(r)]
  IN  IF known.hash # Fingerprint(r) THEN "IDEMPOTENCY_CONFLICT"
      ELSE IF known.status = "completed" /\ known.result # None THEN "replay"
      ELSE "IN_PROGRESS"

(* Variant: only an attempt still under way blocks its key. *)
ClaimedInProgress(r) == Keyed(r) /\ claim[SlotOf(r)].status = "in_progress"

Claimed(r) == Keyed(r) /\ claim[SlotOf(r)].status # "absent"

(* The result a replay hands out: the one stored with the claim.           *)
Stored(r, reason) == IF reason = "replay" THEN claim[SlotOf(r)].result ELSE None

NonceUsed(r) == r.nonce # None /\ <<Owner[r.mandate], r.nonce>> \in used_nonces

(* The last lines of check_tool, on the mandate as it was just read, and   *)
(* require_billable.                                                       *)
LimitVerdict(m, price) ==
  IF ~UnderCallCap(m, calls_used[m]) THEN "MAX_CALLS_EXCEEDED"
  ELSE IF price > remaining[m] THEN "BUDGET_EXCEEDED"
  ELSE IF ~billable[Owner[m]] THEN "BILLING_REQUIRED"
  ELSE "pass"

(* Variant: the limits are checked before the key is looked up. *)
CheckVerdictLimitsFirst(r) ==
  LET m == r.mandate
  IN  IF revoked[m] THEN "MANDATE_REVOKED"
      ELSE IF age[m] = "past" THEN "MANDATE_EXPIRED"
      ELSE IF LimitVerdict(m, Price[r.tool]) # "pass" THEN LimitVerdict(m, Price[r.tool])
      ELSE IF Claimed(r) THEN ClaimVerdict(r)
      ELSE IF NonceUsed(r) THEN "NONCE_REPLAY"
      ELSE "pass"

(* invoke() up to the reservation: the early returns, in their order.      *)
CheckVerdict(r) ==
  LET m == r.mandate
  IN  IF revoked[m] THEN "MANDATE_REVOKED"
      ELSE IF age[m] = "past" THEN "MANDATE_EXPIRED"
      ELSE IF Claimed(r) THEN ClaimVerdict(r)
      ELSE IF NonceUsed(r) THEN "NONCE_REPLAY"
      ELSE LimitVerdict(m, Price[r.tool])

(* A policy check that is not modelled here refuses the call: signature,   *)
(* revoked agent, tool or server not granted, per-call cap, bad arguments. *)
(* Each records a deny and returns.                                        *)
CheckRefused(c) ==
  /\ pc[c] = "idle" /\ LockFree(c)
  /\ Answer(c, "REFUSED", None)
  /\ events' = Record(c, {"deny"})
  /\ UNCHANGED <<req, seen, mandates, idem, invocation, reservation, receipts, outbox, vendor>>

CheckAnswers(c) ==
  LET verdict == CheckVerdict(req[c])
  IN  /\ pc[c] = "idle" /\ LockFree(c)
      /\ verdict # "pass"
      /\ Answer(c, verdict, Stored(req[c], verdict))
      /\ events' = Record(c, IF verdict \in {"replay", "IN_PROGRESS"} THEN {} ELSE {"deny"})
      /\ UNCHANGED <<req, seen, mandates, idem, invocation, reservation, receipts, outbox, vendor>>

CheckPasses(c) ==
  LET m == Of(c)
  IN  /\ pc[c] = "idle" /\ LockFree(c)
      /\ CheckVerdict(req[c]) = "pass"
      /\ Continue(c, "checked")
      /\ seen' = [seen EXCEPT ![c] = [remaining |-> remaining[m],
                                      calls_used |-> calls_used[m],
                                      revoked |-> revoked[m]]]
      /\ UNCHANGED <<req, mandates, idem, attempt, vendor>>

-----------------------------------------------------------------------------
(* reserve_and_commit: nonce, claim, debit, reservation and invocation.    *)

(* Variant: read, compare in the session, write. *)
CanDebitUnchecked(m, amount) ==
  ~revoked[m] /\ UnderCallCap(m, calls_used[m]) /\ age[m] = "live"

(* Variant: the WHERE clause without max_calls. *)
CanDebitUncapped(m, amount) ==
  remaining[m] >= amount /\ ~revoked[m] /\ age[m] = "live"

(* WHERE clause of the debit, evaluated on the row as it is now.           *)
CanDebit(m, amount) ==
  /\ remaining[m] >= amount
  /\ ~revoked[m]
  /\ UnderCallCap(m, calls_used[m])
  /\ age[m] = "live"

(* _reserve_deny_reason: read from the session's Mandate object, which     *)
(* session.get() hands back as it was when the call was checked.           *)
DenyReason(c) ==
  LET row == seen[c]
  IN  IF row.revoked THEN "BUDGET_EXCEEDED"
      ELSE IF age[Of(c)] = "past" THEN "MANDATE_EXPIRED"
      ELSE IF row.remaining < Amount(c) THEN "BUDGET_EXCEEDED"
      ELSE IF ~UnderCallCap(Of(c), row.calls_used) THEN "MAX_CALLS_EXCEEDED"
      ELSE "BUDGET_EXCEEDED"

(* Variant: the nonce is looked up and never stored. *)
BurnNothing(r) == UNCHANGED used_nonces

(* The UsedNonce row is pending in the session, outside the savepoint.     *)
BurnNonce(r) ==
  used_nonces' = used_nonces \cup
                   (IF r.nonce = None THEN {} ELSE {<<Owner[r.mandate], r.nonce>>})

(* Another call used the nonce after this one had looked: the unique       *)
(* constraint fails outside the savepoint, the whole transaction rolls     *)
(* back and the HTTP handler answers 500.                                  *)
ReserveNonceClash(c) ==
  /\ pc[c] = "checked"
  /\ NonceUsed(req[c])
  /\ Answer(c, "ERROR", None)
  /\ seen' = [seen EXCEPT ![c] = None]
  /\ UNCHANGED <<req, mandates, idem, attempt, vendor>>

(* The claim that was in the way is read again.  On Postgres a release may *)
(* have deleted it in between.                                             *)
LostVerdicts(r) ==
  {ClaimVerdict(r)} \cup
    (IF ~Serialized /\ claim[SlotOf(r)].status = "in_progress"
     THEN {"IDEMPOTENCY_CONFLICT"} ELSE {})

ReserveClaimLost(c) ==
  /\ pc[c] = "checked"
  /\ ~NonceUsed(req[c])
  /\ Claimed(req[c])
  /\ BurnNonce(req[c])
  /\ \E verdict \in LostVerdicts(req[c]) :
       Answer(c, verdict, Stored(req[c], verdict))
  /\ seen' = [seen EXCEPT ![c] = None]
  /\ UNCHANGED <<req, mandates, claim, attempt, vendor>>

(* Variant: the claim and the reservation outlive a failed debit. *)
ReserveDeniedKeepsRows(c) ==
  /\ pc[c] = "checked"
  /\ ~NonceUsed(req[c])
  /\ ~Claimed(req[c])
  /\ ~CanDebit(Of(c), Amount(c))
  /\ BurnNonce(req[c])
  /\ Answer(c, DenyReason(c), None)
  /\ seen' = [seen EXCEPT ![c] = None]
  /\ reservation' = [reservation EXCEPT ![c] = "held"]
  /\ UNCHANGED <<req, mandates, claim, invocation, receipts, outbox, events, vendor>>

(* The savepoint takes the claim down with it; the nonce and the deny      *)
(* event are outside it and stay.                                          *)
ReserveDenied(c) ==
  /\ pc[c] = "checked"
  /\ ~NonceUsed(req[c])
  /\ ~Claimed(req[c])
  /\ ~CanDebit(Of(c), Amount(c))
  /\ BurnNonce(req[c])
  /\ Answer(c, DenyReason(c), None)
  /\ seen' = [seen EXCEPT ![c] = None]
  /\ events' = Record(c, {"deny"})
  /\ UNCHANGED <<req, mandates, claim, invocation, reservation, receipts, outbox, vendor>>

ReserveCommits(c) ==
  /\ pc[c] = "checked"
  /\ ~NonceUsed(req[c])
  /\ ~Claimed(req[c])
  /\ CanDebit(Of(c), Amount(c))
  /\ BurnNonce(req[c])
  /\ Continue(c, "reserved")
  /\ seen' = [seen EXCEPT ![c] = None]
  /\ remaining' = [remaining EXCEPT ![Of(c)] = @ - Amount(c)]
  /\ calls_used' = [calls_used EXCEPT ![Of(c)] = @ + 1]
  /\ claim' = IF Keyed(req[c])
              THEN [claim EXCEPT ![SlotOf(req[c])] =
                      [status |-> "in_progress", hash |-> Fingerprint(req[c]), result |-> None]]
              ELSE claim
  /\ invocation' = [invocation EXCEPT ![c] = "reserved"]
  /\ reservation' = [reservation EXCEPT ![c] = "held"]
  /\ events' = Record(c, {"reserve"})
  /\ UNCHANGED <<req, revoked, age, billable, receipts, outbox, vendor>>

-----------------------------------------------------------------------------
(* Dispatch: the durable barrier, then the request to the provider.        *)

Won(c, status) == invocation' = [invocation EXCEPT ![c] = status]

MarkExecuting(c) ==
  /\ pc[c] = "reserved" /\ LockFree(c)
  /\ IF invocation[c] = "reserved"
     THEN Won(c, "executing") /\ Continue(c, "executing")
     ELSE /\ Answer(c, IF invocation[c] \in TERMINAL_INVOCATION
                       THEN "FINALIZE_LOST" ELSE "IN_PROGRESS", None)
          /\ UNCHANGED invocation
  /\ UNCHANGED <<req, seen, mandates, idem, reservation, receipts, outbox, events, vendor>>

(* providers.invoke puts the request on the wire.                          *)
SendRequest(c) ==
  /\ pc[c] = "executing"
  /\ Continue(c, "calling")
  /\ vendor' = [vendor EXCEPT ![c] = "in_flight"]
  /\ UNCHANGED <<req, seen, mandates, idem, attempt>>

ProviderReturns(c) ==
  /\ pc[c] = "calling"
  /\ vendor[c] = "executed"
  /\ Continue(c, "returned")
  /\ UNCHANGED <<req, seen, mandates, idem, attempt, vendor>>

(* Refused before a byte was sent, a transport error, a timeout, an error  *)
(* reply: the caller cannot tell whether the tool ran, or still will.      *)
ProviderRaises(c) ==
  /\ pc[c] \in {"executing", "calling"}
  /\ Continue(c, "raised")
  /\ UNCHANGED <<req, seen, mandates, idem, attempt, vendor>>

(* Variant: a provider error frees the key for a retry. *)
MarkExecutedFailClears(c) ==
  /\ pc[c] = "raised" /\ LockFree(c)
  /\ IF invocation[c] = "executing" THEN Won(c, "executed_fail") ELSE UNCHANGED invocation
  /\ claim' = IF Keyed(req[c]) THEN [claim EXCEPT ![SlotOf(req[c])] = Unclaimed] ELSE claim
  /\ Answer(c, "MCP_ERROR", None)
  /\ UNCHANGED <<req, seen, mandates, used_nonces, reservation, receipts, outbox, events, vendor>>

MarkExecutedFail(c) ==
  /\ pc[c] = "raised" /\ LockFree(c)
  /\ IF invocation[c] = "executing" THEN Won(c, "executed_fail") ELSE UNCHANGED invocation
  /\ Answer(c, "MCP_ERROR", None)
  /\ UNCHANGED <<req, seen, mandates, idem, reservation, receipts, outbox, events, vendor>>

VendorExecutes(c) ==
  /\ vendor[c] = "in_flight"
  /\ vendor' = [vendor EXCEPT ![c] = "executed"]
  /\ UNCHANGED <<session, mandates, idem, attempt>>

VendorLoses(c) ==
  /\ vendor[c] = "in_flight"
  /\ vendor' = [vendor EXCEPT ![c] = "lost"]
  /\ UNCHANGED <<session, mandates, idem, attempt>>

-----------------------------------------------------------------------------
(* Terminal transitions.                                                   *)

Completed(c, result) ==
  IF Keyed(req[c])
  THEN [claim EXCEPT ![SlotOf(req[c])] =
          [status |-> "completed", hash |-> Fingerprint(req[c]), result |-> result]]
  ELSE claim

(* Variant: a release leaves the claim in progress. *)
ClearedNot(c) == claim

Cleared(c) ==
  IF Keyed(req[c]) THEN [claim EXCEPT ![SlotOf(req[c])] = Unclaimed] ELSE claim

(* One receipt per reservation, one outbox row per receipt.                *)
Bill(c) ==
  /\ reservation' = [reservation EXCEPT ![c] = "committed"]
  /\ receipts' = [receipts EXCEPT ![c] = @ + 1]
  /\ outbox' = [outbox EXCEPT ![c] = @ + 1]
  /\ UNCHANGED mandates

(* Variant: reconciliation issues the receipt and bills nobody. *)
BillOnceUnqueued(c) ==
  /\ reservation' = [reservation EXCEPT ![c] = "committed"]
  /\ receipts' = [receipts EXCEPT ![c] = IF @ = 0 THEN 1 ELSE @]
  /\ UNCHANGED <<mandates, outbox>>

(* _apply_success_economics: what is already billed is not billed again.   *)
BillOnce(c) ==
  /\ reservation' = [reservation EXCEPT ![c] = "committed"]
  /\ receipts' = [receipts EXCEPT ![c] = IF @ = 0 THEN 1 ELSE @]
  /\ outbox' = [outbox EXCEPT ![c] = IF @ = 0 THEN 1 ELSE @]
  /\ UNCHANGED mandates

(* Variant: the refund gives back the call and keeps the money. *)
RefundCallOnly(c) ==
  /\ reservation' = [reservation EXCEPT ![c] = "released"]
  /\ calls_used' = [calls_used EXCEPT ![Of(c)] = IF @ > 0 THEN @ - 1 ELSE 0]
  /\ UNCHANGED <<remaining, revoked, age, billable, receipts, outbox>>

(* Variant: the refund forgets the call. *)
RefundMoneyOnly(c) ==
  /\ reservation' = [reservation EXCEPT ![c] = "released"]
  /\ remaining' = [remaining EXCEPT ![Of(c)] = @ + Amount(c)]
  /\ UNCHANGED <<calls_used, revoked, age, billable, receipts, outbox>>

Refund(c) ==
  /\ reservation' = [reservation EXCEPT ![c] = "released"]
  /\ remaining' = [remaining EXCEPT ![Of(c)] = @ + Amount(c)]
  /\ calls_used' = [calls_used EXCEPT ![Of(c)] = IF @ > 0 THEN @ - 1 ELSE 0]
  /\ UNCHANGED <<revoked, age, billable, receipts, outbox>>

(* Reservation CAS and invocation CAS; a savepoint undoes both if either   *)
(* loses.                                                                  *)
CanFinalize(c) == reservation[c] = "held" /\ invocation[c] = "executing"

(* Variant: mode="release" also takes an attempt that was dispatched. *)
CanReleaseDispatched(c) ==
  reservation[c] = "held" /\ invocation[c] \in {"reserved", "executing"}

CanRelease(c) == reservation[c] = "held" /\ invocation[c] = "reserved"

(* Variant: an exception of the provider falls through to the success path. *)
FinalizeAfterError(c) ==
  /\ pc[c] \in {"returned", "raised"} /\ LockFree(c)
  /\ CanFinalize(c)
  /\ Bill(c)
  /\ Won(c, "committed")
  /\ events' = Record(c, {"commit"})
  /\ claim' = Completed(c, c)
  /\ Answer(c, "ok", c)
  /\ UNCHANGED <<req, seen, used_nonces, vendor>>

FinalizeSuccess(c) ==
  /\ pc[c] = "returned" /\ LockFree(c)
  /\ CanFinalize(c)
  /\ Bill(c)
  /\ Won(c, "committed")
  /\ events' = Record(c, {"commit"})
  /\ claim' = Completed(c, c)
  /\ Answer(c, "ok", c)
  /\ UNCHANGED <<req, seen, used_nonces, vendor>>

(* Variant: a lost finalisation is tried again until it wins. *)
FinalizeLostRetries(c) ==
  /\ pc[c] = "returned" /\ LockFree(c)
  /\ ~CanFinalize(c)
  /\ UNCHANGED vars

FinalizeLost(c) ==
  /\ pc[c] = "returned" /\ LockFree(c)
  /\ ~CanFinalize(c)
  /\ Answer(c, "FINALIZE_LOST", None)
  /\ UNCHANGED <<req, seen, mandates, idem, attempt, vendor>>

(* Variant: recovery writes "ambiguous" without comparing first. *)
RecoverAmbiguousBlind(c) ==
  /\ LockFree(c)
  /\ invocation[c] # "none"
  /\ Won(c, "ambiguous")
  /\ UNCHANGED <<session, mandates, idem, reservation, receipts, outbox, events, vendor>>

(* recover_reserved(mode="ambiguous"): no refund, the claim stays.         *)
RecoverAmbiguous(c) ==
  /\ LockFree(c)
  /\ invocation[c] \in {"reserved", "executing"}
  /\ Won(c, "ambiguous")
  /\ UNCHANGED <<session, mandates, idem, reservation, receipts, outbox, events, vendor>>

(* recover_reserved(mode="release") -> finalize_release.                   *)
RecoverRelease(c) ==
  /\ LockFree(c)
  /\ CanRelease(c)
  /\ Refund(c)
  /\ Won(c, "released")
  /\ events' = Record(c, {"release"})
  /\ claim' = Cleared(c)
  /\ UNCHANGED <<session, used_nonces, vendor>>

-----------------------------------------------------------------------------
(* Reconciliation: the operator brings evidence of what the vendor did.    *)

DidExecute(c) == vendor[c] = "executed"

DidNotExecute(c) ==
  /\ vendor[c] \in {"none", "lost"}
  /\ pc[c] = "executing" => LateEvidence

CanReconcileCommit(c) ==
  invocation[c] \in ReconcileFrom /\ reservation[c] \in {"held", "committed"}

CanReconcileRelease(c) == invocation[c] \in ReconcileFrom /\ reservation[c] = "held"

(* POST /v1/invocations/{id}/reconcile passes no result_json, and refuses  *)
(* (403 BILLING_REQUIRED) to charge an account that is not billable.       *)
ReconcileCommit(c) ==
  /\ LockFree(c)
  /\ DidExecute(c)
  /\ billable[Owner[Of(c)]]
  /\ CanReconcileCommit(c)
  /\ BillOnce(c)
  /\ Won(c, "reconciled_committed")
  /\ events' = Record(c, IF reservation[c] = "held" THEN {"commit", "reconciled"}
                                                  ELSE {"reconciled"})
  /\ claim' = Completed(c, None)
  /\ UNCHANGED <<session, used_nonces, vendor>>

(* Variant: the account must be billable whatever the outcome. *)
ReconcileReleaseBilled(c) ==
  /\ LockFree(c)
  /\ DidNotExecute(c)
  /\ billable[Owner[Of(c)]]
  /\ CanReconcileRelease(c)
  /\ Refund(c)
  /\ Won(c, "reconciled_released")
  /\ events' = Record(c, {"release", "reconciled"})
  /\ claim' = Cleared(c)
  /\ UNCHANGED <<session, used_nonces, vendor>>

ReconcileRelease(c) ==
  /\ LockFree(c)
  /\ DidNotExecute(c)
  /\ CanReconcileRelease(c)
  /\ Refund(c)
  /\ Won(c, "reconciled_released")
  /\ events' = Record(c, {"release", "reconciled"})
  /\ claim' = Cleared(c)
  /\ UNCHANGED <<session, used_nonces, vendor>>

-----------------------------------------------------------------------------
(* The rest of the world.                                                  *)

(* The process dies: the open transaction, if any, is rolled back.         *)
Crash(c) ==
  /\ pc[c] \notin {"idle", "done", "crashed"}
  /\ pc' = [pc EXCEPT ![c] = "crashed"]
  /\ seen' = [seen EXCEPT ![c] = None]
  /\ UNCHANGED <<req, answer, mandates, idem, attempt, vendor>>

RevokeMandate(m) ==
  /\ Serialized => \A c \in Calls : pc[c] # "checked"
  /\ ~revoked[m]
  /\ revoked' = [revoked EXCEPT ![m] = TRUE]
  /\ UNCHANGED <<session, remaining, calls_used, age, billable, idem, attempt, vendor>>

(* check_fresh refuses when now > expires_at, the debit when               *)
(* now >= expires_at.                                                      *)
TimePasses(m) ==
  /\ m \in Expiring
  /\ age[m] # "past"
  /\ age' = [age EXCEPT ![m] = IF @ = "live" THEN "at_expiry" ELSE "past"]
  /\ UNCHANGED <<session, remaining, calls_used, revoked, billable, idem, attempt, vendor>>

(* A customer is attached to the account, or a webhook changes its status. *)
BillingChanges(p) ==
  /\ Serialized => \A c \in Calls : pc[c] # "checked"
  /\ p \in Billed
  /\ billable' = [billable EXCEPT ![p] = ~@]
  /\ UNCHANGED <<session, remaining, calls_used, revoked, age, idem, attempt, vendor>>

Invoke(c) ==
  \/ CheckRefused(c) \/ CheckAnswers(c) \/ CheckPasses(c)
  \/ ReserveNonceClash(c) \/ ReserveClaimLost(c) \/ ReserveDenied(c) \/ ReserveCommits(c)
  \/ MarkExecuting(c) \/ SendRequest(c) \/ ProviderReturns(c) \/ ProviderRaises(c)
  \/ MarkExecutedFail(c) \/ FinalizeSuccess(c) \/ FinalizeLost(c)

Vendor(c) == VendorExecutes(c) \/ VendorLoses(c)

Recover(c) == RecoverAmbiguous(c) \/ RecoverRelease(c)

Reconcile(c) == ReconcileCommit(c) \/ ReconcileRelease(c)

Next ==
  \/ \E c \in Calls : Invoke(c) \/ Vendor(c) \/ Recover(c) \/ Reconcile(c) \/ Crash(c)
  \/ \E m \in Mandates : RevokeMandate(m) \/ TimePasses(m)
  \/ \E p \in Principals : BillingChanges(p)

Spec == Init /\ [][Next]_vars
=============================================================================
