------------------------------- MODULE Billing -------------------------------
(***************************************************************************)
(* Accounts and the outbox together: from the check of a call to the meter *)
(* event of its receipt (crossing/billing.py).                             *)
(*                                                                         *)
(* A row of the outbox carries the customer its account had when it was    *)
(* queued.  The API processes and the workers are configured apart: either *)
(* may lack the STRIPE_SECRET_KEY.                                         *)
(***************************************************************************)
EXTENDS Integers, Sequences, FiniteSets

CONSTANTS
  Ids, Customers, Webhooks, AccountOf, Fee, ApiConfigured, MaxEvents,
  Rows,         \* calls, their receipts and the rows of these
  Workers, Operators, MaxAttempts, Limit, Deployments, Serialized,
  None

ASSUME BillingAssumption ==
  /\ None \notin Ids \cup Customers \cup Rows \cup Nat
  /\ IsFiniteSet(Rows)
  /\ AccountOf \in [Rows -> Ids] /\ Fee \in Nat
  /\ ApiConfigured \in BOOLEAN /\ Serialized \in BOOLEAN
  /\ MaxEvents \in Nat /\ MaxAttempts \in Nat \ {0} /\ Limit \in Nat \ {0}
  /\ Deployments \subseteq SUBSET Workers

VARIABLES
  emitted, customer, standing, fees, seen, credited,
  step, event, account, loaded, pc, session, payload, bindings, disordered,
  configured, status, attempts, waiting, lapsed, phase, jobs, job, result, cached, held,
  accepted, metered, failures

Acc == INSTANCE Accounts WITH Calls <- Rows, Configured <- ApiConfigured
Out == INSTANCE Outbox

account_side == <<emitted, customer, standing, fees, seen, credited, step, event,
                  account, loaded, pc, session, payload, bindings, disordered>>
outbox_side  == <<configured, status, attempts, waiting, lapsed, phase, jobs, job, result,
                  cached, held, accepted, metered, failures>>
vars == <<account_side, outbox_side>>

Init == Acc!Init /\ Out!Init

(* finalize_success and reconcile_commit: the row is inserted, and the fee *)
(* added to the account, in the transaction that commits the spend.        *)
Enqueue(r) == Acc!EnqueueWrites(r) /\ Out!Enqueue(r)

(* Variant: the payload is not looked at. *)
MeterAnyone(w, r) == Out!PostAccepted(w, r) /\ UNCHANGED account_side

(* post_stripe sends nothing for a payload without a customer.             *)
Meter(w, r) ==
  /\ payload[r] # None
  /\ Out!PostAccepted(w, r)
  /\ UNCHANGED account_side

Post(w, r) ==
  \/ Meter(w, r)
  \/ (Out!PostRefused(w, r) \/ Out!PostSkipped(w, r)) /\ UNCHANGED account_side

Claim(w, batch) == Out!Claim(w, batch) /\ UNCHANGED account_side

Finish(w) == Out!Finish(w) /\ UNCHANGED account_side

Dies(w) == Out!WorkerDies(w) /\ UNCHANGED account_side

Elapse(r) == (Out!BackoffEnds(r) \/ Out!LeaseLapses(r)) /\ UNCHANGED account_side

Requeue(o) == Out!Requeue(o) /\ UNCHANGED account_side

Webhook(h) == Acc!Webhook(h) /\ UNCHANGED outbox_side

Fails(h) == Acc!WebhookFails(h) /\ UNCHANGED outbox_side

Administer ==
  /\ Acc!Stripe \/ \E a \in Ids, c \in Customers : Acc!AttachCustomer(a, c)
  /\ UNCHANGED outbox_side

Charge(r) == (Acc!Charge(r) \/ Acc!CallDies(r)) /\ UNCHANGED outbox_side

Next ==
  \/ \E r \in Rows : Enqueue(r) \/ Charge(r) \/ Elapse(r)
  \/ \E w \in Workers :
       \/ \E batch \in SUBSET Rows : Claim(w, batch)
       \/ \E r \in Rows : Post(w, r)
       \/ Finish(w) \/ Dies(w)
  \/ \E o \in Operators : Requeue(o)
  \/ \E h \in Webhooks : Webhook(h) \/ Fails(h)
  \/ Administer

Spec == Init /\ [][Next]_vars
=============================================================================
