------------------------------ MODULE Accounts ------------------------------
(***************************************************************************)
(* The Stripe side of an account: crossing/billing.py from is_billable()   *)
(* to enqueue() and from apply_stripe_event() to attach_stripe_customer(), *)
(* with the endpoints of crossing/api.py that call them.                   *)
(*                                                                         *)
(* Stripe emits events about customers and delivers each of them late,     *)
(* twice or out of order.  A webhook transaction looks the event up,       *)
(* inserts it (event_id is the primary key) and finds the account of its   *)
(* customer, and then writes the account.  An administrator attaches       *)
(* customers to accounts; calls are let through if their account is        *)
(* billable, and later copy its customer into the outbox row of their      *)
(* receipt.                                                                *)
(*                                                                         *)
(* The isolation is Postgres at READ COMMITTED, whose behaviours include   *)
(* the serial ones of SQLite.                                              *)
(***************************************************************************)
EXTENDS Integers, Sequences, FiniteSets

CONSTANTS
  Ids,          \* accounts
  Customers,    \* Stripe customers
  Webhooks,     \* concurrent requests to POST /v1/stripe/webhooks
  Calls,        \* calls that end in a charge, one receipt each
  None,
  AccountOf,    \* whose call it is
  Fee,          \* microcents of one call, 0 if CROSSING_FEE_BPS is 0
  Configured,   \* whether the API processes have a STRIPE_SECRET_KEY
  MaxEvents     \* how many events Stripe emits

ASSUME AccountsAssumption ==
  /\ None \notin Ids \cup Customers /\ None \notin Nat
  /\ IsFiniteSet(Calls)
  /\ AccountOf \in [Calls -> Ids]
  /\ Fee \in Nat
  /\ Configured \in BOOLEAN
  /\ MaxEvents \in Nat

VARIABLES
  emitted,      \* Stripe: the events so far, in the order they happened
  (* table accounts *)
  customer, standing, fees,
  (* table stripe_events: the ids recorded and the account of each *)
  seen, credited,
  (* a webhook transaction *)
  step,         \* "idle", "looked", "found"
  event, account,
  loaded,       \* stripe_status of the account in its session
  (* a call *)
  pc,           \* "start", "refused", "checked", "read", "lost", "queued"
  session,      \* the account as enqueue() has read it
  (* table billing_outbox: customer_id in the payload of the call's row *)
  payload,
  (* history *)
  bindings,     \* which customer has ever been attached to which account
  disordered    \* customers with an event received before an earlier one

accounts == <<customer, standing, fees>>
events   == <<seen, credited>>
webhook  == <<step, event, account, loaded>>
call     == <<pc, session, payload>>
history  == <<bindings, disordered>>
vars     == <<emitted, accounts, events, webhook, call, history>>

(* What an event says of its customer: a status outside UNPAID_STATUSES,   *)
(* one of them, or nothing.                                                *)
Statuses == {"paid", "unpaid"}

Init ==
  /\ emitted = <<>>
  /\ customer = [a \in Ids |-> None]
  /\ standing = [a \in Ids |-> None]
  /\ fees = [a \in Ids |-> 0]
  /\ seen = {}
  /\ credited = [e \in 1 .. MaxEvents |-> None]
  /\ step = [h \in Webhooks |-> "idle"]
  /\ event = [h \in Webhooks |-> None]
  /\ account = [h \in Webhooks |-> None]
  /\ loaded = [h \in Webhooks |-> None]
  /\ pc = [k \in Calls |-> "start"]
  /\ session = [k \in Calls |-> None]
  /\ payload = [k \in Calls |-> None]
  /\ bindings = {}
  /\ disordered = {}

-----------------------------------------------------------------------------
(* Stripe.                                                                 *)

StripeEmits(c, saying) ==
  /\ Len(emitted) < MaxEvents
  /\ emitted' = Append(emitted, [customer |-> c, status |-> saying])
  /\ UNCHANGED <<accounts, events, webhook, call, history>>

(* The earlier events of the same customer.                                *)
Before(e) == {d \in 1 .. e - 1 : emitted[d].customer = emitted[e].customer}

-----------------------------------------------------------------------------
(* POST /v1/stripe/webhooks: record_stripe_event and apply_stripe_event.   *)

(* The signature is good and the id is not in the table.  (If it is, the   *)
(* answer is duplicate: true and nothing changes.)                         *)
ReceiveEvent(h, e) ==
  /\ step[h] = "idle"
  /\ e \notin seen
  /\ step' = [step EXCEPT ![h] = "looked"]
  /\ event' = [event EXCEPT ![h] = e]
  /\ disordered' = disordered \cup
                     (IF Before(e) \subseteq seen THEN {} ELSE {emitted[e].customer})
  /\ UNCHANGED <<emitted, accounts, events, account, loaded, call, bindings>>

Done(h) ==
  /\ step' = [step EXCEPT ![h] = "idle"]
  /\ event' = [event EXCEPT ![h] = None]
  /\ account' = [account EXCEPT ![h] = None]
  /\ loaded' = [loaded EXCEPT ![h] = None]

(* Variant: the id is not a primary key. *)
InsertableAlways(h) == step[h] = "looked"

(* An INSERT of the id waits for a transaction that has inserted it.       *)
Insertable(h) ==
  /\ step[h] = "looked"
  /\ event[h] \notin seen
  /\ \A g \in Webhooks : step[g] = "found" => event[g] # event[h]

(* Variant: an event nobody's customer is about is turned away. *)
InsertEventKnown(h) ==
  LET owners == {a \in Ids : customer[a] = emitted[event[h]].customer}
  IN  /\ Insertable(h) /\ owners # {}
      /\ account' = [account EXCEPT ![h] = CHOOSE a \in owners : TRUE]
      /\ loaded' = [loaded EXCEPT ![h] = standing[account'[h]]]
      /\ step' = [step EXCEPT ![h] = "found"]
      /\ UNCHANGED <<emitted, accounts, events, event, call, history>>

InsertEvent(h) ==
  LET owners == {a \in Ids : customer[a] = emitted[event[h]].customer}
  IN  /\ Insertable(h)
      /\ account' = [account EXCEPT ![h] =
                       IF owners = {} THEN None ELSE CHOOSE a \in owners : TRUE]
      /\ loaded' = [loaded EXCEPT ![h] =
                      IF owners = {} THEN None ELSE standing[account'[h]]]
      /\ step' = [step EXCEPT ![h] = "found"]
      /\ UNCHANGED <<emitted, accounts, events, event, call, history>>

(* IntegrityError: another request has committed the id since.             *)
DuplicateEvent(h) ==
  /\ step[h] = "looked" /\ event[h] \in seen
  /\ Done(h)
  /\ UNCHANGED <<emitted, accounts, events, call, history>>

Tells(h) == account[h] # None /\ emitted[event[h]].status \in Statuses

(* The session writes a column only if it differs from what was loaded.    *)
Changes(h) == Tells(h) /\ emitted[event[h]].status # loaded[h]

(* Variant: only the first status is written. *)
ApplyEventFirst(h) ==
  /\ step[h] = "found"
  /\ standing' = IF Changes(h) /\ loaded[h] = None
                 THEN [standing EXCEPT ![account[h]] = emitted[event[h]].status]
                 ELSE standing
  /\ seen' = seen \cup {event[h]}
  /\ credited' = [credited EXCEPT ![event[h]] = account[h]]
  /\ Done(h)
  /\ UNCHANGED <<emitted, customer, fees, call, history>>

(* Stripe has several statuses that say "paid" and several that say        *)
(* "unpaid": one may be written over another of its kind.                  *)
ApplyEvent(h) ==
  /\ step[h] = "found"
  /\ \/ /\ Tells(h)
        /\ standing' = [standing EXCEPT ![account[h]] = emitted[event[h]].status]
     \/ ~Changes(h) /\ UNCHANGED standing
  /\ seen' = seen \cup {event[h]}
  /\ credited' = [credited EXCEPT ![event[h]] = account[h]]
  /\ Done(h)
  /\ UNCHANGED <<emitted, customer, fees, call, history>>

(* An error or a crash rolls back; Stripe delivers the event again.        *)
WebhookFails(h) ==
  /\ step[h] # "idle"
  /\ Done(h)
  /\ UNCHANGED <<emitted, accounts, events, call, history>>

-----------------------------------------------------------------------------
(* POST /v1/admin/accounts/{id}/stripe-customer: refused with 409 if the   *)
(* customer is bound to another account; an account may be bound anew, and *)
(* keeps its status.                                                       *)
AttachCustomer(a, c) ==
  /\ \A b \in Ids : customer[b] # c
  /\ customer' = [customer EXCEPT ![a] = c]
  /\ bindings' = bindings \cup {<<a, c>>}
  /\ UNCHANGED <<emitted, standing, fees, events, webhook, call, disordered>>

-----------------------------------------------------------------------------
(* Paid work.                                                              *)

(* Variant: the status is not looked at. *)
BillableWhatever(a) == Configured => customer[a] # None

(* Variant: the customer is not looked at. *)
BillableUnbound(a) == Configured => standing[a] # "unpaid"

Billable(a) == Configured => customer[a] # None /\ standing[a] # "unpaid"

(* require_billable in the check of a call.                                *)
CheckBillable(k) ==
  /\ pc[k] = "start"
  /\ pc' = [pc EXCEPT ![k] = IF Billable(AccountOf[k]) THEN "checked" ELSE "refused"]
  /\ UNCHANGED <<emitted, accounts, events, webhook, session, payload, history>>

(* enqueue() reads the account in the transaction that commits the spend.  *)
EnqueueReads(k) ==
  /\ pc[k] = "checked"
  /\ pc' = [pc EXCEPT ![k] = "read"]
  /\ session' = [session EXCEPT ![k] = [customer |-> customer[AccountOf[k]],
                                        fees |-> fees[AccountOf[k]]]]
  /\ UNCHANGED <<emitted, accounts, events, webhook, payload, history>>

(* Variant: the fee is added to the value in the session. *)
EnqueueWritesStale(k) ==
  /\ pc[k] = "read"
  /\ pc' = [pc EXCEPT ![k] = "queued"]
  /\ payload' = [payload EXCEPT ![k] = session[k].customer]
  /\ fees' = [fees EXCEPT ![AccountOf[k]] = session[k].fees + Fee]
  /\ session' = [session EXCEPT ![k] = None]
  /\ UNCHANGED <<emitted, customer, standing, events, webhook, history>>

(* The row and the fee are written together; the UPDATE adds to the        *)
(* column, not to the value in the session.                                *)
EnqueueWrites(k) ==
  /\ pc[k] = "read"
  /\ pc' = [pc EXCEPT ![k] = "queued"]
  /\ payload' = [payload EXCEPT ![k] = session[k].customer]
  /\ fees' = [fees EXCEPT ![AccountOf[k]] = @ + Fee]
  /\ session' = [session EXCEPT ![k] = None]
  /\ UNCHANGED <<emitted, customer, standing, events, webhook, history>>

(* The process dies or loses the finalisation: the attempt is left to the  *)
(* reconcile endpoint.                                                     *)
CallDies(k) ==
  /\ pc[k] \in {"checked", "read"}
  /\ pc' = [pc EXCEPT ![k] = "lost"]
  /\ session' = [session EXCEPT ![k] = None]
  /\ UNCHANGED <<emitted, accounts, events, webhook, payload, history>>

(* post_reconcile asks require_billable again before it commits a spend;   *)
(* it answers 403 and changes nothing if the account is not billable.      *)
ReconcileBillable(k) ==
  /\ pc[k] = "lost"
  /\ Billable(AccountOf[k])
  /\ pc' = [pc EXCEPT ![k] = "checked"]
  /\ UNCHANGED <<emitted, accounts, events, webhook, session, payload, history>>

-----------------------------------------------------------------------------
Webhook(h) ==
  \/ \E e \in 1 .. Len(emitted) : ReceiveEvent(h, e)
  \/ InsertEvent(h) \/ DuplicateEvent(h) \/ ApplyEvent(h)

Charge(k) == CheckBillable(k) \/ EnqueueReads(k) \/ ReconcileBillable(k)

Stripe == \E c \in Customers, saying \in Statuses \cup {None} : StripeEmits(c, saying)

Next ==
  \/ Stripe
  \/ \E h \in Webhooks : Webhook(h) \/ WebhookFails(h)
  \/ \E a \in Ids, c \in Customers : AttachCustomer(a, c)
  \/ \E k \in Calls : Charge(k) \/ EnqueueWrites(k) \/ CallDies(k)

Spec == Init /\ [][Next]_vars
=============================================================================
