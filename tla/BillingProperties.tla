-------------------------- MODULE BillingProperties --------------------------
(* What the check of a call, the outbox and the webhooks promise together. *)
EXTENDS Billing

(* Every receipt Stripe has counted is metered to a customer that was      *)
(* attached to the account of the call, before or while it was made, and a *)
(* row queued without one is never metered, whatever is attached later and *)
(* however often the row is retried and requeued.                          *)
MeteredToItsCustomer ==
  \A r \in Rows : metered[r] > 0 => <<AccountOf[r], payload[r]>> \in bindings

(* A row that says "sent" has been metered: neither a worker without a key *)
(* nor the late answer to somebody else's POST can write it.               *)
SentWasMetered == \A r \in Rows : status[r] = "sent" => metered[r] = 1

(* What the books of Metering say of a row: it is open, sent or given up.  *)
Book(r) ==
  CASE status[r] = "absent"                           -> "none"
    [] status[r] \in {"pending", "sending", "failed"} -> "owed"
    [] status[r] = "sent"                             -> "sent"
    [] status[r] \in {"noop", "dead"}                 -> "off"

Promise ==
  INSTANCE Metering WITH
    Receipts <- Rows, bound <- bindings, due <- payload, meter <- metered,
    books <- [r \in Rows |-> Book(r)]

(* The check of a call, the enqueueing, the workers, the operators and the *)
(* administrators together do what Metering promises.  Who owes a receipt  *)
(* is settled when its row is inserted, by a customer attached by then; it *)
(* is counted at most once, and not for nobody; it is entered as sent only *)
(* after that; and only operators open what was sent or given up again.    *)
BillsByMetering == Promise!Spec

-----------------------------------------------------------------------------
ClaimRow(r) == \E w \in Workers, batch \in SUBSET Rows : r \in batch /\ Claim(w, batch)

(* The clock moves; a worker that has begun a batch goes on; and the loop  *)
(* polls for ever, so that a row that is claimable again and again, with   *)
(* no more than Limit of them, is claimed.                                 *)
Working ==
  /\ \A r \in Rows : WF_vars(Elapse(r)) /\ SF_vars(ClaimRow(r))
  /\ \A w \in Workers : WF_vars(\E r \in Rows : Post(w, r)) /\ WF_vars(Finish(w))

(* Stripe delivers an event until it is answered with 200, and a request   *)
(* that has been received goes on.                                         *)
Delivering ==
  /\ \A h \in Webhooks, e \in 1 .. MaxEvents :
       SF_vars(Acc!ReceiveEvent(h, e) /\ UNCHANGED outbox_side)
  /\ \A h \in Webhooks :
       WF_vars((Acc!InsertEvent(h) \/ Acc!DuplicateEvent(h) \/ Acc!ApplyEvent(h))
               /\ UNCHANGED outbox_side)

(* Nothing makes an operator requeue, Stripe accept, or a process die.     *)
FairSpec == Spec /\ Working /\ Delivering

(* Once workers stop dying, a row the ledger has queued is settled: sent,  *)
(* skipped, or dead for the operator to see.  (A worker that has lost its  *)
(* last row leaves as if it had died; that is no death.)                   *)
RowsSettle ==
  <>[][\A w \in Workers : Dies(w) => Finish(w)]_vars =>
    \A r \in Rows : status[r] = "pending" ~> status[r] \in Out!Settled

(* Once webhooks stop failing, everything Stripe has said is recorded,     *)
(* whether or not an account has its customer by then.                     *)
EventsAreRecorded ==
  <>[][\A h \in Webhooks : Fails(h) => Webhook(h)]_vars =>
    \A e \in 1 .. MaxEvents : e <= Len(emitted) ~> e \in seen
=============================================================================
