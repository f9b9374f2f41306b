---------------------------- MODULE BillingProofs ----------------------------
(***************************************************************************)
(* Proofs that accounts and outbox keep their own promises when they are   *)
(* put together, and the one they only keep together.                      *)
(***************************************************************************)
EXTENDS BillingProperties, TLAPS

-----------------------------------------------------------------------------
(* The parts.                                                              *)

LEMMA AccountSide == [Next]_vars => [Acc!Next]_(Acc!vars)
<1> SUFFICES ASSUME [Next]_vars PROVE [Acc!Next]_(Acc!vars)
  OBVIOUS
<1> USE DEF Acc!vars, Acc!accounts, Acc!events, Acc!webhook, Acc!call, Acc!history
<1>1. CASE UNCHANGED account_side
  BY <1>1 DEF account_side
<1>2. CASE \E r \in Rows : Enqueue(r) \/ Charge(r) \/ Elapse(r)
  BY <1>1, <1>2 DEF Enqueue, Charge, Elapse, Acc!Next
<1>3. ASSUME NEW w \in Workers,
             \/ \E batch \in SUBSET Rows : Claim(w, batch)
             \/ \E r \in Rows : Post(w, r)
             \/ Finish(w) \/ Dies(w)
      PROVE  UNCHANGED account_side
  BY <1>3 DEF Claim, Post, Meter, Finish, Dies
<1>4. CASE \E o \in Operators : Requeue(o)
  BY <1>1, <1>4 DEF Requeue
<1>5. CASE \E h \in Webhooks : Webhook(h) \/ Fails(h)
  BY <1>5 DEF Webhook, Fails, Acc!Next
<1>6. CASE Administer
  BY <1>6 DEF Administer, Acc!Next
<1>7. CASE UNCHANGED vars
  BY <1>1, <1>7 DEF vars
<1>8. QED
  BY <1>1, <1>2, <1>3, <1>4, <1>5, <1>6, <1>7 DEF Next

LEMMA OutboxSide == [Next]_vars => [Out!Next]_(Out!vars)
<1> SUFFICES ASSUME [Next]_vars PROVE [Out!Next]_(Out!vars)
  OBVIOUS
<1>1. CASE UNCHANGED outbox_side
  BY <1>1 DEF outbox_side, Out!vars, Out!table, Out!drain, Out!stripe
<1>2. ASSUME NEW r \in Rows, Enqueue(r) \/ Charge(r) \/ Elapse(r) PROVE [Out!Next]_(Out!vars)
  BY <1>1, <1>2 DEF Enqueue, Charge, Elapse, Out!Next
<1>3. ASSUME NEW w \in Workers, NEW batch \in SUBSET Rows, Claim(w, batch) PROVE Out!Next
  BY <1>3 DEF Claim, Out!Next, Out!Drain
<1>4. ASSUME NEW w \in Workers, NEW r \in Rows, Post(w, r) PROVE Out!Next
  BY <1>4 DEF Post, Meter, Out!Post, Out!Next, Out!Drain
<1>5. ASSUME NEW w \in Workers, Finish(w) \/ Dies(w) PROVE Out!Next
  BY <1>5 DEF Finish, Dies, Out!Next, Out!Drain
<1>6. CASE \E o \in Operators : Requeue(o)
  BY <1>6 DEF Requeue, Out!Next
<1>7. CASE (\E h \in Webhooks : Webhook(h) \/ Fails(h)) \/ Administer
  BY <1>1, <1>7 DEF Webhook, Fails, Administer
<1>8. CASE UNCHANGED vars
  BY <1>1, <1>8 DEF vars
<1>9. QED
  BY <1>2, <1>3, <1>4, <1>5, <1>6, <1>7, <1>8 DEF Next

(* Whatever holds of the accounts and of the outbox each by itself holds   *)
(* of the two together: the API processes, the webhooks and the workers    *)
(* meet only in the rows that enqueue() inserts.                           *)
THEOREM PartsAreImplemented == Spec => Acc!Spec /\ Out!Spec
<1>1. Init => Acc!Init /\ Out!Init
  BY DEF Init
<1>2. QED
  BY <1>1, AccountSide, OutboxSide, PTL DEF Spec, Acc!Spec, Out!Spec

-----------------------------------------------------------------------------
(* The module of the proofs about the outbox, for the outbox of this       *)
(* system: it speaks of the same steps.                                    *)
OutProofs == INSTANCE OutboxProofs

LEMMA SameClaims ==
  ASSUME NEW w, NEW batch
  PROVE  Out!Claim(w, batch) => OutProofs!Claim(w, batch)
<1> SUFFICES ASSUME Out!Claim(w, batch) PROVE OutProofs!Claim(w, batch)
  OBVIOUS
<1>1. OutProofs!LockFree
  BY DEF Out!Claim, Out!LockFree, OutProofs!LockFree
<1>2. \A r \in batch : OutProofs!Claimable(r)
  BY DEF Out!Claim, Out!Claimable, OutProofs!Claimable, Out!Retryable, OutProofs!Retryable
<1>3. Out!Cardinality(batch) = OutProofs!Cardinality(batch)
  BY DEF Out!Cardinality, OutProofs!Cardinality
<1>4. QED
  BY <1>1, <1>2, <1>3 DEF Out!Claim, OutProofs!Claim, Out!stripe, OutProofs!stripe

LEMMA SameWrites ==
  ASSUME NEW w
  PROVE  Out!WriteTerminal(w) => OutProofs!WriteTerminal(w)
BY DEF Out!WriteTerminal, OutProofs!WriteTerminal, Out!NextJob, OutProofs!NextJob, Out!Expired,
       OutProofs!Expired, Out!CanWrite, OutProofs!CanWrite, Out!Write, OutProofs!Write,
       Out!TerminalStatus, OutProofs!TerminalStatus, Out!LockFree, OutProofs!LockFree,
       Out!stripe, OutProofs!stripe

LEMMA SameOutbox == [Out!Next]_(Out!vars) => [OutProofs!Next]_(OutProofs!vars)
<1> USE DEF Out!LockFree, OutProofs!LockFree, Out!table, OutProofs!table, Out!drain,
            OutProofs!drain, Out!stripe, OutProofs!stripe
<1>1. ASSUME NEW r PROVE Out!Enqueue(r) => OutProofs!Enqueue(r)
  BY DEF Out!Enqueue, OutProofs!Enqueue
<1>2. ASSUME NEW r
      PROVE  /\ Out!BackoffEnds(r) => OutProofs!BackoffEnds(r)
             /\ Out!LeaseLapses(r) => OutProofs!LeaseLapses(r)
  BY DEF Out!BackoffEnds, OutProofs!BackoffEnds, Out!LeaseLapses, OutProofs!LeaseLapses
<1>3. ASSUME NEW w, NEW r PROVE Out!Post(w, r) => OutProofs!Post(w, r)
  BY DEF Out!Post, OutProofs!Post, Out!PostAccepted, OutProofs!PostAccepted, Out!PostRefused,
         OutProofs!PostRefused, Out!PostSkipped, OutProofs!PostSkipped, Out!Outcome,
         OutProofs!Outcome, Out!IdempotencyKey, OutProofs!IdempotencyKey
<1>4. ASSUME NEW w PROVE Out!Finish(w) => OutProofs!Finish(w)
  BY SameWrites DEF Out!Finish, OutProofs!Finish, Out!ReadAgain, OutProofs!ReadAgain, Out!ReadElsewhere,
         OutProofs!ReadElsewhere, Out!LoseTerminal, OutProofs!LoseTerminal, Out!NextJob,
         OutProofs!NextJob, Out!Expired, OutProofs!Expired, Out!CanWrite, OutProofs!CanWrite
<1>5. ASSUME NEW w PROVE Out!WorkerDies(w) => OutProofs!WorkerDies(w)
  BY DEF Out!WorkerDies, OutProofs!WorkerDies, Out!Expired, OutProofs!Expired
<1>6. ASSUME NEW o PROVE Out!Requeue(o) => OutProofs!Requeue(o)
  BY DEF Out!Requeue, OutProofs!Requeue, Out!RequeueReads, OutProofs!RequeueReads,
         Out!RequeueWrites, OutProofs!RequeueWrites
<1>7. UNCHANGED Out!vars => UNCHANGED OutProofs!vars
  BY DEF Out!vars, OutProofs!vars
<1>8. Out!Next => OutProofs!Next
  BY <1>1, <1>2, <1>3, <1>4, <1>5, <1>6, SameClaims
     DEF Out!Next, OutProofs!Next, Out!Drain, OutProofs!Drain
<1>9. QED
  BY <1>7, <1>8

LEMMA SameAssumptions ==
  /\ None \notin Rows \cup Nat
  /\ MaxAttempts \in Nat \ {0}
  /\ Limit \in Nat \ {0}
  /\ Deployments \subseteq SUBSET Workers
  /\ Serialized \in BOOLEAN
BY BillingAssumption

(* The invariants of the outbox by itself hold of it here.                 *)
LEMMA OutboxAlways == Spec => [](OutProofs!Shape /\ OutProofs!Counted)
<1>1. Out!Init => OutProofs!Init
  BY DEF Out!Init, OutProofs!Init, Out!Expired, OutProofs!Expired
<1>2. Out!Spec => OutProofs!Spec
  BY <1>1, SameOutbox, PTL DEF Out!Spec, OutProofs!Spec
<1>3. OutProofs!Spec => []OutProofs!Shape
  BY SameAssumptions, OutProofs!ShapeAlways, PTL
<1>4. OutProofs!Spec => []OutProofs!Counted
  BY SameAssumptions, OutProofs!CountedAlways, PTL
<1>5. QED
  BY <1>2, <1>3, <1>4, PartsAreImplemented, PTL

(* A row that says "sent" has been metered, also when its payload decides  *)
(* whether anything is posted.                                             *)
THEOREM SentIsMetered == Spec => []SentWasMetered
<1>1. OutProofs!Counted => SentWasMetered
  BY DEF OutProofs!Counted, SentWasMetered
<1>2. QED
  BY <1>1, OutboxAlways, PTL

-----------------------------------------------------------------------------
(* And the module of the proofs about the accounts, for these accounts.    *)
AccProofs == INSTANCE AccountsProofs WITH Calls <- Rows, Configured <- ApiConfigured

LEMMA SameAccounts == [Acc!Next]_(Acc!vars) => [AccProofs!Next]_(AccProofs!vars)
<1> USE DEF Acc!accounts, AccProofs!accounts, Acc!events, AccProofs!events, Acc!webhook,
            AccProofs!webhook, Acc!call, AccProofs!call, Acc!history, AccProofs!history
<1>1. Acc!Stripe => AccProofs!Stripe
  BY DEF Acc!Stripe, AccProofs!Stripe, Acc!StripeEmits, AccProofs!StripeEmits, Acc!Statuses,
         AccProofs!Statuses
<1>2. ASSUME NEW h PROVE Acc!Webhook(h) => AccProofs!Webhook(h)
  BY DEF Acc!Webhook, AccProofs!Webhook, Acc!ReceiveEvent, AccProofs!ReceiveEvent, Acc!Before,
         AccProofs!Before, Acc!InsertEvent, AccProofs!InsertEvent, Acc!Insertable,
         AccProofs!Insertable, Acc!DuplicateEvent, AccProofs!DuplicateEvent, Acc!ApplyEvent,
         AccProofs!ApplyEvent, Acc!Changes, AccProofs!Changes, Acc!Tells, AccProofs!Tells,
         Acc!Done, AccProofs!Done,
         Acc!Statuses, AccProofs!Statuses
<1>3. ASSUME NEW h PROVE Acc!WebhookFails(h) => AccProofs!WebhookFails(h)
  BY DEF Acc!WebhookFails, AccProofs!WebhookFails, Acc!Done, AccProofs!Done
<1>4. ASSUME NEW a, NEW c PROVE Acc!AttachCustomer(a, c) => AccProofs!AttachCustomer(a, c)
  BY DEF Acc!AttachCustomer, AccProofs!AttachCustomer
<1>5. ASSUME NEW k PROVE Acc!Charge(k) => AccProofs!Charge(k)
  BY DEF Acc!Charge, AccProofs!Charge, Acc!CheckBillable, AccProofs!CheckBillable,
         Acc!EnqueueReads, AccProofs!EnqueueReads, Acc!ReconcileBillable,
         AccProofs!ReconcileBillable, Acc!Billable, AccProofs!Billable
<1>6. ASSUME NEW k
      PROVE  /\ Acc!EnqueueWrites(k) => AccProofs!EnqueueWrites(k)
             /\ Acc!CallDies(k) => AccProofs!CallDies(k)
  BY DEF Acc!EnqueueWrites, AccProofs!EnqueueWrites, Acc!CallDies, AccProofs!CallDies
<1>7. UNCHANGED Acc!vars => UNCHANGED AccProofs!vars
  BY DEF Acc!vars, AccProofs!vars
<1>8. Acc!Next => AccProofs!Next
  BY <1>1, <1>2, <1>3, <1>4, <1>5, <1>6 DEF Acc!Next, AccProofs!Next
<1>9. QED
  BY <1>7, <1>8

LEMMA AccountsTyped == Spec => []AccProofs!TypeOK
<1>1. Acc!Init => AccProofs!Init
  BY DEF Acc!Init, AccProofs!Init
<1>2. Acc!Spec => AccProofs!Spec
  BY <1>1, SameAccounts, PTL DEF Acc!Spec, AccProofs!Spec
<1>3. /\ None \notin Ids \cup Customers /\ None \notin Nat
      /\ AccProofs!IsFiniteSet(Rows)
      /\ AccountOf \in [Rows -> Ids]
      /\ Fee \in Nat
      /\ ApiConfigured \in BOOLEAN
      /\ MaxEvents \in Nat
  BY BillingAssumption DEF IsFiniteSet, AccProofs!IsFiniteSet
<1>4. AccProofs!Spec => []AccProofs!TypeOK
  BY <1>3, AccProofs!TypeCorrect, PTL
<1>5. QED
  BY <1>2, <1>4, PartsAreImplemented, PTL

-----------------------------------------------------------------------------
(* Customers are what was attached when they were read; a payload, once    *)
(* written, stays; and nothing is metered before it is there.              *)
Attached ==
  /\ \A a \in Ids : customer[a] # None => <<a, customer[a]>> \in bindings
  /\ \A r \in Rows :
       pc[r] = "read" => \/ session[r].customer = None
                         \/ <<AccountOf[r], session[r].customer>> \in bindings
  /\ \A r \in Rows :
       payload[r] # None => pc[r] = "queued" /\ <<AccountOf[r], payload[r]>> \in bindings
  /\ metered \in [Rows -> Nat]
  /\ \A r \in Rows : metered[r] > 0 => payload[r] # None

LEMMA AttachedStep == AccProofs!TypeOK /\ Attached /\ [Next]_vars => Attached'
<1> SUFFICES ASSUME AccProofs!TypeOK, Attached, [Next]_vars PROVE Attached'
  OBVIOUS
<1>0. /\ customer \in [Ids -> Customers \cup {None}]
      /\ pc \in [Rows -> {"start", "refused", "checked", "read", "lost", "queued"}]
      /\ session \in [Rows -> [customer : Customers \cup {None}, fees : Nat] \cup {None}]
      /\ payload \in [Rows -> Customers \cup {None}]
      /\ metered \in [Rows -> Nat]
      /\ None \notin Customers /\ AccountOf \in [Rows -> Ids]
  BY BillingAssumption DEF AccProofs!TypeOK, Attached
<1>1. ASSUME UNCHANGED <<customer, pc, session, payload, bindings, metered>> PROVE Attached'
  BY <1>1 DEF Attached
<1>2. ASSUME NEW w \in Workers, NEW r \in Rows, Meter(w, r) PROVE Attached'
  <2>1. payload[r] # None /\ UNCHANGED <<customer, pc, session, payload, bindings>>
    BY <1>2 DEF Meter, account_side
  <2>2. \/ metered' = metered
        \/ metered' = [metered EXCEPT ![r] = @ + 1]
    BY <1>2 DEF Meter, Out!PostAccepted
  <2>3. /\ metered' \in [Rows -> Nat]
        /\ \A s \in Rows : metered'[s] > 0 => metered[s] > 0 \/ s = r
    BY <1>0, <2>2
  <2>4. QED
    BY <2>1, <2>3 DEF Attached
<1>3. ASSUME NEW r \in Rows, Enqueue(r) PROVE Attached'
  <2>1. /\ pc[r] = "read" /\ pc' = [pc EXCEPT ![r] = "queued"]
        /\ payload' = [payload EXCEPT ![r] = session[r].customer]
        /\ session' = [session EXCEPT ![r] = None]
        /\ UNCHANGED <<customer, bindings, metered>>
    BY <1>3 DEF Enqueue, Acc!EnqueueWrites, Acc!history, Out!Enqueue, Out!stripe
  <2>2. payload[r] = None /\ ~(metered[r] > 0)
    BY <2>1 DEF Attached
  <2>3. \A s \in Rows \ {r} : payload'[s] = payload[s] /\ pc'[s] = pc[s] /\ session'[s] = session[s]
    BY <1>0, <2>1
  <2>4. pc'[r] = "queued" /\ payload'[r] = session[r].customer
    BY <1>0, <2>1
  <2>5. session[r].customer # None => <<AccountOf[r], session[r].customer>> \in bindings
    BY <2>1 DEF Attached
  <2>6. QED
    BY <2>1, <2>2, <2>3, <2>4, <2>5 DEF Attached
<1>4. ASSUME NEW r \in Rows, Charge(r) PROVE Attached'
  <2>1. UNCHANGED <<customer, payload, bindings, metered>>
    BY <1>4 DEF Charge, Acc!Charge, Acc!CheckBillable, Acc!EnqueueReads, Acc!ReconcileBillable,
                Acc!CallDies, Acc!accounts, Acc!history, outbox_side
  <2>2. CASE Acc!CheckBillable(r) \/ Acc!ReconcileBillable(r) \/ Acc!CallDies(r)
    <3>1. /\ pc[r] # "queued" /\ \A s \in Rows \ {r} : pc'[s] = pc[s] /\ session'[s] = session[s]
          /\ pc'[r] # "read"
      BY <1>0, <2>2 DEF Acc!CheckBillable, Acc!ReconcileBillable, Acc!CallDies
    <3>2. QED
      BY <2>1, <3>1 DEF Attached
  <2>3. CASE Acc!EnqueueReads(r)
    <3>1. /\ pc[r] = "checked" /\ pc' = [pc EXCEPT ![r] = "read"]
          /\ session' = [session EXCEPT ![r] = [customer |-> customer[AccountOf[r]],
                                                fees |-> fees[AccountOf[r]]]]
      BY <2>3 DEF Acc!EnqueueReads
    <3>2. /\ \A s \in Rows \ {r} : pc'[s] = pc[s] /\ session'[s] = session[s]
          /\ session'[r].customer = customer[AccountOf[r]] /\ AccountOf[r] \in Ids
      BY <1>0, <3>1
    <3>3. QED
      BY <2>1, <3>1, <3>2 DEF Attached
  <2>4. QED
    BY <1>4, <2>2, <2>3 DEF Charge, Acc!Charge
<1>5. ASSUME NEW a \in Ids, NEW c \in Customers, Acc!AttachCustomer(a, c), UNCHANGED outbox_side
      PROVE  Attached'
  <2>1. /\ customer' = [customer EXCEPT ![a] = c]
        /\ bindings' = bindings \cup {<<a, c>>}
        /\ UNCHANGED <<pc, session, payload, metered>>
    BY <1>5 DEF Acc!AttachCustomer, Acc!call, outbox_side
  <2>2. QED
    BY <1>0, <2>1 DEF Attached
<1>6. CASE Administer
  <2>1. CASE Acc!Stripe
    BY <1>1, <1>6, <2>1 DEF Administer, Acc!Stripe, Acc!StripeEmits, Acc!accounts, Acc!call,
                            Acc!history, outbox_side
  <2>2. QED
    BY <1>5, <1>6, <2>1 DEF Administer
<1>7. ASSUME NEW h \in Webhooks, Webhook(h) \/ Fails(h) PROVE Attached'
  BY <1>1, <1>7
     DEF Webhook, Fails, Acc!Webhook, Acc!ReceiveEvent, Acc!InsertEvent, Acc!DuplicateEvent,
         Acc!ApplyEvent, Acc!WebhookFails, Acc!accounts, Acc!call, Acc!history, outbox_side
<1>8. ASSUME NEW w \in Workers,
             \/ \E batch \in SUBSET Rows : Claim(w, batch)
             \/ \E r \in Rows : (Out!PostRefused(w, r) \/ Out!PostSkipped(w, r)) /\ UNCHANGED account_side
             \/ Finish(w) \/ Dies(w)
      PROVE  Attached'
  BY <1>1, <1>8
     DEF Claim, Out!Claim, Out!PostRefused, Out!PostSkipped, Finish, Out!Finish, Out!ReadAgain,
         Out!ReadElsewhere, Out!WriteTerminal, Out!LoseTerminal, Dies, Out!WorkerDies,
         Out!stripe, account_side
<1>9. ASSUME NEW r \in Rows, Elapse(r) PROVE Attached'
  BY <1>1, <1>9 DEF Elapse, Out!BackoffEnds, Out!LeaseLapses, Out!stripe, account_side
<1>10. ASSUME NEW o \in Operators, Requeue(o) PROVE Attached'
  BY <1>1, <1>10 DEF Requeue, Out!Requeue, Out!RequeueReads, Out!RequeueWrites, Out!stripe,
                     account_side
<1>11. CASE UNCHANGED vars
  BY <1>1, <1>11 DEF vars, account_side, outbox_side
<1>12. QED
  BY <1>2, <1>3, <1>4, <1>6, <1>7, <1>8, <1>9, <1>10, <1>11 DEF Next, Post

(* No receipt is metered to anybody but a customer attached to the account *)
(* of its call, and none without one, however the API processes, the       *)
(* administrators, the workers and the operators interleave.               *)
THEOREM ReceiptsGoToTheirCustomer == Spec => []MeteredToItsCustomer
<1>1. Init => Attached
  BY DEF Init, Acc!Init, Out!Init, Attached
<1>2. Attached => MeteredToItsCustomer
  BY DEF Attached, MeteredToItsCustomer
<1>3. QED
  BY <1>1, <1>2, AttachedStep, AccountsTyped, PTL DEF Spec

-----------------------------------------------------------------------------
(* Metering.  The books, and which steps leave them alone.                 *)

Books == [r \in Rows |-> Book(r)]

LEMMA BookTypes ==
  ASSUME OutProofs!Shape
  PROVE  /\ \A r \in Rows : Book(r) \in {"none", "owed", "sent", "off"}
         /\ \A r \in Rows : Book(r) = "none" <=> status[r] = "absent"
BY DEF OutProofs!Shape, OutProofs!TypeOK, OutProofs!RowStatus, Book

LEMMA SameBooks ==
  ASSUME \A r \in Rows : status'[r] = status[r] \/ {status[r], status'[r]} \subseteq {"pending", "sending", "failed"}
  PROVE  Books' = Books
<1>1. \A r \in Rows : Book(r)' = Book(r)
  BY DEF Book
<1>2. QED
  BY <1>1 DEF Books

(* One row gets a new status.                                              *)
LEMMA BookMoves ==
  ASSUME NEW r \in Rows, NEW new, status \in [Rows -> OutProofs!RowStatus],
         status' = [status EXCEPT ![r] = new]
  PROVE  /\ new = "pending" => Books' = [Books EXCEPT ![r] = "owed"]
         /\ new = "sent" => Books' = [Books EXCEPT ![r] = "sent"]
         /\ new \in {"noop", "dead"} => Books' = [Books EXCEPT ![r] = "off"]
<1>1. \A s \in Rows \ {r} : status'[s] = status[s]
  OBVIOUS
<1>2. \A s \in Rows \ {r} : Book(s)' = Book(s)
  BY <1>1 DEF Book
<1>3. ASSUME NEW b, Book(r)' = b PROVE Books' = [Books EXCEPT ![r] = b]
  BY <1>2, <1>3 DEF Books
<1>4. status'[r] = new
  OBVIOUS
<1>5. /\ new = "pending" => Book(r)' = "owed"
      /\ new = "sent" => Book(r)' = "sent"
      /\ new \in {"noop", "dead"} => Book(r)' = "off"
  BY <1>4 DEF Book
<1>6. QED
  BY <1>3, <1>5

(* What a worker writes into a row: it was being sent, and is sent only if *)
(* Stripe has said so.                                                     *)
LEMMA Written ==
  ASSUME OutProofs!Shape, NEW w \in Workers, Out!WriteTerminal(w)
  PROVE  /\ job[w] \in Rows /\ status[job[w]] = "sending"
         /\ \E new \in {"sent", "noop", "dead", "failed"} :
              /\ status' = [status EXCEPT ![job[w]] = new]
              /\ new = "sent" => result[w] = "ok"
<1>1. OutProofs!WriteTerminal(w)
  BY SameWrites
<1> DEFINE new == OutProofs!TerminalStatus(result[w], cached[w][job[w]] + 1)
<1>2. /\ job[w] \in Rows /\ status[job[w]] = "sending"
      /\ result[w] \in {"ok", "error", "noop"}
      /\ status' = [status EXCEPT ![job[w]] = new]
      /\ new \in {"sent", "noop", "dead", "failed"}
  BY <1>1, SameAssumptions, OutProofs!WriteFacts
<1>3. new = "sent" => result[w] = "ok"
  BY <1>2 DEF OutProofs!TerminalStatus
<1>4. QED
  BY <1>2, <1>3

(* A row an operator has read is there, and no row ever goes away.         *)
HeldRows == \A o \in Operators : \A r \in held[o] : status[r] # "absent"

LEMMA HeldRowsStep == OutProofs!Shape /\ HeldRows /\ [Next]_vars => HeldRows'
<1> SUFFICES ASSUME OutProofs!Shape, HeldRows, [Out!Next]_(Out!vars) PROVE HeldRows'
  BY OutboxSide
<1>0. held \in [Operators -> SUBSET Rows] /\ status \in [Rows -> Out!RowStatus]
  BY DEF OutProofs!Shape, OutProofs!TypeOK, OutProofs!RowStatus, Out!RowStatus
<1> USE DEF Out!table, Out!drain, Out!stripe
<1>1. ASSUME held' = held, \A r \in Rows : status'[r] # "absent" \/ status'[r] = status[r]
      PROVE  HeldRows'
  BY <1>0, <1>1 DEF HeldRows
<1>2. ASSUME NEW r \in Rows, Out!Enqueue(r) \/ Out!BackoffEnds(r) \/ Out!LeaseLapses(r)
      PROVE  HeldRows'
  BY <1>0, <1>1, <1>2 DEF Out!Enqueue, Out!BackoffEnds, Out!LeaseLapses
<1>3. ASSUME NEW w \in Workers, Out!Drain(w) \/ Out!WorkerDies(w) PROVE HeldRows'
  <2>1. CASE Out!WriteTerminal(w)
    <3>1. PICK new \in {"sent", "noop", "dead", "failed"} : status' = [status EXCEPT ![job[w]] = new]
      BY <2>1, Written
    <3>2. QED
      BY <1>0, <1>1, <2>1, <3>1 DEF Out!WriteTerminal
  <2>2. CASE \E batch \in SUBSET Rows : Out!Claim(w, batch)
    BY <1>1, <2>2 DEF Out!Claim
  <2>3. CASE \/ \E r \in Rows : Out!Post(w, r)
             \/ Out!ReadAgain(w) \/ Out!ReadElsewhere(w) \/ Out!LoseTerminal(w)
             \/ Out!WorkerDies(w)
    BY <1>1, <2>3 DEF Out!Post, Out!PostAccepted, Out!PostRefused, Out!PostSkipped,
                      Out!ReadAgain, Out!ReadElsewhere, Out!LoseTerminal, Out!WorkerDies
  <2>4. QED
    BY <1>3, <2>1, <2>2, <2>3 DEF Out!Drain, Out!Finish
<1>4. ASSUME NEW o \in Operators, NEW rows \in SUBSET Rows, Out!RequeueReads(o, rows)
      PROVE  HeldRows'
  BY <1>0, <1>4 DEF Out!RequeueReads, HeldRows
<1>5. ASSUME NEW o \in Operators, Out!RequeueWrites(o) PROVE HeldRows'
  BY <1>0, <1>5 DEF Out!RequeueWrites, HeldRows
<1>6. CASE UNCHANGED Out!vars
  BY <1>1, <1>6 DEF Out!vars
<1>7. QED
  BY <1>2, <1>3, <1>4, <1>5, <1>6 DEF Out!Next, Out!Requeue

(* What a step of Billing has to say to Metering.                          *)
Told == [Promise!Next]_(Promise!vars)

LEMMA Silent ==
  ASSUME UNCHANGED <<bindings, payload, metered>>, Books' = Books
  PROVE  Told
BY DEF Told, Promise!vars, Books

(* The books move and nothing else does.                                   *)
LEMMA Entered ==
  ASSUME UNCHANGED <<bindings, payload, metered>>, NEW r \in Rows,
         Books[r] = "owed",
         \/ Books' = [Books EXCEPT ![r] = "sent"] /\ metered[r] = 1
         \/ Books' = [Books EXCEPT ![r] = "off"]
  PROVE  Told
<1>1. Promise!EnterSent(r) \/ Promise!WriteOff(r)
  BY DEF Promise!EnterSent, Promise!WriteOff, Books
<1>2. QED
  BY <1>1 DEF Told, Promise!Next

Ready ==
  /\ AccProofs!TypeOK /\ Attached
  /\ OutProofs!Shape /\ OutProofs!Counted
  /\ HeldRows

LEMMA EnqueueIsTold ==
  ASSUME Ready, NEW r \in Rows, Enqueue(r)
  PROVE  Told
<1>1. /\ pc[r] = "read" /\ UNCHANGED <<bindings, metered>>
      /\ payload' = [payload EXCEPT ![r] = session[r].customer]
      /\ status[r] = "absent" /\ status' = [status EXCEPT ![r] = "pending"]
  BY DEF Enqueue, Acc!EnqueueWrites, Acc!history, Out!Enqueue, Out!stripe
<1>2. session[r].customer = None \/ <<AccountOf[r], session[r].customer>> \in bindings
  BY <1>1 DEF Ready, Attached
<1>3. session[r].customer \in Customers \cup {None}
  BY <1>1 DEF Ready, AccProofs!TypeOK
<1>4. Books[r] = "none"
  BY <1>1 DEF Books, Book
<1>5. status \in [Rows -> OutProofs!RowStatus]
  BY DEF Ready, OutProofs!Shape, OutProofs!TypeOK
<1>6. Books' = [Books EXCEPT ![r] = "owed"]
  BY <1>1, <1>5, BookMoves
<1>7. Promise!Owe(r, session[r].customer)
  BY <1>1, <1>2, <1>4, <1>6 DEF Promise!Owe, Books
<1>8. QED
  BY <1>3, <1>7 DEF Told, Promise!Next

LEMMA MeterIsTold ==
  ASSUME Ready, NEW w \in Workers, NEW r \in Rows, Meter(w, r)
  PROVE  Told
<1>1. payload[r] # None /\ UNCHANGED <<bindings, payload, status>>
  BY DEF Meter, Out!PostAccepted, Out!table, account_side
<1>2. Books' = Books
  BY <1>1, SameBooks
<1>3. CASE r \in accepted
  BY <1>1, <1>2, <1>3, Silent DEF Meter, Out!PostAccepted, Out!IdempotencyKey
<1>4. CASE r \notin accepted
  <2>1. metered[r] = 0 /\ metered \in [Rows -> Nat]
    BY <1>4 DEF Ready, Attached, OutProofs!Counted
  <2>2. metered' = [metered EXCEPT ![r] = 1]
    BY <1>4, <2>1 DEF Meter, Out!PostAccepted, Out!IdempotencyKey
  <2>3. Promise!Count(r)
    BY <1>1, <1>2, <2>1, <2>2 DEF Promise!Count, Books
  <2>4. QED
    BY <2>3 DEF Told, Promise!Next
<1>5. QED
  BY <1>3, <1>4

LEMMA WriteIsTold ==
  ASSUME Ready, NEW w \in Workers, Out!WriteTerminal(w), UNCHANGED account_side
  PROVE  Told
<1> DEFINE r == job[w]
<1>1. UNCHANGED <<bindings, payload, metered>>
  BY DEF Out!WriteTerminal, Out!stripe, account_side
<1>2. /\ r \in Rows /\ status[r] = "sending" /\ status \in [Rows -> OutProofs!RowStatus]
  BY Written DEF Ready, OutProofs!Shape, OutProofs!TypeOK
<1>3. PICK new \in {"sent", "noop", "dead", "failed"} :
             /\ status' = [status EXCEPT ![r] = new]
             /\ new = "sent" => result[w] = "ok"
  BY Written DEF Ready
<1>4. Books[r] = "owed"
  BY <1>2 DEF Books, Book
<1> HIDE DEF r
<1>5. CASE new = "failed"
  <2>1. Books' = Books
    BY <1>2, <1>3, <1>5, SameBooks
  <2>2. QED
    BY <1>1, <2>1, Silent
<1>6. CASE new = "sent"
  <2>1. metered[r] = 1
    BY <1>2, <1>3, <1>6 DEF r, Ready, OutProofs!Counted
  <2>2. Books' = [Books EXCEPT ![r] = "sent"]
    BY <1>2, <1>3, <1>6, BookMoves
  <2>3. QED
    BY <1>1, <1>2, <1>4, <2>1, <2>2, Entered
<1>7. CASE new \in {"noop", "dead"}
  <2>1. Books' = [Books EXCEPT ![r] = "off"]
    BY <1>2, <1>3, <1>7, BookMoves
  <2>2. QED
    BY <1>1, <1>2, <1>4, <2>1, Entered
<1>8. QED
  BY <1>5, <1>6, <1>7

LEMMA RequeueIsTold ==
  ASSUME Ready, NEW o \in Operators, Out!RequeueWrites(o), UNCHANGED account_side
  PROVE  Told
<1>1. UNCHANGED <<bindings, payload, metered>>
  BY DEF Out!RequeueWrites, Out!stripe, account_side
<1>2. /\ held[o] \subseteq Rows
      /\ status' = [r \in Rows |-> IF r \in held[o] THEN "pending" ELSE status[r]]
  BY DEF Ready, OutProofs!Shape, OutProofs!TypeOK, Out!RequeueWrites
<1>3. \A r \in held[o] : Books[r] # "none"
  BY <1>2, BookTypes DEF Ready, HeldRows, Books
<1>4. \A r \in Rows : Book(r)' = IF r \in held[o] THEN "owed" ELSE Books[r]
  <2> TAKE r \in Rows
  <2>1. status'[r] = IF r \in held[o] THEN "pending" ELSE status[r]
    BY <1>2
  <2>2. CASE r \in held[o]
    BY <2>1, <2>2 DEF Book
  <2>3. CASE r \notin held[o]
    <3>1. status'[r] = status[r]
      BY <2>1, <2>3
    <3>2. Book(r)' = Book(r)
      BY <3>1 DEF Book
    <3>3. QED
      BY <2>3, <3>2 DEF Books
  <2>4. QED
    BY <2>2, <2>3
<1>5. Books' = [r \in Rows |-> IF r \in held[o] THEN "owed" ELSE Books[r]]
  BY <1>4 DEF Books
<1>6. Promise!Reopen(held[o])
  BY <1>1, <1>3, <1>5 DEF Promise!Reopen, Books
<1>7. QED
  BY <1>2, <1>6 DEF Told, Promise!Next

LEMMA StepsAreTold == Ready /\ [Next]_vars => Told
<1> SUFFICES ASSUME Ready, [Next]_vars PROVE Told
  OBVIOUS
<1> USE DEF Out!table, Out!drain, Out!stripe
<1>1. ASSUME UNCHANGED <<bindings, payload, status, metered>> PROVE Told
  BY <1>1, SameBooks, Silent
<1>2. ASSUME UNCHANGED outbox_side, UNCHANGED <<bindings, payload>> PROVE Told
  BY <1>1, <1>2 DEF outbox_side
<1>3. ASSUME UNCHANGED account_side, UNCHANGED <<status, metered>> PROVE Told
  BY <1>1, <1>3 DEF account_side
<1>4. ASSUME NEW r \in Rows, Enqueue(r) PROVE Told
  BY <1>4, EnqueueIsTold
<1>5. ASSUME NEW r \in Rows, Charge(r) PROVE Told
  BY <1>2, <1>5 DEF Charge, Acc!Charge, Acc!CheckBillable, Acc!EnqueueReads, Acc!ReconcileBillable,
                    Acc!CallDies, Acc!history
<1>6. ASSUME NEW r \in Rows, Elapse(r) PROVE Told
  BY <1>3, <1>6 DEF Elapse, Out!BackoffEnds, Out!LeaseLapses
<1>7. ASSUME NEW w \in Workers, NEW batch \in SUBSET Rows, Claim(w, batch) PROVE Told
  <2>1. /\ UNCHANGED <<bindings, payload, metered>>
        /\ \A r \in Rows : status'[r] = IF r \in batch THEN "sending" ELSE status[r]
        /\ \A r \in batch : status[r] \in {"pending", "failed", "sending"}
    BY <1>7 DEF Claim, Out!Claim, Out!Claimable, Out!Retryable, account_side
  <2>2. Books' = Books
    BY <2>1, SameBooks
  <2>3. QED
    BY <2>1, <2>2, Silent
<1>8. ASSUME NEW w \in Workers, NEW r \in Rows, Post(w, r) PROVE Told
  BY <1>3, <1>8, MeterIsTold DEF Post, Out!PostRefused, Out!PostSkipped
<1>9. ASSUME NEW w \in Workers, Finish(w) \/ Dies(w) PROVE Told
  <2>1. CASE Out!WriteTerminal(w) /\ UNCHANGED account_side
    BY <2>1, WriteIsTold
  <2>2. CASE /\ Out!ReadAgain(w) \/ Out!ReadElsewhere(w) \/ Out!LoseTerminal(w) \/ Out!WorkerDies(w)
             /\ UNCHANGED account_side
    BY <1>3, <2>2 DEF Out!ReadAgain, Out!ReadElsewhere, Out!LoseTerminal, Out!WorkerDies
  <2>3. QED
    BY <1>9, <2>1, <2>2 DEF Finish, Dies, Out!Finish
<1>10. ASSUME NEW o \in Operators, Requeue(o) PROVE Told
  BY <1>3, <1>10, RequeueIsTold DEF Requeue, Out!Requeue, Out!RequeueReads
<1>11. ASSUME NEW h \in Webhooks, Webhook(h) \/ Fails(h) PROVE Told
  BY <1>2, <1>11
     DEF Webhook, Fails, Acc!Webhook, Acc!ReceiveEvent, Acc!InsertEvent, Acc!DuplicateEvent,
         Acc!ApplyEvent, Acc!WebhookFails, Acc!call, Acc!history
<1>12. CASE Administer
  <2>1. CASE Acc!Stripe
    BY <1>2, <1>12, <2>1 DEF Administer, Acc!Stripe, Acc!StripeEmits, Acc!call, Acc!history
  <2>2. ASSUME NEW a \in Ids, NEW c \in Customers, Acc!AttachCustomer(a, c), UNCHANGED outbox_side
        PROVE  Told
    <3>1. /\ bindings' = bindings \cup {<<a, c>>}
          /\ UNCHANGED <<payload, metered, status>>
      BY <2>2 DEF Acc!AttachCustomer, Acc!call, outbox_side
    <3>2. Books' = Books
      BY <3>1, SameBooks
    <3>3. Promise!Bind(a, c)
      BY <3>1, <3>2 DEF Promise!Bind, Books
    <3>4. QED
      BY <3>3 DEF Told, Promise!Next
  <2>3. QED
    BY <1>12, <2>1, <2>2 DEF Administer
<1>13. CASE UNCHANGED vars
  BY <1>1, <1>13 DEF vars, account_side, outbox_side
<1>14. QED
  BY <1>4, <1>5, <1>6, <1>7, <1>8, <1>9, <1>10, <1>11, <1>12, <1>13 DEF Next

(* The billing of receipts does what Metering promises: who owes a receipt *)
(* is settled when its row is inserted, it is counted once and only for a  *)
(* customer of its account, it is entered as sent only when it is counted, *)
(* and only operators open what was settled.                               *)
THEOREM BillingImplementsMetering == Spec => BillsByMetering
<1>1. Init => Promise!Init
  <2>1. ASSUME Init PROVE \A r \in Rows : Book(r) = "none"
    BY <2>1 DEF Init, Out!Init, Book
  <2>2. QED
    BY <2>1 DEF Init, Out!Init, Acc!Init, Promise!Init
<1>2. Init => Attached /\ HeldRows
  BY DEF Init, Acc!Init, Out!Init, Attached, HeldRows
<1>3. Spec => []Attached
  BY <1>2, AttachedStep, AccountsTyped, PTL DEF Spec
<1>4. Spec => []HeldRows
  BY <1>2, HeldRowsStep, OutboxAlways, PTL DEF Spec
<1>5. Spec => []Ready
  BY <1>3, <1>4, AccountsTyped, OutboxAlways, PTL DEF Ready
<1>6. Ready /\ [Next]_vars => [Promise!Next]_(Promise!vars)
  BY StepsAreTold DEF Told
<1>7. QED
  BY <1>1, <1>5, <1>6, PTL DEF Spec, Promise!Spec, BillsByMetering
=============================================================================
