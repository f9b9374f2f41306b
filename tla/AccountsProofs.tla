--------------------------- MODULE AccountsProofs ---------------------------
(***************************************************************************)
(* Proofs, for every number of accounts, customers, events, concurrent     *)
(* webhooks and calls, of what AccountsProperties states and TLC checks on *)
(* small instances.                                                        *)
(***************************************************************************)
EXTENDS AccountsProperties, FiniteSetTheorems, TLAPS

-----------------------------------------------------------------------------
(* Types.                                                                  *)

Event == [customer : Customers, status : Statuses \cup {None}]

LEMMA EventsAreEvents ==
  ASSUME TypeOK, NEW e \in 1 .. Len(emitted)
  PROVE  emitted[e] \in Event
<1>1. emitted \in Seq(Event)
  BY DEF TypeOK, Event
<1>2. QED
  BY <1>1

THEOREM TypeCorrect == Spec => []TypeOK
<1> USE AccountsAssumption
<1>1. Init => TypeOK
  BY DEF Init, TypeOK
<1>2. TypeOK /\ [Next]_vars => TypeOK'
  <2> SUFFICES ASSUME TypeOK, [Next]_vars PROVE TypeOK'
    OBVIOUS
  <2> USE DEF TypeOK, accounts, events, webhook, call, history
  <2>1. ASSUME NEW c \in Customers, NEW saying \in Statuses \cup {None}, StripeEmits(c, saying)
        PROVE  TypeOK'
    <3> DEFINE ev == [customer |-> c, status |-> saying]
    <3>1. ev \in [customer : Customers, status : Statuses \cup {None}]
      OBVIOUS
    <3>2. /\ emitted' = Append(emitted, ev) /\ Len(emitted) < MaxEvents
          /\ UNCHANGED <<customer, standing, fees, seen, credited, step, event, account, loaded,
                         pc, session, payload, bindings, disordered>>
      BY <2>1 DEF StripeEmits
    <3>3. /\ emitted' \in Seq([customer : Customers, status : Statuses \cup {None}])
          /\ Len(emitted') = Len(emitted) + 1
      BY <3>1, <3>2
    <3>4. 1 .. Len(emitted) \subseteq 1 .. Len(emitted')
      BY <3>3
    <3>5. Len(emitted') <= MaxEvents
      BY <3>2, <3>3
    <3>6. event' \in [Webhooks -> (1 .. Len(emitted')) \cup {None}]
      BY <3>2, <3>4
    <3> HIDE DEF ev
    <3>7. QED
      BY <3>2, <3>3, <3>4, <3>5, <3>6
  <2>2. ASSUME NEW h \in Webhooks, NEW e \in 1 .. Len(emitted), ReceiveEvent(h, e) PROVE TypeOK'
    <3>1. emitted[e].customer \in Customers
      BY EventsAreEvents DEF Event
    <3>2. e # None
      OBVIOUS
    <3>3. disordered' \subseteq Customers
      BY <2>2, <3>1 DEF ReceiveEvent
    <3>4. QED
      BY <2>2, <3>2, <3>3 DEF ReceiveEvent
  <2>3. ASSUME NEW h \in Webhooks, InsertEvent(h) PROVE TypeOK'
    BY <2>3 DEF InsertEvent, Insertable
  <2>4. ASSUME NEW h \in Webhooks, DuplicateEvent(h) PROVE TypeOK'
    BY <2>4 DEF DuplicateEvent, Done
  <2>5. ASSUME NEW h \in Webhooks, ApplyEvent(h) PROVE TypeOK'
    BY <2>5 DEF ApplyEvent, Changes, Tells, Done
  <2>6. ASSUME NEW h \in Webhooks, WebhookFails(h) PROVE TypeOK'
    BY <2>6 DEF WebhookFails, Done
  <2>7. ASSUME NEW a \in Ids, NEW c \in Customers, AttachCustomer(a, c) PROVE TypeOK'
    BY <2>7 DEF AttachCustomer
  <2>8. ASSUME NEW k \in Calls, CheckBillable(k) PROVE TypeOK'
    BY <2>8 DEF CheckBillable
  <2>9. ASSUME NEW k \in Calls, EnqueueReads(k) PROVE TypeOK'
    BY <2>9 DEF EnqueueReads
  <2>10. ASSUME NEW k \in Calls, ReconcileBillable(k) PROVE TypeOK'
    BY <2>10 DEF ReconcileBillable
  <2>11. ASSUME NEW k \in Calls, EnqueueWrites(k) PROVE TypeOK'
    BY <2>11 DEF EnqueueWrites
  <2>12. ASSUME NEW k \in Calls, CallDies(k) PROVE TypeOK'
    BY <2>12 DEF CallDies
  <2>13. ASSUME UNCHANGED vars PROVE TypeOK'
    BY <2>13 DEF vars
  <2>14. QED
    BY <2>1, <2>2, <2>3, <2>4, <2>5, <2>6, <2>7, <2>8, <2>9, <2>10, <2>11, <2>12, <2>13
       DEF Next, Stripe, Webhook, Charge
<1>3. QED
  BY <1>1, <1>2, PTL DEF Spec

-----------------------------------------------------------------------------
(* Duplicates.  The primary key of stripe_events keeps two transactions    *)
(* from having one event inserted, and none has one that is committed.     *)

Apart ==
  /\ \A h \in Webhooks : step[h] = "found" => event[h] \notin seen
  /\ \A g, h \in Webhooks :
       step[g] = "found" /\ step[h] = "found" /\ event[g] = event[h] => g = h

(* What a step does as far as events and statuses go.                      *)
Emits ==
  /\ Len(emitted') = Len(emitted) + 1
  /\ \A e \in 1 .. Len(emitted) : emitted'[e] = emitted[e]
  /\ UNCHANGED <<standing, events, webhook, disordered>>

Receives(h) ==
  /\ step[h] = "idle"
  /\ \E e \in 1 .. Len(emitted) :
       /\ e \notin seen
       /\ event' = [event EXCEPT ![h] = e]
       /\ disordered \subseteq disordered'
       /\ Before(e) \subseteq seen \/ emitted[e].customer \in disordered'
  /\ step' = [step EXCEPT ![h] = "looked"]
  /\ UNCHANGED <<emitted, standing, events, account, loaded>>

Inserts(h) ==
  /\ Insertable(h)
  /\ step' = [step EXCEPT ![h] = "found"]
  /\ \E a \in Ids \cup {None} :
       /\ account' = [account EXCEPT ![h] = a]
       /\ a \in Ids => loaded' = [loaded EXCEPT ![h] = standing[a]]
       /\ a = None  => loaded' = [loaded EXCEPT ![h] = None]
  /\ UNCHANGED <<emitted, standing, events, event, disordered>>

Applies(h) == ApplyEvent(h) /\ UNCHANGED disordered

Ends(h) == Done(h) /\ UNCHANGED <<emitted, standing, events, disordered>>

Rests == UNCHANGED <<emitted, standing, events, webhook, disordered>>

(* Every step of the system is one of these.                               *)
LEMMA EventSteps ==
  ASSUME TypeOK, [Next]_vars
  PROVE  \/ Emits \/ Rests
         \/ \E h \in Webhooks : Receives(h) \/ Inserts(h) \/ Applies(h) \/ Ends(h)
<1> USE DEF accounts, events, webhook, call, history
<1>1. ASSUME NEW c \in Customers, NEW saying \in Statuses \cup {None}, StripeEmits(c, saying)
      PROVE  Emits
  <2>1. emitted \in Seq(Event) /\ [customer |-> c, status |-> saying] \in Event
    BY DEF TypeOK, Event
  <2>2. emitted' = Append(emitted, [customer |-> c, status |-> saying])
    BY <1>1 DEF StripeEmits
  <2>3. /\ Len(emitted') = Len(emitted) + 1
        /\ \A e \in 1 .. Len(emitted) : emitted'[e] = emitted[e]
    BY <2>1, <2>2
  <2>4. QED
    BY <1>1, <2>3 DEF StripeEmits, Emits
<1>2. ASSUME NEW h \in Webhooks, NEW e \in 1 .. Len(emitted), ReceiveEvent(h, e) PROVE Receives(h)
  BY <1>2 DEF ReceiveEvent, Receives
<1>3. ASSUME NEW h \in Webhooks, InsertEvent(h) PROVE Inserts(h)
  <2> DEFINE owners == {a \in Ids : customer[a] = emitted[event[h]].customer}
             a == IF owners = {} THEN None ELSE CHOOSE b \in owners : TRUE
  <2>1. a \in Ids \cup {None} /\ (a = None <=> owners = {})
    BY AccountsAssumption
  <2>2. /\ account' = [account EXCEPT ![h] = a]
        /\ loaded' = [loaded EXCEPT ![h] = IF owners = {} THEN None ELSE standing[account'[h]]]
    BY <1>3 DEF InsertEvent
  <2>3. account'[h] = a
    BY <2>2 DEF TypeOK
  <2> HIDE DEF a
  <2>4. /\ a \in Ids => loaded' = [loaded EXCEPT ![h] = standing[a]]
        /\ a = None  => loaded' = [loaded EXCEPT ![h] = None]
    BY <2>1, <2>2, <2>3, AccountsAssumption
  <2>5. QED
    BY <1>3, <2>1, <2>2, <2>4 DEF InsertEvent, Inserts
<1>4. ASSUME NEW h \in Webhooks, DuplicateEvent(h) PROVE Ends(h)
  BY <1>4 DEF DuplicateEvent, Ends
<1>5. ASSUME NEW h \in Webhooks, ApplyEvent(h) PROVE Applies(h)
  BY <1>5 DEF ApplyEvent, Applies
<1>6. ASSUME NEW h \in Webhooks, WebhookFails(h) PROVE Ends(h)
  BY <1>6 DEF WebhookFails, Ends
<1>7. ASSUME NEW a \in Ids, NEW c \in Customers, AttachCustomer(a, c) PROVE Rests
  BY <1>7 DEF AttachCustomer, Rests
<1>8. ASSUME NEW k \in Calls, Charge(k) \/ EnqueueWrites(k) \/ CallDies(k) PROVE Rests
  BY <1>8 DEF Charge, CheckBillable, EnqueueReads, ReconcileBillable, EnqueueWrites, CallDies, Rests
<1>9. CASE UNCHANGED vars
  BY <1>9 DEF vars, Rests
<1>10. QED
  BY <1>1, <1>2, <1>3, <1>4, <1>5, <1>6, <1>7, <1>8, <1>9 DEF Next, Stripe, Webhook

LEMMA ApartStep == TypeOK /\ Apart /\ [Next]_vars => Apart'
<1> SUFFICES ASSUME TypeOK, Apart, [Next]_vars PROVE Apart'
  OBVIOUS
<1> USE DEF Apart, events, webhook
<1>1. CASE Emits \/ Rests
  BY <1>1 DEF Emits, Rests
<1>2. ASSUME NEW h \in Webhooks, Receives(h) PROVE Apart'
  BY <1>2 DEF Receives, TypeOK
<1>3. ASSUME NEW h \in Webhooks, Inserts(h) PROVE Apart'
  BY <1>3 DEF Inserts, Insertable, TypeOK
<1>4. ASSUME NEW h \in Webhooks, Applies(h) PROVE Apart'
  BY <1>4 DEF Applies, ApplyEvent, Done, TypeOK
<1>5. ASSUME NEW h \in Webhooks, Ends(h) PROVE Apart'
  BY <1>5 DEF Ends, Done, TypeOK
<1>6. QED
  BY <1>1, <1>2, <1>3, <1>4, <1>5, EventSteps

LEMMA ApartAlways == Spec => [](TypeOK /\ Apart)
<1>1. Init => Apart
  BY DEF Init, Apart
<1>2. QED
  BY <1>1, ApartStep, TypeCorrect, PTL DEF Spec

(* Replaying an event changes nothing: a status comes from an event that   *)
(* has not been recorded before.                                           *)
THEOREM ReplayDoesNotMutate == Spec => StatusFollowsEvents
<1>1. ASSUME TypeOK, Apart, [Next]_vars, NEW a \in Ids, standing'[a] # standing[a]
      PROVE  \E e \in seen' \ seen : credited'[e] = a /\ emitted[e].status = standing'[a]
  <2>1. PICK h \in Webhooks : Applies(h)
    BY <1>1, EventSteps DEF Emits, Receives, Inserts, Ends, Rests
  <2> DEFINE e == event[h]
  <2>2. /\ step[h] = "found" /\ Tells(h)
        /\ standing' = [standing EXCEPT ![account[h]] = emitted[e].status]
        /\ seen' = seen \cup {e} /\ credited' = [credited EXCEPT ![e] = account[h]]
    BY <1>1, <2>1 DEF Applies, ApplyEvent
  <2>3. e \in 1 .. Len(emitted) /\ e \notin seen
    BY <1>1, <2>2 DEF TypeOK, Apart
  <2>4. e \in 1 .. MaxEvents
    BY <1>1, <2>3, AccountsAssumption DEF TypeOK
  <2>5. a = account[h] /\ standing'[a] = emitted[e].status
    BY <1>1, <2>2 DEF TypeOK
  <2>6. credited'[e] = a
    BY <1>1, <2>2, <2>4, <2>5 DEF TypeOK
  <2>7. QED
    BY <2>2, <2>3, <2>5, <2>6
<1>2. TypeOK /\ Apart /\ [Next]_vars =>
        [\A a \in Ids : standing'[a] # standing[a] =>
           \E e \in seen' \ seen : credited'[e] = a /\ emitted[e].status = standing'[a]]_vars
  BY <1>1
<1>3. QED
  BY <1>2, ApartAlways, PTL DEF Spec, StatusFollowsEvents

-----------------------------------------------------------------------------
(* Order.  About a customer whose events come in order, an event is        *)
(* received when all earlier ones are recorded: so two of them are never   *)
(* in flight at once, and the one applied last is the latest.              *)

InFlight(e) == \E h \in Webhooks : step[h] # "idle" /\ event[h] = e

InOrder ==
  \A e \in 1 .. Len(emitted) :
    emitted[e].customer \notin disordered /\ (e \in seen \/ InFlight(e)) => Before(e) \subseteq seen

LEMMA InOrderStep == TypeOK /\ InOrder /\ [Next]_vars => InOrder'
<1> SUFFICES ASSUME TypeOK, InOrder, [Next]_vars, NEW e \in 1 .. Len(emitted'),
                    emitted'[e].customer \notin disordered', e \in seen' \/ InFlight(e)'
             PROVE  Before(e)' \subseteq seen'
  BY DEF InOrder
<1> USE DEF events, webhook
<1>1. CASE Emits
  <2>1. e \in seen \/ InFlight(e)
    BY <1>1 DEF Emits, InFlight
  <2>2. e \in 1 .. Len(emitted)
    BY <2>1 DEF InFlight, TypeOK
  <2>3. Before(e)' = Before(e)
    BY <1>1, <2>2 DEF Emits, Before, TypeOK
  <2>4. QED
    BY <1>1, <2>1, <2>2, <2>3 DEF Emits, InOrder
<1>2. ASSUME emitted' = emitted, disordered' = disordered, seen \subseteq seen',
             e \in seen \/ InFlight(e)
      PROVE  Before(e)' \subseteq seen'
  BY <1>2 DEF InOrder, Before
<1>3. CASE Rests
  BY <1>2, <1>3 DEF Rests, InFlight
<1>4. ASSUME NEW h \in Webhooks, Receives(h) PROVE Before(e)' \subseteq seen'
  <2>1. PICK d \in 1 .. Len(emitted) :
               /\ event' = [event EXCEPT ![h] = d]
               /\ disordered \subseteq disordered'
               /\ Before(d) \subseteq seen \/ emitted[d].customer \in disordered'
    BY <1>4 DEF Receives
  <2>2. Before(e)' = Before(e) /\ seen' = seen /\ emitted' = emitted
    BY <1>4 DEF Receives, Before
  <2>3. CASE e = d
    BY <2>1, <2>2, <2>3
  <2>4. CASE e # d
    <3>1. e \in seen \/ InFlight(e)
      BY <1>4, <2>1, <2>4 DEF Receives, InFlight, TypeOK
    <3>2. QED
      BY <2>1, <2>2, <3>1 DEF InOrder
  <2>5. QED
    BY <2>3, <2>4
<1>5. ASSUME NEW h \in Webhooks, Inserts(h) PROVE Before(e)' \subseteq seen'
  <2>1. e \in seen \/ InFlight(e)
    BY <1>5 DEF Inserts, Insertable, InFlight, TypeOK
  <2>2. QED
    BY <1>2, <1>5, <2>1 DEF Inserts
<1>6. ASSUME NEW h \in Webhooks, Applies(h) PROVE Before(e)' \subseteq seen'
  <2>1. e \in seen \/ InFlight(e)
    BY <1>6 DEF Applies, ApplyEvent, Done, InFlight, TypeOK
  <2>2. QED
    BY <1>2, <1>6, <2>1 DEF Applies, ApplyEvent
<1>7. ASSUME NEW h \in Webhooks, Ends(h) PROVE Before(e)' \subseteq seen'
  <2>1. e \in seen \/ InFlight(e)
    BY <1>7 DEF Ends, Done, InFlight, TypeOK
  <2>2. QED
    BY <1>2, <1>7, <2>1 DEF Ends
<1>8. QED
  BY <1>1, <1>3, <1>4, <1>5, <1>6, <1>7, EventSteps

(* The events applied to the account so far are about c alone, and c's     *)
(* came in order.                                                          *)
Heeds(a, c) == c \notin disordered /\ Credit(a) \subseteq About(c)

(* The account says what the latest of these events said.                  *)
UpToDate(a) ==
  \/ Saying(Credit(a)) = {} /\ standing[a] = None
  \/ \E e \in Saying(Credit(a)) :
       (\A d \in Saying(Credit(a)) : d <= e) /\ standing[a] = emitted[e].status

Heeded ==
  \A a \in Ids, c \in Customers :
    Heeds(a, c) =>
      /\ UpToDate(a)
      /\ \A h \in Webhooks :
           step[h] = "found" /\ account[h] = a /\ event[h] \in About(c) => loaded[h] = standing[a]

(* Two events about a customer in order are not in flight together, and    *)
(* what is in flight is later than what is recorded.                       *)
LEMMA Sequential ==
  ASSUME TypeOK, Apart, InOrder, NEW c \in Customers \ disordered,
         NEW h \in Webhooks, step[h] = "found", event[h] \in About(c)
  PROVE  /\ \A g \in Webhooks : step[g] = "found" /\ event[g] \in About(c) => g = h
         /\ \A d \in seen \cap About(c) : d < event[h]
<1>1. Before(event[h]) \subseteq seen
  BY DEF InOrder, InFlight, About
<1>2. ASSUME NEW g \in Webhooks, step[g] = "found", event[g] \in About(c) PROVE g = h
  <2>1. Before(event[g]) \subseteq seen
    BY <1>2 DEF InOrder, InFlight, About
  <2>2. event[g] \notin Before(event[h]) /\ event[h] \notin Before(event[g])
    BY <1>1, <1>2, <2>1 DEF Apart
  <2>3. event[g] \in 1 .. Len(emitted) /\ event[h] \in 1 .. Len(emitted)
    BY <1>2 DEF About
  <2>4. event[g] = event[h]
    BY <1>2, <2>2, <2>3 DEF Before, About, TypeOK
  <2>5. QED
    BY <1>2, <2>4 DEF Apart
<1>3. ASSUME NEW d \in seen \cap About(c) PROVE d < event[h]
  <2>1. Before(d) \subseteq seen
    BY <1>3 DEF InOrder, About
  <2>2. event[h] \notin Before(d) /\ event[h] # d
    BY <1>3, <2>1 DEF Apart
  <2>3. event[h] \in 1 .. Len(emitted) /\ d \in 1 .. Len(emitted)
    BY <1>3 DEF About
  <2>4. QED
    BY <2>2, <2>3, <1>3 DEF Before, About, TypeOK
<1>4. QED
  BY <1>2, <1>3

(* Applying an event about c adds it, as the latest, to what the account   *)
(* has been told.                                                          *)
LEMMA HeededApplies ==
  ASSUME TypeOK, Apart, InOrder, Heeded,
         NEW h \in Webhooks, Applies(h),
         NEW a \in Ids, NEW c \in Customers, Heeds(a, c)', account[h] = a
  PROVE  /\ UpToDate(a)'
         /\ \A g \in Webhooks : step'[g] = "found" => event'[g] \notin About(c)'
<1> DEFINE e == event[h]
<1>1. /\ step[h] = "found"
      /\ \/ Tells(h) /\ standing' = [standing EXCEPT ![a] = emitted[e].status]
         \/ ~Changes(h) /\ standing' = standing
      /\ seen' = seen \cup {e} /\ credited' = [credited EXCEPT ![e] = a]
      /\ emitted' = emitted /\ disordered' = disordered
      /\ step' = [step EXCEPT ![h] = "idle"] /\ event' = [event EXCEPT ![h] = None]
  BY DEF Applies, ApplyEvent, Done
<1>2. e \in 1 .. Len(emitted) /\ e \in 1 .. MaxEvents /\ e \notin seen
  BY <1>1, AccountsAssumption DEF TypeOK, Apart
<1>3. Credit(a)' = Credit(a) \cup {e} /\ Credit(a) \subseteq seen
  BY <1>1, <1>2 DEF Credit, TypeOK
<1>4. About(c)' = About(c)
  BY <1>1 DEF About
<1>5. Heeds(a, c) /\ e \in About(c)
  BY <1>1, <1>3, <1>4 DEF Heeds
<1>6. UpToDate(a) /\ loaded[h] = standing[a]
  BY <1>1, <1>5 DEF Heeded
<1>7. /\ \A g \in Webhooks : step[g] = "found" /\ event[g] \in About(c) => g = h
      /\ \A d \in Credit(a) : d < e
  <2>1. c \in Customers \ disordered
    BY <1>5 DEF Heeds
  <2>2. Credit(a) \subseteq seen \cap About(c)
    BY <1>3, <1>5 DEF Heeds
  <2>3. QED
    BY <1>1, <1>5, <2>1, <2>2, Sequential
<1>8. UpToDate(a)'
  <2>1. CASE emitted[e].status \in Statuses
    <3>1. Saying(Credit(a))' = Saying(Credit(a)) \cup {e}
      BY <1>1, <1>3, <2>1 DEF Saying
    <3>2. standing'[a] = emitted[e].status
      BY <1>1, <1>6, <2>1, AccountsAssumption DEF Changes, Tells, TypeOK
    <3>3. \A d \in Saying(Credit(a))' : d <= e
      <4>1. \A d \in Saying(Credit(a)) : d \in Credit(a)
        BY DEF Saying
      <4>2. \A d \in Credit(a) : d \in 1 .. Len(emitted)
        BY DEF Credit, TypeOK
      <4>3. QED
        BY <1>2, <1>7, <3>1, <4>1, <4>2
    <3>4. QED
      BY <1>1, <3>1, <3>2, <3>3 DEF UpToDate
  <2>2. CASE emitted[e].status \notin Statuses
    <3>1. Saying(Credit(a))' = Saying(Credit(a))
      BY <1>1, <1>3, <2>2 DEF Saying
    <3>2. standing' = standing
      BY <1>1, <2>2 DEF Tells
    <3>3. QED
      BY <1>1, <1>6, <3>1, <3>2 DEF UpToDate
  <2>3. QED
    BY <2>1, <2>2
<1>9. ASSUME NEW g \in Webhooks, step'[g] = "found" PROVE event'[g] \notin About(c)'
  <2>1. g # h /\ step[g] = "found" /\ event'[g] = event[g]
    BY <1>1, <1>9 DEF TypeOK
  <2>2. QED
    BY <1>4, <1>7, <2>1
<1>10. QED
  BY <1>8, <1>9

LEMMA HeededStep == TypeOK /\ Apart /\ InOrder /\ Heeded /\ [Next]_vars => Heeded'
<1> SUFFICES ASSUME TypeOK, Apart, InOrder, Heeded, [Next]_vars,
                    NEW a \in Ids, NEW c \in Customers, Heeds(a, c)'
             PROVE  /\ UpToDate(a)'
                    /\ \A h \in Webhooks :
                         step'[h] = "found" /\ account'[h] = a /\ event'[h] \in About(c)'
                           => loaded'[h] = standing'[a]
  BY DEF Heeded
<1> USE DEF events, webhook
<1>1. CASE Emits
  <2>1. Credit(a)' = Credit(a) /\ Credit(a) \subseteq 1 .. Len(emitted)
    BY <1>1 DEF Emits, Credit, TypeOK
  <2>2. \A e \in 1 .. Len(emitted) : e \in About(c)' <=> e \in About(c)
    BY <1>1 DEF Emits, About, TypeOK
  <2>3. Heeds(a, c)
    BY <1>1, <2>1, <2>2 DEF Emits, Heeds
  <2>4. Saying(Credit(a))' = Saying(Credit(a))
    BY <1>1, <2>1 DEF Emits, Saying
  <2>5. UpToDate(a)'
    BY <1>1, <2>1, <2>3, <2>4 DEF Heeded, UpToDate, Emits, Saying
  <2>6. ASSUME NEW h \in Webhooks, step'[h] = "found", account'[h] = a, event'[h] \in About(c)'
        PROVE  loaded'[h] = standing'[a]
    <3>1. event[h] \in 1 .. Len(emitted)
      BY <1>1, <2>6 DEF Emits, TypeOK
    <3>2. QED
      BY <1>1, <2>2, <2>3, <2>6, <3>1 DEF Heeded, Emits
  <2>7. QED
    BY <2>5, <2>6
<1>2. ASSUME UNCHANGED <<emitted, standing, seen, credited>>, disordered \subseteq disordered'
      PROVE  /\ About(c)' = About(c) /\ Heeds(a, c) /\ UpToDate(a)'
  <2>1. About(c)' = About(c) /\ Credit(a)' = Credit(a)
    BY <1>2 DEF About, Credit
  <2>2. Heeds(a, c) /\ Saying(Credit(a))' = Saying(Credit(a))
    BY <1>2, <2>1 DEF Heeds, Saying
  <2>3. QED
    BY <1>2, <2>1, <2>2 DEF Heeded, UpToDate
<1>3. CASE Rests
  BY <1>2, <1>3 DEF Rests, Heeded
<1>4. ASSUME NEW h \in Webhooks, Receives(h)
      PROVE  /\ UpToDate(a)'
             /\ \A g \in Webhooks :
                  step'[g] = "found" /\ account'[g] = a /\ event'[g] \in About(c)'
                    => loaded'[g] = standing'[a]
  BY <1>2, <1>4 DEF Receives, Heeded, TypeOK
<1>5. ASSUME NEW h \in Webhooks, Inserts(h)
      PROVE  /\ UpToDate(a)'
             /\ \A g \in Webhooks :
                  step'[g] = "found" /\ account'[g] = a /\ event'[g] \in About(c)'
                    => loaded'[g] = standing'[a]
  BY <1>2, <1>5, AccountsAssumption DEF Inserts, Heeded, TypeOK
<1>6. ASSUME NEW h \in Webhooks, Applies(h)
      PROVE  /\ UpToDate(a)'
             /\ \A g \in Webhooks :
                  step'[g] = "found" /\ account'[g] = a /\ event'[g] \in About(c)'
                    => loaded'[g] = standing'[a]
  <2>1. CASE account[h] = a
    BY <1>6, <2>1, HeededApplies
  <2>2. CASE account[h] # a
    <3>1. /\ emitted' = emitted /\ disordered' = disordered /\ standing'[a] = standing[a]
          /\ step' = [step EXCEPT ![h] = "idle"] /\ event' = [event EXCEPT ![h] = None]
          /\ account' = [account EXCEPT ![h] = None] /\ loaded' = [loaded EXCEPT ![h] = None]
          /\ seen' = seen \cup {event[h]} /\ credited' = [credited EXCEPT ![event[h]] = account[h]]
          /\ step[h] = "found"
      BY <1>6, <2>2 DEF Applies, ApplyEvent, Done, TypeOK
    <3>2. event[h] \in 1 .. MaxEvents /\ event[h] \notin seen
      BY <3>1, AccountsAssumption DEF TypeOK, Apart
    <3>3. Credit(a)' = Credit(a) /\ About(c)' = About(c)
      BY <2>2, <3>1, <3>2 DEF Credit, About, TypeOK
    <3>4. Heeds(a, c) /\ Saying(Credit(a))' = Saying(Credit(a))
      BY <3>1, <3>3 DEF Heeds, Saying
    <3>5. UpToDate(a)'
      BY <3>1, <3>3, <3>4 DEF Heeded, UpToDate
    <3>6. QED
      BY <3>1, <3>3, <3>4, <3>5 DEF Heeded, TypeOK
  <2>3. QED
    BY <2>1, <2>2
<1>7. ASSUME NEW h \in Webhooks, Ends(h)
      PROVE  /\ UpToDate(a)'
             /\ \A g \in Webhooks :
                  step'[g] = "found" /\ account'[g] = a /\ event'[g] \in About(c)'
                    => loaded'[g] = standing'[a]
  BY <1>2, <1>7 DEF Ends, Done, Heeded, TypeOK
<1>8. QED
  BY <1>1, <1>3, <1>4, <1>5, <1>6, <1>7, EventSteps

LEMMA HeededAlways == Spec => [](TypeOK /\ Heeded)
<1>1. Init => InOrder /\ Heeded
  BY DEF Init, InOrder, InFlight, Heeded, UpToDate, Saying, Credit
<1>2. QED
  BY <1>1, InOrderStep, HeededStep, ApartAlways, PTL DEF Spec

LEMMA LastIsLatest ==
  ASSUME NEW E, E \subseteq Nat, NEW e \in E, \A d \in E : d <= e
  PROVE  Last(E) = emitted[e].status
<1>1. (CHOOSE x \in E : \A d \in E : d <= x) = e
  <2>1. \A x \in E : (\A d \in E : d <= x) => x = e
    OBVIOUS
  <2>2. QED
    BY <2>1, Zenon
<1>2. QED
  BY <1>1 DEF Last

LEMMA StandingIsLast ==
  ASSUME TypeOK, Heeded, NEW a \in Ids, Steady(a)
  PROVE  standing[a] = Last(Saying(Credit(a)))
<1>1. customer[a] \in Customers /\ Heeds(a, customer[a])
  BY DEF Steady, Heeds, TypeOK
<1>2. UpToDate(a)
  BY <1>1 DEF Heeded
<1>3. Saying(Credit(a)) \subseteq Nat
  <2>1. 1 .. Len(emitted) \subseteq Nat
    BY DEF TypeOK
  <2>2. Saying(Credit(a)) \subseteq seen
    BY DEF Saying, Credit
  <2>3. QED
    BY <2>1, <2>2 DEF TypeOK
<1>4. QED
  BY <1>2, <1>3, LastIsLatest DEF UpToDate, Last

(* When the events of its customer arrive in order, an account's status    *)
(* is that of the latest, however many transactions fail or race.          *)
THEOREM LatestWins == Spec => []LatestEventWins
<1>1. TypeOK /\ Heeded => LatestEventWins
  BY StandingIsLast DEF LatestEventWins
<1>2. QED
  BY <1>1, HeededAlways, PTL

(* A call never passes the check for a customer whose latest event, all of *)
(* them having arrived in order, says unpaid.                              *)
THEOREM UnpaidAreRefused == Spec => UnpaidCustomersAreRefused
<1>1. ASSUME TypeOK, Heeded, [Next]_vars, NEW k \in Calls, pc[k] # "checked", pc'[k] = "checked",
             Configured, Steady(AccountOf[k]),
             About(customer[AccountOf[k]]) \subseteq Credit(AccountOf[k])
      PROVE  Last(Saying(About(customer[AccountOf[k]]))) # "unpaid"
  <2> DEFINE a == AccountOf[k]
  <2>1. CheckBillable(k) \/ ReconcileBillable(k)
    <3>1. ASSUME NEW j \in Calls, Charge(j) \/ EnqueueWrites(j) \/ CallDies(j)
          PROVE  CheckBillable(k) \/ ReconcileBillable(k)
      BY <1>1, <3>1 DEF Charge, CheckBillable, EnqueueReads, ReconcileBillable, EnqueueWrites,
                        CallDies, TypeOK
    <3>2. pc' # pc
      BY <1>1
    <3>3. QED
      BY <1>1, <3>1, <3>2 DEF Next, Stripe, Webhook, StripeEmits, ReceiveEvent, InsertEvent,
         DuplicateEvent, ApplyEvent, WebhookFails, AttachCustomer, call, vars
  <2>2. Billable(a)
    BY <1>1, <2>1 DEF CheckBillable, ReconcileBillable, TypeOK
  <2>3. Credit(a) = About(customer[a])
    BY <1>1 DEF Steady
  <2>4. a \in Ids
    BY AccountsAssumption
  <2>5. standing[a] = Last(Saying(About(customer[a])))
    BY <1>1, <2>3, <2>4, StandingIsLast
  <2>6. QED
    BY <1>1, <2>2, <2>5 DEF Billable
<1>2. TypeOK /\ Heeded /\ [Next]_vars =>
        [\A k \in Calls :
           LET a == AccountOf[k]
           IN  /\ pc[k] # "checked" /\ pc'[k] = "checked"
               /\ Configured /\ Steady(a) /\ About(customer[a]) \subseteq Credit(a)
               => Last(Saying(About(customer[a]))) # "unpaid"]_vars
  BY <1>1
<1>3. QED
  BY <1>2, HeededAlways, PTL DEF Spec, UnpaidCustomersAreRefused

-----------------------------------------------------------------------------
(* Rows and fees.  An account never loses its customer, it only gets       *)
(* another: so the copy finds one although the check was long ago.         *)

Bound ==
  /\ \A a \in Ids : customer[a] # None => <<a, customer[a]>> \in bindings
  /\ Configured =>
       \A k \in Calls :
         /\ pc[k] \in {"checked", "read"} => customer[AccountOf[k]] # None
         /\ pc[k] = "read"   => <<AccountOf[k], session[k].customer>> \in bindings
         /\ pc[k] = "queued" => <<AccountOf[k], payload[k]>> \in bindings

LEMMA BoundStep == TypeOK /\ Bound /\ [Next]_vars => Bound'
<1> SUFFICES ASSUME TypeOK, Bound, [Next]_vars PROVE Bound'
  OBVIOUS
<1> USE AccountsAssumption DEF Bound, accounts, events, webhook, call, history
<1>1. ASSUME UNCHANGED <<customer, pc, session, payload, bindings>> PROVE Bound'
  BY <1>1
<1>2. CASE Stripe \/ \E h \in Webhooks : Webhook(h) \/ WebhookFails(h)
  BY <1>1, <1>2 DEF Stripe, StripeEmits, Webhook, ReceiveEvent, InsertEvent, DuplicateEvent,
                    ApplyEvent, WebhookFails
<1>3. ASSUME NEW a \in Ids, NEW c \in Customers, AttachCustomer(a, c) PROVE Bound'
  BY <1>3 DEF AttachCustomer, TypeOK
<1>4. ASSUME NEW k \in Calls, CheckBillable(k) \/ ReconcileBillable(k) PROVE Bound'
  BY <1>4 DEF CheckBillable, ReconcileBillable, Billable, TypeOK
<1>5. ASSUME NEW k \in Calls, EnqueueReads(k) PROVE Bound'
  BY <1>5 DEF EnqueueReads, TypeOK
<1>6. ASSUME NEW k \in Calls, EnqueueWrites(k) PROVE Bound'
  BY <1>6 DEF EnqueueWrites, TypeOK
<1>7. ASSUME NEW k \in Calls, CallDies(k) PROVE Bound'
  BY <1>7 DEF CallDies, TypeOK
<1>8. CASE UNCHANGED vars
  BY <1>1, <1>8 DEF vars
<1>9. QED
  BY <1>2, <1>3, <1>4, <1>5, <1>6, <1>7, <1>8 DEF Next, Charge

(* An outbox row names a customer that was attached to its account.        *)
THEOREM RowsAreBound == Spec => []RowsNameTheirCustomer
<1>1. Init => Bound
  BY DEF Init, Bound
<1>2. Bound => RowsNameTheirCustomer
  BY DEF Bound, RowsNameTheirCustomer
<1>3. QED
  BY <1>1, <1>2, BoundStep, TypeCorrect, PTL DEF Spec

Queued(a) == {k \in Calls : AccountOf[k] = a /\ pc[k] = "queued"}

LEMMA FeesStep == TypeOK /\ FeesMatchRows /\ [Next]_vars => FeesMatchRows'
<1> SUFFICES ASSUME TypeOK, FeesMatchRows, [Next]_vars, NEW a \in Ids
             PROVE  fees'[a] = Fee * Cardinality(Queued(a)')
  BY DEF FeesMatchRows, Queued
<1> USE AccountsAssumption
<1>1. fees[a] = Fee * Cardinality(Queued(a))
  BY DEF FeesMatchRows, Queued
<1>2. ASSUME fees'[a] = fees[a], Queued(a)' = Queued(a) PROVE fees'[a] = Fee * Cardinality(Queued(a)')
  BY <1>1, <1>2
<1> USE DEF accounts, events, webhook, call, history
<1>3. CASE Stripe \/ \E h \in Webhooks : Webhook(h) \/ WebhookFails(h)
  BY <1>2, <1>3 DEF Stripe, StripeEmits, Webhook, ReceiveEvent, InsertEvent, DuplicateEvent,
                    ApplyEvent, WebhookFails, Queued
<1>4. ASSUME NEW b \in Ids, NEW c \in Customers, AttachCustomer(b, c)
      PROVE  fees'[a] = Fee * Cardinality(Queued(a)')
  BY <1>2, <1>4 DEF AttachCustomer, Queued
<1>5. ASSUME NEW k \in Calls, Charge(k) \/ CallDies(k)
      PROVE  fees'[a] = Fee * Cardinality(Queued(a)')
  <2>1. fees' = fees
    BY <1>5 DEF Charge, CheckBillable, EnqueueReads, ReconcileBillable, CallDies
  <2>2. Queued(a)' = Queued(a)
    BY <1>5 DEF Charge, CheckBillable, EnqueueReads, ReconcileBillable, CallDies, Queued, TypeOK
  <2>3. QED
    BY <1>2, <2>1, <2>2
<1>6. ASSUME NEW k \in Calls, EnqueueWrites(k) PROVE fees'[a] = Fee * Cardinality(Queued(a)')
  <2>1. CASE AccountOf[k] # a
    BY <1>2, <1>6, <2>1 DEF EnqueueWrites, Queued, TypeOK
  <2>2. CASE AccountOf[k] = a
    <3>1. Queued(a)' = Queued(a) \cup {k} /\ k \notin Queued(a)
      BY <1>6, <2>2 DEF EnqueueWrites, Queued, TypeOK
    <3>2. fees'[a] = fees[a] + Fee
      BY <1>6, <2>2 DEF EnqueueWrites, TypeOK
    <3>3. IsFiniteSet(Queued(a))
      BY FS_Subset DEF Queued
    <3>4. /\ Cardinality(Queued(a)) \in Nat
          /\ Cardinality(Queued(a)') = Cardinality(Queued(a)) + 1
      BY <3>1, <3>3, FS_CardinalityType, FS_AddElement
    <3>5. \A n \in Nat : Fee * (n + 1) = Fee * n + Fee
      OBVIOUS
    <3>6. QED
      BY <1>1, <3>2, <3>4, <3>5
  <2>3. QED
    BY <2>1, <2>2
<1>7. CASE UNCHANGED vars
  BY <1>2, <1>7 DEF vars, Queued
<1>8. QED
  BY <1>3, <1>4, <1>5, <1>6, <1>7 DEF Next

(* An account owes one fee for each of its rows, and for nothing else.     *)
THEOREM FeesAreCounted == Spec => []FeesMatchRows
<1>1. Init => FeesMatchRows
  <2> SUFFICES ASSUME Init, NEW a \in Ids PROVE fees[a] = Fee * Cardinality(Queued(a))
    BY DEF FeesMatchRows, Queued
  <2>1. fees[a] = 0 /\ Queued(a) = {}
    BY DEF Init, Queued
  <2>2. QED
    BY <2>1, FS_EmptySet, AccountsAssumption
<1>2. QED
  BY <1>1, FeesStep, TypeCorrect, PTL DEF Spec
=============================================================================
