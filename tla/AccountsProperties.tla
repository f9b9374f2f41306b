------------------------- MODULE AccountsProperties -------------------------
(* What webhooks, attaching customers and charging promise each other.     *)
EXTENDS Accounts

(* Every column and every local of a transaction has a value of its type;  *)
(* a webhook that has found an account is about an event Stripe emitted.   *)
TypeOK ==
  /\ emitted \in Seq([customer : Customers, status : Statuses \cup {None}])
  /\ Len(emitted) <= MaxEvents
  /\ customer \in [Ids -> Customers \cup {None}]
  /\ standing \in [Ids -> Statuses \cup {None}]
  /\ fees \in [Ids -> Nat]
  /\ seen \subseteq 1 .. Len(emitted)
  /\ credited \in [1 .. MaxEvents -> Ids \cup {None}]
  /\ step \in [Webhooks -> {"idle", "looked", "found"}]
  /\ event \in [Webhooks -> (1 .. Len(emitted)) \cup {None}]
  /\ \A h \in Webhooks : step[h] = "idle" <=> event[h] = None
  /\ account \in [Webhooks -> Ids \cup {None}]
  /\ loaded \in [Webhooks -> Statuses \cup {None}]
  /\ pc \in [Calls -> {"start", "refused", "checked", "read", "lost", "queued"}]
  /\ session \in [Calls -> [customer : Customers \cup {None}, fees : Nat] \cup {None}]
  /\ \A k \in Calls :
       pc[k] = "read" => session[k] \in [customer : Customers \cup {None}, fees : Nat]
  /\ payload \in [Calls -> Customers \cup {None}]
  /\ bindings \subseteq Ids \X Customers
  /\ disordered \subseteq Customers

-----------------------------------------------------------------------------
(* "Replay is 200 + duplicate: true and does not mutate": an account's     *)
(* status changes only with the first recording of an event that carries   *)
(* the new status, however often and however concurrently the event is     *)
(* delivered and whatever transactions on it fail.                         *)
StatusFollowsEvents ==
  [][\A a \in Ids :
       standing'[a] # standing[a] =>
         \E e \in seen' \ seen :
           credited'[e] = a /\ emitted[e].status = standing'[a]]_vars

Saying(E)  == {e \in E : emitted[e].status \in Statuses}
Credit(a)  == {e \in seen : credited[e] = a}
About(c)   == {e \in 1 .. Len(emitted) : emitted[e].customer = c}
Last(E)    == IF E = {} THEN None
              ELSE emitted[CHOOSE e \in E : \A d \in E : d <= e].status

(* The account has had one customer as far as events go, and that          *)
(* customer's events were received in order.                               *)
Steady(a) ==
  /\ customer[a] # None
  /\ customer[a] \notin disordered
  /\ Credit(a) \subseteq About(customer[a])

(* Received in order, the latest event wins: the status of an account is   *)
(* that of the last event applied to it, through failures, duplicates and  *)
(* writes the session leaves out because it had loaded the same value.     *)
LatestEventWins ==
  \A a \in Ids : Steady(a) => standing[a] = Last(Saying(Credit(a)))

(* A call of an account whose customer Stripe has declared unpaid does not *)
(* pass the check once the account has been told, in order, all Stripe     *)
(* has said of the customer.                                               *)
UnpaidCustomersAreRefused ==
  [][\A k \in Calls :
       LET a == AccountOf[k]
       IN  /\ pc[k] # "checked" /\ pc'[k] = "checked"
           /\ Configured /\ Steady(a) /\ About(customer[a]) \subseteq Credit(a)
           => Last(Saying(About(customer[a]))) # "unpaid"]_vars

(* billing.py: "paid work requires a live customer on the account".  When  *)
(* events arrive out of order the last to arrive wins, and an account      *)
(* whose customer is unpaid at Stripe goes on being served although        *)
(* everything Stripe had to say has been recorded for it.                  *)
PaidWorkNeedsLiveCustomer ==
  [][\A k \in Calls :
       LET a == AccountOf[k]
       IN  /\ pc[k] # "checked" /\ pc'[k] = "checked" /\ Configured
           => /\ customer[a] # None
              /\ About(customer[a]) \subseteq Credit(a)
                   => Last(Saying(About(customer[a]))) # "unpaid"]_vars

(* The customer an outbox row is metered to is one that was attached to    *)
(* the account of the call, and there is one: the check and the copy are   *)
(* transactions apart, with attaching, death and reconciliation between.   *)
RowsNameTheirCustomer ==
  Configured =>
    \A k \in Calls :
      pc[k] = "queued" => <<AccountOf[k], payload[k]>> \in bindings

(* Fees accumulate once per outbox row of the account, also when two calls *)
(* of it commit at once.                                                   *)
FeesMatchRows ==
  \A a \in Ids :
    fees[a] = Fee * Cardinality({k \in Calls : AccountOf[k] = a /\ pc[k] = "queued"})
=============================================================================
