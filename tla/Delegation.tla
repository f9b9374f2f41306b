----------------------------- MODULE Delegation -----------------------------
(***************************************************************************)
(* Who may spend what: agents (crossing/identity.py), the mandates issued  *)
(* to them and the child mandates carved out of mandates                   *)
(* (crossing/mandate.py, crossing/policy.py).                              *)
(*                                                                         *)
(* One principal.  A request runs in one transaction; what it reads and    *)
(* what it writes are two steps, because on Postgres other transactions    *)
(* commit in between.  Serialized = TRUE is SQLite, where they do not.     *)
(* Spending is reduced to what concerns the mandate: the check and the     *)
(* debit (module Ledger has the rest).  Refused requests write nothing     *)
(* here and are not steps.                                                 *)
(***************************************************************************)
EXTENDS Integers

CONSTANTS
  Agents, Mandates,
  Tools,       \* tools on servers: both lists of a mandate are one set here
  None,
  Price,       \* of a tool
  Offers,      \* the terms a client may ask a mandate to be issued on
  Requests,    \* transactions that may be open at a time
  MaxTime,     \* bound on the clock
  Serialized

Terms == [spend_limit : Nat, max_call : Nat, tools : {None} \cup SUBSET Tools,
          expires : Nat \cup {None}, sub_budget : Nat]

ASSUME DelegationAssumption ==
  /\ None \notin Agents \cup Mandates \cup Nat
  /\ \A list \in SUBSET Tools : list # None
  /\ Price \in [Tools -> Nat]
  /\ Offers \subseteq Terms /\ None \notin Offers
  /\ MaxTime \in Nat
  /\ Serialized \in BOOLEAN

VARIABLES
  (* table agents *)
  agent,       \* "absent", "live" or "revoked"
  boss,        \* parent_id
  (* table mandates *)
  holder,      \* agent_id, None before the mandate is issued
  parent,      \* parent_mandate_id
  terms,       \* the signed payload
  remaining, revoked,
  (* what the ledger has debited from a mandate and not refunded *)
  spent,
  (* open transactions and the clock *)
  open, now

people   == <<agent, boss>>
payload  == <<holder, parent, terms>>
vars     == <<people, payload, remaining, revoked, spent, open, now>>

Nobody == [kind |-> "none"]

Init ==
  /\ agent = [a \in Agents |-> "absent"]
  /\ boss = [a \in Agents |-> None]
  /\ holder = [m \in Mandates |-> None]
  /\ parent = [m \in Mandates |-> None]
  /\ terms = [m \in Mandates |-> None]
  /\ remaining = [m \in Mandates |-> 0]
  /\ revoked = [m \in Mandates |-> FALSE]
  /\ spent = [m \in Mandates |-> 0]
  /\ open = [q \in Requests |-> Nobody]
  /\ now = 0

-----------------------------------------------------------------------------
Issued(m) == holder[m] # None

LockFree == Serialized => \A q \in Requests : open[q] = Nobody

Opens(q, what) ==
  /\ LockFree
  /\ open[q] = Nobody
  /\ open' = [open EXCEPT ![q] = what]

Closes(q) == open' = [open EXCEPT ![q] = Nobody]

(* The agents above an agent, itself included: whatever a set contains     *)
(* that has it, and with each agent the agent's parent.                    *)
Upward(S) == \A a \in S : boss[a] # None => boss[a] \in S

Lineage(a) == {b \in Agents : \A S \in SUBSET Agents : a \in S /\ Upward(S) => b \in S}

(* require_live_agent looks at the agent and at its parent, no further.    *)
LiveAgent(a) ==
  /\ agent[a] = "live"
  /\ boss[a] # None => agent[boss[a]] = "live"

NotLater(t, u) == u # None => t # None /\ t <= u

(* check_fresh lets a mandate act at its expiry; the conditional UPDATEs   *)
(* do not.                                                                 *)
Fresh(m)   == ~revoked[m] /\ (terms[m].expires # None => now <= terms[m].expires)
Unexpired(m) == ~revoked[m] /\ (terms[m].expires # None => now < terms[m].expires)

(* policy.subset: a list that allows nothing is a parent like any other,   *)
(* except that "no list" passes for a subset of it.                        *)
SubsetOK(child, above) ==
  IF above = None THEN TRUE
  ELSE IF above = {} THEN child # None => child \subseteq above
  ELSE child # None /\ child \subseteq above

(* Variant: the expiry is not compared. *)
AttenuatesForever(t, m) ==
  /\ t.spend_limit > 0
  /\ t.spend_limit <= remaining[m] /\ t.spend_limit <= terms[m].spend_limit
  /\ t.max_call <= terms[m].max_call
  /\ SubsetOK(t.tools, terms[m].tools)
  /\ t.sub_budget <= remaining[m]
  /\ t.sub_budget <= terms[m].sub_budget

(* check_child_attenuation, on the parent as it was just read.             *)
Attenuates(t, m) ==
  /\ t.spend_limit > 0
  /\ t.spend_limit <= remaining[m] /\ t.spend_limit <= terms[m].spend_limit
  /\ t.max_call <= terms[m].max_call
  /\ SubsetOK(t.tools, terms[m].tools)
  /\ NotLater(t.expires, terms[m].expires)
  /\ t.sub_budget <= remaining[m]
  /\ t.sub_budget <= terms[m].sub_budget

-----------------------------------------------------------------------------
(* Agents.                                                                 *)

(* Variant: the parent is looked up and not checked. *)
CreateAgentReadsAny(q, a, b) ==
  /\ agent[a] = "absent"
  /\ b # None => agent[b] # "absent"
  /\ Opens(q, [kind |-> "agent", agent |-> a, boss |-> b])
  /\ UNCHANGED <<people, payload, remaining, revoked, spent, now>>

CreateAgentReads(q, a, b) ==
  /\ agent[a] = "absent"
  /\ b # None => agent[b] = "live"
  /\ Opens(q, [kind |-> "agent", agent |-> a, boss |-> b])
  /\ UNCHANGED <<people, payload, remaining, revoked, spent, now>>

CreateAgentWrites(q) ==
  /\ open[q].kind = "agent"
  /\ agent[open[q].agent] = "absent"
  /\ agent' = [agent EXCEPT ![open[q].agent] = "live"]
  /\ boss' = [boss EXCEPT ![open[q].agent] = open[q].boss]
  /\ Closes(q)
  /\ UNCHANGED <<payload, remaining, revoked, spent, now>>

(* Variant: the children, not their children. *)
RevokeAgentOneLevel(a) ==
  /\ LockFree
  /\ agent[a] # "absent"
  /\ agent' = [b \in Agents |-> IF agent[b] # "absent" /\ (b = a \/ boss[b] = a)
                                THEN "revoked" ELSE agent[b]]
  /\ UNCHANGED <<boss, payload, remaining, revoked, spent, open, now>>

(* The agent and every descendant the transaction can see.                 *)
RevokeAgent(a) ==
  /\ LockFree
  /\ agent[a] # "absent"
  /\ agent' = [b \in Agents |-> IF agent[b] # "absent" /\ a \in Lineage(b)
                                THEN "revoked" ELSE agent[b]]
  /\ UNCHANGED <<boss, payload, remaining, revoked, spent, open, now>>

-----------------------------------------------------------------------------
(* Mandates.                                                               *)

IssueReads(q, m, a, above, t) ==
  /\ ~Issued(m)
  /\ LiveAgent(a)
  /\ above # None => /\ Issued(above)
                     /\ Fresh(above)
                     /\ holder[above] \in Lineage(a)
                     /\ Attenuates(t, above)
  /\ Opens(q, [kind |-> "issue", mandate |-> m, agent |-> a, parent |-> above, terms |-> t])
  /\ UNCHANGED <<people, payload, remaining, revoked, spent, now>>

(* Variant: trust what was read. *)
CanEscrowUnchecked(m, cents) == Issued(m)

(* WHERE clause of the escrow.                                             *)
CanEscrow(m, cents) == remaining[m] >= cents /\ Unexpired(m)

(* Variant: the child's budget is not taken from the parent. *)
EscrowNothing(i) == [remaining EXCEPT ![i.mandate] = i.terms.spend_limit]

(* The child starts with its spend limit, which leaves its parent.         *)
Escrow(i) ==
  [m \in Mandates |->
     IF m = i.mandate THEN i.terms.spend_limit
     ELSE IF m = i.parent THEN remaining[m] - i.terms.spend_limit
     ELSE remaining[m]]

IssueWrites(q) ==
  LET i == open[q]
  IN  /\ i.kind = "issue"
      /\ ~Issued(i.mandate)
      /\ i.parent # None => CanEscrow(i.parent, i.terms.spend_limit)
      /\ holder' = [holder EXCEPT ![i.mandate] = i.agent]
      /\ parent' = [parent EXCEPT ![i.mandate] = i.parent]
      /\ terms' = [terms EXCEPT ![i.mandate] = i.terms]
      /\ remaining' = Escrow(i)
      /\ Closes(q)
      /\ UNCHANGED <<people, revoked, spent, now>>

RevokeMandate(m) ==
  /\ LockFree
  /\ Issued(m) /\ ~revoked[m]
  /\ revoked' = [revoked EXCEPT ![m] = TRUE]
  /\ UNCHANGED <<people, payload, remaining, spent, open, now>>

-----------------------------------------------------------------------------
(* Spending, as far as the mandate goes.                                   *)

Allows(m, tool) == terms[m].tools # None => tool \in terms[m].tools

SpendReads(q, m, tool) ==
  /\ Issued(m)
  /\ Fresh(m)
  /\ LiveAgent(holder[m])
  /\ Allows(m, tool)
  /\ Price[tool] <= terms[m].max_call
  /\ Price[tool] <= remaining[m]
  /\ Opens(q, [kind |-> "spend", mandate |-> m, cents |-> Price[tool]])
  /\ UNCHANGED <<people, payload, remaining, revoked, spent, now>>

SpendWrites(q) ==
  LET s == open[q]
  IN  /\ s.kind = "spend"
      /\ remaining[s.mandate] >= s.cents
      /\ Unexpired(s.mandate)
      /\ remaining' = [remaining EXCEPT ![s.mandate] = @ - s.cents]
      /\ spent' = [spent EXCEPT ![s.mandate] = @ + s.cents]
      /\ Closes(q)
      /\ UNCHANGED <<people, payload, revoked, now>>

(* finalize_release or reconcile_release gives a debit back.               *)
Refund(m, tool) ==
  /\ LockFree
  /\ Price[tool] <= spent[m]
  /\ spent' = [spent EXCEPT ![m] = @ - Price[tool]]
  /\ remaining' = [remaining EXCEPT ![m] = @ + Price[tool]]
  /\ UNCHANGED <<people, payload, revoked, open, now>>

(* The request is refused by its conditional UPDATE, fails, or its process *)
(* dies: the transaction rolls back.                                       *)
RollsBack(q) ==
  /\ open[q] # Nobody
  /\ Closes(q)
  /\ UNCHANGED <<people, payload, remaining, revoked, spent, now>>

TimePasses ==
  /\ now < MaxTime
  /\ now' = now + 1
  /\ UNCHANGED <<people, payload, remaining, revoked, spent, open>>

Next ==
  \/ \E q \in Requests :
       \/ \E a \in Agents, b \in Agents \cup {None} : CreateAgentReads(q, a, b)
       \/ \E m \in Mandates, a \in Agents, above \in Mandates \cup {None}, t \in Offers :
            IssueReads(q, m, a, above, t)
       \/ \E m \in Mandates, tool \in Tools : SpendReads(q, m, tool)
       \/ CreateAgentWrites(q) \/ IssueWrites(q) \/ SpendWrites(q) \/ RollsBack(q)
  \/ \E a \in Agents : RevokeAgent(a)
  \/ \E m \in Mandates : RevokeMandate(m) \/ \E tool \in Tools : Refund(m, tool)
  \/ TimePasses

Spec == Init /\ [][Next]_vars
=============================================================================
