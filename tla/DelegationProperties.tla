------------------------ MODULE DelegationProperties ------------------------
(* What delegation must guarantee.                                         *)
EXTENDS Delegation, Functions

OpenRequests ==
  {Nobody}
    \cup [kind : {"agent"}, agent : Agents, boss : Agents \cup {None}]
    \cup [kind : {"issue"}, mandate : Mandates, agent : Agents,
          parent : Mandates \cup {None}, terms : Offers]
    \cup [kind : {"spend"}, mandate : Mandates, cents : Nat]

(* Every column has a value the code gives it; in particular no escrow and *)
(* no debit takes remaining_cents below zero.                              *)
TypeOK ==
  /\ agent \in [Agents -> {"absent", "live", "revoked"}]
  /\ boss \in [Agents -> Agents \cup {None}]
  /\ holder \in [Mandates -> Agents \cup {None}]
  /\ parent \in [Mandates -> Mandates \cup {None}]
  /\ terms \in [Mandates -> Offers \cup {None}]
  /\ \A m \in Mandates : terms[m] = None <=> ~Issued(m)
  /\ remaining \in [Mandates -> Nat]
  /\ revoked \in [Mandates -> BOOLEAN]
  /\ spent \in [Mandates -> Nat]
  /\ open \in [Requests -> OpenRequests]
  /\ now \in 0 .. MaxTime

Children(m) == {c \in Mandates : Issued(c) /\ parent[c] = m}

Permitted(m) == {tool \in Tools : Allows(m, tool)}

(* README, "Child mandates are attenuated": a child spends no more, per    *)
(* call and in all, than its parent was given, expires no later, belongs   *)
(* to the agent of its parent or one below it, and is never allowed a tool *)
(* its parent is not - except under a parent whose list is empty, where    *)
(* policy.subset lets a child without a list through.                      *)
ChildrenAreAttenuated ==
  \A m \in Mandates : \A c \in Children(m) :
    /\ terms[c].spend_limit <= terms[m].spend_limit
    /\ terms[c].max_call <= terms[m].max_call
    /\ NotLater(terms[c].expires, terms[m].expires)
    /\ holder[m] \in Lineage(holder[c])
    /\ terms[m].tools # {} => Permitted(c) \subseteq Permitted(m)

(* Issuing a child escrows its limit: what a mandate was given is what it  *)
(* has left, what was debited from it, and what its children were given -  *)
(* whatever issues, debits and refunds overlap, and with none of it below  *)
(* zero: a parent cannot pay with an overdraft.                            *)
TreeConserved ==
  \A m \in Mandates : Issued(m) =>
    /\ remaining[m] >= 0 /\ spent[m] >= 0
    /\ terms[m].spend_limit =
         remaining[m] + spent[m] + SumFunction([c \in Children(m) |-> terms[c].spend_limit])

AllLive(a) == \A b \in Lineage(a) : agent[b] = "live"

(* With one writer at a time, no agent is live under a revoked one: the    *)
(* cascade of revoke_agent and the check of create_agent leave no gap.     *)
NoLiveAgentUnderRevoked ==
  \A a \in Agents : agent[a] = "live" => AllLive(a)

(* README, threat table, "Revoked operator | Agent + descendant revoke":   *)
(* no call passes its check for an agent below a revoked one, none that    *)
(* has passed it before the revocation debits after it, and no mandate is  *)
(* issued to such an agent.  Violated on Postgres: an agent created while  *)
(* its parent is being revoked can have children of its own, and           *)
(* require_live_agent looks one level up; and the debit asks nothing about *)
(* the agent.                                                              *)
RevokedSubtreesDoNotSpend ==
  [][\A q \in Requests :
       /\ open[q] = Nobody /\ open'[q].kind = "spend" => AllLive(holder[open'[q].mandate])
       /\ SpendWrites(q) => AllLive(holder[open[q].mandate])
       /\ IssueWrites(q) => AllLive(open[q].agent)]_vars
=============================================================================
