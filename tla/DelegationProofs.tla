-------------------------- MODULE DelegationProofs --------------------------
(***************************************************************************)
(* Proofs, for every number of agents, mandates, tools, offers and         *)
(* concurrent requests, of what DelegationProperties states and TLC checks *)
(* on small instances.                                                     *)
(***************************************************************************)
EXTENDS DelegationProperties, Sums, FiniteSetTheorems, TLAPS

-----------------------------------------------------------------------------
(* Types.                                                                  *)

LEMMA OfferTypes ==
  ASSUME NEW t \in Offers
  PROVE  /\ t.spend_limit \in Nat /\ t.max_call \in Nat /\ t.sub_budget \in Nat
         /\ t.tools \in {None} \cup SUBSET Tools
         /\ t.expires \in Nat \cup {None}
         /\ t # None
<1>1. t \in Terms
  BY DelegationAssumption
<1>2. t # None
  BY DelegationAssumption
<1>3. QED
  BY <1>1, <1>2 DEF Terms

(* What an open transaction holds, by its kind.                            *)
LEMMA OpenKinds ==
  ASSUME TypeOK, NEW q \in Requests
  PROVE  /\ open[q].kind = "agent" => open[q].agent \in Agents /\ open[q].boss \in Agents \cup {None}
         /\ open[q].kind = "issue" =>
              /\ open[q].mandate \in Mandates /\ open[q].agent \in Agents
              /\ open[q].parent \in Mandates \cup {None} /\ open[q].terms \in Offers
         /\ open[q].kind = "spend" => open[q].mandate \in Mandates /\ open[q].cents \in Nat
BY DEF TypeOK, OpenRequests, Nobody

THEOREM TypeCorrect == Spec => []TypeOK
<1> USE DelegationAssumption DEF people, payload
<1>1. Init => TypeOK
  BY DEF Init, TypeOK, OpenRequests, Issued
<1>2. TypeOK /\ [Next]_vars => TypeOK'
  <2> SUFFICES ASSUME TypeOK, [Next]_vars PROVE TypeOK'
    OBVIOUS
  <2>1. ASSUME NEW q \in Requests, NEW what \in OpenRequests, Opens(q, what),
               UNCHANGED <<people, payload, remaining, revoked, spent, now>>
        PROVE  TypeOK'
    BY <2>1 DEF Opens, TypeOK, Issued
  <2>2. ASSUME NEW q \in Requests, NEW a \in Agents, NEW b \in Agents \cup {None},
               CreateAgentReads(q, a, b)
        PROVE  TypeOK'
    <3>1. [kind |-> "agent", agent |-> a, boss |-> b] \in OpenRequests
      BY DEF OpenRequests
    <3>2. QED
      BY <2>1, <2>2, <3>1 DEF CreateAgentReads
  <2>3. ASSUME NEW q \in Requests, NEW m \in Mandates, NEW a \in Agents,
               NEW above \in Mandates \cup {None}, NEW t \in Offers, IssueReads(q, m, a, above, t)
        PROVE  TypeOK'
    <3>1. [kind |-> "issue", mandate |-> m, agent |-> a, parent |-> above, terms |-> t] \in OpenRequests
      BY DEF OpenRequests
    <3>2. QED
      BY <2>1, <2>3, <3>1 DEF IssueReads
  <2>4. ASSUME NEW q \in Requests, NEW m \in Mandates, NEW tool \in Tools, SpendReads(q, m, tool)
        PROVE  TypeOK'
    <3>1. [kind |-> "spend", mandate |-> m, cents |-> Price[tool]] \in OpenRequests
      BY DEF OpenRequests
    <3>2. QED
      BY <2>1, <2>4, <3>1 DEF SpendReads
  <2> Nobody \in OpenRequests
    BY DEF OpenRequests
  <2>5. ASSUME NEW q \in Requests, CreateAgentWrites(q) PROVE TypeOK'
    BY <2>5, OpenKinds DEF CreateAgentWrites, Closes, TypeOK, Issued
  <2>6. ASSUME NEW q \in Requests, IssueWrites(q) PROVE TypeOK'
    <3> DEFINE i == open[q]
    <3>1. /\ i.mandate \in Mandates /\ i.agent \in Agents
          /\ i.parent \in Mandates \cup {None} /\ i.terms \in Offers
      BY <2>6, OpenKinds DEF IssueWrites
    <3>2. i.terms.spend_limit \in Nat /\ i.terms # None
      BY <3>1, OfferTypes
    <3>3. remaining' \in [Mandates -> Nat]
      BY <2>6, <3>1, <3>2 DEF IssueWrites, Escrow, CanEscrow, TypeOK
    <3>4. \A m \in Mandates : terms'[m] \in Offers \cup {None} /\ (terms'[m] = None <=> holder'[m] = None)
      <4>1. /\ terms' = [terms EXCEPT ![i.mandate] = i.terms]
            /\ holder' = [holder EXCEPT ![i.mandate] = i.agent]
            /\ i.agent # None
        BY <2>6, <3>1 DEF IssueWrites
      <4> HIDE DEF i
      <4>2. SUFFICES ASSUME NEW m \in Mandates
                     PROVE  terms'[m] \in Offers \cup {None} /\ (terms'[m] = None <=> holder'[m] = None)
        OBVIOUS
      <4>3. CASE m = i.mandate
        BY <3>1, <3>2, <4>1, <4>3 DEF TypeOK
      <4>4. CASE m # i.mandate
        BY <4>1, <4>4 DEF TypeOK, Issued
      <4>5. QED
        BY <4>3, <4>4
    <3>5. QED
      BY <2>6, <3>1, <3>3, <3>4 DEF IssueWrites, Closes, TypeOK, Issued
  <2>7. ASSUME NEW q \in Requests, SpendWrites(q) PROVE TypeOK'
    BY <2>7, OpenKinds DEF SpendWrites, Closes, TypeOK, Issued
  <2>8. ASSUME NEW q \in Requests, RollsBack(q) PROVE TypeOK'
    BY <2>8 DEF RollsBack, Closes, TypeOK, Issued
  <2>9. ASSUME NEW a \in Agents, RevokeAgent(a) PROVE TypeOK'
    BY <2>9 DEF RevokeAgent, TypeOK, Issued
  <2>10. ASSUME NEW m \in Mandates, RevokeMandate(m) PROVE TypeOK'
    BY <2>10 DEF RevokeMandate, TypeOK, Issued
  <2>11. ASSUME NEW m \in Mandates, NEW tool \in Tools, Refund(m, tool) PROVE TypeOK'
    BY <2>11 DEF Refund, TypeOK, Issued
  <2>12. CASE TimePasses
    BY <2>12 DEF TimePasses, TypeOK, Issued
  <2>13. CASE UNCHANGED vars
    BY <2>13 DEF vars, TypeOK, Issued
  <2>14. QED
    BY <2>2, <2>3, <2>4, <2>5, <2>6, <2>7, <2>8, <2>9, <2>10, <2>11, <2>12, <2>13 DEF Next
<1>3. QED
  BY <1>1, <1>2, PTL DEF Spec

-----------------------------------------------------------------------------
(* Lineages.                                                               *)

(* Every agent is its own ancestor, and ancestors' ancestors are its own.  *)
LEMMA LineageCloses ==
  ASSUME TypeOK, NEW a \in Agents
  PROVE  /\ a \in Lineage(a) /\ Lineage(a) \subseteq Agents
         /\ Upward(Lineage(a))
         /\ \A b \in Lineage(a) : Lineage(b) \subseteq Lineage(a)
<1>1. a \in Lineage(a) /\ Lineage(a) \subseteq Agents
  BY DEF Lineage
<1>2. ASSUME NEW b \in Lineage(a), boss[b] # None PROVE boss[b] \in Lineage(a)
  BY <1>2 DEF Lineage, Upward, TypeOK
<1>3. Upward(Lineage(a))
  BY <1>2 DEF Upward
<1>4. ASSUME NEW b \in Lineage(a) PROVE Lineage(b) \subseteq Lineage(a)
  BY <1>1, <1>3 DEF Lineage
<1>5. QED
  BY <1>1, <1>3, <1>4

(* An agent that is only now created is nobody's ancestor.                 *)
Unborn == \A a \in Agents : agent[a] = "absent" => boss[a] = None

LEMMA UnbornStep == TypeOK /\ Unborn /\ [Next]_vars => Unborn'
<1> SUFFICES ASSUME TypeOK, Unborn, [Next]_vars PROVE Unborn'
  OBVIOUS
<1>1. ASSUME NEW q \in Requests, CreateAgentWrites(q) PROVE Unborn'
  BY <1>1, OpenKinds DEF CreateAgentWrites, Unborn, TypeOK
<1>2. ASSUME NEW a \in Agents, RevokeAgent(a) PROVE Unborn'
  BY <1>2 DEF RevokeAgent, Unborn, TypeOK
<1>3. CASE UNCHANGED people
  BY <1>3 DEF people, Unborn
<1>4. QED
  BY <1>1, <1>2, <1>3 DEF Next, CreateAgentReads, IssueReads, SpendReads, IssueWrites, SpendWrites,
     RollsBack, RevokeMandate, Refund, TimePasses, vars, people

(* Agents keep the ancestors they have.                                    *)
LEMMA LineageKept ==
  ASSUME TypeOK, Unborn, [Next]_vars, NEW a \in Agents
  PROVE  Lineage(a) \subseteq Lineage(a)'
<1>1. \A b \in Agents : boss[b] # None => boss'[b] = boss[b]
  <2>1. ASSUME NEW q \in Requests, CreateAgentWrites(q), NEW b \in Agents, boss[b] # None
        PROVE  boss'[b] = boss[b]
    BY <2>1, OpenKinds DEF CreateAgentWrites, Unborn, TypeOK
  <2>2. QED
    BY <2>1 DEF Next, CreateAgentReads, IssueReads, SpendReads, IssueWrites, SpendWrites, RollsBack,
       RevokeAgent, RevokeMandate, Refund, TimePasses, vars, people
<1>2. ASSUME NEW S \in SUBSET Agents, Upward(S)' PROVE Upward(S)
  BY <1>1, <1>2 DEF Upward
<1>3. QED
  BY <1>2 DEF Lineage

-----------------------------------------------------------------------------
(* Attenuation.  What issue_mandate checks against the parent it has read  *)
(* stays true of that parent until, and after, the child is written: terms *)
(* and holders are signed, and nobody loses an ancestor.                   *)

Covers(m, t, a) ==
  /\ t.spend_limit <= terms[m].spend_limit
  /\ t.max_call <= terms[m].max_call
  /\ NotLater(t.expires, terms[m].expires)
  /\ holder[m] \in Lineage(a)
  /\ SubsetOK(t.tools, terms[m].tools)

Covered ==
  /\ \A m \in Mandates :
       parent[m] # None =>
         Issued(m) /\ Issued(parent[m]) /\ Covers(parent[m], terms[m], holder[m])
  /\ \A q \in Requests :
       LET i == open[q]
       IN  i.kind = "issue" /\ i.parent # None => Issued(i.parent) /\ Covers(i.parent, i.terms, i.agent)

LEMMA IssuedKept ==
  ASSUME TypeOK, [Next]_vars, NEW m \in Mandates, Issued(m)
  PROVE  Issued(m)' /\ terms'[m] = terms[m] /\ holder'[m] = holder[m] /\ parent'[m] = parent[m]
<1>1. ASSUME NEW q \in Requests, IssueWrites(q)
      PROVE  terms'[m] = terms[m] /\ holder'[m] = holder[m] /\ parent'[m] = parent[m]
  BY <1>1, OpenKinds DEF IssueWrites, TypeOK
<1>2. terms'[m] = terms[m] /\ holder'[m] = holder[m] /\ parent'[m] = parent[m]
  BY <1>1 DEF Next, CreateAgentReads, IssueReads, SpendReads, CreateAgentWrites, SpendWrites, RollsBack,
     RevokeAgent, RevokeMandate, Refund, TimePasses, vars, payload
<1>3. QED
  BY <1>2 DEF Issued

LEMMA CoversKept ==
  ASSUME TypeOK, Unborn, [Next]_vars, NEW m \in Mandates, NEW t, NEW a \in Agents,
         Issued(m), Covers(m, t, a)
  PROVE  Covers(m, t, a)'
<1>1. terms'[m] = terms[m] /\ holder'[m] = holder[m]
  BY IssuedKept
<1>2. holder[m] \in Lineage(a)'
  BY LineageKept DEF Covers
<1>3. QED
  BY <1>1, <1>2 DEF Covers

LEMMA CoveredStep == TypeOK /\ Unborn /\ Covered /\ [Next]_vars => Covered'
<1> SUFFICES ASSUME TypeOK, Unborn, Covered, [Next]_vars PROVE Covered'
  OBVIOUS
<1>1. ASSUME NEW m \in Mandates, parent'[m] # None
      PROVE  Issued(m)' /\ Issued(parent[m])' /\ Covers(parent[m], terms[m], holder[m])'
  <2>1. CASE Issued(m)
    <3>0. PICK above, t, a : above = parent[m] /\ t = terms[m] /\ a = holder[m]
      OBVIOUS
    <3>1. /\ parent'[m] = above /\ terms'[m] = t /\ holder'[m] = a /\ Issued(m)'
          /\ above \in Mandates /\ a \in Agents
      BY <1>1, <2>1, <3>0, IssuedKept DEF TypeOK, Issued
    <3>2. Issued(above) /\ Covers(above, t, a)
      BY <1>1, <3>0, <3>1 DEF Covered
    <3>3. Issued(above)' /\ Covers(above, t, a)'
      BY <3>1, <3>2, IssuedKept, CoversKept
    <3>4. QED
      BY <3>1, <3>3 DEF Issued, Covers
  <2>2. CASE ~Issued(m)
    <3>1. parent[m] = None
      BY <2>2 DEF Covered
    <3>2. PICK q \in Requests : IssueWrites(q)
      BY <1>1, <3>1 DEF Next, CreateAgentReads, IssueReads, SpendReads, CreateAgentWrites,
         SpendWrites, RollsBack, RevokeAgent, RevokeMandate, Refund, TimePasses, vars, payload
    <3>0. PICK i, above, t, a :
                 i = open[q] /\ above = i.parent /\ t = i.terms /\ a = i.agent
      OBVIOUS
    <3>3. /\ i.kind = "issue" /\ i.mandate \in Mandates /\ a \in Agents
          /\ above \in Mandates \cup {None} /\ t \in Offers
      BY <3>0, <3>2, OpenKinds DEF IssueWrites
    <3>4. /\ holder' = [holder EXCEPT ![i.mandate] = a]
          /\ parent' = [parent EXCEPT ![i.mandate] = above]
          /\ terms' = [terms EXCEPT ![i.mandate] = t]
      BY <3>0, <3>2 DEF IssueWrites
    <3>5. m = i.mandate
      BY <1>1, <3>1, <3>3, <3>4 DEF TypeOK
    <3>6. parent'[m] = above /\ terms'[m] = t /\ holder'[m] = a
      BY <3>3, <3>4, <3>5 DEF TypeOK
    <3>7. above \in Mandates /\ Issued(above) /\ Covers(above, t, a)
      BY <1>1, <3>0, <3>3, <3>6 DEF Covered
    <3>8. Issued(above)' /\ Covers(above, t, a)'
      BY <3>3, <3>7, IssuedKept, CoversKept
    <3>9. Issued(m)'
      BY <3>3, <3>6, DelegationAssumption DEF Issued
    <3>10. QED
      BY <3>6, <3>8, <3>9 DEF Issued, Covers
  <2>3. QED
    BY <2>1, <2>2
<1>2. ASSUME NEW q \in Requests, open'[q].kind = "issue", open'[q].parent # None
      PROVE  Issued(open[q].parent)' /\ Covers(open[q].parent, open[q].terms, open[q].agent)'
  <2>1. CASE open'[q] = open[q]
    <3>0. PICK above, t, a : above = open[q].parent /\ t = open[q].terms /\ a = open[q].agent
      OBVIOUS
    <3>1. above \in Mandates /\ a \in Agents /\ Issued(above) /\ Covers(above, t, a)
      BY <1>2, <2>1, <3>0, OpenKinds DEF Covered
    <3>2. Issued(above)' /\ Covers(above, t, a)'
      BY <3>1, IssuedKept, CoversKept
    <3>3. open'[q].parent = above /\ open'[q].terms = t /\ open'[q].agent = a
      BY <2>1, <3>0
    <3>4. QED
      BY <3>2, <3>3 DEF Issued, Covers
  <2>2. CASE open'[q] # open[q]
    <3>1. PICK m \in Mandates, a \in Agents, above \in Mandates \cup {None}, t \in Offers :
                 IssueReads(q, m, a, above, t)
      BY <1>2, <2>2 DEF Next, CreateAgentReads, IssueReads, SpendReads, CreateAgentWrites, IssueWrites,
         SpendWrites, RollsBack, RevokeAgent, RevokeMandate, Refund, TimePasses, vars, Opens, Closes,
         Nobody, TypeOK
    <3>2. /\ open'[q].parent = above /\ open'[q].terms = t /\ open'[q].agent = a
          /\ UNCHANGED <<people, payload>>
      BY <3>1 DEF IssueReads, Opens, TypeOK
    <3>3. above \in Mandates /\ Issued(above) /\ Attenuates(t, above) /\ holder[above] \in Lineage(a)
      BY <1>2, <3>1, <3>2 DEF IssueReads
    <3>4. Covers(above, t, a)
      BY <3>3 DEF Covers, Attenuates
    <3>5. Issued(above)' /\ Covers(above, t, a)'
      BY <3>3, <3>4, IssuedKept, CoversKept
    <3>6. QED
      BY <3>2, <3>5 DEF Issued, Covers
  <2>3. QED
    BY <2>1, <2>2
<1>3. QED
  BY <1>1, <1>2 DEF Covered

(* A child gets no more than its parent was given.                         *)
THEOREM ChildrenStayAttenuated == Spec => []ChildrenAreAttenuated
<1>1. Init => Unborn /\ Covered
  BY DEF Init, Unborn, Covered, Nobody
<1>2. TypeOK /\ Covered => ChildrenAreAttenuated
  <2> SUFFICES ASSUME TypeOK, Covered, NEW m \in Mandates, NEW c \in Children(m)
               PROVE  /\ terms[c].spend_limit <= terms[m].spend_limit
                      /\ terms[c].max_call <= terms[m].max_call
                      /\ NotLater(terms[c].expires, terms[m].expires)
                      /\ holder[m] \in Lineage(holder[c])
                      /\ terms[m].tools # {} => Permitted(c) \subseteq Permitted(m)
    BY DEF ChildrenAreAttenuated
  <2>1. c \in Mandates /\ parent[c] = m /\ m # None
    BY DelegationAssumption DEF Children
  <2>2. Covers(m, terms[c], holder[c])
    BY <2>1 DEF Covered
  <2>3. terms[m].tools # {} => Permitted(c) \subseteq Permitted(m)
    BY <2>2 DEF Covers, SubsetOK, Permitted, Allows
  <2>4. QED
    BY <2>2, <2>3 DEF Covers
<1>3. QED
  BY <1>1, <1>2, TypeCorrect, UnbornStep, CoveredStep, PTL DEF Spec

-----------------------------------------------------------------------------
(* Money.  Finitely many mandates have been issued, whatever their supply, *)
(* and nothing was debited from one that has not been.                     *)

Given(m) == [c \in Children(m) |-> terms[c].spend_limit]

Ledgered ==
  /\ IsFiniteSet({m \in Mandates : Issued(m)})
  /\ \A m \in Mandates : ~Issued(m) => spent[m] = 0
  /\ \A q \in Requests : open[q].kind = "spend" => Issued(open[q].mandate)

LEMMA LedgeredStep == TypeOK /\ Ledgered /\ [Next]_vars => Ledgered'
<1> SUFFICES ASSUME TypeOK, Ledgered, [Next]_vars PROVE Ledgered'
  OBVIOUS
<1> DEFINE Issues == {m \in Mandates : Issued(m)}
<1>1. IsFiniteSet(Issues')
  <2>1. CASE UNCHANGED holder
    <3>1. Issues' = Issues
      BY <2>1 DEF Issued
    <3>2. QED
      BY <3>1 DEF Ledgered
  <2>2. ASSUME NEW q \in Requests, IssueWrites(q) PROVE IsFiniteSet(Issues')
    <3>1. open[q].mandate \in Mandates /\ open[q].agent \in Agents
      BY <2>2, OpenKinds DEF IssueWrites
    <3>2. holder' = [holder EXCEPT ![open[q].mandate] = open[q].agent]
      BY <2>2 DEF IssueWrites
    <3>3. Issues' = Issues \cup {open[q].mandate}
      BY <3>1, <3>2, DelegationAssumption DEF Issued, TypeOK
    <3>4. QED
      BY <3>3, FS_AddElement DEF Ledgered
  <2>3. QED
    BY <2>1, <2>2 DEF Next, CreateAgentReads, IssueReads, SpendReads, CreateAgentWrites, SpendWrites,
       RollsBack, RevokeAgent, RevokeMandate, Refund, TimePasses, vars, payload
<1>2. ASSUME NEW m \in Mandates, ~Issued(m)' PROVE spent'[m] = 0
  <2>1. ~Issued(m)
    BY <1>2, IssuedKept
  <2>2. spent[m] = 0
    BY <2>1 DEF Ledgered
  <2>3. ASSUME NEW q \in Requests, SpendWrites(q) PROVE spent'[m] = 0
    BY <2>1, <2>2, <2>3 DEF SpendWrites, Ledgered, TypeOK
  <2>4. ASSUME NEW k \in Mandates, NEW tool \in Tools, Refund(k, tool) PROVE spent'[m] = 0
    <3>1. k = m => Price[tool] = 0
      BY <2>2, <2>4, DelegationAssumption DEF Refund
    <3>2. QED
      BY <2>2, <2>4, <3>1 DEF Refund, TypeOK
  <2>5. QED
    BY <2>2, <2>3, <2>4 DEF Next, CreateAgentReads, IssueReads, SpendReads, CreateAgentWrites, IssueWrites,
       RollsBack, RevokeAgent, RevokeMandate, TimePasses, vars
<1>3. ASSUME NEW q \in Requests, open'[q].kind = "spend" PROVE Issued(open[q].mandate)'
  <2>1. CASE open'[q] = open[q]
    <3>1. open[q].mandate \in Mandates /\ Issued(open[q].mandate)
      BY <1>3, <2>1, OpenKinds DEF Ledgered
    <3>2. holder'[open[q].mandate] = holder[open[q].mandate]
      BY <3>1, IssuedKept
    <3>3. QED
      BY <2>1, <3>1, <3>2 DEF Issued
  <2>2. CASE open'[q] # open[q]
    <3>1. PICK m \in Mandates, tool \in Tools : SpendReads(q, m, tool)
      BY <1>3, <2>2 DEF Next, CreateAgentReads, IssueReads, SpendReads, CreateAgentWrites, IssueWrites,
         SpendWrites, RollsBack, RevokeAgent, RevokeMandate, Refund, TimePasses, vars, Opens, Closes,
         Nobody, TypeOK
    <3>2. open'[q].mandate = m /\ Issued(m) /\ holder' = holder
      BY <3>1 DEF SpendReads, Opens, TypeOK, payload
    <3>3. QED
      BY <3>2 DEF Issued
  <2>3. QED
    BY <2>1, <2>2
<1>4. QED
  BY <1>1, <1>2, <1>3 DEF Ledgered

LEMMA GivenTypes ==
  ASSUME TypeOK, Ledgered, NEW m \in Mandates
  PROVE  /\ IsFiniteSet(Children(m))
         /\ Given(m) \in [Children(m) -> Nat]
         /\ SumFunction(Given(m)) \in Nat
<1>1. IsFiniteSet(Children(m))
  BY FS_Subset DEF Ledgered, Children
<1>2. \A c \in Children(m) : terms[c].spend_limit \in Nat
  BY OfferTypes DEF Children, TypeOK
<1>3. Given(m) \in [Children(m) -> Nat]
  BY <1>2 DEF Given
<1>4. QED
  BY <1>1, <1>3, SumType

(* What a mandate was given is what it has left, what was debited and what *)
(* it handed on.                                                           *)
Balanced(m) == terms[m].spend_limit = remaining[m] + spent[m] + SumFunction(Given(m))

(* A debit moves money from what is left to what is spent, a refund moves  *)
(* it back.                                                                *)
LEMMA SpendingBalances ==
  ASSUME TypeOK, Ledgered, [Next]_vars, UNCHANGED payload, NEW m \in Mandates, Balanced(m)
  PROVE  Balanced(m)'
<1>1. Given(m)' = Given(m) /\ terms'[m] = terms[m]
  BY DEF payload, Given, Children, Issued
<1>2. remaining[m] \in Nat /\ spent[m] \in Nat
  BY DEF TypeOK
<1>3. remaining'[m] + spent'[m] = remaining[m] + spent[m]
  <2>1. ASSUME NEW q \in Requests, SpendWrites(q) PROVE remaining'[m] + spent'[m] = remaining[m] + spent[m]
    BY <1>2, <2>1, OpenKinds DEF SpendWrites, TypeOK
  <2>2. ASSUME NEW k \in Mandates, NEW tool \in Tools, Refund(k, tool)
        PROVE  remaining'[m] + spent'[m] = remaining[m] + spent[m]
    BY <1>2, <2>2, DelegationAssumption DEF Refund, TypeOK
  <2>3. ASSUME NEW q \in Requests, IssueWrites(q) PROVE FALSE
    BY <2>3, OpenKinds, DelegationAssumption DEF IssueWrites, payload, Issued, TypeOK
  <2>4. QED
    BY <2>1, <2>2, <2>3 DEF Next, CreateAgentReads, IssueReads, SpendReads, CreateAgentWrites,
       RollsBack, RevokeAgent, RevokeMandate, TimePasses, vars
<1>4. QED
  <2>1. terms[m].spend_limit = remaining'[m] + spent'[m] + SumFunction(Given(m))
    BY <1>3 DEF Balanced
  <2>2. QED
    BY <1>1, <2>1 DEF Balanced

(* A new mandate starts with all it was given and no children; its parent  *)
(* has one child more and that much less.                                  *)
LEMMA IssuingBalances ==
  ASSUME TypeOK, Covered, Ledgered, NEW q \in Requests, IssueWrites(q),
         NEW m \in Mandates, Issued(m)', Issued(m) => Balanced(m)
  PROVE  Balanced(m)'
<1>0. PICK n, above, t, a :
             n = open[q].mandate /\ above = open[q].parent /\ t = open[q].terms /\ a = open[q].agent
  OBVIOUS
<1>1. /\ n \in Mandates /\ above \in Mandates \cup {None} /\ t \in Offers /\ a \in Agents
      /\ t.spend_limit \in Nat
  BY <1>0, OpenKinds, OfferTypes DEF IssueWrites
<1>2. /\ ~Issued(n) /\ spent[n] = 0 /\ (above # None => Issued(above))
      /\ holder' = [holder EXCEPT ![n] = a] /\ parent' = [parent EXCEPT ![n] = above]
      /\ terms' = [terms EXCEPT ![n] = t] /\ spent' = spent
  BY <1>0, <1>1 DEF IssueWrites, Covered, Ledgered
<1>3. \A k \in Mandates :
         remaining'[k] = IF k = n THEN t.spend_limit
                         ELSE IF k = above THEN remaining[k] - t.spend_limit ELSE remaining[k]
  BY <1>0 DEF IssueWrites, Escrow
<1>4. above # n /\ a # None
  BY <1>1, <1>2, DelegationAssumption
<1>5. Children(m)' = IF m = above THEN Children(m) \cup {n} ELSE Children(m)
  BY <1>1, <1>2, <1>4 DEF Children, Issued, TypeOK
<1>6. n \notin Children(m) /\ \A c \in Children(m) : terms'[c] = terms[c]
  BY <1>1, <1>2 DEF Children, TypeOK
<1>7. remaining[m] \in Nat /\ spent[m] \in Nat /\ SumFunction(Given(m)) \in Nat
  BY GivenTypes DEF TypeOK
<1>8. CASE m = n
  <2>1. Children(m) = {}
    BY <1>2, <1>8, DelegationAssumption DEF Children, Covered
  <2>2. DOMAIN Given(m)' = {}
    BY <1>4, <1>5, <1>8, <2>1 DEF Given
  <2>3. SumFunction(Given(m)') = 0
    BY <2>2, SumEmpty
  <2>4. terms'[m].spend_limit = t.spend_limit /\ remaining'[m] = t.spend_limit /\ spent'[m] = 0
    BY <1>2, <1>3, <1>8 DEF TypeOK
  <2>5. QED
    BY <1>1, <2>3, <2>4 DEF Balanced
<1>9. CASE m = above
  <2>1. Children(m)' = Children(m) \cup {n}
    BY <1>5, <1>9
  <2>2. IsFiniteSet(Children(m)) /\ Given(m) \in [Children(m) -> Nat]
    BY GivenTypes
  <2>3. terms'[n] = t
    BY <1>1, <1>2 DEF TypeOK
  <2>4. /\ Given(m)' \in [Children(m) \cup {n} -> Nat] /\ Given(m)'[n] = t.spend_limit
        /\ \A c \in Children(m) : Given(m)'[c] = Given(m)[c]
    <3>1. Given(m)' = [c \in Children(m) \cup {n} |-> terms'[c].spend_limit]
      BY <2>1 DEF Given
    <3>2. \A c \in Children(m) : terms'[c].spend_limit = Given(m)[c] /\ Given(m)[c] \in Nat
      BY <1>6, <2>2 DEF Given
    <3>3. QED
      BY <1>1, <2>3, <3>1, <3>2
  <2>5. SumFunction(Given(m)') = Given(m)'[n] + SumFunction(Given(m))
    BY <1>6, <2>2, <2>4, SumGrows
  <2>6. Issued(m) /\ terms'[m] = terms[m] /\ remaining'[m] = remaining[m] - t.spend_limit
    BY <1>2, <1>3, <1>4, <1>9, DelegationAssumption DEF TypeOK
  <2>7. QED
    BY <1>1, <1>2, <1>7, <2>4, <2>5, <2>6 DEF Balanced
<1>10. CASE m # n /\ m # above
  <2>1. Given(m)' = Given(m)
    BY <1>5, <1>6, <1>10 DEF Given
  <2>2. Issued(m) /\ terms'[m] = terms[m] /\ remaining'[m] = remaining[m]
    BY <1>1, <1>2, <1>3, <1>10 DEF Issued, TypeOK
  <2>3. QED
    BY <1>2, <2>1, <2>2 DEF Balanced
<1>11. QED
  BY <1>8, <1>9, <1>10

Conserved == \A m \in Mandates : Issued(m) => Balanced(m)

(* Issuing children, spending and refunding at once neither lose nor make  *)
(* a cent, nor lend one: an escrow that goes wrong would leave a tree of   *)
(* mandates with more or less than its root was signed for.                *)
THEOREM TreesConserveMoney == Spec => []TreeConserved
<1>1. Init => Covered /\ Unborn /\ Ledgered /\ Conserved
  <2>1. Init => Covered /\ Unborn
    BY DEF Init, Unborn, Covered, Nobody
  <2>2. Init => Ledgered
    <3> SUFFICES ASSUME Init PROVE Ledgered
      OBVIOUS
    <3>1. {m \in Mandates : Issued(m)} = {}
      BY DEF Init, Issued
    <3>2. QED
      BY <3>1, FS_EmptySet DEF Init, Ledgered, Nobody
  <2>3. Init => Conserved
    BY DEF Init, Conserved, Issued
  <2>4. QED
    BY <2>1, <2>2, <2>3
<1>2. TypeOK /\ Covered /\ Ledgered /\ Conserved /\ [Next]_vars => Conserved'
  <2> SUFFICES ASSUME TypeOK, Covered, Ledgered, Conserved, [Next]_vars,
                      NEW m \in Mandates, Issued(m)'
               PROVE  Balanced(m)'
    BY DEF Conserved
  <2>1. Issued(m) => Balanced(m)
    BY DEF Conserved
  <2>2. CASE UNCHANGED payload
    BY <2>1, <2>2, SpendingBalances DEF payload, Issued
  <2>3. ASSUME NEW q \in Requests, IssueWrites(q) PROVE Balanced(m)'
    BY <2>1, <2>3, IssuingBalances
  <2>4. QED
    BY <2>2, <2>3 DEF Next, CreateAgentReads, IssueReads, SpendReads, CreateAgentWrites, SpendWrites,
       RollsBack, RevokeAgent, RevokeMandate, Refund, TimePasses, vars
<1>3. TypeOK /\ Conserved => TreeConserved
  BY DEF TypeOK, Conserved, Balanced, Given, TreeConserved
<1>4. QED
  BY <1>1, <1>2, <1>3, TypeCorrect, UnbornStep, CoveredStep, LedgeredStep, PTL DEF Spec

-----------------------------------------------------------------------------
(* Revocation, with one writing transaction at a time.  What create_agent  *)
(* has found live is still live when it inserts the child, and what a call *)
(* or issue_mandate has found live when it debits or inserts.              *)

Entitled(what) ==
  /\ what.kind = "spend" => AllLive(holder[what.mandate])
  /\ what.kind = "issue" => AllLive(what.agent)

Orderly ==
  /\ \A q, p \in Requests : open[q] # Nobody /\ open[p] # Nobody => q = p
  /\ \A q \in Requests :
       open[q].kind = "agent" /\ open[q].boss # None => agent[open[q].boss] = "live"
  /\ \A q \in Requests : Entitled(open[q])
  /\ NoLiveAgentUnderRevoked

(* A new agent has the ancestors of its parent, and everybody else the     *)
(* ancestors they had.                                                     *)
LEMMA CreationKeepsOrder ==
  ASSUME TypeOK, Orderly, NEW q \in Requests, CreateAgentWrites(q)
  PROVE  NoLiveAgentUnderRevoked'
<1>0. PICK n, b : n = open[q].agent /\ b = open[q].boss
  OBVIOUS
<1>1. n \in Agents /\ b \in Agents \cup {None} /\ (b # None => agent[b] = "live")
  BY <1>0, OpenKinds DEF CreateAgentWrites, Orderly
<1>2. /\ agent[n] = "absent"
      /\ agent' = [agent EXCEPT ![n] = "live"] /\ boss' = [boss EXCEPT ![n] = b]
  BY <1>0 DEF CreateAgentWrites
<1>3. ASSUME NEW a \in Agents, agent[a] = "live"
      PROVE  AllLive(a) /\ Lineage(a) \subseteq Agents
  BY <1>3, LineageCloses DEF Orderly, NoLiveAgentUnderRevoked
<1>4. ASSUME NEW a \in Agents, agent[a] = "live" PROVE Lineage(a)' \subseteq Lineage(a)
  <2>1. PICK S \in SUBSET Agents : S = Lineage(a)
    BY <1>3, <1>4
  <2>2. a \in S /\ Upward(S)
    BY <1>3, <1>4, <2>1, LineageCloses
  <2>3. n \notin S
    BY <1>2, <1>3, <1>4, <2>1 DEF AllLive
  <2>4. Upward(S)'
    BY <1>2, <2>2, <2>3 DEF Upward, TypeOK
  <2>5. QED
    BY <2>1, <2>2, <2>4 DEF Lineage
<1>5. ASSUME NEW a \in Agents, agent[a] = "live" PROVE AllLive(a)'
  BY <1>2, <1>3, <1>4, <1>5 DEF AllLive, TypeOK
<1>6. AllLive(n)'
  <2>1. PICK S \in SUBSET Agents : S = {n} \cup (IF b = None THEN {} ELSE Lineage(b))
    BY <1>1, <1>3
  <2>2. \A c \in S : c # n => agent[c] = "live"
    BY <1>1, <1>3, <2>1 DEF AllLive
  <2>3. b # None => b \in Lineage(b) /\ Upward(Lineage(b))
    BY <1>1, LineageCloses
  <2>4. ASSUME NEW c \in S, boss'[c] # None PROVE boss'[c] \in S
    <3>1. CASE c = n
      BY <1>1, <1>2, <2>1, <2>3, <2>4, <3>1 DEF TypeOK
    <3>2. CASE c # n
      BY <1>1, <1>2, <2>1, <2>3, <2>4, <3>2 DEF TypeOK, Upward
    <3>3. QED
      BY <3>1, <3>2
  <2>5. n \in S /\ Upward(S)'
    BY <2>1, <2>4 DEF Upward
  <2>6. Lineage(n)' \subseteq S
    BY <2>5 DEF Lineage
  <2>7. \A c \in S : agent'[c] = "live"
    BY <1>1, <1>2, <2>2 DEF TypeOK
  <2>8. QED
    BY <2>6, <2>7 DEF AllLive
<1>7. QED
  BY <1>1, <1>2, <1>5, <1>6 DEF NoLiveAgentUnderRevoked, TypeOK

(* Whoever has a revoked ancestor is revoked with it.                      *)
LEMMA RevocationKeepsOrder ==
  ASSUME TypeOK, Orderly, NEW a \in Agents, RevokeAgent(a)
  PROVE  NoLiveAgentUnderRevoked'
<1> SUFFICES ASSUME NEW b \in Agents, agent'[b] = "live", NEW c \in Lineage(b)' PROVE agent'[c] = "live"
  BY DEF NoLiveAgentUnderRevoked, AllLive
<1>1. Lineage(b)' = Lineage(b)
  BY DEF RevokeAgent, Lineage, Upward
<1>2. agent[b] = "live" /\ a \notin Lineage(b)
  BY DEF RevokeAgent, TypeOK
<1>3. agent[c] = "live" /\ c \in Agents
  BY <1>1, <1>2, LineageCloses DEF Orderly, NoLiveAgentUnderRevoked, AllLive
<1>4. a \notin Lineage(c)
  BY <1>1, <1>2, LineageCloses
<1>5. QED
  BY <1>3, <1>4 DEF RevokeAgent

LEMMA OrderlyStep ==
  ASSUME Serialized
  PROVE  TypeOK /\ Orderly /\ [Next]_vars => Orderly'
<1> SUFFICES ASSUME TypeOK, Orderly, [Next]_vars PROVE Orderly'
  OBVIOUS
<1>1. ASSUME UNCHANGED people PROVE NoLiveAgentUnderRevoked'
  BY <1>1 DEF Orderly, NoLiveAgentUnderRevoked, AllLive, Lineage, Upward, people
<1>2. ASSUME NEW q \in Requests, NEW what, Opens(q, what), UNCHANGED <<people, payload>>,
             what.kind = "agent" /\ what.boss # None => agent[what.boss] = "live",
             Entitled(what)
      PROVE  Orderly'
  <2>1. /\ \A p \in Requests : open[p] = Nobody
        /\ open' = [open EXCEPT ![q] = what] /\ agent' = agent
    BY <1>2 DEF Opens, LockFree, people
  <2>2. \A p \in Requests : open'[p] = IF p = q THEN what ELSE Nobody
    BY <2>1 DEF TypeOK
  <2>3. Entitled(open[q])'
    BY <1>2, <2>2 DEF Entitled, AllLive, Lineage, Upward, people, payload
  <2>4. \A p \in Requests : Entitled(open[p])'
    BY <2>2, <2>3 DEF Entitled, Nobody
  <2>5. QED
    BY <1>1, <1>2, <2>1, <2>2, <2>4 DEF Orderly, Nobody
<1>3. ASSUME NEW q \in Requests, Closes(q), open[q] # Nobody, NoLiveAgentUnderRevoked' PROVE Orderly'
  <2>1. \A p \in Requests : open'[p] = Nobody
    BY <1>3 DEF Closes, Orderly, TypeOK
  <2>2. QED
    BY <1>3, <2>1 DEF Orderly, Entitled, Nobody
<1>4. ASSUME NEW q \in Requests, NEW a \in Agents, NEW b \in Agents \cup {None},
             CreateAgentReads(q, a, b)
      PROVE  Orderly'
  BY <1>2, <1>4 DEF CreateAgentReads, Entitled
<1>5. ASSUME NEW q \in Requests, NEW m \in Mandates, NEW a \in Agents,
             NEW above \in Mandates \cup {None}, NEW t \in Offers, IssueReads(q, m, a, above, t)
      PROVE  Orderly'
  <2>1. AllLive(a)
    BY <1>5 DEF IssueReads, LiveAgent, Orderly, NoLiveAgentUnderRevoked
  <2>2. QED
    BY <1>2, <1>5, <2>1 DEF IssueReads, Entitled
<1>6. ASSUME NEW q \in Requests, NEW m \in Mandates, NEW tool \in Tools, SpendReads(q, m, tool)
      PROVE  Orderly'
  <2>1. agent[holder[m]] = "live" /\ holder[m] \in Agents
    BY <1>6 DEF SpendReads, LiveAgent, Issued, TypeOK
  <2>2. AllLive(holder[m])
    BY <2>1 DEF Orderly, NoLiveAgentUnderRevoked
  <2>3. QED
    BY <1>2, <1>6, <2>2 DEF SpendReads, Entitled
<1>7. ASSUME NEW q \in Requests, CreateAgentWrites(q) PROVE Orderly'
  <2>1. Closes(q) /\ open[q] # Nobody
    BY <1>7 DEF CreateAgentWrites, Nobody
  <2>2. NoLiveAgentUnderRevoked'
    BY <1>7, CreationKeepsOrder
  <2>3. QED
    BY <1>3, <2>1, <2>2
<1>8. ASSUME NEW q \in Requests, IssueWrites(q) \/ SpendWrites(q) \/ RollsBack(q) PROVE Orderly'
  <2>1. Closes(q) /\ UNCHANGED people
    BY <1>8 DEF IssueWrites, SpendWrites, RollsBack
  <2>2. open[q] # Nobody
    BY <1>8 DEF IssueWrites, SpendWrites, RollsBack, Nobody
  <2>3. QED
    BY <1>1, <1>3, <2>1, <2>2
<1>9. ASSUME NEW a \in Agents, RevokeAgent(a) PROVE Orderly'
  <2>1. \A q \in Requests : open[q] = Nobody /\ open'[q] = Nobody
    BY <1>9 DEF RevokeAgent, LockFree
  <2>2. QED
    BY <1>9, <2>1, RevocationKeepsOrder DEF Orderly, Entitled, Nobody
<1>10. ASSUME UNCHANGED <<people, payload, open>> PROVE Orderly'
  BY <1>1, <1>10 DEF Orderly, Entitled, AllLive, Lineage, Upward, people, payload
<1>11. CASE \/ \E m \in Mandates : RevokeMandate(m) \/ \E tool \in Tools : Refund(m, tool)
            \/ TimePasses \/ UNCHANGED vars
  BY <1>10, <1>11 DEF RevokeMandate, Refund, TimePasses, vars
<1>12. QED
  BY <1>4, <1>5, <1>6, <1>7, <1>8, <1>9, <1>11 DEF Next

(* With one writer at a time no agent is live under a revoked one.         *)
THEOREM RevocationReachesAll == Spec => [](Serialized => NoLiveAgentUnderRevoked)
<1>1. Init => Orderly
  BY DEF Init, Orderly, Entitled, Nobody, NoLiveAgentUnderRevoked
<1>2. TypeOK /\ (Serialized => Orderly) /\ [Next]_vars => (Serialized => Orderly)'
  BY OrderlyStep
<1>3. (Serialized => Orderly) => (Serialized => NoLiveAgentUnderRevoked)
  BY DEF Orderly
<1>4. QED
  BY <1>1, <1>2, <1>3, TypeCorrect, PTL DEF Spec

(* And so no call starts to spend, or debits, for an agent under a revoked *)
(* one, and none is issued a mandate, although require_live_agent looks    *)
(* one level up only and the debit at no agent at all.                     *)
THEOREM RevokedTreesDoNotSpend ==
  ASSUME Serialized
  PROVE  Spec => RevokedSubtreesDoNotSpend
<1>1. Init => Orderly
  BY DEF Init, Orderly, Entitled, Nobody, NoLiveAgentUnderRevoked
<1>2. ASSUME TypeOK, Orderly, [Next]_vars, NEW q \in Requests,
             open[q] = Nobody, open'[q].kind = "spend"
      PROVE  AllLive(holder[open'[q].mandate])
  <2>1. PICK m \in Mandates, tool \in Tools : SpendReads(q, m, tool)
    BY <1>2 DEF Next, CreateAgentReads, IssueReads, SpendReads, CreateAgentWrites, IssueWrites,
       SpendWrites, RollsBack, RevokeAgent, RevokeMandate, Refund, TimePasses, vars, Opens, Closes,
       Nobody, TypeOK
  <2>2. open'[q].mandate = m /\ Issued(m) /\ agent[holder[m]] = "live"
    BY <1>2, <2>1 DEF SpendReads, Opens, LiveAgent, TypeOK
  <2>3. holder[m] \in Agents
    BY <1>2, <2>2 DEF Issued, TypeOK
  <2>4. QED
    BY <1>2, <2>2, <2>3 DEF Orderly, NoLiveAgentUnderRevoked
<1>3. ASSUME Orderly, NEW q \in Requests
      PROVE  /\ SpendWrites(q) => AllLive(holder[open[q].mandate])
             /\ IssueWrites(q) => AllLive(open[q].agent)
  BY <1>3 DEF Orderly, Entitled, SpendWrites, IssueWrites
<1>4. TypeOK /\ Orderly /\ [Next]_vars =>
        [\A q \in Requests :
           /\ open[q] = Nobody /\ open'[q].kind = "spend" => AllLive(holder[open'[q].mandate])
           /\ SpendWrites(q) => AllLive(holder[open[q].mandate])
           /\ IssueWrites(q) => AllLive(open[q].agent)]_vars
  BY <1>2, <1>3
<1>5. TypeOK /\ Orderly /\ [Next]_vars => Orderly'
  BY OrderlyStep
<1>6. QED
  BY <1>1, <1>4, <1>5, TypeCorrect, PTL DEF Spec, RevokedSubtreesDoNotSpend
=============================================================================
