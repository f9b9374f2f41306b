---------------------------- MODULE MCDelegation ----------------------------
(* Small instances of delegation.                                          *)
EXTENDS DelegationProperties, TLC

CONSTANTS a1, a2, a3, m1, m2, m3, q1, q2, search, crawl

CheapAndDear == [t \in Tools |-> IF t = search THEN 1 ELSE 2]

Full   == [spend_limit |-> 3, max_call |-> 2, tools |-> {search, crawl}, expires |-> 2, sub_budget |-> 3]
Part   == [spend_limit |-> 2, max_call |-> 1, tools |-> {search}, expires |-> 1, sub_budget |-> 2]
Unlisted == [Part EXCEPT !.tools = None]
Barred == [Full EXCEPT !.tools = {}, !.expires = None]

MoneyOffers == {Full, Part}
ListOffers  == {Full, Part, Unlisted, Barred}

Interchangeable == Permutations(Agents) \cup Permutations(Mandates) \cup Permutations(Requests)
=============================================================================
