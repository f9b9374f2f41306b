------------------------------ MODULE MCLedger ------------------------------
(* Small instances of the ledger.                                          *)
EXTENDS LedgerProperties, TLC

CONSTANTS c1, c2, c3, m1, m2, p1, p2, k1, n1, search, crawl

CheapAndDear == [t \in Tools |-> IF t = search THEN 1 ELSE 2]
OneOwner == [m \in Mandates |-> p1]
TwoOwners == [m \in Mandates |-> IF m = m1 THEN p1 ELSE p2]
AllOne == [m \in Mandates |-> 1]
AllTwo == [m \in Mandates |-> 2]
AllThree == [m \in Mandates |-> 3]

(* The same operation retried under its key; the same without a key; the   *)
(* key reused for something else; a request with a nonce, with and without *)
(* a key; the same key under a mandate of another principal.               *)
Retry       == [mandate |-> m1, tool |-> search, key |-> k1, nonce |-> None]
Unkeyed     == [Retry EXCEPT !.key = None]
Confused    == [Retry EXCEPT !.tool = crawl]
Nonced      == [Unkeyed EXCEPT !.nonce = n1]
NoncedRetry == [Retry EXCEPT !.nonce = n1]
Foreign     == [Retry EXCEPT !.mandate = m2]

RetryRequests  == {Retry, Unkeyed}
MixedRequests  == {Confused, NoncedRetry, Nonced, Foreign}

Symmetric == Permutations(Calls)
=============================================================================
