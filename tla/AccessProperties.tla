-------------------------- MODULE AccessProperties --------------------------
(* What keys and tenants must guarantee.                                   *)
EXTENDS Access

(* Every column and every local of a request has a value of its type, and  *)
(* a request in flight has presented a key that exists.                    *)
TypeOK ==
  /\ row \in [Keys -> [account : opened, kind : {"customer", "admin"},
                       scopes : SUBSET Scopes, expires : BOOLEAN] \cup {None}]
  /\ revoked \cup expired \subseteq {k \in Keys : row[k] # None}
  /\ account \in [People -> opened \cup {None}]
  /\ agent \in [Agents -> [principal : People, parent : Agents \cup {None}] \cup {None}]
  /\ stopped \subseteq {x \in Agents : agent[x] # None}
  /\ opened \subseteq Ids
  /\ pc \in [Requests -> {"idle", "found", "ready", "creating"}]
  /\ key \in [Requests -> Keys \cup {None}]
  /\ \A r \in Requests : pc[r] # "idle" => key[r] # None /\ row[key[r]] # None
  /\ issuer \in [Keys -> Keys \cup {None}]

(* A revoked key stays revoked, whatever requests of it were under way     *)
(* when it was, and a key is never given another account or more scopes.   *)
RevocationIsForever ==
  [][/\ revoked \subseteq revoked'
     /\ \A k \in Keys : row[k] # None => row'[k] = row[k]]_vars

(* No key obtains more than it is: what the holder of a customer's key is  *)
(* handed is a key of its own account without an administrator's powers,   *)
(* and one with its own scopes unless it may write.  It holds along any    *)
(* chain of issuing and rotating, the rotations of revoked keys included.  *)
KeysBegetTheirLike ==
  \A k \in Keys :
    issuer[k] # None /\ ~IsAdmin(row[issuer[k]]) =>
      /\ row[k].account = row[issuer[k]].account
      /\ ~IsAdmin(row[k])
      /\ HasScope(row[issuer[k]], "write") \/ row[k].scopes = row[issuer[k]].scopes

(* Revoking an agent takes its descendants with it and nobody else's: an   *)
(* agent is only stopped by a request of its own account or of an          *)
(* administrator, however deep the tree of agents it hangs from.           *)
OnlyOwnersStopAgents ==
  [][\A x \in stopped' \ stopped :
       \E r \in Requests :
         /\ pc[r] = "ready" /\ pc'[r] = "idle"
         /\ Owns(Context(r), agent[x].principal)]_vars

(* models.py: "v1 is 1:1 with Principal".  Violated on Postgres: two       *)
(* requests of one account both look up its principal before either        *)
(* inserts one, and no constraint of the table stops the second.           *)
OnePrincipalPerAccount ==
  \A p, q \in People : account[p] = account[q] => p = q \/ account[p] = None
=============================================================================
