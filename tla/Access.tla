------------------------------- MODULE Access -------------------------------
(***************************************************************************)
(* API keys and tenants: crossing/auth.py, the key, principal and agent    *)
(* endpoints of crossing/api.py and what they call in crossing/identity.py. *)
(*                                                                         *)
(* A request authenticates in a transaction of its own and acts in         *)
(* another, with the AuthContext it got: what happens to its key between   *)
(* the two it does not see.  Keys are never deleted and only revoked_at    *)
(* and last_used_at of one are ever written.                               *)
(***************************************************************************)

CONSTANTS
  Keys,         \* ids of API keys
  Ids,          \* accounts
  People,       \* principals
  Agents,
  Requests,     \* concurrent authenticated requests
  None,
  Root,         \* the administrator's key that is there from the start
  Home,         \* its account
  Offers,       \* what POST /v1/keys is asked for: kind, scopes, expires
  Serialized    \* TRUE: SQLite, one writing transaction at a time

Scopes   == {"read", "write", "mandate:issue", "admin"}
Ordinary == Scopes \ {"admin"}

ASSUME AccessAssumption ==
  /\ None \notin Keys \cup Ids \cup People \cup Agents
  /\ Root \in Keys /\ Home \in Ids
  /\ Offers \subseteq [kind : {"customer", "admin"}, scopes : SUBSET Scopes,
                      expires : BOOLEAN]
  /\ Serialized \in BOOLEAN

VARIABLES
  row,          \* table api_keys: account, kind, scopes, expires
  revoked,      \* the keys with a revoked_at
  expired,      \* the keys whose expires_at is over
  account,      \* table principals
  agent,        \* table agents: principal and parent
  stopped,      \* the agents with revoked = 1
  opened,       \* table accounts
  pc,           \* of a request: "idle", "found", "ready", "creating"
  key,          \* the key it presented
  issuer        \* history: the key whose request was given the secret

tables  == <<row, revoked, expired, account, agent, stopped, opened, issuer>>
request == <<pc, key>>
vars    == <<tables, request>>

Init ==
  /\ row = [k \in Keys |->
              IF k = Root THEN [account |-> Home, kind |-> "admin",
                                scopes |-> Scopes, expires |-> FALSE]
              ELSE None]
  /\ revoked = {} /\ expired = {}
  /\ account = [p \in People |-> None]
  /\ agent = [x \in Agents |-> None]
  /\ stopped = {}
  /\ opened = {Home}
  /\ pc = [r \in Requests |-> "idle"]
  /\ key = [r \in Requests |-> None]
  /\ issuer = [k \in Keys |-> None]

-----------------------------------------------------------------------------
(* Authentication.                                                         *)

LockFree == Serialized => \A r \in Requests : pc[r] \notin {"found", "creating"}

(* The row is found by its prefix; it is neither revoked nor expired.      *)
Authenticate(r, k) ==
  /\ pc[r] = "idle" /\ LockFree
  /\ row[k] # None /\ k \notin revoked \cup expired
  /\ pc' = [pc EXCEPT ![r] = "found"]
  /\ key' = [key EXCEPT ![r] = k]
  /\ UNCHANGED tables

(* Variant: the row is written back as it was read. *)
TouchWholeRow(r) ==
  /\ pc[r] = "found"
  /\ pc' = [pc EXCEPT ![r] = "ready"]
  /\ revoked' = revoked \ {key[r]}
  /\ UNCHANGED <<row, expired, account, agent, stopped, opened, issuer, key>>

(* last_used_at is the only column the session writes.                     *)
Touch(r) ==
  /\ pc[r] = "found"
  /\ pc' = [pc EXCEPT ![r] = "ready"]
  /\ UNCHANGED <<tables, key>>

Context(r)      == row[key[r]]
IsAdmin(ctx)    == ctx.kind = "admin" \/ "admin" \in ctx.scopes
HasScope(ctx, s) == {"admin", s} \cap ctx.scopes # {}

Acting(r) == pc[r] = "ready" /\ LockFree

Finish(r) ==
  /\ pc' = [pc EXCEPT ![r] = "idle"]
  /\ key' = [key EXCEPT ![r] = None]

-----------------------------------------------------------------------------
(* Keys.                                                                   *)

(* An empty list stands for a customer's scopes; no list for all those of  *)
(* the kind.                                                               *)
Cleaned(scopes) == IF scopes = {} THEN Ordinary ELSE scopes

Insert(r, new, record) ==
  /\ row[new] = None
  /\ row' = [row EXCEPT ![new] = record]
  /\ issuer' = [issuer EXCEPT ![new] = key[r]]

IssueKey(r, new, a, offer) ==
  /\ Acting(r)
  /\ HasScope(Context(r), "admin")
  /\ IsAdmin(Context(r)) \/ a = Context(r).account
  /\ a \in opened
  /\ Insert(r, new, [account |-> a, kind |-> offer.kind,
                     scopes |-> Cleaned(offer.scopes), expires |-> offer.expires])
  /\ Finish(r)
  /\ UNCHANGED <<revoked, expired, account, agent, stopped, opened>>

(* Variant: the powers of the target are not looked at. *)
MayManageAnyTarget(r, k) ==
  \/ IsAdmin(Context(r))
  \/ key[r] = k
  \/ row[k].account = Context(r).account /\ HasScope(Context(r), "write")

MayManage(r, k) ==
  \/ IsAdmin(Context(r))
  \/ key[r] = k
  \/ /\ row[k].account = Context(r).account
     /\ ~IsAdmin(row[k]) /\ HasScope(Context(r), "write")

(* The new key has the account, the kind and the scopes of the old one,    *)
(* and no expiry.  The old one may be revoked or expired already.          *)
RotateKey(r, k, new) ==
  /\ Acting(r)
  /\ row[k] # None /\ MayManage(r, k)
  /\ revoked' = revoked \cup {k}
  /\ Insert(r, new, [row[k] EXCEPT !.scopes = Cleaned(@), !.expires = FALSE])
  /\ Finish(r)
  /\ UNCHANGED <<expired, account, agent, stopped, opened>>

RevokeKey(r, k) ==
  /\ Acting(r)
  /\ row[k] # None /\ MayManage(r, k)
  /\ revoked' = revoked \cup {k}
  /\ Finish(r)
  /\ UNCHANGED <<row, expired, account, agent, stopped, opened, issuer>>

-----------------------------------------------------------------------------
(* Principals.                                                             *)

MayWrite(ctx) == HasScope(ctx, "write") \/ HasScope(ctx, "mandate:issue")

(* An administrator's principal comes with an account of its own.          *)
AdminPrincipal(r, p, a) ==
  /\ Acting(r) /\ MayWrite(Context(r)) /\ IsAdmin(Context(r))
  /\ account[p] = None /\ a \notin opened
  /\ account' = [account EXCEPT ![p] = a]
  /\ opened' = opened \cup {a}
  /\ Finish(r)
  /\ UNCHANGED <<row, revoked, expired, agent, stopped, issuer>>

(* A customer's is looked up, and answered if there is one.                *)
LookupPrincipal(r) ==
  /\ Acting(r) /\ MayWrite(Context(r)) /\ ~IsAdmin(Context(r))
  /\ IF \E p \in People : account[p] = Context(r).account
     THEN Finish(r)
     ELSE pc' = [pc EXCEPT ![r] = "creating"] /\ UNCHANGED key
  /\ UNCHANGED tables

CreatePrincipal(r, p) ==
  /\ pc[r] = "creating"
  /\ account[p] = None
  /\ account' = [account EXCEPT ![p] = Context(r).account]
  /\ Finish(r)
  /\ UNCHANGED <<row, revoked, expired, agent, stopped, opened, issuer>>

-----------------------------------------------------------------------------
(* Agents.                                                                 *)

Owns(ctx, p) == account[p] # None /\ (IsAdmin(ctx) \/ account[p] = ctx.account)

(* Variant: the principal of the parent is not compared. *)
ParentOKAny(p, parent) ==
  parent # None => agent[parent] # None /\ parent \notin stopped

ParentOK(p, parent) ==
  parent # None => /\ agent[parent] # None /\ parent \notin stopped
                   /\ agent[parent].principal = p

(* What a request reads to create an agent changes only in the parent's    *)
(* revoked, whose races are those of module Delegation.                    *)
CreateAgent(r, x, p, parent) ==
  /\ Acting(r) /\ MayWrite(Context(r)) /\ Owns(Context(r), p)
  /\ agent[x] = None /\ ParentOK(p, parent)
  /\ agent' = [agent EXCEPT ![x] = [principal |-> p, parent |-> parent]]
  /\ Finish(r)
  /\ UNCHANGED <<row, revoked, expired, account, stopped, opened, issuer>>

Children(S) == {y \in Agents : agent[y] # None /\ agent[y].parent \in S}

(* The agents whose chain of parents reaches x, and x: what any set holds  *)
(* that has x and the children of what it has.                             *)
Descent(x) ==
  {y \in Agents : \A S \in SUBSET Agents : x \in S /\ Children(S) \subseteq S => y \in S}

RevokeAgent(r, x) ==
  /\ Acting(r) /\ MayWrite(Context(r))
  /\ agent[x] # None /\ Owns(Context(r), agent[x].principal)
  /\ stopped' = stopped \cup Descent(x)
  /\ Finish(r)
  /\ UNCHANGED <<row, revoked, expired, account, agent, opened, issuer>>

-----------------------------------------------------------------------------
KeyExpires(k) ==
  /\ row[k] # None /\ row[k].expires
  /\ expired' = expired \cup {k}
  /\ UNCHANGED <<row, revoked, account, agent, stopped, opened, issuer, request>>

(* A refusal, a read-only endpoint, an error or a crash: nothing is kept.  *)
RequestEnds(r) ==
  /\ pc[r] # "idle"
  /\ Finish(r)
  /\ UNCHANGED tables

ActOnKeys(r) ==
  \E k \in Keys :
    \/ \E a \in Ids, offer \in Offers : IssueKey(r, k, a, offer)
    \/ \E new \in Keys : RotateKey(r, k, new)
    \/ RevokeKey(r, k)

ActOnPeople(r) ==
  \/ LookupPrincipal(r)
  \/ \E p \in People : CreatePrincipal(r, p) \/ \E a \in Ids : AdminPrincipal(r, p, a)
  \/ \E x \in Agents : RevokeAgent(r, x)
  \/ \E x \in Agents, p \in People, parent \in Agents \cup {None} : CreateAgent(r, x, p, parent)

Next ==
  \/ \E r \in Requests :
       \/ \E k \in Keys : Authenticate(r, k)
       \/ Touch(r) \/ ActOnKeys(r) \/ ActOnPeople(r) \/ RequestEnds(r)
  \/ \E k \in Keys : KeyExpires(k)

Spec == Init /\ [][Next]_vars
=============================================================================
