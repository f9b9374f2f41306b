---------------------------- MODULE AccessProofs ----------------------------
(***************************************************************************)
(* Proofs, for every number of keys, accounts, principals, agents and      *)
(* concurrent requests, of what AccessProperties states and TLC checks on  *)
(* small instances.                                                        *)
(***************************************************************************)
EXTENDS AccessProperties, TLAPS

-----------------------------------------------------------------------------
(* Trees of agents.                                                        *)

(* Every agent hangs from an agent of its own principal.                   *)
SameTenant ==
  \A x \in Agents :
    agent[x] # None /\ agent[x].parent # None =>
      /\ agent[agent[x].parent] # None
      /\ agent[agent[x].parent].principal = agent[x].principal

(* What a revocation reaches are agents, all of one principal.             *)
LEMMA DescentStaysInTenant ==
  ASSUME TypeOK, SameTenant, NEW x \in Agents, agent[x] # None, NEW y \in Descent(x)
  PROVE  y \in Agents /\ agent[y] # None /\ agent[y].principal = agent[x].principal
<1> DEFINE S == {z \in Agents : agent[z] # None /\ agent[z].principal = agent[x].principal}
<1>1. S \in SUBSET Agents /\ x \in S
  OBVIOUS
<1>2. Children(S) \subseteq S
  <2> SUFFICES ASSUME NEW z \in Children(S) PROVE z \in S
    OBVIOUS
  <2>1. z \in Agents /\ agent[z] # None /\ agent[z].parent \in S
    BY DEF Children
  <2>2. agent[z].parent # None
    BY <2>1, AccessAssumption
  <2>3. agent[agent[z].parent].principal = agent[z].principal
    BY <2>1, <2>2 DEF SameTenant
  <2>4. QED
    BY <2>1, <2>3
<1>3. y \in S
  BY <1>1, <1>2 DEF Descent
<1>4. QED
  BY <1>3

-----------------------------------------------------------------------------
(* What every step of a request leaves alone.                              *)

(* The types, and the tree of agents that the last conjunct of a           *)
(* revocation's types rests on.                                            *)
Shape == TypeOK /\ SameTenant

LEMMA ShapeInit == Init => Shape
<1> SUFFICES ASSUME Init PROVE Shape
  OBVIOUS
<1>1. TypeOK
  BY AccessAssumption DEF Init, TypeOK, Scopes
<1>2. SameTenant
  BY DEF Init, SameTenant
<1>3. QED
  BY <1>1, <1>2 DEF Shape

LEMMA ShapeStep == Shape /\ [Next]_vars => Shape'
<1> SUFFICES ASSUME Shape, [Next]_vars PROVE Shape'
  OBVIOUS
<1> USE AccessAssumption DEF Shape
<1>0. TypeOK /\ SameTenant
  OBVIOUS
<1>1. ASSUME NEW r \in Requests, NEW k \in Keys, Authenticate(r, k) PROVE Shape'
  BY <1>1 DEF Authenticate, TypeOK, SameTenant, tables
<1>2. ASSUME NEW r \in Requests, Touch(r) PROVE Shape'
  BY <1>2 DEF Touch, TypeOK, SameTenant, tables
<1>3. ASSUME NEW r \in Requests, NEW k \in Keys, NEW a \in Ids, NEW offer \in Offers,
             IssueKey(r, k, a, offer)
      PROVE  Shape'
  BY <1>3 DEF IssueKey, Insert, Cleaned, Ordinary, Finish, Acting, TypeOK, SameTenant
<1>4. ASSUME NEW r \in Requests, NEW k \in Keys, NEW new \in Keys, RotateKey(r, k, new)
      PROVE  Shape'
  <2> DEFINE next == [row[k] EXCEPT !.scopes = Cleaned(@), !.expires = FALSE]
  <2>1. row[k] \in [account : opened, kind : {"customer", "admin"},
                    scopes : SUBSET Scopes, expires : BOOLEAN]
    BY <1>4 DEF RotateKey, TypeOK
  <2>2. Cleaned(row[k].scopes) \in SUBSET Scopes
    BY <2>1 DEF Cleaned, Ordinary
  <2>3. next \in [account : opened, kind : {"customer", "admin"},
                  scopes : SUBSET Scopes, expires : BOOLEAN]
    BY <2>1, <2>2
  <2> HIDE DEF next
  <2>4. /\ row[new] = None /\ row[k] # None
        /\ row' = [row EXCEPT ![new] = next]
        /\ issuer' = [issuer EXCEPT ![new] = key[r]]
        /\ pc[r] = "ready" /\ Finish(r)
        /\ revoked' = revoked \cup {k}
        /\ UNCHANGED <<expired, account, agent, stopped, opened>>
    BY <1>4 DEF RotateKey, Insert, Acting, next
  <2>5. TypeOK'
    BY <2>3, <2>4 DEF Finish, TypeOK
  <2>6. SameTenant'
    BY <2>4 DEF SameTenant
  <2>7. QED
    BY <2>5, <2>6
<1>5. ASSUME NEW r \in Requests, NEW k \in Keys, RevokeKey(r, k) PROVE Shape'
  BY <1>5 DEF RevokeKey, Finish, TypeOK, SameTenant
<1>6. ASSUME NEW r \in Requests, NEW p \in People, NEW a \in Ids, AdminPrincipal(r, p, a)
      PROVE  Shape'
  BY <1>6 DEF AdminPrincipal, Finish, TypeOK, SameTenant
<1>7. ASSUME NEW r \in Requests, LookupPrincipal(r) PROVE Shape'
  BY <1>7 DEF LookupPrincipal, Acting, Finish, TypeOK, SameTenant, tables
<1>8. ASSUME NEW r \in Requests, NEW p \in People, CreatePrincipal(r, p) PROVE Shape'
  BY <1>8 DEF CreatePrincipal, Context, Finish, TypeOK, SameTenant
<1>9. ASSUME NEW r \in Requests, NEW x \in Agents, NEW p \in People,
             NEW parent \in Agents \cup {None}, CreateAgent(r, x, p, parent)
      PROVE  Shape'
  <2>1. agent' = [agent EXCEPT ![x] = [principal |-> p, parent |-> parent]] /\ agent[x] = None
    BY <1>9 DEF CreateAgent
  <2>2. TypeOK'
    BY <1>9, <2>1 DEF CreateAgent, Finish, TypeOK
  <2>3. SameTenant'
    BY <1>9, <2>1 DEF CreateAgent, ParentOK, SameTenant, TypeOK
  <2>4. QED
    BY <2>2, <2>3
<1>10. ASSUME NEW r \in Requests, NEW x \in Agents, RevokeAgent(r, x) PROVE Shape'
  <2>1. \A y \in Descent(x) : y \in Agents /\ agent[y] # None
    BY <1>10, DescentStaysInTenant DEF RevokeAgent
  <2>2. TypeOK'
    BY <1>10, <2>1 DEF RevokeAgent, Finish, TypeOK
  <2>3. SameTenant'
    BY <1>10 DEF RevokeAgent, SameTenant
  <2>4. QED
    BY <2>2, <2>3
<1>11. ASSUME NEW r \in Requests, RequestEnds(r) PROVE Shape'
  BY <1>11 DEF RequestEnds, Finish, TypeOK, SameTenant, tables
<1>12. ASSUME NEW k \in Keys, KeyExpires(k) PROVE Shape'
  BY <1>12 DEF KeyExpires, request, TypeOK, SameTenant
<1>13. ASSUME UNCHANGED vars PROVE Shape'
  BY <1>13 DEF vars, tables, request, TypeOK, SameTenant
<1>14. QED
  BY <1>1, <1>2, <1>3, <1>4, <1>5, <1>6, <1>7, <1>8, <1>9, <1>10, <1>11, <1>12, <1>13
     DEF Next, ActOnKeys, ActOnPeople

LEMMA ShapeAlways == Spec => []Shape
BY ShapeInit, ShapeStep, PTL DEF Spec

(* Columns and locals keep their types, and what a row refers to exists:   *)
(* the account of a key and of a principal, the key of a request.          *)
THEOREM TypeCorrect == Spec => []TypeOK
BY ShapeAlways, PTL DEF Shape

-----------------------------------------------------------------------------
(* Keys.                                                                   *)

(* What a step may do to the table of keys: nothing, revoke one, or insert *)
(* one into a free row - as an administrator likes, or after a key that    *)
(* the request may manage.                                                 *)
Keeps == UNCHANGED <<row, issuer>> /\ revoked \subseteq revoked'

Inserts(r, new, record) ==
  /\ pc[r] = "ready" /\ row[new] = None
  /\ row' = [row EXCEPT ![new] = record]
  /\ issuer' = [issuer EXCEPT ![new] = key[r]]
  /\ revoked \subseteq revoked'

Issued(r, new) ==
  \E a \in opened, offer \in Offers :
    /\ IsAdmin(Context(r))
    /\ Inserts(r, new, [account |-> a, kind |-> offer.kind,
                        scopes |-> Cleaned(offer.scopes), expires |-> offer.expires])

Rotated(r, new) ==
  \E k \in Keys :
    /\ row[k] # None /\ MayManage(r, k)
    /\ Inserts(r, new, [row[k] EXCEPT !.scopes = Cleaned(@), !.expires = FALSE])

KeyStep == Keeps \/ \E r \in Requests, new \in Keys : Issued(r, new) \/ Rotated(r, new)

(* An offer of admin in the scopes makes an administrator, and only a      *)
(* holder of that scope issues keys.                                       *)
LEMMA KeySteps == [Next]_vars => KeyStep
<1> SUFFICES ASSUME [Next]_vars PROVE KeyStep
  OBVIOUS
<1>1. ASSUME NEW r \in Requests, NEW k \in Keys, Authenticate(r, k) PROVE KeyStep
  BY <1>1 DEF Authenticate, tables, KeyStep, Keeps
<1>2. ASSUME NEW r \in Requests, Touch(r) PROVE KeyStep
  BY <1>2 DEF Touch, tables, KeyStep, Keeps
<1>3. ASSUME NEW r \in Requests, NEW k \in Keys, NEW a \in Ids, NEW offer \in Offers,
             IssueKey(r, k, a, offer)
      PROVE  KeyStep
  <2>1. IsAdmin(Context(r))
    BY <1>3 DEF IssueKey, IsAdmin, HasScope
  <2>2. Issued(r, k)
    BY <1>3, <2>1 DEF IssueKey, Acting, Insert, Issued, Inserts
  <2>3. QED
    BY <2>2 DEF KeyStep
<1>4. ASSUME NEW r \in Requests, NEW k \in Keys, NEW new \in Keys, RotateKey(r, k, new)
      PROVE  KeyStep
  <2>1. Rotated(r, new)
    BY <1>4 DEF RotateKey, Acting, Insert, Rotated, Inserts
  <2>2. QED
    BY <2>1 DEF KeyStep
<1>5. ASSUME NEW r \in Requests, NEW k \in Keys, RevokeKey(r, k) PROVE KeyStep
  BY <1>5 DEF RevokeKey, KeyStep, Keeps
<1>6. ASSUME NEW r \in Requests, NEW p \in People, NEW a \in Ids, AdminPrincipal(r, p, a)
      PROVE  KeyStep
  BY <1>6 DEF AdminPrincipal, KeyStep, Keeps
<1>7. ASSUME NEW r \in Requests, LookupPrincipal(r) PROVE KeyStep
  BY <1>7 DEF LookupPrincipal, tables, KeyStep, Keeps
<1>8. ASSUME NEW r \in Requests, NEW p \in People, CreatePrincipal(r, p) PROVE KeyStep
  BY <1>8 DEF CreatePrincipal, KeyStep, Keeps
<1>9. ASSUME NEW r \in Requests, NEW x \in Agents, NEW p \in People,
             NEW parent \in Agents \cup {None}, CreateAgent(r, x, p, parent)
      PROVE  KeyStep
  BY <1>9 DEF CreateAgent, KeyStep, Keeps
<1>10. ASSUME NEW r \in Requests, NEW x \in Agents, RevokeAgent(r, x) PROVE KeyStep
  BY <1>10 DEF RevokeAgent, KeyStep, Keeps
<1>11. ASSUME NEW r \in Requests, RequestEnds(r) PROVE KeyStep
  BY <1>11 DEF RequestEnds, tables, KeyStep, Keeps
<1>12. ASSUME NEW k \in Keys, KeyExpires(k) PROVE KeyStep
  BY <1>12 DEF KeyExpires, KeyStep, Keeps
<1>13. ASSUME UNCHANGED vars PROVE KeyStep
  BY <1>13 DEF vars, tables, KeyStep, Keeps
<1>14. QED
  BY <1>1, <1>2, <1>3, <1>4, <1>5, <1>6, <1>7, <1>8, <1>9, <1>10, <1>11, <1>12, <1>13
     DEF Next, ActOnKeys, ActOnPeople

(* No request revives a revoked key, and no row of a key is ever changed:  *)
(* the powers of a key are those it was issued with.                       *)
THEOREM RevocationHolds == Spec => RevocationIsForever
<1> DEFINE Stays == /\ revoked \subseteq revoked'
                    /\ \A k \in Keys : row[k] # None => row'[k] = row[k]
<1>1. ASSUME TypeOK, Keeps PROVE Stays
  BY <1>1 DEF Keeps
<1>2. ASSUME TypeOK, NEW r \in Requests, NEW new \in Keys, NEW record, Inserts(r, new, record)
      PROVE  Stays
  BY <1>2 DEF Inserts, TypeOK
<1>3. TypeOK /\ [Next]_vars => Stays
  BY <1>1, <1>2, KeySteps DEF KeyStep, Issued, Rotated
<1>4. QED
  BY <1>3, TypeCorrect, PTL DEF Spec, RevocationIsForever

(* The scopes of a key are never an empty list, which a rotation would     *)
(* take for all of a customer's; and who has begotten a key is a key.      *)
Pedigree ==
  /\ \A k \in Keys : row[k] # None => row[k].scopes # {}
  /\ \A k \in Keys : issuer[k] # None => row[issuer[k]] # None

LEMMA CleanedIsNotEmpty == \A scopes : Cleaned(scopes) # {}
BY DEF Cleaned, Ordinary, Scopes

LEMMA PedigreeStep == TypeOK /\ Pedigree /\ KeyStep => Pedigree'
<1> SUFFICES ASSUME TypeOK, Pedigree, KeyStep PROVE Pedigree'
  OBVIOUS
<1>1. ASSUME Keeps PROVE Pedigree'
  BY <1>1 DEF Keeps, Pedigree
<1>2. ASSUME NEW r \in Requests, NEW new \in Keys, NEW record, record.scopes # {},
             Inserts(r, new, record)
      PROVE  Pedigree'
  <2>1. key[r] \in Keys /\ row[key[r]] # None /\ key[r] # new
    BY <1>2 DEF Inserts, TypeOK
  <2>2. \A k \in Keys : k # new => row'[k] = row[k] /\ issuer'[k] = issuer[k]
    BY <1>2 DEF Inserts, TypeOK
  <2>3. row'[new] = record /\ issuer'[new] = key[r]
    BY <1>2 DEF Inserts, TypeOK
  <2>4. \A k \in Keys : issuer[k] # None => issuer[k] \in Keys /\ issuer[k] # new
    BY <1>2 DEF Inserts, TypeOK, Pedigree
  <2>5. QED
    BY <1>2, <2>1, <2>2, <2>3, <2>4 DEF Pedigree
<1>3. ASSUME NEW r \in Requests, NEW new \in Keys, Issued(r, new) PROVE Pedigree'
  BY <1>2, <1>3, CleanedIsNotEmpty DEF Issued
<1>4. ASSUME NEW r \in Requests, NEW new \in Keys, Rotated(r, new) PROVE Pedigree'
  <2>1. PICK k \in Keys :
          /\ row[k] # None
          /\ Inserts(r, new, [row[k] EXCEPT !.scopes = Cleaned(@), !.expires = FALSE])
    BY <1>4 DEF Rotated
  <2>2. row[k] \in [account : opened, kind : {"customer", "admin"},
                    scopes : SUBSET Scopes, expires : BOOLEAN]
    BY <2>1 DEF TypeOK
  <2>3. [row[k] EXCEPT !.scopes = Cleaned(@), !.expires = FALSE].scopes # {}
    BY <2>2, CleanedIsNotEmpty
  <2>4. QED
    BY <1>2, <2>1, <2>3
<1>5. QED
  BY <1>1, <1>3, <1>4 DEF KeyStep

LEMMA BegottenStep == TypeOK /\ Pedigree /\ KeysBegetTheirLike /\ KeyStep => KeysBegetTheirLike'
<1> SUFFICES ASSUME TypeOK, Pedigree, KeysBegetTheirLike, KeyStep PROVE KeysBegetTheirLike'
  OBVIOUS
<1>1. ASSUME Keeps PROVE KeysBegetTheirLike'
  BY <1>1 DEF Keeps, KeysBegetTheirLike, HasScope, IsAdmin
<1>2. ASSUME NEW r \in Requests, NEW new \in Keys, NEW record, Inserts(r, new, record),
             ~IsAdmin(Context(r)) =>
               /\ record.account = Context(r).account /\ ~IsAdmin(record)
               /\ HasScope(Context(r), "write") \/ record.scopes = Context(r).scopes
      PROVE  KeysBegetTheirLike'
  <2>1. key[r] \in Keys /\ key[r] # new
    BY <1>2 DEF Inserts, TypeOK
  <2>2. \A k \in Keys : k # new => row'[k] = row[k] /\ issuer'[k] = issuer[k]
    BY <1>2 DEF Inserts, TypeOK
  <2>3. row'[new] = record /\ issuer'[new] = key[r]
    BY <1>2 DEF Inserts, TypeOK
  <2>4. \A k \in Keys : issuer[k] # None => issuer[k] \in Keys /\ issuer[k] # new
    BY <1>2 DEF Inserts, TypeOK, Pedigree
  <2> SUFFICES ASSUME NEW k \in Keys, issuer'[k] # None, ~IsAdmin(row'[issuer'[k]])
               PROVE  /\ row'[k].account = row'[issuer'[k]].account
                      /\ ~IsAdmin(row'[k])
                      /\ \/ HasScope(row'[issuer'[k]], "write")
                         \/ row'[k].scopes = row'[issuer'[k]].scopes
    BY DEF KeysBegetTheirLike, IsAdmin, HasScope
  <2>5. CASE k = new
    BY <1>2, <2>1, <2>2, <2>3, <2>5 DEF Context
  <2>6. CASE k # new
    BY <2>2, <2>4, <2>6 DEF KeysBegetTheirLike
  <2>7. QED
    BY <2>5, <2>6
<1>3. ASSUME NEW r \in Requests, NEW new \in Keys, Issued(r, new) PROVE KeysBegetTheirLike'
  BY <1>2, <1>3 DEF Issued
<1>4. ASSUME NEW r \in Requests, NEW new \in Keys, Rotated(r, new) PROVE KeysBegetTheirLike'
  <2>1. PICK k \in Keys :
          /\ row[k] # None /\ MayManage(r, k)
          /\ Inserts(r, new, [row[k] EXCEPT !.scopes = Cleaned(@), !.expires = FALSE])
    BY <1>4 DEF Rotated
  <2>2. row[k] \in [account : opened, kind : {"customer", "admin"},
                    scopes : SUBSET Scopes, expires : BOOLEAN]
    BY <2>1 DEF TypeOK
  <2>3. [row[k] EXCEPT !.scopes = Cleaned(@), !.expires = FALSE]
          = [row[k] EXCEPT !.expires = FALSE]
    BY <2>1, <2>2 DEF Pedigree, Cleaned
  <2>4. ~IsAdmin(Context(r)) =>
          /\ row[k].account = Context(r).account /\ ~IsAdmin(row[k])
          /\ HasScope(Context(r), "write") \/ row[k].scopes = Context(r).scopes
    BY <2>1 DEF MayManage, Context
  <2>5. QED
    BY <1>2, <2>1, <2>2, <2>3, <2>4 DEF IsAdmin, HasScope
<1>5. QED
  BY <1>1, <1>3, <1>4 DEF KeyStep

(* No chain of issuing and rotating keys, revoked and expired ones         *)
(* included, gives a customer another account or an administrator's        *)
(* powers, or a reader more than it had.                                   *)
THEOREM KeysStayWhatTheyAre == Spec => []KeysBegetTheirLike
<1>1. Init => Pedigree /\ KeysBegetTheirLike
  BY AccessAssumption DEF Init, Pedigree, KeysBegetTheirLike, Scopes
<1>2. TypeOK /\ (Pedigree /\ KeysBegetTheirLike) /\ [Next]_vars => (Pedigree /\ KeysBegetTheirLike)'
  BY KeySteps, PedigreeStep, BegottenStep
<1>3. QED
  BY <1>1, <1>2, TypeCorrect, PTL DEF Spec

-----------------------------------------------------------------------------
(* Tenants.                                                                *)

(* Only a request of the principal's account, or an administrator's, stops *)
(* an agent: whatever a revocation reaches hangs from the agent it names   *)
(* within one principal.                                                   *)
THEOREM AgentsAreTheirOwners == Spec => OnlyOwnersStopAgents
<1> DEFINE Owned ==
      \A x \in stopped' \ stopped :
        \E r \in Requests :
          /\ pc[r] = "ready" /\ pc'[r] = "idle"
          /\ Owns(Context(r), agent[x].principal)
<1>1. ASSUME Shape, NEW r \in Requests, NEW x \in Agents, RevokeAgent(r, x) PROVE Owned
  <2>1. pc[r] = "ready" /\ pc'[r] = "idle" /\ Owns(Context(r), agent[x].principal)
    BY <1>1 DEF RevokeAgent, Acting, Finish, Shape, TypeOK
  <2>2. \A y \in Descent(x) : agent[y].principal = agent[x].principal
    BY <1>1, DescentStaysInTenant DEF RevokeAgent, Shape
  <2>3. stopped' \ stopped \subseteq Descent(x)
    BY <1>1 DEF RevokeAgent
  <2>4. QED
    BY <2>1, <2>2, <2>3
<1>2. ASSUME [Next]_vars, ~\E r \in Requests, x \in Agents : RevokeAgent(r, x)
      PROVE  UNCHANGED stopped
  BY <1>2
     DEF Next, ActOnKeys, ActOnPeople, Authenticate, Touch, IssueKey, RotateKey, RevokeKey,
         AdminPrincipal, LookupPrincipal, CreatePrincipal, CreateAgent, RequestEnds, KeyExpires,
         vars, tables
<1>3. Shape /\ [Next]_vars => Owned
  BY <1>1, <1>2
<1>4. QED
  BY <1>3, ShapeAlways, PTL DEF Spec, OnlyOwnersStopAgents

-----------------------------------------------------------------------------
(* One principal per account, where writers are serialized.                *)

Writing(r) == pc[r] \in {"found", "creating"}

(* Who is about to create a principal has the database to itself, and has  *)
(* found none of its account.                                              *)
Lone ==
  /\ OnePrincipalPerAccount
  /\ \A r, q \in Requests : Writing(r) /\ Writing(q) => r = q
  /\ \A r \in Requests, p \in People :
       pc[r] = "creating" => account[p] # Context(r).account

LEMMA LoneStep == Serialized /\ TypeOK /\ Lone /\ [Next]_vars => Lone'
<1> SUFFICES ASSUME Serialized, TypeOK, Lone, [Next]_vars PROVE Lone'
  OBVIOUS
<1> USE DEF OnePrincipalPerAccount
<1>0. \A r \in Requests : Acting(r) => \A q \in Requests : ~Writing(q)
  BY DEF Acting, LockFree, Writing
<1>k. ASSUME UNCHANGED account,
             \A r \in Requests : Writing(r)' => Writing(r),
             \A r \in Requests : pc'[r] = "creating" =>
               pc[r] = "creating" /\ row'[key'[r]] = row[key[r]]
      PROVE  Lone'
  BY <1>k DEF Lone, Context, Writing
<1>i. ASSUME NEW r \in Requests, Acting(r), Finish(r), UNCHANGED account PROVE Lone'
  BY <1>i, <1>0 DEF Finish, Writing, TypeOK, Lone
<1>1. ASSUME NEW r \in Requests, NEW k \in Keys, Authenticate(r, k) PROVE Lone'
  BY <1>1 DEF Authenticate, LockFree, Writing, tables, TypeOK, Lone, Context
<1>2. ASSUME NEW r \in Requests, Touch(r) PROVE Lone'
  BY <1>2 DEF Touch, Writing, tables, TypeOK, Lone, Context
<1>3. ASSUME NEW r \in Requests, NEW k \in Keys, NEW a \in Ids, NEW offer \in Offers,
             IssueKey(r, k, a, offer)
      PROVE  Lone'
  BY <1>3, <1>i DEF IssueKey
<1>4. ASSUME NEW r \in Requests, NEW k \in Keys, NEW new \in Keys, RotateKey(r, k, new)
      PROVE  Lone'
  BY <1>4, <1>i DEF RotateKey
<1>5. ASSUME NEW r \in Requests, NEW k \in Keys, RevokeKey(r, k) PROVE Lone'
  BY <1>5, <1>i DEF RevokeKey
<1>6. ASSUME NEW r \in Requests, NEW p \in People, NEW a \in Ids, AdminPrincipal(r, p, a)
      PROVE  Lone'
  <2>1. \A q \in People : account[q] # a
    BY <1>6, AccessAssumption DEF AdminPrincipal, TypeOK
  <2>2. \A q \in Requests : ~Writing(q)'
    BY <1>6, <1>0 DEF AdminPrincipal, Finish, Writing, TypeOK
  <2>3. OnePrincipalPerAccount'
    BY <1>6, <2>1 DEF AdminPrincipal, TypeOK, Lone
  <2>4. QED
    BY <2>2, <2>3 DEF Lone, Writing
<1>7. ASSUME NEW r \in Requests, LookupPrincipal(r) PROVE Lone'
  <2>1. Acting(r) /\ UNCHANGED tables
    BY <1>7 DEF LookupPrincipal
  <2>2. CASE \E p \in People : account[p] = Context(r).account
    BY <1>7, <1>i, <2>2 DEF LookupPrincipal, tables
  <2>3. CASE ~\E p \in People : account[p] = Context(r).account
    <3>1. pc' = [pc EXCEPT ![r] = "creating"] /\ UNCHANGED key
      BY <1>7, <2>3 DEF LookupPrincipal
    <3>2. \A q \in Requests : Writing(q)' => q = r
      BY <1>0, <2>1, <3>1 DEF Writing, TypeOK
    <3>3. QED
      BY <2>1, <2>3, <3>1, <3>2 DEF Lone, tables, Context, Writing
  <2>4. QED
    BY <2>2, <2>3
<1>8. ASSUME NEW r \in Requests, NEW p \in People, CreatePrincipal(r, p) PROVE Lone'
  <2>1. \A q \in Requests : ~Writing(q)'
    BY <1>8 DEF CreatePrincipal, Finish, Writing, TypeOK, Lone
  <2>2. \A q \in People : account[q] # Context(r).account
    BY <1>8 DEF CreatePrincipal, Lone
  <2>3. OnePrincipalPerAccount'
    BY <1>8, <2>2 DEF CreatePrincipal, TypeOK, Lone
  <2>4. QED
    BY <2>1, <2>3 DEF Lone, Writing
<1>9. ASSUME NEW r \in Requests, NEW x \in Agents, NEW p \in People,
             NEW parent \in Agents \cup {None}, CreateAgent(r, x, p, parent)
      PROVE  Lone'
  BY <1>9, <1>i DEF CreateAgent
<1>10. ASSUME NEW r \in Requests, NEW x \in Agents, RevokeAgent(r, x) PROVE Lone'
  BY <1>10, <1>i DEF RevokeAgent
<1>11. ASSUME NEW r \in Requests, RequestEnds(r) PROVE Lone'
  BY <1>11 DEF RequestEnds, Finish, Writing, tables, TypeOK, Lone, Context
<1>12. ASSUME NEW k \in Keys, KeyExpires(k) PROVE Lone'
  BY <1>12, <1>k DEF KeyExpires, request, Writing
<1>13. ASSUME UNCHANGED vars PROVE Lone'
  BY <1>13, <1>k DEF vars, tables, request, Writing
<1>14. QED
  BY <1>1, <1>2, <1>3, <1>4, <1>5, <1>6, <1>7, <1>8, <1>9, <1>10, <1>11, <1>12, <1>13
     DEF Next, ActOnKeys, ActOnPeople

(* On SQLite, where a request holds the database from its lookup to its    *)
(* insert, accounts and principals are one to one, as models.py says.      *)
THEOREM SerializedAccountsHaveOnePrincipal == Spec => [](Serialized => OnePrincipalPerAccount)
<1>1. Init => (Serialized => Lone)
  BY DEF Init, Lone, OnePrincipalPerAccount, Writing
<1>2. TypeOK /\ (Serialized => Lone) /\ [Next]_vars => (Serialized => Lone)'
  BY LoneStep
<1>3. (Serialized => Lone) => (Serialized => OnePrincipalPerAccount)
  BY DEF Lone
<1>4. QED
  BY <1>1, <1>2, <1>3, TypeCorrect, PTL DEF Spec
=============================================================================
