-------------------------- MODULE LedgerProperties --------------------------
(* What The Crossing promises about an attempt, a key and a budget.        *)
EXTENDS Ledger, Functions

Open    == {"held", "committed"}
Charged(m) == {c \in Calls : Of(c) = m /\ reservation[c] \in Open}

SameOperation(c, d) ==
  /\ Keyed(req[c]) /\ Keyed(req[d])
  /\ SlotOf(req[c]) = SlotOf(req[d])

(* Every column holds what its table allows.                               *)
TypeOK ==
  /\ req \in [Calls -> Requests]
  /\ pc \in [Calls -> {"idle", "checked", "reserved", "executing", "calling",
                       "returned", "raised", "done", "crashed"}]
  /\ seen \in [Calls -> Row \cup {None}]
  /\ \A c \in Calls : pc[c] = "checked" => seen[c] \in Row
  /\ answer \in [Calls -> [reason : Reasons, result : Calls \cup {None}]]
  /\ remaining \in [Mandates -> Nat]
  /\ calls_used \in [Mandates -> Nat]
  /\ revoked \in [Mandates -> BOOLEAN]
  /\ age \in [Mandates -> {"live", "at_expiry", "past"}]
  /\ billable \in [Principals -> BOOLEAN]
  /\ claim \in [Slots -> [status : {"absent", "in_progress", "completed"},
                          hash : (Mandates \X Tools) \cup {None},
                          result : Calls \cup {None}]]
  /\ used_nonces \subseteq Principals \X Nonces
  /\ invocation \in [Calls -> InvocationStatus]
  /\ reservation \in [Calls -> {"none", "held", "committed", "released"}]
  /\ receipts \in [Calls -> Nat]
  /\ outbox \in [Calls -> Nat]
  /\ events \in [Calls -> [EventKinds -> Nat]]
  /\ vendor \in [Calls -> {"none", "in_flight", "executed", "lost"}]

-----------------------------------------------------------------------------
(* The five tables a terminal transition writes agree about how an attempt *)
(* ended, whichever of finalize, recovery and reconciliation won the race: *)
(* the invocation's status decides the reservation's, a charge has exactly *)
(* one receipt, one outbox row and one commit event, a refund has one      *)
(* release event and none of these.                                        *)
RowsAgree ==
  \A c \in Calls :
    /\ reservation[c] =
         CASE invocation[c] = "none" -> "none"
           [] invocation[c] \in {"committed", "reconciled_committed"} -> "committed"
           [] invocation[c] \in {"released", "reconciled_released"} -> "released"
           [] OTHER -> "held"
    /\ receipts[c] = IF reservation[c] = "committed" THEN 1 ELSE 0
    /\ outbox[c] = receipts[c]
    /\ events[c]["commit"] = receipts[c]
    /\ events[c]["release"] = IF reservation[c] = "released" THEN 1 ELSE 0
    /\ events[c]["reserve"] = IF reservation[c] = "none" THEN 0 ELSE 1
    /\ events[c]["reconciled"] =
         IF invocation[c] \in {"reconciled_committed", "reconciled_released"} THEN 1 ELSE 0

(* "Duplicate / confused charge": of all the attempts made under one       *)
(* principal's key, at most one holds or has spent money.                  *)
OneChargePerKey ==
  \A c, d \in Calls :
    /\ c # d /\ SameOperation(c, d)
    /\ reservation[c] \in Open
    => reservation[d] \notin Open

ClaimMatches(c) ==
  LET known == claim[SlotOf(req[c])]
  IN  /\ known.status = IF reservation[c] = "held" THEN "in_progress" ELSE "completed"
      /\ known.hash = Fingerprint(req[c])
      /\ known.result \in IF reservation[c] = "held" THEN {None} ELSE {c, None}

AttemptsClaim ==
  \A c \in Calls : Keyed(req[c]) /\ reservation[c] \in Open => ClaimMatches(c)

ClaimsHaveAttempts ==
  \A s \in Slots :
    claim[s].status # "absent" =>
      \E c \in Calls :
        Keyed(req[c]) /\ SlotOf(req[c]) = s /\ reservation[c] \in Open

(* A key is claimed exactly as long as an attempt stands behind it: a      *)
(* denied or released attempt never leaves the key poisoned, a held or     *)
(* charged one never leaves it free to be charged again, and the claim     *)
(* carries the fingerprint of the attempt it belongs to.                   *)
ClaimsBacked == AttemptsClaim /\ ClaimsHaveAttempts

(* calls_used counts the attempts that hold or have spent money, so a      *)
(* mandate with max_calls never pays for more of them than it allows.      *)
CallsCounted ==
  \A m \in Mandates :
    /\ calls_used[m] = Cardinality(Charged(m))
    /\ MaxCalls[m] # None => calls_used[m] <= MaxCalls[m]

(* No cent appears or disappears: what a mandate may still spend and what  *)
(* its attempts hold or have spent add up to what its principal signed.    *)
BudgetConserved ==
  \A m \in Mandates :
    remaining[m] + SumFunction([c \in Charged(m) |-> Amount(c)]) = Budget[m]

(* A request reaches the provider only behind a committed "executing": the *)
(* attempt was not released before it was sent and can no longer be taken  *)
(* for one that never started.                                             *)
DispatchBehindBarrier ==
  \A c \in Calls :
    vendor[c] # "none" => invocation[c] \notin {"none", "reserved", "released"}

(* What the vendor did, or may still do, is never refunded, as long as the *)
(* operator certifies "did not execute" only about a request that can no   *)
(* longer be sent.                                                         *)
EffectsAreNotRefunded ==
  \A c \in Calls : vendor[c] \in {"in_flight", "executed"} => reservation[c] # "released"

(* Nobody pays for a tool that did not run.                                *)
ChargedOnlyForEffects ==
  \A c \in Calls : reservation[c] = "committed" => vendor[c] = "executed"

(* One key, one effect: retries, recoveries and reconciliations of one     *)
(* logical operation never make the vendor run it twice.                   *)
OneEffectPerKey ==
  \A c, d \in Calls :
    /\ c # d /\ SameOperation(c, d)
    /\ vendor[c] \in {"in_flight", "executed"}
    => vendor[d] \notin {"in_flight", "executed"}

(* "Replay": a nonce of a principal buys at most one attempt.              *)
OneAttemptPerNonce ==
  \A c, d \in Calls :
    /\ c # d /\ req[c].nonce # None /\ req[c].nonce = req[d].nonce
    /\ Owner[Of(c)] = Owner[Of(d)]
    /\ reservation[c] # "none"
    => reservation[d] = "none"

(* An answer "ok", replayed or not, is the result of one charged attempt   *)
(* for the same request under the same principal's key.                    *)
AnswersAreCharged ==
  \A c \in Calls :
    answer[c].reason \in {"ok", "replay"} =>
      \E d \in Calls :
        /\ answer[c].result = d
        /\ reservation[d] = "committed" /\ vendor[d] = "executed"
        /\ Fingerprint(req[c]) = Fingerprint(req[d])
        /\ c # d => SameOperation(c, d)

(* A caller told to stop after a refusal has not been charged, and a       *)
(* caller told FINALIZE_LOST or MCP_ERROR is not silently charged by its   *)
(* own process: only an operator can still charge it.                      *)
RefusalsAreFree ==
  \A c \in Calls :
    /\ answer[c].reason \notin {"none", "ok", "MCP_ERROR", "FINALIZE_LOST"}
         => reservation[c] = "none"
    /\ answer[c].reason \in {"MCP_ERROR", "FINALIZE_LOST"} /\ reservation[c] = "committed"
         => invocation[c] = "reconciled_committed"

-----------------------------------------------------------------------------
(* "Terminal invocation states are monotonic": no step leaves committed,   *)
(* released or a reconciled state, and only reconciliation leaves          *)
(* ambiguous and executed_fail.                                            *)
TerminalStays ==
  \A c \in Calls :
    invocation[c] \in TERMINAL_INVOCATION =>
      \/ invocation'[c] = invocation[c]
      \/ /\ invocation[c] \in ReconcileFrom
         /\ invocation'[c] \in {"reconciled_committed", "reconciled_released"}

TerminalIsFinal == [][TerminalStays]_vars

(* README, "Completed claims still replay": once an operation was answered *)
(* ok, the same request under its key is told the same result and debits   *)
(* nothing more, whatever became of the budget, the call cap or the        *)
(* account since, and whoever claimed the key when.  Only a mandate that   *)
(* is revoked or expired, a policy refusal, and a nonce burnt while the    *)
(* retry was under way (the 500 of the unique constraint) come before it.  *)
Retries(c, d) == SameOperation(c, d) /\ Fingerprint(req[c]) = Fingerprint(req[d])

ReplayOf(d) == [reason |-> "replay", result |-> d]

BeforeReplay == {"MANDATE_REVOKED", "MANDATE_EXPIRED", "REFUSED", "ERROR"}

ReplaysIt(c, d) ==
  pc[c] \in {"idle", "checked"} =>
    \/ pc'[c] = pc[c]
    \/ pc'[c] = "crashed"
    \/ pc'[c] = "done" /\ (answer'[c] = ReplayOf(d) \/ answer'[c].reason \in BeforeReplay)

AnsweredKeysReplay ==
  [][\A c, d \in Calls : answer[d].reason = "ok" /\ Retries(c, d) => ReplaysIt(c, d)]_vars

(* README, "Completed claims still replay", of every completed claim: also *)
(* of one that an operator completed.                                      *)
CompletedClaimsReplay ==
  \A s \in Slots : claim[s].status = "completed" => claim[s].result # None

(* README, review r5: "Failed debit distinguishes BUDGET_EXCEEDED vs       *)
(* MAX_CALLS_EXCEEDED": a call is not told its budget is short when only   *)
(* the call cap is.                                                        *)
DenialNamesTheCap ==
  [][\A c \in Calls :
       /\ pc[c] # "done" /\ pc'[c] = "done"
       /\ answer'[c].reason = "BUDGET_EXCEEDED"
       => \/ remaining[Of(c)] < Amount(c)
          \/ UnderCallCap(Of(c), calls_used[Of(c)])]_vars

-----------------------------------------------------------------------------
(* The ledger implements the abstract authority: reserve, commit and       *)
(* release, by whatever path, are its Hold, Spend and GiveBack.            *)
OrderOf(c) == [purse |-> Of(c), amount |-> Amount(c),
               operation |-> IF Keyed(req[c]) THEN SlotOf(req[c]) ELSE None]

Authority == INSTANCE SpendAuthority
  WITH Attempts <- Calls, Purses <- Mandates, Operations <- Slots,
       Funds <- Budget, CallCap <- MaxCalls,
       order <- [c \in Calls |-> OrderOf(c)], standing <- reservation,
       cents <- remaining, calls <- calls_used

SpendsByAuthority == Authority!Spec

-----------------------------------------------------------------------------
(* A process that is not killed goes on; the vendor acts on a request or   *)
(* never will.                                                             *)
Going(c) == pc[c] # "idle" /\ Invoke(c)

FairSpec == Spec /\ \A c \in Calls : WF_vars(Going(c)) /\ WF_vars(Vendor(c))

(* An operator keeps trying to reconcile what is uncertain.                *)
OperatedSpec == FairSpec /\ \A c \in Calls : WF_vars(Reconcile(c))

(* Every call is answered unless its process dies.                         *)
CallsAreAnswered == \A c \in Calls : pc[c] # "idle" ~> pc[c] \in {"done", "crashed"}

Uncertain(c) == invocation[c] \in {"ambiguous", "executed_fail"}

(* The tool ran for an account that cannot be billed: the endpoint refuses *)
(* to charge it, and evidence that it did not run would be false.          *)
OwedByUnpaid(c) == vendor[c] = "executed" /\ ~billable[Owner[Of(c)]]

(* Money held for an uncertain attempt is eventually spent or returned,    *)
(* unless it is owed by an unpaid account.  This holds from every state on *)
(* in which the attempt is uncertain: a hold on an account that pays up    *)
(* for good ends, and one for a request that was lost ends even if the     *)
(* account never pays.                                                     *)
UncertaintyEnds ==
  \A c \in Calls :
    Uncertain(c) ~> reservation[c] \in {"committed", "released"} \/ OwedByUnpaid(c)

(* docs/runbook.md, "Stuck executing": reconcile with evidence.            *)
StuckExecutingEnds ==
  \A c \in Calls :
    invocation[c] = "executing" /\ pc[c] = "crashed"
      ~> reservation[c] \in {"committed", "released"}
=============================================================================
