# A TLA+ model of The Crossing

The Crossing lets an agent call paid tools under a *mandate*: a signed budget
with a list of tools, a per-call cap, an optional call cap and an expiry. Money is set
aside before a tool runs, and spent or given back afterwards; receipts are
metered at Stripe by a worker, for the customer an account is attached to. This directory
models the parts of the code (`src/crossing/`) where that can go wrong under concurrency,
crashes and retries, checks them with TLC on small instances, and proves the safety properties
with TLAPS for instances of every size.

## Inventory

| Component | State it keeps | Operations | Modelled in |
|---|---|---|---|
| Ledger and invocation lifecycle (`ledger.py`, `lifecycle.py`) | `mandates.remaining_cents/calls_used`, `idempotency_records`, `used_nonces`, per attempt: `invocations`, `reservations`, `receipts`, `billing_outbox`, `ledger_events` | `invoke`, `reserve_and_commit`, `mark_executing`, `mark_executed_fail`, `finalize_success`, `finalize_release`, `recover_reserved`, `reconcile_commit`, `reconcile_release` | `Ledger`; `RowLocks`, statement by statement |
| Billing outbox and worker (`billing.py`, `worker.py`) | `billing_outbox`, a worker's batch and session | `enqueue`, `drain_outbox`, `post_stripe`, `requeue_dead` | `Outbox` |
| Stripe webhooks and billing status (`billing.py`) | `accounts` (customer, `stripe_status`, fees), `stripe_events` | `record_stripe_event`, `apply_stripe_event`, `attach_stripe_customer`, `is_billable`, the fee in `enqueue` | `Accounts`; with the outbox, `Billing` |
| Mandates and agents (`mandate.py`, `identity.py`, `policy.py`) | `agents`, `mandates` | `create_agent`, `revoke_agent`, `issue_mandate`, `revoke_mandate`, the checks of a call | `Delegation` |
| API keys, tenants (`auth.py`, `api.py`, `identity.py`) | `api_keys`, `accounts`, `principals`, whose agents are whose | authenticate, issue, rotate, revoke, expire; create principals and agents, revoke agents | `Access` |
| HTTP API (`api.py`) | none | a transaction that authenticates and one around each operation | through the operations |
| Database sessions (`db.py`, `models.py`) | isolation, unique constraints, row locks | `session_scope`, `make_engine` | step granularity of all modules; locks in `RowLocks` |
| Admission control (`abuse.py`) | windows of timestamps | rate limiter | not modelled |
| Providers, pricing (`providers.py`, `pricing.py`, `mock_mcp.py`) | none (the vendor's) | call a tool | external: `VendorExecutes`, `VendorLoses` |
| Receipts and signing, proxy, SDK, dashboard, demo, metrics, logging, migrations | none of their own | formatting, cryptography, I/O | not modelled |

How they interact: a request authenticates in a transaction of its own (Access). `invoke()` reads
the account, mandate, agent, claim and nonce (Accounts, Delegation, Ledger),
reserves in one transaction, commits "executing" in a second, calls the
provider with no transaction open, and finalises in a third, which also inserts the
outbox row with the account's customer. Workers take rows from that table and post them to Stripe, whose
events come back as webhooks and decide whether the account may go on.
`POST /v1/invocations/{id}/reconcile` ends attempts that
nobody else can. There are no queues and no locks in memory: all interaction goes
through conditional UPDATEs, unique constraints and the
isolation level - SQLite with `BEGIN IMMEDIATE` or Postgres at READ COMMITTED.

What is hard here, and what must hold:

* *Calls race each other* from an unlocked read to a conditional write: budgets and call
  caps, one charge per idempotency key, one attempt per nonce.
* *Processes die* between any two transactions, and then
  recovery and an operator finish the attempt while the process that was thought dead may
  still run: nothing the vendor did is refunded, nothing it did not do is charged,
  and five tables keep telling one story.
* *The vendor may have acted* although the call failed or timed out: a retry must
  not make it act twice.
* *Transactions lock rows in different orders*: they may deadlock, be aborted, or lose half way;
  what they commit must still be all or nothing.
* *Workers outlive their leases*, die after the POST, share rows with operators and are configured
  apart from the API: a receipt is metered once, to its customer, and no row is stranded.
* *Stripe delivers events late, twice and out of order* while customers are attached: an account's
  status follows its events, each once.
* *Trees of mandates and agents change* while calls run: escrow conserves money,
  children get no more than their parents, a revoked subtree stops spending.
* *Keys are revoked and rotated* while requests that presented them are under way: no tenant's key begets an
  administrator's or another account's, nothing revives one, and no account reaches into another's agents.

`PROJECT.json` lists every hazard at its line with the properties about it.

## Modules

```
SpendAuthority        what a mandate promises, abstractly
   ^        ^  refinement mappings in LedgerProperties and RowLocksProperties
   |        |
   |      RowLocks <- RowLocksProperties <- MCRowLocks (TLC), RowLocksProofs (TLAPS)
   |
Ledger     <- LedgerProperties     <- MCLedger,     LedgerProofs     -> Sums
Outbox     <- OutboxProperties     <- MCOutbox,     OutboxProofs
Accounts   <- AccountsProperties   <- MCAccounts,   AccountsProofs
   ^ ^  Billing instantiates both (Acc, Out)
Billing    <- BillingProperties    <- MCBilling,    BillingProofs
   refinement mapping in BillingProperties -> Metering
Access     <- AccessProperties     <- MCAccess,     AccessProofs
Delegation <- DelegationProperties <- MCDelegation, DelegationProofs -> Sums

SpendAuthority, Metering   abstract specifications
Sums                       lemmas about the sum of a function over a finite set
```

Definitions whose
comment starts with "Variant" are not part of a specification: each is a definition
of the code as a plausible mistake would leave it, and shows that some property notices.

### Ledger

A *call* is one `invoke()`; it makes at most one attempt, so invocation, reservation,
receipt, outbox row and events are functions of the call. `pc` says where the
process is; an action is a transaction:

| Action | Code |
|---|---|
| `CheckRefused`, `CheckAnswers`, `CheckPasses` | `invoke` up to the reservation: early returns in their order, `require_billable` last |
| `ReserveNonceClash`, `ReserveClaimLost`, `ReserveDenied`, `ReserveCommits` | `reserve_and_commit`: nonce, claim, debit, reservation, invocation, in one transaction with a savepoint |
| `MarkExecuting` | the durable barrier before dispatch |
| `SendRequest`, `ProviderReturns`, `ProviderRaises` | `providers.invoke` |
| `MarkExecutedFail`, `FinalizeSuccess`, `FinalizeLost` | the last transaction |
| `RecoverAmbiguous`, `RecoverRelease` | `recover_reserved` in its modes, at any moment, also while the process lives |
| `ReconcileCommit`, `ReconcileRelease` | the reconcile endpoint, with true evidence of what the vendor did; to charge, the account must be billable |
| `Crash`, `RevokeMandate`, `TimePasses`, `BillingChanges` | the rest of the world |

Granularity. The first transaction is split in two, Check and Reserve, since on Postgres
others commit between its reads and its writes; the reads of the check are one
step. `Serialized = TRUE` is SQLite: the lock is held from Check to the end of
Reserve and keeps everybody else out (`LockFree`). The reads and writes after the split
are re-evaluated on the current row where the code uses a conditional UPDATE, and on
the copy in the session (`seen`) where it uses `session.get`. A call that loses its claim reads it again; on Postgres the claim
may be gone by then (`LostVerdicts`). That the transactions after the
barrier may be taken for single steps is what `RowLocks` shows.

Abstractions. A tool stands for server, tool and arguments, so a fingerprint is
<<mandate, tool>>. Every check that only refuses and reads nothing modelled here (signature, revoked
agent, grants, per-call cap, bad arguments) is the nondeterministic
`CheckRefused`. Whether a principal's account is billable is one bit that Stripe and the administrator change
at any moment (`BillingChanges`), for the accounts that Stripe decides about (`Billed`; none without a
`STRIPE_SECRET_KEY`); where the bit comes from is Accounts' subject. It is asked in the check of a call and in a reconciliation
that charges, in the transaction that acts on it; a lapse between the question and the commit is left out. Time is the mandate's age against its expiry, with the instant of equality
kept apart because `check_fresh` and the debit disagree about it. Results
are named by the call that obtained them. `LateEvidence` says whether an operator
may certify "did not execute" while the sender is still alive after
the barrier: that is a promise of the operator, not of the code.

`SpendAuthority` is the abstract specification: `Hold`, `Spend`, `GiveBack` of money
and call slots, one holder per operation. `SpendsByAuthority` maps reservations to
standings and every transaction of the ledger, recovery and reconciliation
included, to one of the three or to a stutter.

### RowLocks

The transactions that settle an attempt, as Postgres runs them. A transaction is a list of
statements (`Finalize`, `Release`, `ReconcileCommit`, `ReconcileRelease`, in the order of the code): `Set` is a
conditional UPDATE, `Unless` a refresh with an early return, `Credit` the
refund. An UPDATE first finds its row among the committed values (`Find`), then waits for the
lock and asks its WHERE again (`Update`); locks are kept until `Commit` or until the savepoint is rolled back
(`Lose`). `finalize_*` takes the reservation before the invocation and `reconcile_*` the invocation before the
reservation, so two of them can wait for each other: `Aborted` is Postgres breaking a cycle.
`Reserve`, `MarkExecuting`, `MarkExecutedFail`, `RecoverAmbiguous` lock one row and commit; they
are one step each. `Crash` rolls back what is open. One mandate (`Funds`) and one price (`Cost`); claims,
receipts, events and outbox rows are written by the same transactions, and are left to Ledger.

### Outbox

Rows are named by receipts. A worker claims a batch with conditional UPDATEs
(`Claim`), posts each row without a transaction (`PostAccepted`, `PostRefused`,
`PostSkipped`), and writes the outcome with a compare-and-set on the status
(`WriteTerminal`, `LoseTerminal`). Sessions do not expire on commit, so the first row of a
batch is written from the attempts read at the claim (`cached`); each
compare-and-set expires the session, so later rows are read again
(`ReadAgain`, `ReadElsewhere`) in a step of their own. An operator reads dead
rows and then writes them by primary key (`RequeueReads`, `RequeueWrites`). `WorkerDies`
at any point; `BackoffEnds` and `LeaseLapses` are the clock, and a lease may lapse
under a live worker (50 rows of up to 8 seconds each against a lease of 30). Which workers have a
`STRIPE_SECRET_KEY` (`configured`) is fixed at the start, to any of `Deployments`. Stripe is external: it
counts an Idempotency-Key once - taken to last for ever, while Stripe forgets keys
after a day or more - and its answer may get lost.
`failures` is a history variable: failed outcomes recorded since the row was last pending.

### Accounts

Stripe emits events about customers (`StripeEmits`, at most `MaxEvents`), each saying "paid" (a status outside
`UNPAID_STATUSES`), "unpaid", or nothing of the status. A webhook looks the event's id up (`ReceiveEvent`), inserts it and
finds the account (`InsertEvent`, or `DuplicateEvent` when the primary key refuses), and writes
(`ApplyEvent`): the session only writes a column that differs from what it loaded, which
matters when two webhooks of one account overlap. Statuses are one of two kinds, so that one paid status is written over
another is no write here; `is_billable` does not tell them apart. `WebhookFails` rolls back and Stripe delivers
again. `AttachCustomer` is the administrator's endpoint, which may bind an account anew. A call passes
`CheckBillable` in one transaction, and in a later one reads the account (`EnqueueReads`) and writes row and fee
(`EnqueueWrites`); one that dies in between (`CallDies`) is left to `ReconcileBillable`. `bindings` (which customer was
ever attached where) and `disordered` (customers with an event received before an earlier one) are history.

### Billing

The composition: `Acc` and `Out` are instances over one set of rows, and the charge of a call is
one step of both (`Enqueue`). Every other action is a step of one of them; `Meter` adds that `post_stripe` sends nothing for a
payload without a customer. The API (`ApiConfigured`) and each worker have or lack a Stripe key independently.

`Metering` is the abstract specification of the whole: customers are bound to accounts (`Bind`), a receipt becomes owed, to a
customer bound to its account or to nobody (`Owe`), is counted (`Count`) and entered in the books as sent or written off (`EnterSent`,
`WriteOff`), and may be reopened (`Reopen`). There is no queue, claim, lease, session, event or worker in it. `Book` maps the status of
a row: pending, sending and failed are "owed", noop and dead "off". That `Reopen` takes sent receipts too is
the code's doing: `requeue_dead` writes by primary key what it read as dead before.

### Access

A request authenticates (`Authenticate`, `Touch`) and then acts in a second transaction with the
context it got: `IssueKey`, `RotateKey`, `RevokeKey`, `AdminPrincipal`, `LookupPrincipal` and
`CreatePrincipal`, `CreateAgent`, `RevokeAgent`; `RequestEnds` is a refusal, a read, an error or a crash. Its key may be
revoked or expire in between, and the request goes on. A key is its row; that presenting it takes the secret is hashing, and is
assumed. `issuer` is history: whose request was handed the secret. `Descent` is the
subtree a revocation reaches, as the least closed set rather than by recursion.

### Delegation

One principal, its agents and mandates. A request reads (`CreateAgentReads`, `IssueReads`,
`SpendReads`) and then writes (`CreateAgentWrites`, `IssueWrites`, `SpendWrites`) or
`RollsBack` (a lost conditional UPDATE, an error, a crash). `RevokeAgent`,
`RevokeMandate` and `Refund` are one step. For `RevokeAgent` that is exact on SQLite; on Postgres the walk down the tree is a
SELECT per level, and the properties about revocation are claimed for `Serialized` only. `Serialized` as above. Left out: signatures,
mandate nonces, max_calls (Ledger has it) and the two lists of tools and servers,
which are one set. `spent` sums what the ledger has debited and not refunded.

## Runs

Deadlock is not checked anywhere: each call runs once, rows settle and the supply of mandates, keys, agents and events
ends, so the instances really come to rest. That they come to rest in the right place
is what the liveness properties say; that nobody waits for a row lock for ever is `WaitsEnd`.

| Run | Instance | Shows |
|---|---|---|
| `Ledger_retry` | 3 calls, 1 mandate (3 cents, 2 calls), 1 key, with and without the key, Postgres | one charge and one effect per key, claims backed by attempts, budget and call count conserved, nothing done refunded, nothing undone charged, an operation answered "ok" replays; refines `SpendAuthority` |
| `Ledger_mixed` | 2 calls, 2 mandates of 2 principals, prices 1 and 2 against a budget of 2, key reused for another tool, nonces, expiry, `LateEvidence`, one account that may not pay | types (no budget below zero), the rows of an attempt agree, terminal states are final, one attempt per nonce, answers are backed, refusals are free |
| `Ledger_live` | 2 calls, SQLite, call cap 1, an account that lapses and pays at will | calls are answered; what is uncertain is settled, unless the tool ran for an account that does not pay |
| `Ledger_stuck_doc` | 1 call | violated: see "Where documents and code part" |
| `RowLocks_waits` | 1 attempt, 1 recoverer, 2 operators | verdicts agree, what is committed is a step of `SpendAuthority`, deadlocks are two transactions of opposite orders over one attempt, waits end |
| `Outbox_stalls` | 2 rows, 2 workers, both or either with a Stripe key, 2 operators, 2 attempts, batches of up to 2 | metered once, open rows have attempts left, workers never reopen a settled row |
| `Accounts_events` | 2 accounts, 2 customers, 2 events, 2 webhooks at once, 2 calls of one account | the status follows the events, in order the latest wins, the unpaid are refused, rows and fees belong to the customer and account of the call |
| `Billing_live` | 1 receipt, 2 workers of which one has a key, an API without one, 1 operator, 1 customer, 1 event, 2 webhooks | receipts go to a customer of their account; refines `Metering`; queued rows settle, events are recorded |
| `Delegation_money` | 1 agent, 3 mandates, 2 open requests, Postgres | a mandate's limit is what it has left, has spent, and gave to its children, none of it below zero |
| `Delegation_terms` | 3 agents, 2 mandates, 4 kinds of terms, SQLite | children are attenuated; revocation reaches the whole tree, also between the check of a call and its debit |
| `Access_tenants` | 3 keys (one an administrator's), 2 accounts, 2 principals, 2 agents, 2 requests, Postgres | keys beget their like, revocation is for ever, only owners stop agents |
| `Access_principal_doc` | the same | violated: see below |

Why the bounds are enough to be interesting. Two calls race; a third is needed to find
a key released by one and taken by another, and to pass a call cap of two within the
budget. Prices 1 and 2 let two calls pass the check and only one the
debit. Two mandates with two owners show that keys and nonces are per principal. With one
attempt, a worker, a recoverer and two operators are four transactions over the same three rows, which is
every pair of different programs and two operators at odds; with two attempts and one operator (42,990 states) the
properties hold as well, and with two attempts, two operators and money for both (2,711,057 states) `DeadlocksArePairs` does. Two workers and one row give the lost lease, two rows the batch and the reread; two attempts
(`MaxAttempts`, 8 in the code) are the least where a row fails, is retried and dies. Two events
of one customer are out of order or in flight together; two calls of one account add their fees at once. In `Billing_live` one row is
enough, as rows meet only in batches, and a worker with a key and one without may both have claimed it.
Three keys are the administrator's, one issued and one rotated from it;
three mandates are a parent and two children carved out at once, or a chain;
three agents are a chain. The clock (`MaxTime`) ends after the expiries it has
to pass. The failure count saturates at `MaxAttempts + 1`, one more than any property compares.
Symmetry is used for interchangeable calls, rows, workers, operators, agents,
mandates, accounts, webhooks and requests, in runs without liveness properties only (action properties and
refinements are about single steps).

The type invariants of Outbox, Accounts, Access, Delegation and RowLocks are in no run: they are proved.

### Fairness

* `FairSpec` (Ledger): a running call's next step and the vendor's decision on a
  request in flight. No transaction waits without bound and providers are called with a
  timeout, and a process that stops is `Crash`, which may always come first. Starting a call is not fair.
* `OperatedSpec` adds that an operator gets to every attempt that can be reconciled, as the
  runbook demands, and keeps trying; recovery is never forced. Evidence that a tool ran is refused with BILLING_REQUIRED while the account cannot
  be billed (`api.py:560`), and evidence that it did not would be false, so such a hold may last: `UncertaintyEnds`
  excuses it, and no fairness is assumed of Stripe or the account.
* `FairSpec` (RowLocks): strong fairness of a transaction's steps - Postgres queues who waits for a row, so
  a lock that comes free again and again is at last given to each of them - and weak fairness of `Aborted`,
  its deadlock detector. Nothing starts a transaction.
* `Working` (Billing): the clock moves; a worker in a batch goes on; a row that is
  claimable again and again is claimed (strong fairness, since a requeue and other workers come and go). It
  is justified by `run_loop`, which polls for ever; the SELECT has no ORDER BY, so it holds as long as no
  more than a batch of rows is claimable at a time. No operator, and no
  success at Stripe, is assumed. `RowsSettle` adds that deaths of workers come to an
  end: a worker that dies on every claim never settles a row, however often it restarts, because a claim does
  not count as an attempt. Its antecedent reads `Dies(w) => Finish(w)` because a worker that leaves with its last row
  lost takes the same step as one that dies there.
* `Delivering` (Billing): Stripe delivers an event until it is answered with 200, and a request that was received goes on.
  `EventsAreRecorded` adds that webhooks stop failing; `Fails(h) => Webhook(h)` because a duplicate ends as a failure does.

### Where documents and code part

Two disagreements are runs of their own:

* `StuckExecutingEnds` (`Ledger_stuck_doc`; runbook "Stuck executing"): the endpoint leaves only
  `ambiguous` and `executed_fail`; an attempt left `executing` by a crash stays, and nothing that
  runs moves it to `ambiguous` (`ledger.py:654`).
* `OnePrincipalPerAccount` (`Access_principal_doc`; `models.py` "v1 is 1:1 with Principal"): on Postgres two requests of one
  account both find no principal and both create one (`api.py:313`); with `Serialized = TRUE` it holds, as is proved.

The others are stated in the modules and can be seen by adding them to a run:

| Property | Says | Violated in | Because |
|---|---|---|---|
| `CompletedClaimsReplay` | README "Completed claims still replay" | `Ledger_mixed`, as an invariant | the reconcile endpoint passes no result, so a claim it completes answers IN_PROGRESS for ever (`api.py:590`); of operations a process answered it holds, as `AnsweredKeysReplay` |
| `DenialNamesTheCap` | README on BUDGET_EXCEEDED and MAX_CALLS_EXCEEDED | `Ledger_retry`, as a property | on Postgres the reason is read from the session's old copy, which had passed both limits (`ledger.py:94`) |
| `DeadAfterMaxAttempts` | README "After 8 attempts the row is `dead`" | `Outbox_stalls`, as an invariant | a worker that outlived its lease writes an old count back (`billing.py:250`) |
| `NoLiveAgentUnderRevoked`, `RevokedSubtreesDoNotSpend` | README "Agent + descendant revoke" | `Delegation_terms` with `Serialized = FALSE`, `Requests = {q1, q2}` | on Postgres an agent created during the revocation survives it, and its children spend (`identity.py:67`); and a call that has passed its check debits after it (`identity.py:62`) |
| `PaidWorkNeedsLiveCustomer` | `billing.py` "paid work requires a live customer on the account" | `Accounts_events`, as a property | the last event to arrive wins, not the last to happen (`billing.py:453`) |

`ChildrenAreAttenuated` carries an exception for the same kind of reason: `subset(None, [])`
is true, so a child without a list under a parent with an empty one is unrestricted (`policy.py:71`).

## Proofs

Every theorem holds for all values of the constants that meet the `...Assumption` of its module: sets of any size (finite
where something is counted), `None` different from every value it stands beside, constants of their types.

| Module | Theorem | States |
|---|---|---|
| `LedgerProofs` | `TypeCorrect`, `BarrierHolds`, `RowsAlwaysAgree` | `[]TypeOK`, `[]DispatchBehindBarrier`, `[]RowsAgree` |
| | `KeysAreExclusive`, `ClaimsStandForAttempts` | `[]OneChargePerKey`, `[]ClaimsBacked` |
| | `NoChargeWithoutEffect` | `[]ChargedOnlyForEffects` |
| | `NoEffectIsRefunded`, `NoEffectIsRepeated` | `[](~LateEvidence => ...)` |
| | `NoncesBuyOnce`, `AnswersAreBacked`, `RefusalsCostNothing` | `[]OneAttemptPerNonce`, `[]AnswersAreCharged`, `[]RefusalsAreFree` |
| | `TerminalIsMonotonic`, `CallCapHolds` | `TerminalIsFinal`, `[]CallsCounted` |
| | `MoneyIsConserved` | `[]BudgetConserved` |
| | `AnswersAreReplayed` | `AnsweredKeysReplay` |
| | `ImplementsAuthority` | `Spec => SpendsByAuthority` |
| `RowLocksProofs` | `TypeCorrect`, `VerdictsHold`, `TransactionsAreAtomic` | `[]TypeOK`, `[]VerdictsAgree`, `Spec => CommitsAreAtomic` |
| | `DeadlocksNeedBothOrders` | `[]DeadlocksArePairs` |
| `OutboxProofs` | `TypeCorrect`, `NoRowIsStranded`, `SettledRowsStay` | `[]TypeOK`, `[]OpenRowsHaveAttempts`, `SettledStays` |
| | `ReceiptsAreMeteredOnce`, `SentIsMetered` | `[]MeteredOnce`, `[]SentWasMetered` |
| `AccountsProofs` | `TypeCorrect`, `ReplayDoesNotMutate`, `LatestWins`, `UnpaidAreRefused` | `[]TypeOK`, `StatusFollowsEvents`, `[]LatestEventWins`, `UnpaidCustomersAreRefused` |
| | `RowsAreBound`, `FeesAreCounted` | `[]RowsNameTheirCustomer`, `[]FeesMatchRows` |
| `BillingProofs` | `PartsAreImplemented` | `Spec => Acc!Spec /\ Out!Spec` |
| | `SentIsMetered`, `ReceiptsGoToTheirCustomer` | `[]SentWasMetered`, `[]MeteredToItsCustomer` |
| | `BillingImplementsMetering` | `Spec => BillsByMetering` |
| `AccessProofs` | `TypeCorrect`, `RevocationHolds`, `KeysStayWhatTheyAre`, `AgentsAreTheirOwners` | `[]TypeOK`, `RevocationIsForever`, `[]KeysBegetTheirLike`, `OnlyOwnersStopAgents` |
| | `SerializedAccountsHaveOnePrincipal` | `[](Serialized => OnePrincipalPerAccount)` |
| `DelegationProofs` | `TypeCorrect`, `ChildrenStayAttenuated` | `[]TypeOK`, `[]ChildrenAreAttenuated` |
| | `TreesConserveMoney` | `[]TreeConserved` |
| | `RevocationReachesAll`, `RevokedTreesDoNotSpend` | `NoLiveAgentUnderRevoked`, `RevokedSubtreesDoNotSpend`, given `Serialized` |
| `Sums` | `SumCounts` | `SumFunctionOnSet(f, S)` is the number of units in `f` over `S` |
| | `SumType`, `SumEmpty`, `SumGrows` | it is a natural number; of nothing, zero; one element more adds its value |

**Sums.** `BudgetConserved` and `TreeConserved` add the values of a function over a finite set, with `SumFunction` of the community modules: a
choice of one element after the other, by recursion over subsets. `Units(f, S)` is a set of pairs, `f[x]` of them for each `x`, and its
cardinality needs no recursion. `UnitsIterate` shows that it satisfies the equation of the recursion, and `IterationIsUnique` that only one
function does: of two that differ on some subset there is a smallest such subset (sets by cardinality are well founded), and on it the equation makes them
agree. This is what stands in for the induction over sets that the prover cannot do, and the only place where it is needed.

**Ledger.** The argument is layered; each layer is inductive given those below it.

1. `Phases` relates where a process is to its invocation's status and to the
   vendor: before the barrier nothing was sent, a running attempt's status is one
   its own step or a recovery can have produced. `DispatchBehindBarrier` does not carry
   itself: that a process about to send is not at "reserved" has to be known one step earlier.
2. `RowsAgree` is inductive on top of it: each terminal transition tests the
   reservation and the invocation, so it fires once.
3. `MoneySteps` then says that every step of the system is one of four as far as
   money and keys go - it holds, spends, gives back or keeps. It is proved once, over all
   the actions, and the rest reason about four cases instead of twenty.
4. `Exclusive` (one charge per key, and claims and attempts in one-to-one relation) needs both halves: a
   free claim shows nobody else holds the key, and one holder at a time shows that
   clearing a claim leaves no other attempt unprotected.
5. `Effects`, `NoncesRecorded`, the backing of answers and `Answered` (what a refused call has in the tables) add the vendor,
   the nonces and the answers. `CallsCounted` uses the library's facts on cardinality, and
   `BudgetConserved` those of `Sums`: of the four cases one adds a charge to the sum, one takes it away, two keep it.
6. `Replayable`: behind an answer "ok" stands the call's own charge, and with a key a completed claim that carries its result; every transition of an attempt
   asks first for a held reservation, and `Exclusive` says that no other attempt shares the key, so the claim is never written again.
   A retry therefore finds it, at its check or when its claim is lost.
7. The refinement follows from `MoneySteps` and `Exclusive`: `Alone` is what an unclaimed slot says.

**RowLocks.** `LockSteps` reduces every step to one of nine shapes. `Holding` says what a transaction has locked
and written by the statement it is at, and that the committed status underneath is still the one it found there; `Owned`, that every locked row is one
its transaction has written. That nobody else changes a locked row is two-phase locking, here a consequence and not a premise. `NothingPassed` is the crux: `reconcile_commit` passes over a
reservation that is committed already, which would be a commit of half an attempt - and cannot happen,
because having locked an `ambiguous` or `executed_fail` invocation excludes it. Then `CommitSteps` shows that a commit is one spend, one giving
back, or nothing, and the rest (`VerdictsAgree`, `Counted`, the refinement) argues about those.

Deadlocks. `Turns` is the table of who locks what as which statement. A waiting transaction wants the row of its turn (`WaitsAtATurn`), and whoever
holds that row is past its own turn for it (`HoldersPassed`). Whoever holds the mandate and waits is a release at its last statement, the
invocation; whoever holds an invocation waits for its reservation or the mandate; so following the waits from anybody in a circle ends at an attempt where a worker or recovery that has the reservation
and a reconciliation that has the invocation want each other's row (`CirclesAreCouples`).

**Outbox.** `Shape` joins the types to three facts that carry each other: what a session holds is less than `MaxAttempts`
because the row was open when it was read (`Holding`), a late write therefore leaves an attempt, and so
no open row is without one. `Counted` ties what Stripe has counted to the keys it has accepted, and these to who has an answer of "ok".

**Accounts.** `Apart` (two webhooks never have inserted the same event, nor one that is recorded) gives `StatusFollowsEvents`. For
the order, `InOrder` says an event in flight about a customer in order has all earlier ones recorded, so that
two webhooks about such a customer never both have their event inserted (`Sequential`); so what a webhook has loaded is what it will
overwrite, and `Heeded` - every account in order is up to date - is inductive. `Bound` carries the customer from the check to
the row, and the fees are the cardinality of the queued calls.

**Billing.** Each step of the composition is a step of both parts or a stutter of one, so the theorems of the parts
hold of it; they are reused through INSTANCE of their proof modules. `Attached` carries the customer from
the queued row to Stripe. For the refinement each action of Billing is shown to be one of Metering's or a stutter, given the invariants of both parts
and `HeldRows` (what an operator has read is in the table): claims, posts without effect, webhooks and the clock are stutters; a
POST is a `Count` only if Stripe has not seen its key; and that the books say "sent" only after a `Count` is `Counted` of the outbox.

**Access.** `KeySteps` reduces the steps to issuing, rotating and keeping; `Pedigree` gives every issued key its
issuer. An agent and its parent have one principal (`SameTenant`), and a set that is
closed under children holds the least one, so a revocation stays in its tenant. `Lone`: with one writer
at a time nobody is about to create a principal for an account that has one.

**Delegation.** A lineage is a least closed set, and no agent becomes one's ancestor later (`LineageKept`).
`Covered` extends attenuation to requests that have read the parent and not yet written the child. `Ledgered` keeps the issued
mandates finite and the books of an unissued one empty; with it a spend or a refund moves money between two columns of one mandate (`SpendingBalances`), and
issuing moves it from the parent's remainder to the sum over its children (`IssuingBalances`), which is where a second child of the same parent, issued at the same
time, could have gone missing. `Orderly`:
with one writer at a time what a creation has read of its parent still holds when it writes, and what a call or an issue has read of its agent
(`Entitled`).

Only model-checked: the liveness properties (`CallsAreAnswered`, `UncertaintyEnds`, `RowsSettle`, `EventsAreRecorded`, `WaitsEnd`), which are beyond
this prover; every other property of a passing run is proved. How the Check and Reserve steps on Postgres are split, and that the reads of a
check are one step, is assumed and not derived.

## Not modelled

* Signatures, hashes and canonical JSON: assumed unforgeable and faithful.
* Admission control: the window of `abuse.py` is filtered and appended to by threads without a lock, so its interleavings are
  those of CPython's thread switches, which the source does not determine.
* URL and argument checks, read-only endpoints and their tenancy filters; formatting, metrics, the dashboard, SDK, demo,
  proxy and migrations, which keep no state the rest depends on.
* `ledger.commit/release`, `flush_row` and `report_after_commit`, which nothing that runs calls.
* Providers, beyond acting or not, answering or not.
* In Delegation, mandate nonces and call caps of children; in RowLocks, the rows a transaction writes besides the three it locks in different orders.

## Plan

1. Mandate nonces and `max_calls` in Delegation, with a second principal.
2. Composition of Ledger with Outbox and Accounts, so that a committed spend is metered at most once as one property.
3. Larger instances of Delegation (three mandates with three agents on Postgres) and of Accounts (three events).
