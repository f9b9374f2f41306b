------------------------------- MODULE Outbox -------------------------------
(***************************************************************************)
(* The billing outbox: crossing/billing.py from enqueue() to               *)
(* requeue_dead(), and the worker loop of crossing/worker.py.              *)
(*                                                                         *)
(* A row is named by its receipt (uq_outbox_receipt_id).  The ledger       *)
(* inserts it in the transaction that commits the spend; workers claim a   *)
(* batch, COMMIT, meter each row at Stripe without any transaction, and    *)
(* write the outcome of each with a compare-and-set.                       *)
(*                                                                         *)
(* Sessions do not expire on commit (db.py), so a worker writes the        *)
(* outcome of the first row of a batch from the attempts it saw when it    *)
(* claimed; every compare-and-set, won or lost, expires the session, so    *)
(* the later rows are read again.                                          *)
(***************************************************************************)
EXTENDS Integers, FiniteSets

CONSTANTS
  Rows,         \* receipts, each with at most one outbox row
  Workers,      \* processes running python -m crossing.worker
  Operators,    \* callers of requeue_dead
  None,
  MaxAttempts,  \* MAX_ATTEMPTS
  Limit,        \* the size of a batch
  Deployments,  \* sets of workers that may be given a STRIPE_SECRET_KEY
  Serialized    \* TRUE: SQLite, one writing transaction at a time

ASSUME OutboxAssumption ==
  /\ None \notin Rows \cup Nat
  /\ MaxAttempts \in Nat \ {0}
  /\ Limit \in Nat \ {0}
  /\ Deployments \subseteq SUBSET Workers
  /\ Serialized \in BOOLEAN

VARIABLES
  configured,  \* the workers that have a STRIPE_SECRET_KEY
  (* table billing_outbox *)
  status, attempts,
  waiting,     \* next_attempt_at is still to come
  lapsed,      \* claimed_at is older than the lease
  (* a drain_outbox() *)
  phase,       \* "idle", "ready", "answered", "read"
  jobs,        \* the claimed rows not yet dealt with
  job,         \* the row that was posted
  result,      \* what post_stripe made of it
  cached,      \* attempts of the rows in the session, None once expired
  (* a requeue_dead() *)
  held,        \* the dead rows it has read and not yet written
  (* Stripe *)
  accepted,    \* the Idempotency-Keys it has seen
  metered,     \* how often it has counted a receipt
  (* history *)
  failures     \* failed outcomes recorded since the row was last made pending

table  == <<status, attempts, waiting, lapsed>>
drain  == <<phase, jobs, job, result, cached>>
stripe == <<accepted, metered>>
vars   == <<configured, table, drain, held, stripe, failures>>

RowStatus == {"absent", "pending", "sending", "sent", "failed", "noop", "dead"}

Settled == {"sent", "noop", "dead"}

Init ==
  /\ configured \in Deployments
  /\ status = [r \in Rows |-> "absent"]
  /\ attempts = [r \in Rows |-> 0]
  /\ waiting = [r \in Rows |-> FALSE]
  /\ lapsed = [r \in Rows |-> FALSE]
  /\ phase = [w \in Workers |-> "idle"]
  /\ jobs = [w \in Workers |-> {}]
  /\ job = [w \in Workers |-> None]
  /\ result = [w \in Workers |-> "none"]
  /\ cached = [w \in Workers |-> [r \in Rows |-> None]]
  /\ held = [o \in Operators |-> {}]
  /\ accepted = {}
  /\ metered = [r \in Rows |-> 0]
  /\ failures = [r \in Rows |-> 0]

-----------------------------------------------------------------------------
Expired == [r \in Rows |-> None]

(* Nobody is inside a transaction that has read and not yet written.       *)
LockFree == Serialized => /\ \A w \in Workers : phase[w] # "read"
                          /\ \A o \in Operators : held[o] = {}

(* A row is inserted with the commit of its receipt; enqueue() answers     *)
(* with the row that is there when there is one.                           *)
Enqueue(r) ==
  /\ LockFree
  /\ status[r] = "absent"
  /\ status' = [status EXCEPT ![r] = "pending"]
  /\ UNCHANGED <<configured, attempts, waiting, lapsed, drain, held, stripe, failures>>

Retryable(r) ==
  status[r] \in {"pending", "failed"} /\ ~waiting[r] /\ attempts[r] < MaxAttempts

(* Variant: nobody reclaims. *)
ClaimableNever(r) == Retryable(r)

Claimable(r) == Retryable(r) \/ (status[r] = "sending" /\ lapsed[r])

(* The rows selected may be more than the rows won: concurrent claims      *)
(* share them out, one conditional UPDATE per row.                         *)
Claim(w, batch) ==
  /\ phase[w] = "idle" /\ LockFree
  /\ batch # {} /\ Cardinality(batch) <= Limit
  /\ \A r \in batch : Claimable(r)
  /\ status' = [r \in Rows |-> IF r \in batch THEN "sending" ELSE status[r]]
  /\ lapsed' = [r \in Rows |-> r \notin batch /\ lapsed[r]]
  /\ phase' = [phase EXCEPT ![w] = "ready"]
  /\ jobs' = [jobs EXCEPT ![w] = batch]
  /\ cached' = [cached EXCEPT ![w] = [r \in Rows |-> IF r \in batch THEN attempts[r] ELSE None]]
  /\ UNCHANGED <<configured, attempts, waiting, job, result, held, stripe, failures>>

-----------------------------------------------------------------------------
(* post_stripe: no transaction is open.                                    *)

(* Variant: a key of its own for every attempt. *)
IdempotencyKeyPerAttempt(r) == <<r, attempts[r]>>

IdempotencyKey(r) == r

Outcome(w, r, what) ==
  /\ phase[w] = "ready" /\ r \in jobs[w]
  /\ phase' = [phase EXCEPT ![w] = "answered"]
  /\ job' = [job EXCEPT ![w] = r]
  /\ result' = [result EXCEPT ![w] = what]

(* Stripe takes the event; the answer may get lost (a timeout).            *)
PostAccepted(w, r) ==
  /\ w \in configured
  /\ \E what \in {"ok", "error"} : Outcome(w, r, what)
  /\ accepted' = accepted \cup {IdempotencyKey(r)}
  /\ metered' = IF IdempotencyKey(r) \in accepted THEN metered
                ELSE [metered EXCEPT ![r] = @ + 1]
  /\ UNCHANGED <<configured, table, jobs, cached, held, failures>>

(* No customer in the payload, an HTTP error, no connection.               *)
PostRefused(w, r) ==
  /\ w \in configured
  /\ Outcome(w, r, "error")
  /\ UNCHANGED <<configured, table, jobs, cached, held, stripe, failures>>

PostSkipped(w, r) ==
  /\ w \notin configured
  /\ Outcome(w, r, "noop")
  /\ UNCHANGED <<configured, table, jobs, cached, held, stripe, failures>>

-----------------------------------------------------------------------------
(* _terminal_values and _cas_terminal_from_sending.                        *)

(* Variant: what did not fail was sent. *)
TerminalStatusOptimistic(what, n) ==
  IF what = "error" THEN (IF n >= MaxAttempts THEN "dead" ELSE "failed") ELSE "sent"

TerminalStatus(what, n) ==
  CASE what = "noop"  -> "noop"
    [] what = "ok"    -> "sent"
    [] what = "error" -> IF n >= MaxAttempts THEN "dead" ELSE "failed"

NextJob(w) ==
  /\ jobs' = [jobs EXCEPT ![w] = @ \ {job[w]}]
  /\ phase' = [phase EXCEPT ![w] = IF jobs[w] = {job[w]} THEN "idle" ELSE "ready"]
  /\ job' = [job EXCEPT ![w] = None]
  /\ result' = [result EXCEPT ![w] = "none"]
  /\ cached' = [cached EXCEPT ![w] = Expired]

(* session.get of an expired row: a SELECT of its own.                     *)
ReadAgain(w) ==
  /\ phase[w] = "answered" /\ LockFree
  /\ cached[w][job[w]] = None
  /\ status[job[w]] = "sending"
  /\ cached' = [cached EXCEPT ![w][job[w]] = attempts[job[w]]]
  /\ phase' = [phase EXCEPT ![w] = "read"]
  /\ UNCHANGED <<configured, table, jobs, job, result, held, stripe, failures>>

ReadElsewhere(w) ==
  /\ phase[w] = "answered" /\ LockFree
  /\ cached[w][job[w]] = None
  /\ status[job[w]] # "sending"
  /\ NextJob(w)
  /\ UNCHANGED <<configured, table, held, stripe, failures>>

CanWrite(w) ==
  \/ phase[w] = "read"
  \/ phase[w] = "answered" /\ cached[w][job[w]] # None /\ LockFree

Write(w, n) ==
  LET r == job[w]
  IN  /\ status' = [status EXCEPT ![r] = TerminalStatus(result[w], n)]
      /\ attempts' = [attempts EXCEPT ![r] = n]
      /\ waiting' = [waiting EXCEPT ![r] = status'[r] = "failed"]
      /\ lapsed' = [lapsed EXCEPT ![r] = FALSE]
      /\ failures' = [failures EXCEPT ![r] =
                        IF result[w] = "error" /\ @ <= MaxAttempts THEN @ + 1 ELSE @]

(* Variant: the UPDATE does not ask for status = 'sending'. *)
WriteTerminalBlind(w) ==
  /\ CanWrite(w)
  /\ Write(w, cached[w][job[w]] + 1)
  /\ NextJob(w)
  /\ UNCHANGED <<configured, held, stripe>>

WriteTerminal(w) ==
  /\ CanWrite(w)
  /\ status[job[w]] = "sending"
  /\ Write(w, cached[w][job[w]] + 1)
  /\ NextJob(w)
  /\ UNCHANGED <<configured, held, stripe>>

LoseTerminal(w) ==
  /\ CanWrite(w)
  /\ status[job[w]] # "sending"
  /\ NextJob(w)
  /\ UNCHANGED <<configured, table, held, stripe, failures>>

-----------------------------------------------------------------------------
(* requeue_dead: a SELECT of dead rows, then UPDATEs by primary key only.  *)

RequeueReads(o, rows) ==
  /\ held[o] = {} /\ LockFree
  /\ rows # {}
  /\ \A r \in rows : status[r] = "dead"
  /\ held' = [held EXCEPT ![o] = rows]
  /\ UNCHANGED <<configured, table, drain, stripe, failures>>

(* Variant: the attempts are kept. *)
RequeueWritesKeeping(o) ==
  /\ held[o] # {}
  /\ status' = [r \in Rows |-> IF r \in held[o] THEN "pending" ELSE status[r]]
  /\ waiting' = [r \in Rows |-> r \notin held[o] /\ waiting[r]]
  /\ lapsed' = [r \in Rows |-> r \notin held[o] /\ lapsed[r]]
  /\ failures' = [r \in Rows |-> IF r \in held[o] THEN 0 ELSE failures[r]]
  /\ held' = [held EXCEPT ![o] = {}]
  /\ UNCHANGED <<configured, attempts, drain, stripe>>

RequeueWrites(o) ==
  /\ held[o] # {}
  /\ status' = [r \in Rows |-> IF r \in held[o] THEN "pending" ELSE status[r]]
  /\ attempts' = [r \in Rows |-> IF r \in held[o] THEN 0 ELSE attempts[r]]
  /\ waiting' = [r \in Rows |-> r \notin held[o] /\ waiting[r]]
  /\ lapsed' = [r \in Rows |-> r \notin held[o] /\ lapsed[r]]
  /\ failures' = [r \in Rows |-> IF r \in held[o] THEN 0 ELSE failures[r]]
  /\ held' = [held EXCEPT ![o] = {}]
  /\ UNCHANGED <<configured, drain, stripe>>

-----------------------------------------------------------------------------
(* Time and failures.                                                      *)

BackoffEnds(r) ==
  /\ waiting[r]
  /\ waiting' = [waiting EXCEPT ![r] = FALSE]
  /\ UNCHANGED <<configured, status, attempts, lapsed, drain, held, stripe, failures>>

(* A batch is up to 50 rows, a POST takes up to 8 seconds, the lease is 30 *)
(* seconds from the claim of the batch: it may lapse under a live worker.  *)
LeaseLapses(r) ==
  /\ status[r] = "sending" /\ ~lapsed[r]
  /\ lapsed' = [lapsed EXCEPT ![r] = TRUE]
  /\ UNCHANGED <<configured, status, attempts, waiting, drain, held, stripe, failures>>

(* The worker dies; another, or the same restarted, starts from the table. *)
WorkerDies(w) ==
  /\ phase[w] # "idle"
  /\ phase' = [phase EXCEPT ![w] = "idle"]
  /\ jobs' = [jobs EXCEPT ![w] = {}]
  /\ job' = [job EXCEPT ![w] = None]
  /\ result' = [result EXCEPT ![w] = "none"]
  /\ cached' = [cached EXCEPT ![w] = Expired]
  /\ UNCHANGED <<configured, table, held, stripe, failures>>

Post(w, r) == PostAccepted(w, r) \/ PostRefused(w, r) \/ PostSkipped(w, r)

Finish(w) == ReadAgain(w) \/ ReadElsewhere(w) \/ WriteTerminal(w) \/ LoseTerminal(w)

Drain(w) ==
  \/ \E batch \in SUBSET Rows : Claim(w, batch)
  \/ \E r \in Rows : Post(w, r)
  \/ Finish(w)

Requeue(o) == (\E rows \in SUBSET Rows : RequeueReads(o, rows)) \/ RequeueWrites(o)

Next ==
  \/ \E r \in Rows : Enqueue(r) \/ BackoffEnds(r) \/ LeaseLapses(r)
  \/ \E w \in Workers : Drain(w) \/ WorkerDies(w)
  \/ \E o \in Operators : Requeue(o)

Spec == Init /\ [][Next]_vars
=============================================================================
