-------------------------- MODULE OutboxProperties --------------------------
(* What the billing outbox must guarantee.                                 *)
EXTENDS Outbox

(* Every column and every local of a worker has a value the code gives it. *)
TypeOK ==
  /\ configured \subseteq Workers
  /\ status \in [Rows -> RowStatus]
  /\ attempts \in [Rows -> 0 .. MaxAttempts]
  /\ waiting \in [Rows -> BOOLEAN]
  /\ lapsed \in [Rows -> BOOLEAN]
  /\ phase \in [Workers -> {"idle", "ready", "answered", "read"}]
  /\ jobs \in [Workers -> SUBSET Rows]
  /\ job \in [Workers -> Rows \cup {None}]
  /\ result \in [Workers -> {"none", "ok", "error", "noop"}]
  /\ cached \in [Workers -> [Rows -> Nat \cup {None}]]
  /\ held \in [Operators -> SUBSET Rows]
  /\ metered \in [Rows -> Nat]
  /\ failures \in [Rows -> 0 .. MaxAttempts + 1]

(* A receipt is metered at most once, whatever workers crash after the     *)
(* POST, answer late, reclaim from each other or are handed a requeued row. *)
MeteredOnce == \A r \in Rows : metered[r] <= 1

(* A row that says "sent" has been metered: neither a worker without a key *)
(* nor the late answer to somebody else's POST can write it.               *)
SentWasMetered == \A r \in Rows : status[r] = "sent" => metered[r] = 1

(* No row is stranded: one that is not settled has attempts left, so that  *)
(* a worker can still claim it (requeue_dead only takes dead rows).        *)
OpenRowsHaveAttempts ==
  \A r \in Rows : status[r] \in {"pending", "failed", "sending"} => attempts[r] < MaxAttempts

(* A worker never takes a row out of sent, noop or dead: only an operator  *)
(* who has read the row as dead does.                                      *)
SettledStays ==
  [][\A r \in Rows : status[r] \in Settled /\ status'[r] # status[r]
       => \E o \in Operators : r \in held[o]]_vars

(* README.md: "After 8 attempts the row is `dead`".  Violated when a lease *)
(* lapses under a live worker: its late failure overwrites the attempts    *)
(* another worker has counted since.                                       *)
DeadAfterMaxAttempts ==
  \A r \in Rows : failures[r] >= MaxAttempts => status[r] = "dead"

=============================================================================
