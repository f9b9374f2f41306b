---------------------------- MODULE OutboxProofs ----------------------------
(***************************************************************************)
(* Proofs, for every number of rows, workers, operators and attempts and   *)
(* whichever workers have a key, of what OutboxProperties states and TLC   *)
(* checks on small instances.                                              *)
(***************************************************************************)
EXTENDS OutboxProperties, TLAPS

-----------------------------------------------------------------------------
(* Workers.  One that has an answer knows which row it is about, and one   *)
(* that has read the row again holds its attempts.  What a session holds   *)
(* was read when the row was open: it leaves an attempt to be made.        *)

Holding ==
  \A w \in Workers :
    /\ phase[w] \in {"answered", "read"} => job[w] \in Rows /\ result[w] # "none"
    /\ phase[w] = "read" => cached[w][job[w]] # None
    /\ \A r \in Rows : cached[w][r] # None => cached[w][r] < MaxAttempts

NewRows == \A r \in Rows : status[r] = "absent" => attempts[r] = 0

Shape == TypeOK /\ Holding /\ NewRows /\ OpenRowsHaveAttempts

LEMMA ShapeInit == Init => Shape
BY OutboxAssumption DEF Init, Shape, TypeOK, Holding, NewRows, OpenRowsHaveAttempts, RowStatus, Expired

(* A worker lets go of a row.                                              *)
LEMMA NextJobShape ==
  ASSUME Shape, NEW w \in Workers, NextJob(w)
  PROVE  /\ phase' \in [Workers -> {"idle", "ready", "answered", "read"}]
         /\ jobs' \in [Workers -> SUBSET Rows]
         /\ job' \in [Workers -> Rows \cup {None}]
         /\ result' \in [Workers -> {"none", "ok", "error", "noop"}]
         /\ cached' \in [Workers -> [Rows -> Nat \cup {None}]]
         /\ Holding'
<1> USE DEF Shape, TypeOK
<1>1. Expired \in [Rows -> Nat \cup {None}] /\ \A r \in Rows : Expired[r] = None
  BY DEF Expired
<1>2. /\ jobs' \in [Workers -> SUBSET Rows]
      /\ phase' \in [Workers -> {"idle", "ready", "answered", "read"}]
      /\ job' \in [Workers -> Rows \cup {None}]
      /\ result' \in [Workers -> {"none", "ok", "error", "noop"}]
      /\ cached' \in [Workers -> [Rows -> Nat \cup {None}]]
  BY <1>1 DEF NextJob
<1>3. Holding'
  <2> SUFFICES ASSUME NEW v \in Workers
               PROVE  /\ phase'[v] \in {"answered", "read"} => job'[v] \in Rows /\ result'[v] # "none"
                      /\ phase'[v] = "read" => cached'[v][job'[v]] # None
                      /\ \A r \in Rows : cached'[v][r] # None => cached'[v][r] < MaxAttempts
    BY DEF Holding
  <2>1. CASE v = w
    BY <1>1, <2>1 DEF NextJob
  <2>2. CASE v # w
    BY <2>2 DEF NextJob, Holding
  <2>3. QED
    BY <2>1, <2>2
<1>4. QED
  BY <1>2, <1>3

(* What WriteTerminal puts in the row.                                     *)
LEMMA WriteFacts ==
  ASSUME Shape, NEW w \in Workers, WriteTerminal(w)
  PROVE  /\ job[w] \in Rows
         /\ cached[w][job[w]] + 1 \in 1 .. MaxAttempts
         /\ result[w] \in {"ok", "error", "noop"}
         /\ status[job[w]] = "sending"
         /\ status' = [status EXCEPT ![job[w]] = TerminalStatus(result[w], cached[w][job[w]] + 1)]
         /\ attempts' = [attempts EXCEPT ![job[w]] = cached[w][job[w]] + 1]
         /\ TerminalStatus(result[w], cached[w][job[w]] + 1) \in {"sent", "noop", "dead", "failed"}
         /\ TerminalStatus(result[w], cached[w][job[w]] + 1) = "failed"
              => cached[w][job[w]] + 1 < MaxAttempts
<1>1. phase[w] \in {"answered", "read"} /\ cached[w][job[w]] # None
  BY DEF WriteTerminal, CanWrite, Shape, Holding
<1>2. job[w] \in Rows /\ result[w] \in {"ok", "error", "noop"}
  BY <1>1 DEF Shape, Holding, TypeOK
<1>3. cached[w][job[w]] \in Nat /\ cached[w][job[w]] < MaxAttempts
  BY <1>1, <1>2 DEF Shape, Holding, TypeOK
<1>4. cached[w][job[w]] + 1 \in 1 .. MaxAttempts
  BY <1>3, OutboxAssumption
<1> DEFINE n == cached[w][job[w]] + 1
<1>5. n \in 1 .. MaxAttempts
  BY <1>4
<1> HIDE DEF n
<1>6. /\ TerminalStatus(result[w], n) \in {"sent", "noop", "dead", "failed"}
      /\ TerminalStatus(result[w], n) = "failed" => n < MaxAttempts
  BY <1>2, <1>5, OutboxAssumption DEF TerminalStatus
<1>7. QED
  BY <1>2, <1>4, <1>6 DEF n, WriteTerminal, Write

LEMMA ShapeStep == Shape /\ [Next]_vars => Shape'
<1> SUFFICES ASSUME Shape, [Next]_vars PROVE Shape'
  OBVIOUS
<1> USE OutboxAssumption DEF table, drain, stripe
<1>1. ASSUME NEW r \in Rows, Enqueue(r) PROVE Shape'
  BY <1>1 DEF Enqueue, Shape, TypeOK, Holding, NewRows, OpenRowsHaveAttempts, RowStatus
<1>2. ASSUME NEW r \in Rows, BackoffEnds(r) \/ LeaseLapses(r) PROVE Shape'
  BY <1>2 DEF BackoffEnds, LeaseLapses, Shape, TypeOK, Holding, NewRows, OpenRowsHaveAttempts
<1>3. ASSUME NEW w \in Workers, NEW batch \in SUBSET Rows, Claim(w, batch) PROVE Shape'
  <2> DEFINE copy == [r \in Rows |-> IF r \in batch THEN attempts[r] ELSE None]
  <2>1. \A r \in batch : status[r] # "absent" /\ attempts[r] < MaxAttempts
    BY <1>3 DEF Claim, Claimable, Retryable, Shape, OpenRowsHaveAttempts
  <2>2. copy \in [Rows -> Nat \cup {None}] /\ \A r \in Rows : copy[r] # None => copy[r] < MaxAttempts
    BY <2>1 DEF Shape, TypeOK
  <2> HIDE DEF copy
  <2>3. cached' = [cached EXCEPT ![w] = copy] /\ phase' = [phase EXCEPT ![w] = "ready"]
    BY <1>3 DEF Claim, copy
  <2>4. TypeOK'
    BY <1>3, <2>2, <2>3 DEF Claim, Shape, TypeOK, RowStatus
  <2>5. Holding'
    BY <1>3, <2>2, <2>3 DEF Claim, Shape, TypeOK, Holding
  <2>6. NewRows' /\ OpenRowsHaveAttempts'
    BY <1>3, <2>1 DEF Claim, Shape, NewRows, OpenRowsHaveAttempts
  <2>7. QED
    BY <2>4, <2>5, <2>6 DEF Shape
<1>4. ASSUME NEW w \in Workers, NEW r \in Rows, Post(w, r) PROVE Shape'
  <2>1. PICK what \in {"ok", "error", "noop"} : Outcome(w, r, what)
    BY <1>4 DEF Post, PostAccepted, PostRefused, PostSkipped
  <2>2. UNCHANGED <<configured, table, jobs, cached, held, failures>>
    BY <1>4 DEF Post, PostAccepted, PostRefused, PostSkipped
  <2>3. metered' \in [Rows -> Nat]
    BY <1>4 DEF Post, PostAccepted, PostRefused, PostSkipped, Shape, TypeOK
  <2>4. TypeOK'
    BY <2>1, <2>2, <2>3 DEF Outcome, Shape, TypeOK
  <2>5. Holding'
    BY <2>1, <2>2 DEF Outcome, Shape, TypeOK, Holding
  <2>6. NewRows' /\ OpenRowsHaveAttempts'
    BY <2>2 DEF Shape, NewRows, OpenRowsHaveAttempts
  <2>7. QED
    BY <2>4, <2>5, <2>6 DEF Shape
<1>5. ASSUME NEW w \in Workers, ReadAgain(w) PROVE Shape'
  <2>1. /\ phase[w] = "answered" /\ job[w] \in Rows /\ status[job[w]] = "sending"
        /\ attempts[job[w]] \in Nat /\ attempts[job[w]] < MaxAttempts
    BY <1>5 DEF ReadAgain, Shape, TypeOK, Holding, OpenRowsHaveAttempts
  <2>2. cached' = [cached EXCEPT ![w] = [cached[w] EXCEPT ![job[w]] = attempts[job[w]]]]
    BY <1>5 DEF ReadAgain
  <2>3. TypeOK'
    BY <1>5, <2>1, <2>2 DEF ReadAgain, Shape, TypeOK
  <2>4. Holding'
    BY <1>5, <2>1, <2>2 DEF ReadAgain, Shape, TypeOK, Holding
  <2>5. NewRows' /\ OpenRowsHaveAttempts'
    BY <1>5 DEF ReadAgain, Shape, NewRows, OpenRowsHaveAttempts
  <2>6. QED
    BY <2>3, <2>4, <2>5 DEF Shape
<1>6. ASSUME NEW w \in Workers, ReadElsewhere(w) \/ LoseTerminal(w) PROVE Shape'
  <2>1. NextJob(w) /\ UNCHANGED <<configured, table, held, stripe, failures>>
    BY <1>6 DEF ReadElsewhere, LoseTerminal
  <2>2. QED
    BY <2>1, NextJobShape DEF Shape, TypeOK, NewRows, OpenRowsHaveAttempts
<1>7. ASSUME NEW w \in Workers, WriteTerminal(w) PROVE Shape'
  <2>1. NextJob(w) /\ UNCHANGED <<configured, held, stripe>>
    BY <1>7 DEF WriteTerminal
  <2> DEFINE fails == status'[job[w]] = "failed"
  <2>2. /\ waiting' \in [Rows -> BOOLEAN] /\ lapsed' \in [Rows -> BOOLEAN]
        /\ failures' \in [Rows -> 0 .. MaxAttempts + 1]
    <3>1. waiting' = [waiting EXCEPT ![job[w]] = fails] /\ fails \in BOOLEAN
      BY <1>7 DEF WriteTerminal, Write
    <3> HIDE DEF fails
    <3>2. waiting' \in [Rows -> BOOLEAN]
      BY <3>1, Zenon DEF Shape, TypeOK
    <3>3. lapsed' \in [Rows -> BOOLEAN]
      BY <1>7 DEF WriteTerminal, Write, Shape, TypeOK
    <3>4. failures' \in [Rows -> 0 .. MaxAttempts + 1]
      <4> DEFINE f == IF result[w] = "error" /\ failures[job[w]] <= MaxAttempts
                      THEN failures[job[w]] + 1 ELSE failures[job[w]]
      <4>1. f \in 0 .. MaxAttempts + 1
        BY <1>7, WriteFacts DEF Shape, TypeOK
      <4>2. failures' = [failures EXCEPT ![job[w]] = f]
        BY <1>7 DEF WriteTerminal, Write
      <4> HIDE DEF f
      <4>3. QED
        BY <4>1, <4>2 DEF Shape, TypeOK
    <3>5. QED
      BY <3>2, <3>3, <3>4
  <2>3. status' \in [Rows -> RowStatus] /\ attempts' \in [Rows -> 0 .. MaxAttempts]
    <3>1. PICK new \in {"sent", "noop", "dead", "failed"} : status' = [status EXCEPT ![job[w]] = new]
      BY <1>7, WriteFacts
    <3>2. status' \in [Rows -> RowStatus]
      BY <3>1 DEF Shape, TypeOK, RowStatus
    <3>3. attempts' \in [Rows -> 0 .. MaxAttempts]
      BY <1>7, WriteFacts DEF Shape, TypeOK
    <3>4. QED
      BY <3>2, <3>3
  <2>4. TypeOK'
    BY <2>1, <2>2, <2>3, NextJobShape DEF Shape, TypeOK
  <2>5. NewRows' /\ OpenRowsHaveAttempts'
    BY <1>7, WriteFacts DEF Shape, TypeOK, NewRows, OpenRowsHaveAttempts
  <2>6. QED
    BY <2>1, <2>4, <2>5, NextJobShape DEF Shape
<1>8. ASSUME NEW w \in Workers, WorkerDies(w) PROVE Shape'
  <2>1. TypeOK'
    BY <1>8 DEF WorkerDies, Expired, Shape, TypeOK
  <2>2. Holding'
    BY <1>8 DEF WorkerDies, Expired, Shape, TypeOK, Holding
  <2>3. NewRows' /\ OpenRowsHaveAttempts'
    BY <1>8 DEF WorkerDies, Shape, NewRows, OpenRowsHaveAttempts
  <2>4. QED
    BY <2>1, <2>2, <2>3 DEF Shape
<1>9. ASSUME NEW o \in Operators, NEW rows \in SUBSET Rows, RequeueReads(o, rows) PROVE Shape'
  BY <1>9 DEF RequeueReads, Shape, TypeOK, Holding, NewRows, OpenRowsHaveAttempts
<1>10. ASSUME NEW o \in Operators, RequeueWrites(o) PROVE Shape'
  BY <1>10 DEF RequeueWrites, Shape, TypeOK, Holding, NewRows, OpenRowsHaveAttempts, RowStatus
<1>11. CASE UNCHANGED vars
  BY <1>11 DEF vars, Shape, TypeOK, Holding, NewRows, OpenRowsHaveAttempts
<1>12. QED
  BY <1>1, <1>2, <1>3, <1>4, <1>5, <1>6, <1>7, <1>8, <1>9, <1>10, <1>11
     DEF Next, Drain, Finish, Requeue

LEMMA ShapeAlways == Spec => []Shape
BY ShapeInit, ShapeStep, PTL DEF Spec

(* Columns and locals keep their types; no attempt is counted past         *)
(* MAX_ATTEMPTS, although it may be counted from a value read long ago.    *)
THEOREM TypeCorrect == Spec => []TypeOK
<1>1. Shape => TypeOK
  BY DEF Shape
<1>2. QED
  BY <1>1, ShapeAlways, PTL

(* No row is stranded open with its attempts used up, where neither a      *)
(* worker nor an operator could take it.                                   *)
THEOREM NoRowIsStranded == Spec => []OpenRowsHaveAttempts
<1>1. Shape => OpenRowsHaveAttempts
  BY DEF Shape
<1>2. QED
  BY <1>1, ShapeAlways, PTL

-----------------------------------------------------------------------------
(* Settled rows.                                                           *)

(* Workers never take a row out of sent, noop or dead.                     *)
THEOREM SettledRowsStay == Spec => SettledStays
<1>1. ASSUME Shape, Next, NEW r \in Rows, status[r] \in Settled, status'[r] # status[r]
      PROVE  \E o \in Operators : r \in held[o]
  <2> USE DEF Settled, table, drain, stripe
  <2>1. ASSUME NEW w \in Workers, Drain(w) PROVE FALSE
    <3>1. ~ WriteTerminal(w)
      BY <1>1, WriteFacts DEF Shape, TypeOK
    <3>2. ~ \E batch \in SUBSET Rows : Claim(w, batch)
      BY <1>1 DEF Claim, Claimable, Retryable
    <3>3. QED
      BY <1>1, <2>1, <3>1, <3>2 DEF Drain, Post, PostAccepted, PostRefused, PostSkipped, Finish,
                                    ReadAgain, ReadElsewhere, LoseTerminal
  <2>2. PICK o \in Operators : RequeueWrites(o)
    BY <1>1, <2>1 DEF Next, Enqueue, BackoffEnds, LeaseLapses, WorkerDies, Requeue, RequeueReads,
                      Shape, TypeOK
  <2>3. r \in held[o]
    BY <1>1, <2>2 DEF RequeueWrites
  <2>4. QED
    BY <2>3
<1>2. Shape /\ [Next]_vars =>
        [\A r \in Rows : status[r] \in Settled /\ status'[r] # status[r]
           => \E o \in Operators : r \in held[o]]_vars
  BY <1>1
<1>3. QED
  BY <1>2, ShapeAlways, PTL DEF Spec, SettledStays

-----------------------------------------------------------------------------
(* Stripe.  The key of a receipt is the same on every attempt, so it is    *)
(* counted when, and only when, Stripe first sees the key.                 *)

Counted ==
  /\ \A r \in Rows : metered[r] = IF r \in accepted THEN 1 ELSE 0
  /\ \A w \in Workers : result[w] = "ok" => job[w] \in accepted
  /\ \A r \in Rows : status[r] = "sent" => r \in accepted

LEMMA CountedStep == Shape /\ Counted /\ [Next]_vars => Counted'
<1> SUFFICES ASSUME Shape, Counted, [Next]_vars PROVE Counted'
  OBVIOUS
<1> USE DEF table, drain, stripe
<1>1. ASSUME NEW w \in Workers, NEW r \in Rows, PostAccepted(w, r) PROVE Counted'
  BY <1>1 DEF PostAccepted, Outcome, IdempotencyKey, Counted, Shape, TypeOK
<1>2. ASSUME NEW w \in Workers, NEW r \in Rows, PostRefused(w, r) \/ PostSkipped(w, r) PROVE Counted'
  BY <1>2 DEF PostRefused, PostSkipped, Outcome, Counted, Shape, TypeOK
<1>3. ASSUME NEW w \in Workers, WriteTerminal(w) PROVE Counted'
  <2>1. TerminalStatus(result[w], cached[w][job[w]] + 1) = "sent" => result[w] = "ok"
    BY <1>3, WriteFacts DEF TerminalStatus
  <2>2. PICK new \in RowStatus :
               status' = [status EXCEPT ![job[w]] = new] /\ (new = "sent" => result[w] = "ok")
    BY <1>3, <2>1, WriteFacts DEF RowStatus
  <2>3. \A r \in Rows : status'[r] = "sent" => r \in accepted
    BY <2>2 DEF Counted, Shape, TypeOK
  <2>4. UNCHANGED stripe /\ NextJob(w)
    BY <1>3 DEF WriteTerminal
  <2>5. \A v \in Workers : result'[v] = "ok" => job'[v] \in accepted
    BY <2>4 DEF NextJob, Counted, Shape, TypeOK
  <2>6. QED
    BY <2>3, <2>4, <2>5 DEF Counted
<1>4. ASSUME NEW w \in Workers, ReadElsewhere(w) \/ LoseTerminal(w) \/ ReadAgain(w) \/ WorkerDies(w)
      PROVE  Counted'
  BY <1>4 DEF ReadElsewhere, LoseTerminal, ReadAgain, WorkerDies, NextJob, Counted, Shape, TypeOK
<1>5. ASSUME NEW w \in Workers, NEW batch \in SUBSET Rows, Claim(w, batch) PROVE Counted'
  BY <1>5 DEF Claim, Counted
<1>6. ASSUME NEW r \in Rows, Enqueue(r) \/ BackoffEnds(r) \/ LeaseLapses(r) PROVE Counted'
  BY <1>6 DEF Enqueue, BackoffEnds, LeaseLapses, Counted, Shape, TypeOK
<1>7. ASSUME NEW o \in Operators, Requeue(o) PROVE Counted'
  BY <1>7 DEF Requeue, RequeueReads, RequeueWrites, Counted
<1>8. CASE UNCHANGED vars
  BY <1>8 DEF vars, Counted
<1>9. QED
  BY <1>1, <1>2, <1>3, <1>4, <1>5, <1>6, <1>7, <1>8 DEF Next, Drain, Post, Finish

LEMMA CountedAlways == Spec => []Counted
<1>1. Init => Counted
  BY DEF Init, Counted
<1>2. QED
  BY <1>1, CountedStep, ShapeAlways, PTL DEF Spec

(* A receipt is metered at most once.                                      *)
THEOREM ReceiptsAreMeteredOnce == Spec => []MeteredOnce
<1>1. Counted => MeteredOnce
  BY DEF Counted, MeteredOnce
<1>2. QED
  BY <1>1, CountedAlways, PTL

(* What says sent has been metered.                                        *)
THEOREM SentIsMetered == Spec => []SentWasMetered
<1>1. Counted => SentWasMetered
  BY DEF Counted, SentWasMetered
<1>2. QED
  BY <1>1, CountedAlways, PTL
=============================================================================
