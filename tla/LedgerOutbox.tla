---------------------------- MODULE LedgerOutbox ----------------------------
(***************************************************************************)
(* The outbox workers of kova-ledger (services/kova-ledger/src/outbox.rs): *)
(* every replica runs one, over the one table ledger_outbox.               *)
(*                                                                         *)
(* A row is named by the order of its created_at, so a row may become      *)
(* visible after one with a larger name: created_at is set by the INSERT,  *)
(* the row is seen once its transaction commits.                           *)
(*                                                                         *)
(* process_batch holds its transaction open from the SELECT ... FOR UPDATE *)
(* SKIP LOCKED to the COMMIT.  Its rows stay locked, and their marks       *)
(* unseen, until then; a transaction that a worker drops on an error, or   *)
(* that dies with it, keeps its locks until MySQL rolls it back.           *)
(*                                                                         *)
(* With Kafka, publishing a row is up to MAX_RETRIES attempts in one call  *)
(* (KovaKafkaProducer::publish).  An attempt that ends in an error may     *)
(* have put the row at the broker all the same, now or a little later, and *)
(* the next attempt is another message to it.                              *)
(***************************************************************************)
EXTENDS Integers, FiniteSets

CONSTANTS
  Rows,        \* rows that the table may come to hold, by created_at
  Workers,     \* one per replica
  BatchLimit,  \* LIMIT of the SELECT (10 in the code)
  Kafka,       \* whether the build has the feature "kafka"
  MaxRetries,  \* MAX_RETRIES: attempts at publishing a row (3 in the code)
  MaxFaults    \* bound: statements, attempts to publish and workers that fail

ASSUME RowsAssumption  == Rows \subseteq Nat /\ IsFiniteSet(Rows)
ASSUME LimitAssumption == BatchLimit \in Nat \ {0}
ASSUME KafkaAssumption == Kafka \in BOOLEAN
ASSUME RetryAssumption == MaxRetries \in Nat \ {0}
ASSUME FaultAssumption == MaxFaults \in Nat

VARIABLES
  visible,   \* committed rows of the table
  marked,    \* those with a committed published_at
  at,        \* where each worker is
  batch,     \* the rows that its open transaction has locked
  left,      \* those of them it has not dealt with yet
  attempt,   \* which attempt at publishing its current row it is at
  errors,    \* consecutive_errors, counted as far as the code tells: to 5
  delay,     \* the sleep it is in, in milliseconds
  orphaned,  \* rows locked by transactions that no worker owns any more
  sent,      \* how many of the attempts at each row the broker takes
  faults     \* faults so far

workerVars == <<at, batch, left, attempt, errors, delay>>
vars == <<visible, marked, workerVars, orphaned, sent, faults>>

Locked == orphaned \cup UNION {batch[w] : w \in Workers}

Ready == (visible \ marked) \ Locked

ReadyIgnoringLocks == visible \ marked

\* ORDER BY created_at LIMIT BatchLimit over a set of rows.
Oldest(rows) ==
  {r \in rows : Cardinality({q \in rows : q < r}) < BatchLimit}

\* The row the loop over the batch is at.
IsCurrent(w, r) == r \in left[w] /\ \A q \in left[w] : r <= q

\* (1 << min(n, 5)) seconds, capped at MAX_BACKOFF_SECS, for n up to 5.
Backoff(n) == <<2, 4, 8, 16, 30>>[n]

IdleSleep == 100

\* Milliseconds of sleep; 0 is none.
Sleeps == {0, IdleSleep} \cup 2000..30000

Init ==
  /\ visible = {}
  /\ marked = {}
  /\ at = [w \in Workers |-> "polling"]
  /\ batch = [w \in Workers |-> {}]
  /\ left = [w \in Workers |-> {}]
  /\ attempt = [w \in Workers |-> 1]
  /\ errors = [w \in Workers |-> 0]
  /\ delay = [w \in Workers |-> 0]
  /\ orphaned = {}
  /\ sent = [r \in Rows |-> 0]
  /\ faults = 0

Goto(w, from, to) == /\ at[w] = from
                     /\ at' = [at EXCEPT ![w] = to]

\* A posting commits its row (LedgerPosting).
Appear(r) ==
  /\ r \notin visible
  /\ visible' = visible \cup {r}
  /\ UNCHANGED <<marked, workerVars, orphaned, sent, faults>>

PollUnlocked(w) ==
  /\ Goto(w, "polling", "publishing")
  /\ ReadyIgnoringLocks # {}
  /\ batch' = [batch EXCEPT ![w] = Oldest(ReadyIgnoringLocks)]
  /\ left' = [left EXCEPT ![w] = Oldest(ReadyIgnoringLocks)]
  /\ UNCHANGED <<visible, marked, attempt, errors, delay, orphaned, sent, faults>>

\* BEGIN and the SELECT.
Poll(w) ==
  /\ Goto(w, "polling", "publishing")
  /\ Ready # {}
  /\ batch' = [batch EXCEPT ![w] = Oldest(Ready)]
  /\ left' = [left EXCEPT ![w] = Oldest(Ready)]
  /\ UNCHANGED <<visible, marked, attempt, errors, delay, orphaned, sent, faults>>

\* Ok(0): nothing to do, sleep.
PollEmpty(w) ==
  /\ Goto(w, "polling", "sleeping")
  /\ Ready = {}
  /\ errors' = [errors EXCEPT ![w] = 0]
  /\ delay' = [delay EXCEPT ![w] = IdleSleep]
  /\ UNCHANGED <<visible, marked, batch, left, attempt, orphaned, sent, faults>>

\* KafkaPublisher's attempt puts the row at the broker; NoOpPublisher has none.
HandOver(w) ==
  IF Kafka
  THEN \E r \in left[w] : /\ IsCurrent(w, r)
                          /\ sent' = [sent EXCEPT ![r] = @ + 1]
  ELSE UNCHANGED sent

\* The attempt, the first or a later one, is answered: the row is published.
Publish(w) ==
  /\ Goto(w, "publishing", "marking")
  /\ HandOver(w)
  /\ attempt' = [attempt EXCEPT ![w] = 1]
  /\ UNCHANGED <<visible, marked, batch, left, errors, delay, orphaned, faults>>

\* UPDATE ... SET published_at, seen by nobody yet; then the next row, if any.
Mark(w) ==
  /\ at[w] = "marking"
  /\ \E r \in left[w] :
       /\ IsCurrent(w, r)
       /\ left' = [left EXCEPT ![w] = @ \ {r}]
       /\ at' = [at EXCEPT ![w] = IF left[w] = {r} THEN "committing"
                                                 ELSE "publishing"]
  /\ UNCHANGED <<visible, marked, batch, attempt, errors, delay, orphaned, sent,
                 faults>>

\* COMMIT: the marks of the whole batch, and Ok(n): poll again at once.
Commit(w) ==
  /\ Goto(w, "committing", "polling")
  /\ marked' = marked \cup batch[w]
  /\ batch' = [batch EXCEPT ![w] = {}]
  /\ errors' = [errors EXCEPT ![w] = 0]
  /\ UNCHANGED <<visible, left, attempt, delay, orphaned, sent, faults>>

\* The sleep ends.
Wake(w) ==
  /\ Goto(w, "sleeping", "polling")
  /\ delay' = [delay EXCEPT ![w] = 0]
  /\ UNCHANGED <<visible, marked, batch, left, attempt, errors, orphaned, sent,
                 faults>>

BackOffHoldingLocks(w) ==
  LET n == IF errors[w] < 5 THEN errors[w] + 1 ELSE 5
  IN  /\ at' = [at EXCEPT ![w] = "sleeping"]
      /\ errors' = [errors EXCEPT ![w] = n]
      /\ delay' = [delay EXCEPT ![w] = 1000 * Backoff(n)]
      /\ left' = [left EXCEPT ![w] = {}]
      /\ attempt' = [attempt EXCEPT ![w] = 1]
      /\ UNCHANGED batch

\* Err: back off.
BackOff(w) ==
  LET n == IF errors[w] < 5 THEN errors[w] + 1 ELSE 5
  IN  /\ at' = [at EXCEPT ![w] = "sleeping"]
      /\ errors' = [errors EXCEPT ![w] = n]
      /\ delay' = [delay EXCEPT ![w] = 1000 * Backoff(n)]
      /\ batch' = [batch EXCEPT ![w] = {}]
      /\ left' = [left EXCEPT ![w] = {}]
      /\ attempt' = [attempt EXCEPT ![w] = 1]

Fault == /\ faults < MaxFaults
         /\ faults' = faults + 1

FailKeepingMarks(w) ==
  /\ at[w] \in {"polling", "marking", "committing"}
  /\ Fault
  /\ marked' = marked \cup batch[w]
  /\ BackOff(w)
  /\ UNCHANGED <<visible, orphaned, sent>>

\* A statement fails: the transaction is dropped, and with it the marks of all the
\* rows of the batch.
Fail(w) ==
  /\ at[w] \in {"polling", "marking", "committing"}
  /\ Fault
  /\ orphaned' = orphaned \cup batch[w]
  /\ BackOff(w)
  /\ UNCHANGED <<visible, marked, sent>>

\* An attempt that is not answered, or with an error: the broker has the row of it
\* or has not.
Unacknowledged(w) == HandOver(w) \/ UNCHANGED sent

\* The error is transient (MessageTimedOut, RequestTimedOut, ...) and attempts are
\* left: a pause, in which the transaction stays open, and the next one.
Retry(w) ==
  /\ Kafka
  /\ at[w] = "publishing"
  /\ attempt[w] < MaxRetries
  /\ Fault
  /\ Unacknowledged(w)
  /\ attempt' = [attempt EXCEPT ![w] = @ + 1]
  /\ UNCHANGED <<visible, marked, at, batch, left, errors, delay, orphaned>>

\* The error is another one, or that of the last attempt (RetriesExhausted): the
\* transaction is dropped.
PublishFails(w) ==
  /\ Kafka
  /\ at[w] = "publishing"
  /\ Fault
  /\ Unacknowledged(w)
  /\ orphaned' = orphaned \cup batch[w]
  /\ BackOff(w)
  /\ UNCHANGED <<visible, marked>>

\* MySQL commits, but its reply does not arrive.
CommitUnacknowledged(w) ==
  /\ at[w] = "committing"
  /\ Fault
  /\ marked' = marked \cup batch[w]
  /\ BackOff(w)
  /\ UNCHANGED <<visible, orphaned, sent>>

\* The replica stops, perhaps in the middle of an attempt, and is started again.
Crash(w) ==
  /\ Fault
  /\ IF at[w] = "publishing" THEN Unacknowledged(w) ELSE UNCHANGED sent
  /\ at' = [at EXCEPT ![w] = "polling"]
  /\ orphaned' = orphaned \cup batch[w]
  /\ batch' = [batch EXCEPT ![w] = {}]
  /\ left' = [left EXCEPT ![w] = {}]
  /\ attempt' = [attempt EXCEPT ![w] = 1]
  /\ errors' = [errors EXCEPT ![w] = 0]
  /\ delay' = [delay EXCEPT ![w] = 0]
  /\ UNCHANGED <<visible, marked>>

\* MySQL rolls the ownerless transactions back.
Release ==
  /\ orphaned # {}
  /\ orphaned' = {}
  /\ UNCHANGED <<visible, marked, workerVars, sent, faults>>

Work(w) == Poll(w) \/ PollEmpty(w) \/ Publish(w) \/ Mark(w) \/ Commit(w) \/ Wake(w)

WorkersNext ==
  \/ \E w \in Workers : \/ Work(w)
                        \/ Fail(w) \/ Retry(w) \/ PublishFails(w)
                        \/ CommitUnacknowledged(w) \/ Crash(w)
  \/ Release

Next == WorkersNext \/ \E r \in Rows : Appear(r)

Spec == Init /\ [][Next]_vars

(***************************************************************************)
(* The worker is a loop that the runtime polls, and MySQL rolls back a     *)
(* transaction whose connection is gone.  With MaxFaults faults in all,    *)
(* from some time on nothing fails: that is when delivery is promised.     *)
(***************************************************************************)
Fairness == /\ \A w \in Workers : WF_vars(Work(w))
            /\ WF_vars(Release)

FairSpec == Spec /\ Fairness

-----------------------------------------------------------------------------
(* Properties. *)

\* The variables have their types: a sleep is the idle one, or one of 2 to 30
\* seconds.
TypeOK ==
  /\ visible \subseteq Rows
  /\ marked \subseteq Rows
  /\ at \in [Workers -> {"polling", "publishing", "marking", "committing",
                         "sleeping"}]
  /\ batch \in [Workers -> SUBSET Rows]
  /\ left \in [Workers -> SUBSET Rows]
  /\ attempt \in [Workers -> 1..MaxRetries]
  /\ errors \in [Workers -> 0..5]
  /\ delay \in [Workers -> Sleeps]
  /\ orphaned \subseteq Rows
  /\ sent \in [Rows -> Nat]
  /\ faults \in 0..MaxFaults

\* "guarantees at-least-once Kafka delivery" (outbox.rs:3-6): published_at is
\* only ever seen on a committed row that the broker has taken, whatever part
\* of the batch failed.
MarkedWasSent == \A r \in marked : r \in visible /\ sent[r] >= 1

\* FOR UPDATE SKIP LOCKED: a row is in the hands of one transaction at a time,
\* those that no worker owns any more included.
NoSharedRow ==
  /\ \A v, w \in Workers : v # w => batch[v] \cap batch[w] = {}
  /\ \A w \in Workers : batch[w] \cap (orphaned \cup marked) = {}

\* Replicas do not duplicate each other's work ("without duplicating work",
\* outbox.rs:8-9), and every duplicate that remains has a cause of its own: beyond the
\* first, a row is at the broker no more often than there were faults, that is,
\* attempts without an acknowledgement, lost transactions and replies, and crashes.
ResendNeedsFault == \A r \in Rows : sent[r] <= 1 + faults

\* Once its mark is committed, a row is never sent again and never unmarked.
MarkIsFinal ==
  [][\A r \in marked : r \in marked' /\ sent'[r] = sent[r]]_vars

\* Every committed row is published and marked, once things stop failing.
Delivered == \A r \in Rows : r \in visible ~> r \in marked
=============================================================================
