------------------------- MODULE LedgerOutboxProofs -------------------------
(***************************************************************************)
(* Proofs about LedgerOutbox.  A row is in at most one of these places:    *)
(* the batch of one worker, the locks of transactions that nobody owns,    *)
(* the committed marks.  How often it was sent is bounded by the place: a  *)
(* row that nobody has sent in vain costs no fault, an attempt without an  *)
(* acknowledgement is a fault, and a row leaves a batch unmarked only by a *)
(* fault.                                                                  *)
(***************************************************************************)
EXTENDS LedgerOutbox, TLAPS

\* What each worker holds follows from where it is.
Held ==
  \A w \in Workers :
    /\ left[w] \subseteq batch[w]
    /\ batch[w] \subseteq visible
    /\ at[w] \in {"polling", "sleeping"} => batch[w] = {}
    /\ at[w] = "committing" => left[w] = {}

\* In a Kafka build, the rows a worker has dealt with have been sent, and so
\* has the row whose mark it is about to write.
DealtWithWasSent ==
  Kafka => \A w \in Workers :
    /\ \A r \in batch[w] \ left[w] : sent[r] >= 1
    /\ at[w] = "marking" => \A r \in left[w] : IsCurrent(w, r) => sent[r] >= 1

\* The open transactions of the workers account for one sending of a row, and
\* only of a row that they have sent; the faults account for the others.
SentInVain ==
  /\ \A r \in Rows \ marked :
       (\A w \in Workers : r \notin batch[w]) => sent[r] <= faults
  /\ \A w \in Workers : \A r \in left[w] :
       ~ (at[w] = "marking" /\ IsCurrent(w, r)) => sent[r] <= faults

IInv == /\ TypeOK
        /\ Held
        /\ NoSharedRow
        /\ Kafka => MarkedWasSent
        /\ DealtWithWasSent
        /\ SentInVain
        /\ ResendNeedsFault

-----------------------------------------------------------------------------
LEMMA FirstAttempt == 1 \in 1..MaxRetries
BY RetryAssumption

LEMMA InitInv == Init => IInv
<1> SUFFICES ASSUME Init PROVE IInv
  OBVIOUS
<1>1. TypeOK
  BY FaultAssumption, FirstAttempt DEF Init, TypeOK, Sleeps
<1>2. Held /\ NoSharedRow /\ MarkedWasSent
  BY DEF Init, Held, NoSharedRow, MarkedWasSent
<1>3. DealtWithWasSent /\ SentInVain /\ ResendNeedsFault
  BY DEF Init, DealtWithWasSent, SentInVain, ResendNeedsFault, IsCurrent
<1>4. QED
  BY <1>1, <1>2, <1>3 DEF IInv

LEMMA AppearInv ==
  ASSUME IInv, NEW r \in Rows, Appear(r)
  PROVE  IInv'
<1> USE DEF IInv, Appear, workerVars
<1>1. TypeOK' /\ Held'
  BY DEF TypeOK, Held
<1>2. NoSharedRow' /\ (Kafka => MarkedWasSent')
  BY DEF NoSharedRow, MarkedWasSent
<1>3. DealtWithWasSent' /\ SentInVain' /\ ResendNeedsFault'
  BY DEF DealtWithWasSent, SentInVain, ResendNeedsFault, IsCurrent
<1>4. QED
  BY <1>1, <1>2, <1>3

LEMMA PollInv ==
  ASSUME IInv, NEW w \in Workers, Poll(w)
  PROVE  IInv'
<1> DEFINE rows == Oldest(Ready)
<1>1. /\ at[w] = "polling" /\ at' = [at EXCEPT ![w] = "publishing"]
      /\ batch' = [batch EXCEPT ![w] = rows]
      /\ left' = [left EXCEPT ![w] = rows]
      /\ UNCHANGED <<visible, marked, attempt, errors, delay, orphaned, sent, faults>>
  BY DEF Poll, Goto
<1>2. rows \subseteq visible \ (marked \cup orphaned)
  BY DEF Oldest, Ready, Locked
<1>3. \A v \in Workers : rows \cap batch[v] = {}
  BY DEF Oldest, Ready, Locked
<1>4. rows \subseteq Rows
  BY <1>2 DEF IInv, TypeOK
<1> HIDE DEF rows
<1> USE DEF IInv
<1>5. TypeOK'
  BY <1>1, <1>4 DEF TypeOK
<1>6. \A v \in Workers : v # w => /\ at'[v] = at[v]
                                 /\ batch'[v] = batch[v]
                                 /\ left'[v] = left[v]
  BY <1>1 DEF TypeOK
<1>7. at'[w] = "publishing" /\ batch'[w] = rows /\ left'[w] = rows
  BY <1>1 DEF TypeOK
<1>8. Held'
  BY <1>1, <1>2, <1>6, <1>7 DEF Held
<1>9. NoSharedRow' /\ (Kafka => MarkedWasSent')
  BY <1>1, <1>2, <1>3, <1>6, <1>7 DEF NoSharedRow, MarkedWasSent
<1>10. DealtWithWasSent'
  BY <1>1, <1>6, <1>7 DEF DealtWithWasSent, IsCurrent
<1>11. \A r \in rows : sent[r] <= faults
  BY <1>2, <1>3, <1>4 DEF SentInVain
<1>12. SentInVain' /\ ResendNeedsFault'
  <2>1. ResendNeedsFault'
    BY <1>1 DEF ResendNeedsFault
  <2>2. SentInVain'
    BY <1>1, <1>6, <1>7, <1>11 DEF SentInVain, IsCurrent, Held
  <2>3. QED
    BY <2>1, <2>2
<1>13. QED
  BY <1>5, <1>8, <1>9, <1>10, <1>12

\* The steps between sleeping and polling: the worker holds nothing.
LEMMA SleepInv ==
  ASSUME IInv, NEW w \in Workers, PollEmpty(w) \/ Wake(w)
  PROVE  IInv'
<1> USE DEF IInv
<1>1. PICK v \in {"polling", "sleeping"} : at' = [at EXCEPT ![w] = v]
  BY DEF PollEmpty, Wake, Goto
<1>2. /\ at[w] \in {"polling", "sleeping"}
      /\ UNCHANGED <<visible, marked, batch, left, attempt, orphaned, sent, faults>>
  BY DEF PollEmpty, Wake, Goto
<1>3. TypeOK'
  <2>1. 0 \in Sleeps /\ IdleSleep \in Sleeps
    BY DEF Sleeps
  <2>2. errors' \in [Workers -> 0..5]
    BY DEF TypeOK, PollEmpty, Wake
  <2>3. delay' \in [Workers -> Sleeps]
    BY <2>1 DEF TypeOK, PollEmpty, Wake
  <2>4. QED
    BY <1>1, <1>2, <2>2, <2>3 DEF TypeOK
<1>4. /\ at'[w] = v /\ batch[w] = {} /\ left[w] = {}
      /\ \A u \in Workers : u # w => at'[u] = at[u]
  BY <1>1, <1>2 DEF TypeOK, Held
<1>5. Held'
  BY <1>1, <1>2, <1>4 DEF Held
<1>6. NoSharedRow' /\ (Kafka => MarkedWasSent')
  BY <1>2 DEF NoSharedRow, MarkedWasSent
<1>7. DealtWithWasSent'
  BY <1>2, <1>4 DEF DealtWithWasSent, IsCurrent
<1>8. SentInVain' /\ ResendNeedsFault'
  BY <1>2, <1>4 DEF SentInVain, ResendNeedsFault, IsCurrent
<1>9. QED
  BY <1>3, <1>5, <1>6, <1>7, <1>8

\* The publisher takes the current row: its mark comes next.
LEMMA PublishInv ==
  ASSUME IInv, NEW w \in Workers, Publish(w)
  PROVE  IInv'
<1> USE DEF IInv
<1>1. /\ at[w] = "publishing" /\ at' = [at EXCEPT ![w] = "marking"]
      /\ HandOver(w)
      /\ attempt' = [attempt EXCEPT ![w] = 1]
      /\ UNCHANGED <<visible, marked, batch, left, errors, delay, orphaned, faults>>
  BY DEF Publish, Goto
<1>2. at'[w] = "marking" /\ \A v \in Workers : v # w => at'[v] = at[v]
  BY <1>1 DEF TypeOK
<1>3. TypeOK' /\ Held' /\ NoSharedRow'
  <2>1. sent' \in [Rows -> Nat]
    BY <1>1 DEF HandOver, TypeOK
  <2>2. TypeOK'
    BY <1>1, <2>1, FirstAttempt DEF TypeOK
  <2>3. QED
    BY <1>1, <1>2, <2>2 DEF Held, NoSharedRow
<1>4. CASE Kafka
  <2>1. PICK r \in left[w] : IsCurrent(w, r) /\ sent' = [sent EXCEPT ![r] = sent[r] + 1]
    BY <1>1, <1>4 DEF HandOver
  <2>2. r \in Rows /\ r \in batch[w] /\ r \notin marked
    BY <2>1 DEF TypeOK, Held, NoSharedRow
  <2>3. sent'[r] = sent[r] + 1 /\ sent[r] \in Nat /\ \A q \in Rows : q # r => sent'[q] = sent[q]
    BY <2>1, <2>2 DEF TypeOK
  <2>4. \A q \in left[w] : IsCurrent(w, q) <=> q = r
    BY <2>1, RowsAssumption DEF IsCurrent, TypeOK
  <2>5. sent[r] <= faults
    BY <1>1, <2>1 DEF SentInVain
  <2>6. MarkedWasSent'
    BY <1>1, <1>4, <2>2, <2>3 DEF MarkedWasSent, TypeOK
  <2>7. \A q \in Rows : sent'[q] >= sent[q]
    BY <2>3 DEF TypeOK
  <2>8. DealtWithWasSent'
    BY <1>1, <1>2, <2>1, <2>3, <2>4, <2>7 DEF DealtWithWasSent, IsCurrent, TypeOK
  <2>9. SentInVain'
    <3>1. ASSUME NEW q \in Rows \ marked', \A v \in Workers : q \notin batch'[v]
          PROVE  sent'[q] <= faults'
      BY <1>1, <2>2, <2>3, <3>1 DEF SentInVain
    <3>2. ASSUME NEW v \in Workers, NEW q \in left'[v],
                 ~ (at'[v] = "marking" /\ IsCurrent(v, q)')
          PROVE  sent'[q] <= faults'
      <4>1. q # r
        BY <1>1, <1>2, <2>1, <2>2, <2>4, <3>2 DEF IsCurrent, Held, NoSharedRow
      <4>2. q \in Rows /\ q \in left[v] /\ ~ (at[v] = "marking" /\ IsCurrent(v, q))
        BY <1>1, <1>2, <3>2 DEF IsCurrent, TypeOK
      <4>3. QED
        BY <1>1, <2>3, <4>1, <4>2 DEF SentInVain
    <3>3. QED
      BY <3>1, <3>2 DEF SentInVain
  <2>10. ResendNeedsFault'
    BY <1>1, <2>3, <2>5 DEF ResendNeedsFault, TypeOK
  <2>11. QED
    BY <1>3, <1>4, <2>6, <2>8, <2>9, <2>10
<1>5. CASE ~ Kafka
  <2>1. sent' = sent
    BY <1>1, <1>5 DEF HandOver
  <2>2. \A r \in left[w] : sent[r] <= faults
    BY <1>1 DEF SentInVain
  <2>3. SentInVain' /\ ResendNeedsFault' /\ DealtWithWasSent'
    BY <1>1, <1>2, <1>5, <2>1, <2>2 DEF SentInVain, ResendNeedsFault, DealtWithWasSent, IsCurrent
  <2>4. QED
    BY <1>3, <1>5, <2>3
<1>6. QED
  BY <1>4, <1>5

\* The row that is dealt with is the one that has just been sent.
LEMMA MarkInv ==
  ASSUME IInv, NEW w \in Workers, Mark(w)
  PROVE  IInv'
<1> USE DEF IInv
<1>1. PICK r \in left[w] :
        /\ IsCurrent(w, r)
        /\ left' = [left EXCEPT ![w] = left[w] \ {r}]
        /\ at' = [at EXCEPT ![w] = IF left[w] = {r} THEN "committing" ELSE "publishing"]
  BY DEF Mark
<1>2. /\ at[w] = "marking"
      /\ UNCHANGED <<visible, marked, batch, attempt, errors, delay, orphaned, sent, faults>>
  BY DEF Mark
<1>3. PICK v \in {"committing", "publishing"} :
        /\ at' = [at EXCEPT ![w] = v]
        /\ v = "committing" => left[w] = {r}
  BY <1>1
<1>4. /\ at'[w] = v /\ left'[w] = left[w] \ {r}
      /\ \A u \in Workers : u # w => at'[u] = at[u] /\ left'[u] = left[u]
  BY <1>1, <1>3 DEF TypeOK
<1>5. \A q \in left[w] : IsCurrent(w, q) <=> q = r
  BY <1>1, RowsAssumption DEF IsCurrent, TypeOK
<1>6. TypeOK'
  BY <1>1, <1>2, <1>3 DEF TypeOK
<1>7. Held' /\ NoSharedRow' /\ (Kafka => MarkedWasSent')
  BY <1>2, <1>3, <1>4 DEF Held, NoSharedRow, MarkedWasSent
<1>8. DealtWithWasSent'
  BY <1>1, <1>2, <1>3, <1>4 DEF DealtWithWasSent, IsCurrent
<1>9. SentInVain'
  BY <1>2, <1>3, <1>4, <1>5 DEF SentInVain, IsCurrent
<1>10. ResendNeedsFault'
  BY <1>2 DEF ResendNeedsFault
<1>11. QED
  BY <1>6, <1>7, <1>8, <1>9, <1>10

\* A worker that leaves its transaction holds nothing.
LEMMA LetGo ==
  ASSUME IInv, NEW w \in Workers,
         NEW v \in {"polling", "sleeping"}, at' = [at EXCEPT ![w] = v],
         batch' = [batch EXCEPT ![w] = {}], left' = [left EXCEPT ![w] = {}],
         visible' = visible
  PROVE  /\ Held'
         /\ at' \in [Workers -> {"polling", "publishing", "marking", "committing",
                                 "sleeping"}]
         /\ batch' \in [Workers -> SUBSET Rows] /\ left' \in [Workers -> SUBSET Rows]
         /\ batch'[w] = {} /\ left'[w] = {}
         /\ \A u \in Workers : u # w => /\ at'[u] = at[u]
                                        /\ batch'[u] = batch[u]
                                        /\ left'[u] = left[u]
<1> USE DEF IInv, TypeOK
<1>1. /\ batch'[w] = {} /\ left'[w] = {} /\ at'[w] = v
      /\ \A u \in Workers : u # w => /\ at'[u] = at[u]
                                     /\ batch'[u] = batch[u]
                                     /\ left'[u] = left[u]
  OBVIOUS
<1>2. Held'
  BY <1>1 DEF Held
<1>3. QED
  BY <1>1, <1>2

\* The commit of a batch, acknowledged or not, marks rows that were all sent.
LEMMA MarksInv ==
  ASSUME IInv, NEW w \in Workers, at[w] = "committing",
         marked' = marked \cup batch[w],
         NEW v \in {"polling", "sleeping"}, at' = [at EXCEPT ![w] = v],
         batch' = [batch EXCEPT ![w] = {}], left' = [left EXCEPT ![w] = {}],
         UNCHANGED <<visible, orphaned, sent>>,
         attempt' \in [Workers -> 1..MaxRetries],
         errors' \in [Workers -> 0..5], delay' \in [Workers -> Sleeps],
         faults' \in 0..MaxFaults, faults' >= faults
  PROVE  IInv'
<1>1. /\ Held'
      /\ at' \in [Workers -> {"polling", "publishing", "marking", "committing",
                              "sleeping"}]
      /\ batch' \in [Workers -> SUBSET Rows] /\ left' \in [Workers -> SUBSET Rows]
      /\ batch'[w] = {} /\ left'[w] = {}
      /\ \A u \in Workers : u # w => /\ at'[u] = at[u]
                                     /\ batch'[u] = batch[u]
                                     /\ left'[u] = left[u]
  BY LetGo
<1> USE DEF IInv
<1>2. TypeOK'
  BY <1>1 DEF TypeOK
<1>3. NoSharedRow'
  BY <1>1 DEF NoSharedRow
<1>4. Kafka => MarkedWasSent'
  BY DEF MarkedWasSent, DealtWithWasSent, Held
<1>5. DealtWithWasSent'
  BY <1>1 DEF DealtWithWasSent, IsCurrent
<1>6. \A r \in Rows : sent'[r] = sent[r] /\ sent[r] \in Nat
  BY DEF TypeOK
<1>7. SentInVain'
  <2>1. ASSUME NEW r \in Rows \ marked', \A u \in Workers : r \notin batch'[u]
        PROVE  sent'[r] <= faults'
    <3>1. \A u \in Workers : r \notin batch[u]
      BY <1>1, <2>1
    <3>2. sent[r] <= faults
      BY <3>1, <2>1 DEF SentInVain
    <3>3. QED
      BY <1>6, <3>2 DEF TypeOK
  <2>2. ASSUME NEW u \in Workers, NEW r \in left'[u],
               ~ (at'[u] = "marking" /\ IsCurrent(u, r)')
        PROVE  sent'[r] <= faults'
    <3>1. u # w
      BY <1>1, <2>2
    <3>2. r \in left[u] /\ r \in Rows /\ ~ (at[u] = "marking" /\ IsCurrent(u, r))
      BY <1>1, <2>2, <3>1 DEF IsCurrent, TypeOK
    <3>3. sent[r] <= faults
      BY <3>2 DEF SentInVain
    <3>4. QED
      BY <1>6, <3>2, <3>3 DEF TypeOK
  <2>3. QED
    BY <2>1, <2>2 DEF SentInVain
<1>8. ResendNeedsFault'
  BY <1>6 DEF ResendNeedsFault, TypeOK
<1>9. QED
  BY <1>1, <1>2, <1>3, <1>4, <1>5, <1>7, <1>8

\* The loss of a batch: its rows may have been sent once in vain, which the
\* fault pays for.
LEMMA LossInv ==
  ASSUME IInv, NEW w \in Workers,
         orphaned' = orphaned \cup batch[w],
         NEW v \in {"polling", "sleeping"}, at' = [at EXCEPT ![w] = v],
         batch' = [batch EXCEPT ![w] = {}], left' = [left EXCEPT ![w] = {}],
         UNCHANGED <<visible, marked>>,
         attempt' \in [Workers -> 1..MaxRetries],
         errors' \in [Workers -> 0..5], delay' \in [Workers -> Sleeps],
         faults < MaxFaults, faults' = faults + 1,
         sent' \in [Rows -> Nat],
         \A r \in Rows : sent'[r] >= sent[r] /\ sent'[r] <= 1 + faults,
         \A r \in Rows : r \notin batch[w] => sent'[r] = sent[r]
  PROVE  IInv'
<1>1. /\ Held'
      /\ at' \in [Workers -> {"polling", "publishing", "marking", "committing",
                              "sleeping"}]
      /\ batch' \in [Workers -> SUBSET Rows] /\ left' \in [Workers -> SUBSET Rows]
      /\ batch'[w] = {} /\ left'[w] = {}
      /\ \A u \in Workers : u # w => /\ at'[u] = at[u]
                                     /\ batch'[u] = batch[u]
                                     /\ left'[u] = left[u]
  BY LetGo
<1> USE DEF IInv
<1>2. TypeOK'
  BY <1>1, FaultAssumption DEF TypeOK
<1>3. NoSharedRow'
  BY <1>1 DEF NoSharedRow
<1>4. Kafka => MarkedWasSent'
  BY DEF MarkedWasSent, TypeOK
<1>5. DealtWithWasSent'
  BY <1>1 DEF DealtWithWasSent, IsCurrent, TypeOK
<1>6. SentInVain'
  BY <1>1, <1>2 DEF SentInVain, TypeOK
<1>7. ResendNeedsFault'
  BY <1>2 DEF ResendNeedsFault, TypeOK
<1>8. QED
  BY <1>1, <1>2, <1>3, <1>4, <1>5, <1>6, <1>7

LEMMA BackOffTyped ==
  ASSUME TypeOK, NEW w \in Workers, BackOff(w)
  PROVE  /\ at' = [at EXCEPT ![w] = "sleeping"]
         /\ batch' = [batch EXCEPT ![w] = {}]
         /\ left' = [left EXCEPT ![w] = {}]
         /\ attempt' \in [Workers -> 1..MaxRetries]
         /\ errors' \in [Workers -> 0..5]
         /\ delay' \in [Workers -> Sleeps]
<1> DEFINE n == IF errors[w] < 5 THEN errors[w] + 1 ELSE 5
<1>1. n \in 1..5
  BY DEF TypeOK
<1>2. /\ at' = [at EXCEPT ![w] = "sleeping"]
      /\ errors' = [errors EXCEPT ![w] = n]
      /\ delay' = [delay EXCEPT ![w] = 1000 * Backoff(n)]
      /\ batch' = [batch EXCEPT ![w] = {}]
      /\ left' = [left EXCEPT ![w] = {}]
      /\ attempt' = [attempt EXCEPT ![w] = 1]
  BY DEF BackOff
<1> HIDE DEF n
<1>3. Backoff(n) \in 2..30
  BY <1>1 DEF Backoff
<1>4. 1000 * Backoff(n) \in Sleeps
  BY <1>3 DEF Sleeps
<1>5. QED
  BY <1>1, <1>2, <1>4, FirstAttempt DEF TypeOK

LEMMA CommitInv ==
  ASSUME IInv, NEW w \in Workers, Commit(w)
  PROVE  IInv'
<1>1. PICK v \in {"polling", "sleeping"} : at' = [at EXCEPT ![w] = v]
  BY DEF Commit, Goto
<1>2. /\ at[w] = "committing"
      /\ marked' = marked \cup batch[w]
      /\ batch' = [batch EXCEPT ![w] = {}]
      /\ UNCHANGED <<visible, orphaned, sent>>
  BY DEF Commit, Goto
<1>3. left' = [left EXCEPT ![w] = {}]
  BY <1>2 DEF Commit, IInv, Held, TypeOK
<1>4. /\ attempt' \in [Workers -> 1..MaxRetries]
      /\ errors' \in [Workers -> 0..5] /\ delay' \in [Workers -> Sleeps]
      /\ faults' \in 0..MaxFaults /\ faults' >= faults
  BY FaultAssumption DEF Commit, IInv, TypeOK
<1>5. QED
  BY <1>1, <1>2, <1>3, <1>4, MarksInv

LEMMA CommitUnacknowledgedInv ==
  ASSUME IInv, NEW w \in Workers, CommitUnacknowledged(w)
  PROVE  IInv'
<1>1. /\ at' = [at EXCEPT ![w] = "sleeping"]
      /\ batch' = [batch EXCEPT ![w] = {}]
      /\ left' = [left EXCEPT ![w] = {}]
      /\ attempt' \in [Workers -> 1..MaxRetries]
      /\ errors' \in [Workers -> 0..5]
      /\ delay' \in [Workers -> Sleeps]
  BY BackOffTyped DEF CommitUnacknowledged, IInv
<1>2. /\ at[w] = "committing"
      /\ marked' = marked \cup batch[w]
      /\ UNCHANGED <<visible, orphaned, sent>>
  BY DEF CommitUnacknowledged
<1>3. faults' \in 0..MaxFaults /\ faults' >= faults
  BY FaultAssumption DEF CommitUnacknowledged, Fault, IInv, TypeOK
<1>4. QED
  BY <1>1, <1>2, <1>3, MarksInv

LEMMA FailInv ==
  ASSUME IInv, NEW w \in Workers, Fail(w)
  PROVE  IInv'
<1>1. /\ at' = [at EXCEPT ![w] = "sleeping"]
      /\ batch' = [batch EXCEPT ![w] = {}]
      /\ left' = [left EXCEPT ![w] = {}]
      /\ attempt' \in [Workers -> 1..MaxRetries]
      /\ errors' \in [Workers -> 0..5]
      /\ delay' \in [Workers -> Sleeps]
  BY BackOffTyped DEF Fail, IInv
<1>2. /\ orphaned' = orphaned \cup batch[w]
      /\ UNCHANGED <<visible, marked>>
      /\ faults < MaxFaults /\ faults' = faults + 1
  BY DEF Fail, Fault
<1>3. /\ sent' \in [Rows -> Nat]
      /\ \A r \in Rows : sent'[r] >= sent[r] /\ sent'[r] <= 1 + faults
      /\ \A r \in Rows : r \notin batch[w] => sent'[r] = sent[r]
  BY DEF Fail, IInv, TypeOK, ResendNeedsFault
<1>4. QED
  BY <1>1, <1>2, <1>3, LossInv

\* What an unanswered attempt may have sent is a row that its worker holds, and that
\* only faults have sent before.
LEMMA AttemptPaid ==
  ASSUME IInv, NEW w \in Workers, at[w] = "publishing", Unacknowledged(w)
  PROVE  /\ sent' \in [Rows -> Nat]
         /\ \A q \in Rows : sent'[q] >= sent[q] /\ sent'[q] <= 1 + faults
         /\ \A q \in Rows : q \notin left[w] => sent'[q] = sent[q]
         /\ \A q \in Rows : sent[q] <= faults \/ sent'[q] = sent[q]
<1>1. CASE UNCHANGED sent
  BY <1>1 DEF IInv, TypeOK, ResendNeedsFault
<1>2. CASE Kafka /\ HandOver(w)
  <2>1. PICK r \in left[w] : sent' = [sent EXCEPT ![r] = sent[r] + 1]
    BY <1>2 DEF HandOver
  <2>2. sent[r] <= faults /\ r \in Rows
    BY <2>1 DEF IInv, SentInVain, TypeOK
  <2>3. QED
    BY <2>1, <2>2 DEF IInv, TypeOK, ResendNeedsFault
<1>3. QED
  BY <1>1, <1>2 DEF Unacknowledged, HandOver

\* The next attempt: what the last one may have sent is paid for by its fault.
LEMMA RetryInv ==
  ASSUME IInv, NEW w \in Workers, Retry(w)
  PROVE  IInv'
<1>1. /\ at[w] = "publishing" /\ Unacknowledged(w)
      /\ attempt[w] < MaxRetries /\ attempt' = [attempt EXCEPT ![w] = attempt[w] + 1]
      /\ faults < MaxFaults /\ faults' = faults + 1
      /\ UNCHANGED <<visible, marked, at, batch, left, errors, delay, orphaned>>
  BY DEF Retry, Fault
<1>2. /\ sent' \in [Rows -> Nat]
      /\ \A q \in Rows : sent'[q] >= sent[q] /\ sent'[q] <= 1 + faults
      /\ \A q \in Rows : sent[q] <= faults \/ sent'[q] = sent[q]
  BY <1>1, AttemptPaid
<1> USE DEF IInv
<1>3. /\ sent \in [Rows -> Nat] /\ faults \in Nat /\ faults' \in 0..MaxFaults
  BY <1>1, FaultAssumption DEF TypeOK
<1>4. attempt' \in [Workers -> 1..MaxRetries]
  BY <1>1, RetryAssumption DEF TypeOK
<1>5. TypeOK' /\ Held' /\ NoSharedRow'
  BY <1>1, <1>2, <1>3, <1>4 DEF TypeOK, Held, NoSharedRow
<1>6. (Kafka => MarkedWasSent') /\ DealtWithWasSent'
  BY <1>1, <1>2, <1>3 DEF MarkedWasSent, DealtWithWasSent, Held, IsCurrent, TypeOK
<1>7. \A q \in Rows : sent'[q] <= faults'
  BY <1>1, <1>2, <1>3
<1>8. SentInVain' /\ ResendNeedsFault'
  BY <1>3, <1>5, <1>7 DEF SentInVain, ResendNeedsFault, TypeOK
<1>9. QED
  BY <1>5, <1>6, <1>8

LEMMA PublishFailsInv ==
  ASSUME IInv, NEW w \in Workers, PublishFails(w)
  PROVE  IInv'
<1>1. /\ at' = [at EXCEPT ![w] = "sleeping"]
      /\ batch' = [batch EXCEPT ![w] = {}]
      /\ left' = [left EXCEPT ![w] = {}]
      /\ attempt' \in [Workers -> 1..MaxRetries]
      /\ errors' \in [Workers -> 0..5]
      /\ delay' \in [Workers -> Sleeps]
  BY BackOffTyped DEF PublishFails, IInv
<1>2. /\ orphaned' = orphaned \cup batch[w]
      /\ UNCHANGED <<visible, marked>>
      /\ faults < MaxFaults /\ faults' = faults + 1
  BY DEF PublishFails, Fault
<1>3. /\ sent' \in [Rows -> Nat]
      /\ \A q \in Rows : sent'[q] >= sent[q] /\ sent'[q] <= 1 + faults
      /\ \A q \in Rows : q \notin batch[w] => sent'[q] = sent[q]
  BY AttemptPaid DEF PublishFails, IInv, Held
<1>4. QED
  BY <1>1, <1>2, <1>3, LossInv

LEMMA CrashInv ==
  ASSUME IInv, NEW w \in Workers, Crash(w)
  PROVE  IInv'
<1>1. /\ at' = [at EXCEPT ![w] = "polling"]
      /\ batch' = [batch EXCEPT ![w] = {}]
      /\ left' = [left EXCEPT ![w] = {}]
  BY DEF Crash
<1>2. /\ attempt' \in [Workers -> 1..MaxRetries]
      /\ errors' \in [Workers -> 0..5] /\ delay' \in [Workers -> Sleeps]
  <2>1. 0 \in Sleeps
    BY DEF Sleeps
  <2>2. QED
    BY <2>1, FirstAttempt DEF Crash, IInv, TypeOK
<1>3. /\ orphaned' = orphaned \cup batch[w]
      /\ UNCHANGED <<visible, marked>>
      /\ faults < MaxFaults /\ faults' = faults + 1
  BY DEF Crash, Fault
<1>4. /\ sent' \in [Rows -> Nat]
      /\ \A r \in Rows : sent'[r] >= sent[r] /\ sent'[r] <= 1 + faults
      /\ \A r \in Rows : r \notin batch[w] => sent'[r] = sent[r]
  <2>1. CASE at[w] = "publishing"
    BY <2>1, AttemptPaid DEF Crash, IInv, Held
  <2>2. CASE at[w] # "publishing"
    BY <2>2 DEF Crash, IInv, TypeOK, ResendNeedsFault
  <2>3. QED
    BY <2>1, <2>2
<1>5. QED
  BY <1>1, <1>2, <1>3, <1>4, LossInv

LEMMA ReleaseInv == ASSUME IInv, Release PROVE IInv'
<1> USE DEF IInv, Release, workerVars
<1>1. TypeOK' /\ Held' /\ NoSharedRow' /\ (Kafka => MarkedWasSent')
  BY DEF TypeOK, Held, NoSharedRow, MarkedWasSent
<1>2. DealtWithWasSent' /\ SentInVain' /\ ResendNeedsFault'
  BY DEF DealtWithWasSent, SentInVain, ResendNeedsFault, IsCurrent
<1>3. QED
  BY <1>1, <1>2

LEMMA StepInv == IInv /\ [Next]_vars => IInv'
<1> SUFFICES ASSUME IInv, [Next]_vars PROVE IInv'
  OBVIOUS
<1>1. ASSUME NEW w \in Workers, Work(w) PROVE IInv'
  <2>1. CASE Poll(w)
    BY <2>1, PollInv
  <2>2. CASE PollEmpty(w) \/ Wake(w)
    BY <2>2, SleepInv
  <2>3. CASE Publish(w)
    BY <2>3, PublishInv
  <2>4. CASE Mark(w)
    BY <2>4, MarkInv
  <2>5. CASE Commit(w)
    BY <2>5, CommitInv
  <2>6. QED
    BY <1>1, <2>1, <2>2, <2>3, <2>4, <2>5 DEF Work
<1>2. ASSUME NEW w \in Workers, Fail(w) PROVE IInv'
  BY <1>2, FailInv
<1>3. ASSUME NEW w \in Workers, Retry(w) \/ PublishFails(w) PROVE IInv'
  BY <1>3, RetryInv, PublishFailsInv
<1>4. ASSUME NEW w \in Workers, CommitUnacknowledged(w) PROVE IInv'
  BY <1>4, CommitUnacknowledgedInv
<1>5. ASSUME NEW w \in Workers, Crash(w) PROVE IInv'
  BY <1>5, CrashInv
<1>6. ASSUME NEW r \in Rows, Appear(r) PROVE IInv'
  BY <1>6, AppearInv
<1>7. CASE UNCHANGED vars
  <2> USE <1>7 DEF vars, workerVars, IInv
  <2>1. TypeOK' /\ Held' /\ NoSharedRow' /\ (Kafka => MarkedWasSent')
    BY DEF TypeOK, Held, NoSharedRow, MarkedWasSent
  <2>2. DealtWithWasSent' /\ SentInVain' /\ ResendNeedsFault'
    BY DEF DealtWithWasSent, SentInVain, ResendNeedsFault, IsCurrent
  <2>3. QED
    BY <2>1, <2>2
<1>8. QED
  BY <1>1, <1>2, <1>3, <1>4, <1>5, <1>6, <1>7, ReleaseInv DEF Next, WorkersNext

LEMMA Invariant == Spec => []IInv
<1>1. Init => IInv
  BY InitInv
<1>2. IInv /\ [Next]_vars => IInv'
  BY StepInv
<1>3. QED
  BY <1>1, <1>2, PTL DEF Spec

-----------------------------------------------------------------------------
(* Theorems. *)

\* The variables keep their types, for any number of replicas and rows.
THEOREM OutboxTypeCorrect == Spec => []TypeOK
<1>1. IInv => TypeOK
  BY DEF IInv
<1>2. QED
  BY <1>1, Invariant, PTL

\* SKIP LOCKED keeps the batches of all replicas apart.
THEOREM BatchesDisjoint == Spec => []NoSharedRow
<1>1. IInv => NoSharedRow
  BY DEF IInv
<1>2. QED
  BY <1>1, Invariant, PTL

\* In a build with Kafka no row is marked that the broker has not taken,
\* however batches fail half way.
THEOREM AtLeastOnce == Spec => [](Kafka => MarkedWasSent)
<1>1. IInv => (Kafka => MarkedWasSent)
  BY DEF IInv
<1>2. QED
  BY <1>1, Invariant, PTL

\* The duplicates the broker gets of a row are no more than the faults: attempts to
\* publish that ended without an acknowledgement (producer.rs:66-99), transactions and
\* replies that were lost, and crashes (outbox.rs:98-143), for any number of replicas
\* and attempts.
THEOREM DuplicatesBounded == Spec => []ResendNeedsFault
<1>1. IInv => ResendNeedsFault
  BY DEF IInv
<1>2. QED
  BY <1>1, Invariant, PTL

\* No step of any worker touches a row whose mark is committed.
THEOREM MarksAreFinal == Spec => MarkIsFinal
<1>1. IInv /\ [Next]_vars => [\A r \in marked : r \in marked' /\ sent'[r] = sent[r]]_vars
  <2> SUFFICES ASSUME IInv, Next, NEW r \in marked
               PROVE  r \in marked' /\ sent'[r] = sent[r]
    OBVIOUS
  <2> USE DEF IInv
  <2>1. r \in Rows /\ \A w \in Workers : r \notin left[w]
    BY DEF TypeOK, Held, NoSharedRow
  <2>2. ASSUME NEW w \in Workers, HandOver(w) PROVE sent'[r] = sent[r]
    BY <2>1, <2>2 DEF HandOver, TypeOK
  <2>3. ASSUME NEW w \in Workers, Work(w) PROVE r \in marked' /\ sent'[r] = sent[r]
    BY <2>2, <2>3 DEF Work, Poll, PollEmpty, Publish, Mark, Commit, Wake
  <2>4. ASSUME NEW w \in Workers,
               \/ Fail(w) \/ Retry(w) \/ PublishFails(w)
               \/ CommitUnacknowledged(w) \/ Crash(w)
        PROVE  r \in marked' /\ sent'[r] = sent[r]
    BY <2>2, <2>4 DEF Fail, Retry, PublishFails, Unacknowledged, CommitUnacknowledged,
                         Crash
  <2>5. ASSUME NEW q \in Rows, Appear(q) PROVE r \in marked' /\ sent'[r] = sent[r]
    BY <2>5 DEF Appear
  <2>6. Release => r \in marked' /\ sent'[r] = sent[r]
    BY DEF Release
  <2>7. QED
    BY <2>3, <2>4, <2>5, <2>6 DEF Next, WorkersNext
<1>2. QED
  BY <1>1, Invariant, PTL DEF Spec, MarkIsFinal

\* The broker is only ever given rows that are committed: a worker publishes what its
\* SELECT returned, and a committed row does not go away.
SentIsVisible == \A r \in Rows : sent[r] > 0 => r \in visible

THEOREM OnlyCommittedSent == Spec => []SentIsVisible
<1>1. Init => SentIsVisible
  BY DEF Init, SentIsVisible
<1>2. ASSUME IInv, SentIsVisible, [Next]_vars
      PROVE  SentIsVisible'
  <2> USE <1>2 DEF IInv
  <2>1. \A r \in Rows : sent[r] > 0 => r \in visible
    BY DEF SentIsVisible
  <2>2. ASSUME NEW w \in Workers, HandOver(w), visible' = visible
        PROVE  SentIsVisible'
    <3>1. \A r \in left[w] : r \in visible /\ r \in Rows
      BY DEF Held, TypeOK
    <3>2. QED
      BY <2>1, <2>2, <3>1 DEF HandOver, SentIsVisible, TypeOK
  <2>3. ASSUME visible \subseteq visible', sent' = sent
        PROVE  SentIsVisible'
    BY <2>1, <2>3 DEF SentIsVisible
  <2>4. ASSUME NEW w \in Workers, Work(w)
        PROVE  SentIsVisible'
    BY <2>2, <2>3, <2>4 DEF Work, Poll, PollEmpty, Publish, Mark, Commit, Wake
  <2>5. ASSUME NEW w \in Workers,
               \/ Fail(w) \/ Retry(w) \/ PublishFails(w)
               \/ CommitUnacknowledged(w) \/ Crash(w)
        PROVE  SentIsVisible'
    BY <2>2, <2>3, <2>5 DEF Fail, Retry, PublishFails, Unacknowledged, CommitUnacknowledged,
                         Crash
  <2>6. ASSUME NEW q \in Rows, Appear(q)
        PROVE  SentIsVisible'
    BY <2>3, <2>6 DEF Appear
  <2>7. Release \/ UNCHANGED vars => SentIsVisible'
    BY <2>3 DEF Release, vars, workerVars
  <2>8. QED
    BY <2>4, <2>5, <2>6, <2>7 DEF Next, WorkersNext
<1>3. QED
  BY <1>1, <1>2, Invariant, PTL DEF Spec
=============================================================================
