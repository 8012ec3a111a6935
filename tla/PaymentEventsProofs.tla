------------------------- MODULE PaymentEventsProofs -------------------------
(***************************************************************************)
(* Proofs about KafkaClients and PaymentEvents, for any events, topics,    *)
(* group members, retries and faults.  The order in which a topic's events *)
(* are processed rests on two facts.  However often rows are sent again, a *)
(* row is never in its partition before all earlier rows of the topic are: *)
(* the log may repeat, but it does not leave out.  And what a member has   *)
(* received is processed, but for the message in its hand, so that one     *)
(* that comes back, or takes over, begins where nothing is missing.        *)
(***************************************************************************)
EXTENDS PaymentEvents, SequenceTheorems, TLAPS

Rows == DOMAIN script

Topic(row) == TopicOf[script[row]]

\* Where the variables take their values.
ClientTypes ==
  /\ script \in Scripts
  /\ marked \in Nat /\ next \in Nat /\ marked < next /\ next <= Len(script) + 1
  /\ attempt \in Nat
  /\ attempt # 0 => next <= Len(script)
  /\ log \in [Topics -> Seq(Rows)]
  /\ owner \in Members
  /\ position \in [Members -> [Topics -> Nat]]
  /\ inHand \in [Members -> {<<>>} \cup (Topics \X Nat)]
  /\ handled \in [Members -> BOOLEAN]
  /\ committed \in [Topics -> Nat]
  /\ applied \in [Rows -> Nat]
  /\ faults \in Nat

\* A row lies in the partition of its topic.
LogInTopic ==
  \A t \in Topics : \A place \in 1..Len(log[t]) : Topic(log[t][place]) = t

\* What the batch is past was sent.
SentSoFar ==
  \A row \in Rows : row < next =>
    \E place \in 1..Len(log[Topic(row)]) : log[Topic(row)][place] = row

\* No row is in its partition before the earlier rows of the topic.
NoGaps ==
  \A t \in Topics : \A place \in 1..Len(log[t]) : \A row \in 1..log[t][place] :
    Topic(row) = t => \E earlier \in 1..place : log[t][earlier] = row

ProducerInv == LogInTopic /\ SentSoFar /\ NoGaps

IsInHand(m, t, place) == inHand[m] = <<t, place>> /\ ~ handled[m]

\* The message that m has comes after what was processed.
HandInv(m, t, place) ==
  /\ t \in Topics /\ place \in 1..Len(log[t])
  /\ inHand[m] = <<t, place>>
  /\ EventAt(t, place) \notin Unreadable
  /\ handled[m] => IsProcessed(RowAt(t, place))
  /\ \A earlier \in 1..(place - 1) : IsProcessed(RowAt(t, earlier))

\* What a member has received was processed or is in its hand.
MemberInv(m) ==
  /\ handled[m] => inHand[m] # <<>>
  /\ \A t \in Topics :
       /\ position[m][t] <= Len(log[t])
       /\ \A place \in 1..position[m][t] :
            IsProcessed(RowAt(t, place)) \/ IsInHand(m, t, place)
  /\ inHand[m] # <<>> => HandInv(m, inHand[m][1], inHand[m][2])

CommittedInLog == \A t \in Topics : committed[t] <= Len(log[t])

\* While nothing has failed, there is one member at work, and each row is in its
\* partition at most once.
NoFaultInv ==
  faults = 0 =>
    /\ \A row \in Rows : applied[row] <= 1 /\ (row >= next => applied[row] = 0)
    /\ \A t \in Topics :
         /\ \A place \in 1..Len(log[t]) : log[t][place] < next
         /\ \A p, q \in 1..Len(log[t]) : log[t][p] = log[t][q] => p = q
         /\ \A place \in 1..Len(log[t]) :
              position[owner][t] < place \/ IsInHand(owner, t, place) =>
                applied[log[t][place]] = 0
    /\ inHand[owner] # <<>> => inHand[owner][2] <= position[owner][inHand[owner][1]]
    /\ \A m \in Members : m # owner => inHand[m] = <<>>

IInv == /\ ClientTypes
        /\ ProducerInv
        /\ \A m \in Members : MemberInv(m)
        /\ CommittedInLog
        /\ CommittedIsProcessed
        /\ ProcessedInOrder
        /\ NoFaultInv

-----------------------------------------------------------------------------
(* The producer. *)

LEMMA ScriptFacts ==
  ASSUME script \in Scripts
  PROVE  /\ Len(script) \in Nat /\ Rows = 1..Len(script)
         /\ \A row \in Rows : Topic(row) \in Topics
<1> DEFINE Events == {script[row] : row \in DOMAIN script}
<1>1. script \in Seq(Events)
  BY ScriptAssumption
<1>2. \A row \in DOMAIN script : TopicOf[script[row]] \in Topics
  BY ScriptAssumption
<1> HIDE DEF Events
<1>3. Len(script) \in Nat /\ DOMAIN script = 1..Len(script)
  BY <1>1
<1>4. QED
  BY <1>2, <1>3 DEF Rows, Topic

\* Partitions only grow.
LogGrows ==
  \A t \in Topics :
    /\ Len(log[t]) <= Len(log'[t])
    /\ \A place \in 1..Len(log[t]) : log'[t][place] = log[t][place]

\* The partition of the row that is sent gets one more place.
LEMMA SentFacts ==
  ASSUME ClientTypes, attempt # 0, log' = Sent, script' = script
  PROVE  LET t == Topic(next)
         IN  /\ next \in Rows /\ t \in Topics
             /\ log' \in [Topics -> Seq(Rows)]
             /\ Len(log'[t]) = Len(log[t]) + 1
             /\ log'[t][Len(log[t]) + 1] = next
             /\ \A u \in Topics : u # t => log'[u] = log[u]
             /\ LogGrows
<1>1. next \in Rows /\ Topic(next) \in Topics
  <2>1. /\ Len(script) \in Nat /\ Rows = 1..Len(script)
        /\ \A row \in Rows : Topic(row) \in Topics
    BY ScriptFacts DEF ClientTypes
  <2>2. next \in 1..Len(script)
    BY <2>1 DEF ClientTypes
  <2>3. QED
    BY <2>1, <2>2
<1> DEFINE t == Topic(next)
<1>2. log[t] \in Seq(Rows)
  BY <1>1 DEF ClientTypes
<1>3. log' = [log EXCEPT ![t] = Append(log[t], next)]
  BY DEF Sent, Topic
<1>4. log'[t] = Append(log[t], next) /\ \A u \in Topics : u # t => log'[u] = log[u]
  BY <1>1, <1>3 DEF ClientTypes
<1>5. /\ Append(log[t], next) \in Seq(Rows)
      /\ Len(Append(log[t], next)) = Len(log[t]) + 1
      /\ \A place \in 1..Len(log[t]) : Append(log[t], next)[place] = log[t][place]
      /\ Append(log[t], next)[Len(log[t]) + 1] = next
  BY <1>1, <1>2, AppendProperties
<1>6. log' \in [Topics -> Seq(Rows)]
  BY <1>1, <1>3, <1>5 DEF ClientTypes
<1>7. LogGrows
  <2> SUFFICES ASSUME NEW u \in Topics
               PROVE  /\ Len(log[u]) <= Len(log'[u])
                      /\ \A place \in 1..Len(log[u]) : log'[u][place] = log[u][place]
    BY DEF LogGrows
  <2>1. Len(log[u]) \in Nat
    BY DEF ClientTypes
  <2>2. QED
    BY <2>1, <1>4, <1>5
<1>8. QED
  BY <1>1, <1>4, <1>5, <1>6, <1>7

\* However often a row is sent, the order of the partition holds.
LEMMA SentKeepsOrder ==
  ASSUME ClientTypes, ProducerInv, attempt # 0, log' = Sent, script' = script,
         next' \in Nat, next' <= next + 1
  PROVE  ProducerInv'
<1> DEFINE t == Topic(next)
           n == Len(log[t]) + 1
<1>0. /\ next \in Rows /\ t \in Topics /\ Rows' = Rows
      /\ next \in Nat /\ Rows = 1..Len(script) /\ Len(script) \in Nat
      /\ \A row : Topic(row)' = Topic(row)
      /\ \A u \in Topics : Len(log[u]) \in Nat
  BY SentFacts, ScriptFacts DEF ClientTypes, Rows, Topic
<1>1. /\ \A u \in Topics : u # t => log'[u] = log[u]
      /\ Len(log'[t]) = n
      /\ log'[t][n] = next
      /\ \A place \in 1..Len(log[t]) : log'[t][place] = log[t][place]
  BY SentFacts, <1>0 DEF LogGrows
<1> HIDE DEF t, n
<1>n. n = Len(log[t]) + 1 /\ t = Topic(next)
  BY DEF t, n
<1>s. Rows' = Rows /\ \A row : Topic(row)' = Topic(row)
  BY <1>0
<1>p. /\ \A u \in Topics : \A place \in 1..Len(log'[u]) :
           \/ u = t /\ place = n
           \/ place \in 1..Len(log[u]) /\ log'[u][place] = log[u][place]
      /\ \A u \in Topics : \A place \in 1..Len(log[u]) :
           place \in 1..Len(log'[u]) /\ log'[u][place] = log[u][place]
      /\ n \in 1..Len(log'[t])
  <2> SUFFICES /\ \A u \in Topics : \A place \in 1..Len(log'[u]) :
                    \/ u = t /\ place = n
                    \/ place \in 1..Len(log[u]) /\ log'[u][place] = log[u][place]
               /\ \A u \in Topics : \A place \in 1..Len(log[u]) :
                    place \in 1..Len(log'[u]) /\ log'[u][place] = log[u][place]
    BY <1>0, <1>1, <1>n
  <2>1. ASSUME NEW u \in Topics
        PROVE  /\ \A place \in 1..Len(log'[u]) :
                    \/ u = t /\ place = n
                    \/ place \in 1..Len(log[u]) /\ log'[u][place] = log[u][place]
               /\ \A place \in 1..Len(log[u]) :
                    place \in 1..Len(log'[u]) /\ log'[u][place] = log[u][place]
    <3>1. CASE u = t
      BY <3>1, <1>0, <1>1, <1>n
    <3>2. CASE u # t
      BY <3>2, <1>1
    <3>3. QED
      BY <3>1, <3>2
  <2>2. QED
    BY <2>1
<1>2. LogInTopic'
  <2> SUFFICES ASSUME NEW u \in Topics, NEW place \in 1..Len(log'[u])
               PROVE  Topic(log'[u][place]) = u
    BY <1>s DEF LogInTopic
  <2>1. CASE u = t /\ place = n
    BY <2>1, <1>1, <1>n
  <2>2. CASE ~ (u = t /\ place = n)
    BY <2>2, <1>p DEF LogInTopic, ProducerInv
  <2>3. QED
    BY <2>1, <2>2
<1>3. SentSoFar'
  <2> SUFFICES ASSUME NEW row \in Rows, row < next'
               PROVE  \E place \in 1..Len(log'[Topic(row)]) : log'[Topic(row)][place] = row
    BY <1>s DEF SentSoFar
  <2>1. CASE row < next
    <3>1. PICK place \in 1..Len(log[Topic(row)]) : log[Topic(row)][place] = row
      BY <2>1 DEF ProducerInv, SentSoFar
    <3>2. Topic(row) \in Topics
      BY ScriptFacts DEF ClientTypes
    <3>3. QED
      BY <3>1, <3>2, <1>p
  <2>2. CASE row = next
    BY <2>2, <1>0, <1>1, <1>p, <1>n
  <2>3. QED
    BY <2>1, <2>2, <1>0
<1>4. NoGaps'
  <2> SUFFICES ASSUME NEW u \in Topics, NEW place \in 1..Len(log'[u]),
                      NEW row \in 1..log'[u][place], Topic(row) = u
               PROVE  \E earlier \in 1..place : log'[u][earlier] = row
    BY <1>s DEF NoGaps
  <2>1. CASE u = t /\ place = n
    <3>1. CASE row = next
      BY <3>1, <2>1, <1>0, <1>1, <1>n
    <3>2. CASE row # next
      <4>1. row \in Rows /\ row < next
        BY <3>2, <2>1, <1>0, <1>1
      <4>2. PICK earlier \in 1..Len(log[u]) : log[u][earlier] = row
        BY <4>1 DEF ProducerInv, SentSoFar
      <4>3. QED
        <5>1. earlier \in 1..place /\ log'[u][earlier] = log[u][earlier]
          BY <4>2, <2>1, <1>0, <1>p, <1>n
        <5>2. QED
          BY <4>2, <5>1
    <3>3. QED
      BY <3>1, <3>2
  <2>2. CASE ~ (u = t /\ place = n)
    <3>1. place \in 1..Len(log[u]) /\ log'[u][place] = log[u][place]
      BY <2>2, <1>p
    <3>2. PICK earlier \in 1..place : log[u][earlier] = row
      BY <3>1 DEF ProducerInv, NoGaps
    <3>3. earlier \in 1..Len(log[u])
      BY <3>1, <1>0
    <3>4. QED
      BY <3>2, <3>3, <1>p
  <2>3. QED
    BY <2>1, <2>2
<1>5. QED
  BY <1>2, <1>3, <1>4 DEF ProducerInv

\* What the consumers count on holds while partitions grow.
LEMMA ProducerStep ==
  ASSUME IInv, UNCHANGED <<script, consumerVars>>, LogGrows,
         ClientTypes', ProducerInv', NoFaultInv'
  PROVE  IInv'
<1>0. /\ \A row : IsProcessed(row)' = IsProcessed(row)
      /\ \A t \in Topics : Len(log[t]) \in Nat /\ Len(log'[t]) \in Nat /\ committed[t] \in Nat
      /\ \A m \in Members, t \in Topics : position[m][t] \in Nat
  BY DEF IInv, ClientTypes, IsProcessed, consumerVars
<1>1. ASSUME NEW m \in Members
      PROVE  MemberInv(m)'
  <2>1. MemberInv(m)
    BY DEF IInv
  <2>2. handled'[m] => inHand'[m] # <<>>
    BY <2>1 DEF MemberInv, consumerVars, memberVars
  <2>3. ASSUME NEW t \in Topics
        PROVE  /\ position'[m][t] <= Len(log'[t])
               /\ \A place \in 1..position'[m][t] :
                    IsProcessed(RowAt(t, place))' \/ IsInHand(m, t, place)'
    <3>1. /\ position[m][t] <= Len(log[t])
          /\ \A place \in 1..position[m][t] :
               IsProcessed(RowAt(t, place)) \/ IsInHand(m, t, place)
      BY <2>1 DEF MemberInv
    <3>2. \A place \in 1..position[m][t] : RowAt(t, place)' = RowAt(t, place)
      BY <3>1, <1>0 DEF RowAt, LogGrows
    <3>3. QED
      BY <3>1, <3>2, <1>0 DEF LogGrows, IsInHand, consumerVars, memberVars, IsProcessed
  <2>4. ASSUME NEW t, NEW place, HandInv(m, t, place)
        PROVE  HandInv(m, t, place)'
    <3>1. \A earlier \in 1..place : RowAt(t, earlier)' = RowAt(t, earlier)
      BY <2>4, <1>0 DEF HandInv, LogGrows, RowAt
    <3>2. place \in 1..Len(log'[t])
      BY <2>4, <1>0 DEF HandInv, LogGrows
    <3>3. QED
      BY <2>4, <3>1, <3>2, <1>0 DEF HandInv, EventAt, consumerVars, memberVars
  <2>5. QED
    BY <2>1, <2>2, <2>3, <2>4 DEF MemberInv, consumerVars, memberVars
<1>2. CommittedInLog'
  BY <1>0 DEF IInv, CommittedInLog, LogGrows, consumerVars
<1>3. CommittedIsProcessed'
  BY <1>0 DEF IInv, CommittedInLog, CommittedIsProcessed, LogGrows, consumerVars, RowAt, IsProcessed
<1>4. ProcessedInOrder'
  BY <1>0 DEF IInv, ProcessedInOrder, consumerVars, IsProcessed
<1>5. QED
  BY <1>1, <1>2, <1>3, <1>4 DEF IInv

LEMMA LogKept ==
  ASSUME UNCHANGED <<script, log>>, ClientTypes, ProducerInv, next' \in Nat, next' <= next
  PROVE  LogGrows /\ ProducerInv'
<1>1. LogInTopic' /\ NoGaps' /\ LogGrows
  BY DEF ProducerInv, LogInTopic, NoGaps, Topic, LogGrows, ClientTypes
<1>2. SentSoFar'
  <2>1. Rows \subseteq Nat /\ Rows' = Rows /\ \A row : Topic(row)' = Topic(row)
    BY ScriptFacts DEF ClientTypes, Rows, Topic
  <2>2. \A row \in Rows : row < next' => row < next
    BY <2>1 DEF ClientTypes
  <2>3. QED
    BY <2>1, <2>2 DEF ProducerInv, SentSoFar
<1>3. QED
  BY <1>1, <1>2 DEF ProducerInv

LEMMA TypesOfRows ==
  ASSUME ClientTypes
  PROVE  /\ Rows = 1..Len(script) /\ Len(script) \in Nat
         /\ \A t \in Topics : /\ log[t] \in Seq(Rows) /\ Len(log[t]) \in Nat
                              /\ \A place \in 1..Len(log[t]) : log[t][place] \in Rows
         /\ MaxRetries \in Nat \ {0}
BY ScriptFacts, RetryAssumption DEF ClientTypes

LEMMA PublishKeeps == ASSUME IInv, Publish PROVE IInv'
<1>1. ClientTypes'
  BY TypesOfRows DEF IInv, ClientTypes, Publish, consumerVars, memberVars, Rows
<1>2. LogGrows /\ ProducerInv'
  BY LogKept DEF IInv, ClientTypes, Publish
<1>3. NoFaultInv'
  BY DEF IInv, NoFaultInv, Publish, consumerVars, memberVars, Rows, IsInHand
<1>4. QED
  BY <1>1, <1>2, <1>3, ProducerStep DEF Publish

LEMMA CommitBatchKeeps == ASSUME IInv, CommitBatch PROVE IInv'
<1>1. ClientTypes'
  BY DEF IInv, ClientTypes, CommitBatch, consumerVars, memberVars, Rows
<1>2. LogGrows /\ ProducerInv'
  BY LogKept DEF IInv, ClientTypes, CommitBatch
<1>3. NoFaultInv'
  BY DEF IInv, NoFaultInv, CommitBatch, consumerVars, memberVars, Rows, IsInHand
<1>4. QED
  BY <1>1, <1>2, <1>3, ProducerStep DEF CommitBatch

LEMMA FaultFacts == ASSUME IInv, Fault PROVE faults' \in Nat /\ faults' # 0
BY DEF IInv, ClientTypes, Fault

LEMMA PermanentErrorKeeps == ASSUME IInv, PermanentError PROVE IInv'
<1>1. ClientTypes'
  BY FaultFacts
  DEF IInv, ClientTypes, PermanentError, Abandon, consumerVars, memberVars, Rows
<1>2. LogGrows /\ ProducerInv'
  BY LogKept DEF IInv, ClientTypes, PermanentError, Abandon
<1>3. NoFaultInv'
  BY FaultFacts DEF NoFaultInv, PermanentError
<1>4. QED
  BY <1>1, <1>2, <1>3, ProducerStep DEF PermanentError

LEMMA TransientErrorKeeps == ASSUME IInv, TransientError PROVE IInv'
<1>0. /\ attempt # 0 /\ UNCHANGED <<script, marked, consumerVars>>
      /\ log' \in {log, Sent} /\ faults' \in Nat /\ faults' # 0
      /\ next' \in Nat /\ next' <= next /\ marked < next'
      /\ attempt' \in Nat /\ next' <= Len(script)
  <2>1. ClientTypes /\ MaxRetries \in Nat
    BY RetryAssumption DEF IInv
  <2>2. /\ attempt # 0 /\ UNCHANGED <<script, marked, consumerVars>>
        /\ log' \in {log, Sent} /\ faults' \in Nat /\ faults' # 0
    BY FaultFacts DEF TransientError
  <2>3. next \in Nat /\ marked \in Nat /\ marked < next /\ attempt \in Nat /\ next <= Len(script)
    BY <2>1, <2>2 DEF ClientTypes
  <2>4. \/ attempt' = attempt + 1 /\ next' = next
        \/ attempt' = 0 /\ next' = marked + 1
    BY DEF TransientError, AfterTransient, Abandon
  <2>5. Len(script) \in Nat
    BY <2>1, TypesOfRows
  <2>6. QED
    BY <2>2, <2>3, <2>4, <2>5
<1>1. LogGrows /\ ProducerInv' /\ log' \in [Topics -> Seq(Rows)]
  <2>1. CASE log' = log
    BY <1>0, <2>1, LogKept DEF IInv, ClientTypes
  <2>2. CASE log' = Sent
    <3>1. ClientTypes /\ ProducerInv /\ script' = script /\ next' <= next + 1
      BY <1>0 DEF IInv, ClientTypes
    <3>2. ProducerInv'
      BY <1>0, <2>2, <3>1, SentKeepsOrder
    <3>3. QED
      BY <1>0, <2>2, <3>1, <3>2, SentFacts
  <2>3. QED
    BY <1>0, <2>1, <2>2
<1>2. ClientTypes'
  <2>1. Len(script) \in Nat /\ next' <= Len(script) + 1 /\ ClientTypes
    BY <1>0, TypesOfRows DEF IInv
  <2>2. QED
    BY <1>0, <1>1, <2>1 DEF ClientTypes, consumerVars, memberVars, Rows
<1>3. NoFaultInv'
  BY <1>0 DEF NoFaultInv
<1>4. QED
  BY <1>0, <1>1, <1>2, <1>3, ProducerStep DEF IInv

LEMMA DeliveredKeeps == ASSUME IInv, Delivered PROVE IInv'
<1>0. /\ attempt # 0 /\ UNCHANGED <<script, marked, consumerVars, faults>>
      /\ log' = Sent /\ next' = next + 1 /\ attempt' = 0 /\ ClientTypes
  BY DEF IInv, Delivered
<1>1. LogGrows /\ ProducerInv' /\ log' \in [Topics -> Seq(Rows)]
  <2>1. ProducerInv /\ script' = script /\ next' \in Nat /\ next' <= next + 1
    BY <1>0 DEF IInv, ClientTypes
  <2>2. ProducerInv'
    BY <1>0, <2>1, SentKeepsOrder
  <2>3. QED
    BY <1>0, <2>1, <2>2, SentFacts
<1>2. ClientTypes'
  BY <1>0, <1>1, TypesOfRows DEF ClientTypes, consumerVars, memberVars, Rows
<1>3. NoFaultInv'
  <2> SUFFICES ASSUME faults = 0
               PROVE  NoFaultInv'
    BY <1>0 DEF NoFaultInv
  <2> DEFINE t == Topic(next)
             n == Len(log[t]) + 1
  <2>1. /\ next \in Rows /\ t \in Topics /\ Rows' = Rows
        /\ \A u \in Topics : u # t => log'[u] = log[u]
        /\ Len(log'[t]) = n
        /\ log'[t][n] = next
        /\ \A place \in 1..Len(log[t]) : log'[t][place] = log[t][place]
    BY <1>0, SentFacts DEF LogGrows, Rows
  <2> HIDE DEF t, n
  <2>2. n = Len(log[t]) + 1 /\ applied' = applied /\ owner' = owner /\ position' = position
        /\ inHand' = inHand /\ handled' = handled /\ next \in Nat
        /\ \A u \in Topics : /\ Len(log[u]) \in Nat
                             /\ \A place \in 1..Len(log[u]) : log[u][place] \in Nat
    <3>1. Rows \subseteq Nat
      BY <1>0, TypesOfRows
    <3>2. \A u \in Topics : /\ Len(log[u]) \in Nat
                            /\ \A place \in 1..Len(log[u]) : log[u][place] \in Nat
      BY <1>0, <3>1, TypesOfRows
    <3>3. next \in Nat
      BY <1>0 DEF ClientTypes
    <3>4. QED
      BY <1>0, <3>2, <3>3 DEF n, consumerVars, memberVars
  <2>3. \A row \in Rows : applied[row] <= 1 /\ (row >= next => applied[row] = 0)
    BY DEF IInv, NoFaultInv
  <2>4. \A u \in Topics :
          /\ \A place \in 1..Len(log[u]) : log[u][place] < next
          /\ \A p, q \in 1..Len(log[u]) : log[u][p] = log[u][q] => p = q
          /\ \A place \in 1..Len(log[u]) :
               position[owner][u] < place \/ IsInHand(owner, u, place) =>
                 applied[log[u][place]] = 0
    BY DEF IInv, NoFaultInv
  <2>5. \A row \in Rows' : applied'[row] <= 1 /\ (row >= next' => applied'[row] = 0)
    BY <1>0, <2>1, <2>2, <2>3, TypesOfRows
  <2>6. \A u \in Topics :
          /\ \A place \in 1..Len(log'[u]) : log'[u][place] < next'
          /\ \A p, q \in 1..Len(log'[u]) : log'[u][p] = log'[u][q] => p = q
    <3>1. ASSUME NEW u \in Topics, NEW place \in 1..Len(log'[u])
          PROVE  \/ u = t /\ place = n /\ log'[u][place] = next
                 \/ /\ place \in 1..Len(log[u])
                    /\ log'[u][place] = log[u][place]
                    /\ log[u][place] \in Nat /\ log[u][place] < next
      BY <2>1, <2>2, <2>4
    <3>2. \A u \in Topics : \A place \in 1..Len(log'[u]) : log'[u][place] < next'
      BY <1>0, <2>2, <3>1
    <3>3. \A u \in Topics : \A p, q \in 1..Len(log'[u]) : log'[u][p] = log'[u][q] => p = q
      <4> SUFFICES ASSUME NEW u \in Topics,
                          NEW p \in 1..Len(log'[u]), NEW q \in 1..Len(log'[u]),
                          log'[u][p] = log'[u][q]
                   PROVE  p = q
        OBVIOUS
      <4>1. CASE p \in 1..Len(log[u]) /\ q \in 1..Len(log[u])
        <5>1. log'[u][p] = log[u][p] /\ log'[u][q] = log[u][q]
          BY <4>1, <2>1
        <5>2. QED
          BY <4>1, <5>1, <2>4
      <4>2. CASE ~ (p \in 1..Len(log[u]) /\ q \in 1..Len(log[u]))
        <5>1. u = t /\ n \in Nat /\ (p = n \/ q = n)
          BY <2>1, <2>2, <3>1, <4>2
        <5>2. \A place \in 1..Len(log'[u]) : place # n => log'[u][place] # next
          BY <2>2, <3>1, <5>1
        <5>3. QED
          BY <2>1, <5>1, <5>2
      <4>3. QED
        BY <4>1, <4>2
    <3>4. QED
      BY <3>2, <3>3
  <2>7. ASSUME NEW u \in Topics, NEW place \in 1..Len(log'[u]),
               position[owner][u] < place \/ IsInHand(owner, u, place)
        PROVE  applied[log'[u][place]] = 0
    <3>1. CASE u = t /\ place = n
      BY <3>1, <2>1, <2>2, <2>3
    <3>2. CASE ~ (u = t /\ place = n)
      <4>1. place \in 1..Len(log[u]) /\ log'[u][place] = log[u][place]
        BY <3>2, <2>1, <2>2
      <4>2. QED
        BY <4>1, <2>4, <2>7
    <3>3. QED
      BY <3>1, <3>2
  <2>8. /\ \A m \in Members : m # owner => inHand[m] = <<>>
        /\ inHand[owner] # <<>> => inHand[owner][2] <= position[owner][inHand[owner][1]]
    BY DEF IInv, NoFaultInv
  <2>9. QED
    BY <2>2, <2>5, <2>6, <2>7, <2>8 DEF NoFaultInv, IsInHand
<1>4. QED
  BY <1>0, <1>1, <1>2, <1>3, ProducerStep

-----------------------------------------------------------------------------
(* The members of the group. *)

\* What was processed stays so.
LEMMA ProcessedStays ==
  ASSUME ClientTypes, UNCHANGED <<script, log>>,
         \A row \in Rows : applied'[row] \in Nat /\ applied'[row] >= applied[row]
  PROVE  /\ \A row \in Rows : IsProcessed(row) => IsProcessed(row)'
         /\ \A t \in Topics : \A place \in 1..Len(log[t]) :
              IsProcessed(RowAt(t, place)) => IsProcessed(RowAt(t, place))'
<1>1. \A row \in Rows : IsProcessed(row) => IsProcessed(row)'
  BY DEF IsProcessed, ClientTypes
<1>2. QED
  BY <1>1, TypesOfRows DEF RowAt, IsProcessed

\* A step of m leaves the other members what they count on.
LEMMA MemberStep ==
  ASSUME IInv, UNCHANGED <<producerVars, log>>, NEW m \in Members,
         \A k \in Members \ {m} : /\ position'[k] = position[k]
                                  /\ inHand'[k] = inHand[k] /\ handled'[k] = handled[k],
         \A row \in Rows : applied'[row] \in Nat /\ applied'[row] >= applied[row],
         ClientTypes', MemberInv(m)', CommittedInLog', CommittedIsProcessed',
         ProcessedInOrder', NoFaultInv'
  PROVE  IInv'
<1>1. ProducerInv'
  BY DEF IInv, ProducerInv, LogInTopic, SentSoFar, NoGaps, Topic, Rows, producerVars
<1>2. ASSUME NEW k \in Members
      PROVE  MemberInv(k)'
  <2>1. CASE k = m
    BY <2>1
  <2>2. CASE k # m
    <3>1. MemberInv(k) /\ ClientTypes
      BY DEF IInv
    <3>2. /\ \A t \in Topics : \A place \in 1..Len(log[t]) :
                IsProcessed(RowAt(t, place)) => IsProcessed(RowAt(t, place))'
          /\ \A t \in Topics : Len(log[t]) \in Nat /\ position[k][t] \in Nat
      <4>1. script' = script /\ log' = log
        BY DEF producerVars
      <4>2. QED
        BY <3>1, <4>1, ProcessedStays, TypesOfRows DEF ClientTypes
    <3>3. position'[k] = position[k] /\ inHand'[k] = inHand[k] /\ handled'[k] = handled[k]
      BY <2>2
    <3>4. \A t \in Topics :
            /\ position'[k][t] <= Len(log'[t])
            /\ \A place \in 1..position'[k][t] :
                 IsProcessed(RowAt(t, place))' \/ IsInHand(k, t, place)'
      BY <3>1, <3>2, <3>3 DEF MemberInv, IsInHand
    <3>5. ASSUME NEW t, NEW place, HandInv(k, t, place)
          PROVE  HandInv(k, t, place)'
      <4>1. t \in Topics /\ Len(log[t]) \in Nat /\ place \in 1..Len(log[t])
        BY <3>2, <3>5 DEF HandInv
      <4>2. QED
        BY <4>1, <3>2, <3>3, <3>5 DEF HandInv, EventAt, RowAt, producerVars
    <3>6. QED
      BY <3>1, <3>3, <3>4, <3>5 DEF MemberInv
  <2>3. QED
    BY <2>1, <2>2
<1>3. QED
  BY <1>1, <1>2 DEF IInv

LEMMA CanReceiveFacts ==
  ASSUME IInv, NEW m \in Members, NEW t \in Topics, CanReceive(m, t)
  PROVE  /\ ClientTypes /\ MemberInv(m) /\ owner = m /\ inHand[m] = <<>> /\ ~ handled[m]
         /\ \A u \in Topics : Len(log[u]) \in Nat /\ position[m][u] \in Nat
         /\ position[m][t] + 1 \in 1..Len(log[t])
         /\ \A u \in Topics : \A place \in 1..position[m][u] : IsProcessed(RowAt(u, place))
<1>1. ClientTypes /\ MemberInv(m) /\ owner = m /\ inHand[m] = <<>> /\ position[m][t] < Len(log[t])
  BY DEF IInv, CanReceive
<1>2. ~ handled[m]
  BY <1>1 DEF MemberInv
<1>3. \A u \in Topics : Len(log[u]) \in Nat /\ position[m][u] \in Nat
  BY <1>1, TypesOfRows DEF ClientTypes
<1>4. \A u \in Topics : \A place \in 1..position[m][u] : IsProcessed(RowAt(u, place))
  BY <1>1 DEF MemberInv, IsInHand
<1>5. QED
  BY <1>1, <1>2, <1>3, <1>4

LEMMA ReceiveKeeps ==
  ASSUME IInv, NEW m \in Members, NEW t \in Topics, Receive(m, t)
  PROVE  IInv'
<1>n. PICK place : place = position[m][t] + 1
  OBVIOUS
<1>f. /\ ClientTypes /\ MemberInv(m) /\ owner = m /\ inHand[m] = <<>> /\ ~ handled[m]
      /\ \A u \in Topics : Len(log[u]) \in Nat /\ position[m][u] \in Nat
      /\ place \in 1..Len(log[t])
      /\ \A u \in Topics : \A p \in 1..position[m][u] : IsProcessed(RowAt(u, p))
  BY <1>n, CanReceiveFacts DEF Receive
<1>u. /\ script' = script /\ marked' = marked /\ next' = next /\ attempt' = attempt
      /\ log' = log /\ owner' = owner /\ handled' = handled /\ committed' = committed
      /\ applied' = applied /\ faults' = faults
      /\ EventAt(t, place) \notin Unreadable
  BY <1>n DEF Receive, producerVars
<1>1. /\ position'[m][t] = place /\ \A u \in Topics : u # t => position'[m][u] = position[m][u]
      /\ inHand'[m] = <<t, place>>
      /\ \A k \in Members \ {m} : /\ position'[k] = position[k]
                                  /\ inHand'[k] = inHand[k] /\ handled'[k] = handled[k]
  BY <1>n, <1>f, <1>u DEF ClientTypes, Receive
<1>2. ClientTypes'
  BY <1>n, <1>f, <1>u DEF ClientTypes, Receive, producerVars, Rows
<1>r. \A u, p : RowAt(u, p)' = RowAt(u, p) /\ IsProcessed(RowAt(u, p))' = IsProcessed(RowAt(u, p))
  BY <1>f, <1>u DEF RowAt, IsProcessed
<1>3. MemberInv(m)'
  <2>1. ASSUME NEW u \in Topics
        PROVE  /\ position'[m][u] <= Len(log'[u])
               /\ \A p \in 1..position'[m][u] :
                    IsProcessed(RowAt(u, p))' \/ IsInHand(m, u, p)'
    <3>1. CASE u = t
      BY <3>1, <1>f, <1>u, <1>1, <1>n, <1>r DEF IsInHand
    <3>2. CASE u # t
      BY <3>2, <1>f, <1>u, <1>1, <1>r DEF MemberInv
    <3>3. QED
      BY <3>1, <3>2
  <2>2. HandInv(m, t, place)'
    <3>1. EventAt(t, place) \notin Unreadable /\ EventAt(t, place)' = EventAt(t, place)
      BY <1>u DEF EventAt, RowAt
    <3>2. \A earlier \in 1..(place - 1) : IsProcessed(RowAt(t, earlier))'
      BY <1>f, <1>u, <1>n, <1>r
    <3>3. QED
      BY <3>1, <3>2, <1>f, <1>u, <1>1 DEF HandInv
  <2>3. inHand'[m][1] = t /\ inHand'[m][2] = place
    BY <1>1
  <2>4. QED
    BY <1>f, <1>u, <2>1, <2>2, <2>3 DEF MemberInv
<1>4. CommittedInLog' /\ CommittedIsProcessed' /\ ProcessedInOrder'
  BY <1>f, <1>u
  DEF IInv, CommittedInLog, CommittedIsProcessed, ProcessedInOrder, RowAt, IsProcessed
<1>5. NoFaultInv'
  <2> SUFFICES ASSUME faults = 0
               PROVE  NoFaultInv'
    BY <1>f, <1>u DEF NoFaultInv
  <2>1. NoFaultInv
    BY DEF IInv
  <2>2. ASSUME NEW u \in Topics, NEW p \in 1..Len(log[u]),
               position'[m][u] < p \/ IsInHand(m, u, p)'
        PROVE  position[m][u] < p
    <3>1. CASE u = t
      BY <3>1, <2>2, <1>f, <1>u, <1>1, <1>n DEF IsInHand
    <3>2. CASE u # t
      BY <3>2, <2>2, <1>1 DEF IsInHand
    <3>3. QED
      BY <3>1, <3>2
  <2>3. QED
    BY <2>1, <2>2, <1>f, <1>u, <1>1 DEF NoFaultInv, Rows, producerVars
<1>6. QED
  <2>1. UNCHANGED <<producerVars, log>>
    BY <1>u DEF producerVars
  <2>2. \A row \in Rows : applied'[row] \in Nat /\ applied'[row] >= applied[row]
    BY <1>f, <1>u DEF ClientTypes
  <2>3. QED
    BY <2>1, <2>2, <1>1, <1>2, <1>3, <1>4, <1>5, MemberStep

LEMMA SkipUnreadableKeeps ==
  ASSUME IInv, NEW m \in Members, NEW t \in Topics, SkipUnreadable(m, t)
  PROVE  IInv'
<1>n. PICK place : place = position[m][t] + 1
  OBVIOUS
<1>f. /\ ClientTypes /\ MemberInv(m) /\ owner = m /\ inHand[m] = <<>> /\ ~ handled[m]
      /\ \A u \in Topics : Len(log[u]) \in Nat /\ position[m][u] \in Nat
      /\ place \in 1..Len(log[t])
      /\ \A u \in Topics : \A p \in 1..position[m][u] : IsProcessed(RowAt(u, p))
  BY <1>n, CanReceiveFacts DEF SkipUnreadable
<1>u. /\ script' = script /\ marked' = marked /\ next' = next /\ attempt' = attempt
      /\ log' = log /\ owner' = owner /\ handled' = handled /\ committed' = committed
      /\ applied' = applied /\ faults' = faults /\ inHand' = inHand
      /\ EventAt(t, place) \in Unreadable
  BY <1>n DEF SkipUnreadable, producerVars
<1>1. /\ position'[m][t] = place /\ \A u \in Topics : u # t => position'[m][u] = position[m][u]
      /\ \A k \in Members \ {m} : /\ position'[k] = position[k]
                                  /\ inHand'[k] = inHand[k] /\ handled'[k] = handled[k]
  BY <1>n, <1>f, <1>u DEF ClientTypes, SkipUnreadable
<1>2. ClientTypes'
  BY <1>n, <1>f, <1>u DEF ClientTypes, SkipUnreadable, producerVars, Rows
<1>p. IsProcessed(RowAt(t, place))'
  BY <1>u DEF EventAt, RowAt, IsProcessed
<1>r. \A u, p : RowAt(u, p)' = RowAt(u, p) /\ IsProcessed(RowAt(u, p))' = IsProcessed(RowAt(u, p))
  BY <1>f, <1>u DEF RowAt, IsProcessed
<1>3. MemberInv(m)'
  <2>1. ASSUME NEW u \in Topics
        PROVE  /\ position'[m][u] <= Len(log'[u])
               /\ \A p \in 1..position'[m][u] :
                    IsProcessed(RowAt(u, p))' \/ IsInHand(m, u, p)'
    BY <1>f, <1>u, <1>1, <1>n, <1>p, <1>r DEF MemberInv, IsInHand
  <2>2. QED
    BY <1>f, <1>u, <2>1 DEF MemberInv
<1>4. CommittedInLog' /\ CommittedIsProcessed' /\ ProcessedInOrder'
  BY <1>f, <1>u
  DEF IInv, CommittedInLog, CommittedIsProcessed, ProcessedInOrder, RowAt, IsProcessed
<1>5. NoFaultInv'
  <2> SUFFICES ASSUME faults = 0
               PROVE  NoFaultInv'
    BY <1>f, <1>u DEF NoFaultInv
  <2>1. NoFaultInv
    BY DEF IInv
  <2>2. ASSUME NEW u \in Topics, NEW p \in 1..Len(log[u]), position'[m][u] < p
        PROVE  position[m][u] < p
    BY <2>2, <1>f, <1>u, <1>1, <1>n
  <2>3. QED
    BY <2>1, <2>2, <1>f, <1>u, <1>1 DEF NoFaultInv, Rows, producerVars, IsInHand
<1>6. QED
  <2>1. UNCHANGED <<producerVars, log>>
    BY <1>u DEF producerVars
  <2>2. \A row \in Rows : applied'[row] \in Nat /\ applied'[row] >= applied[row]
    BY <1>f, <1>u DEF ClientTypes
  <2>3. QED
    BY <2>1, <2>2, <1>1, <1>2, <1>3, <1>4, <1>5, MemberStep

LEMMA HandFacts ==
  ASSUME IInv, NEW m \in Members, inHand[m] # <<>>
  PROVE  \E t \in Topics : \E place \in 1..Len(log[t]) :
           /\ HandInv(m, t, place)
           /\ RowAt(t, place) \in Rows
           /\ Topic(RowAt(t, place)) = t
<1>1. HandInv(m, inHand[m][1], inHand[m][2])
  BY DEF IInv, MemberInv
<1>2. QED
  BY <1>1, TypesOfRows DEF IInv, ProducerInv, LogInTopic, HandInv, RowAt

LEMMA HandleKeeps == ASSUME IInv, NEW m \in Members, Handle(m) PROVE IInv'
<1>1. PICK t \in Topics : \E place \in 1..Len(log[t]) :
        HandInv(m, t, place) /\ RowAt(t, place) \in Rows /\ Topic(RowAt(t, place)) = t
  BY HandFacts DEF Handle
<1>p. PICK place \in 1..Len(log[t]) :
        HandInv(m, t, place) /\ RowAt(t, place) \in Rows /\ Topic(RowAt(t, place)) = t
  BY <1>1
<1>2. PICK row : row = RowAt(t, place)
  OBVIOUS
<1>u. /\ script' = script /\ marked' = marked /\ next' = next /\ attempt' = attempt
      /\ log' = log /\ owner' = owner /\ position' = position /\ committed' = committed
      /\ inHand' = inHand /\ faults' = faults
  BY DEF Handle, producerVars
<1>3. /\ ClientTypes /\ MemberInv(m) /\ row \in Rows /\ ~ handled[m]
      /\ inHand[m] = <<t, place>>
      /\ \A earlier \in 1..(place - 1) : IsProcessed(RowAt(t, earlier))
  BY <1>p, <1>2 DEF IInv, HandInv, Handle
<1>4. /\ applied' = [applied EXCEPT ![row] = @ + 1]
      /\ handled' = [handled EXCEPT ![m] = TRUE]
  BY <1>2, <1>3 DEF Handle
<1>5. /\ applied'[row] = applied[row] + 1
      /\ \A r \in Rows \ {row} : applied'[r] = applied[r]
      /\ \A r \in Rows : applied[r] \in Nat
      /\ handled'[m] /\ \A k \in Members \ {m} : handled'[k] = handled[k]
  BY <1>3, <1>4 DEF ClientTypes
<1>6. \A r \in Rows : applied'[r] \in Nat /\ applied'[r] >= applied[r]
  BY <1>5
<1>7. ClientTypes'
  BY <1>3, <1>4, <1>u DEF ClientTypes, Rows
<1>8. /\ \A r \in Rows : IsProcessed(r) => IsProcessed(r)'
      /\ \A u \in Topics : \A p \in 1..Len(log[u]) :
           IsProcessed(RowAt(u, p)) => IsProcessed(RowAt(u, p))'
  BY <1>3, <1>6, <1>u, ProcessedStays
<1>9. IsProcessed(row)' /\ \A u, p : RowAt(u, p)' = RowAt(u, p)
  BY <1>3, <1>5, <1>u DEF IsProcessed, RowAt
<1>10. MemberInv(m)'
  <2>1. ASSUME NEW u \in Topics
        PROVE  /\ position'[m][u] <= Len(log'[u])
               /\ \A p \in 1..position'[m][u] : IsProcessed(RowAt(u, p))'
    <3>1. /\ position[m][u] \in Nat /\ Len(log[u]) \in Nat /\ position[m][u] <= Len(log[u])
          /\ \A p \in 1..position[m][u] : IsProcessed(RowAt(u, p)) \/ IsInHand(m, u, p)
      BY <1>3, TypesOfRows DEF MemberInv, ClientTypes
    <3>2. ASSUME NEW p \in 1..position[m][u]
          PROVE  IsProcessed(RowAt(u, p))'
      <4>1. CASE IsInHand(m, u, p)
        BY <4>1, <1>2, <1>3, <1>9 DEF IsInHand
      <4>2. CASE IsProcessed(RowAt(u, p))
        BY <4>2, <3>1, <1>8
      <4>3. QED
        BY <3>1, <4>1, <4>2
    <3>3. QED
      BY <3>1, <3>2, <1>u
  <2>2. HandInv(m, t, place)'
    <3>1. EventAt(t, place)' \notin Unreadable
      BY <1>p, <1>u DEF HandInv, EventAt, RowAt
    <3>2. Len(log[t]) \in Nat
      BY <1>3, TypesOfRows
    <3>3. \A earlier \in 1..(place - 1) : IsProcessed(RowAt(t, earlier))'
      BY <1>3, <1>8, <3>2
    <3>4. QED
      BY <3>1, <3>3, <1>p, <1>2, <1>3, <1>9, <1>u DEF HandInv
  <2>3. inHand'[m] # <<>> /\ inHand'[m][1] = t /\ inHand'[m][2] = place
    BY <1>3, <1>u DEF Handle
  <2>4. QED
    BY <2>1, <2>2, <2>3 DEF MemberInv
<1>11. CommittedInLog' /\ CommittedIsProcessed'
  <2>1. \A u \in Topics : committed[u] \in Nat /\ Len(log[u]) \in Nat
    BY <1>3, TypesOfRows DEF ClientTypes
  <2>2. QED
    BY <2>1, <1>8, <1>u DEF IInv, CommittedInLog, CommittedIsProcessed
<1>12. ProcessedInOrder'
  <2> SUFFICES ASSUME NEW later \in Rows, applied'[later] > 0,
                      NEW r \in 1..later, Topic(r) = Topic(later)
               PROVE  IsProcessed(r)'
    BY <1>u DEF ProcessedInOrder, Topic, Rows
  <2>1. r \in Rows
    BY <1>3, TypesOfRows
  <2>2. CASE later = row
    <3>1. PICK earlier \in 1..place : log[t][earlier] = r
      BY <2>2, <1>p, <1>2 DEF IInv, ProducerInv, NoGaps, RowAt
    <3>2. Len(log[t]) \in Nat
      BY <1>3, TypesOfRows
    <3>3. CASE earlier = place
      BY <3>1, <3>3, <1>2, <1>9 DEF RowAt
    <3>4. CASE earlier # place
      BY <2>1, <3>1, <3>2, <3>4, <1>3, <1>8 DEF RowAt
    <3>5. QED
      BY <3>3, <3>4
  <2>3. CASE later # row
    <3>1. IsProcessed(r)
      BY <2>3, <1>5 DEF IInv, ProcessedInOrder, Topic, Rows
    <3>2. QED
      BY <2>1, <3>1, <1>8
  <2>4. QED
    BY <2>2, <2>3
<1>13. NoFaultInv'
  <2> SUFFICES ASSUME faults = 0
               PROVE  NoFaultInv'
    BY <1>u DEF NoFaultInv
  <2>1. NoFaultInv
    BY DEF IInv
  <2>2. m = owner /\ IsInHand(m, t, place) /\ place <= position[owner][t]
    BY <2>1, <1>3 DEF NoFaultInv, IsInHand
  <2>3. applied[row] = 0 /\ row < next
    BY <2>1, <2>2, <1>2 DEF NoFaultInv, RowAt
  <2>4. \A r \in Rows : applied'[r] <= 1 /\ (r >= next => applied'[r] = 0)
    <3>1. \A r \in Rows : applied[r] <= 1 /\ (r >= next => applied[r] = 0)
      BY <2>1 DEF NoFaultInv
    <3>2. next \in Nat /\ row \in Nat
      <4>1. Rows \subseteq Nat
        BY <1>3, TypesOfRows
      <4>2. QED
        BY <4>1, <1>3 DEF ClientTypes
    <3>3. applied'[row] = 1 /\ ~ row >= next
      BY <2>3, <3>2, <1>5
    <3>4. \A r \in Rows \ {row} : applied'[r] <= 1 /\ (r >= next => applied'[r] = 0)
      BY <3>1, <1>5
    <3>5. QED
      BY <3>3, <3>4
  <2>5. ASSUME NEW u \in Topics, NEW p \in 1..Len(log[u]),
               position[owner][u] < p \/ IsInHand(owner, u, p)'
        PROVE  applied'[log[u][p]] = 0
    <3>1. position[owner][u] < p
      BY <2>2, <2>5, <1>5, <1>u DEF IsInHand
    <3>2. log[u][p] \in Rows /\ applied[log[u][p]] = 0
      BY <2>1, <3>1, <1>3, TypesOfRows DEF NoFaultInv
    <3>3. CASE log[u][p] = row
      <4>1. u = t
        BY <3>3, <1>p, <1>2 DEF IInv, ProducerInv, LogInTopic
      <4>2. p = place
        BY <2>1, <3>3, <4>1, <1>2 DEF NoFaultInv, RowAt
      <4>3. position[owner][t] \in Nat /\ Len(log[t]) \in Nat
        BY <1>3, TypesOfRows DEF ClientTypes
      <4>4. QED
        BY <2>2, <3>1, <4>1, <4>2, <4>3
    <3>4. CASE log[u][p] # row
      BY <3>2, <3>4, <1>5
    <3>5. QED
      BY <3>3, <3>4
  <2>6. QED
    BY <2>1, <2>4, <2>5, <1>u DEF NoFaultInv, Rows
<1>14. QED
  <2>1. UNCHANGED <<producerVars, log>>
    BY <1>u DEF producerVars
  <2>2. QED
    BY <2>1, <1>u, <1>5, <1>6, <1>7, <1>10, <1>11, <1>12, <1>13, MemberStep

\* What the group has committed is processed: whoever begins there misses nothing.
LEMMA BeginsAtCommitted ==
  ASSUME IInv, UNCHANGED <<script, log, applied>>, NEW m \in Members,
         position' = [position EXCEPT ![m] = committed]
  PROVE  /\ position' \in [Members -> [Topics -> Nat]]
         /\ \A k \in Members \ {m} : position'[k] = position[k]
         /\ \A t \in Topics :
              /\ position'[m][t] <= Len(log'[t])
              /\ \A place \in 1..position'[m][t] : IsProcessed(RowAt(t, place))'
         /\ CommittedInLog /\ CommittedIsProcessed
<1>1. ClientTypes /\ CommittedInLog /\ CommittedIsProcessed
  BY DEF IInv
<1>2. position'[m] = committed
  BY <1>1 DEF ClientTypes
<1>3. QED
  BY <1>1, <1>2 DEF ClientTypes, CommittedInLog, CommittedIsProcessed, IsProcessed, RowAt

\* A step that neither sends nor processes.
LEMMA QuietStep ==
  ASSUME IInv, UNCHANGED <<producerVars, log, applied>>, NEW m \in Members,
         \A k \in Members \ {m} : /\ position'[k] = position[k]
                                  /\ inHand'[k] = inHand[k] /\ handled'[k] = handled[k],
         ClientTypes', MemberInv(m)', CommittedInLog', CommittedIsProcessed', NoFaultInv'
  PROVE  IInv'
<1>1. \A row \in Rows : applied'[row] \in Nat /\ applied'[row] >= applied[row]
  BY DEF IInv, ClientTypes
<1>2. ProcessedInOrder'
  BY DEF IInv, ProcessedInOrder, IsProcessed, producerVars
<1>3. QED
  BY <1>1, <1>2, MemberStep

LEMMA CommitOffsetKeeps ==
  ASSUME IInv, NEW m \in Members, CommitOffset(m)
  PROVE  IInv'
<1>u. /\ script' = script /\ marked' = marked /\ next' = next /\ attempt' = attempt
      /\ log' = log /\ owner' = owner /\ position' = position
      /\ applied' = applied /\ faults' = faults /\ handled[m]
  BY DEF CommitOffset, producerVars
<1>1. ClientTypes /\ MemberInv(m) /\ inHand[m] # <<>>
  BY <1>u DEF IInv, MemberInv
<1>2. HandInv(m, inHand[m][1], inHand[m][2])
  BY <1>1 DEF MemberInv
<1>3. /\ inHand' = [inHand EXCEPT ![m] = <<>>] /\ handled' = [handled EXCEPT ![m] = FALSE]
  BY DEF CommitOffset, LetGo
<1>4. /\ inHand'[m] = <<>> /\ ~ handled'[m]
      /\ \A k \in Members \ {m} : inHand'[k] = inHand[k] /\ handled'[k] = handled[k]
  BY <1>1, <1>3 DEF ClientTypes
<1>5. \A t \in Topics :
        /\ position[m][t] \in Nat /\ position[m][t] <= Len(log[t])
        /\ \A place \in 1..position[m][t] : IsProcessed(RowAt(t, place))
  BY <1>1, <1>u DEF ClientTypes, MemberInv, IsInHand
<1>6. PICK t \in Topics : \E place \in 1..Len(log[t]) :
        inHand[m] = <<t, place>> /\ HandInv(m, t, place)
  BY <1>2 DEF HandInv
<1>7. PICK place \in 1..Len(log[t]) : inHand[m] = <<t, place>> /\ HandInv(m, t, place)
  BY <1>6
<1>8. /\ \A earlier \in 1..place : IsProcessed(RowAt(t, earlier))
      /\ Len(log[t]) \in Nat /\ place \in Nat
  <2>1. Len(log[t]) \in Nat
    BY <1>1, TypesOfRows
  <2>2. QED
    BY <2>1, <1>7, <1>u DEF HandInv
<1>9. committed' \in [Topics -> Nat] /\ CommittedInLog' /\ CommittedIsProcessed'
  <2>1. CASE owner = m
    <3>1. committed' = [position[m] EXCEPT ![t] = place]
      BY <2>1, <1>7 DEF CommitOffset
    <3>2. /\ committed' \in [Topics -> Nat] /\ committed'[t] = place
          /\ \A u \in Topics \ {t} : committed'[u] = position[m][u]
      BY <3>1, <1>1, <1>8 DEF ClientTypes
    <3>3. CommittedInLog'
      BY <3>2, <1>5, <1>7, <1>8, <1>u DEF CommittedInLog
    <3>4. CommittedIsProcessed'
      BY <3>2, <1>5, <1>8, <1>u DEF CommittedIsProcessed, IsProcessed, RowAt
    <3>5. QED
      BY <3>2, <3>3, <3>4
  <2>2. CASE owner # m
    <3>1. committed' = committed
      BY <2>2 DEF CommitOffset
    <3>2. QED
      BY <3>1, <1>1, <1>u
      DEF IInv, ClientTypes, CommittedInLog, CommittedIsProcessed, IsProcessed, RowAt
  <2>3. QED
    BY <2>1, <2>2
<1>10. ClientTypes'
  BY <1>1, <1>3, <1>9, <1>u DEF ClientTypes, Rows
<1>11. MemberInv(m)'
  BY <1>4, <1>5, <1>u DEF MemberInv, IsProcessed, RowAt
<1>12. NoFaultInv'
  <2> SUFFICES ASSUME faults = 0
               PROVE  NoFaultInv'
    BY <1>u DEF NoFaultInv
  <2>1. NoFaultInv /\ m = owner
    BY <1>1 DEF IInv, NoFaultInv
  <2>2. \A u, p : ~ IsInHand(owner, u, p)'
    BY <2>1, <1>4, <1>u DEF IsInHand
  <2>3. \A k \in Members : inHand'[k] = <<>>
    BY <2>1, <1>4 DEF NoFaultInv
  <2>4. owner \in Members
    BY <1>1 DEF ClientTypes
  <2>5. QED
    BY <2>1, <2>2, <2>3, <2>4, <1>u DEF NoFaultInv, Rows
<1>13. QED
  <2>1. UNCHANGED <<producerVars, log, applied>>
    BY <1>u DEF producerVars
  <2>2. QED
    BY <2>1, <1>u, <1>4, <1>9, <1>10, <1>11, <1>12, QuietStep

LEMMA RestartKeeps ==
  ASSUME IInv, NEW m \in Members, Restart(m)
  PROVE  IInv'
<1>u. /\ script' = script /\ marked' = marked /\ next' = next /\ attempt' = attempt
      /\ log' = log /\ owner' = owner /\ committed' = committed /\ applied' = applied
      /\ position' = [position EXCEPT ![m] = committed]
      /\ inHand' = [inHand EXCEPT ![m] = <<>>] /\ handled' = [handled EXCEPT ![m] = FALSE]
      /\ Fault
  BY DEF Restart, LetGo, producerVars
<1>1. ClientTypes /\ faults' \in Nat /\ faults' # 0
  BY <1>u, FaultFacts DEF IInv
<1>2. /\ inHand'[m] = <<>> /\ ~ handled'[m]
      /\ \A k \in Members \ {m} : inHand'[k] = inHand[k] /\ handled'[k] = handled[k]
  BY <1>1, <1>u DEF ClientTypes
<1>3. /\ position' \in [Members -> [Topics -> Nat]]
      /\ \A k \in Members \ {m} : position'[k] = position[k]
      /\ \A t \in Topics :
           /\ position'[m][t] <= Len(log'[t])
           /\ \A place \in 1..position'[m][t] : IsProcessed(RowAt(t, place))'
      /\ CommittedInLog /\ CommittedIsProcessed
  BY <1>u, BeginsAtCommitted
<1>4. ClientTypes'
  BY <1>1, <1>3, <1>u DEF ClientTypes, Rows
<1>5. MemberInv(m)'
  BY <1>2, <1>3 DEF MemberInv
<1>6. CommittedInLog' /\ CommittedIsProcessed' /\ NoFaultInv'
  BY <1>1, <1>3, <1>u
  DEF CommittedInLog, CommittedIsProcessed, IsProcessed, RowAt, NoFaultInv
<1>7. UNCHANGED <<producerVars, log, applied>>
  BY <1>u DEF producerVars
<1>8. QED
  BY <1>2, <1>3, <1>4, <1>5, <1>6, <1>7, QuietStep

LEMMA RebalanceKeeps ==
  ASSUME IInv, NEW m \in Members, Rebalance(m)
  PROVE  IInv'
<1>u. /\ script' = script /\ marked' = marked /\ next' = next /\ attempt' = attempt
      /\ log' = log /\ owner' = m /\ committed' = committed /\ applied' = applied
      /\ position' = [position EXCEPT ![m] = committed]
      /\ inHand' = inHand /\ handled' = handled
      /\ Fault
  BY DEF Rebalance, producerVars
<1>1. ClientTypes /\ MemberInv(m) /\ faults' \in Nat /\ faults' # 0
  BY <1>u, FaultFacts DEF IInv
<1>3. /\ position' \in [Members -> [Topics -> Nat]]
      /\ \A k \in Members \ {m} : position'[k] = position[k]
      /\ \A t \in Topics :
           /\ position'[m][t] <= Len(log'[t])
           /\ \A place \in 1..position'[m][t] : IsProcessed(RowAt(t, place))'
      /\ CommittedInLog /\ CommittedIsProcessed
  BY <1>u, BeginsAtCommitted
<1>4. ClientTypes'
  BY <1>1, <1>3, <1>u DEF ClientTypes, Rows
<1>5. MemberInv(m)'
  <2>1. ASSUME NEW t, NEW place, HandInv(m, t, place)
        PROVE  HandInv(m, t, place)'
    BY <2>1, <1>u DEF HandInv, EventAt, RowAt, IsProcessed
  <2>2. QED
    BY <2>1, <1>1, <1>3, <1>u DEF MemberInv
<1>6. CommittedInLog' /\ CommittedIsProcessed' /\ NoFaultInv'
  BY <1>1, <1>3, <1>u
  DEF CommittedInLog, CommittedIsProcessed, IsProcessed, RowAt, NoFaultInv
<1>7. UNCHANGED <<producerVars, log, applied>>
  BY <1>u DEF producerVars
<1>8. QED
  BY <1>3, <1>4, <1>5, <1>6, <1>7, <1>u, QuietStep

-----------------------------------------------------------------------------
LEMMA InitInv == Init => IInv
<1> SUFFICES ASSUME Init PROVE IInv
  OBVIOUS
<1>0. Len(script) \in Nat /\ Rows = 1..Len(script)
  BY ScriptFacts DEF Init
<1>1. ClientTypes
  BY <1>0, FaultAssumption DEF Init, ClientTypes, Rows
<1>2. \A t \in Topics : Len(log[t]) = 0
  BY DEF Init
<1>3. ProducerInv
  BY <1>0, <1>2 DEF Init, ProducerInv, LogInTopic, SentSoFar, NoGaps
<1>4. \A m \in Members : MemberInv(m)
  BY <1>2 DEF Init, MemberInv
<1>5. CommittedInLog /\ CommittedIsProcessed /\ ProcessedInOrder
  BY <1>2 DEF Init, CommittedInLog, CommittedIsProcessed, ProcessedInOrder
<1>6. NoFaultInv
  BY <1>0, <1>1, <1>2 DEF Init, NoFaultInv, Rows, ClientTypes
<1>7. QED
  BY <1>1, <1>3, <1>4, <1>5, <1>6 DEF IInv

LEMMA StutterKeeps == ASSUME IInv, UNCHANGED vars PROVE IInv'
<1> USE DEF vars, producerVars, consumerVars, memberVars
<1>1. ClientTypes' /\ ProducerInv' /\ CommittedInLog' /\ CommittedIsProcessed'
  BY DEF IInv, ClientTypes, ProducerInv, LogInTopic, SentSoFar, NoGaps, Topic, Rows,
         CommittedInLog, CommittedIsProcessed, IsProcessed, RowAt
<1>2. \A m \in Members : MemberInv(m)'
  BY DEF IInv, MemberInv, HandInv, IsInHand, IsProcessed, RowAt, EventAt
<1>3. ProcessedInOrder' /\ NoFaultInv'
  BY DEF IInv, ProcessedInOrder, IsProcessed, NoFaultInv, Rows, IsInHand
<1>4. QED
  BY <1>1, <1>2, <1>3 DEF IInv

LEMMA DeliverKeeps == ASSUME IInv, Deliver PROVE IInv'
BY PublishKeeps, DeliveredKeeps, CommitBatchKeeps, TransientErrorKeeps, PermanentErrorKeeps,
   ReceiveKeeps, SkipUnreadableKeeps, CommitOffsetKeeps, RestartKeeps, RebalanceKeeps
DEF Deliver

LEMMA NextKeeps == IInv /\ [Next]_vars => IInv'
BY DeliverKeeps, HandleKeeps, StutterKeeps DEF Next

LEMMA Invariance == Spec => []IInv
BY InitInv, NextKeeps, PTL DEF Spec

\* A failure is the only way to an event processed twice.
LEMMA OnceWithoutFaults == IInv => DuplicatesNeedFaults
BY DEF IInv, NoFaultInv, DuplicatesNeedFaults, Rows

\* "commit only after successful processing": the committed offset never runs ahead of
\* the processing, through restarts and rebalances at any point.
THEOREM CommitFollowsProcessing == Spec => []CommittedIsProcessed
<1>1. IInv => CommittedIsProcessed
  BY DEF IInv
<1>2. QED
  BY Invariance, <1>1, PTL

\* Retries of publish, batches begun again, restarts and rebalances repeat events, but
\* none is processed ahead of an earlier one of its entity and topic.
THEOREM OrderPerTopic == Spec => []ProcessedInOrder
<1>1. IInv => ProcessedInOrder
  BY DEF IInv
<1>2. QED
  BY Invariance, <1>1, PTL

\* Without an error, a crash or a rebalance every event is processed at most once.
THEOREM OnceUnlessFaults == Spec => []DuplicatesNeedFaults
BY Invariance, OnceWithoutFaults, PTL

-----------------------------------------------------------------------------
(* Payments.  What a status stands for has been processed: each status but *)
(* the first is reached by events, and an event that was processed stays   *)
(* so.                                                                     *)

StatusInv ==
  /\ status \in {"Validating", "FraudCheck", "FxConversion", "SettlementSubmitted",
                 "Settled", "Refunded"} => Seen("ValidationPassed")
  /\ status \in {"FraudCheck", "FxConversion", "SettlementSubmitted",
                 "Settled", "Refunded"} => Seen("FraudApproved")
  /\ status \in {"Settled", "Refunded"} => Seen("RailSettled")

LEMMA SuccessorIsTransition ==
  ASSUME NEW s, NEW e, NEW t \in Successors(s, e)
  PROVE  t = s \/ <<s, e, t>> \in Transitions
BY DEF Successors, Transitions

\* A step that keeps the status loses none of what it stands for.
LEMMA SeenStays ==
  ASSUME ClientTypes, UNCHANGED script,
         \A row \in Rows : applied'[row] \in Nat /\ applied'[row] >= applied[row]
  PROVE  \A e : Seen(e) => Seen(e)'
BY DEF Seen, ClientTypes, Rows

LEMMA DeliverApplies == ASSUME Deliver PROVE UNCHANGED <<script, applied>>
BY DEF Deliver, Publish, Delivered, CommitBatch, TransientError, PermanentError,
       Receive, SkipUnreadable, CommitOffset, Restart, Rebalance,
       consumerVars, producerVars

LEMMA HandleApplies ==
  ASSUME IInv, NEW m \in Members, Handle(m)
  PROVE  /\ script' = script
         /\ \A row \in Rows : applied'[row] \in Nat /\ applied'[row] >= applied[row]
         /\ Seen(EventAt(inHand[m][1], inHand[m][2]))'
<1>1. HandInv(m, inHand[m][1], inHand[m][2]) /\ ClientTypes
  BY DEF IInv, MemberInv, Handle
<1>2. PICK row : row = RowAt(inHand[m][1], inHand[m][2])
  OBVIOUS
<1>3. row \in Rows
  BY <1>1, <1>2, TypesOfRows DEF HandInv, RowAt
<1>4. applied' = [applied EXCEPT ![row] = @ + 1] /\ UNCHANGED <<script, log, inHand>>
  BY <1>2 DEF Handle, producerVars
<1>5. applied[row] \in Nat /\ applied'[row] = applied[row] + 1
  BY <1>1, <1>3, <1>4 DEF ClientTypes
<1>6. script'[row] = EventAt(inHand[m][1], inHand[m][2])'
  BY <1>2, <1>4 DEF EventAt, RowAt
<1>7. QED
  BY <1>1, <1>3, <1>4, <1>5, <1>6 DEF ClientTypes, Seen, Rows

LEMMA ProcessKeepsStatus ==
  ASSUME IInv, StatusInv, NEW m \in Members, Process(m)
  PROVE  StatusInv'
<1>1. PICK e : e = EventAt(inHand[m][1], inHand[m][2])
  OBVIOUS
<1>2. /\ \A d : Seen(d) => Seen(d)'
      /\ Seen(e)'
  <2>1. EventAt(inHand[m][1], inHand[m][2])' = EventAt(inHand[m][1], inHand[m][2])
    BY DEF Process, Handle, producerVars, EventAt, RowAt
  <2>2. QED
    BY <1>1, <2>1, HandleApplies, SeenStays DEF IInv, Process, Seen
<1>3. status' = status \/ <<status, e, status'>> \in Transitions
  BY <1>1, SuccessorIsTransition DEF Process
<1>4. QED
  BY <1>2, <1>3 DEF StatusInv, Transitions

LEMMA PaymentInvariance == PaymentSpec => [](IInv /\ StatusInv)
<1>1. PaymentInit => IInv /\ StatusInv
  BY InitInv DEF PaymentInit, StatusInv
<1>2. IInv /\ StatusInv /\ [PaymentNext]_paymentVars => (IInv /\ StatusInv)'
  <2> SUFFICES ASSUME IInv, StatusInv, [PaymentNext]_paymentVars
               PROVE  IInv' /\ StatusInv'
    OBVIOUS
  <2>1. CASE Deliver /\ UNCHANGED status
    BY <2>1, DeliverKeeps, DeliverApplies DEF StatusInv, Seen
  <2>2. ASSUME NEW m \in Members, Process(m)
        PROVE  IInv' /\ StatusInv'
    BY <2>2, HandleKeeps, ProcessKeepsStatus DEF Process
  <2>3. CASE UNCHANGED paymentVars
    BY <2>3, StutterKeeps DEF paymentVars, vars, producerVars, consumerVars, StatusInv, Seen
  <2>4. QED
    BY <2>1, <2>2, <2>3 DEF PaymentNext
<1>3. QED
  BY <1>1, <1>2, PTL DEF PaymentSpec

\* A payment is settled, or refunded, only once its validation, the approval of fraud
\* control and the confirmation of the rail were processed, in whatever order the
\* topics deliver and whatever they repeat.
THEOREM SettlementNeedsApproval == PaymentSpec => []SettledWasApproved
<1>1. StatusInv => SettledWasApproved
  BY DEF StatusInv, SettledWasApproved
<1>2. QED
  BY PaymentInvariance, <1>1, PTL

\* Under payments the clients behave as they do for any caller, so that what holds of
\* them holds here.
THEOREM PaymentsAreClients == PaymentSpec => Spec
<1>1. PaymentInit => Init
  BY DEF PaymentInit
<1>2. [PaymentNext]_paymentVars => [Next]_vars
  BY DEF PaymentNext, Process, Next, paymentVars
<1>3. QED
  BY <1>1, <1>2, PTL DEF PaymentSpec, Spec
=============================================================================
