---------------------------- MODULE KafkaClients ----------------------------
(***************************************************************************)
(* The Kafka wrappers of the services (crates/kova-kafka/src): publish of  *)
(* KovaKafkaProducer, called as process_batch of the outbox worker calls   *)
(* it, and the loop over KovaKafkaConsumer that lib.rs documents (receive, *)
(* process, commit the offset), run by the members of a consumer group.    *)
(* The events are those of one entity: in every topic they lie in one      *)
(* partition, the one of their key, and the group's assignor ("range")     *)
(* gives the partitions of one number to one member.                       *)
(***************************************************************************)
EXTENDS Integers, Sequences

CONSTANTS
  Scripts,    \* the events that may be published, in sequences
  Topics,
  TopicOf,    \* of each event
  Unreadable, \* events that the consumer cannot deserialise
  Members,    \* of the consumer group
  MaxRetries, \* MAX_RETRIES
  MaxFaults   \* bound, for each script: errors, crashes and rebalances

ASSUME ScriptAssumption ==
  \A s \in Scripts : /\ s \in Seq({s[i] : i \in DOMAIN s})
                     /\ \A i \in DOMAIN s : TopicOf[s[i]] \in Topics
ASSUME RetryAssumption == MaxRetries \in Nat \ {0}
ASSUME FaultAssumption == MaxFaults \in [Scripts -> Nat]

VARIABLES
  script,    \* the events to be published, one row of the outbox each
  marked,    \* how many rows have a committed published_at
  next,      \* the row that process_batch is at
  attempt,   \* the attempt that publish is at, 0 while it is not called
  log,       \* the partition of each topic: numbers of rows
  owner,     \* the member that the partitions are assigned to
  position,  \* of each member: how much of each partition it has received
  inHand,    \* the message it has, as <<topic, place>>, or <<>>
  handled,   \* whether it has processed that
  committed, \* the offsets of the group
  applied,   \* how often the event of each row was processed
  faults

producerVars == <<script, marked, next, attempt>>
memberVars   == <<position, inHand, handled>>
consumerVars == <<owner, memberVars, committed, applied>>
vars         == <<producerVars, log, consumerVars, faults>>

Init ==
  /\ script \in Scripts
  /\ marked = 0
  /\ next = 1
  /\ attempt = 0
  /\ log = [t \in Topics |-> <<>>]
  /\ owner \in Members
  /\ position = [m \in Members |-> [t \in Topics |-> 0]]
  /\ inHand = [m \in Members |-> <<>>]
  /\ handled = [m \in Members |-> FALSE]
  /\ committed = [t \in Topics |-> 0]
  /\ applied = [n \in DOMAIN script |-> 0]
  /\ faults = 0

Fault == faults < MaxFaults[script] /\ faults' = faults + 1

-----------------------------------------------------------------------------
(* KovaKafkaProducer::publish and the batch around it. *)

\* publish is called with the next row of the batch.
Publish ==
  /\ next <= Len(script)
  /\ attempt = 0
  /\ attempt' = 1
  /\ UNCHANGED <<script, marked, next, log, consumerVars, faults>>

Sent == [log EXCEPT ![TopicOf[script[next]]] = Append(@, next)]

\* All replicas of the broker have the message: Ok.
Delivered ==
  /\ attempt # 0
  /\ log' = Sent
  /\ next' = next + 1
  /\ attempt' = 0
  /\ UNCHANGED <<script, marked, consumerVars, faults>>

CommitBatchButLast ==
  /\ attempt = 0
  /\ marked < next - 1
  /\ marked' = next - 2
  /\ next' = next - 1
  /\ UNCHANGED <<script, attempt, log, consumerVars, faults>>

\* The end of the batch, which holds the rows that were there when it was read.
CommitBatch ==
  /\ attempt = 0
  /\ marked < next - 1
  /\ marked' = next - 1
  /\ UNCHANGED <<script, next, attempt, log, consumerVars, faults>>

\* publish returns an error and the batch starts again.
Abandon == attempt' = 0 /\ next' = marked + 1

AfterTransientSkipping ==
  IF attempt < MaxRetries THEN attempt' = attempt + 1 /\ UNCHANGED next
                          ELSE attempt' = 0 /\ next' = next + 1

\* publish tries again; after MaxRetries attempts it returns RetriesExhausted.
AfterTransient ==
  IF attempt < MaxRetries THEN attempt' = attempt + 1 /\ UNCHANGED next
                          ELSE Abandon

\* MessageTimedOut and the like (is_transient): the broker may have the message
\* all the same, and takes the next attempt for another one.
TransientError ==
  /\ attempt # 0
  /\ Fault
  /\ log' \in {log, Sent}
  /\ AfterTransient
  /\ UNCHANGED <<script, marked, consumerVars>>

\* Any other error goes to the caller at once; the transaction of the batch may
\* fail as well, or the worker.
PermanentError ==
  /\ attempt # 0 \/ marked < next - 1
  /\ Fault
  /\ Abandon
  /\ UNCHANGED <<script, marked, log, consumerVars>>

-----------------------------------------------------------------------------
(* The loop over KovaKafkaConsumer::consume. *)

RowAt(t, place) == log[t][place]
EventAt(t, place) == script[RowAt(t, place)]

\* The stream of m is asked for its next message, and t has one.
CanReceive(m, t) ==
  /\ owner = m
  /\ inHand[m] = <<>>
  /\ position[m][t] < Len(log[t])

\* A message comes in with its event.
Receive(m, t) ==
  /\ CanReceive(m, t)
  /\ EventAt(t, position[m][t] + 1) \notin Unreadable
  /\ inHand' = [inHand EXCEPT ![m] = <<t, position[m][t] + 1>>]
  /\ position' = [position EXCEPT ![m][t] = @ + 1]
  /\ UNCHANGED <<producerVars, log, owner, handled, committed, applied, faults>>

\* Err(Deserialize) comes without the message, whose offset cannot be committed;
\* the caller goes on to the next.
SkipUnreadable(m, t) ==
  /\ CanReceive(m, t)
  /\ EventAt(t, position[m][t] + 1) \in Unreadable
  /\ position' = [position EXCEPT ![m][t] = @ + 1]
  /\ UNCHANGED <<producerVars, log, owner, inHand, handled, committed, applied, faults>>

\* The caller processes the event.
Handle(m) ==
  /\ inHand[m] # <<>>
  /\ ~ handled[m]
  /\ handled' = [handled EXCEPT ![m] = TRUE]
  /\ applied' = [applied EXCEPT ![RowAt(inHand[m][1], inHand[m][2])] = @ + 1]
  /\ UNCHANGED <<producerVars, log, owner, position, inHand, committed, faults>>

LetGo(m) ==
  /\ inHand' = [inHand EXCEPT ![m] = <<>>]
  /\ handled' = [handled EXCEPT ![m] = FALSE]

CommitOffsetReceived(m) ==
  /\ handled[m]
  /\ committed' = [t \in Topics |-> IF owner = m THEN Len(log[t]) ELSE committed[t]]
  /\ LetGo(m)
  /\ UNCHANGED <<producerVars, log, owner, position, applied, faults>>

\* commit_offset: store the offset of the message (the broker keeps the one after
\* it) and commit what is stored, which by the default of rdkafka is all that the
\* member has received, skipped messages included.  The broker takes no offset
\* from a member that has lost the partition.
CommitOffset(m) ==
  /\ handled[m]
  /\ committed' = IF owner = m
                  THEN [position[m] EXCEPT ![inHand[m][1]] = inHand[m][2]]
                  ELSE committed
  /\ LetGo(m)
  /\ UNCHANGED <<producerVars, log, owner, position, applied, faults>>

\* A crash, or an error that ends the loop, CommitFailed among them: the member
\* comes back at the committed offsets.
Restart(m) ==
  /\ Fault
  /\ LetGo(m)
  /\ position' = [position EXCEPT ![m] = committed]
  /\ UNCHANGED <<producerVars, log, owner, committed, applied>>

\* Another member gets the partitions; the one that had them does not know until
\* it commits.
Rebalance(m) ==
  /\ owner # m
  /\ Fault
  /\ owner' = m
  /\ position' = [position EXCEPT ![m] = committed]
  /\ UNCHANGED <<producerVars, log, inHand, handled, committed, applied>>

\* All but the processing of an event.
Deliver ==
  \/ Publish \/ Delivered \/ CommitBatch \/ TransientError \/ PermanentError
  \/ \E m \in Members :
       \/ \E t \in Topics : Receive(m, t) \/ SkipUnreadable(m, t)
       \/ CommitOffset(m) \/ Restart(m) \/ Rebalance(m)

Next == Deliver \/ \E m \in Members : Handle(m)

Spec == Init /\ [][Next]_vars

-----------------------------------------------------------------------------
(* Properties. *)

IsProcessed(row) == script[row] \in Unreadable \/ applied[row] > 0

\* "commit only after successful processing" (consumer.rs:40): what lies before the
\* committed offset was processed, or could not be read, whoever has received it.
CommittedIsProcessed ==
  \A t \in Topics : \A place \in 1..committed[t] : IsProcessed(RowAt(t, place))

\* "partitioning keeps all events for one entity on the same partition"
\* (producer.rs:53): through retries, batches begun again, crashes and rebalances,
\* no event is processed ahead of an earlier one of its entity and topic.
ProcessedInOrder ==
  \A later \in DOMAIN script : applied[later] > 0 =>
    \A row \in 1..later : TopicOf[script[row]] = TopicOf[script[later]] => IsProcessed(row)

\* "enable.idempotence" (producer.rs:40) does not span the attempts of publish, and
\* offsets follow the processing: delivery is at least once.  But nothing is
\* processed twice unless something fails.
DuplicatesNeedFaults == faults = 0 => \A row \in DOMAIN script : applied[row] <= 1
=============================================================================
