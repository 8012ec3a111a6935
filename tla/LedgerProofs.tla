---------------------------- MODULE LedgerProofs ----------------------------
(***************************************************************************)
(* Proofs about LedgerPosting, and about Ledger, in which it meets the     *)
(* workers of LedgerOutbox.                                                *)
(*                                                                         *)
(* Of a posting the argument is the life of a row.  Until its transaction  *)
(* ends, the row a call inserted is in pending and keeps its key: no other *)
(* row, pending or committed, has it (KeyLock).  So the commit of a row    *)
(* never meets another one with its key, and a call that lost its key to a *)
(* committed row finds that row for ever after.                            *)
(*                                                                         *)
(* The postings and the workers share the table ledger_outbox and nothing  *)
(* else, so each half, seen through its own variables, does what it does   *)
(* alone: Ledger implements LedgerPosting and LedgerOutbox, and what is    *)
(* proved of those two holds of the service.  To the workers a posting is  *)
(* a row that appears when it is committed.  That it is one row, a new     *)
(* one, and one of those that the table may come to hold, is what the      *)
(* invariant of the postings is needed for.                                *)
(***************************************************************************)
EXTENDS Ledger, FiniteSetTheorems, TLAPS

OutboxFacts == INSTANCE LedgerOutboxProofs WITH
  Rows    <- 1..Cardinality(Calls),
  visible <- {o.at : o \in outbox}

-----------------------------------------------------------------------------
(* The postings. *)

InTransaction == {"enqueueing", "committing"}

\* The rows of open transactions are those of the calls in one, and of calls
\* that are over and not rolled back yet.
PendingOwned ==
  /\ \A e \in pending : /\ e.id \in Calls
                        /\ e = RowOf(e.id)
                        /\ pc[e.id] \in InTransaction \cup {"done"}
  /\ \A c \in Calls : pc[c] \in InTransaction => RowOf(c) \in pending

QueuedOwned ==
  /\ \A o \in queued : /\ RowOf(o.entry) \in pending
                       /\ pc[o.entry] \in {"committing", "done"}
  /\ \A c \in Calls : pc[c] = "committing" => \E o \in queued : o.entry = c

CommittedOwned ==
  \A e \in entries : \/ e.id \in Legacy /\ e.hash = NullHash
                     \/ e.id \in Calls /\ e = RowOf(e.id) /\ pc[e.id] = "done"

KeyLock == \A d, e \in pending \cup entries : SameKey(d.key, e.key) => d = e

\* created_at tells the outbox rows apart, and each belongs to another entry.
Stamped ==
  /\ \A o \in queued \cup outbox : o.at <= inserts
  /\ \A o, p \in queued \cup outbox : o.entry = p.entry \/ o.at = p.at => o = p

EventOfEntry == {e.id : e \in entries} \ Legacy = {o.entry : o \in outbox}

Asked ==
  \A c \in Calls : /\ pc[c] # "idle" => request[c] \in Requests
                   /\ pc[c] \notin {"idle", "done"} => Valid(request[c])

Answers ==
  \A c \in Calls :
    /\ answer[c].kind # "none" => pc[c] = "done"
    /\ answer[c].kind = "posted" => answer[c].id = c /\ RowOf(c) \in entries

IInv == /\ TypeOK
        /\ Asked
        /\ PendingOwned
        /\ QueuedOwned
        /\ CommittedOwned
        /\ KeyLock
        /\ Stamped
        /\ EventOfEntry
        /\ LookUpFindsRow
        /\ Answers
        /\ AcknowledgedIsDurable
        /\ RefusalJustified

-----------------------------------------------------------------------------
(* The conjuncts of the invariant, as seen by an action. *)

\* The rows of calls that began and pass the checks are well formed.
LEMMA RowTyped ==
  ASSUME TypeOK, Asked, NEW c \in Calls, pc[c] \notin {"idle", "done"},
         MeetsChecks(Hash(request[c]))
  PROVE  RowOf(c) \in Row /\ Hash(request[c]) \in Hashes
<1>1. request[c] \in Request
  BY RequestsAssumption DEF Asked
<1>2. Micros(now[c]) \in Nat
  BY DEF Micros, TypeOK
<1>3. Hash(request[c]) \in {h \in Hashes : MeetsChecks(h)}
  BY <1>1 DEF Hash, Hashes, Request
<1>4. RowOf(c).hash \in {h \in Hashes : MeetsChecks(h)} \cup {NullHash}
  BY <1>3 DEF RowOf
<1>5. QED
  BY <1>1, <1>2, <1>3, <1>4 DEF RowOf, Row, Request, Ids

LEMMA InitInv == Init => IInv
<1> SUFFICES ASSUME Init PROVE IInv
  OBVIOUS
<1>1. TypeOK
  BY LegacyAssumption DEF Init, TypeOK, Row, Ids, NoAnswer, Answer
<1>2. KeyLock
  BY LegacyAssumption DEF Init, KeyLock, SameKey
<1>3. CommittedOwned
  BY DEF Init, CommittedOwned
<1>4. EventOfEntry
  BY DEF Init, EventOfEntry
<1>5. Asked /\ PendingOwned /\ QueuedOwned /\ Stamped /\ LookUpFindsRow
  BY DEF Init, Asked, PendingOwned, QueuedOwned, Stamped, LookUpFindsRow, InTransaction
<1>6. Answers /\ AcknowledgedIsDurable /\ RefusalJustified
  BY DEF Init, Answers, AcknowledgedIsDurable, RefusalJustified, NoAnswer, Succeeded
<1>7. QED
  BY <1>1, <1>2, <1>3, <1>4, <1>5, <1>6 DEF IInv

\* A row is a function of what its call was asked and when.
LEMMA RowFields ==
  ASSUME NEW c \in Calls
  PROVE  /\ RowOf(c).id = c
         /\ RowOf(c).key = request[c].key
         /\ RowOf(c).hash = Hash(request[c])
BY DEF RowOf

LEMMA RowKept ==
  ASSUME NEW c, request'[c] = request[c], now'[c] = now[c]
  PROVE  RowOf(c)' = RowOf(c)
BY DEF RowOf

(***************************************************************************)
(* InsertDuplicate, LookUp and Fail leave the tables and the transactions  *)
(* alone: one call moves on and, if it ends, gets an answer that the       *)
(* ledger justifies.                                                       *)
(***************************************************************************)
LEMMA QuietInv ==
  ASSUME IInv, NEW c \in Calls, pc[c] \notin {"idle", "done"},
         UNCHANGED <<request, now, pending, queued, inserts, entries, outbox>>,
         NEW v \in {"looking_up", "done"}, pc' = [pc EXCEPT ![c] = v],
         v = "looking_up" => Taken(entries, c) /\ pc[c] \notin InTransaction,
         NEW a \in Answer, answer' = [answer EXCEPT ![c] = a],
         a.kind # "none" => v = "done",
         a.kind # "posted",
         a.kind = "replayed" =>
           \E e \in entries : /\ e.id = a.id
                              /\ SameKey(e.key, request[c].key)
                              /\ e.hash = Hash(request[c]),
         a.kind = "mismatch" =>
           \E e \in entries : /\ SameKey(e.key, request[c].key)
                              /\ e.hash \notin {NullHash, Hash(request[c])}
  PROVE  IInv'
<1> USE DEF IInv, TypeOK
<1>1. \A d \in Calls : RowOf(d)' = RowOf(d)
  BY RowKept
<1>2. \A d \in Calls : d # c => pc'[d] = pc[d] /\ answer'[d] = answer[d]
  OBVIOUS
<1>3. pc'[c] = v /\ answer'[c] = a
  OBVIOUS
<1>4. TypeOK'
  OBVIOUS
<1>5. Asked'
  BY <1>2 DEF Asked
<1>6. PendingOwned'
  BY <1>1, <1>2, <1>3 DEF PendingOwned, InTransaction
<1>7. QueuedOwned'
  BY <1>1, <1>2, <1>3 DEF QueuedOwned, InTransaction, OutboxRow
<1>8. CommittedOwned'
  BY <1>1, <1>2, <1>3 DEF CommittedOwned
<1>9. KeyLock' /\ Stamped' /\ EventOfEntry'
  BY DEF KeyLock, Stamped, EventOfEntry
<1>10. LookUpFindsRow'
  BY <1>2, <1>3 DEF LookUpFindsRow, Taken
<1>11. Answers'
  BY <1>1, <1>2, <1>3 DEF Answers
<1>12. AcknowledgedIsDurable'
  BY <1>2, <1>3 DEF AcknowledgedIsDurable, Succeeded
<1>13. RefusalJustified'
  BY <1>2, <1>3 DEF RefusalJustified
<1>14. QED
  BY <1>4, <1>5, <1>6, <1>7, <1>8, <1>9, <1>10, <1>11, <1>12, <1>13

LEMMA InsertDuplicateInv ==
  ASSUME IInv, NEW c \in Calls, InsertDuplicate(c)
  PROVE  IInv'
<1> USE DEF IInv, TypeOK, InsertDuplicate, Goto, txVars, dbVars
<1>1. answer' = [answer EXCEPT ![c] = answer[c]]
  OBVIOUS
<1>2. answer[c] \in Answer /\ answer[c].kind = "none"
  BY DEF Answers, Answer
<1>3. QED
  BY <1>1, <1>2, QuietInv DEF InTransaction

LEMMA LookUpInv ==
  ASSUME IInv, NEW c \in Calls, LookUp(c)
  PROVE  IInv'
<1>1. PICK e \in entries : SameKey(e.key, request[c].key) /\ Return(c, Replay(c, e))
  BY DEF LookUp
<1> DEFINE a == Replay(c, e)
<1>2. e.id \in Ids /\ e.at \in Nat
  BY DEF IInv, TypeOK, Row
<1>3. a \in Answer /\ a.kind \in {"error", "mismatch", "replayed"}
  BY <1>2 DEF Replay, Error, Answer
<1>4. a.kind = "mismatch" => e.hash \notin {NullHash, Hash(request[c])}
  BY DEF Replay, Error
<1>5. a.kind = "replayed" => e.hash = Hash(request[c]) /\ e.id = a.id
  BY DEF Replay, Error
<1>6. answer' = [answer EXCEPT ![c] = a] /\ pc' = [pc EXCEPT ![c] = "done"]
  BY <1>1 DEF Return
<1>7. pc[c] \notin {"idle", "done"}
  BY DEF LookUp
<1>8. UNCHANGED <<request, now, pending, queued, inserts, entries, outbox>>
  BY DEF LookUp, txVars, dbVars
<1> HIDE DEF a
<1>9. QED
  BY <1>1, <1>3, <1>4, <1>5, <1>6, <1>7, <1>8, QuietInv

LEMMA FailInv ==
  ASSUME IInv, NEW c \in Calls, Fail(c)
  PROVE  IInv'
<1> DEFINE a == Error
<1>1. a \in Answer /\ a.kind = "error"
  BY DEF Error, Answer
<1>2. answer' = [answer EXCEPT ![c] = a] /\ pc' = [pc EXCEPT ![c] = "done"]
  BY DEF Fail, Return
<1>3. pc[c] \notin {"idle", "done"}
  BY DEF Fail
<1>4. UNCHANGED <<request, now, pending, queued, inserts, entries, outbox>>
  BY DEF Fail, txVars, dbVars
<1> HIDE DEF a
<1>5. QED
  BY <1>1, <1>2, <1>3, <1>4, QuietInv

(***************************************************************************)
(* A call that begins has no row yet, so no row changes its meaning.       *)
(***************************************************************************)
LEMMA AskInv ==
  ASSUME IInv, NEW c \in Calls, pc[c] = "idle",
         UNCHANGED <<pending, queued, inserts, entries, outbox>>,
         NEW r \in Requests, request' = [request EXCEPT ![c] = r],
         NEW t \in Nat, now' = [now EXCEPT ![c] = t],
         NEW v \in {"inserting", "done"}, pc' = [pc EXCEPT ![c] = v],
         NEW a \in Answer, answer' = [answer EXCEPT ![c] = a],
         a.kind \in {"none", "invalid"},
         a.kind # "none" => v = "done",
         v # "done" => Valid(r)
  PROVE  IInv'
<1> USE DEF IInv, TypeOK
<1>1. \A d \in Calls : d # c => /\ pc'[d] = pc[d]
                               /\ answer'[d] = answer[d]
                               /\ request'[d] = request[d]
                               /\ now'[d] = now[d]
  OBVIOUS
<1>2. pc'[c] = v /\ answer'[c] = a /\ request'[c] = r
  OBVIOUS
<1>3. \A d \in Calls : d # c => RowOf(d)' = RowOf(d)
  BY <1>1, RowKept
<1>4. /\ \A e \in pending \cup entries : e.id # c
      /\ \A o \in queued : o.entry \in Calls \ {c}
  BY NamesAssumption, LegacyAssumption
     DEF PendingOwned, CommittedOwned, QueuedOwned, InTransaction, OutboxRow
<1>5. TypeOK'
  OBVIOUS
<1>6. Asked'
  BY <1>1, <1>2 DEF Asked
<1>7. PendingOwned'
  BY <1>1, <1>2, <1>3, <1>4 DEF PendingOwned, InTransaction
<1>8. QueuedOwned'
  BY <1>1, <1>2, <1>3, <1>4 DEF QueuedOwned
<1>9. CommittedOwned'
  BY <1>1, <1>3, <1>4 DEF CommittedOwned
<1>10. KeyLock' /\ Stamped' /\ EventOfEntry'
  BY DEF KeyLock, Stamped, EventOfEntry
<1>11. LookUpFindsRow'
  BY <1>1, <1>2 DEF LookUpFindsRow, Taken
<1>12. Answers'
  BY <1>1, <1>2, <1>3 DEF Answers
<1>13. AcknowledgedIsDurable'
  BY <1>1, <1>2 DEF AcknowledgedIsDurable, Succeeded
<1>14. RefusalJustified'
  BY <1>1, <1>2 DEF RefusalJustified
<1>15. QED
  BY <1>5, <1>6, <1>7, <1>8, <1>9, <1>10, <1>11, <1>12, <1>13, <1>14

LEMMA BeginInv ==
  ASSUME IInv, NEW c \in Calls, NEW r \in Requests, NEW t \in Stamps, Begin(c, r, t)
  PROVE  IInv'
<1>1. /\ pc[c] = "idle"
      /\ request' = [request EXCEPT ![c] = r]
      /\ UNCHANGED <<pending, queued, inserts, entries, outbox>>
  BY DEF Begin, Goto, txVars, dbVars
<1>2. PICK u \in Nat : now' = [now EXCEPT ![c] = u]
  BY StampsAssumption DEF Begin
<1>3. PICK a \in Answer : answer' = [answer EXCEPT ![c] = a] /\ a.kind = "none"
  <2>1. answer[c] \in Answer /\ answer[c].kind = "none"
    BY <1>1 DEF IInv, TypeOK, Answers, Answer
  <2>2. answer' = [answer EXCEPT ![c] = answer[c]]
    BY DEF Begin, IInv, TypeOK
  <2>3. QED
    BY <2>1, <2>2
<1>4. PICK v \in {"inserting", "done"} : pc' = [pc EXCEPT ![c] = v]
  BY DEF Begin, Goto
<1>5. v # "done" => Valid(r)
  BY DEF Begin
<1>6. QED
  BY <1>1, <1>2, <1>3, <1>4, <1>5, AskInv

LEMMA RejectInv ==
  ASSUME IInv, NEW c \in Calls, NEW r \in Requests, Reject(c, r)
  PROVE  IInv'
<1> DEFINE a == [kind |-> "invalid"]
<1>1. /\ pc[c] = "idle" /\ pc' = [pc EXCEPT ![c] = "done"]
      /\ request' = [request EXCEPT ![c] = r]
      /\ answer' = [answer EXCEPT ![c] = a]
      /\ UNCHANGED <<pending, queued, inserts, entries, outbox, now>>
  BY DEF Reject, Return, txVars, dbVars
<1>2. PICK t \in Nat : now' = [now EXCEPT ![c] = t]
  <2>1. now' = [now EXCEPT ![c] = now[c]] /\ now[c] \in Nat
    BY <1>1 DEF IInv, TypeOK
  <2>2. QED
    BY <2>1
<1>3. a \in Answer /\ a.kind = "invalid"
  BY DEF Answer
<1>4. PICK v \in {"inserting", "done"} : v = "done" /\ pc' = [pc EXCEPT ![c] = v]
  BY <1>1
<1> HIDE DEF a
<1>5. QED
  BY <1>1, <1>2, <1>3, <1>4, AskInv

LEMMA InsertRowInv ==
  ASSUME IInv, NEW c \in Calls, InsertRow(c)
  PROVE  IInv'
<1> USE DEF IInv
<1>1. /\ pc[c] = "inserting" /\ pc' = [pc EXCEPT ![c] = "enqueueing"]
      /\ MeetsChecks(Hash(request[c]))
      /\ ~ Taken(pending \cup entries, c)
      /\ pending' = pending \cup {RowOf(c)}
      /\ UNCHANGED <<request, now, answer, queued, inserts, entries, outbox>>
  BY DEF InsertRow, Goto, dbVars
<1>2. \A d \in Calls : RowOf(d)' = RowOf(d)
  BY <1>1, RowKept
<1>3. \A d \in Calls : d # c => pc'[d] = pc[d]
  BY <1>1 DEF TypeOK
<1>4. pc'[c] = "enqueueing"
  BY <1>1 DEF TypeOK
<1>5. RowOf(c) \in Row
  BY <1>1, RowTyped
<1>6. TypeOK'
  BY <1>1, <1>5 DEF TypeOK
<1>7. Asked'
  BY <1>1, <1>3 DEF Asked
<1>8. PendingOwned'
  BY <1>1, <1>2, <1>3, <1>4, RowFields DEF PendingOwned, InTransaction
<1>9. QueuedOwned'
  <2>1. \A o \in queued : o.entry \in Calls
    BY DEF TypeOK, OutboxRow
  <2>2. QED
    BY <1>1, <1>2, <1>3, <1>4, <2>1 DEF QueuedOwned
<1>10. CommittedOwned'
  BY <1>1, <1>2, <1>3 DEF CommittedOwned
<1>11. KeyLock'
  BY <1>1, RowFields DEF KeyLock, Taken, SameKey
<1>12. Stamped' /\ EventOfEntry'
  BY <1>1 DEF Stamped, EventOfEntry
<1>13. LookUpFindsRow'
  BY <1>1, <1>3, <1>4 DEF LookUpFindsRow, Taken
<1>14. Answers'
  BY <1>1, <1>2, <1>3, <1>4 DEF Answers
<1>15. AcknowledgedIsDurable' /\ RefusalJustified'
  BY <1>1 DEF AcknowledgedIsDurable, RefusalJustified, Succeeded
<1>16. QED
  BY <1>6, <1>7, <1>8, <1>9, <1>10, <1>11, <1>12, <1>13, <1>14, <1>15

LEMMA EnqueueInv ==
  ASSUME IInv, NEW c \in Calls, Enqueue(c)
  PROVE  IInv'
<1> USE DEF IInv
<1> DEFINE o1 == [entry |-> c, at |-> inserts + 1]
<1>1. /\ pc[c] = "enqueueing" /\ pc' = [pc EXCEPT ![c] = "committing"]
      /\ queued' = queued \cup {o1}
      /\ inserts' = inserts + 1
      /\ UNCHANGED <<request, now, answer, pending, entries, outbox>>
  BY DEF Enqueue, Goto, dbVars
<1>2. \A d \in Calls : RowOf(d)' = RowOf(d)
  BY <1>1, RowKept
<1>3. \A d \in Calls : d # c => pc'[d] = pc[d]
  BY <1>1 DEF TypeOK
<1>4. pc'[c] = "committing"
  BY <1>1 DEF TypeOK
<1>5. \A o \in queued \cup outbox : o.entry \in Calls /\ o.at \in Nat /\ o.at <= inserts
  BY DEF TypeOK, OutboxRow, Stamped
<1>6. inserts \in Nat
  BY DEF TypeOK
<1>7. TypeOK'
  BY <1>1, <1>6 DEF TypeOK, OutboxRow
<1>8. Asked'
  BY <1>1, <1>3 DEF Asked
<1>9. PendingOwned'
  BY <1>1, <1>2, <1>3, <1>4 DEF PendingOwned, InTransaction
<1>10. QueuedOwned'
  <2>1. RowOf(c) \in pending
    BY <1>1 DEF PendingOwned, InTransaction
  <2>2. \A o \in queued' : RowOf(o.entry)' \in pending' /\ pc'[o.entry] \in {"committing", "done"}
    BY <1>1, <1>2, <1>3, <1>4, <1>5, <2>1 DEF QueuedOwned
  <2>3. \A d \in Calls : pc'[d] = "committing" => \E o \in queued' : o.entry = d
    <3>1. o1 \in queued' /\ o1.entry = c
      BY <1>1
    <3> HIDE DEF o1
    <3>2. QED
      BY <1>1, <1>3, <3>1 DEF QueuedOwned
  <2>4. QED
    BY <2>2, <2>3 DEF QueuedOwned
<1>11. CommittedOwned'
  BY <1>1, <1>2, <1>3 DEF CommittedOwned
<1>12. KeyLock' /\ EventOfEntry'
  BY <1>1 DEF KeyLock, EventOfEntry
<1>13. \A o \in queued \cup outbox : o.entry # c
  <2>1. \A o \in queued : o.entry # c
    BY <1>1 DEF QueuedOwned
  <2>2. \A e \in entries : e.id # c
    BY <1>1, NamesAssumption, LegacyAssumption DEF CommittedOwned
  <2>3. \A o \in outbox : o.entry \in {e.id : e \in entries}
    BY DEF EventOfEntry
  <2>4. QED
    BY <2>1, <2>2, <2>3
<1>14. Stamped'
  BY <1>1, <1>5, <1>6, <1>13 DEF Stamped
<1>15. LookUpFindsRow'
  BY <1>1, <1>3, <1>4 DEF LookUpFindsRow, Taken
<1>16. Answers'
  BY <1>1, <1>2, <1>3, <1>4 DEF Answers
<1>17. AcknowledgedIsDurable' /\ RefusalJustified'
  BY <1>1 DEF AcknowledgedIsDurable, RefusalJustified, Succeeded
<1>18. QED
  BY <1>7, <1>8, <1>9, <1>10, <1>11, <1>12, <1>14, <1>15, <1>16, <1>17

(***************************************************************************)
(* A commit moves the row and the event of one call, together.  The answer *)
(* is a success or, if the reply is lost, an error.                        *)
(***************************************************************************)
LEMMA CommitInv ==
  ASSUME IInv, NEW c \in Calls, pc[c] = "committing", CommitRows(c),
         UNCHANGED <<request, now, inserts>>,
         NEW a \in Answer, Return(c, a),
         a.kind = "error" \/ (a.kind = "posted" /\ a.id = c)
  PROVE  IInv'
<1> USE DEF IInv
<1>1. /\ pc' = [pc EXCEPT ![c] = "done"]
      /\ answer' = [answer EXCEPT ![c] = a]
  BY DEF Return
<1>2. \A d \in Calls : RowOf(d)' = RowOf(d)
  BY RowKept
<1>3. \A d \in Calls : d # c => pc'[d] = pc[d] /\ answer'[d] = answer[d]
  BY <1>1 DEF TypeOK
<1>4. pc'[c] = "done" /\ answer'[c] = a
  BY <1>1 DEF TypeOK
<1>5. RowOf(c) \in pending /\ RowOf(c) \in Row
  <2>1. RowOf(c) \in pending
    BY DEF PendingOwned, InTransaction
  <2>2. QED
    BY <2>1 DEF TypeOK
<1>6. {e \in pending : e.id = c} = {RowOf(c)}
  BY <1>5, RowFields DEF PendingOwned
<1>7. PICK o1 \in queued : o1.entry = c
  BY DEF QueuedOwned
<1>8. {o \in queued : o.entry = c} = {o1}
  BY <1>7 DEF Stamped
<1>9. /\ entries' = entries \cup {RowOf(c)}
      /\ outbox' = outbox \cup {o1}
      /\ pending' = {e \in pending : e.id # c}
      /\ queued' = {o \in queued : o.entry # c}
  BY <1>6, <1>8 DEF CommitRows
<1>10. \A o \in queued \cup outbox : o.entry \in Calls
  BY DEF TypeOK, OutboxRow
<1>11. TypeOK'
  BY <1>1, <1>5, <1>9 DEF TypeOK
<1>12. Asked'
  BY <1>3 DEF Asked
<1>13. PendingOwned'
  <2>1. \A e \in pending' : /\ e.id \in Calls
                            /\ e = RowOf(e.id)'
                            /\ pc'[e.id] \in InTransaction \cup {"done"}
    BY <1>2, <1>3, <1>9 DEF PendingOwned
  <2>2. \A d \in Calls : pc'[d] \in InTransaction => RowOf(d)' \in pending'
    BY <1>2, <1>3, <1>4, <1>9, RowFields DEF PendingOwned, InTransaction
  <2>3. QED
    BY <2>1, <2>2 DEF PendingOwned
<1>14. QueuedOwned'
  <2>1. \A o \in queued' : /\ RowOf(o.entry)' \in pending'
                           /\ pc'[o.entry] \in {"committing", "done"}
    BY <1>2, <1>3, <1>9, <1>10, RowFields DEF QueuedOwned
  <2>2. \A d \in Calls : pc'[d] = "committing" => \E o \in queued' : o.entry = d
    BY <1>3, <1>4, <1>9 DEF QueuedOwned
  <2>3. QED
    BY <2>1, <2>2 DEF QueuedOwned
<1>15. CommittedOwned'
  BY <1>2, <1>3, <1>4, <1>9, RowFields DEF CommittedOwned
<1>16. KeyLock'
  BY <1>5, <1>9 DEF KeyLock
<1>17. Stamped'
  BY <1>7, <1>9 DEF Stamped
<1>18. EventOfEntry'
  <2>1. {e.id : e \in entries'} = {e.id : e \in entries} \cup {c}
    BY <1>9, RowFields
  <2>2. {o.entry : o \in outbox'} = {o.entry : o \in outbox} \cup {c}
    BY <1>7, <1>9
  <2>3. c \notin Legacy
    BY NamesAssumption, LegacyAssumption
  <2>4. QED
    BY <2>1, <2>2, <2>3 DEF EventOfEntry
<1>19. LookUpFindsRow'
  BY <1>3, <1>4, <1>9 DEF LookUpFindsRow, Taken
<1>20. Answers'
  BY <1>2, <1>3, <1>4, <1>9 DEF Answers
<1>21. AcknowledgedIsDurable'
  BY <1>3, <1>4, <1>9, RowFields DEF AcknowledgedIsDurable, Succeeded, SameKey
<1>22. RefusalJustified'
  BY <1>3, <1>4, <1>9 DEF RefusalJustified
<1>23. QED
  BY <1>11, <1>12, <1>13, <1>14, <1>15, <1>16, <1>17, <1>18, <1>19, <1>20, <1>21, <1>22

LEMMA RollbackInv ==
  ASSUME IInv, NEW c \in Calls, Rollback(c)
  PROVE  IInv'
<1> USE DEF IInv
<1>1. /\ pc[c] = "done"
      /\ pending' = {e \in pending : e.id # c}
      /\ queued' = {o \in queued : o.entry # c}
      /\ UNCHANGED <<pc, request, now, answer, inserts, entries, outbox>>
  BY DEF Rollback, callVars, dbVars
<1>2. \A d \in Calls : RowOf(d)' = RowOf(d)
  BY <1>1, RowKept
<1>3. \A o \in queued \cup outbox : o.entry \in Calls
  BY DEF TypeOK, OutboxRow
<1>4. TypeOK' /\ Asked' /\ CommittedOwned'
  BY <1>1, <1>2 DEF TypeOK, Asked, CommittedOwned
<1>5. PendingOwned'
  BY <1>1, <1>2, RowFields DEF PendingOwned, InTransaction
<1>6. QueuedOwned'
  <2>1. \A o \in queued' : /\ RowOf(o.entry)' \in pending'
                           /\ pc'[o.entry] \in {"committing", "done"}
    BY <1>1, <1>2, <1>3, RowFields DEF QueuedOwned
  <2>2. \A d \in Calls : pc'[d] = "committing" => \E o \in queued' : o.entry = d
    BY <1>1 DEF QueuedOwned
  <2>3. QED
    BY <2>1, <2>2 DEF QueuedOwned
<1>7. KeyLock' /\ Stamped' /\ EventOfEntry'
  BY <1>1 DEF KeyLock, Stamped, EventOfEntry
<1>8. LookUpFindsRow' /\ Answers'
  BY <1>1, <1>2 DEF LookUpFindsRow, Taken, Answers
<1>9. AcknowledgedIsDurable' /\ RefusalJustified'
  BY <1>1 DEF AcknowledgedIsDurable, RefusalJustified, Succeeded
<1>10. QED
  BY <1>4, <1>5, <1>6, <1>7, <1>8, <1>9

LEMMA StepInv == IInv /\ [Next]_vars => IInv'
<1> SUFFICES ASSUME IInv, [Next]_vars PROVE IInv'
  OBVIOUS
<1>1. ASSUME NEW c \in Calls, NEW r \in Requests, Reject(c, r) PROVE IInv'
  BY <1>1, RejectInv
<1>2. ASSUME NEW c \in Calls, NEW r \in Requests, NEW t \in Stamps, Begin(c, r, t)
      PROVE  IInv'
  BY <1>2, BeginInv
<1>3. ASSUME NEW c \in Calls, Proceed(c) PROVE IInv'
  <2>1. CASE InsertRow(c)
    BY <2>1, InsertRowInv
  <2>2. CASE InsertDuplicate(c)
    BY <2>2, InsertDuplicateInv
  <2>3. CASE Enqueue(c)
    BY <2>3, EnqueueInv
  <2>4. CASE Commit(c)
    <3>1. PICK a \in Answer : Return(c, a) /\ a.kind = "posted" /\ a.id = c
      BY <2>4 DEF Commit, Answer, Ids, IInv, TypeOK
    <3>2. QED
      BY <2>4, <3>1, CommitInv DEF Commit
  <2>5. CASE LookUp(c)
    BY <2>5, LookUpInv
  <2>6. CASE CheckFails(c)
    <3>1. Fail(c)
      BY <2>6 DEF CheckFails, Fail
    <3>2. QED
      BY <3>1, FailInv
  <2>7. QED
    BY <1>3, <2>1, <2>2, <2>3, <2>4, <2>5, <2>6 DEF Proceed
<1>4. ASSUME NEW c \in Calls, CommitUnacknowledged(c) PROVE IInv'
  <2>1. PICK a \in Answer : Return(c, a) /\ a.kind = "error"
    BY <1>4 DEF CommitUnacknowledged, Error, Answer
  <2>2. pc[c] = "committing" /\ CommitRows(c) /\ UNCHANGED <<request, now, inserts>>
    BY <1>4 DEF CommitUnacknowledged
  <2>3. a.kind = "error" \/ (a.kind = "posted" /\ a.id = c)
    BY <2>1
  <2>4. IInv
    OBVIOUS
  <2>5. QED
    BY <2>1, <2>2, <2>3, <2>4, CommitInv
<1>5. ASSUME NEW c \in Calls, Fail(c) PROVE IInv'
  BY <1>5, FailInv
<1>6. ASSUME NEW c \in Calls, Rollback(c) PROVE IInv'
  BY <1>6, RollbackInv
<1>7. CASE UNCHANGED vars
  <2>1. \A c \in Calls : RowOf(c)' = RowOf(c)
    BY <1>7, RowKept DEF vars
  <2> USE <1>7, <2>1 DEF vars, IInv
  <2>2. TypeOK' /\ Asked' /\ PendingOwned' /\ CommittedOwned'
    BY DEF TypeOK, Asked, PendingOwned, CommittedOwned
  <2>3. QueuedOwned'
    BY DEF QueuedOwned, TypeOK, OutboxRow
  <2>4. KeyLock' /\ Stamped' /\ EventOfEntry' /\ LookUpFindsRow' /\ Answers'
    BY DEF KeyLock, Stamped, EventOfEntry, LookUpFindsRow, Taken, Answers
  <2>5. AcknowledgedIsDurable' /\ RefusalJustified'
    BY DEF AcknowledgedIsDurable, RefusalJustified, Succeeded
  <2>6. QED
    BY <2>2, <2>3, <2>4, <2>5
<1>8. QED
  BY <1>1, <1>2, <1>3, <1>4, <1>5, <1>6, <1>7 DEF Next

LEMMA Invariant == Spec => []IInv
<1>1. Init => IInv
  BY InitInv
<1>2. IInv /\ [Next]_vars => IInv'
  BY StepInv
<1>3. QED
  BY <1>1, <1>2, PTL DEF Spec

-----------------------------------------------------------------------------
(* Theorems. *)

\* The variables keep their types.
THEOREM PostingTypeCorrect == Spec => []TypeOK
<1>1. IInv => TypeOK
  BY DEF IInv
<1>2. QED
  BY <1>1, Invariant, PTL

\* For any number of concurrent calls of post_entry, with any retries and
\* failures, an idempotency key has at most one committed entry.
THEOREM OneEntryPerKey == Spec => []UniqueEntryPerKey
<1>1. IInv => UniqueEntryPerKey
  BY DEF IInv, KeyLock, UniqueEntryPerKey
<1>2. QED
  BY <1>1, Invariant, PTL

\* All calls with one key that succeed name the same entry, sent the same
\* payload, and at most one of them is told that it created the entry.
THEOREM IdempotentAnswers == Spec => []AnswersAgree
<1>1. ASSUME IInv, NEW c \in Calls, NEW d \in Calls, Succeeded(c), Succeeded(d),
             SameKey(request[c].key, request[d].key)
      PROVE  /\ answer[c].id = answer[d].id
             /\ Hash(request[c]) = Hash(request[d])
             /\ answer[c].kind = "posted" /\ answer[d].kind = "posted" => c = d
  <2>1. PICK e \in entries : /\ e.id = answer[c].id
                            /\ SameKey(e.key, request[c].key)
                            /\ e.hash = Hash(request[c])
    BY <1>1 DEF IInv, AcknowledgedIsDurable
  <2>2. PICK f \in entries : /\ f.id = answer[d].id
                            /\ SameKey(f.key, request[d].key)
                            /\ f.hash = Hash(request[d])
    BY <1>1 DEF IInv, AcknowledgedIsDurable
  <2>3. e = f
    BY <1>1, <2>1, <2>2 DEF IInv, KeyLock, SameKey
  <2>4. answer[c].kind = "posted" => answer[c].id = c
    BY <1>1 DEF IInv, Answers
  <2>5. answer[d].kind = "posted" => answer[d].id = d
    BY <1>1 DEF IInv, Answers
  <2>6. QED
    BY <2>1, <2>2, <2>3, <2>4, <2>5
<1>2. IInv => AnswersAgree
  BY <1>1 DEF AnswersAgree
<1>3. QED
  BY <1>2, Invariant, PTL

\* A success is answered only for a committed entry with the caller's key and
\* payload.
THEOREM AcknowledgedDurable == Spec => []AcknowledgedIsDurable
<1>1. IInv => AcknowledgedIsDurable
  BY DEF IInv
<1>2. QED
  BY <1>1, Invariant, PTL

\* Committed entries and committed outbox rows correspond one to one.
THEOREM TransactionalOutbox == Spec => []EntryHasEvent
<1>1. IInv => EntryHasEvent
  BY DEF IInv, EventOfEntry, Stamped, EntryHasEvent
<1>2. QED
  BY <1>1, Invariant, PTL

\* A conflict is answered only against a committed entry with another payload,
\* and a call that lost its key finds the row that has it.
THEOREM ConflictsAreReal == Spec => [](RefusalJustified /\ LookUpFindsRow)
<1>1. IInv => RefusalJustified /\ LookUpFindsRow
  BY DEF IInv
<1>2. QED
  BY <1>1, Invariant, PTL

-----------------------------------------------------------------------------
(***************************************************************************)
(* LedgerPosting implements IdempotentLedger: every step of a call of      *)
(* post_entry is a step of a ledger that answers each call atomically, or  *)
(* changes nothing the abstract ledger has.  A call takes effect when its  *)
(* transaction commits, or when it reads the row that beat it.             *)
(***************************************************************************)

\* What the mapping shows of a call that only moves on inside post_entry.
LEMMA InsideStutters ==
  ASSUME IInv, NEW c \in Calls, NEW l,
         pc[c] \notin {"idle", "done"}, l \notin {"idle", "done"},
         pc' = [pc EXCEPT ![c] = l],
         UNCHANGED <<request, answer, dbVars>>
  PROVE  UNCHANGED Atomic!vars
<1>1. AbstractStatus' = AbstractStatus
  BY DEF AbstractStatus, IInv, TypeOK
<1>2. /\ AbstractLedger' = AbstractLedger
      /\ AbstractEvents' = AbstractEvents
      /\ AbstractReply' = AbstractReply
  BY DEF AbstractLedger, AbstractEvents, AbstractReply, dbVars
<1>3. QED
  BY <1>1, <1>2 DEF Atomic!vars

\* A call that returns is done, with the answer it returns.
LEMMA ReturnReplies ==
  ASSUME IInv, NEW c \in Calls, NEW a, Return(c, a)
  PROVE  Atomic!Reply(c, AbstractAnswer(a))
<1>1. AbstractStatus' = [AbstractStatus EXCEPT ![c] = "done"]
  BY DEF AbstractStatus, Return, IInv, TypeOK
<1>2. AbstractReply' = [AbstractReply EXCEPT ![c] = AbstractAnswer(a)]
  BY DEF AbstractReply, Return, IInv, TypeOK
<1>3. QED
  BY <1>1, <1>2 DEF Atomic!Reply

LEMMA OpenInside ==
  ASSUME NEW c \in Calls, pc[c] \notin {"idle", "done"}
  PROVE  AbstractStatus[c] = "open"
BY DEF AbstractStatus

LEMMA RejectRefuses ==
  ASSUME IInv, NEW c \in Calls, NEW r \in Requests, Reject(c, r)
  PROVE  Atomic!Refuse(c, r)
<1>1. Atomic!Reply(c, [kind |-> "invalid"])
  <2>1. Return(c, [kind |-> "invalid"])
    BY DEF Reject
  <2>2. AbstractAnswer([kind |-> "invalid"]) = [kind |-> "invalid"]
    BY DEF AbstractAnswer
  <2>3. QED
    BY <2>1, <2>2, ReturnReplies
<1>2. AbstractStatus[c] = "idle"
  BY DEF Reject, AbstractStatus
<1>3. AbstractLedger' = AbstractLedger /\ AbstractEvents' = AbstractEvents
  BY DEF Reject, AbstractLedger, AbstractEvents, dbVars
<1>4. ~ Valid(r) /\ request' = [request EXCEPT ![c] = r]
  BY DEF Reject
<1>5. QED
  BY <1>1, <1>2, <1>3, <1>4 DEF Atomic!Refuse, Atomic!Valid, Valid,
     Atomic!SupportedCurrencies, SupportedCurrencies

LEMMA BeginAccepts ==
  ASSUME IInv, NEW c \in Calls, NEW r \in Requests, NEW t \in Stamps, Begin(c, r, t)
  PROVE  Atomic!Accept(c, r)
<1>1. /\ pc[c] = "idle" /\ pc' = [pc EXCEPT ![c] = "inserting"]
      /\ Valid(r)
      /\ request' = [request EXCEPT ![c] = r]
      /\ UNCHANGED <<answer, dbVars>>
  BY DEF Begin, Goto
<1>2. AbstractStatus[c] = "idle" /\ AbstractStatus' = [AbstractStatus EXCEPT ![c] = "open"]
  BY <1>1 DEF AbstractStatus, IInv, TypeOK
<1>3. /\ AbstractLedger' = AbstractLedger
      /\ AbstractEvents' = AbstractEvents
      /\ AbstractReply' = AbstractReply
  BY <1>1 DEF AbstractLedger, AbstractEvents, AbstractReply, dbVars
<1>4. QED
  BY <1>1, <1>2, <1>3 DEF Atomic!Accept, Atomic!Valid, Valid,
     Atomic!SupportedCurrencies, SupportedCurrencies

\* The commit adds one entry, with a key the ledger did not have, and its event.
LEMMA CommitRecords ==
  ASSUME IInv, NEW c \in Calls, pc[c] = "committing", CommitRows(c),
         UNCHANGED <<request, now, inserts>>,
         NEW a, Return(c, a)
  PROVE  Atomic!Record(c, AbstractAnswer(a))
<1>1. RowOf(c) \in pending
  BY DEF IInv, PendingOwned, InTransaction
<1>2. {e \in pending : e.id = c} = {RowOf(c)}
  BY <1>1, RowFields DEF IInv, PendingOwned
<1>3. {o.entry : o \in {o \in queued : o.entry = c}} = {c}
  BY DEF IInv, QueuedOwned
<1>4. AbstractLedger' = AbstractLedger \cup {Atomic!Entry(c)}
  <2>1. AbstractRow(RowOf(c)) = Atomic!Entry(c)
    BY RowFields DEF AbstractRow, Atomic!Entry, Atomic!Hash, Hash
  <2>2. entries' = entries \cup {RowOf(c)}
    BY <1>2 DEF CommitRows
  <2>3. QED
    BY <2>1, <2>2 DEF AbstractLedger, AbstractRow
<1>5. AbstractEvents' = AbstractEvents \cup {c}
  BY <1>3 DEF CommitRows, AbstractEvents
<1>6. ~ \E e \in AbstractLedger : Atomic!SameKey(e.key, request[c].key)
  <2>1. \A e \in entries : ~ SameKey(e.key, request[c].key)
    <3>1. ASSUME NEW e \in entries, SameKey(e.key, request[c].key) PROVE FALSE
      <4>1. e = RowOf(c)
        BY <3>1, <1>1, RowFields DEF IInv, KeyLock
      <4>2. e.id = c /\ e.id \notin Legacy
        BY <4>1, RowFields, NamesAssumption, LegacyAssumption
      <4>3. pc[c] = "done"
        BY <4>2 DEF IInv, CommittedOwned
      <4>4. QED
        BY <4>3
    <3>2. QED
      BY <3>1
  <2>2. QED
    BY <2>1 DEF AbstractLedger, AbstractRow, Atomic!SameKey, SameKey
<1>7. Atomic!Reply(c, AbstractAnswer(a))
  BY ReturnReplies
<1>8. AbstractStatus[c] = "open"
  BY OpenInside
<1>9. Atomic!MeetsChecks(Atomic!Hash(request[c]))
  <2>1. RowOf(c).hash \in {h \in Hashes : MeetsChecks(h)} \cup {NullHash}
    BY <1>1 DEF IInv, TypeOK, Row
  <2>2. Hash(request[c]) \in Hashes
    BY RequestsAssumption DEF IInv, Asked, Request, Hash, Hashes
  <2>3. MeetsChecks(Hash(request[c]))
    BY <2>1, <2>2, RowFields, NamesAssumption
  <2>4. QED
    BY <2>3 DEF Atomic!MeetsChecks, MeetsChecks, Atomic!Hash, Hash, Atomic!Column, Column,
       Atomic!SupportedCurrencies, SupportedCurrencies
<1>10. QED
  BY <1>4, <1>5, <1>6, <1>7, <1>8, <1>9 DEF Atomic!Record

\* The idempotency branch answers as the abstract ledger does.
LEMMA LookUpAnswers ==
  ASSUME IInv, NEW c \in Calls, LookUp(c)
  PROVE  Atomic!Replay(c) \/ Atomic!Conflict(c) \/ Atomic!GiveUp(c)
<1>1. PICK e \in entries : SameKey(e.key, request[c].key) /\ Return(c, Replay(c, e))
  BY DEF LookUp
<1>2. Atomic!Reply(c, AbstractAnswer(Replay(c, e)))
  BY <1>1, ReturnReplies
<1>3. /\ AbstractStatus[c] = "open"
      /\ UNCHANGED <<request, AbstractLedger, AbstractEvents>>
  BY OpenInside DEF LookUp, AbstractLedger, AbstractEvents, dbVars
<1>4. /\ AbstractRow(e) \in AbstractLedger
      /\ Atomic!SameKey(AbstractRow(e).key, request[c].key)
      /\ AbstractRow(e).hash = e.hash
      /\ AbstractRow(e).id = e.id
  BY <1>1 DEF AbstractLedger, AbstractRow, Atomic!SameKey, SameKey
<1>5. Atomic!Hash(request[c]) = Hash(request[c])
  BY DEF Atomic!Hash, Hash
<1>6. CASE e.hash = NullHash
  <2>1. AbstractAnswer(Replay(c, e)) = [kind |-> "error"]
    BY <1>6 DEF Replay, Error, AbstractAnswer
  <2>2. QED
    BY <1>2, <1>3, <2>1 DEF Atomic!GiveUp
<1>7. CASE e.hash # NullHash /\ e.hash # Hash(request[c])
  <2>1. AbstractAnswer(Replay(c, e)) = [kind |-> "mismatch"]
    BY <1>7 DEF Replay, AbstractAnswer
  <2>2. QED
    BY <1>2, <1>3, <1>4, <1>5, <1>7, <2>1 DEF Atomic!Conflict
<1>8. CASE e.hash # NullHash /\ e.hash = Hash(request[c])
  <2>1. AbstractAnswer(Replay(c, e)) = [kind |-> "replayed", id |-> e.id]
    BY <1>8 DEF Replay, AbstractAnswer
  <2>2. QED
    BY <1>2, <1>3, <1>4, <1>5, <1>8, <2>1 DEF Atomic!Replay
<1>9. QED
  BY <1>6, <1>7, <1>8

LEMMA FailGivesUp ==
  ASSUME IInv, NEW c \in Calls, Fail(c)
  PROVE  Atomic!GiveUp(c)
<1>1. Atomic!Reply(c, AbstractAnswer(Error))
  BY ReturnReplies DEF Fail
<1>2. AbstractAnswer(Error) = [kind |-> "error"]
  BY DEF AbstractAnswer, Error
<1>3. AbstractStatus[c] = "open"
  BY OpenInside DEF Fail
<1>4. UNCHANGED <<request, AbstractLedger, AbstractEvents>>
  BY DEF Fail, AbstractLedger, AbstractEvents, dbVars
<1>5. QED
  BY <1>1, <1>2, <1>3, <1>4 DEF Atomic!GiveUp

\* The invisible steps of the transaction, and the cleanup after it.
LEMMA Stutters ==
  ASSUME IInv, NEW c \in Calls,
         InsertRow(c) \/ InsertDuplicate(c) \/ Enqueue(c) \/ Rollback(c)
  PROVE  UNCHANGED Atomic!vars
<1>1. CASE InsertRow(c)
  <2>1. pc[c] = "inserting" /\ pc' = [pc EXCEPT ![c] = "enqueueing"]
    BY <1>1 DEF InsertRow, Goto
  <2>2. UNCHANGED <<request, answer, dbVars>>
    BY <1>1 DEF InsertRow
  <2>3. QED
    BY <2>1, <2>2, InsideStutters
<1>2. CASE InsertDuplicate(c)
  <2>1. pc[c] = "inserting" /\ pc' = [pc EXCEPT ![c] = "looking_up"]
    BY <1>2 DEF InsertDuplicate, Goto
  <2>2. UNCHANGED <<request, answer, dbVars>>
    BY <1>2 DEF InsertDuplicate
  <2>3. QED
    BY <2>1, <2>2, InsideStutters
<1>3. CASE Enqueue(c)
  <2>1. pc[c] = "enqueueing" /\ pc' = [pc EXCEPT ![c] = "committing"]
    BY <1>3 DEF Enqueue, Goto
  <2>2. UNCHANGED <<request, answer, dbVars>>
    BY <1>3 DEF Enqueue
  <2>3. QED
    BY <2>1, <2>2, InsideStutters
<1>4. CASE Rollback(c)
  BY <1>4 DEF Rollback, callVars, dbVars, Atomic!vars, AbstractStatus,
     AbstractLedger, AbstractEvents, AbstractReply
<1>5. QED
  BY <1>1, <1>2, <1>3, <1>4

LEMMA InitRefines == Init => Atomic!Init
<1> SUFFICES ASSUME Init PROVE Atomic!Init
  OBVIOUS
<1>1. AbstractStatus = [c \in Calls |-> "idle"]
  BY DEF Init, AbstractStatus
<1>2. AbstractLedger = {[id |-> k, key |-> k, hash |-> NullHash] : k \in Legacy}
  <2> DEFINE old(k) == [id |-> k, key |-> k, hash |-> NullHash, at |-> 0]
  <2>1. entries = {old(k) : k \in Legacy}
    BY DEF Init
  <2>2. \A k : AbstractRow(old(k)) = [id |-> k, key |-> k, hash |-> NullHash]
    BY DEF AbstractRow
  <2> HIDE DEF old
  <2>3. AbstractLedger = {AbstractRow(old(k)) : k \in Legacy}
    BY <2>1 DEF AbstractLedger
  <2>4. QED
    BY <2>2, <2>3
<1>3. AbstractEvents = {}
  BY DEF Init, AbstractEvents
<1>4. AbstractReply = [c \in Calls |-> [kind |-> "none"]]
  BY DEF Init, AbstractReply, AbstractAnswer, NoAnswer
<1>5. QED
  BY <1>1, <1>2, <1>3, <1>4 DEF Init, Atomic!Init

LEMMA StepRefines == IInv /\ [Next]_vars => [Atomic!Next]_(Atomic!vars)
<1> SUFFICES ASSUME IInv, [Next]_vars PROVE [Atomic!Next]_(Atomic!vars)
  OBVIOUS
<1>1. ASSUME NEW c \in Calls, NEW r \in Requests, Reject(c, r) PROVE Atomic!Next
  BY <1>1, RejectRefuses DEF Atomic!Next
<1>2. ASSUME NEW c \in Calls, NEW r \in Requests, NEW t \in Stamps, Begin(c, r, t)
      PROVE  Atomic!Next
  BY <1>2, BeginAccepts DEF Atomic!Next
<1>3. ASSUME NEW c \in Calls, Commit(c) PROVE Atomic!Next
  <2> DEFINE a == [kind |-> "posted", id |-> c, at |-> now[c]]
  <2>1. Return(c, a) /\ AbstractAnswer(a) = [kind |-> "posted", id |-> c]
    BY <1>3 DEF Commit, AbstractAnswer
  <2>2. pc[c] = "committing" /\ CommitRows(c) /\ UNCHANGED <<request, now, inserts>>
    BY <1>3 DEF Commit
  <2> HIDE DEF a
  <2>3. Atomic!Record(c, AbstractAnswer(a))
    BY <2>1, <2>2, CommitRecords
  <2>4. QED
    BY <2>1, <2>3 DEF Atomic!Next
<1>4. ASSUME NEW c \in Calls, CommitUnacknowledged(c) PROVE Atomic!Next
  <2>1. Return(c, Error) /\ AbstractAnswer(Error) = [kind |-> "error"]
    BY <1>4 DEF CommitUnacknowledged, Error, AbstractAnswer
  <2>2. pc[c] = "committing" /\ CommitRows(c) /\ UNCHANGED <<request, now, inserts>>
    BY <1>4 DEF CommitUnacknowledged
  <2>3. Atomic!Record(c, AbstractAnswer(Error))
    BY <2>1, <2>2, CommitRecords
  <2>4. QED
    BY <2>1, <2>3 DEF Atomic!Next
<1>5. ASSUME NEW c \in Calls, LookUp(c) PROVE Atomic!Next
  BY <1>5, LookUpAnswers DEF Atomic!Next
<1>6. ASSUME NEW c \in Calls, Fail(c) PROVE Atomic!Next
  BY <1>6, FailGivesUp DEF Atomic!Next
<1>10. ASSUME NEW c \in Calls, CheckFails(c) PROVE Atomic!Next
  <2>1. Fail(c)
    BY <1>10 DEF CheckFails, Fail
  <2>2. QED
    BY <2>1, <1>6
<1>7. ASSUME NEW c \in Calls,
             InsertRow(c) \/ InsertDuplicate(c) \/ Enqueue(c) \/ Rollback(c)
      PROVE  UNCHANGED Atomic!vars
  BY <1>7, Stutters
<1>8. CASE UNCHANGED vars
  BY <1>8 DEF vars, Atomic!vars, AbstractStatus, AbstractLedger, AbstractEvents,
     AbstractReply
<1>9. QED
  BY <1>1, <1>2, <1>3, <1>4, <1>5, <1>6, <1>7, <1>8, <1>10 DEF Next, Proceed

\* However many calls of post_entry run at once, and wherever they fail, they
\* together do what calls that each take effect in one step would do.
THEOREM PostingIsAtomic == Spec => AtomicCalls
<1>1. Init => Atomic!Init
  BY InitRefines
<1>2. IInv /\ [Next]_vars => [Atomic!Next]_(Atomic!vars)
  BY StepRefines
<1>3. Spec => Atomic!Spec
  BY <1>1, <1>2, Invariant, PTL DEF Spec, Atomic!Spec
<1>4. QED
  BY <1>3 DEF AtomicCalls

-----------------------------------------------------------------------------
(* The service. *)

LEMMA PostingStep == [LedgerNext]_ledgerVars => [Next]_vars
BY DEF LedgerNext, Post, Advance, Work, Next, Proceed, ledgerVars

\* Seen through the variables of the postings, the service is LedgerPosting: the gap
\* locks of the workers delay the INSERT into ledger_outbox and change nothing else.
THEOREM PostingInLedger == LedgerSpec => Spec
<1>1. LedgerInit => Init
  BY DEF LedgerInit
<1>2. QED
  BY <1>1, PostingStep, PTL DEF LedgerSpec, Spec

-----------------------------------------------------------------------------
(* The rows. *)

\* The calls that have not made their INSERT into ledger_outbox.
Ahead == {c \in Calls : pc[c] \in {"idle", "inserting", "enqueueing"}}

\* A call makes one such INSERT at most, and each has a created_at of its own.
StampInv ==
  /\ inserts + Cardinality(Ahead) <= Cardinality(Calls)
  /\ \A o \in queued \cup outbox : o.at \in 1..inserts

LEMMA CallCounts ==
  /\ IsFiniteSet(Ahead) /\ Cardinality(Ahead) \in Nat
  /\ IsFiniteSet(Ahead') /\ Cardinality(Ahead') \in Nat
  /\ Cardinality(Calls) \in Nat
<1>1. Ahead \subseteq Calls /\ Ahead' \subseteq Calls
  BY DEF Ahead
<1>2. IsFiniteSet(Ahead) /\ IsFiniteSet(Ahead')
  BY <1>1, CallsAssumption, FS_Subset
<1>3. QED
  BY <1>2, CallsAssumption, FS_CardinalityType

\* A step of the postings other than the INSERT into ledger_outbox.
LEMMA StampKept ==
  ASSUME StampInv, inserts \in Nat, inserts' = inserts, Ahead' \subseteq Ahead,
         queued' \cup outbox' \subseteq queued \cup outbox
  PROVE  StampInv'
<1>1. Cardinality(Ahead') <= Cardinality(Ahead)
  BY CallCounts, FS_Subset
<1>2. \A o \in queued' \cup outbox' : o.at \in 1..inserts'
  BY DEF StampInv
<1>3. inserts' + Cardinality(Ahead') <= Cardinality(Calls)
  BY <1>1, CallCounts DEF StampInv
<1>4. QED
  BY <1>2, <1>3 DEF StampInv

LEMMA EnqueueStamp ==
  ASSUME TypeOK, StampInv, NEW c \in Calls, Enqueue(c)
  PROVE  StampInv'
<1>1. /\ pc[c] = "enqueueing" /\ pc' = [pc EXCEPT ![c] = "committing"]
      /\ queued' = queued \cup {[entry |-> c, at |-> inserts + 1]}
      /\ inserts' = inserts + 1 /\ outbox' = outbox
  BY DEF Enqueue, Goto, dbVars
<1>2. inserts \in Nat /\ DOMAIN pc = Calls
  BY DEF TypeOK
<1>3. Ahead' = Ahead \ {c} /\ c \in Ahead
  BY <1>1, <1>2 DEF Ahead
<1>4. Cardinality(Ahead') = Cardinality(Ahead) - 1
  BY <1>3, CallCounts, FS_RemoveElement
<1>5. inserts' + Cardinality(Ahead') <= Cardinality(Calls)
  BY <1>1, <1>2, <1>4, CallCounts DEF StampInv
<1>6. \A o \in queued' \cup outbox' : o.at \in 1..inserts'
  BY <1>1, <1>2 DEF StampInv
<1>7. QED
  BY <1>5, <1>6 DEF StampInv

LEMMA StampStep ==
  ASSUME TypeOK, StampInv, [Next]_vars
  PROVE  StampInv'
<1>1. inserts \in Nat /\ pc \in [Calls -> {"idle", "inserting", "enqueueing",
                                           "committing", "looking_up", "done"}]
  BY DEF TypeOK
<1>2. ASSUME NEW c \in Calls, NEW to, to \notin {"idle"},
             pc[c] = "idle" \/ to \notin {"idle", "inserting"},
             pc[c] \in {"idle", "inserting"} \/ to \notin {"idle", "inserting", "enqueueing"},
             pc' = [pc EXCEPT ![c] = to]
      PROVE  Ahead' \subseteq Ahead
  BY <1>1, <1>2 DEF Ahead
<1>3. ASSUME NEW c \in Calls,
             \/ \E r \in Requests : \/ Reject(c, r)
                                    \/ \E t \in Stamps : Begin(c, r, t)
             \/ CheckFails(c) \/ InsertRow(c)
             \/ InsertDuplicate(c) \/ LookUp(c) \/ Fail(c)
      PROVE  StampInv'
  <2>1. UNCHANGED <<inserts, queued, outbox>>
    BY <1>3 DEF Reject, Begin, CheckFails, InsertRow, InsertDuplicate, LookUp, Fail,
                txVars, dbVars
  <2>2. \/ pc[c] = "idle" /\ pc' = [pc EXCEPT ![c] = "inserting"]
        \/ pc[c] = "inserting" /\ pc' = [pc EXCEPT ![c] = "enqueueing"]
        \/ pc' = [pc EXCEPT ![c] = "looking_up"]
        \/ pc' = [pc EXCEPT ![c] = "done"]
    BY <1>3 DEF Reject, Begin, CheckFails, InsertRow, InsertDuplicate, LookUp, Fail,
                Goto, Return
  <2>3. Ahead' \subseteq Ahead
    BY <2>2, <1>2
  <2>4. QED
    BY <2>1, <2>3, <1>1, StampKept
<1>4. ASSUME NEW c \in Calls, Commit(c) \/ CommitUnacknowledged(c)
      PROVE  StampInv'
  <2>1. pc' = [pc EXCEPT ![c] = "done"] /\ inserts' = inserts
    BY <1>4 DEF Commit, CommitUnacknowledged, Return
  <2>2. queued' \cup outbox' \subseteq queued \cup outbox
    BY <1>4 DEF Commit, CommitUnacknowledged, CommitRows
  <2>3. Ahead' \subseteq Ahead
    BY <2>1, <1>2
  <2>4. QED
    BY <2>1, <2>2, <2>3, <1>1, StampKept
<1>5. ASSUME NEW c \in Calls, Rollback(c)
      PROVE  StampInv'
  <2>1. /\ UNCHANGED <<pc, inserts, outbox>>
        /\ queued' \subseteq queued
    BY <1>5 DEF Rollback, callVars, dbVars
  <2>2. Ahead' = Ahead
    BY <2>1 DEF Ahead
  <2>3. QED
    BY <2>1, <2>2, <1>1, StampKept
<1>6. ASSUME UNCHANGED vars
      PROVE  StampInv'
  <2>1. UNCHANGED <<pc, inserts, queued, outbox>>
    BY <1>6 DEF vars
  <2>2. Ahead' = Ahead
    BY <2>1 DEF Ahead
  <2>3. QED
    BY <2>1, <2>2, <1>1, StampKept
<1>7. QED
  BY <1>3, <1>4, <1>5, <1>6, EnqueueStamp DEF Next, Proceed

LEMMA StampAlways == Spec => []StampInv
<1>1. Init => StampInv
  <2> SUFFICES ASSUME Init PROVE StampInv
    OBVIOUS
  <2>1. inserts = 0 /\ queued = {} /\ outbox = {}
    BY DEF Init
  <2>2. Cardinality(Ahead) <= Cardinality(Calls)
    BY CallsAssumption, FS_Subset DEF Ahead
  <2>3. QED
    BY <2>1, <2>2, CallCounts DEF StampInv
<1>2. IInv /\ StampInv /\ [Next]_vars => StampInv'
  BY StampStep DEF IInv
<1>3. QED
  BY <1>1, <1>2, Invariant, PTL DEF Spec

-----------------------------------------------------------------------------
(* The workers. *)

Visible == {o.at : o \in outbox}

\* The commit of a posting is one new row to the workers.
LEMMA CommitAppears ==
  ASSUME IInv, StampInv, NEW c \in Calls,
         Commit(c) \/ CommitUnacknowledged(c), UNCHANGED workerVars
  PROVE  \E r \in 1..Cardinality(Calls) : Outbox!Appear(r)
<1>1. /\ pc[c] = "committing"
      /\ outbox' = outbox \cup {o \in queued : o.entry = c}
  BY DEF Commit, CommitUnacknowledged, CommitRows
<1>2. PICK o \in queued : o.entry = c
  BY <1>1 DEF IInv, QueuedOwned
<1>3. /\ \A p \in queued : p.entry = c => p = o
      /\ \A p \in queued \cup outbox : p.at = o.at => p = o
  BY <1>2 DEF IInv, Stamped
<1>4. outbox' = outbox \cup {o}
  BY <1>1, <1>2, <1>3
<1>5. o \notin outbox
  <2>1. o \in outbox => \E e \in entries : e.id = c /\ e.id \notin Legacy
    BY <1>2 DEF IInv, EventOfEntry
  <2>2. \A e \in entries : e.id \notin Legacy => pc[e.id] = "done"
    BY DEF IInv, CommittedOwned
  <2>3. QED
    BY <2>1, <2>2, <1>1
<1>6. o.at \in 1..Cardinality(Calls)
  <2>1. o.at \in 1..inserts /\ inserts + Cardinality(Ahead) <= Cardinality(Calls)
    BY <1>2 DEF StampInv
  <2>2. inserts \in Nat
    BY DEF IInv, TypeOK
  <2>3. QED
    BY <2>1, <2>2, CallCounts
<1>7. o.at \notin Visible /\ Visible' = Visible \cup {o.at}
  <2>1. \A p \in outbox : p.at # o.at
    BY <1>3, <1>5
  <2>2. QED
    BY <2>1, <1>4 DEF Visible
<1>8. Outbox!Appear(o.at)
  BY <1>7 DEF Visible, Outbox!Appear, workerVars, Outbox!workerVars
<1>9. QED
  BY <1>6, <1>8

LEMMA OutboxStep ==
  IInv /\ StampInv /\ [LedgerNext]_ledgerVars => [Outbox!Next]_(Outbox!vars)
<1> SUFFICES ASSUME IInv, StampInv, [LedgerNext]_ledgerVars
             PROVE  [Outbox!Next]_(Outbox!vars)
  OBVIOUS
<1>1. ASSUME outbox' = outbox, UNCHANGED workerVars
      PROVE  UNCHANGED Outbox!vars
  BY <1>1 DEF workerVars, Outbox!vars, Outbox!workerVars
<1>2. ASSUME NEW c \in Calls, Commit(c) \/ CommitUnacknowledged(c),
             UNCHANGED workerVars
      PROVE  Outbox!Next
  BY <1>2, CommitAppears DEF Outbox!Next
<1>3. ASSUME NEW c \in Calls,
             \/ \E r \in Requests : \/ Reject(c, r)
                                    \/ \E t \in Stamps : Begin(c, r, t)
             \/ CheckFails(c) \/ InsertRow(c)
             \/ InsertDuplicate(c) \/ Enqueue(c) \/ LookUp(c)
             \/ Fail(c) \/ Rollback(c)
      PROVE  outbox' = outbox
  BY <1>3 DEF Reject, Begin, CheckFails, InsertRow,
              InsertDuplicate, Enqueue, LookUp, Fail,
              Rollback, dbVars
<1>4. ASSUME NEW c \in Calls, Post(c)
      PROVE  [Outbox!Next]_(Outbox!vars)
  BY <1>1, <1>2, <1>3, <1>4 DEF Post, Advance
<1>5. ASSUME Work
      PROVE  Outbox!Next
  BY <1>5 DEF Work, Outbox!Next
<1>6. ASSUME UNCHANGED ledgerVars
      PROVE  UNCHANGED Outbox!vars
  BY <1>6, <1>1 DEF ledgerVars, vars
<1>7. QED
  BY <1>4, <1>5, <1>6 DEF LedgerNext

\* Seen through the table and their own variables, the workers are LedgerOutbox: its
\* rows come as it assumes, one at a time, in any order of their created_at, and none
\* ever leaves, whatever the postings that make them meet.
THEOREM OutboxInLedger == LedgerSpec => Outbox!Spec
<1>1. LedgerInit => Outbox!Init
  BY DEF LedgerInit
<1>2. QED
  BY <1>1, OutboxStep, PostingInLedger, Invariant, StampAlways, PTL DEF LedgerSpec, Outbox!Spec

\* The name under which the facts about LedgerOutbox come, and those about its sets.
LEMMA SameSets ==
  /\ \A S : OutboxFacts!IsFiniteSet(S) <=> IsFiniteSet(S)
  /\ \A S : OutboxFacts!Oldest(S) = Outbox!Oldest(S)
  /\ OutboxFacts!Ready = Outbox!Ready
<1>1. \A S : OutboxFacts!IsFiniteSet(S) <=> IsFiniteSet(S)
  BY DEF OutboxFacts!IsFiniteSet, IsFiniteSet
<1>2. \A S : OutboxFacts!Cardinality(S) = Outbox!Cardinality(S)
  BY DEF OutboxFacts!Cardinality, Outbox!Cardinality
<1>3. \A S : OutboxFacts!Oldest(S) = Outbox!Oldest(S)
  BY <1>2 DEF OutboxFacts!Oldest, Outbox!Oldest
<1>4. OutboxFacts!Ready = Outbox!Ready
  BY DEF OutboxFacts!Ready, Outbox!Ready, OutboxFacts!Locked, Outbox!Locked
<1>5. QED
  BY <1>1, <1>3, <1>4

LEMMA SameOutbox == Outbox!Spec => OutboxFacts!Spec
<1>1. Outbox!Init => OutboxFacts!Init
  BY DEF Outbox!Init, OutboxFacts!Init
<1>2. UNCHANGED Outbox!vars => UNCHANGED OutboxFacts!vars
  BY DEF Outbox!vars, OutboxFacts!vars, Outbox!workerVars, OutboxFacts!workerVars
<1>3. ASSUME NEW w \in Workers
      PROVE  /\ Outbox!HandOver(w) => OutboxFacts!HandOver(w)
             /\ Outbox!Unacknowledged(w) => OutboxFacts!Unacknowledged(w)
             /\ Outbox!BackOff(w) => OutboxFacts!BackOff(w)
             /\ Outbox!Fault => OutboxFacts!Fault
  BY DEF Outbox!HandOver, OutboxFacts!HandOver, Outbox!Unacknowledged,
         OutboxFacts!Unacknowledged, Outbox!BackOff, OutboxFacts!BackOff,
         Outbox!Backoff, OutboxFacts!Backoff, Outbox!Fault, OutboxFacts!Fault,
         Outbox!IsCurrent, OutboxFacts!IsCurrent
<1>4. ASSUME NEW w \in Workers, Outbox!Poll(w) \/ Outbox!PollEmpty(w)
      PROVE  OutboxFacts!Poll(w) \/ OutboxFacts!PollEmpty(w)
  BY <1>4, SameSets
  DEF Outbox!Poll, OutboxFacts!Poll, Outbox!PollEmpty, OutboxFacts!PollEmpty,
      Outbox!Goto, OutboxFacts!Goto, Outbox!IdleSleep, OutboxFacts!IdleSleep
<1>5. ASSUME NEW w \in Workers,
             Outbox!Publish(w) \/ Outbox!Retry(w) \/ Outbox!PublishFails(w)
      PROVE  OutboxFacts!Publish(w) \/ OutboxFacts!Retry(w) \/ OutboxFacts!PublishFails(w)
  BY <1>3, <1>5
  DEF Outbox!Publish, OutboxFacts!Publish, Outbox!Retry, OutboxFacts!Retry,
      Outbox!PublishFails, OutboxFacts!PublishFails, Outbox!Goto, OutboxFacts!Goto
<1>6. ASSUME NEW w \in Workers, Outbox!Mark(w) \/ Outbox!Commit(w) \/ Outbox!Wake(w)
      PROVE  OutboxFacts!Mark(w) \/ OutboxFacts!Commit(w) \/ OutboxFacts!Wake(w)
  BY <1>6
  DEF Outbox!Mark, OutboxFacts!Mark, Outbox!Commit, OutboxFacts!Commit, Outbox!Wake,
      OutboxFacts!Wake, Outbox!Goto, OutboxFacts!Goto, Outbox!IsCurrent,
      OutboxFacts!IsCurrent
<1>7. ASSUME NEW w \in Workers,
             Outbox!Fail(w) \/ Outbox!CommitUnacknowledged(w) \/ Outbox!Crash(w)
      PROVE  \/ OutboxFacts!Fail(w) \/ OutboxFacts!CommitUnacknowledged(w)
             \/ OutboxFacts!Crash(w)
  BY <1>3, <1>7
  DEF Outbox!Fail, OutboxFacts!Fail, Outbox!CommitUnacknowledged,
      OutboxFacts!CommitUnacknowledged, Outbox!Crash, OutboxFacts!Crash
<1>8. ASSUME NEW r \in 1..Cardinality(Calls), Outbox!Appear(r)
      PROVE  OutboxFacts!Appear(r)
  BY <1>8 DEF Outbox!Appear, OutboxFacts!Appear, Outbox!workerVars, OutboxFacts!workerVars
<1>9. Outbox!Release => OutboxFacts!Release
  BY DEF Outbox!Release, OutboxFacts!Release, Outbox!workerVars, OutboxFacts!workerVars
<1>10. Outbox!Next => OutboxFacts!Next
  BY <1>4, <1>5, <1>6, <1>7, <1>8, <1>9
  DEF Outbox!Next, OutboxFacts!Next, Outbox!WorkersNext, OutboxFacts!WorkersNext,
      Outbox!Work, OutboxFacts!Work
<1>11. [Outbox!Next]_(Outbox!vars) => [OutboxFacts!Next]_(OutboxFacts!vars)
  BY <1>2, <1>10
<1>12. QED
  BY <1>1, <1>11, PTL DEF Outbox!Spec, OutboxFacts!Spec

\* The assumptions of LedgerOutbox, of the rows that the calls may make.
LEMMA OutboxAssumptions ==
  /\ 1..Cardinality(Calls) \subseteq Nat /\ OutboxFacts!IsFiniteSet(1..Cardinality(Calls))
  /\ BatchLimit \in Nat \ {0} /\ Kafka \in BOOLEAN
  /\ MaxRetries \in Nat \ {0} /\ MaxFaults \in Nat
<1>1. Cardinality(Calls) \in Nat
  BY CallCounts
<1>2. IsFiniteSet(1..Cardinality(Calls))
  BY <1>1, FS_Interval
<1>3. QED
  BY <1>1, <1>2, WorkAssumption, SameSets

-----------------------------------------------------------------------------
(* Theorems. *)

\* In every instance, the broker only ever gets the event of an entry that is
\* committed, whichever posting or worker fails or loses its transaction: a worker
\* publishes rows that its SELECT has seen, and a row is seen with its entry.
THEOREM EventsAreOfEntries == LedgerSpec => []NoPhantomEvent
<1>1. OutboxFacts!Spec => []OutboxFacts!SentIsVisible
  BY OutboxFacts!OnlyCommittedSent, OutboxAssumptions
<1>2. OutboxFacts!Spec => []OutboxFacts!TypeOK
  BY OutboxFacts!OutboxTypeCorrect, OutboxAssumptions
<1>3. ASSUME IInv, OutboxFacts!TypeOK, OutboxFacts!SentIsVisible
      PROVE  NoPhantomEvent
  <2> SUFFICES ASSUME NEW r \in DOMAIN sent, sent[r] > 0
               PROVE  \E o \in outbox : o.at = r /\ \E e \in entries : e.id = o.entry
    BY DEF NoPhantomEvent
  <2>1. r \in 1..Cardinality(Calls)
    BY <1>3 DEF OutboxFacts!TypeOK
  <2>2. PICK o \in outbox : o.at = r
    BY <1>3, <2>1 DEF OutboxFacts!SentIsVisible
  <2>3. \E e \in entries : e.id = o.entry
    BY <1>3, <2>2 DEF IInv, EventOfEntry
  <2>4. QED
    BY <2>2, <2>3
<1>4. QED
  BY <1>1, <1>2, <1>3, PostingInLedger, Invariant, OutboxInLedger, SameOutbox, PTL

\* What is proved of the postings and of the workers alone holds of them together: one
\* entry per key, acknowledged entries that stay and have their event, rows that one
\* transaction holds at a time, and duplicates that attempts without an acknowledgement
\* and lost transactions account for.
THEOREM LedgerKeepsItsParts ==
  LedgerSpec => [](/\ UniqueEntryPerKey /\ AcknowledgedIsDurable /\ EntryHasEvent
                   /\ Outbox!NoSharedRow /\ Outbox!ResendNeedsFault
                   /\ Kafka => Outbox!MarkedWasSent)
<1>1. OutboxFacts!Spec => []OutboxFacts!IInv
  BY OutboxFacts!Invariant, OutboxAssumptions
<1>2. OutboxFacts!IInv => /\ Outbox!NoSharedRow /\ Outbox!ResendNeedsFault
                          /\ Kafka => Outbox!MarkedWasSent
  BY DEF OutboxFacts!IInv, OutboxFacts!NoSharedRow, Outbox!NoSharedRow,
         OutboxFacts!ResendNeedsFault, Outbox!ResendNeedsFault,
         OutboxFacts!MarkedWasSent, Outbox!MarkedWasSent
<1>3. QED
  BY <1>1, <1>2, OneEntryPerKey, AcknowledgedDurable, TransactionalOutbox,
     PostingInLedger, OutboxInLedger, SameOutbox, PTL
=============================================================================
