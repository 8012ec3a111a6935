--------------------------- MODULE LedgerPosting ---------------------------
(***************************************************************************)
(* The posting path of kova-ledger (services/kova-ledger/src/posting.rs):  *)
(* any number of concurrent invocations of post_entry, by one replica or   *)
(* by several, over one MySQL database.                                    *)
(*                                                                         *)
(* A call is one invocation of the handler, and the UUID the handler makes *)
(* for its entry is the name of the call; a client's retry is another call *)
(* with the same request.  InnoDB is modelled by what post_entry uses of   *)
(* it: a row that a transaction inserted is visible to the others, and     *)
(* collides with their rows, only once it is committed, and until then an  *)
(* INSERT of the same idempotency_key waits for the transaction to end.    *)
(***************************************************************************)
EXTENDS LedgerTypes

CONSTANT Stamps   \* readings of the replicas' clocks, in nanoseconds

ASSUME StampsAssumption == Stamps \subseteq Nat

VARIABLES
  pc,        \* where each call is in post_entry
  request,   \* the request each call is given
  now,       \* the created_at each call read from its clock
  pending,   \* uncommitted rows of ledger_entries
  queued,    \* uncommitted rows of ledger_outbox
  entries,   \* committed rows of ledger_entries
  outbox,    \* committed rows of ledger_outbox
  inserts,   \* INSERTs into ledger_outbox so far: the clock of its created_at
  answer     \* what each call has returned

callVars == <<pc, request, now, answer>>
txVars   == <<pending, queued, inserts>>
dbVars   == <<entries, outbox>>
vars     == <<pc, request, now, answer, pending, queued, inserts, entries, outbox>>

Row       == [id : Ids, key : Keys, at : Nat,
              hash : {h \in Hashes : MeetsChecks(h)} \cup {NullHash}]
OutboxRow == [entry : Calls, at : Nat]

NoAnswer  == [kind |-> "none"]
Answer    == [kind : {"none", "invalid", "mismatch", "error"}]
                \cup [kind : {"posted", "replayed"}, id : Ids, at : Nat]

-----------------------------------------------------------------------------
\* DATETIME(6) keeps microseconds.
Micros(t) == t - (t % 1000)

RowOf(c) == [id |-> c, key |-> request[c].key, hash |-> Hash(request[c]),
             at |-> Micros(now[c])]

Taken(rows, c) == \E e \in rows : SameKey(e.key, request[c].key)

Return(c, a) == /\ pc' = [pc EXCEPT ![c] = "done"]
                /\ answer' = [answer EXCEPT ![c] = a]

Goto(c, from, to) == /\ pc[c] = from
                     /\ pc' = [pc EXCEPT ![c] = to]

Error == [kind |-> "error"]

-----------------------------------------------------------------------------
Init ==
  /\ pc = [c \in Calls |-> "idle"]
  /\ request = [c \in Calls |-> NoRequest]
  /\ now = [c \in Calls |-> 0]
  /\ answer = [c \in Calls |-> NoAnswer]
  /\ pending = {}
  /\ queued = {}
  /\ inserts = 0
  /\ entries = {[id |-> k, key |-> k, hash |-> NullHash, at |-> 0] : k \in Legacy}
  /\ outbox = {}

\* A request that fails the validation is answered without the database.
Reject(c, r) ==
  /\ pc[c] = "idle"
  /\ ~ Valid(r)
  /\ request' = [request EXCEPT ![c] = r]
  /\ Return(c, [kind |-> "invalid"])
  /\ UNCHANGED <<now, txVars, dbVars>>

\* A valid one gets its hash, entry_id and created_at before the transaction.
Begin(c, r, t) ==
  /\ Goto(c, "idle", "inserting")
  /\ Valid(r)
  /\ request' = [request EXCEPT ![c] = r]
  /\ now' = [now EXCEPT ![c] = t]
  /\ UNCHANGED <<answer, txVars, dbVars>>

InsertRowCheckingCommittedOnly(c) ==
  /\ Goto(c, "inserting", "enqueueing")
  /\ ~ Taken(entries, c)
  /\ pending' = pending \cup {RowOf(c)}
  /\ UNCHANGED <<request, now, answer, queued, inserts, dbVars>>

\* The amount is zero in its column: MySQL checks the constraints before the
\* key, and the caller is told of a database error.
CheckFails(c) ==
  /\ pc[c] = "inserting"
  /\ ~ MeetsChecks(Hash(request[c]))
  /\ Return(c, Error)
  /\ UNCHANGED <<request, now, txVars, dbVars>>

\* The INSERT succeeds when no committed row and no open transaction has the key.
InsertRow(c) ==
  /\ Goto(c, "inserting", "enqueueing")
  /\ MeetsChecks(Hash(request[c]))
  /\ ~ Taken(pending \cup entries, c)
  /\ pending' = pending \cup {RowOf(c)}
  /\ UNCHANGED <<request, now, answer, queued, inserts, dbVars>>

\* Error 1062, once the row with the key is committed; the transaction, which
\* holds nothing, is rolled back.
InsertDuplicate(c) ==
  /\ Goto(c, "inserting", "looking_up")
  /\ MeetsChecks(Hash(request[c]))
  /\ Taken(entries, c)
  /\ UNCHANGED <<request, now, answer, txVars, dbVars>>

EnqueueOutsideTransaction(c) ==
  /\ Goto(c, "enqueueing", "committing")
  /\ outbox' = outbox \cup {[entry |-> c, at |-> inserts + 1]}
  /\ inserts' = inserts + 1
  /\ UNCHANGED <<request, now, answer, pending, queued, entries>>

\* The outbox row joins the same transaction.
Enqueue(c) ==
  /\ Goto(c, "enqueueing", "committing")
  /\ queued' = queued \cup {[entry |-> c, at |-> inserts + 1]}
  /\ inserts' = inserts + 1
  /\ UNCHANGED <<request, now, answer, pending, dbVars>>

\* The rows of c's transaction become visible all at once.
CommitRows(c) ==
  /\ entries' = entries \cup {e \in pending : e.id = c}
  /\ outbox' = outbox \cup {o \in queued : o.entry = c}
  /\ pending' = {e \in pending : e.id # c}
  /\ queued' = {o \in queued : o.entry # c}

Commit(c) ==
  /\ pc[c] = "committing"
  /\ CommitRows(c)
  /\ Return(c, [kind |-> "posted", id |-> c, at |-> now[c]])
  /\ UNCHANGED <<request, now, inserts>>

\* MySQL commits, but the reply is lost: the caller sees a database error.
CommitUnacknowledged(c) ==
  /\ pc[c] = "committing"
  /\ CommitRows(c)
  /\ Return(c, Error)
  /\ UNCHANGED <<request, now, inserts>>

ReplayLegacyAsMismatch(c, e) ==
  IF e.hash # Hash(request[c]) THEN [kind |-> "mismatch"]
  ELSE [kind |-> "replayed", id |-> e.id, at |-> e.at]

ReplayWithoutHash(c, e) ==
  IF e.hash = NullHash THEN Error
  ELSE [kind |-> "replayed", id |-> e.id, at |-> e.at]

\* What the idempotency branch answers from the row e it finds: a NULL hash
\* fails to decode as a String.
Replay(c, e) ==
  IF e.hash = NullHash THEN Error
  ELSE IF e.hash # Hash(request[c]) THEN [kind |-> "mismatch"]
  ELSE [kind |-> "replayed", id |-> e.id, at |-> e.at]

\* The idempotency branch reads the committed row in a statement of its own.
LookUp(c) ==
  /\ pc[c] = "looking_up"
  /\ \E e \in entries : /\ SameKey(e.key, request[c].key)
                        /\ Return(c, Replay(c, e))
  /\ UNCHANGED <<request, now, txVars, dbVars>>

(***************************************************************************)
(* Any statement may fail (lost connection, lock wait timeout, deadlock    *)
(* victim, lost reply) and the replica or the caller's connection may go   *)
(* away at any await.  The caller gets an error; what the transaction has  *)
(* written stays, locks and all, until MySQL rolls it back.                *)
(***************************************************************************)
Fail(c) ==
  /\ pc[c] \in {"inserting", "enqueueing", "committing", "looking_up"}
  /\ Return(c, Error)
  /\ UNCHANGED <<request, now, txVars, dbVars>>

\* The transaction of a call that is over is rolled back.
Rollback(c) ==
  /\ pc[c] = "done"
  /\ \E e \in pending : e.id = c
  /\ pending' = {e \in pending : e.id # c}
  /\ queued' = {o \in queued : o.entry # c}
  /\ UNCHANGED <<callVars, inserts, dbVars>>

Proceed(c) ==
  \/ CheckFails(c) \/ InsertRow(c) \/ InsertDuplicate(c) \/ Enqueue(c)
  \/ Commit(c) \/ LookUp(c)

Next ==
  \E c \in Calls :
    \/ \E r \in Requests : \/ Reject(c, r)
                           \/ \E t \in Stamps : Begin(c, r, t)
    \/ Proceed(c)
    \/ CommitUnacknowledged(c) \/ Fail(c) \/ Rollback(c)

Spec == Init /\ [][Next]_vars

(***************************************************************************)
(* The runtime polls a handler that can go on, and MySQL ends a            *)
(* transaction whose connection is gone.  Nothing makes a call begin, and  *)
(* nothing makes one fail.                                                 *)
(***************************************************************************)
Fairness == \A c \in Calls : WF_vars(Proceed(c)) /\ WF_vars(Rollback(c))

FairSpec == Spec /\ Fairness

-----------------------------------------------------------------------------
(* Properties. *)

\* The variables have their types, and every row meets the CHECK constraints.
TypeOK ==
  /\ pc \in [Calls -> {"idle", "inserting", "enqueueing", "committing",
                       "looking_up", "done"}]
  /\ request \in [Calls -> Requests \cup {NoRequest}]
  /\ now \in [Calls -> Nat]
  /\ answer \in [Calls -> Answer]
  /\ pending \subseteq Row
  /\ entries \subseteq Row
  /\ queued \subseteq OutboxRow
  /\ outbox \subseteq OutboxRow
  /\ inserts \in Nat

Succeeded(c) == answer[c].kind \in {"posted", "replayed"}

\* However calls race, retry and fail, the ledger has one entry per idempotency
\* key (the UNIQUE constraint as the mutex of post_entry, posting.rs:4-7).
UniqueEntryPerKey ==
  \A d, e \in entries : SameKey(d.key, e.key) => d = e

\* Calls with one key that succeed name one entry and sent one payload, and
\* only one of them is told that it created the entry (was_idempotent FALSE).
AnswersAgree ==
  \A c, d \in Calls :
    /\ Succeeded(c) /\ Succeeded(d)
    /\ SameKey(request[c].key, request[d].key)
    => /\ answer[c].id = answer[d].id
       /\ Hash(request[c]) = Hash(request[d])
       /\ answer[c].kind = "posted" /\ answer[d].kind = "posted" => c = d

\* A success is only ever answered for an entry that is committed with the
\* caller's key and payload.
AcknowledgedIsDurable ==
  \A c \in Calls : Succeeded(c) =>
    \E e \in entries : /\ e.id = answer[c].id
                       /\ SameKey(e.key, request[c].key)
                       /\ e.hash = Hash(request[c])

\* The transactional outbox: a committed entry has one event, and an event has
\* a committed entry, whatever fails in between (outbox.rs:3-6).
EntryHasEvent ==
  /\ {e.id : e \in entries} \ Legacy = {o.entry : o \in outbox}
  /\ \A o, p \in outbox : o.entry = p.entry \/ o.at = p.at => o = p

\* A call is told IdempotencyMismatch only against a committed entry that has
\* its key and a known other payload, never against one that was rolled back
\* or has no hash.
RefusalJustified ==
  \A c \in Calls : answer[c].kind = "mismatch" =>
    \E e \in entries : /\ SameKey(e.key, request[c].key)
                       /\ e.hash \notin {NullHash, Hash(request[c])}

\* The idempotency branch finds the row it lost to: fetch_one, after the
\* rollback and outside of any transaction, does not meet RowNotFound.
LookUpFindsRow ==
  \A c \in Calls : pc[c] = "looking_up" => Taken(entries, c)

\* The refinement mapping to IdempotentLedger: an open call is one that is
\* somewhere inside post_entry, and only what is committed is in the ledger.
AbstractStatus == [c \in Calls |-> IF pc[c] \in {"idle", "done"} THEN pc[c] ELSE "open"]
AbstractRow(e) == [id |-> e.id, key |-> e.key, hash |-> e.hash]
AbstractLedger == {AbstractRow(e) : e \in entries}
AbstractEvents == {o.entry : o \in outbox}
AbstractAnswer(a) == IF a.kind \in {"posted", "replayed"}
                     THEN [kind |-> a.kind, id |-> a.id]
                     ELSE [kind |-> a.kind]
AbstractReply  == [c \in Calls |-> AbstractAnswer(answer[c])]

Atomic == INSTANCE IdempotentLedger WITH
  status <- AbstractStatus, asked <- request, ledger <- AbstractLedger,
  events <- AbstractEvents, reply <- AbstractReply

\* The concurrent calls together do what one-step calls would do: each takes
\* effect, and is answered, as if it had the ledger to itself at one instant.
AtomicCalls == Atomic!Spec
=============================================================================
