------------------------------- MODULE Ledger -------------------------------
(***************************************************************************)
(* kova-ledger as main.rs starts it: the gRPC server's post_entry calls    *)
(* (LedgerPosting) and the outbox workers (LedgerOutbox) of all replicas,  *)
(* over one database.  They meet in the table ledger_outbox: a row that a  *)
(* posting commits is a row that a worker may pick, and a row is named, as *)
(* in LedgerOutbox, by its created_at.                                     *)
(***************************************************************************)
EXTENDS LedgerPosting, FiniteSets

CONSTANTS Workers, BatchLimit, Kafka, MaxRetries, MaxFaults \* as in LedgerOutbox

ASSUME CallsAssumption == IsFiniteSet(Calls)
ASSUME WorkAssumption  == /\ BatchLimit \in Nat \ {0}
                          /\ Kafka \in BOOLEAN
                          /\ MaxRetries \in Nat \ {0}
                          /\ MaxFaults \in Nat

VARIABLES marked, at, batch, left, attempt, errors, delay, orphaned, sent, faults
          \* likewise

workerVars ==
  <<marked, at, batch, left, attempt, errors, delay, orphaned, sent, faults>>
ledgerVars == <<vars, workerVars>>

\* A call inserts at most one row, and the clock counts the INSERTs.
Outbox == INSTANCE LedgerOutbox WITH
  Rows    <- 1..Cardinality(Calls),
  visible <- {o.at : o \in outbox}

LedgerInit == Init /\ Outbox!Init

(***************************************************************************)
(* The SELECT of a batch reads the index (published_at, created_at) and,   *)
(* in InnoDB's default isolation, when it meets the end of the unpublished *)
(* rows before its LIMIT, it locks the gap there: where the row of the     *)
(* next posting goes.  The gap is held to the end of the transaction, the  *)
(* publishing of the batch included.                                       *)
(***************************************************************************)
GapLocked == \E w \in Workers : /\ batch[w] # {}
                                /\ Cardinality(batch[w]) < BatchLimit

\* A call that can go on, beside the workers.
Advance(c) ==
  /\ \/ CheckFails(c) \/ InsertRow(c) \/ InsertDuplicate(c)
     \/ Enqueue(c) /\ ~ GapLocked
     \/ Commit(c) \/ LookUp(c)
  /\ UNCHANGED workerVars

Post(c) ==
  \/ Advance(c)
  \/ /\ \/ \E r \in Requests : Reject(c, r) \/ \E t \in Stamps : Begin(c, r, t)
        \/ CommitUnacknowledged(c)
        \/ Fail(c)
        \/ Rollback(c)
     /\ UNCHANGED workerVars

Work == UNCHANGED vars /\ Outbox!WorkersNext

LedgerNext == Work \/ \E c \in Calls : Post(c)

LedgerSpec == LedgerInit /\ [][LedgerNext]_ledgerVars

\* The scheduling that LedgerPosting and LedgerOutbox assume.
LedgerFairness ==
  /\ \A c \in Calls : /\ WF_ledgerVars(Advance(c))
                      /\ WF_ledgerVars(Rollback(c) /\ UNCHANGED workerVars)
  /\ \A w \in Workers : WF_ledgerVars(UNCHANGED vars /\ Outbox!Work(w))
  /\ WF_ledgerVars(UNCHANGED vars /\ Outbox!Release)

LedgerFairSpec == LedgerSpec /\ LedgerFairness

-----------------------------------------------------------------------------
(* Properties. *)

\* No event of a posting that did not happen: what the broker has taken is the
\* event of an entry that is committed, whichever transaction failed.
NoPhantomEvent ==
  \A r \in DOMAIN sent : sent[r] > 0 =>
    \E o \in outbox : o.at = r /\ \E e \in entries : e.id = o.entry

Delivered(c) == \E o \in outbox : /\ o.entry = c
                                  /\ o.at \in marked
                                  /\ sent[o.at] > 0

\* A caller that is told of a new entry may count on its event: it is published
\* and marked once things stop failing, whoever loses its transaction meanwhile.
AcknowledgedIsPublished ==
  \A c \in Calls :
    Succeeded(c) /\ answer[c].id \in Calls ~>
      Succeeded(c) /\ Delivered(answer[c].id)

\* A posting that waits for the workers' locks is answered all the same.
PostingAnswered == \A c \in Calls : pc[c] # "idle" ~> pc[c] = "done"
=============================================================================
