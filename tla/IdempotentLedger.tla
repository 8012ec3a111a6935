-------------------------- MODULE IdempotentLedger --------------------------
(***************************************************************************)
(* What PostEntry promises (proto/kova_ledger.proto, service KovaLedger):  *)
(* each call acts on the ledger in one step.  The first call with a key    *)
(* records the entry together with its event; a later one with the same    *)
(* payload gets that entry back, one with another payload is refused.  A   *)
(* call that gets an error may or may not have recorded its entry.         *)
(***************************************************************************)
EXTENDS LedgerTypes

VARIABLES
  status,   \* "idle", "open" or "done"
  asked,    \* the request of each call that is not idle
  ledger,   \* the entries
  events,   \* the calls whose event awaits publication
  reply     \* the answer of each call that is done

vars == <<status, asked, ledger, events, reply>>

Entry(c) == [id |-> c, key |-> asked[c].key, hash |-> Hash(asked[c])]

Reply(c, a) == /\ status' = [status EXCEPT ![c] = "done"]
               /\ reply' = [reply EXCEPT ![c] = a]

Init ==
  /\ status = [c \in Calls |-> "idle"]
  /\ asked = [c \in Calls |-> NoRequest]
  /\ ledger = {[id |-> k, key |-> k, hash |-> NullHash] : k \in Legacy}
  /\ events = {}
  /\ reply = [c \in Calls |-> [kind |-> "none"]]

Refuse(c, r) ==
  /\ status[c] = "idle"
  /\ ~ Valid(r)
  /\ asked' = [asked EXCEPT ![c] = r]
  /\ Reply(c, [kind |-> "invalid"])
  /\ UNCHANGED <<ledger, events>>

Accept(c, r) ==
  /\ status[c] = "idle"
  /\ Valid(r)
  /\ asked' = [asked EXCEPT ![c] = r]
  /\ status' = [status EXCEPT ![c] = "open"]
  /\ UNCHANGED <<ledger, events, reply>>

Record(c, a) ==
  /\ status[c] = "open"
  /\ MeetsChecks(Hash(asked[c]))
  /\ ~ \E e \in ledger : SameKey(e.key, asked[c].key)
  /\ ledger' = ledger \cup {Entry(c)}
  /\ events' = events \cup {c}
  /\ Reply(c, a)
  /\ UNCHANGED asked

Replay(c) ==
  /\ status[c] = "open"
  /\ \E e \in ledger : /\ SameKey(e.key, asked[c].key)
                       /\ e.hash = Hash(asked[c])
                       /\ Reply(c, [kind |-> "replayed", id |-> e.id])
  /\ UNCHANGED <<asked, ledger, events>>

Conflict(c) ==
  /\ status[c] = "open"
  /\ \E e \in ledger : /\ SameKey(e.key, asked[c].key)
                       /\ e.hash \notin {NullHash, Hash(asked[c])}
  /\ Reply(c, [kind |-> "mismatch"])
  /\ UNCHANGED <<asked, ledger, events>>

GiveUp(c) ==
  /\ status[c] = "open"
  /\ Reply(c, [kind |-> "error"])
  /\ UNCHANGED <<asked, ledger, events>>

Next ==
  \E c \in Calls :
    \/ \E r \in Requests : Refuse(c, r) \/ Accept(c, r)
    \/ Record(c, [kind |-> "posted", id |-> c])
    \/ Record(c, [kind |-> "error"])
    \/ Replay(c) \/ Conflict(c) \/ GiveUp(c)

Spec == Init /\ [][Next]_vars
=============================================================================
