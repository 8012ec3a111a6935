----------------------------- MODULE Accounts -----------------------------
(***************************************************************************)
(* The accounts of kova-account: creating one                              *)
(* (services/kova-account/src/handlers/create.rs), closing it (close.rs)   *)
(* and reading its balance (balance.rs), by concurrent requests over one   *)
(* MySQL database and one Redis, with the ledger, the payments service and *)
(* the event publisher behind the traits of clients.rs.                    *)
(*                                                                         *)
(* An account is named by its number, which AUTO_INCREMENT hands out, and  *)
(* a holder is a user together with a currency.  Every statement is a      *)
(* transaction of its own.  A request that is refused before it has        *)
(* changed anything is no step.                                            *)
(***************************************************************************)
EXTENDS Integers

CONSTANTS
  Holders,
  Slots,        \* requests that the service works on at a time
  MaxAccounts,  \* bound: account numbers
  MaxPostings,  \* bound: postings of the ledger to an account
  MaxFaults,    \* bound: statements and clients that fail, requests that are lost
  None

ASSUME BoundsAssumption == /\ MaxAccounts \in Nat
                           /\ MaxPostings \in Nat
                           /\ MaxFaults \in Nat
ASSUME NoneAssumption   == None \notin Holders \cup Int

Numbers == 1..MaxAccounts

VARIABLES
  numbered,  \* the last number of account_number_seq
  status,    \* of each row of accounts; "none" and "deleted" without one
  holder,    \* its user_id and currency
  opened,    \* accounts with an opening entry in the ledger
  created,   \* accounts whose AccountCreatedEvent is published
  closed,    \* those whose AccountClosedEvent is
  told,      \* accounts whose creator was answered 201
  failed,    \* those whose ledger entry or event failed, and whose creator was told
  funds,     \* the balance that the ledger derives
  late,      \* accounts posted to after a close has checked the balance
  cache,     \* the key kova:balance: of each account
  job,       \* the request in each slot
  faults

rowVars   == <<numbered, status, holder>>
eventVars == <<created, closed, told, failed>>
fundVars  == <<funds, late>>
vars == <<numbered, status, holder, opened, created, closed, told, failed, funds, late,
          cache, job, faults>>

Statuses == {"PendingKYC", "Active", "Frozen", "Closed"}
Idle     == [at |-> "idle", account |-> None, seen |-> None, value |-> None]

-----------------------------------------------------------------------------
Exists(n) == status[n] \in Statuses

\* transition of state_machine.rs
CanChange(from, to) ==
  <<from, to>> \in {<<"PendingKYC", "Active">>, <<"Active", "Frozen">>,
                    <<"Active", "Closed">>, <<"Frozen", "Active">>,
                    <<"Frozen", "Closed">>}

Proceed(s, from, to) == /\ job[s].at = from
                        /\ job' = [job EXCEPT ![s].at = to]

Done(s) == job' = [job EXCEPT ![s] = Idle]

Fault == /\ faults < MaxFaults
         /\ faults' = faults + 1

Init ==
  /\ numbered = 0
  /\ status = [n \in Numbers |-> "none"]
  /\ holder = [n \in Numbers |-> None]
  /\ opened = {}
  /\ created = {}
  /\ closed = {}
  /\ told = {}
  /\ failed = {}
  /\ funds = [n \in Numbers |-> 0]
  /\ late = {}
  /\ cache = [n \in Numbers |-> None]
  /\ job = [s \in Slots |-> Idle]
  /\ faults = 0

-----------------------------------------------------------------------------
(* create_account *)

\* INSERT INTO account_number_seq.
TakeNumber(s, h) ==
  /\ job[s] = Idle
  /\ numbered < MaxAccounts
  /\ numbered' = numbered + 1
  /\ job' = [job EXCEPT ![s] = [Idle EXCEPT !.at = "inserting", !.account = numbered']]
  /\ holder' = [holder EXCEPT ![numbered'] = h]
  /\ UNCHANGED <<status, opened, eventVars, fundVars, cache, faults>>

\* uq_accounts_user_currency
Held(h) == \E n \in Numbers : Exists(n) /\ holder[n] = h

InsertAccount(s) ==
  LET n == job[s].account
  IN  /\ Proceed(s, "inserting", "opening")
      /\ ~ Held(holder[n])
      /\ status' = [status EXCEPT ![n] = "PendingKYC"]
      /\ UNCHANGED <<numbered, holder, opened, eventVars, fundVars, cache, faults>>

\* 409; the number is lost.
AlreadyExists(s) ==
  /\ job[s].at = "inserting"
  /\ Held(holder[job[s].account])
  /\ Done(s)
  /\ UNCHANGED <<rowVars, opened, eventVars, fundVars, cache, faults>>

\* create_opening_entry, a call to the ledger.
Open(s) ==
  /\ Proceed(s, "opening", "announcing")
  /\ opened' = opened \cup {job[s].account}
  /\ UNCHANGED <<rowVars, eventVars, fundVars, cache, faults>>

OpenFailsUnnoticed(s) ==
  /\ Proceed(s, "opening", "announcing")
  /\ Fault
  /\ opened' \in {opened, opened \cup {job[s].account}}
  /\ UNCHANGED <<rowVars, eventVars, fundVars, cache>>

\* It fails, before or after the ledger has made the entry.
OpenFails(s) ==
  /\ Proceed(s, "opening", "compensating")
  /\ Fault
  /\ opened' \in {opened, opened \cup {job[s].account}}
  /\ UNCHANGED <<rowVars, eventVars, fundVars, cache>>

\* DELETE FROM accounts, and an error; that the DELETE fails is ignored (Fail).
Compensate(s) ==
  /\ job[s].at = "compensating"
  /\ status' = [status EXCEPT ![job[s].account] = "deleted"]
  /\ failed' = failed \cup {job[s].account}
  /\ Done(s)
  /\ UNCHANGED <<numbered, holder, opened, created, closed, told, fundVars, cache, faults>>

\* The event, and 201.
Announce(s) ==
  /\ job[s].at = "announcing"
  /\ created' = created \cup {job[s].account}
  /\ told' = told \cup {job[s].account}
  /\ Done(s)
  /\ UNCHANGED <<rowVars, opened, closed, failed, fundVars, cache, faults>>

\* The publisher fails, before or after it has the event: an error.
AnnounceFails(s) ==
  /\ job[s].at = "announcing"
  /\ Fault
  /\ created' \in {created, created \cup {job[s].account}}
  /\ failed' = failed \cup {job[s].account}
  /\ Done(s)
  /\ UNCHANGED <<rowVars, opened, closed, told, fundVars, cache>>

-----------------------------------------------------------------------------
(* close_account *)

\* The SELECT of the row, which is not Closed.
StartClose(s, n) ==
  /\ job[s] = Idle
  /\ Exists(n)
  /\ status[n] # "Closed"
  /\ job' = [job EXCEPT ![s] = [Idle EXCEPT !.at = "asking_payments", !.account = n,
                                               !.seen = status[n]]]
  /\ UNCHANGED <<rowVars, opened, eventVars, fundVars, cache, faults>>

\* has_pending_payments: the payments service knows of none.
AskPayments(s) ==
  /\ Proceed(s, "asking_payments", "asking_funds")
  /\ UNCHANGED <<rowVars, opened, eventVars, fundVars, cache, faults>>

AskFundsLater(s) ==
  /\ Proceed(s, "asking_funds", "closing")
  /\ CanChange(job[s].seen, "Closed")
  /\ UNCHANGED <<rowVars, opened, eventVars, fundVars, cache, faults>>

\* The balance is zero, and the transition is valid from the status that was read.
AskFunds(s) ==
  /\ Proceed(s, "asking_funds", "closing")
  /\ funds[job[s].account] = 0
  /\ CanChange(job[s].seen, "Closed")
  /\ UNCHANGED <<rowVars, opened, eventVars, fundVars, cache, faults>>

\* Pending payments, a balance, or an invalid transition.
RefuseClose(s) ==
  /\ job[s].at \in {"asking_payments", "asking_funds"}
  /\ \/ job[s].at = "asking_payments"
     \/ funds[job[s].account] # 0
     \/ ~ CanChange(job[s].seen, "Closed")
  /\ Done(s)
  /\ UNCHANGED <<rowVars, opened, eventVars, fundVars, cache, faults>>

AnnounceFirst(s) ==
  /\ Proceed(s, "closing", "announcing_close")
  /\ closed' = closed \cup {job[s].account}
  /\ UNCHANGED <<rowVars, opened, created, told, failed, fundVars, cache, faults>>

\* UPDATE by id, whatever the row has become, if it is still there.
PersistClose(s) ==
  LET n == job[s].account
  IN  /\ Proceed(s, "closing", "announcing_close")
      /\ status' = [status EXCEPT ![n] = IF Exists(n) THEN "Closed" ELSE @]
      /\ UNCHANGED <<numbered, holder, opened, eventVars, fundVars, cache, faults>>

AnnounceClose(s) ==
  /\ job[s].at = "announcing_close"
  /\ closed' = closed \cup {job[s].account}
  /\ Done(s)
  /\ UNCHANGED <<rowVars, opened, created, told, failed, fundVars, cache, faults>>

-----------------------------------------------------------------------------
(* get_balance *)

\* The SELECT of the row, which is not Closed.
StartBalance(s, n) ==
  /\ job[s] = Idle
  /\ Exists(n)
  /\ status[n] # "Closed"
  /\ job' = [job EXCEPT ![s] = [Idle EXCEPT !.at = "reading", !.account = n]]
  /\ UNCHANGED <<rowVars, opened, eventVars, fundVars, cache, faults>>

\* GET: a hit is the answer.
Hit(s) ==
  /\ job[s].at = "reading"
  /\ cache[job[s].account] # None
  /\ Done(s)
  /\ UNCHANGED <<rowVars, opened, eventVars, fundVars, cache, faults>>

\* Nothing there, or the GET fails.
Miss(s) ==
  /\ Proceed(s, "reading", "asking_balance")
  /\ \/ cache[job[s].account] = None /\ UNCHANGED faults
     \/ Fault
  /\ UNCHANGED <<rowVars, opened, eventVars, fundVars, cache>>

AskBalance(s) ==
  /\ job[s].at = "asking_balance"
  /\ job' = [job EXCEPT ![s].at = "caching", ![s].value = funds[job[s].account]]
  /\ UNCHANGED <<rowVars, opened, eventVars, fundVars, cache, faults>>

\* SET EX, and the answer; that the SET fails is ignored (Fail).
FillCache(s) ==
  /\ job[s].at = "caching"
  /\ cache' = [cache EXCEPT ![job[s].account] = job[s].value]
  /\ Done(s)
  /\ UNCHANGED <<rowVars, opened, eventVars, fundVars, faults>>

CacheKept(n) == FALSE /\ UNCHANGED vars  \* a SET without a TTL

\* The TTL of 5 seconds runs out.
CacheExpires(n) ==
  /\ cache[n] # None
  /\ cache' = [cache EXCEPT ![n] = None]
  /\ UNCHANGED <<rowVars, opened, eventVars, fundVars, job, faults>>

-----------------------------------------------------------------------------
(* What others do *)

\* The row is approved, frozen or unfrozen, as the state machine allows; this
\* repository has no process yet that does it.
ChangeStatus(n, to) ==
  /\ Exists(n)
  /\ to # "Closed"
  /\ CanChange(status[n], to)
  /\ status' = [status EXCEPT ![n] = to]
  /\ UNCHANGED <<numbered, holder, opened, eventVars, fundVars, cache, job, faults>>

\* post_entry knows nothing of accounts and their status (LedgerPosting).
Post(n) ==
  /\ Exists(n)
  /\ funds[n] < MaxPostings
  /\ funds' = [funds EXCEPT ![n] = @ + 1]
  /\ late' = IF status[n] = "Closed" \/ \E s \in Slots : job[s].at = "closing"
                                                        /\ job[s].account = n
             THEN late \cup {n} ELSE late
  /\ UNCHANGED <<rowVars, opened, eventVars, cache, job, faults>>

\* A statement or a client fails, or the request is lost between two.
Fail(s) ==
  /\ job[s] # Idle
  /\ Fault
  /\ Done(s)
  /\ UNCHANGED <<rowVars, opened, eventVars, fundVars, cache>>

Work(s) ==
  \/ InsertAccount(s) \/ AlreadyExists(s) \/ Open(s) \/ Compensate(s) \/ Announce(s)
  \/ AskPayments(s) \/ AskFunds(s) \/ RefuseClose(s) \/ PersistClose(s)
  \/ AnnounceClose(s)
  \/ Hit(s) \/ Miss(s) \/ AskBalance(s) \/ FillCache(s)

Next ==
  \/ \E s \in Slots :
       \/ Work(s) \/ OpenFails(s) \/ AnnounceFails(s) \/ Fail(s)
       \/ \E h \in Holders : TakeNumber(s, h)
       \/ \E n \in Numbers : StartClose(s, n) \/ StartBalance(s, n)
  \/ \E n \in Numbers : \/ CacheExpires(n) \/ Post(n)
                        \/ \E to \in Statuses : ChangeStatus(n, to)

Spec == Init /\ [][Next]_vars

(***************************************************************************)
(* The runtime polls a request that can go on, and the TTL of a key runs   *)
(* out.                                                                    *)
(***************************************************************************)
Fairness == /\ \A s \in Slots : WF_vars(Work(s))
            /\ \A n \in Numbers : WF_vars(CacheExpires(n))

FairSpec == Spec /\ Fairness

-----------------------------------------------------------------------------
(* Properties. *)

\* The variables have their types, and no two accounts of one user have the
\* same currency.
TypeOK ==
  /\ numbered \in 0..MaxAccounts
  /\ status \in [Numbers -> Statuses \cup {"none", "deleted"}]
  /\ holder \in [Numbers -> Holders \cup {None}]
  /\ \A m, n \in Numbers : Exists(m) /\ Exists(n) /\ holder[m] = holder[n] => m = n
  /\ opened \cup created \cup closed \cup told \cup failed \cup late \subseteq Numbers
  /\ funds \in [Numbers -> 0..MaxPostings]
  /\ cache \in [Numbers -> {None} \cup 0..MaxPostings]
  /\ job \in [Slots -> [at : {"idle", "inserting", "opening", "compensating",
                              "announcing", "asking_payments", "asking_funds",
                              "closing", "announcing_close", "reading",
                              "asking_balance", "caching"},
                        account : Numbers \cup {None},
                        seen : Statuses \cup {None},
                        value : 0..MaxPostings \cup {None}]]
  /\ faults \in 0..MaxFaults

\* A creation that was answered 201 stands: the row stays, its opening entry is
\* in the ledger and its event is out, whatever the compensation of other calls,
\* a freeze or a close does in between.
CreatedStands == \A n \in told : Exists(n) /\ n \in opened /\ n \in created

\* The events are true: an AccountCreatedEvent is about an account that has a row
\* and an opening entry and keeps them, an AccountClosedEvent about one that is
\* closed or was removed by the compensation of its own creation.
EventsAreTrue ==
  /\ \A n \in created : Exists(n) /\ n \in opened
  /\ \A n \in closed : status[n] \in {"Closed", "deleted"}

\* "balance must be 0, checked before calling" (state_machine.rs:8), as far as the
\* code keeps it: the balance is read before the UPDATE, so a closed account has
\* money in it only if a posting came after the balance was read.
ClosedWasEmpty ==
  \A n \in Numbers : status[n] = "Closed" => funds[n] = 0 \/ n \in late

\* Once the postings have stopped, the balances that are served from the cache
\* become right, and stay so, however slow the reader that fills it.
CacheConverges == <>[](\A n \in Numbers : cache[n] \in {None, funds[n]})

\* "If step 3 or 4 fails, the account row is rolled back so the DB remains
\* consistent" (create.rs:9): a creator who was told of a failed entry or event
\* has no row.  A failed publish breaks it.
FailedCreateLeavesNoRow == \A n \in failed : ~ Exists(n)
=============================================================================
