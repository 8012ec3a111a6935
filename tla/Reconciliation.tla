---------------------------- MODULE Reconciliation ----------------------------
(***************************************************************************)
(* The end-of-day reconciliation of kova-ledger                            *)
(* (services/kova-ledger/src/reconciliation.rs).  Each replica wakes up    *)
(* once an hour, counted from its own start, and if that is around         *)
(* midnight makes a pass over the accounts with entries of today: for each *)
(* currency it reads the balance, compares it with the latest snapshot and *)
(* inserts a new one.  Each query is a step of its own; entries are        *)
(* committed, and other replicas make their passes, in between.            *)
(***************************************************************************)
EXTENDS Integers, FiniteSetsExt

CONSTANTS
  Replicas,
  Entries,  \* entry ids
  Data,     \* debit and credit account, amount and currency of each entry
  Hours,    \* of a day: 24
  Minutes,  \* of an hour: 60
  Before,   \* minutes of the window before midnight: 5
  After,    \* the last minute of the window after midnight: 5
  MaxPass,  \* bound: minutes that a pass takes
  MinClock, \* the minute of the first day at which the model begins
  MaxClock, \* bound: the minute at which it ends
  MaxFaults \* bound: queries that fail and processes that restart

ASSUME ClockAssumption ==
  /\ {Hours, Minutes} \subseteq Nat \ {0, 1}
  /\ {Before, After} \subseteq Nat
  /\ Before + After + 1 < Minutes
  /\ MaxPass \in 0..((Hours - 1) * Minutes)

VARIABLES
  clock,     \* minutes since the first midnight
  dated,     \* the day of created_at of each entry, -1 while nobody posts it
  committed, \* the rows of ledger_entries that others can see
  snapshots, \* the latest row of ledger_account_snapshots of each holding
  started,   \* when the process of each replica was started, -1 if it was not
  due,       \* whether its interval has a tick that it did not take
  task,      \* where its pass stands
  total,     \* its IMBALANCE_TOTAL
  begun,     \* the night of its latest pass, -1 if it has made none
  since,     \* when the pass that it is in began
  faults

ledgerVars  == <<dated, committed>>
replicaVars == <<started, due, task, total, begun, since>>
vars        == <<clock, ledgerVars, snapshots, replicaVars, faults>>

Day == Hours * Minutes

\* The n-th midnight and the two windows beside it.
Night(t) == (t + Before) \div Day

-----------------------------------------------------------------------------
(* The ledger. *)

Parties(e) == {Data[e].debit, Data[e].credit}

HoldingsOf(e) == {<<a, Data[e].currency>> : a \in Parties(e)}

Holdings == UNION {HoldingsOf(e) : e \in Entries}

\* The balance that the rows make for holding h, the amounts of a holding added.
Balance(h, rows) ==
  LET Signed(e) == IF Data[e].credit = h[1] THEN Data[e].amount ELSE - Data[e].amount
  IN  MapThenSumSet(Signed, rows)

RowsOfToday(h) ==
  {e \in committed : h \in HoldingsOf(e) /\ dated[e] = clock \div Day}

\* The rows that compute_live_balance sums.
RowsOf(h) == {e \in committed : h \in HoldingsOf(e)}

DebitedAccounts ==
  {Data[e].debit : e \in {d \in committed : dated[d] = clock \div Day}}

\* Debited today, or credited today: CURDATE() is the database's.
ActiveAccounts ==
  UNION {Parties(e) : e \in {d \in committed : dated[d] = clock \div Day}}

CurrenciesOf(a) == {Data[e].currency : e \in {d \in committed : a \in Parties(d)}}

-----------------------------------------------------------------------------

Asleep == [step |-> "asleep"]

None == [step |-> "none"]

Init ==
  /\ clock = MinClock
  /\ dated = [e \in Entries |-> -1]
  /\ committed = {}
  /\ snapshots = [h \in Holdings |-> None]
  /\ started = [w \in Replicas |-> -1]
  /\ due = [w \in Replicas |-> FALSE]
  /\ task = [w \in Replicas |-> Asleep]
  /\ total = [w \in Replicas |-> 0]
  /\ begun = [w \in Replicas |-> -1]
  /\ since = [w \in Replicas |-> 0]
  /\ faults = 0

\* post_entry has read the clock for e.
Stamp(e) ==
  /\ dated[e] = -1
  /\ dated' = [dated EXCEPT ![e] = clock \div Day]
  /\ UNCHANGED <<clock, committed, snapshots, replicaVars, faults>>

Commit(e) ==
  /\ dated[e] # -1
  /\ e \notin committed
  /\ committed' = committed \cup {e}
  /\ UNCHANGED <<clock, dated, snapshots, replicaVars, faults>>

FiresTwiceAnHour(w) == (clock + 1 - started[w]) % (Minutes \div 2) = 0

\* tokio::time::interval with a period of an hour.
Fires(w) == (clock + 1 - started[w]) % Minutes = 0

\* A task that sleeps takes its tick within the minute.  One that is in a pass
\* takes it afterwards, but only one of those that it missed (Skip).
Tick ==
  /\ clock < MaxClock
  /\ \A w \in Replicas : IF task[w] = Asleep THEN ~ due[w]
                        ELSE clock < since[w] + MaxPass
  /\ clock' = clock + 1
  /\ due' = [w \in Replicas |-> due[w] \/ (started[w] # -1 /\ Fires(w))]
  /\ UNCHANGED <<ledgerVars, snapshots, started, task, total, begun, since, faults>>

\* The process starts; the first tick of an interval comes at once.
Start(w) ==
  /\ started' = [started EXCEPT ![w] = clock]
  /\ due' = [due EXCEPT ![w] = TRUE]
  /\ task' = [task EXCEPT ![w] = Asleep]
  /\ total' = [total EXCEPT ![w] = 0]
  /\ begun' = [begun EXCEPT ![w] = -1]
  /\ since' = [since EXCEPT ![w] = 0]
  /\ UNCHANGED <<clock, ledgerVars, snapshots>>

Deploy(w) == started[w] = -1 /\ Start(w) /\ UNCHANGED faults

Restart(w) ==
  /\ started[w] # -1
  /\ faults < MaxFaults
  /\ faults' = faults + 1
  /\ Start(w)

InWindow(t) == t % Day >= Day - Before \/ t % Day <= After

\* interval.tick() returns: outside the window, back to sleep.
Wake(w) ==
  /\ task[w] = Asleep
  /\ due[w]
  /\ due' = [due EXCEPT ![w] = FALSE]
  /\ IF InWindow(clock)
     THEN /\ task' = [task EXCEPT ![w] = [step |-> "select"]]
          /\ begun' = [begun EXCEPT ![w] = Night(clock)]
          /\ since' = [since EXCEPT ![w] = clock]
     ELSE UNCHANGED <<task, begun, since>>
  /\ UNCHANGED <<clock, ledgerVars, snapshots, started, total, faults>>

\* A step of the pass of w, from one query to the next.
Proceed(w, next) ==
  /\ task' = [task EXCEPT ![w] = next]
  /\ since' = [since EXCEPT ![w] = IF next = Asleep THEN 0 ELSE @]
  /\ UNCHANGED <<clock, ledgerVars, started, due, begun, faults>>

\* The accounts with any activity today.
SelectAccounts(w) ==
  /\ task[w].step = "select"
  /\ Proceed(w, [step |-> "next", todo |-> ActiveAccounts, currencies |-> {},
                 mismatches |-> 0, known |-> committed, day |-> clock \div Day])
  /\ UNCHANGED <<snapshots, total>>

\* All currencies that the next account holds entries in.
SelectCurrencies(w) ==
  /\ task[w].step = "next"
  /\ \E a \in task[w].todo :
       Proceed(w, [task[w] EXCEPT !.step = "holding", !.todo = @ \ {a},
                     !.currencies = {<<a, c>> : c \in CurrenciesOf(a)}])
  /\ UNCHANGED <<snapshots, total>>

\* compute_live_balance.
ReadBalance(w) ==
  /\ task[w].step = "holding"
  /\ \E h \in task[w].currencies :
       Proceed(w, [step |-> "compare", todo |-> task[w].todo,
                   currencies |-> task[w].currencies \ {h},
                   mismatches |-> task[w].mismatches, known |-> task[w].known,
                   day |-> task[w].day, at |-> h, live |-> RowsOf(h)])
  /\ UNCHANGED <<snapshots, total>>

\* The latest snapshot, if there is one, is compared with the balance.
Compare(w) ==
  LET h == task[w].at
      differs == /\ snapshots[h] # None
                 /\ Balance(h, task[w].live) # Balance(h, snapshots[h].rows)
  IN  /\ task[w].step = "compare"
      /\ Proceed(w, [task[w] EXCEPT !.step = "insert",
                       !.mismatches = IF differs THEN @ + 1 ELSE @])
      /\ UNCHANGED <<snapshots, total>>

\* A new snapshot, whatever the comparison said.
Insert(w) ==
  /\ task[w].step = "insert"
  /\ snapshots' = [snapshots EXCEPT ![task[w].at] =
       [step |-> "written", by |-> w, rows |-> task[w].live]]
  /\ Proceed(w, [step |-> IF task[w].currencies = {} THEN "next" ELSE "holding",
                 todo |-> task[w].todo, currencies |-> task[w].currencies,
                 mismatches |-> task[w].mismatches, known |-> task[w].known,
                 day |-> task[w].day])
  /\ UNCHANGED total

\* The pass returns Ok, and its mismatches go into IMBALANCE_TOTAL.
Finish(w) ==
  /\ task[w].step = "next"
  /\ task[w].todo = {}
  /\ total' = [total EXCEPT ![w] = @ + task[w].mismatches]
  /\ Proceed(w, Asleep)
  /\ UNCHANGED snapshots

\* A query of the pass fails: its mismatches are forgotten, the snapshots that it
\* wrote stay.
Fail(w) ==
  /\ task[w] # Asleep
  /\ faults < MaxFaults
  /\ faults' = faults + 1
  /\ task' = [task EXCEPT ![w] = Asleep]
  /\ since' = [since EXCEPT ![w] = 0]
  /\ UNCHANGED <<clock, ledgerVars, snapshots, started, due, total, begun>>

Pass(w) ==
  \/ SelectAccounts(w) \/ SelectCurrencies(w) \/ ReadBalance(w)
  \/ Compare(w) \/ Insert(w) \/ Finish(w)

Next ==
  \/ Tick
  \/ \E e \in Entries : Stamp(e) \/ Commit(e)
  \/ \E w \in Replicas : Deploy(w) \/ Restart(w) \/ Wake(w) \/ Pass(w) \/ Fail(w)

Spec == Init /\ [][Next]_vars

-----------------------------------------------------------------------------
(* Properties. *)

\* The variables have their types; a tick that waits is one of a process that
\* runs, and a snapshot sums rows of its holding that are committed.
TypeOK ==
  /\ clock \in MinClock..MaxClock
  /\ dated \in [Entries -> -1..(clock \div Day)]
  /\ committed \subseteq {e \in Entries : dated[e] # -1}
  /\ \A h \in Holdings : snapshots[h] # None => snapshots[h].rows \subseteq RowsOf(h)
  /\ started \in [Replicas -> -1..clock]
  /\ \A w \in Replicas : due[w] \/ task[w] # Asleep => started[w] # -1
  /\ faults \in 0..MaxFaults

\* "Job is idempotent" (TASKS.md:985), for one process: the interval of an hour
\* does not bring a process twice into the window around one midnight, however
\* long its passes take.
OncePerNight ==
  [][\A w \in Replicas : task[w] = Asleep /\ task'[w] # Asleep => begun[w] # Night(clock)]_vars

\* "For each account active today" (reconciliation.rs:7): a pass that returns Ok
\* leaves a snapshot of every currency of every account that was active, and one
\* of its own has at least the rows that were committed when it began.
PassIsComplete ==
  [][\A w \in Replicas : Finish(w) =>
       \A e \in task[w].known, d \in task[w].known : \A h \in HoldingsOf(e) :
         dated[d] = task[w].day /\ h[1] \in Parties(d) =>
           /\ snapshots[h] # None
           /\ snapshots[h].by = w => e \in snapshots[h].rows]_vars

\* "a fresh baseline" (reconciliation.rs:138): a snapshot lacks rows of the one
\* before it only if another replica wrote that one in between.
SnapshotsAdvance ==
  [][\A h \in Holdings :
       \/ snapshots[h] = None
       \/ snapshots[h].rows \subseteq snapshots'[h].rows
       \/ snapshots[h].by # snapshots'[h].by]_vars

\* "nightly in the 23:55-00:05 UTC window" (main.rs:8): a replica that runs since
\* before the window has made a pass when it closes.
RunsNightly ==
  \A w \in Replicas :
    /\ started[w] \in 0..(Day - Before)
    /\ clock > Day + After
    => begun[w] = Night(Day)
=============================================================================
