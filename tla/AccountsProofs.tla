-------------------------- MODULE AccountsProofs --------------------------
(***************************************************************************)
(* Proofs about Accounts, for any number of accounts, requests, postings   *)
(* and faults.  A number is handed out once, so that its row is inserted,  *)
(* announced or removed by one request; every other request finds the row  *)
(* moved on at most, along the state machine.  What a request has learnt   *)
(* is therefore still true in its next statement, but for the balance,     *)
(* which only a posting after the check can have changed.                  *)
(***************************************************************************)
EXTENDS Accounts, TLAPS

Creating(s) == job[s].at \in {"inserting", "opening", "compensating", "announcing"}

Closing(s) ==
  job[s].at \in {"asking_payments", "asking_funds", "closing", "announcing_close"}

\* What the request in s may count on, by where it is.
JobInv(s) ==
  /\ job[s].at # "idle" => job[s].account \in Numbers
  /\ Creating(s) => /\ job[s].account <= numbered
                    /\ job[s].account \notin created \cup told
  /\ job[s].at = "inserting" => status[job[s].account] = "none"
  /\ job[s].at \in {"opening", "compensating", "announcing"} => Exists(job[s].account)
  /\ job[s].at = "announcing" => job[s].account \in opened
  /\ Closing(s) => status[job[s].account] # "none"
  /\ job[s].at = "closing" => funds[job[s].account] = 0 \/ job[s].account \in late
  /\ job[s].at = "announcing_close" => status[job[s].account] \in {"Closed", "deleted"}

\* One request creates an account.
OneCreator ==
  \A s, r \in Slots :
    Creating(s) /\ Creating(r) /\ job[s].account = job[r].account => s = r

NumbersAreNew == \A n \in Numbers : status[n] # "none" => n <= numbered

IInv == /\ TypeOK
        /\ NumbersAreNew
        /\ OneCreator
        /\ \A s \in Slots : JobInv(s)
        /\ CreatedStands
        /\ EventsAreTrue
        /\ ClosedWasEmpty

-----------------------------------------------------------------------------
Points == {"idle", "inserting", "opening", "compensating", "announcing", "asking_payments",
           "asking_funds", "closing", "announcing_close", "reading", "asking_balance",
           "caching"}

Jobs == [at : Points, account : Numbers \cup {None}, seen : Statuses \cup {None},
         value : 0..MaxPostings \cup {None}]

OthersKept(s) == \A r \in Slots \ {s} : job'[r] = job[r]

LEMMA ProceedFacts ==
  ASSUME TypeOK, NEW s \in Slots, NEW from, NEW to \in Points, Proceed(s, from, to)
  PROVE  /\ job[s].at = from /\ job[s] \in Jobs
         /\ job'[s] = [job[s] EXCEPT !.at = to]
         /\ job'[s].at = to /\ job'[s].account = job[s].account
         /\ OthersKept(s) /\ job' \in [Slots -> Jobs]
<1>1. job \in [Slots -> Jobs]
  BY DEF TypeOK, Jobs, Points
<1>2. job[s].at = from /\ job' = [job EXCEPT ![s].at = to]
  BY DEF Proceed
<1>3. job[s] \in Jobs
  BY <1>1
<1>4. [job[s] EXCEPT !.at = to] \in Jobs
  BY <1>3 DEF Jobs
<1>5. job'[s] = [job[s] EXCEPT !.at = to] /\ OthersKept(s)
  BY <1>1, <1>2 DEF OthersKept
<1>6. job' \in [Slots -> Jobs]
  BY <1>1, <1>2, <1>4
<1>7. job'[s].at = to /\ job'[s].account = job[s].account
  BY <1>3, <1>5 DEF Jobs
<1>8. QED
  BY <1>2, <1>3, <1>5, <1>6, <1>7

LEMMA DoneFacts ==
  ASSUME TypeOK, NEW s \in Slots, Done(s)
  PROVE  /\ job'[s].at = "idle" /\ job[s] \in Jobs
         /\ OthersKept(s) /\ job' \in [Slots -> Jobs]
<1>1. job \in [Slots -> Jobs]
  BY DEF TypeOK, Jobs, Points
<1>2. Idle \in Jobs /\ Idle.at = "idle"
  BY DEF Idle, Jobs, Points
<1>3. QED
  BY <1>1, <1>2 DEF Done, OthersKept

\* A request that starts does so about one account.
LEMMA StartFacts ==
  ASSUME TypeOK, NEW s \in Slots, NEW j \in Jobs, job' = [job EXCEPT ![s] = j]
  PROVE  job'[s] = j /\ OthersKept(s) /\ job' \in [Slots -> Jobs]
<1>1. job \in [Slots -> Jobs]
  BY DEF TypeOK, Jobs, Points
<1>2. QED
  BY <1>1 DEF OthersKept

\* What a step may do to rows and events, of which "mine" are those that the request
\* that takes it is creating: inserted, announced or removed; others only move on.
Advance(mine) ==
  /\ numbered <= numbered' /\ opened \subseteq opened' /\ late \subseteq late'
  /\ created' \cup told' \subseteq created \cup told \cup mine
  /\ \A n \in Numbers :
       \/ status'[n] = status[n]
       \/ /\ n \in mine
          /\ status[n] = "none" \/ status'[n] = "deleted"
          /\ status'[n] # "none"
       \/ /\ Exists(n) /\ Exists(n)'
          /\ status[n] = "Closed" => status'[n] = "Closed"
  /\ \A n \in Numbers :
       \/ funds'[n] = funds[n]
       \/ n \in late'
       \/ \A s \in Slots : ~ (job[s].at = "closing" /\ job[s].account = n)

\* A request that is not moving keeps what it counts on.
LEMMA JobKept ==
  ASSUME IInv, numbered' \in 0..MaxAccounts, NEW mine, Advance(mine), NEW r \in Slots,
         job'[r] = job[r], Creating(r) => job[r].account \notin mine
  PROVE  JobInv(r)'
<1>1. JobInv(r) /\ TypeOK /\ (job[r].at # "idle" => job[r].account \in Numbers)
  BY DEF IInv, JobInv
<1>2. PICK n : n = job[r].account
  OBVIOUS
<1>3. Creating(r)' = Creating(r) /\ Closing(r)' = Closing(r)
  BY DEF Creating, Closing
<1>4. Creating(r) => n <= numbered' /\ n \notin created' \cup told'
  <2>1. Creating(r) => n \in Numbers /\ n <= numbered /\ n \notin created \cup told
    BY <1>1, <1>2 DEF JobInv, Creating
  <2>2. numbered \in Int /\ numbered' \in Int /\ \A k \in Numbers : k \in Int
    BY <1>1, BoundsAssumption DEF TypeOK, Numbers
  <2>3. QED
    BY <2>1, <2>2, <1>2 DEF Advance
<1>5. /\ job[r].at = "inserting" => status'[n] = "none"
      /\ job[r].at \in {"opening", "compensating", "announcing"} => Exists(n)'
  BY <1>1, <1>2 DEF JobInv, Creating, Advance, Exists, Statuses
<1>6. Closing(r) => status'[n] # "none"
  BY <1>1, <1>2 DEF JobInv, Closing, Advance, Exists, Statuses
<1>7. job[r].at = "closing" => funds'[n] = 0 \/ n \in late'
  BY <1>1, <1>2 DEF JobInv, Advance
<1>8. job[r].at = "announcing_close" => status'[n] \in {"Closed", "deleted"}
  BY <1>1, <1>2 DEF JobInv, Advance, Exists, Statuses
<1>9. QED
  BY <1>1, <1>2, <1>3, <1>4, <1>5, <1>6, <1>7, <1>8 DEF JobInv, Advance

Ledgers == /\ TypeOK /\ NumbersAreNew
           /\ CreatedStands /\ EventsAreTrue /\ ClosedWasEmpty

\* A step of the request in s, which creates what it created before, if anything.
LEMMA RequestStep ==
  ASSUME IInv, NEW s \in Slots, NEW mine, Advance(mine), OthersKept(s),
         mine = {} \/ (Creating(s) /\ mine = {job[s].account}),
         Creating(s)' => Creating(s) /\ job'[s].account = job[s].account,
         JobInv(s)', Ledgers'
  PROVE  IInv'
<1>1. \A r \in Slots : JobInv(r)'
  <2> SUFFICES ASSUME NEW r \in Slots, r # s
               PROVE  JobInv(r)'
    OBVIOUS
  <2>1. job'[r] = job[r]
    BY DEF OthersKept
  <2>2. Creating(r) => job[r].account \notin mine
    BY DEF IInv, OneCreator
  <2>3. numbered' \in 0..MaxAccounts
    BY DEF Ledgers, TypeOK
  <2>4. QED
    BY <2>1, <2>2, <2>3, JobKept
<1>2. OneCreator'
  BY DEF IInv, OneCreator, Creating, OthersKept
<1>3. QED
  BY <1>1, <1>2 DEF IInv, Ledgers

\* A step of nobody's request.
LEMMA OutsideStep ==
  ASSUME IInv, Advance({}), job' = job, Ledgers'
  PROVE  IInv'
<1>1. numbered' \in 0..MaxAccounts
  BY DEF Ledgers, TypeOK
<1>2. \A r \in Slots : JobInv(r)'
  BY <1>1, JobKept
<1>3. OneCreator'
  BY DEF IInv, OneCreator, Creating
<1>4. QED
  BY <1>2, <1>3 DEF IInv, Ledgers

\* A step that changes no row, entry or event.
LEMMA QuietFacts ==
  ASSUME IInv, UNCHANGED <<rowVars, opened, eventVars, fundVars>>,
         job' \in [Slots -> Jobs], faults' \in 0..MaxFaults,
         cache' \in [Numbers -> {None} \cup 0..MaxPostings]
  PROVE  Advance({}) /\ Ledgers'
<1>1. TypeOK
  BY DEF IInv
<1>2. Advance({})
  BY <1>1, BoundsAssumption DEF Advance, rowVars, eventVars, fundVars, TypeOK
<1>3. TypeOK'
  BY <1>1 DEF TypeOK, rowVars, eventVars, fundVars, Jobs, Points, Exists
<1>4. QED
  BY <1>2, <1>3 DEF IInv, Ledgers, rowVars, eventVars, fundVars, NumbersAreNew, Exists,
     CreatedStands, EventsAreTrue, ClosedWasEmpty

-----------------------------------------------------------------------------
(* The requests. *)

\* A request that is over counts on nothing.
LEMMA IdleInv ==
  ASSUME NEW s \in Slots, job'[s].at = "idle"
  PROVE  JobInv(s)' /\ ~ Creating(s)'
BY DEF JobInv, Creating, Closing

LEMMA EndsQuietly ==
  ASSUME IInv, NEW s \in Slots, Done(s),
         UNCHANGED <<rowVars, opened, eventVars, fundVars>>, faults' \in 0..MaxFaults,
         cache' \in [Numbers -> {None} \cup 0..MaxPostings]
  PROVE  IInv'
<1>1. TypeOK
  BY DEF IInv
<1>2. job'[s].at = "idle" /\ OthersKept(s) /\ job' \in [Slots -> Jobs]
  BY <1>1, DoneFacts
<1>3. QED
  BY <1>2, QuietFacts, IdleInv, RequestStep

\* A request other than a creation begins or goes on.
LEMMA GoesOnQuietly ==
  ASSUME IInv, NEW s \in Slots, OthersKept(s), job' \in [Slots -> Jobs],
         UNCHANGED <<rowVars, opened, eventVars, fundVars, cache>>, faults' \in 0..MaxFaults,
         ~ Creating(s)', job'[s].account \in Numbers, Closing(s)' => JobInv(s)'
  PROVE  IInv'
<1>1. cache' \in [Numbers -> {None} \cup 0..MaxPostings]
  BY DEF IInv, TypeOK
<1>2. JobInv(s)'
  BY DEF JobInv, Creating, Closing
<1>3. QED
  BY <1>1, <1>2, QuietFacts, RequestStep

LEMMA Kept ==
  ASSUME IInv
  PROVE  /\ TypeOK /\ faults \in 0..MaxFaults
         /\ cache \in [Numbers -> {None} \cup 0..MaxPostings]
         /\ Fault => faults' \in 0..MaxFaults
         /\ \A s \in Slots : JobInv(s)
BY BoundsAssumption DEF IInv, TypeOK, Fault

LEMMA EndInv ==
  ASSUME IInv, NEW s \in Slots,
         AlreadyExists(s) \/ RefuseClose(s) \/ Hit(s) \/ Fail(s)
  PROVE  IInv'
<1>1. Done(s) /\ UNCHANGED <<rowVars, opened, eventVars, fundVars, cache>>
  BY DEF AlreadyExists, RefuseClose, Hit, Fail
<1>2. faults' \in 0..MaxFaults
  BY Kept DEF AlreadyExists, RefuseClose, Hit, Fail
<1>3. QED
  BY <1>1, <1>2, Kept, EndsQuietly

LEMMA FillCacheInv ==
  ASSUME IInv, NEW s \in Slots, FillCache(s)
  PROVE  IInv'
<1>1. job[s].account \in Numbers /\ job[s].value \in {None} \cup 0..MaxPostings
  BY Kept DEF JobInv, FillCache, TypeOK
<1>2. cache' \in [Numbers -> {None} \cup 0..MaxPostings]
  BY <1>1, Kept DEF FillCache
<1>3. QED
  BY <1>2, Kept, EndsQuietly DEF FillCache

LEMMA StartInv ==
  ASSUME IInv, NEW s \in Slots, NEW n \in Numbers, StartClose(s, n) \/ StartBalance(s, n)
  PROVE  IInv'
<1>1. PICK j \in Jobs :
        /\ job' = [job EXCEPT ![s] = j]
        /\ j.at \in {"asking_payments", "reading"} /\ j.account = n
  <2>1. CASE StartClose(s, n)
    <3> DEFINE j == [Idle EXCEPT !.at = "asking_payments", !.account = n, !.seen = status[n]]
    <3>1. j \in Jobs /\ j.at = "asking_payments" /\ j.account = n
      BY <2>1 DEF StartClose, Idle, Jobs, Points, Exists
    <3>2. QED
      BY <2>1, <3>1 DEF StartClose
  <2>2. CASE StartBalance(s, n)
    <3> DEFINE j == [Idle EXCEPT !.at = "reading", !.account = n]
    <3>1. j \in Jobs /\ j.at = "reading" /\ j.account = n
      BY DEF Idle, Jobs, Points
    <3>2. QED
      BY <2>2, <3>1 DEF StartBalance
  <2>3. QED
    BY <2>1, <2>2
<1>2. job'[s] = j /\ OthersKept(s) /\ job' \in [Slots -> Jobs]
  BY <1>1, StartFacts, Kept
<1>3. /\ UNCHANGED <<rowVars, opened, eventVars, fundVars, cache, faults>>
      /\ Exists(n)
  BY DEF StartClose, StartBalance
<1>4. status'[n] # "none"
  BY <1>3 DEF Exists, Statuses, rowVars
<1>5. JobInv(s)' /\ ~ Creating(s)'
  BY <1>1, <1>2, <1>4 DEF JobInv, Creating, Closing
<1>6. QED
  BY <1>1, <1>2, <1>3, <1>5, Kept, GoesOnQuietly

LEMMA AskInv ==
  ASSUME IInv, NEW s \in Slots, AskPayments(s) \/ AskFunds(s) \/ Miss(s)
  PROVE  IInv'
<1>1. PICK from \in {"asking_payments", "asking_funds", "reading"},
           to \in {"asking_funds", "closing", "asking_balance"} :
        /\ Proceed(s, from, to)
        /\ to # "asking_balance" => from # "reading"
        /\ to = "closing" => funds[job[s].account] = 0
  BY DEF AskPayments, AskFunds, Miss
<1>2. /\ job[s].at = from /\ job'[s].at = to /\ job'[s].account = job[s].account
      /\ OthersKept(s) /\ job' \in [Slots -> Jobs]
  BY <1>1, ProceedFacts, Kept DEF Points
<1>3. UNCHANGED <<rowVars, opened, eventVars, fundVars, cache>>
  BY DEF AskPayments, AskFunds, Miss
<1>4. faults' \in 0..MaxFaults
  BY Kept DEF AskPayments, AskFunds, Miss
<1>5. JobInv(s)
  BY Kept
<1>6. JobInv(s)' /\ ~ Creating(s)' /\ job'[s].account \in Numbers
  BY <1>1, <1>2, <1>3, <1>5 DEF JobInv, Creating, Closing, rowVars, fundVars
<1>7. QED
  BY <1>2, <1>3, <1>4, <1>6, GoesOnQuietly

LEMMA AskBalanceInv ==
  ASSUME IInv, NEW s \in Slots, AskBalance(s)
  PROVE  IInv'
<1>1. job[s].at = "asking_balance" /\ job[s] \in Jobs /\ JobInv(s)
  BY Kept DEF AskBalance, TypeOK, Jobs, Points
<1>2. job[s].account \in Numbers /\ funds[job[s].account] \in 0..MaxPostings
  BY <1>1, Kept DEF JobInv, TypeOK
<1>3. PICK j : j = [job[s] EXCEPT !.at = "caching", !.value = funds[job[s].account]]
  OBVIOUS
<1>4. j \in Jobs /\ j.at = "caching" /\ j.account = job[s].account
  BY <1>1, <1>2, <1>3 DEF Jobs, Points
<1>5. job' = [job EXCEPT ![s] = j]
  BY <1>3 DEF AskBalance
<1>6. job'[s] = j /\ OthersKept(s) /\ job' \in [Slots -> Jobs]
  BY <1>4, <1>5, StartFacts, Kept
<1>7. ~ Creating(s)' /\ ~ Closing(s)' /\ job'[s].account \in Numbers
  BY <1>2, <1>4, <1>6 DEF Creating, Closing
<1>8. QED
  BY <1>6, <1>7, Kept, GoesOnQuietly DEF AskBalance

-----------------------------------------------------------------------------
(* Creating. *)

LEMMA TakeNumberInv ==
  ASSUME IInv, NEW s \in Slots, NEW h \in Holders, TakeNumber(s, h)
  PROVE  IInv'
<1>1. PICK n : n = numbered + 1
  OBVIOUS
<1>2. /\ numbered' = n /\ holder' = [holder EXCEPT ![n] = h]
      /\ job' = [job EXCEPT ![s] = [Idle EXCEPT !.at = "inserting", !.account = n]]
      /\ UNCHANGED <<status, opened, created, closed, told, failed, funds, late, cache, faults>>
  BY <1>1 DEF TakeNumber, eventVars, fundVars
<1>3. TypeOK /\ n \in Numbers /\ numbered < n /\ status[n] = "none" /\ numbered \in Nat
  <2>1. TypeOK /\ numbered \in Nat /\ numbered < MaxAccounts
    BY Kept, BoundsAssumption DEF TypeOK, TakeNumber
  <2>2. n \in Numbers /\ numbered < n
    BY <2>1, <1>1, BoundsAssumption DEF Numbers
  <2>3. status[n] = "none"
    BY <2>1, <2>2 DEF IInv, NumbersAreNew, Numbers
  <2>4. QED
    BY <2>1, <2>2, <2>3
<1>4. PICK j : j = [Idle EXCEPT !.at = "inserting", !.account = n]
  OBVIOUS
<1>5. j \in Jobs /\ j.at = "inserting" /\ j.account = n
  BY <1>3, <1>4 DEF Idle, Jobs, Points
<1>6. job'[s] = j /\ OthersKept(s) /\ job' \in [Slots -> Jobs]
  BY <1>2, <1>3, <1>4, <1>5, StartFacts
<1>7. Advance({})
  <2>1. numbered <= numbered'
    BY <1>2, <1>3 DEF Numbers
  <2>2. QED
    BY <2>1, <1>2 DEF Advance
<1>8. \A m \in Numbers : Exists(m)' = Exists(m) /\ (Exists(m) => holder'[m] = holder[m])
  BY <1>2, <1>3 DEF Exists, Statuses, TypeOK
<1>9. TypeOK'
  <2>1. holder' \in [Numbers -> Holders \cup {None}] /\ numbered' \in 0..MaxAccounts
    BY <1>2, <1>3 DEF TypeOK, Numbers
  <2>2. job' \in [Slots -> Jobs]
    BY <1>6
  <2>3. \A m, k \in Numbers : Exists(m)' /\ Exists(k)' /\ holder'[m] = holder'[k] => m = k
    BY <1>3, <1>8 DEF TypeOK
  <2>4. QED
    BY <2>1, <2>2, <2>3, <1>2, <1>3 DEF TypeOK, Jobs, Points
<1>10. NumbersAreNew'
  BY <1>2, <1>3 DEF IInv, NumbersAreNew, Numbers
<1>11. CreatedStands' /\ EventsAreTrue' /\ ClosedWasEmpty'
  BY <1>2 DEF IInv, CreatedStands, EventsAreTrue, ClosedWasEmpty, Exists
<1>12. n \notin created \cup told
  BY <1>3 DEF IInv, EventsAreTrue, CreatedStands, Exists, Statuses
<1>13. JobInv(s)'
  BY <1>2, <1>3, <1>5, <1>6, <1>12 DEF JobInv, Closing, Numbers
<1>14. \A r \in Slots \ {s} : JobInv(r)' /\ ~ (Creating(r) /\ job[r].account = n)
  <2> SUFFICES ASSUME NEW r \in Slots \ {s}
               PROVE  JobInv(r)' /\ ~ (Creating(r) /\ job[r].account = n)
    OBVIOUS
  <2>1. job'[r] = job[r]
    BY <1>6 DEF OthersKept
  <2>2. numbered' \in 0..MaxAccounts
    BY <1>9 DEF TypeOK
  <2>3. JobInv(r)'
    BY <2>1, <2>2, <1>7, JobKept
  <2>4. Creating(r) => job[r].account <= numbered
    BY Kept DEF JobInv
  <2>5. QED
    BY <2>3, <2>4, <1>3 DEF Numbers
<1>15. OneCreator'
  BY <1>5, <1>6, <1>14 DEF IInv, OneCreator, Creating, OthersKept
<1>16. QED
  BY <1>9, <1>10, <1>11, <1>13, <1>14, <1>15 DEF IInv

\* The row of the account that s creates is written, or removed.
LEMMA WriteRow ==
  ASSUME IInv, NEW s \in Slots, Creating(s), NEW new \in Statuses \cup {"deleted"},
         status' = [status EXCEPT ![job[s].account] = new],
         status[job[s].account] = "none" \/ new = "deleted",
         new # "Closed",
         new \in Statuses => ~ Held(holder[job[s].account]),
         failed' \in SUBSET Numbers,
         UNCHANGED <<numbered, holder, opened, created, closed, told, funds, late, cache, faults>>,
         job' \in [Slots -> Jobs]
  PROVE  Advance({job[s].account}) /\ Ledgers'
<1>1. PICK n : n = job[s].account
  OBVIOUS
<1>2. TypeOK /\ n \in Numbers /\ n <= numbered /\ n \notin created \cup told
  BY <1>1, Kept DEF JobInv, Creating
<1>3. status'[n] = new /\ \A m \in Numbers \ {n} : status'[m] = status[m]
  BY <1>1, <1>2 DEF TypeOK
<1>4. numbered <= numbered'
  BY <1>2, BoundsAssumption DEF TypeOK
<1>5. Advance({n})
  BY <1>1, <1>3, <1>4 DEF Advance, Statuses
<1>6. \A m \in Numbers \ {n} : Exists(m)' = Exists(m)
  BY <1>3 DEF Exists
<1>7. TypeOK'
  <2>1. status' \in [Numbers -> Statuses \cup {"none", "deleted"}]
    BY <1>1, <1>2 DEF TypeOK
  <2>2. \A m, k \in Numbers : Exists(m)' /\ Exists(k)' /\ holder'[m] = holder'[k] => m = k
    <3>1. ASSUME NEW m \in Numbers, m # n, Exists(m)', Exists(n)', holder[m] = holder[n]
          PROVE  FALSE
      <4>1. new \in Statuses
        BY <3>1, <1>3 DEF Exists
      <4>2. Exists(m)
        BY <3>1, <1>6
      <4>3. QED
        BY <3>1, <4>1, <4>2, <1>1 DEF Held
    <3>2. QED
      BY <3>1, <1>2, <1>6 DEF TypeOK
  <2>3. opened' \cup created' \cup closed' \cup told' \cup failed' \cup late' \subseteq Numbers
    BY <1>2 DEF TypeOK
  <2>4. QED
    BY <2>1, <2>2, <2>3, <1>2 DEF TypeOK, Jobs, Points
<1>8. NumbersAreNew'
  BY <1>2, <1>3 DEF IInv, NumbersAreNew
<1>9. CreatedStands'
  BY <1>2, <1>6 DEF IInv, CreatedStands, TypeOK
<1>10. EventsAreTrue'
  <2>1. \A m \in created : m # n /\ m \in Numbers
    BY <1>2 DEF TypeOK
  <2>2. \A m \in closed : status'[m] \in {"Closed", "deleted"}
    BY <1>1, <1>2, <1>3 DEF IInv, EventsAreTrue, TypeOK
  <2>3. QED
    BY <2>1, <2>2, <1>6 DEF IInv, EventsAreTrue
<1>11. ClosedWasEmpty'
  BY <1>2, <1>3 DEF IInv, ClosedWasEmpty
<1>12. QED
  BY <1>1, <1>5, <1>7, <1>8, <1>9, <1>10, <1>11 DEF Ledgers

LEMMA InsertAccountInv ==
  ASSUME IInv, NEW s \in Slots, InsertAccount(s)
  PROVE  IInv'
<1>1. /\ job[s].at = "inserting" /\ job'[s].at = "opening"
      /\ job'[s].account = job[s].account
      /\ OthersKept(s) /\ job' \in [Slots -> Jobs]
  BY ProceedFacts, Kept DEF InsertAccount, Points
<1>2. /\ status' = [status EXCEPT ![job[s].account] = "PendingKYC"]
      /\ ~ Held(holder[job[s].account])
      /\ UNCHANGED <<numbered, holder, opened, created, closed, told, failed, funds, late,
                     cache, faults>>
  BY DEF InsertAccount, eventVars, fundVars
<1>3. Creating(s) /\ JobInv(s) /\ TypeOK
  BY <1>1, Kept DEF Creating
<1>4. status[job[s].account] = "none" /\ failed' \in SUBSET Numbers
  BY <1>1, <1>2, <1>3 DEF JobInv, TypeOK
<1>5. Advance({job[s].account}) /\ Ledgers'
  BY <1>1, <1>2, <1>3, <1>4, WriteRow DEF Statuses
<1>6. JobInv(s)'
  BY <1>1, <1>2, <1>3 DEF JobInv, Creating, Closing, Exists, Statuses, TypeOK
<1>7. QED
  BY <1>1, <1>3, <1>5, <1>6, RequestStep

LEMMA CompensateInv ==
  ASSUME IInv, NEW s \in Slots, Compensate(s)
  PROVE  IInv'
<1>1. job'[s].at = "idle" /\ OthersKept(s) /\ job' \in [Slots -> Jobs]
  BY DoneFacts, Kept DEF Compensate
<1>2. /\ job[s].at = "compensating"
      /\ status' = [status EXCEPT ![job[s].account] = "deleted"]
      /\ failed' = failed \cup {job[s].account}
      /\ UNCHANGED <<numbered, holder, opened, created, closed, told, funds, late,
                     cache, faults>>
  BY DEF Compensate, fundVars
<1>3. Creating(s) /\ JobInv(s) /\ TypeOK
  BY <1>2, Kept DEF Creating
<1>4. failed' \in SUBSET Numbers
  BY <1>2, <1>3 DEF JobInv, TypeOK
<1>5. Advance({job[s].account}) /\ Ledgers'
  BY <1>1, <1>2, <1>3, <1>4, WriteRow DEF Statuses
<1>6. QED
  BY <1>1, <1>3, <1>5, IdleInv, RequestStep

\* The ledger may have made the opening entry of the account that s creates.
LEMMA OpenInv ==
  ASSUME IInv, NEW s \in Slots, Open(s) \/ OpenFails(s)
  PROVE  IInv'
<1>1. PICK to \in {"announcing", "compensating"} :
        /\ Proceed(s, "opening", to)
        /\ opened' \in {opened, opened \cup {job[s].account}}
        /\ to = "announcing" => opened' = opened \cup {job[s].account}
  BY DEF Open, OpenFails
<1>2. /\ job[s].at = "opening" /\ job'[s].at = to
      /\ job'[s].account = job[s].account
      /\ OthersKept(s) /\ job' \in [Slots -> Jobs]
  <2>1. TypeOK /\ to \in Points
    BY Kept DEF Points
  <2>2. QED
    BY <1>1, <2>1, ProceedFacts
<1>3. UNCHANGED <<numbered, status, holder, created, closed, told, failed, funds, late, cache>>
  BY DEF Open, OpenFails, rowVars, eventVars, fundVars
<1>4. faults' \in 0..MaxFaults
  BY Kept DEF Open, OpenFails
<1>5. Creating(s) /\ JobInv(s) /\ TypeOK
  BY <1>2, Kept DEF Creating
<1>6. Advance({})
  BY <1>1, <1>3, <1>5, BoundsAssumption DEF Advance, TypeOK
<1>7. TypeOK'
  <2>1. opened' \subseteq Numbers
    BY <1>1, <1>2, <1>5 DEF JobInv, TypeOK
  <2>2. QED
    BY <2>1, <1>2, <1>3, <1>4, <1>5 DEF TypeOK, Jobs, Points, Exists
<1>8. Ledgers'
  BY <1>1, <1>3, <1>7 DEF IInv, Ledgers, NumbersAreNew, CreatedStands, EventsAreTrue,
     ClosedWasEmpty, Exists
<1>9. JobInv(s)'
  BY <1>1, <1>2, <1>3, <1>5 DEF JobInv, Creating, Closing, Exists
<1>10. QED
  BY <1>2, <1>5, <1>6, <1>8, <1>9, RequestStep

\* The event of the account that s has created is out, and its creator may be told.
LEMMA AnnounceInv ==
  ASSUME IInv, NEW s \in Slots, Announce(s) \/ AnnounceFails(s)
  PROVE  IInv'
<1>1. PICK n : n = job[s].account
  OBVIOUS
<1>2. /\ job[s].at = "announcing" /\ Done(s)
      /\ created' \in {created, created \cup {n}}
      /\ told' \in {told, told \cup {n}} /\ (told' # told => created' = created \cup {n})
      /\ failed' \in {failed, failed \cup {n}}
      /\ UNCHANGED <<numbered, status, holder, opened, closed, funds, late, cache>>
  BY <1>1 DEF Announce, AnnounceFails, rowVars, fundVars
<1>3. faults' \in 0..MaxFaults
  BY Kept DEF Announce, AnnounceFails
<1>4. job'[s].at = "idle" /\ OthersKept(s) /\ job' \in [Slots -> Jobs]
  BY <1>2, DoneFacts, Kept
<1>5. Creating(s) /\ TypeOK /\ n \in Numbers /\ Exists(n) /\ n \in opened
  BY <1>1, <1>2, Kept DEF Creating, JobInv
<1>6. Advance({n})
  BY <1>2, <1>5, BoundsAssumption DEF Advance, TypeOK
<1>7. TypeOK'
  <2>1. opened' \cup created' \cup closed' \cup told' \cup failed' \cup late' \subseteq Numbers
    BY <1>2, <1>5 DEF TypeOK
  <2>2. QED
    BY <2>1, <1>2, <1>3, <1>4, <1>5 DEF TypeOK, Jobs, Points, Exists
<1>8. NumbersAreNew' /\ ClosedWasEmpty'
  BY <1>2 DEF IInv, NumbersAreNew, ClosedWasEmpty
<1>9. EventsAreTrue'
  BY <1>2, <1>5 DEF IInv, EventsAreTrue, Exists
<1>10. CreatedStands'
  BY <1>2, <1>5 DEF IInv, CreatedStands, Exists
<1>11. QED
  BY <1>1, <1>4, <1>5, <1>6, <1>7, <1>8, <1>9, <1>10, IdleInv, RequestStep DEF Ledgers

-----------------------------------------------------------------------------
(* Closing, and what others do to a row. *)

\* A row moves on to a status that it may not leave once it is Closed.
LEMMA MoveRow ==
  ASSUME IInv, NEW n \in Numbers, Exists(n), NEW new \in Statuses,
         status' = [status EXCEPT ![n] = new],
         status[n] = "Closed" => new = "Closed",
         new = "Closed" => funds[n] = 0 \/ n \in late,
         UNCHANGED <<numbered, holder, opened, created, closed, told, failed, funds, late,
                     cache, faults>>,
         job' \in [Slots -> Jobs]
  PROVE  Advance({}) /\ Ledgers'
<1>1. TypeOK
  BY Kept
<1>2. status'[n] = new /\ \A m \in Numbers \ {n} : status'[m] = status[m]
  BY <1>1 DEF TypeOK
<1>3. \A m \in Numbers : Exists(m)' = Exists(m)
  BY <1>2 DEF Exists
<1>4. numbered <= numbered'
  BY <1>1, BoundsAssumption DEF TypeOK
<1>5. Advance({})
  BY <1>2, <1>3, <1>4 DEF Advance
<1>6. TypeOK'
  <2>1. status' \in [Numbers -> Statuses \cup {"none", "deleted"}]
    BY <1>1 DEF TypeOK
  <2>2. QED
    BY <2>1, <1>1, <1>3 DEF TypeOK, Jobs, Points
<1>7. NumbersAreNew'
  BY <1>2 DEF IInv, NumbersAreNew, Exists, Statuses
<1>8. CreatedStands' /\ EventsAreTrue'
  <2>1. created \cup told \cup closed \subseteq Numbers
    BY <1>1 DEF TypeOK
  <2>2. \A m \in closed : status'[m] \in {"Closed", "deleted"}
    BY <2>1, <1>2 DEF IInv, EventsAreTrue, Exists, Statuses
  <2>3. QED
    BY <2>1, <2>2, <1>3 DEF IInv, CreatedStands, EventsAreTrue
<1>9. ClosedWasEmpty'
  BY <1>2 DEF IInv, ClosedWasEmpty
<1>10. QED
  BY <1>5, <1>6, <1>7, <1>8, <1>9 DEF Ledgers

LEMMA PersistCloseInv ==
  ASSUME IInv, NEW s \in Slots, PersistClose(s)
  PROVE  IInv'
<1>1. PICK n : n = job[s].account
  OBVIOUS
<1>2. /\ job[s].at = "closing" /\ job'[s].at = "announcing_close"
      /\ job'[s].account = n
      /\ OthersKept(s) /\ job' \in [Slots -> Jobs]
  BY <1>1, ProceedFacts, Kept DEF PersistClose, Points
<1>3. /\ status' = [status EXCEPT ![n] = IF Exists(n) THEN "Closed" ELSE @]
      /\ UNCHANGED <<numbered, holder, opened, created, closed, told, failed, funds, late,
                     cache, faults>>
  BY <1>1 DEF PersistClose, eventVars, fundVars
<1>4. TypeOK /\ n \in Numbers /\ status[n] # "none" /\ (funds[n] = 0 \/ n \in late)
  BY <1>1, <1>2, Kept DEF JobInv, Closing
<1>5. Advance({}) /\ Ledgers' /\ status'[n] \in {"Closed", "deleted"}
  <2>1. CASE Exists(n)
    <3>1. status' = [status EXCEPT ![n] = "Closed"] /\ status'[n] = "Closed"
      BY <2>1, <1>3, <1>4 DEF TypeOK
    <3>2. QED
      BY <2>1, <3>1, <1>2, <1>3, <1>4, MoveRow DEF Statuses
  <2>2. CASE ~ Exists(n)
    <3>1. status' = status
      BY <2>2, <1>3, <1>4 DEF TypeOK
    <3>2. UNCHANGED <<rowVars, opened, eventVars, fundVars>>
      BY <3>1, <1>3 DEF rowVars, eventVars, fundVars
    <3>3. faults' \in 0..MaxFaults /\ cache' \in [Numbers -> {None} \cup 0..MaxPostings]
      BY <1>3, Kept
    <3>4. status[n] = "deleted"
      BY <2>2, <1>4 DEF TypeOK, Exists
    <3>5. QED
      BY <3>1, <3>2, <3>3, <3>4, <1>2, QuietFacts
  <2>3. QED
    BY <2>1, <2>2
<1>6. JobInv(s)' /\ ~ Creating(s)'
  BY <1>2, <1>4, <1>5 DEF JobInv, Creating, Closing
<1>7. QED
  BY <1>2, <1>5, <1>6, RequestStep

LEMMA AnnounceCloseInv ==
  ASSUME IInv, NEW s \in Slots, AnnounceClose(s)
  PROVE  IInv'
<1>1. PICK n : n = job[s].account
  OBVIOUS
<1>2. /\ job[s].at = "announcing_close" /\ Done(s)
      /\ closed' = closed \cup {n}
      /\ UNCHANGED <<numbered, status, holder, opened, created, told, failed, funds, late,
                     cache, faults>>
  BY <1>1 DEF AnnounceClose, rowVars, fundVars
<1>3. job'[s].at = "idle" /\ OthersKept(s) /\ job' \in [Slots -> Jobs]
  BY <1>2, DoneFacts, Kept
<1>4. TypeOK /\ n \in Numbers /\ status[n] \in {"Closed", "deleted"}
  BY <1>1, <1>2, Kept DEF JobInv
<1>5. Advance({})
  BY <1>2, <1>4, BoundsAssumption DEF Advance, TypeOK
<1>6. TypeOK'
  BY <1>2, <1>3, <1>4 DEF TypeOK, Jobs, Points, Exists
<1>7. Ledgers'
  BY <1>2, <1>4, <1>6 DEF IInv, Ledgers, NumbersAreNew, CreatedStands, EventsAreTrue,
     ClosedWasEmpty, Exists
<1>8. QED
  BY <1>3, <1>5, <1>7, IdleInv, RequestStep

LEMMA ChangeStatusInv ==
  ASSUME IInv, NEW n \in Numbers, NEW to \in Statuses, ChangeStatus(n, to)
  PROVE  IInv'
<1>1. status[n] # "Closed"
  BY DEF ChangeStatus, CanChange
<1>2. /\ UNCHANGED <<numbered, holder, opened, created, closed, told, failed, funds, late,
                     cache, faults>>
      /\ job' = job /\ status' = [status EXCEPT ![n] = to] /\ to # "Closed" /\ Exists(n)
  BY DEF ChangeStatus, eventVars, fundVars
<1>3. job' \in [Slots -> Jobs]
  BY <1>2, Kept DEF TypeOK, Jobs, Points
<1>4. Advance({}) /\ Ledgers'
  BY <1>1, <1>2, <1>3, MoveRow
<1>5. QED
  BY <1>2, <1>4, OutsideStep

LEMMA PostInv ==
  ASSUME IInv, NEW n \in Numbers, Post(n)
  PROVE  IInv'
<1>1. /\ funds[n] < MaxPostings /\ funds' = [funds EXCEPT ![n] = @ + 1]
      /\ late' \in {late, late \cup {n}}
      /\ \/ n \in late'
         \/ /\ status[n] # "Closed"
            /\ \A s \in Slots : ~ (job[s].at = "closing" /\ job[s].account = n)
      /\ UNCHANGED <<numbered, status, holder, opened, created, closed, told, failed,
                     cache, job, faults>>
  BY DEF Post, rowVars, eventVars
<1>2. TypeOK /\ funds[n] \in Nat /\ MaxPostings \in Nat
  BY Kept, BoundsAssumption DEF TypeOK
<1>3. \A m \in Numbers \ {n} : funds'[m] = funds[m]
  BY <1>1, <1>2 DEF TypeOK
<1>4. Advance({})
  BY <1>1, <1>2, <1>3, BoundsAssumption DEF Advance, TypeOK
<1>5. TypeOK'
  <2>1. funds' \in [Numbers -> 0..MaxPostings]
    BY <1>1, <1>2 DEF TypeOK
  <2>2. QED
    BY <2>1, <1>1, <1>2 DEF TypeOK, Exists
<1>6. ClosedWasEmpty'
  BY <1>1, <1>3 DEF IInv, ClosedWasEmpty
<1>7. QED
  BY <1>1, <1>4, <1>5, <1>6, OutsideStep
  DEF IInv, Ledgers, NumbersAreNew, CreatedStands, EventsAreTrue, Exists

LEMMA CacheExpiresInv ==
  ASSUME IInv, NEW n \in Numbers, CacheExpires(n)
  PROVE  IInv'
<1>1. /\ cache' \in [Numbers -> {None} \cup 0..MaxPostings]
      /\ faults' \in 0..MaxFaults /\ job' = job
      /\ UNCHANGED <<rowVars, opened, eventVars, fundVars>>
  BY Kept DEF CacheExpires
<1>2. job' \in [Slots -> Jobs]
  BY <1>1, Kept DEF TypeOK, Jobs, Points
<1>3. QED
  BY <1>1, <1>2, QuietFacts, OutsideStep

-----------------------------------------------------------------------------
LEMMA InitInv == Init => IInv
<1> SUFFICES ASSUME Init PROVE IInv
  OBVIOUS
<1>1. \A s \in Slots : job[s] = Idle
  BY DEF Init
<1>2. TypeOK
  <2>1. Idle \in Jobs
    BY DEF Idle, Jobs, Points
  <2>2. job \in [Slots -> Jobs]
    BY <2>1 DEF Init
  <2>3. QED
    BY <2>2, BoundsAssumption DEF Init, TypeOK, Jobs, Points, Exists, Statuses
<1>3. QED
  BY <1>1, <1>2 DEF Init, IInv, NumbersAreNew, OneCreator, JobInv, Creating, Closing, Idle,
     CreatedStands, EventsAreTrue, ClosedWasEmpty

LEMMA StutterInv == ASSUME IInv, UNCHANGED vars PROVE IInv'
<1>1. UNCHANGED <<rowVars, opened, eventVars, fundVars, cache, job, faults>>
  BY DEF vars, rowVars, eventVars, fundVars
<1>2. job' \in [Slots -> Jobs] /\ job' = job
  BY <1>1, Kept DEF TypeOK, Jobs, Points
<1>3. faults' \in 0..MaxFaults /\ cache' \in [Numbers -> {None} \cup 0..MaxPostings]
  BY <1>1, Kept
<1>4. QED
  BY <1>1, <1>2, <1>3, QuietFacts, OutsideStep

LEMMA NextInv == IInv /\ [Next]_vars => IInv'
<1> SUFFICES ASSUME IInv, [Next]_vars PROVE IInv'
  OBVIOUS
<1>1. ASSUME NEW s \in Slots, Work(s)
      PROVE  IInv'
  BY <1>1, InsertAccountInv, EndInv, OpenInv, CompensateInv, AnnounceInv, AskInv,
     PersistCloseInv, AnnounceCloseInv, AskBalanceInv, FillCacheInv
  DEF Work
<1>2. ASSUME NEW s \in Slots, OpenFails(s) \/ AnnounceFails(s) \/ Fail(s)
      PROVE  IInv'
  BY <1>2, OpenInv, AnnounceInv, EndInv
<1>3. ASSUME NEW s \in Slots, NEW h \in Holders, TakeNumber(s, h)
      PROVE  IInv'
  BY <1>3, TakeNumberInv
<1>4. ASSUME NEW s \in Slots, NEW n \in Numbers, StartClose(s, n) \/ StartBalance(s, n)
      PROVE  IInv'
  BY <1>4, StartInv
<1>5. ASSUME NEW n \in Numbers, \/ CacheExpires(n) \/ Post(n)
                                \/ \E to \in Statuses : ChangeStatus(n, to)
      PROVE  IInv'
  BY <1>5, CacheExpiresInv, PostInv, ChangeStatusInv
<1>6. CASE UNCHANGED vars
  BY <1>6, StutterInv
<1>7. QED
  BY <1>1, <1>2, <1>3, <1>4, <1>5, <1>6 DEF Next

LEMMA Invariance == Spec => []IInv
BY InitInv, NextInv, PTL DEF Spec

\* The variables have their types, and a user has one account at most in a currency.
THEOREM AccountsTypeCorrect == Spec => []TypeOK
<1>1. IInv => TypeOK
  BY DEF IInv
<1>2. QED
  BY Invariance, <1>1, PTL

\* No compensation, freeze or close removes the account of a creator who was answered 201,
\* nor its opening entry or its event.
THEOREM CreationStands == Spec => []CreatedStands
<1>1. IInv => CreatedStands
  BY DEF IInv
<1>2. QED
  BY Invariance, <1>1, PTL

\* An event never tells of an account that is not there, or not closed.
THEOREM AccountEventsAreTrue == Spec => []EventsAreTrue
<1>1. IInv => EventsAreTrue
  BY DEF IInv
<1>2. QED
  BY Invariance, <1>1, PTL

\* Money in a closed account came after the close had checked the balance.
THEOREM ClosedIsEmpty == Spec => []ClosedWasEmpty
<1>1. IInv => ClosedWasEmpty
  BY DEF IInv
<1>2. QED
  BY Invariance, <1>1, PTL
=============================================================================
