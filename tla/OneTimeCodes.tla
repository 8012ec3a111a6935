--------------------------- MODULE OneTimeCodes ---------------------------
(***************************************************************************)
(* What kova-auth asks of a user again and again: the one-time codes it    *)
(* texts and limits (services/kova-auth/src/handlers/otp.rs), the PIN that *)
(* a code protects (handlers/pin.rs) and the biometric challenge           *)
(* (handlers/biometric.rs), by concurrent requests over one MySQL database *)
(* and one Redis.                                                          *)
(*                                                                         *)
(* A user is named by the phone number, a row of otp_codes by the order of *)
(* its INSERT, and its digits by the row.  Every statement is a            *)
(* transaction of its own.  A request that is refused before it has        *)
(* changed anything is no step.                                            *)
(***************************************************************************)
EXTENDS Integers, FiniteSets

CONSTANTS
  Phones,
  Pins,
  Slots,          \* requests that the service works on at a time
  Limit,          \* OTP_RATE_LIMIT
  MaxCodes,       \* bound: codes ever made
  MaxChallenges,  \* bound: challenges ever issued
  MaxFaults,      \* bound: statements that fail and requests that are lost
  None

ASSUME LimitAssumption  == Limit \in Nat \ {0}
ASSUME BoundsAssumption == /\ MaxCodes \in Nat
                           /\ MaxChallenges \in Nat
                           /\ MaxFaults \in Nat
ASSUME SlotsAssumption  == IsFiniteSet(Slots)
ASSUME NoneAssumption   == None \notin Phones \cup Pins \cup Int

Codes      == 1..MaxCodes
Challenges == 1..MaxChallenges

VARIABLES
  registered,  \* phones with a row in users
  signedIn,    \* those that were given a pair of tokens
  pin,         \* pin_hash, None for the empty one
  codes,       \* the rows of otp_codes
  count,       \* the counter kova:otp:rl: of each phone, 0 when there is none
  expiring,    \* whether it has a TTL
  texts,       \* texts sent to the phone since its last window ended
  challenge,   \* the key kova:biometric:challenge: of each phone
  issued,      \* challenges issued so far
  job,         \* the request in each slot
  granted,     \* what each code was accepted for: pairs and PINs
  passed,      \* pairs given for each challenge
  faults

redisVars   == <<count, expiring, texts>>
userVars    == <<registered, signedIn, pin>>
challVars   == <<challenge, issued>>
historyVars == <<granted, passed>>
vars == <<registered, signedIn, pin, codes, count, expiring, texts, challenge, issued,
          job, granted, passed, faults>>

NoCode == [phone |-> None, second |-> 0, state |-> "none"]
Idle   == [at |-> "idle", phone |-> None, code |-> None, new |-> None, token |-> None]

-----------------------------------------------------------------------------
Made == {k \in Codes : codes[k].state # "none"}

LiveOrUsed(p) == {k \in Made : codes[k].phone = p /\ codes[k].state # "expired"}

\* WHERE expires_at > NOW() AND used_at IS NULL
Live(p) == {k \in Made : codes[k].phone = p /\ codes[k].state = "live"}

\* ORDER BY created_at DESC LIMIT 1; created_at counts seconds, and rows of one
\* second come in any order.
Newest(rows) == {k \in rows : \A j \in rows : codes[j].second <= codes[k].second}

Proceed(s, from, to) == /\ job[s].at = from
                        /\ job' = [job EXCEPT ![s].at = to]

Done(s) == job' = [job EXCEPT ![s] = Idle]

Init ==
  /\ registered = {}
  /\ signedIn = {}
  /\ pin = [p \in Phones |-> None]
  /\ codes = [k \in Codes |-> NoCode]
  /\ count = [p \in Phones |-> 0]
  /\ expiring = [p \in Phones |-> FALSE]
  /\ texts = [p \in Phones |-> 0]
  /\ challenge = [p \in Phones |-> None]
  /\ issued = 0
  /\ job = [s \in Slots |-> Idle]
  /\ granted = [k \in Codes |-> 0]
  /\ passed = [t \in Challenges |-> 0]
  /\ faults = 0

\* register: the UNIQUE key on phone_number refuses a second row.  The row of
\* devices that follows is read by nobody.
Register(p) ==
  /\ p \notin registered
  /\ registered' = registered \cup {p}
  /\ UNCHANGED <<signedIn, pin, codes, redisVars, challVars, job, historyVars, faults>>

-----------------------------------------------------------------------------
(* otp_request *)

Fault == /\ faults < MaxFaults
         /\ faults' = faults + 1

StartRequest(s, p) ==
  /\ job[s] = Idle
  /\ job' = [job EXCEPT ![s] = [Idle EXCEPT !.at = "storing", !.phone = p]]

CheckLimitInclusive(s, p) ==
  /\ StartRequest(s, p)
  /\ count[p] <= Limit
  /\ UNCHANGED <<userVars, codes, redisVars, challVars, historyVars, faults>>

\* GET of the counter: below the limit, go on.
CheckLimit(s, p) ==
  /\ StartRequest(s, p)
  /\ count[p] < Limit
  /\ UNCHANGED <<userVars, codes, redisVars, challVars, historyVars, faults>>

\* The GET fails, which counts as 0.
LimitUnread(s, p) ==
  /\ Fault
  /\ StartRequest(s, p)
  /\ UNCHANGED <<userVars, codes, redisVars, challVars, historyVars>>

\* The user is looked up and the row of a new code inserted, in the second of
\* the last one or in a later one.
StoreCode(s) ==
  /\ Proceed(s, "storing", "texting")
  /\ job[s].phone \in registered
  /\ \E k \in Codes \ Made, later \in {0, 1} :
       /\ Made = 1..(k - 1)
       /\ codes' = [codes EXCEPT ![k] =
            [phone |-> job[s].phone, state |-> "live",
             second |-> IF k = 1 THEN 1 ELSE codes[k - 1].second + later]]
  /\ UNCHANGED <<userVars, redisVars, challVars, historyVars, faults>>

UserNotFound(s) ==
  /\ job[s].at = "storing"
  /\ job[s].phone \notin registered
  /\ Done(s)
  /\ UNCHANGED <<userVars, codes, redisVars, challVars, historyVars, faults>>

SendText(s) ==
  /\ Proceed(s, "texting", "counting")
  /\ texts' = [texts EXCEPT ![job[s].phone] = @ + 1]
  /\ UNCHANGED <<userVars, codes, count, expiring, challVars, historyVars, faults>>

\* INCR; the first request of a window has to set its end.
Count(s) ==
  LET p == job[s].phone
  IN  /\ job[s].at = "counting"
      /\ count' = [count EXCEPT ![p] = @ + 1]
      /\ IF count[p] = 0 THEN Proceed(s, "counting", "limiting") ELSE Done(s)
      /\ UNCHANGED <<userVars, codes, expiring, texts, challVars, historyVars, faults>>

\* EXPIRE, whose failure is ignored (Fail).
SetWindow(s) ==
  /\ job[s].at = "limiting"
  /\ expiring' = [expiring EXCEPT ![job[s].phone] = TRUE]
  /\ Done(s)
  /\ UNCHANGED <<userVars, codes, count, texts, challVars, historyVars, faults>>

\* The TTL of 600 seconds runs out.
WindowEnds(p) ==
  /\ expiring[p]
  /\ count' = [count EXCEPT ![p] = 0]
  /\ expiring' = [expiring EXCEPT ![p] = FALSE]
  /\ texts' = [texts EXCEPT ![p] = 0]
  /\ UNCHANGED <<userVars, codes, challVars, job, historyVars, faults>>

\* A code is 5 minutes old.
CodeExpires(k) ==
  /\ codes[k].state = "live"
  /\ codes' = [codes EXCEPT ![k].state = "expired"]
  /\ UNCHANGED <<userVars, redisVars, challVars, job, historyVars, faults>>

-----------------------------------------------------------------------------
(* otp_verify, pin_set and pin_change *)

AcceptCodeOnceMore(p, k) == k \in Newest(LiveOrUsed(p))

\* The SELECT finds the row whose digits the caller has sent.
AcceptCode(p, k) == k \in Newest(Live(p))

VerifyCode(s, p, k) ==
  /\ job[s] = Idle
  /\ p \in registered
  /\ AcceptCode(p, k)
  /\ job' = [job EXCEPT ![s] = [Idle EXCEPT !.at = "using", !.phone = p, !.code = k]]
  /\ UNCHANGED <<userVars, codes, redisVars, challVars, historyVars, faults>>

\* pin_set finds no PIN, or pin_change the one the caller knows.
ReadPin(s, p, new) ==
  /\ job[s] = Idle
  /\ p \in signedIn
  /\ job' = [job EXCEPT ![s] = [Idle EXCEPT !.at = "checking", !.phone = p, !.new = new]]
  /\ UNCHANGED <<userVars, codes, redisVars, challVars, historyVars, faults>>

\* verify_otp_for_user, its SELECT.
CheckCode(s, k) ==
  /\ job[s].at = "checking"
  /\ AcceptCode(job[s].phone, k)
  /\ job' = [job EXCEPT ![s].at = "using", ![s].code = k]
  /\ UNCHANGED <<userVars, codes, redisVars, challVars, historyVars, faults>>

WrongCode(s) ==
  /\ job[s].at = "checking"
  /\ Done(s)
  /\ UNCHANGED <<userVars, codes, redisVars, challVars, historyVars, faults>>

\* UPDATE ... SET used_at, which does not ask whether it is set already.
UseCode(s) ==
  /\ Proceed(s, "using", IF job[s].new = None THEN "issuing" ELSE "writing")
  /\ codes' = [codes EXCEPT ![job[s].code].state = "used"]
  /\ UNCHANGED <<userVars, redisVars, challVars, historyVars, faults>>

WritePin(s) ==
  /\ job[s].at = "writing"
  /\ pin' = [pin EXCEPT ![job[s].phone] = job[s].new]
  /\ granted' = [granted EXCEPT ![job[s].code] = @ + 1]
  /\ Done(s)
  /\ UNCHANGED <<registered, signedIn, codes, redisVars, challVars, passed, faults>>

\* issue_token_pair (Sessions), for a code or for a challenge.
IssuePair(s) ==
  /\ job[s].at = "issuing"
  /\ signedIn' = signedIn \cup {job[s].phone}
  /\ granted' = [k \in Codes |-> granted[k] + IF k = job[s].code THEN 1 ELSE 0]
  /\ passed' = [t \in Challenges |-> passed[t] + IF t = job[s].token THEN 1 ELSE 0]
  /\ Done(s)
  /\ UNCHANGED <<registered, pin, codes, redisVars, challVars, faults>>

-----------------------------------------------------------------------------
(* biometric_challenge and biometric_verify *)

\* SET EX replaces the challenge that may be there.
IssueChallenge(p) ==
  /\ p \in signedIn
  /\ issued < MaxChallenges
  /\ issued' = issued + 1
  /\ challenge' = [challenge EXCEPT ![p] = issued']
  /\ UNCHANGED <<userVars, codes, redisVars, job, historyVars, faults>>

\* Its TTL of 60 seconds runs out.
ChallengeExpires(p) ==
  /\ challenge[p] # None
  /\ challenge' = [challenge EXCEPT ![p] = None]
  /\ UNCHANGED <<userVars, codes, redisVars, issued, job, historyVars, faults>>

AnswerChallengeByGet(s, p) ==
  /\ job[s] = Idle
  /\ p \in signedIn
  /\ challenge[p] # None
  /\ job' = [job EXCEPT ![s] =
       [Idle EXCEPT !.at = "issuing", !.phone = p, !.token = challenge[p]]]
  /\ UNCHANGED <<userVars, codes, redisVars, challVars, historyVars, faults>>

\* GETDEL, and the token is the caller's.  With another token the key is gone all
\* the same (ChallengeExpires).
AnswerChallenge(s, p) ==
  /\ job[s] = Idle
  /\ p \in signedIn
  /\ challenge[p] # None
  /\ challenge' = [challenge EXCEPT ![p] = None]
  /\ job' = [job EXCEPT ![s] =
       [Idle EXCEPT !.at = "issuing", !.phone = p, !.token = challenge[p]]]
  /\ UNCHANGED <<userVars, codes, redisVars, issued, historyVars, faults>>

-----------------------------------------------------------------------------
\* A statement or the SMS provider fails, or the request is lost between two.
Fail(s) ==
  /\ job[s] # Idle
  /\ Fault
  /\ Done(s)
  /\ UNCHANGED <<userVars, codes, redisVars, challVars, historyVars>>

Work(s) ==
  \/ StoreCode(s) \/ UserNotFound(s) \/ SendText(s) \/ Count(s) \/ SetWindow(s)
  \/ WrongCode(s) \/ UseCode(s) \/ WritePin(s) \/ IssuePair(s)

Start(s, p) ==
  \/ CheckLimit(s, p) \/ LimitUnread(s, p)
  \/ \E k \in Codes : VerifyCode(s, p, k)
  \/ \E new \in Pins : ReadPin(s, p, new)
  \/ AnswerChallenge(s, p)

Next ==
  \/ \E s \in Slots : \/ Work(s)
                      \/ Fail(s)
                      \/ \E p \in Phones : Start(s, p)
                      \/ \E k \in Codes : CheckCode(s, k)
  \/ \E p \in Phones : \/ Register(p) \/ WindowEnds(p)
                       \/ IssueChallenge(p) \/ ChallengeExpires(p)
  \/ \E k \in Codes : CodeExpires(k)

Spec == Init /\ [][Next]_vars

-----------------------------------------------------------------------------
(* Properties. *)

\* The variables have their types; every row of otp_codes belongs to a user
\* there is, who was looked up before the INSERT.
TypeOK ==
  /\ registered \subseteq Phones
  /\ signedIn \subseteq registered
  /\ pin \in [Phones -> Pins \cup {None}]
  /\ codes \in [Codes -> {NoCode} \cup [phone : Phones, second : 1..MaxCodes,
                                       state : {"live", "used", "expired"}]]
  /\ \A k \in Made : codes[k].phone \in registered
  /\ count \in [Phones -> Nat]
  /\ expiring \in [Phones -> BOOLEAN]
  /\ texts \in [Phones -> Nat]
  /\ challenge \in [Phones -> Challenges \cup {None}]
  /\ issued \in 0..MaxChallenges
  /\ job \in [Slots -> [at : {"idle", "storing", "texting", "counting", "limiting",
                              "checking", "using", "writing", "issuing"},
                        phone : Phones \cup {None}, code : Codes \cup {None},
                        new : Pins \cup {None}, token : Challenges \cup {None}]]
  /\ granted \in [Codes -> Nat]
  /\ passed \in [Challenges -> Nat]
  /\ faults \in 0..MaxFaults

\* "Rate-limited to 3 requests per 10 minutes per phone number" (otp.rs:40), as
\* far as the code keeps it: the GET and the INCR are apart, so the requests that
\* are served at one time may all pass the limit, and a fault may lose a count,
\* but no more texts than that are sent in a window.
TextsBounded ==
  \A p \in Phones : texts[p] <= Limit - 1 + Cardinality(Slots) + faults

\* A code is marked before anything is given for it, so that whatever fails it
\* is not accepted again: once it was good for a pair or a PIN, no request that
\* has not read it yet gets it.
GrantedIsSpent ==
  [][\A k \in Codes : granted[k] > 0 =>
       /\ codes'[k].state = "used"
       /\ \A s \in Slots : job'[s].code = k => job[s].code = k]_vars

\* "Retrieve and atomically delete the challenge (single-use)"
\* (biometric.rs:77): one challenge gives one pair of tokens at most, to however
\* many requests that answer it at the same time.
ChallengeOnce == \A t \in Challenges : passed[t] <= 1

\* "Second use of the same OTP returns 409" (TASKS.md:681): a code is good for
\* one pair of tokens or one PIN.  Two requests at once break it.
OneGrantPerCode == \A k \in Codes : granted[k] <= 1
=============================================================================
