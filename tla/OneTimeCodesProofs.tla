------------------------ MODULE OneTimeCodesProofs ------------------------
(***************************************************************************)
(* Proofs about OneTimeCodes, for any number of phones, requests, codes,   *)
(* challenges and faults and for any limit.  The limit is read in one      *)
(* statement and the counter raised in another, after the text is sent:    *)
(* the bound on the texts holds because those that the counter does not    *)
(* know of yet belong to requests that are still being served, or were     *)
(* lost to a fault.                                                        *)
(***************************************************************************)
EXTENDS OneTimeCodes, FiniteSetTheorems, TLAPS

\* The request in s has passed the limit of p and has not texted yet.
Texting(p) == {s \in Slots : job[s].phone = p /\ job[s].at \in {"storing", "texting"}}

\* It has texted and is not counted.
Counting(p) == {s \in Slots : job[s].phone = p /\ job[s].at = "counting"}

\* What was texted is counted, is about to be, or was lost; and who may text yet had
\* room when it passed the limit.
LimitInv ==
  \A p \in Phones :
    /\ texts[p] <= count[p] + Cardinality(Counting(p)) + faults
    /\ texts[p] + Cardinality(Texting(p)) <= Limit - 1 + Cardinality(Slots) + faults

\* The rows are in the order of their seconds, and what was granted is marked.
CodeInv ==
  /\ \A k \in Made : codes[k].second <= k
  /\ \A k \in Codes : granted[k] > 0 => codes[k].state = "used"

\* What the request in s may count on, by where it is.
JobInv(s) ==
  /\ job[s].at # "idle" => job[s].phone \in Phones
  /\ job[s].at \in {"checking", "using", "writing", "issuing"} => job[s].phone \in registered
  /\ job[s].at \in {"using", "writing"} => job[s].code # None
  /\ job[s].code # None => /\ job[s].at \in {"using", "writing", "issuing"}
                           /\ job[s].code \in Made
                           /\ job[s].at # "using" => codes[job[s].code].state = "used"

\* A challenge is in the key of one phone, or with one request, or it has passed.
ChallengeInv ==
  /\ \A p \in Phones : challenge[p] # None =>
       /\ challenge[p] <= issued /\ passed[challenge[p]] = 0
       /\ \A q \in Phones : challenge[q] = challenge[p] => q = p
       /\ \A s \in Slots : job[s].token # challenge[p]
  /\ \A s \in Slots : job[s].token # None =>
       /\ job[s].token <= issued /\ passed[job[s].token] = 0
       /\ \A r \in Slots : job[r].token = job[s].token => r = s
  /\ \A t \in Challenges : passed[t] > 0 => t <= issued
  /\ ChallengeOnce

IInv == /\ TypeOK
        /\ LimitInv
        /\ CodeInv
        /\ \A s \in Slots : JobInv(s)
        /\ ChallengeInv

-----------------------------------------------------------------------------
Points == {"idle", "storing", "texting", "counting", "limiting", "checking", "using",
           "writing", "issuing"}

Jobs == [at : Points, phone : Phones \cup {None}, code : Codes \cup {None},
         new : Pins \cup {None}, token : Challenges \cup {None}]

Rows == [phone : Phones, second : 1..MaxCodes, state : {"live", "used", "expired"}]

OthersKept(s) == \A r \in Slots \ {s} : job'[r] = job[r]

LEMMA Types ==
  ASSUME TypeOK
  PROVE  /\ job \in [Slots -> Jobs]
         /\ codes \in [Codes -> {NoCode} \cup Rows]
         /\ faults \in Nat /\ Limit \in Nat \ {0} /\ issued \in Nat
         /\ Fault => faults' = faults + 1 /\ faults' \in 0..MaxFaults
BY BoundsAssumption, LimitAssumption DEF TypeOK, Jobs, Points, Rows, Fault

LEMMA MadeRows ==
  ASSUME TypeOK
  PROVE  \A k \in Codes : k \in Made <=> codes[k] \in Rows
<1>1. codes \in [Codes -> {NoCode} \cup Rows]
  BY Types
<1>2. QED
  BY <1>1 DEF Made, Rows, NoCode

LEMMA ProceedFacts ==
  ASSUME TypeOK, NEW s \in Slots, NEW from, NEW to \in Points, Proceed(s, from, to)
  PROVE  /\ job[s].at = from /\ job[s] \in Jobs /\ job'[s] \in Jobs
         /\ job'[s] = [job[s] EXCEPT !.at = to]
         /\ job'[s].at = to /\ job'[s].phone = job[s].phone
         /\ job'[s].code = job[s].code /\ job'[s].new = job[s].new
         /\ job'[s].token = job[s].token
         /\ OthersKept(s) /\ job' \in [Slots -> Jobs]
<1>1. job \in [Slots -> Jobs]
  BY Types
<1>2. job[s].at = from /\ job' = [job EXCEPT ![s].at = to]
  BY DEF Proceed
<1>3. job[s] \in Jobs
  BY <1>1
<1>4. [job[s] EXCEPT !.at = to] \in Jobs
  BY <1>3 DEF Jobs
<1>5. job'[s] = [job[s] EXCEPT !.at = to] /\ OthersKept(s)
  BY <1>1, <1>2 DEF OthersKept
<1>6. job' \in [Slots -> Jobs]
  BY <1>1, <1>2, <1>4
<1>7. /\ job'[s].at = to /\ job'[s].phone = job[s].phone
      /\ job'[s].code = job[s].code /\ job'[s].new = job[s].new
      /\ job'[s].token = job[s].token
  BY <1>3, <1>5 DEF Jobs
<1>8. QED
  BY <1>2, <1>3, <1>5, <1>6, <1>7

LEMMA StartFacts ==
  ASSUME TypeOK, NEW s \in Slots, NEW j \in Jobs, job' = [job EXCEPT ![s] = j]
  PROVE  job'[s] = j /\ OthersKept(s) /\ job' \in [Slots -> Jobs]
<1>1. job \in [Slots -> Jobs]
  BY Types
<1>2. QED
  BY <1>1 DEF OthersKept

LEMMA DoneFacts ==
  ASSUME TypeOK, NEW s \in Slots, Done(s)
  PROVE  /\ job'[s] = Idle /\ job'[s].at = "idle" /\ job'[s].code = None
         /\ job'[s].token = None
         /\ OthersKept(s) /\ job' \in [Slots -> Jobs]
<1>1. Idle \in Jobs /\ Idle.at = "idle" /\ Idle.code = None /\ Idle.token = None
  BY DEF Idle, Jobs, Points
<1>2. QED
  BY <1>1, StartFacts DEF Done

-----------------------------------------------------------------------------
(* The limit. *)

LEMMA Counts ==
  ASSUME TypeOK, NEW p
  PROVE  /\ IsFiniteSet(Texting(p)) /\ IsFiniteSet(Counting(p))
         /\ Cardinality(Texting(p)) \in Nat /\ Cardinality(Counting(p)) \in Nat
         /\ Cardinality(Slots) \in Nat
         /\ Cardinality(Texting(p)) + Cardinality(Counting(p)) <= Cardinality(Slots)
<1>1. /\ Texting(p) \subseteq Slots /\ Counting(p) \subseteq Slots
      /\ Texting(p) \cap Counting(p) = {}
  BY DEF Texting, Counting
<1>2. IsFiniteSet(Texting(p)) /\ IsFiniteSet(Counting(p)) /\ IsFiniteSet(Slots)
  BY <1>1, SlotsAssumption, FS_Subset
<1>3. /\ Cardinality(Texting(p)) \in Nat /\ Cardinality(Counting(p)) \in Nat
      /\ Cardinality(Slots) \in Nat
  BY <1>2, FS_CardinalityType
<1>4. Cardinality(Texting(p) \cup Counting(p))
        = Cardinality(Texting(p)) + Cardinality(Counting(p))
  BY <1>1, <1>2, <1>3, FS_Union, FS_EmptySet
<1>5. Cardinality(Texting(p) \cup Counting(p)) <= Cardinality(Slots)
  BY <1>1, <1>2, FS_Subset
<1>6. QED
  BY <1>2, <1>3, <1>4, <1>5

\* The same after a step of which only the jobs matter.
LEMMA CountsAfter ==
  ASSUME NEW p
  PROVE  /\ IsFiniteSet(Texting(p)') /\ IsFiniteSet(Counting(p)')
         /\ Cardinality(Texting(p)') \in Nat /\ Cardinality(Counting(p)') \in Nat
         /\ Cardinality(Texting(p)') + Cardinality(Counting(p)') <= Cardinality(Slots)
<1>1. /\ Texting(p)' \subseteq Slots /\ Counting(p)' \subseteq Slots
      /\ Texting(p)' \cap Counting(p)' = {}
  BY DEF Texting, Counting
<1>2. IsFiniteSet(Texting(p)') /\ IsFiniteSet(Counting(p)') /\ IsFiniteSet(Slots)
  BY <1>1, SlotsAssumption, FS_Subset
<1>3. Cardinality(Texting(p)') \in Nat /\ Cardinality(Counting(p)') \in Nat
  BY <1>2, FS_CardinalityType
<1>4. Cardinality(Texting(p)' \cup Counting(p)')
        = Cardinality(Texting(p)') + Cardinality(Counting(p)')
  BY <1>1, <1>2, <1>3, FS_Union, FS_EmptySet
<1>5. Cardinality(Texting(p)' \cup Counting(p)') <= Cardinality(Slots)
  BY <1>1, <1>2, FS_Subset
<1>6. QED
  BY <1>2, <1>3, <1>4, <1>5

LEMMA OneElement ==
  ASSUME NEW S, NEW T, NEW x, IsFiniteSet(S), S \ {x} = T \ {x}
  PROVE  /\ (x \in S <=> x \in T) => Cardinality(T) = Cardinality(S)
         /\ x \in T /\ x \notin S => Cardinality(T) = Cardinality(S) + 1
         /\ x \in S /\ x \notin T => Cardinality(T) = Cardinality(S) - 1
<1>1. (x \in S <=> x \in T) => T = S
  OBVIOUS
<1>2. x \in T /\ x \notin S => T = S \cup {x}
  OBVIOUS
<1>3. x \in S /\ x \notin T => T = S \ {x}
  OBVIOUS
<1>4. x \in T /\ x \notin S => Cardinality(T) = Cardinality(S) + 1
  BY <1>2, FS_AddElement
<1>5. x \in S /\ x \notin T => Cardinality(T) = Cardinality(S) - 1
  BY <1>3, FS_RemoveElement
<1>6. QED
  BY <1>1, <1>4, <1>5

\* A step of the request in s moves s alone in and out of these sets.
LEMMA OneMoves ==
  ASSUME TypeOK, NEW s \in Slots, OthersKept(s), NEW p
  PROVE  /\ (s \in Texting(p) <=> s \in Texting(p)') =>
              Cardinality(Texting(p)') = Cardinality(Texting(p))
         /\ s \in Texting(p)' /\ s \notin Texting(p) =>
              Cardinality(Texting(p)') = Cardinality(Texting(p)) + 1
         /\ s \in Texting(p) /\ s \notin Texting(p)' =>
              Cardinality(Texting(p)') = Cardinality(Texting(p)) - 1
         /\ (s \in Counting(p) <=> s \in Counting(p)') =>
              Cardinality(Counting(p)') = Cardinality(Counting(p))
         /\ s \in Counting(p)' /\ s \notin Counting(p) =>
              Cardinality(Counting(p)') = Cardinality(Counting(p)) + 1
         /\ s \in Counting(p) /\ s \notin Counting(p)' =>
              Cardinality(Counting(p)') = Cardinality(Counting(p)) - 1
<1>1. Texting(p) \ {s} = Texting(p)' \ {s} /\ IsFiniteSet(Texting(p))
  BY Counts DEF Texting, OthersKept
<1>2. Counting(p) \ {s} = Counting(p)' \ {s} /\ IsFiniteSet(Counting(p))
  BY Counts DEF Counting, OthersKept
<1>3. QED
  BY <1>1, <1>2, OneElement

OnTheWay == {"storing", "texting", "counting"}

LEMMA LimitQuiet ==
  ASSUME IInv, NEW s \in Slots, OthersKept(s), job[s].at \notin OnTheWay,
         job'[s].at \notin OnTheWay, UNCHANGED <<count, texts>>, faults' \in Nat,
         faults' >= faults
  PROVE  LimitInv'
<1> SUFFICES ASSUME NEW p \in Phones
             PROVE  /\ texts[p] <= count[p] + Cardinality(Counting(p)') + faults'
                    /\ texts[p] + Cardinality(Texting(p)')
                         <= Limit - 1 + Cardinality(Slots) + faults'
  BY DEF LimitInv
<1>1. TypeOK /\ texts[p] \in Nat /\ count[p] \in Nat /\ faults \in Nat /\ Limit \in Nat
  BY Types DEF IInv, TypeOK
<1>2. Texting(p)' = Texting(p) /\ Counting(p)' = Counting(p)
  BY DEF Texting, Counting, OthersKept, OnTheWay
<1>3. /\ texts[p] <= count[p] + Cardinality(Counting(p)) + faults
      /\ texts[p] + Cardinality(Texting(p)) <= Limit - 1 + Cardinality(Slots) + faults
  BY DEF IInv, LimitInv
<1>4. QED
  BY <1>1, <1>2, <1>3, Counts

\* What a request may do on its way past the limit, to its end.
LEMMA LimitStep ==
  ASSUME IInv, NEW s \in Slots, OthersKept(s), NEW p \in Phones, job[s].phone = p,
         job[s].at \in OnTheWay, job'[s].at # "idle" => job'[s].phone = p,
         faults' \in Nat, faults' >= faults,
         \A q \in Phones \ {p} : texts'[q] = texts[q] /\ count'[q] = count[q],
         \/ /\ job[s].at = "storing" /\ job'[s].at \in {"texting", "idle"}
            /\ texts'[p] = texts[p] /\ count'[p] = count[p]
         \/ /\ job[s].at = "texting" /\ job'[s].at = "counting"
            /\ texts'[p] = texts[p] + 1 /\ count'[p] = count[p]
         \/ /\ job[s].at = "texting" /\ job'[s].at = "idle"
            /\ texts'[p] = texts[p] /\ count'[p] = count[p]
         \/ /\ job[s].at = "counting" /\ job'[s].at \in {"limiting", "idle"}
            /\ texts'[p] = texts[p] /\ count'[p] = count[p] + 1
         \/ /\ job[s].at = "counting" /\ job'[s].at = "idle" /\ faults' > faults
            /\ texts'[p] = texts[p] /\ count'[p] = count[p]
  PROVE  LimitInv'
<1> SUFFICES ASSUME NEW q \in Phones
             PROVE  /\ texts'[q] <= count'[q] + Cardinality(Counting(q)') + faults'
                    /\ texts'[q] + Cardinality(Texting(q)')
                         <= Limit - 1 + Cardinality(Slots) + faults'
  BY DEF LimitInv
<1>1. TypeOK /\ texts[q] \in Nat /\ count[q] \in Nat /\ faults \in Nat /\ Limit \in Nat
  BY Types DEF IInv, TypeOK
<1>2. /\ texts[q] <= count[q] + Cardinality(Counting(q)) + faults
      /\ texts[q] + Cardinality(Texting(q)) <= Limit - 1 + Cardinality(Slots) + faults
  BY DEF IInv, LimitInv
<1>3. /\ Cardinality(Texting(q)) \in Nat /\ Cardinality(Counting(q)) \in Nat
      /\ Cardinality(Slots) \in Nat
  BY <1>1, Counts
<1>4. CASE q # p
  <2>1. Texting(q)' = Texting(q) /\ Counting(q)' = Counting(q)
    BY <1>4 DEF Texting, Counting, OthersKept, OnTheWay
  <2>2. QED
    BY <2>1, <1>1, <1>2, <1>3, <1>4
<1>5. CASE q = p
  <2>1. /\ s \in Texting(p) <=> job[s].at \in {"storing", "texting"}
        /\ s \in Counting(p) <=> job[s].at = "counting"
        /\ s \in Texting(p)' <=> job'[s].at = "texting"
        /\ s \in Counting(p)' <=> job'[s].at = "counting"
    BY DEF Texting, Counting, OnTheWay
  <2>2. CASE job[s].at = "storing"
    <3>1. /\ Cardinality(Counting(p)') = Cardinality(Counting(p))
          /\ \/ Cardinality(Texting(p)') = Cardinality(Texting(p))
             \/ Cardinality(Texting(p)') = Cardinality(Texting(p)) - 1
          /\ texts'[p] = texts[p] /\ count'[p] = count[p]
      BY <2>1, <2>2, <1>1, OneMoves
    <3>2. QED
      BY <3>1, <1>1, <1>2, <1>3, <1>5
  <2>3. CASE job[s].at = "texting"
    <3>1. Cardinality(Texting(p)') = Cardinality(Texting(p)) - 1
      BY <2>1, <2>3, <1>1, OneMoves
    <3>2. \/ /\ Cardinality(Counting(p)') = Cardinality(Counting(p)) + 1
             /\ texts'[p] = texts[p] + 1 /\ count'[p] = count[p]
          \/ /\ Cardinality(Counting(p)') = Cardinality(Counting(p))
             /\ texts'[p] = texts[p] /\ count'[p] = count[p]
      BY <2>1, <2>3, <1>1, OneMoves
    <3>3. QED
      BY <3>1, <3>2, <1>1, <1>2, <1>3, <1>5
  <2>4. CASE job[s].at = "counting"
    <3>1. /\ Cardinality(Texting(p)') = Cardinality(Texting(p))
          /\ Cardinality(Counting(p)') = Cardinality(Counting(p)) - 1
      BY <2>1, <2>4, <1>1, OneMoves
    <3>2. texts'[p] = texts[p] /\ (count'[p] = count[p] + 1
                                     \/ (count'[p] = count[p] /\ faults' >= faults + 1))
      BY <2>4, <1>1
    <3>3. QED
      BY <3>1, <3>2, <1>1, <1>2, <1>3, <1>5
  <2>5. QED
    BY <2>2, <2>3, <2>4 DEF OnTheWay
<1>6. QED
  BY <1>4, <1>5

\* A request passes the limit.
LEMMA LimitStart ==
  ASSUME IInv, NEW s \in Slots, OthersKept(s), NEW p \in Phones, job[s].at = "idle",
         job'[s].at = "storing", job'[s].phone = p, UNCHANGED <<count, texts>>,
         faults' \in Nat,
         \/ count[p] < Limit /\ faults' = faults
         \/ faults' = faults + 1
  PROVE  LimitInv'
<1> SUFFICES ASSUME NEW q \in Phones
             PROVE  /\ texts[q] <= count[q] + Cardinality(Counting(q)') + faults'
                    /\ texts[q] + Cardinality(Texting(q)')
                         <= Limit - 1 + Cardinality(Slots) + faults'
  BY DEF LimitInv
<1>1. TypeOK /\ texts[q] \in Nat /\ count[q] \in Nat /\ faults \in Nat /\ Limit \in Nat
  BY Types DEF IInv, TypeOK
<1>2. /\ texts[q] <= count[q] + Cardinality(Counting(q)) + faults
      /\ texts[q] + Cardinality(Texting(q)) <= Limit - 1 + Cardinality(Slots) + faults
  BY DEF IInv, LimitInv
<1>3. /\ Cardinality(Texting(q)) \in Nat /\ Cardinality(Counting(q)) \in Nat
      /\ Cardinality(Slots) \in Nat
      /\ Cardinality(Texting(q)') + Cardinality(Counting(q)') <= Cardinality(Slots)
      /\ Cardinality(Texting(q)') \in Nat /\ Cardinality(Counting(q)') \in Nat
  BY <1>1, Counts, CountsAfter
<1>4. /\ s \notin Texting(q) /\ s \notin Counting(q) /\ s \notin Counting(q)'
      /\ s \in Texting(q)' <=> q = p
  BY DEF Texting, Counting
<1>5. /\ Cardinality(Counting(q)') = Cardinality(Counting(q))
      /\ q # p => Cardinality(Texting(q)') = Cardinality(Texting(q))
      /\ q = p => Cardinality(Texting(q)') = Cardinality(Texting(q)) + 1
  BY <1>1, <1>4, OneMoves
<1>6. QED
  BY <1>1, <1>2, <1>3, <1>5

-----------------------------------------------------------------------------
(* What stays true while others move. *)

\* Rows of otp_codes and users stay, and a code that is used stays used.
Advance ==
  /\ registered \subseteq registered' /\ Made \subseteq Made'
  /\ \A k \in Codes : codes[k].state = "used" => codes'[k].state = "used"

LEMMA JobKept ==
  ASSUME IInv, Advance, NEW r \in Slots, job'[r] = job[r]
  PROVE  JobInv(r)'
<1>1. JobInv(r) /\ Made \subseteq Codes
  BY DEF IInv, Made
<1>2. QED
  BY <1>1 DEF JobInv, Advance

LEMMA ChallengeKept ==
  ASSUME ChallengeInv, UNCHANGED <<challenge, issued, passed>>,
         \A r \in Slots : job'[r].token \in {job[r].token, None}
  PROVE  ChallengeInv'
BY DEF ChallengeInv, ChallengeOnce

\* A step of the request in s.
LEMMA RequestStep ==
  ASSUME IInv, NEW s \in Slots, OthersKept(s), Advance,
         TypeOK', LimitInv', CodeInv', JobInv(s)', ChallengeInv'
  PROVE  IInv'
<1>1. \A r \in Slots : JobInv(r)'
  BY JobKept DEF OthersKept
<1>2. QED
  BY <1>1 DEF IInv

\* A step of nobody's request.
LEMMA OutsideStep ==
  ASSUME IInv, job' = job, Advance, TypeOK', LimitInv', CodeInv', ChallengeInv'
  PROVE  IInv'
<1>1. \A r \in Slots : JobInv(r)'
  BY JobKept
<1>2. QED
  BY <1>1 DEF IInv

\* A step of a request that changes neither rows nor challenges.
LEMMA QuietStep ==
  ASSUME IInv, NEW s \in Slots, OthersKept(s), job' \in [Slots -> Jobs],
         UNCHANGED <<registered, signedIn, pin, codes, challenge, issued, granted, passed>>,
         count' \in [Phones -> Nat], expiring' \in [Phones -> BOOLEAN],
         texts' \in [Phones -> Nat], faults' \in 0..MaxFaults,
         job'[s].token \in {job[s].token, None}, LimitInv', JobInv(s)'
  PROVE  IInv'
<1>1. Made' = Made
  BY DEF Made
<1>2. TypeOK'
  BY <1>1 DEF IInv, TypeOK, Jobs, Points
<1>3. CodeInv' /\ Advance
  BY <1>1 DEF IInv, CodeInv, Advance
<1>4. ChallengeInv'
  <2>1. \A r \in Slots : job'[r].token \in {job[r].token, None}
    BY DEF OthersKept
  <2>2. QED
    BY <2>1, ChallengeKept DEF IInv
<1>5. QED
  BY <1>2, <1>3, <1>4, RequestStep

\* A request that is over counts on nothing.
LEMMA IdleInv ==
  ASSUME NEW s \in Slots, job'[s].at = "idle", job'[s].code = None
  PROVE  JobInv(s)'
BY DEF JobInv

LEMMA Kept ==
  ASSUME IInv
  PROVE  /\ TypeOK /\ LimitInv /\ CodeInv /\ ChallengeInv
         /\ \A s \in Slots : JobInv(s) /\ job[s] \in Jobs
         /\ count \in [Phones -> Nat] /\ expiring \in [Phones -> BOOLEAN]
         /\ texts \in [Phones -> Nat]
         /\ faults \in Nat /\ faults \in 0..MaxFaults
BY Types DEF IInv, TypeOK

-----------------------------------------------------------------------------
(* otp_request *)

LEMMA StartRequestInv ==
  ASSUME IInv, NEW s \in Slots, NEW p \in Phones, CheckLimit(s, p) \/ LimitUnread(s, p)
  PROVE  IInv'
<1>1. PICK j : j = [Idle EXCEPT !.at = "storing", !.phone = p]
  OBVIOUS
<1>2. j \in Jobs /\ j.at = "storing" /\ j.phone = p /\ j.code = None /\ j.token = None
  BY <1>1 DEF Idle, Jobs, Points
<1>3. job[s] = Idle /\ job' = [job EXCEPT ![s] = j]
  BY <1>1 DEF CheckLimit, LimitUnread, StartRequest
<1>4. job'[s] = j /\ OthersKept(s) /\ job' \in [Slots -> Jobs]
  BY <1>2, <1>3, StartFacts, Kept
<1>5. /\ UNCHANGED <<registered, signedIn, pin, codes, challenge, issued, granted, passed>>
      /\ UNCHANGED <<count, expiring, texts>>
  BY DEF CheckLimit, LimitUnread, userVars, redisVars, challVars, historyVars
<1>6. \/ count[p] < Limit /\ faults' = faults
      \/ faults' = faults + 1
  BY Types, Kept DEF CheckLimit, LimitUnread
<1>7. faults' \in 0..MaxFaults /\ faults' \in Nat
  BY Types, Kept DEF CheckLimit, LimitUnread
<1>8. job[s].at = "idle"
  BY <1>3 DEF Idle
<1>9. LimitInv'
  BY <1>2, <1>4, <1>5, <1>6, <1>7, <1>8, LimitStart
<1>10. JobInv(s)'
  BY <1>2, <1>4 DEF JobInv
<1>11. QED
  BY <1>2, <1>4, <1>5, <1>7, <1>9, <1>10, Kept, QuietStep

LEMMA StoreCodeInv ==
  ASSUME IInv, NEW s \in Slots, StoreCode(s)
  PROVE  IInv'
<1>1. /\ job[s].at = "storing" /\ job'[s].at = "texting"
      /\ job'[s].phone = job[s].phone /\ job'[s].code = job[s].code
      /\ job'[s].token = job[s].token
      /\ OthersKept(s) /\ job' \in [Slots -> Jobs]
  BY ProceedFacts, Kept DEF StoreCode, Points
<1>2. PICK k \in Codes \ Made, later \in {0, 1} :
        /\ Made = 1..(k - 1)
        /\ codes' = [codes EXCEPT ![k] =
             [phone |-> job[s].phone, state |-> "live",
              second |-> IF k = 1 THEN 1 ELSE codes[k - 1].second + later]]
  BY DEF StoreCode
<1>3. PICK row : row = [phone |-> job[s].phone, state |-> "live",
                        second |-> IF k = 1 THEN 1 ELSE codes[k - 1].second + later]
  OBVIOUS
<1>4. /\ UNCHANGED <<registered, signedIn, pin, count, expiring, texts, challenge, issued,
                     granted, passed, faults>>
      /\ job[s].phone \in registered
  BY DEF StoreCode, userVars, redisVars, challVars, historyVars
<1>5. TypeOK /\ JobInv(s) /\ job[s].phone \in Phones /\ job[s].code = None
  BY <1>1, Kept DEF JobInv
<1>6. row \in Rows /\ row.second <= k /\ row.phone \in registered /\ row.state = "live"
  <2>1. k \in Nat /\ k \in 1..MaxCodes /\ MaxCodes \in Nat
    BY BoundsAssumption DEF Codes
  <2>2. CASE k = 1
    <3>1. row.second = 1
      BY <2>2, <1>3
    <3>2. QED
      BY <2>1, <2>2, <3>1, <1>3, <1>4, <1>5 DEF Rows
  <2>3. CASE k # 1
    <3>1. k - 1 \in Made /\ k - 1 \in Codes
      BY <2>1, <2>3, <1>2 DEF Codes
    <3>2. codes[k - 1].second \in 1..MaxCodes /\ codes[k - 1].second <= k - 1
      BY <3>1, <1>5, MadeRows, Kept DEF CodeInv, Rows
    <3>3. row.second = codes[k - 1].second + later
      BY <2>3, <1>3
    <3>4. row.second \in 1..MaxCodes /\ row.second <= k
      BY <2>1, <3>2, <3>3
    <3>5. QED
      BY <3>4, <1>3, <1>4, <1>5 DEF Rows
  <2>4. QED
    BY <2>2, <2>3
<1>7. /\ codes'[k] = row /\ \A j \in Codes \ {k} : codes'[j] = codes[j]
      /\ codes' \in [Codes -> {NoCode} \cup Rows]
  BY <1>2, <1>3, <1>5, <1>6, Types
<1>8. Made' = Made \cup {k}
  BY <1>2, <1>6, <1>7 DEF Made
<1>9. TypeOK'
  <2>1. \A j \in Made' : codes'[j].phone \in registered
    BY <1>2, <1>5, <1>6, <1>7, <1>8 DEF TypeOK, Made
  <2>2. QED
    BY <2>1, <1>1, <1>4, <1>5, <1>7 DEF TypeOK, Jobs, Points, Rows
<1>10. granted[k] = 0
  <2>1. codes[k].state = "none" /\ granted[k] \in Nat
    BY <1>2, <1>5 DEF Made, TypeOK
  <2>2. QED
    BY <2>1, Kept DEF CodeInv
<1>11. CodeInv'
  BY <1>2, <1>4, <1>6, <1>7, <1>8, <1>10, Kept DEF CodeInv, Made
<1>12. Advance
  BY <1>2, <1>4, <1>7, <1>8 DEF Advance, Made
<1>13. LimitInv'
  BY <1>1, <1>4, <1>5, Kept, LimitStep DEF OnTheWay
<1>14. ChallengeInv'
  BY <1>1, <1>4, Kept, ChallengeKept DEF OthersKept
<1>15. JobInv(s)'
  BY <1>1, <1>5 DEF JobInv
<1>16. QED
  BY <1>1, <1>9, <1>11, <1>12, <1>13, <1>14, <1>15, RequestStep

\* The request ends: it is refused, fails or has done its work, with no trace in the
\* rows.
LEMMA EndInv ==
  ASSUME IInv, NEW s \in Slots,
         UserNotFound(s) \/ SetWindow(s) \/ WrongCode(s) \/ Fail(s)
  PROVE  IInv'
<1>1. /\ job'[s].at = "idle" /\ job'[s].code = None /\ job'[s].token = None
      /\ OthersKept(s) /\ job' \in [Slots -> Jobs]
  BY DoneFacts, Kept DEF UserNotFound, SetWindow, WrongCode, Fail
<1>2. /\ UNCHANGED <<registered, signedIn, pin, codes, challenge, issued, granted, passed>>
      /\ UNCHANGED <<count, texts>> /\ expiring' \in [Phones -> BOOLEAN]
  <2>1. expiring' \in [Phones -> BOOLEAN]
    BY Kept DEF UserNotFound, SetWindow, WrongCode, Fail, redisVars
  <2>2. QED
    BY <2>1
    DEF UserNotFound, SetWindow, WrongCode, Fail, userVars, redisVars, challVars, historyVars
<1>3. /\ faults' \in 0..MaxFaults /\ faults' \in Nat /\ faults' >= faults
      /\ job[s].at \in {"texting", "counting"} => faults' > faults
  BY Kept, Types DEF UserNotFound, SetWindow, WrongCode, Fail
<1>4. job[s].at # "idle" => job[s].phone \in Phones
  BY Kept DEF JobInv
<1>5. LimitInv'
  <2>1. CASE job[s].at \in OnTheWay
    BY <2>1, <1>1, <1>2, <1>3, <1>4, LimitStep DEF OnTheWay
  <2>2. CASE job[s].at \notin OnTheWay
    BY <2>2, <1>1, <1>2, <1>3, LimitQuiet DEF OnTheWay
  <2>3. QED
    BY <2>1, <2>2
<1>6. QED
  BY <1>1, <1>2, <1>3, <1>5, Kept, IdleInv, QuietStep

LEMMA SendTextInv ==
  ASSUME IInv, NEW s \in Slots, SendText(s)
  PROVE  IInv'
<1>1. /\ job[s].at = "texting" /\ job'[s].at = "counting"
      /\ job'[s].phone = job[s].phone /\ job'[s].code = job[s].code
      /\ job'[s].token = job[s].token
      /\ OthersKept(s) /\ job' \in [Slots -> Jobs]
  BY ProceedFacts, Kept DEF SendText, Points
<1>2. PICK p : p = job[s].phone
  OBVIOUS
<1>3. /\ texts' = [texts EXCEPT ![p] = @ + 1]
      /\ UNCHANGED <<registered, signedIn, pin, codes, challenge, issued, granted, passed>>
      /\ UNCHANGED <<count, expiring, faults>>
  BY <1>2 DEF SendText, userVars, challVars, historyVars
<1>4. p \in Phones /\ job[s].code = None
  BY <1>1, <1>2, Kept DEF JobInv
<1>5. /\ texts'[p] = texts[p] + 1 /\ \A q \in Phones \ {p} : texts'[q] = texts[q]
      /\ texts' \in [Phones -> Nat]
  BY <1>3, <1>4, Kept
<1>6. LimitInv'
  BY <1>1, <1>2, <1>3, <1>4, <1>5, Kept, LimitStep DEF OnTheWay
<1>7. JobInv(s)'
  BY <1>1, <1>2, <1>4 DEF JobInv
<1>8. QED
  BY <1>1, <1>3, <1>5, <1>6, <1>7, Kept, QuietStep

LEMMA CountInv ==
  ASSUME IInv, NEW s \in Slots, Count(s)
  PROVE  IInv'
<1>1. PICK p : p = job[s].phone
  OBVIOUS
<1>2. /\ job[s].at = "counting"
      /\ count' = [count EXCEPT ![p] = @ + 1]
      /\ UNCHANGED <<registered, signedIn, pin, codes, challenge, issued, granted, passed>>
      /\ UNCHANGED <<texts, expiring, faults>>
  BY <1>1 DEF Count, userVars, challVars, historyVars
<1>3. p \in Phones /\ job[s].code = None
  BY <1>1, <1>2, Kept DEF JobInv
<1>4. \/ Proceed(s, "counting", "limiting")
      \/ Done(s)
  BY DEF Count
<1>5. /\ job'[s].at \in {"limiting", "idle"} /\ job'[s].code = None
      /\ job'[s].at # "idle" => job'[s].phone = p
      /\ job'[s].token \in {job[s].token, None}
      /\ OthersKept(s) /\ job' \in [Slots -> Jobs]
  <2>1. CASE Proceed(s, "counting", "limiting")
    BY <2>1, <1>1, <1>3, ProceedFacts, Kept DEF Points
  <2>2. CASE Done(s)
    BY <2>2, DoneFacts, Kept
  <2>3. QED
    BY <1>4, <2>1, <2>2
<1>6. /\ count'[p] = count[p] + 1 /\ \A q \in Phones \ {p} : count'[q] = count[q]
      /\ count' \in [Phones -> Nat]
  BY <1>2, <1>3, Kept
<1>7. LimitInv'
  BY <1>1, <1>2, <1>3, <1>5, <1>6, Kept, LimitStep DEF OnTheWay
<1>8. JobInv(s)'
  BY <1>3, <1>5 DEF JobInv
<1>9. QED
  BY <1>2, <1>5, <1>6, <1>7, <1>8, Kept, QuietStep

LEMMA WindowEndsInv ==
  ASSUME IInv, NEW p \in Phones, WindowEnds(p)
  PROVE  IInv'
<1>1. /\ count' = [count EXCEPT ![p] = 0] /\ expiring' = [expiring EXCEPT ![p] = FALSE]
      /\ texts' = [texts EXCEPT ![p] = 0]
      /\ UNCHANGED <<registered, signedIn, pin, codes, challenge, issued, granted, passed,
                     job, faults>>
  BY DEF WindowEnds, userVars, challVars, historyVars
<1>2. Made' = Made
  BY <1>1 DEF Made
<1>3. TypeOK'
  <2>1. /\ count' \in [Phones -> Nat] /\ expiring' \in [Phones -> BOOLEAN]
        /\ texts' \in [Phones -> Nat]
    BY <1>1, Kept
  <2>2. QED
    BY <2>1, <1>1, <1>2, Kept DEF TypeOK
<1>4. LimitInv'
  <2> SUFFICES ASSUME NEW q \in Phones
               PROVE  /\ texts'[q] <= count'[q] + Cardinality(Counting(q)) + faults
                      /\ texts'[q] + Cardinality(Texting(q))
                           <= Limit - 1 + Cardinality(Slots) + faults
    <3>1. \A q : Counting(q)' = Counting(q) /\ Texting(q)' = Texting(q)
      BY <1>1 DEF Counting, Texting
    <3>2. QED
      BY <3>1, <1>1 DEF LimitInv
  <2>1. /\ Cardinality(Texting(q)) \in Nat /\ Cardinality(Counting(q)) \in Nat
        /\ Cardinality(Slots) \in Nat
        /\ Cardinality(Texting(q)) + Cardinality(Counting(q)) <= Cardinality(Slots)
    BY Counts, Kept
  <2>2. faults \in Nat /\ Limit \in Nat \ {0}
    BY Types, Kept
  <2>3. CASE q = p
    <3>1. texts'[q] = 0 /\ count'[q] = 0
      BY <2>3, <1>1, Kept
    <3>2. QED
      BY <2>1, <2>2, <3>1
  <2>4. CASE q # p
    <3>1. texts'[q] = texts[q] /\ count'[q] = count[q]
      BY <2>4, <1>1, Kept
    <3>2. QED
      BY <3>1, Kept DEF LimitInv
  <2>5. QED
    BY <2>3, <2>4
<1>5. CodeInv' /\ Advance
  BY <1>1, <1>2, Kept DEF CodeInv, Advance
<1>6. ChallengeInv'
  BY <1>1, Kept, ChallengeKept
<1>7. QED
  BY <1>1, <1>3, <1>4, <1>5, <1>6, OutsideStep

-----------------------------------------------------------------------------
(* otp_verify, pin_set and pin_change *)

\* The state of the code k is set; a code that was used stays so.
LEMMA MarkFacts ==
  ASSUME IInv, NEW k \in Made, NEW new \in {"used", "expired"},
         codes' = [codes EXCEPT ![k].state = new],
         new = "expired" => codes[k].state = "live",
         UNCHANGED <<registered, signedIn, pin, count, expiring, texts, challenge, issued,
                     granted, passed, faults>>,
         job' \in [Slots -> Jobs]
  PROVE  TypeOK' /\ CodeInv' /\ Advance /\ Made' = Made /\ codes'[k].state = new
<1>1. TypeOK /\ k \in Codes /\ codes[k] \in Rows /\ codes \in [Codes -> {NoCode} \cup Rows]
  BY Kept, Types, MadeRows DEF Made
<1>2. PICK row : row = [codes[k] EXCEPT !.state = new]
  OBVIOUS
<1>3. /\ row \in Rows /\ row.state = new /\ row.second = codes[k].second
      /\ row.phone = codes[k].phone
  BY <1>1, <1>2 DEF Rows
<1>4. /\ codes'[k] = row /\ \A j \in Codes \ {k} : codes'[j] = codes[j]
      /\ codes' \in [Codes -> {NoCode} \cup Rows]
  BY <1>1, <1>2, <1>3
<1>5. Made' = Made
  BY <1>3, <1>4 DEF Made
<1>6. TypeOK'
  <2>1. \A j \in Made : codes'[j].phone \in registered
    BY <1>1, <1>3, <1>4 DEF TypeOK, Made
  <2>2. QED
    BY <2>1, <1>1, <1>4, <1>5 DEF TypeOK, Jobs, Points, Rows
<1>7. CodeInv'
  BY <1>1, <1>3, <1>4, <1>5, Kept DEF CodeInv, Made
<1>8. Advance
  BY <1>1, <1>3, <1>4, <1>5 DEF Advance
<1>9. QED
  BY <1>3, <1>4, <1>5, <1>6, <1>7, <1>8

LEMMA CodeExpiresInv ==
  ASSUME IInv, NEW k \in Codes, CodeExpires(k)
  PROVE  IInv'
<1>1. /\ codes[k].state = "live" /\ codes' = [codes EXCEPT ![k].state = "expired"]
      /\ UNCHANGED <<registered, signedIn, pin, count, expiring, texts, challenge, issued,
                     granted, passed, faults, job>>
  BY DEF CodeExpires, userVars, redisVars, challVars, historyVars
<1>2. k \in Made
  BY <1>1 DEF Made
<1>3. job' \in [Slots -> Jobs]
  BY <1>1, Kept, Types
<1>4. TypeOK' /\ CodeInv' /\ Advance
  BY <1>1, <1>2, <1>3, MarkFacts
<1>5. LimitInv'
  BY <1>1, Kept DEF LimitInv, Texting, Counting
<1>6. ChallengeInv'
  BY <1>1, Kept, ChallengeKept
<1>7. QED
  BY <1>1, <1>4, <1>5, <1>6, OutsideStep

LEMMA AcceptedIsLive ==
  ASSUME NEW p, NEW k, AcceptCode(p, k)
  PROVE  k \in Made /\ codes[k].state = "live"
BY DEF AcceptCode, Newest, Live

\* A request for a pair or a PIN begins, or finds its code.
LEMMA ReadInv ==
  ASSUME IInv, NEW s \in Slots,
         \/ \E p \in Phones, k \in Codes : VerifyCode(s, p, k)
         \/ \E p \in Phones, new \in Pins : ReadPin(s, p, new)
         \/ \E k \in Codes : CheckCode(s, k)
  PROVE  IInv'
<1>1. PICK j \in Jobs :
        /\ job' = [job EXCEPT ![s] = j]
        /\ j.phone \in registered /\ j.phone \in Phones
        /\ j.token \in {job[s].token, None}
        /\ \/ j.at = "using" /\ j.code \in Made /\ j.code # None
           \/ j.at = "checking" /\ j.code = None
  <2>1. TypeOK /\ signedIn \subseteq registered
    BY Kept DEF TypeOK
  <2>2. \A k \in Codes : k # None
    <3>1. \A k \in Codes : k \in Int
      BY DEF Codes
    <3>2. QED
      BY <3>1, NoneAssumption
  <2>3. \A k \in Made : k # None
    BY <2>2 DEF Made
  <2>4. ASSUME NEW p \in Phones, NEW k \in Codes, VerifyCode(s, p, k)
        PROVE  \E j \in Jobs :
                 /\ job' = [job EXCEPT ![s] = j]
                 /\ j.phone \in registered /\ j.phone \in Phones
                 /\ j.token \in {job[s].token, None}
                 /\ j.at = "using" /\ j.code \in Made /\ j.code # None
    <3>1. PICK j : j = [Idle EXCEPT !.at = "using", !.phone = p, !.code = k]
      OBVIOUS
    <3>2. j \in Jobs /\ j.at = "using" /\ j.phone = p /\ j.code = k /\ j.token = None
      BY <3>1 DEF Idle, Jobs, Points
    <3>3. k \in Made /\ p \in registered /\ job' = [job EXCEPT ![s] = j]
      BY <2>4, <3>1, AcceptedIsLive DEF VerifyCode
    <3>4. QED
      BY <2>3, <3>2, <3>3
  <2>5. ASSUME NEW p \in Phones, NEW new \in Pins, ReadPin(s, p, new)
        PROVE  \E j \in Jobs :
                 /\ job' = [job EXCEPT ![s] = j]
                 /\ j.phone \in registered /\ j.phone \in Phones
                 /\ j.token \in {job[s].token, None}
                 /\ j.at = "checking" /\ j.code = None
    <3>1. PICK j : j = [Idle EXCEPT !.at = "checking", !.phone = p, !.new = new]
      OBVIOUS
    <3>2. j \in Jobs /\ j.at = "checking" /\ j.phone = p /\ j.code = None /\ j.token = None
      BY <3>1 DEF Idle, Jobs, Points
    <3>3. p \in registered /\ job' = [job EXCEPT ![s] = j]
      BY <2>1, <2>5, <3>1 DEF ReadPin
    <3>4. QED
      BY <3>2, <3>3
  <2>6. ASSUME NEW k \in Codes, CheckCode(s, k)
        PROVE  \E j \in Jobs :
                 /\ job' = [job EXCEPT ![s] = j]
                 /\ j.phone \in registered /\ j.phone \in Phones
                 /\ j.token \in {job[s].token, None}
                 /\ j.at = "using" /\ j.code \in Made /\ j.code # None
    <3>1. PICK j : j = [job[s] EXCEPT !.at = "using", !.code = k]
      OBVIOUS
    <3>2. job[s] \in Jobs /\ job[s].at = "checking" /\ job[s].phone \in registered
      BY <2>6, Kept DEF JobInv, CheckCode
    <3>3. /\ j \in Jobs /\ j.at = "using" /\ j.phone = job[s].phone /\ j.code = k
          /\ j.token = job[s].token
      BY <3>1, <3>2 DEF Jobs, Points
    <3>4. k \in Made /\ job' = [job EXCEPT ![s] = j]
      BY <2>6, <3>1, AcceptedIsLive DEF CheckCode
    <3>5. job[s].phone \in Phones
      BY <3>2, Kept DEF JobInv
    <3>6. QED
      BY <2>3, <3>2, <3>3, <3>4, <3>5
  <2>7. QED
    BY <2>4, <2>5, <2>6
<1>2. job'[s] = j /\ OthersKept(s) /\ job' \in [Slots -> Jobs]
  BY <1>1, StartFacts, Kept
<1>3. /\ UNCHANGED <<registered, signedIn, pin, codes, challenge, issued, granted, passed>>
      /\ UNCHANGED <<count, expiring, texts, faults>>
  BY DEF VerifyCode, ReadPin, CheckCode, userVars, redisVars, challVars, historyVars
<1>4. job[s].at \notin OnTheWay
  <2>1. job[s] = Idle \/ job[s].at = "checking"
    BY DEF VerifyCode, ReadPin, CheckCode
  <2>2. Idle.at = "idle"
    BY DEF Idle
  <2>3. QED
    BY <2>1, <2>2 DEF OnTheWay
<1>5. LimitInv'
  BY <1>1, <1>2, <1>3, <1>4, Kept, LimitQuiet DEF OnTheWay
<1>6. JobInv(s)'
  BY <1>1, <1>2, <1>3 DEF JobInv, Made
<1>7. QED
  BY <1>1, <1>2, <1>3, <1>5, <1>6, Kept, QuietStep

LEMMA UseCodeInv ==
  ASSUME IInv, NEW s \in Slots, UseCode(s)
  PROVE  IInv'
<1>1. PICK to \in {"issuing", "writing"} : Proceed(s, "using", to)
  BY DEF UseCode
<1>2. /\ job[s].at = "using" /\ job'[s].at = to
      /\ job'[s].phone = job[s].phone /\ job'[s].code = job[s].code
      /\ job'[s].token = job[s].token
      /\ OthersKept(s) /\ job' \in [Slots -> Jobs]
  <2>1. CASE to = "issuing"
    BY <2>1, <1>1, ProceedFacts, Kept DEF Points
  <2>2. CASE to = "writing"
    BY <2>2, <1>1, ProceedFacts, Kept DEF Points
  <2>3. QED
    BY <2>1, <2>2
<1>3. PICK k : k = job[s].code
  OBVIOUS
<1>4. k \in Made /\ k # None /\ job[s].phone \in registered /\ job[s].phone \in Phones
  BY <1>2, <1>3, Kept DEF JobInv
<1>5. /\ codes' = [codes EXCEPT ![k].state = "used"]
      /\ UNCHANGED <<registered, signedIn, pin, count, expiring, texts, challenge, issued,
                     granted, passed, faults>>
  BY <1>3 DEF UseCode, userVars, redisVars, challVars, historyVars
<1>6. TypeOK' /\ CodeInv' /\ Advance /\ Made' = Made /\ codes'[k].state = "used"
  BY <1>2, <1>4, <1>5, MarkFacts
<1>7. LimitInv'
  BY <1>2, <1>5, Kept, LimitQuiet DEF OnTheWay
<1>8. ChallengeInv'
  BY <1>2, <1>5, Kept, ChallengeKept DEF OthersKept
<1>9. JobInv(s)'
  BY <1>2, <1>3, <1>4, <1>5, <1>6 DEF JobInv
<1>10. QED
  BY <1>2, <1>6, <1>7, <1>8, <1>9, RequestStep

\* What a code was good for is written when the code is used.
LEMMA WritePinInv ==
  ASSUME IInv, NEW s \in Slots, WritePin(s)
  PROVE  IInv'
<1>1. PICK k : k = job[s].code
  OBVIOUS
<1>2. /\ job'[s].at = "idle" /\ job'[s].code = None /\ job'[s].token = None
      /\ OthersKept(s) /\ job' \in [Slots -> Jobs]
  BY DoneFacts, Kept DEF WritePin
<1>3. /\ job[s].at = "writing"
      /\ pin' = [pin EXCEPT ![job[s].phone] = job[s].new]
      /\ granted' = [granted EXCEPT ![k] = @ + 1]
      /\ UNCHANGED <<registered, signedIn, codes, count, expiring, texts, challenge, issued,
                     passed, faults>>
  BY <1>1 DEF WritePin, redisVars, challVars
<1>4. TypeOK /\ k \in Made /\ k \in Codes /\ codes[k].state = "used" /\ job[s] \in Jobs
  BY <1>1, <1>3, Kept DEF JobInv, Made
<1>5. Made' = Made
  BY <1>3 DEF Made
<1>6. TypeOK'
  <2>1. pin' \in [Phones -> Pins \cup {None}]
    BY <1>3, <1>4 DEF TypeOK, Jobs
  <2>2. granted' \in [Codes -> Nat]
    BY <1>3, <1>4 DEF TypeOK
  <2>3. QED
    BY <2>1, <2>2, <1>2, <1>3, <1>4, <1>5 DEF TypeOK, Jobs, Points
<1>7. CodeInv' /\ Advance
  BY <1>3, <1>4, <1>5, Kept DEF CodeInv, Advance, TypeOK
<1>8. LimitInv'
  BY <1>2, <1>3, Kept, LimitQuiet DEF OnTheWay
<1>9. ChallengeInv'
  BY <1>2, <1>3, Kept, ChallengeKept DEF OthersKept
<1>10. QED
  BY <1>2, <1>6, <1>7, <1>8, <1>9, IdleInv, RequestStep

LEMMA IssuePairInv ==
  ASSUME IInv, NEW s \in Slots, IssuePair(s)
  PROVE  IInv'
<1>2. /\ job'[s].at = "idle" /\ job'[s].code = None /\ job'[s].token = None
      /\ OthersKept(s) /\ job' \in [Slots -> Jobs]
  BY DoneFacts, Kept DEF IssuePair
<1>3. /\ job[s].at = "issuing"
      /\ signedIn' = signedIn \cup {job[s].phone}
      /\ granted' = [k \in Codes |-> granted[k] + IF k = job[s].code THEN 1 ELSE 0]
      /\ passed' = [t \in Challenges |-> passed[t] + IF t = job[s].token THEN 1 ELSE 0]
      /\ UNCHANGED <<registered, pin, codes, count, expiring, texts, challenge, issued,
                     faults>>
  BY DEF IssuePair, redisVars, challVars
<1>4. TypeOK /\ job[s].phone \in registered
      /\ \A k \in Codes : k = job[s].code => codes[k].state = "used"
  BY <1>3, NoneAssumption, Kept DEF JobInv, Codes
<1>5. Made' = Made
  BY <1>3 DEF Made
<1>6. /\ \A k \in Codes : /\ granted[k] \in Nat /\ granted'[k] \in Nat
                          /\ k # job[s].code => granted'[k] = granted[k]
      /\ \A t \in Challenges : /\ passed[t] \in Nat /\ passed'[t] \in Nat
                               /\ t # job[s].token => passed'[t] = passed[t]
                               /\ t = job[s].token => passed'[t] = passed[t] + 1
  BY <1>3, <1>4 DEF TypeOK
<1>7. TypeOK'
  <2>1. granted' \in [Codes -> Nat] /\ passed' \in [Challenges -> Nat]
    BY <1>3, <1>6
  <2>2. QED
    BY <2>1, <1>2, <1>3, <1>4, <1>5 DEF TypeOK, Jobs, Points
<1>8. CodeInv' /\ Advance
  BY <1>3, <1>4, <1>5, <1>6, Kept DEF CodeInv, Advance
<1>9. LimitInv'
  BY <1>2, <1>3, Kept, LimitQuiet DEF OnTheWay
<1>10. ChallengeInv'
  <2>1. \A p \in Phones : challenge[p] # None =>
          challenge[p] \in Challenges /\ challenge[p] # job[s].token
    BY <1>4, Kept DEF ChallengeInv, TypeOK
  <2>2. ASSUME NEW r \in Slots \ {s}, job[r].token # None
        PROVE  job[r].token # job[s].token /\ job[r].token \in Challenges
    BY <2>2, Kept DEF ChallengeInv, Jobs
  <2>3. /\ \A p \in Phones : challenge[p] # None => passed'[challenge[p]] = 0
        /\ \A r \in Slots \ {s} : job[r].token # None => passed'[job[r].token] = 0
    BY <2>1, <2>2, <1>6, Kept DEF ChallengeInv
  <2>4. \A t \in Challenges : passed'[t] <= 1 /\ (passed'[t] > 0 => t <= issued)
    <3> SUFFICES ASSUME NEW t \in Challenges
                 PROVE  passed'[t] <= 1 /\ (passed'[t] > 0 => t <= issued)
      OBVIOUS
    <3>1. CASE t = job[s].token
      <4>1. t # None
        BY NoneAssumption DEF Challenges
      <4>2. t <= issued /\ passed[t] = 0
        BY <3>1, <4>1, Kept DEF ChallengeInv
      <4>3. QED
        BY <3>1, <4>2, <1>6
    <3>2. CASE t # job[s].token
      BY <3>2, <1>6, Kept DEF ChallengeInv, ChallengeOnce
    <3>3. QED
      BY <3>1, <3>2
  <2>5. \A p \in Phones : challenge[p] # None => \A r \in Slots : job'[r].token # challenge[p]
    BY <1>2, Kept DEF ChallengeInv, OthersKept
  <2>6. \A r \in Slots : job'[r].token # None =>
          /\ r # s /\ job'[r].token = job[r].token
          /\ \A q \in Slots : job'[q].token = job'[r].token => q = r
    BY <1>2, Kept DEF ChallengeInv, OthersKept
  <2>7. QED
    BY <2>3, <2>4, <2>5, <2>6, <1>3, Kept DEF ChallengeInv, ChallengeOnce
<1>11. QED
  BY <1>2, <1>7, <1>8, <1>9, <1>10, IdleInv, RequestStep

-----------------------------------------------------------------------------
(* register, biometric_challenge and biometric_verify *)

LEMMA RegisterInv ==
  ASSUME IInv, NEW p \in Phones, Register(p)
  PROVE  IInv'
<1>1. /\ registered' = registered \cup {p}
      /\ UNCHANGED <<signedIn, pin, codes, count, expiring, texts, challenge, issued, job,
                     granted, passed, faults>>
  BY DEF Register, redisVars, challVars, historyVars
<1>2. Made' = Made
  BY <1>1 DEF Made
<1>3. TypeOK'
  BY <1>1, <1>2, Kept DEF TypeOK
<1>4. LimitInv'
  BY <1>1, Kept DEF LimitInv, Texting, Counting
<1>5. CodeInv' /\ Advance
  BY <1>1, <1>2, Kept DEF CodeInv, Advance
<1>6. ChallengeInv'
  BY <1>1, Kept, ChallengeKept
<1>7. QED
  BY <1>1, <1>3, <1>4, <1>5, <1>6, OutsideStep

\* The new challenge has never been given to anyone.
LEMMA IssueChallengeInv ==
  ASSUME IInv, NEW p \in Phones, IssueChallenge(p)
  PROVE  IInv'
<1>1. PICK t : t = issued + 1
  OBVIOUS
<1>2. /\ issued < MaxChallenges /\ issued' = t /\ challenge' = [challenge EXCEPT ![p] = t]
      /\ UNCHANGED <<registered, signedIn, pin, codes, count, expiring, texts, job, granted,
                     passed, faults>>
  BY <1>1 DEF IssueChallenge, userVars, redisVars, historyVars
<1>3. /\ TypeOK /\ issued \in 0..MaxChallenges /\ MaxChallenges \in Nat /\ issued \in Nat
      /\ challenge \in [Phones -> Challenges \cup {None}] /\ passed \in [Challenges -> Nat]
  BY Kept, Types, BoundsAssumption DEF TypeOK
<1>4. t \in Challenges /\ t \in 0..MaxChallenges /\ t > issued
  BY <1>1, <1>2, <1>3 DEF Challenges
<1>5. /\ challenge'[p] = t /\ \A q \in Phones \ {p} : challenge'[q] = challenge[q]
      /\ challenge' \in [Phones -> Challenges \cup {None}]
  BY <1>2, <1>3, <1>4
<1>6. Made' = Made
  BY <1>2 DEF Made
<1>7. TypeOK'
  BY <1>2, <1>4, <1>5, <1>6, <1>3 DEF TypeOK
<1>8. LimitInv'
  BY <1>2, Kept DEF LimitInv, Texting, Counting
<1>9. CodeInv' /\ Advance
  BY <1>2, <1>6, Kept DEF CodeInv, Advance
<1>10. ChallengeInv'
  <2>1. \A c \in Challenges : c \in Int /\ (c <= issued => c # t /\ c <= t)
    BY <1>3, <1>4 DEF Challenges
  <2>2. \A q \in Phones \ {p} : challenge[q] # None => challenge[q] # t /\ challenge[q] <= t
    BY <2>1, <1>3, Kept DEF ChallengeInv
  <2>3. \A s \in Slots : job[s].token # None => job[s].token # t /\ job[s].token <= t
    BY <2>1, Kept DEF ChallengeInv, Jobs
  <2>4. passed[t] = 0 /\ \A c \in Challenges : passed[c] > 0 => c <= t
    BY <2>1, <1>3, <1>4, Kept DEF ChallengeInv
  <2>5. \A s \in Slots : job[s].token # t
    BY <2>3, <1>4, NoneAssumption DEF Challenges
  <2>6. \A q \in Phones : challenge'[q] # None =>
          /\ challenge'[q] <= t /\ passed[challenge'[q]] = 0
          /\ \A r \in Phones : challenge'[r] = challenge'[q] => r = q
          /\ \A s \in Slots : job[s].token # challenge'[q]
    <3> SUFFICES ASSUME NEW q \in Phones, challenge'[q] # None
                 PROVE  /\ challenge'[q] <= t /\ passed[challenge'[q]] = 0
                        /\ \A r \in Phones : challenge'[r] = challenge'[q] => r = q
                        /\ \A s \in Slots : job[s].token # challenge'[q]
      OBVIOUS
    <3>1. CASE q = p
      <4>1. \A r \in Phones \ {p} : challenge'[r] # t
        BY <2>2, <1>4, <1>5, NoneAssumption DEF Challenges
      <4>2. t <= t
        BY <1>3, <1>1
      <4>3. QED
        BY <3>1, <4>1, <4>2, <1>5, <2>4, <2>5
    <3>2. CASE q # p
      BY <3>2, <2>2, <1>5, Kept DEF ChallengeInv
    <3>3. QED
      BY <3>1, <3>2
  <2>7. QED
    BY <2>3, <2>4, <2>6, <1>2, Kept DEF ChallengeInv, ChallengeOnce
<1>11. QED
  BY <1>2, <1>7, <1>8, <1>9, <1>10, OutsideStep

LEMMA ChallengeExpiresInv ==
  ASSUME IInv, NEW p \in Phones, ChallengeExpires(p)
  PROVE  IInv'
<1>1. /\ challenge' = [challenge EXCEPT ![p] = None]
      /\ UNCHANGED <<registered, signedIn, pin, codes, count, expiring, texts, issued, job,
                     granted, passed, faults>>
  BY DEF ChallengeExpires, userVars, redisVars, historyVars
<1>2. /\ TypeOK /\ challenge'[p] = None
      /\ \A q \in Phones \ {p} : challenge'[q] = challenge[q]
      /\ challenge' \in [Phones -> Challenges \cup {None}]
  BY <1>1, Kept DEF TypeOK
<1>3. Made' = Made
  BY <1>1 DEF Made
<1>4. TypeOK'
  BY <1>1, <1>2, <1>3 DEF TypeOK
<1>5. LimitInv'
  BY <1>1, Kept DEF LimitInv, Texting, Counting
<1>6. CodeInv' /\ Advance
  BY <1>1, <1>3, Kept DEF CodeInv, Advance
<1>7. ChallengeInv'
  BY <1>1, <1>2, Kept DEF ChallengeInv, ChallengeOnce
<1>8. QED
  BY <1>1, <1>4, <1>5, <1>6, <1>7, OutsideStep

\* GETDEL moves the challenge from the key to the request.
LEMMA AnswerChallengeInv ==
  ASSUME IInv, NEW s \in Slots, NEW p \in Phones, AnswerChallenge(s, p)
  PROVE  IInv'
<1>1. PICK t : t = challenge[p]
  OBVIOUS
<1>2. PICK j : j = [Idle EXCEPT !.at = "issuing", !.phone = p, !.token = t]
  OBVIOUS
<1>3. /\ job[s] = Idle /\ p \in signedIn /\ t # None
      /\ challenge' = [challenge EXCEPT ![p] = None]
      /\ job' = [job EXCEPT ![s] = j]
      /\ UNCHANGED <<registered, signedIn, pin, codes, count, expiring, texts, issued,
                     granted, passed, faults>>
  BY <1>1, <1>2 DEF AnswerChallenge, userVars, redisVars, historyVars
<1>4. /\ TypeOK /\ challenge \in [Phones -> Challenges \cup {None}]
      /\ p \in registered /\ t \in Challenges
  BY <1>1, <1>3, Kept DEF TypeOK
<1>5. j \in Jobs /\ j.at = "issuing" /\ j.phone = p /\ j.code = None /\ j.token = t
  BY <1>2, <1>4 DEF Idle, Jobs, Points
<1>6. job'[s] = j /\ OthersKept(s) /\ job' \in [Slots -> Jobs]
  BY <1>3, <1>4, <1>5, StartFacts
<1>7. /\ challenge'[p] = None /\ \A q \in Phones \ {p} : challenge'[q] = challenge[q]
      /\ challenge' \in [Phones -> Challenges \cup {None}]
  BY <1>3, <1>4
<1>8. Made' = Made
  BY <1>3 DEF Made
<1>9. TypeOK'
  BY <1>3, <1>4, <1>6, <1>7, <1>8 DEF TypeOK, Jobs, Points
<1>10. job[s].at = "idle" /\ job[s].token = None
  BY <1>3 DEF Idle
<1>11. LimitInv'
  BY <1>3, <1>5, <1>6, <1>10, Kept, LimitQuiet DEF OnTheWay
<1>12. CodeInv' /\ Advance
  BY <1>3, <1>8, Kept DEF CodeInv, Advance
<1>13. ChallengeInv'
  <2>1. /\ t <= issued /\ passed[t] = 0
        /\ \A q \in Phones \ {p} : challenge[q] # t
        /\ \A r \in Slots : job[r].token # t
    BY <1>1, <1>3, Kept DEF ChallengeInv
  <2>2. \A q \in Phones : challenge'[q] # None =>
          q # p /\ challenge'[q] = challenge[q] /\ challenge[q] # t
    BY <2>1, <1>7
  <2>3. \A r \in Slots \ {s} : job'[r] = job[r] /\ job[r].token # t
    BY <2>1, <1>6 DEF OthersKept
  <2>4. job'[s].token = t
    BY <1>5, <1>6
  <2>5. \A q \in Phones : challenge'[q] # None =>
          /\ challenge'[q] <= issued /\ passed[challenge'[q]] = 0
          /\ \A r \in Phones : challenge'[r] = challenge'[q] => r = q
          /\ \A r \in Slots : job'[r].token # challenge'[q]
    BY <2>2, <2>3, <2>4, Kept DEF ChallengeInv
  <2>6. \A r \in Slots : job'[r].token # None =>
          /\ job'[r].token <= issued /\ passed[job'[r].token] = 0
          /\ \A q \in Slots : job'[q].token = job'[r].token => q = r
    BY <2>1, <2>3, <2>4, Kept DEF ChallengeInv
  <2>7. QED
    BY <2>5, <2>6, <1>3, Kept DEF ChallengeInv, ChallengeOnce
<1>14. JobInv(s)'
  BY <1>3, <1>4, <1>5, <1>6 DEF JobInv
<1>15. QED
  BY <1>6, <1>9, <1>11, <1>12, <1>13, <1>14, RequestStep

-----------------------------------------------------------------------------
(* The invariant. *)

LEMMA InitInv == Init => IInv
<1> SUFFICES ASSUME Init PROVE IInv
  OBVIOUS
<1>1. Made = {} /\ \A s \in Slots : job[s] = Idle
  BY DEF Init, Made, NoCode
<1>2. \A p : Texting(p) = {} /\ Counting(p) = {}
  BY <1>1 DEF Texting, Counting, Idle
<1>3. Cardinality({}) = 0 /\ Cardinality(Slots) \in Nat
  BY SlotsAssumption, FS_EmptySet, FS_CardinalityType
<1>4. TypeOK
  BY <1>1, BoundsAssumption DEF Init, TypeOK, Idle
<1>5. LimitInv
  <2>1. \A p \in Phones : texts[p] = 0 /\ count[p] = 0
    BY DEF Init
  <2>2. faults = 0
    BY DEF Init
  <2>3. \A p : Cardinality(Counting(p)) = 0 /\ Cardinality(Texting(p)) = 0
    BY <1>2, <1>3
  <2>4. 0 <= Limit - 1 + Cardinality(Slots)
    BY <1>3, LimitAssumption
  <2>5. Limit - 1 + Cardinality(Slots) \in Int
    BY <1>3, LimitAssumption
  <2>6. QED
    BY <2>1, <2>2, <2>3, <2>4, <2>5 DEF LimitInv
<1>6. CodeInv
  BY <1>1 DEF Init, CodeInv
<1>7. \A s \in Slots : JobInv(s)
  BY <1>1 DEF JobInv, Idle
<1>8. ChallengeInv
  BY <1>1 DEF Init, ChallengeInv, ChallengeOnce, Idle
<1>9. QED
  BY <1>4, <1>5, <1>6, <1>7, <1>8 DEF IInv

LEMMA StutterInv == IInv /\ UNCHANGED vars => IInv'
<1> SUFFICES ASSUME IInv, UNCHANGED vars PROVE IInv'
  OBVIOUS
<1>1. UNCHANGED <<registered, signedIn, pin, codes, count, expiring, texts, challenge,
                  issued, job, granted, passed, faults>>
  BY DEF vars
<1>2. Made' = Made
  BY <1>1 DEF Made
<1>3. TypeOK'
  BY <1>1, <1>2, Kept DEF TypeOK
<1>4. LimitInv'
  BY <1>1, Kept DEF LimitInv, Texting, Counting
<1>5. CodeInv' /\ Advance
  BY <1>1, <1>2, Kept DEF CodeInv, Advance
<1>6. ChallengeInv'
  BY <1>1, Kept, ChallengeKept
<1>7. QED
  BY <1>1, <1>3, <1>4, <1>5, <1>6, OutsideStep

\* The steps, one by one.
LEMMA NextCases ==
  Next =>
    \/ \E s \in Slots :
         \/ \E p \in Phones : CheckLimit(s, p) \/ LimitUnread(s, p)
         \/ StoreCode(s) \/ SendText(s) \/ Count(s) \/ UseCode(s) \/ WritePin(s)
         \/ IssuePair(s)
         \/ UserNotFound(s) \/ SetWindow(s) \/ WrongCode(s) \/ Fail(s)
         \/ \E p \in Phones, k \in Codes : VerifyCode(s, p, k)
         \/ \E p \in Phones, new \in Pins : ReadPin(s, p, new)
         \/ \E k \in Codes : CheckCode(s, k)
         \/ \E p \in Phones : AnswerChallenge(s, p)
    \/ \E p \in Phones : \/ Register(p) \/ WindowEnds(p)
                         \/ IssueChallenge(p) \/ ChallengeExpires(p)
    \/ \E k \in Codes : CodeExpires(k)
BY DEF Next, Work, Start

LEMMA NextInv == IInv /\ Next => IInv'
<1> SUFFICES ASSUME IInv, Next PROVE IInv'
  OBVIOUS
<1>1. ASSUME NEW s \in Slots, NEW p \in Phones, CheckLimit(s, p) \/ LimitUnread(s, p)
      PROVE  IInv'
  BY <1>1, StartRequestInv
<1>2. ASSUME NEW s \in Slots, StoreCode(s) \/ SendText(s) \/ Count(s)
      PROVE  IInv'
  BY <1>2, StoreCodeInv, SendTextInv, CountInv
<1>3. ASSUME NEW s \in Slots, UseCode(s) \/ WritePin(s) \/ IssuePair(s)
      PROVE  IInv'
  BY <1>3, UseCodeInv, WritePinInv, IssuePairInv
<1>4. ASSUME NEW s \in Slots,
             UserNotFound(s) \/ SetWindow(s) \/ WrongCode(s) \/ Fail(s)
      PROVE  IInv'
  BY <1>4, EndInv
<1>5. ASSUME NEW s \in Slots,
             \/ \E p \in Phones, k \in Codes : VerifyCode(s, p, k)
             \/ \E p \in Phones, new \in Pins : ReadPin(s, p, new)
             \/ \E k \in Codes : CheckCode(s, k)
      PROVE  IInv'
  BY <1>5, ReadInv
<1>6. ASSUME NEW s \in Slots, NEW p \in Phones, AnswerChallenge(s, p)
      PROVE  IInv'
  BY <1>6, AnswerChallengeInv
<1>7. ASSUME NEW p \in Phones, \/ Register(p) \/ WindowEnds(p)
                               \/ IssueChallenge(p) \/ ChallengeExpires(p)
      PROVE  IInv'
  BY <1>7, RegisterInv, WindowEndsInv, IssueChallengeInv, ChallengeExpiresInv
<1>8. ASSUME NEW k \in Codes, CodeExpires(k)
      PROVE  IInv'
  BY <1>8, CodeExpiresInv
<1>9. QED
  BY NextCases, <1>1, <1>2, <1>3, <1>4, <1>5, <1>6, <1>7, <1>8

LEMMA Invariance == Spec => []IInv
<1>1. Init => IInv
  BY InitInv
<1>2. IInv /\ [Next]_vars => IInv'
  BY NextInv, StutterInv
<1>3. QED
  BY <1>1, <1>2, PTL DEF Spec

-----------------------------------------------------------------------------
\* In every instance the variables keep their types, and a row of otp_codes belongs to
\* a user there is: otp_request looks the phone up before its INSERT.
THEOREM CodesTypeCorrect == Spec => []TypeOK
<1>1. IInv => TypeOK
  BY DEF IInv
<1>2. QED
  BY <1>1, Invariance, PTL

\* OTP_RATE_LIMIT, for any limit and any number of requests at a time: the texts of a
\* window exceed it by no more than the requests that were let through together and the
\* counts that a fault lost.
THEOREM LimitHolds == Spec => []TextsBounded
<1>1. IInv => TextsBounded
  <2> SUFFICES ASSUME IInv, NEW p \in Phones
               PROVE  texts[p] <= Limit - 1 + Cardinality(Slots) + faults
    BY DEF TextsBounded
  <2>1. /\ Cardinality(Texting(p)) \in Nat /\ Cardinality(Slots) \in Nat
        /\ texts[p] \in Nat /\ faults \in Nat /\ Limit \in Nat
    BY Counts, Kept, LimitAssumption
  <2>2. texts[p] + Cardinality(Texting(p)) <= Limit - 1 + Cardinality(Slots) + faults
    BY Kept DEF LimitInv
  <2>3. QED
    BY <2>1, <2>2
<1>2. QED
  BY <1>1, Invariance, PTL

\* GETDEL gives a challenge to one request (biometric_verify): however many answer it,
\* and whichever fail, one pair of tokens is given for it at most.
THEOREM ChallengeIsSingleUse == Spec => []ChallengeOnce
<1>1. IInv => ChallengeOnce
  BY DEF IInv, ChallengeInv
<1>2. QED
  BY <1>1, Invariance, PTL

\* A request holds a code after a step that it did not hold before only if it has read
\* it as live.
LEMMA NewCodeIsLive ==
  ASSUME IInv, Next, NEW k \in Codes, NEW s \in Slots, job'[s].code = k, job[s].code # k
  PROVE  codes[k].state = "live"
<1>0. /\ TypeOK /\ job \in [Slots -> Jobs] /\ k # None
      /\ \A r \in Slots : job[r] \in Jobs
  <2>1. k \in Int
    BY DEF Codes
  <2>2. QED
    BY <2>1, Kept, Types, NoneAssumption
<1>1. ASSUME NEW r \in Slots, NEW j \in Jobs, job' = [job EXCEPT ![r] = j],
             j.code \in {job[r].code, None}
      PROVE  FALSE
  <2>1. job'[s] = IF s = r THEN j ELSE job[s]
    BY <1>0, <1>1
  <2>2. QED
    BY <2>1, <1>0, <1>1
<1>2. ASSUME job' = job
      PROVE  FALSE
  BY <1>2
<1>3. ASSUME NEW r \in Slots, Done(r)
      PROVE  FALSE
  <2>1. Idle \in Jobs /\ Idle.code = None
    BY DEF Idle, Jobs, Points
  <2>2. QED
    BY <2>1, <1>1, <1>3 DEF Done
<1>4. ASSUME NEW r \in Slots, NEW from, NEW to \in Points, Proceed(r, from, to)
      PROVE  FALSE
  <2>1. job'[r].code = job[r].code /\ OthersKept(r)
    BY <1>0, <1>4, ProceedFacts
  <2>2. QED
    BY <2>1 DEF OthersKept
<1>5. ASSUME NEW r \in Slots, NEW p \in Phones, CheckLimit(r, p) \/ LimitUnread(r, p)
      PROVE  FALSE
  <2>1. PICK j : j = [Idle EXCEPT !.at = "storing", !.phone = p]
    OBVIOUS
  <2>2. j \in Jobs /\ j.code = None
    BY <2>1 DEF Idle, Jobs, Points
  <2>3. job' = [job EXCEPT ![r] = j]
    BY <2>1, <1>5 DEF CheckLimit, LimitUnread, StartRequest
  <2>4. QED
    BY <2>2, <2>3, <1>1
<1>6. ASSUME NEW r \in Slots, NEW p \in Phones, NEW new \in Pins, ReadPin(r, p, new)
      PROVE  FALSE
  <2>1. PICK j : j = [Idle EXCEPT !.at = "checking", !.phone = p, !.new = new]
    OBVIOUS
  <2>2. j \in Jobs /\ j.code = None
    BY <2>1 DEF Idle, Jobs, Points
  <2>3. job' = [job EXCEPT ![r] = j]
    BY <2>1, <1>6 DEF ReadPin
  <2>4. QED
    BY <2>2, <2>3, <1>1
<1>7. ASSUME NEW r \in Slots, NEW p \in Phones, AnswerChallenge(r, p)
      PROVE  FALSE
  <2>1. PICK j : j = [Idle EXCEPT !.at = "issuing", !.phone = p, !.token = challenge[p]]
    OBVIOUS
  <2>2. challenge[p] \in Challenges
    BY <1>0, <1>7 DEF AnswerChallenge, TypeOK
  <2>3. j \in Jobs /\ j.code = None
    BY <2>1, <2>2 DEF Idle, Jobs, Points
  <2>4. job' = [job EXCEPT ![r] = j]
    BY <2>1, <1>7 DEF AnswerChallenge
  <2>5. QED
    BY <2>3, <2>4, <1>1
<1>8. ASSUME NEW r \in Slots, StoreCode(r) \/ SendText(r) \/ Count(r) \/ UseCode(r)
      PROVE  FALSE
  <2>1. {"texting", "counting", "limiting", "issuing", "writing"} \subseteq Points
    BY DEF Points
  <2>2. CASE StoreCode(r)
    BY <2>1, <2>2, <1>4 DEF StoreCode
  <2>3. CASE SendText(r)
    BY <2>1, <2>3, <1>4 DEF SendText
  <2>4. CASE Count(r)
    BY <2>1, <2>4, <1>3, <1>4 DEF Count
  <2>5. CASE UseCode(r)
    BY <2>1, <2>5, <1>4 DEF UseCode
  <2>6. QED
    BY <1>8, <2>2, <2>3, <2>4, <2>5
<1>9. ASSUME NEW r \in Slots, \/ WritePin(r) \/ IssuePair(r) \/ UserNotFound(r)
                              \/ SetWindow(r) \/ WrongCode(r) \/ Fail(r)
      PROVE  FALSE
  BY <1>9, <1>3 DEF WritePin, IssuePair, UserNotFound, SetWindow, WrongCode, Fail
<1>10. ASSUME NEW p \in Phones, \/ Register(p) \/ WindowEnds(p)
                                \/ IssueChallenge(p) \/ ChallengeExpires(p)
       PROVE  FALSE
  BY <1>10 DEF Register, WindowEnds, IssueChallenge, ChallengeExpires
<1>11. ASSUME NEW r \in Slots, NEW p \in Phones, NEW l \in Codes, VerifyCode(r, p, l)
       PROVE  codes[k].state = "live"
  <2>1. PICK j : j = [Idle EXCEPT !.at = "using", !.phone = p, !.code = l]
    OBVIOUS
  <2>2. job' = [job EXCEPT ![r] = j] /\ j.code = l /\ codes[l].state = "live"
    BY <2>1, <1>11, AcceptedIsLive DEF VerifyCode, Idle
  <2>3. job'[s] = IF s = r THEN j ELSE job[s]
    BY <2>2, <1>0
  <2>4. QED
    BY <2>2, <2>3
<1>12. ASSUME NEW r \in Slots, NEW l \in Codes, CheckCode(r, l)
       PROVE  codes[k].state = "live"
  <2>1. PICK j : j = [job[r] EXCEPT !.at = "using", !.code = l]
    OBVIOUS
  <2>2. job' = [job EXCEPT ![r] = j] /\ codes[l].state = "live"
    BY <2>1, <1>12, AcceptedIsLive DEF CheckCode
  <2>3. j.code = l
    BY <2>1, <1>0 DEF Jobs
  <2>4. job'[s] = IF s = r THEN j ELSE job[s]
    BY <2>2, <1>0
  <2>5. QED
    BY <2>2, <2>3, <2>4
<1>13. ASSUME NEW l \in Codes, CodeExpires(l)
       PROVE  FALSE
  BY <1>13 DEF CodeExpires
<1>14. QED
  BY NextCases, <1>5, <1>6, <1>7, <1>8, <1>9, <1>10, <1>11, <1>12, <1>13

\* A code that is used stays used.
LEMMA UsedStays ==
  ASSUME IInv, Next, NEW k \in Codes, codes[k].state = "used"
  PROVE  codes'[k].state = "used"
<1>1. codes \in [Codes -> {NoCode} \cup Rows] /\ \A l \in Made : l \in Codes
  BY Kept, Types DEF Made
<1>2. ASSUME codes' = codes
      PROVE  codes'[k].state = "used"
  BY <1>2
<1>3. ASSUME NEW s \in Slots, StoreCode(s)
      PROVE  codes'[k].state = "used"
  <2>1. PICK l \in Codes \ Made : \E row : codes' = [codes EXCEPT ![l] = row]
    BY <1>3 DEF StoreCode
  <2>2. k \in Made
    BY DEF Made
  <2>3. codes'[k] = codes[k]
    BY <2>1, <2>2, <1>1
  <2>4. QED
    BY <2>3
<1>4. ASSUME NEW s \in Slots, UseCode(s)
      PROVE  codes'[k].state = "used"
  <2>1. PICK l : l = job[s].code
    OBVIOUS
  <2>2. codes' = [codes EXCEPT ![l].state = "used"]
    BY <2>1, <1>4 DEF UseCode
  <2>3. CASE l = k
    <3>1. codes'[k] = [codes[k] EXCEPT !.state = "used"] /\ codes[k] \in Rows
      BY <2>2, <2>3, <1>1, Kept, MadeRows DEF Made
    <3>2. QED
      BY <3>1 DEF Rows
  <2>4. CASE l # k
    <3>1. codes'[k] = codes[k]
      BY <2>2, <2>4, <1>1
    <3>2. QED
      BY <3>1
  <2>5. QED
    BY <2>3, <2>4
<1>5. ASSUME NEW l \in Codes, CodeExpires(l)
      PROVE  codes'[k].state = "used"
  <2>1. codes[l].state = "live" /\ codes' = [codes EXCEPT ![l].state = "expired"]
    BY <1>5 DEF CodeExpires
  <2>2. codes'[k] = codes[k]
    BY <2>1, <1>1
  <2>3. QED
    BY <2>2
<1>6. ASSUME NEW s \in Slots,
             \/ \E p \in Phones : CheckLimit(s, p) \/ LimitUnread(s, p)
             \/ SendText(s) \/ Count(s) \/ WritePin(s) \/ IssuePair(s)
             \/ UserNotFound(s) \/ SetWindow(s) \/ WrongCode(s) \/ Fail(s)
             \/ \E p \in Phones, l \in Codes : VerifyCode(s, p, l)
             \/ \E p \in Phones, new \in Pins : ReadPin(s, p, new)
             \/ \E l \in Codes : CheckCode(s, l)
             \/ \E p \in Phones : AnswerChallenge(s, p)
      PROVE  codes' = codes
  BY <1>6 DEF CheckLimit, LimitUnread, SendText, Count, WritePin, IssuePair, UserNotFound,
              SetWindow, WrongCode, Fail, VerifyCode, ReadPin, CheckCode, AnswerChallenge
<1>7. ASSUME NEW p \in Phones, \/ Register(p) \/ WindowEnds(p)
                               \/ IssueChallenge(p) \/ ChallengeExpires(p)
      PROVE  codes' = codes
  BY <1>7 DEF Register, WindowEnds, IssueChallenge, ChallengeExpires
<1>8. QED
  BY NextCases, <1>2, <1>3, <1>4, <1>5, <1>6, <1>7

\* A code that was good for something stays marked, and no request gets it that has not
\* read it before (verify_otp_for_user and otp_verify mark it first): a failure in
\* between costs the user the code, and gives nobody another pair or PIN.
THEOREM GrantedStaysSpent == Spec => GrantedIsSpent
<1>1. ASSUME IInv, IInv', [Next]_vars, NEW k \in Codes, granted[k] > 0
      PROVE  /\ codes'[k].state = "used"
             /\ \A s \in Slots : job'[s].code = k => job[s].code = k
  <2>1. codes[k].state = "used" /\ granted[k] \in Nat
    BY <1>1, Kept DEF CodeInv, TypeOK
  <2>2. CASE UNCHANGED vars
    BY <2>1, <2>2 DEF vars
  <2>3. CASE Next
    <3>1. codes'[k].state = "used"
      BY <2>1, <2>3, <1>1, UsedStays
    <3>2. QED
      BY <3>1, <2>1, <2>3, <1>1, NewCodeIsLive
  <2>4. QED
    BY <1>1, <2>2, <2>3
<1>2. IInv /\ IInv' /\ [Next]_vars =>
        [\A k \in Codes : granted[k] > 0 =>
           /\ codes'[k].state = "used"
           /\ \A s \in Slots : job'[s].code = k => job[s].code = k]_vars
  BY <1>1
<1>3. QED
  BY <1>2, Invariance, PTL DEF Spec, GrantedIsSpent

=============================================================================
