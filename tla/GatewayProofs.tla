---------------------------- MODULE GatewayProofs ----------------------------
(***************************************************************************)
(* Proofs about Gateway, for any requests, limits, window and number of    *)
(* concurrent calls: the layers implement the circuit breaker's own        *)
(* specification, and no counter of the limiter lets more than its limit   *)
(* through, but for those that a late call begins anew, however long the   *)
(* calls of Redis take.                                                    *)
(***************************************************************************)
EXTENDS Gateway, TLAPS

-----------------------------------------------------------------------------
(***************************************************************************)
(* The breaker, for any number of concurrent requests and any threshold:   *)
(* the count of Closed is the streak of failures, and the half-open state  *)
(* belongs to one request.                                                 *)
(***************************************************************************)

IInv == TypeOK /\ CountsConsecutive /\ OneProbe

LEMMA NoneCounted == 0 \in 0..(Threshold - 1) /\ 0 \in 0..Threshold /\ 0 \in 0..MaxDrops
BY ThresholdAssumption, DropAssumption

LEMMA InitInv == Init => IInv
BY NoneCounted DEF Init, IInv, TypeOK, CountsConsecutive, OneProbe

LEMMA RespondInv ==
  ASSUME IInv, NEW c \in Calls, Respond(c)
  PROVE  IInv'
<1>1. mode' = "Closed" /\ failures' = 0 /\ timedOut' = FALSE /\ probe' = None
      /\ streak' = 0 /\ drops' = drops /\ inside' \subseteq inside
  BY DEF Respond, OnSuccess, ProbeEnds
<1>2. TypeOK'
  BY <1>1, NoneCounted DEF IInv, TypeOK
<1>3. CountsConsecutive' /\ OneProbe'
  BY <1>1 DEF CountsConsecutive, OneProbe
<1>4. QED
  BY <1>2, <1>3 DEF IInv

LEMMA RespondErrorInv ==
  ASSUME IInv, NEW c \in Calls, RespondError(c)
  PROVE  IInv'
<1> USE DEF IInv, TypeOK
<1>1. /\ inside' = inside \ {c} /\ drops' = drops
      /\ streak' = IF streak < Threshold THEN streak + 1 ELSE streak
      /\ probe' = IF mode' = "HalfOpen" THEN probe ELSE None
  BY DEF RespondError, ProbeEnds
<1>2. streak' \in 0..Threshold
  BY <1>1, ThresholdAssumption
<1>3. mode' # "HalfOpen" /\ probe' = None
  BY <1>1 DEF RespondError, OnFailure, OpenBreaker, breakerVars
<1>4. CASE mode = "Closed" /\ failures + 1 < Threshold
  <2>1. mode' = "Closed" /\ failures' = failures + 1 /\ timedOut' = timedOut
    BY <1>4, ThresholdAssumption DEF RespondError, OnFailure, breakerVars
  <2>2. streak' = failures'
    BY <1>1, <1>4, <2>1, ThresholdAssumption DEF CountsConsecutive
  <2>3. TypeOK'
    BY <1>1, <1>2, <1>3, <1>4, <2>1, ThresholdAssumption
  <2>4. QED
    BY <1>3, <2>1, <2>2, <2>3 DEF CountsConsecutive, OneProbe
<1>5. CASE ~ (mode = "Closed" /\ failures + 1 < Threshold)
  <2>1. mode' = "Open" /\ failures' \in 0..(Threshold - 1) /\ timedOut' \in BOOLEAN
    <3>1. OnFailure
      BY DEF RespondError
    <3>2. CASE mode = "Closed"
      <4>1. failures + 1 >= Threshold
        BY <1>5, <3>2, ThresholdAssumption
      <4>2. OpenBreaker
        BY <3>1, <3>2, <4>1 DEF OnFailure
      <4>3. QED
        BY <4>2, NoneCounted DEF OpenBreaker
    <3>3. CASE mode = "HalfOpen"
      BY <3>1, <3>3, NoneCounted DEF OnFailure, OpenBreaker
    <3>4. CASE mode = "Open"
      BY <3>1, <3>4 DEF OnFailure, breakerVars
    <3>5. QED
      BY <3>2, <3>3, <3>4
  <2>2. TypeOK'
    BY <1>1, <1>2, <1>3, <2>1
  <2>3. QED
    BY <1>3, <2>1, <2>2 DEF CountsConsecutive, OneProbe
<1>6. QED
  BY <1>4, <1>5

LEMMA StepInv == IInv /\ [Next]_vars => IInv'
<1> SUFFICES ASSUME IInv, [Next]_vars PROVE IInv'
  OBVIOUS
<1> USE DEF IInv
<1>1. CASE Elapse
  BY <1>1 DEF Elapse, TypeOK, CountsConsecutive, OneProbe
<1>2. ASSUME NEW c \in Calls, Admit(c) PROVE IInv'
  BY <1>2 DEF Admit, breakerVars, TypeOK, CountsConsecutive, OneProbe
<1>3. ASSUME NEW c \in Calls, Probe(c) PROVE IInv'
  BY <1>3, NoneAssumption DEF Probe, TypeOK, CountsConsecutive, OneProbe
<1>4. ASSUME NEW c \in Calls, Respond(c) PROVE IInv'
  BY <1>4, RespondInv
<1>5. ASSUME NEW c \in Calls, RespondError(c) PROVE IInv'
  BY <1>5, RespondErrorInv
<1>6. ASSUME NEW c \in Calls, Drop(c) PROVE IInv'
  BY <1>6, DropAssumption DEF Drop, breakerVars, TypeOK, CountsConsecutive, OneProbe
<1>7. CASE UNCHANGED vars
  BY <1>7 DEF vars, TypeOK, CountsConsecutive, OneProbe
<1>8. QED
  BY <1>1, <1>2, <1>3, <1>4, <1>5, <1>6, <1>7 DEF Next, Leave

LEMMA Invariant == Spec => []IInv
<1>1. Init => IInv
  BY InitInv
<1>2. IInv /\ [Next]_vars => IInv'
  BY StepInv
<1>3. QED
  BY <1>1, <1>2, PTL DEF Spec

-----------------------------------------------------------------------------
(* Theorems. *)

\* Whatever late responses arrive in whatever order, Closed counts the failures
\* in a row, and a half-open breaker has one probe.
THEOREM BreakerCounts == Spec => [](TypeOK /\ CountsConsecutive /\ OneProbe)
<1>1. IInv => TypeOK /\ CountsConsecutive /\ OneProbe
  BY DEF IInv
<1>2. QED
  BY <1>1, Invariant, PTL

\* The breaker opens on the Threshold-th failure in a row or on a failure while
\* half-open.
THEOREM BreakerOpens == Spec => OpensOnThreshold
<1>1. IInv /\ [Next]_vars
        => [mode # "Open" /\ mode' = "Open" => mode = "HalfOpen" \/ streak' = Threshold]_vars
  <2> SUFFICES ASSUME IInv, Next, mode = "Closed", mode' = "Open"
               PROVE  streak' = Threshold
    BY DEF IInv, TypeOK
  <2>1. PICK c \in Calls : RespondError(c)
    BY DEF Next, Elapse, Admit, Probe, Leave, Respond, OnSuccess, Drop, breakerVars
  <2>2. failures + 1 >= Threshold /\ failures = streak
    BY <2>1 DEF RespondError, OnFailure, IInv, CountsConsecutive, breakerVars
  <2>3. QED
    BY <2>1, <2>2, ThresholdAssumption DEF RespondError, IInv, TypeOK
<1>2. QED
  BY <1>1, Invariant, PTL DEF Spec, OpensOnThreshold

\* Beside the probe nobody gets in.
THEOREM BreakerFastFails == Spec => FastFails
<1>1. [Next]_vars => [mode = "HalfOpen" \/ (mode = "Open" /\ ~ timedOut)
                        => inside' \subseteq inside]_vars
  BY DEF Next, Elapse, Admit, Probe, Leave, Respond, RespondError, Drop, breakerVars, vars
<1>2. QED
  BY <1>1, PTL DEF Spec, FastFails

-----------------------------------------------------------------------------
(* The breaker within the gateway. *)

LEMMA GatewayStepIsBreakerStep == [GatewayNext]_gatewayVars => [Next]_vars
<1> SUFFICES ASSUME [GatewayNext]_gatewayVars, vars' # vars
             PROVE  Next
  OBVIOUS
<1>1. CASE Tick
  BY <1>1 DEF Tick, vars
<1>2. CASE TimeOut
  BY <1>2 DEF TimeOut, Next
<1>3. ASSUME NEW c \in Calls, NEW r \in Requests, Arrive(c, r)
      PROVE  Next
  BY <1>3 DEF Arrive, Next
<1>4. ASSUME NEW c \in Calls, RunScript(c) \/ FailOpen(c)
      PROVE  Next
  BY <1>4 DEF RunScript, FailOpen, vars
<1>5. ASSUME NEW c \in Calls, Answer(c) \/ GoAway(c)
      PROVE  Next
  BY <1>5 DEF Answer, GoAway, Next, Leave
<1>6. CASE UNCHANGED gatewayVars
  BY <1>6 DEF gatewayVars
<1>7. QED
  BY <1>1, <1>2, <1>3, <1>4, <1>5, <1>6 DEF GatewayNext

\* Whatever authentication, the limiter and Redis do, the breaker sees what its own
\* module says: each request that it lets in comes out once (router.rs:58-77).
THEOREM GatewayUsesBreaker == GatewaySpec => UsesBreaker
<1>1. GatewayInit => Init
  BY DEF GatewayInit
<1>2. QED
  BY <1>1, GatewayStepIsBreakerStep, PTL DEF GatewaySpec, Spec, UsesBreaker

\* What is proved of the breaker alone holds of it within the gateway.
THEOREM GatewayBreakerOpens == GatewaySpec => OpensOnThreshold /\ FastFails
BY GatewayUsesBreaker, BreakerOpens, BreakerFastFails, PTL DEF UsesBreaker

-----------------------------------------------------------------------------
(* The limiter. *)

LEMMA Floor ==
  ASSUME NEW n \in Nat, NEW w \in Nat \ {0}
  PROVE  n \div w \in Nat /\ w * (n \div w) <= n /\ n < w * (n \div w) + w
OBVIOUS

LEMMA DivMonotonic ==
  ASSUME NEW n \in Nat, NEW m \in Nat, n <= m, NEW w \in Nat \ {0}
  PROVE  n \div w <= m \div w
<1> DEFINE a == n \div w
           b == m \div w
<1>1. a \in Nat /\ b \in Nat /\ w * a <= n /\ m < w * b + w
  BY Floor
<1>2. w * a < w * (b + 1)
  BY <1>1
<1> HIDE DEF a, b
<1>3. a < b + 1
  BY <1>1, <1>2
<1>4. QED
  BY <1>1, <1>3 DEF a, b

LEMMA Product ==
  ASSUME NEW n \in Nat, NEW m \in Nat
  PROVE  n * m \in Nat /\ n * (1 + m) = n * m + n
OBVIOUS

\* The last second in which a call counts as in time for a key.
LastCall(k) == Window * (k[3] + 1)

\* What the counts that have come to an end may have let through.
Earlier(k) == Limit[k[1]] * restarts[k]

\* A call that waits for Redis has a request with an identifier, and a past minute.
Waiting(c) ==
  stage[c] = "counting" =>
    /\ IsExempt(request[c]) \/ request[c].token # None
    /\ request[c] \in Requests
    /\ readAt[c] <= clock

\* A counter outlives the calls that are in time, and as long as it lives, or may be
\* begun by a call in time, it has counted those that were let through since the
\* count began.
Counted(k) ==
  /\ counter[k] > 0 => expires[k] > LastCall(k)
  /\ admitted[k] <= Earlier(k) + Limit[k[1]]
  /\ counter[k] > 0 \/ clock <= LastCall(k) => admitted[k] <= Earlier(k) + counter[k]

LimiterInv ==
  /\ GatewayTypeOK
  /\ \A c \in Calls : Waiting(c)
  /\ \A k \in Keys : Counted(k)

LEMMA KeysHaveLimits ==
  ASSUME NEW k \in Keys
  PROVE  k[3] \in Nat /\ Limit[k[1]] \in Nat /\ LastCall(k) \in Nat
<1>1. PICK r \in Requests, m \in 0..(MaxTime \div Window) :
        k = <<TierOf(r), Identifier(r), m>>
  BY DEF Keys
<1>2. TierOf(r) \in Tiers
  BY DEF TierOf, Tiers
<1>3. k[1] \in Tiers /\ k[3] \in Nat
  BY <1>1, <1>2, Floor, TimeAssumption, WindowAssumption
<1>4. LastCall(k) \in Nat
  BY <1>3, WindowAssumption, Product DEF LastCall
<1>5. QED
  BY <1>3, <1>4, LimitAssumption

LEMMA EarlierTyped ==
  ASSUME LimiterInv, NEW k \in Keys
  PROVE  /\ Earlier(k) \in Nat
         /\ Limit[k[1]] * (1 + restarts[k]) = Earlier(k) + Limit[k[1]]
<1>1. Limit[k[1]] \in Nat /\ restarts[k] \in Nat
  BY KeysHaveLimits DEF LimiterInv, GatewayTypeOK
<1>2. QED
  BY <1>1, Product DEF Earlier

\* A counter that is begun now outlives the calls that are in time.
LEMMA CallOfMinute ==
  ASSUME LimiterInv, NEW c \in Calls, stage[c] = "counting"
  PROVE  KeyOf(c) \in Keys /\ LastCall(KeyOf(c)) < clock + Ttl
<1> DEFINE m == readAt[c] \div Window
<1>1. /\ readAt[c] \in Nat /\ readAt[c] <= MaxTime /\ clock \in Nat
      /\ readAt[c] <= clock
  BY TimeAssumption DEF LimiterInv, GatewayTypeOK, Waiting
<1>2. m \in Nat /\ Window * m <= readAt[c]
  BY <1>1, Floor, WindowAssumption
<1>3. m <= MaxTime \div Window
  BY <1>1, DivMonotonic, TimeAssumption, WindowAssumption
<1>4. m \in 0..(MaxTime \div Window)
  BY <1>2, <1>3, Floor, TimeAssumption, WindowAssumption
<1>5. KeyOf(c) \in Keys
  BY <1>4 DEF KeyOf, Keys, LimiterInv, Waiting
<1>6. LastCall(KeyOf(c)) = Window * (m + 1)
  BY DEF LastCall, KeyOf
<1> HIDE DEF m
<1>7. Window * (m + 1) = Window * m + Window /\ Window * m \in Nat
  BY <1>2, Product, WindowAssumption
<1>8. QED
  BY <1>1, <1>2, <1>5, <1>6, <1>7, WindowAssumption DEF Ttl

LEMMA LimiterInit == GatewayInit => LimiterInv
<1> SUFFICES ASSUME GatewayInit
             PROVE  LimiterInv
  OBVIOUS
<1>1. TypeOK
  BY InitInv DEF GatewayInit, IInv
<1>2. GatewayTypeOK
  BY <1>1, TimeAssumption DEF GatewayInit, Init, GatewayTypeOK
<1>3. \A c \in Calls : Waiting(c)
  BY DEF GatewayInit, Waiting
<1>4. ASSUME NEW k \in Keys
      PROVE  Counted(k)
  <2>1. counter[k] = 0 /\ admitted[k] = 0 /\ restarts[k] = 0 /\ Limit[k[1]] \in Nat
    BY KeysHaveLimits DEF GatewayInit
  <2>2. Earlier(k) \in Nat
    BY <2>1, Product DEF Earlier
  <2>3. QED
    BY <2>1, <2>2 DEF Counted
<1>5. QED
  BY <1>2, <1>3, <1>4 DEF LimiterInv

\* Time passes: a counter that goes has outlived the calls that are in time.
LEMMA TickInv ==
  ASSUME LimiterInv, Tick, TypeOK'
  PROVE  LimiterInv'
<1> DEFINE gone(k) == expires[k] <= clock'
<1>1. /\ clock \in Nat /\ clock' = clock + 1 /\ clock' \in 0..MaxTime
      /\ counter' = [k \in Keys |-> IF gone(k) THEN 0 ELSE counter[k]]
      /\ expires' = [k \in Keys |-> IF gone(k) THEN 0 ELSE expires[k]]
      /\ UNCHANGED <<stage, request, readAt, inside, restarts, admitted>>
  BY TimeAssumption DEF Tick, LimiterInv, GatewayTypeOK, vars
<1>2. /\ counter \in [Keys -> Nat] /\ expires \in [Keys -> Nat]
      /\ restarts \in [Keys -> Nat] /\ admitted \in [Keys -> Nat]
  BY DEF LimiterInv, GatewayTypeOK
<1>3. GatewayTypeOK'
  BY <1>1, <1>2 DEF LimiterInv, GatewayTypeOK
<1>4. ASSUME NEW c \in Calls
      PROVE  Waiting(c)'
  <2>1. readAt[c] \in Nat
    BY TimeAssumption DEF LimiterInv, GatewayTypeOK
  <2>2. QED
    BY <1>1, <2>1 DEF LimiterInv, Waiting
<1>5. ASSUME NEW k \in Keys
      PROVE  Counted(k)'
  <2>1. Counted(k)
    BY DEF LimiterInv
  <2>2. /\ LastCall(k)' = LastCall(k) /\ LastCall(k) \in Nat
        /\ Earlier(k)' = Earlier(k) /\ Earlier(k) \in Nat
        /\ Limit[k[1]] \in Nat
    BY <1>1, KeysHaveLimits, EarlierTyped DEF LastCall, Earlier
  <2>3. /\ counter[k] \in Nat /\ expires[k] \in Nat /\ admitted[k] \in Nat
        /\ counter'[k] = IF gone(k) THEN 0 ELSE counter[k]
        /\ expires'[k] = IF gone(k) THEN 0 ELSE expires[k]
        /\ admitted'[k] = admitted[k]
    BY <1>1, <1>2
  <2>4. QED
    BY <1>1, <2>1, <2>2, <2>3 DEF Counted
<1>6. QED
  BY <1>3, <1>4, <1>5 DEF LimiterInv

Counters == /\ counter \in [Keys -> Nat] /\ expires \in [Keys -> Nat]
            /\ restarts \in [Keys -> Nat] /\ admitted \in [Keys -> Nat]

\* The script is run for a call, which it lets through or not.
LEMMA IncrementInv ==
  ASSUME LimiterInv, NEW c \in Calls, stage[c] = "counting", clock' = clock,
         Increment(KeyOf(c)),
         \/ UNCHANGED admitted
         \/ /\ counter[KeyOf(c)] + 1 <= Limit[KeyOf(c)[1]]
            /\ admitted' = [admitted EXCEPT ![KeyOf(c)] = @ + 1]
  PROVE  Counters' /\ \A k \in Keys : Counted(k)'
<1>1. PICK key \in Keys : key = KeyOf(c) /\ LastCall(key) < clock + Ttl
  BY CallOfMinute
<1>2. Counters /\ clock \in Nat /\ Ttl \in Nat
  BY TimeAssumption, WindowAssumption DEF LimiterInv, GatewayTypeOK, Counters, Ttl
<1>3. Limit[key[1]] \in Nat /\ LastCall(key) \in Nat /\ Counted(key)
  BY <1>1, KeysHaveLimits DEF LimiterInv
<1>4. /\ counter' = [counter EXCEPT ![key] = IF @ > Limit[key[1]] THEN @ ELSE @ + 1]
      /\ expires' = [expires EXCEPT ![key] = IF counter[key] = 0 THEN clock + Ttl ELSE @]
      /\ restarts' = [restarts EXCEPT ![key] =
                        IF counter[key] = 0 /\ clock > LastCall(key) THEN @ + 1 ELSE @]
  BY <1>1 DEF Increment, IsLate, LastCall
<1>5. Counters'
  BY <1>1, <1>2, <1>4 DEF Counters
<1>6. ASSUME NEW k \in Keys, k # key
      PROVE  Counted(k)'
  <2>1. /\ counter'[k] = counter[k] /\ expires'[k] = expires[k]
        /\ restarts'[k] = restarts[k] /\ admitted'[k] = admitted[k]
    BY <1>1, <1>2, <1>4, <1>6 DEF Counters
  <2>2. QED
    BY <2>1 DEF LimiterInv, Counted, LastCall, Earlier
<1>7. Counted(key)'
  <2>1. /\ counter[key] \in Nat /\ expires[key] \in Nat
        /\ restarts[key] \in Nat /\ admitted[key] \in Nat
    BY <1>1, <1>2 DEF Counters
  <2>2. /\ counter'[key] = IF counter[key] > Limit[key[1]] THEN counter[key] ELSE counter[key] + 1
        /\ expires'[key] = IF counter[key] = 0 THEN clock + Ttl ELSE expires[key]
        /\ restarts'[key] = IF counter[key] = 0 /\ clock > LastCall(key)
                            THEN restarts[key] + 1 ELSE restarts[key]
    BY <1>1, <1>2, <1>4 DEF Counters
  <2>3. \/ admitted'[key] = admitted[key]
        \/ counter[key] + 1 <= Limit[key[1]] /\ admitted'[key] = admitted[key] + 1
    BY <1>1, <1>2 DEF Counters
  <2>4. LastCall(key)' = LastCall(key) /\ Earlier(key) \in Nat
    BY EarlierTyped DEF LastCall
  <2>5. counter'[key] > 0 => expires'[key] > LastCall(key)
    BY <1>1, <1>3, <2>1, <2>2 DEF Counted
  <2>6. CASE counter[key] = 0 /\ clock > LastCall(key)
    <3>1. Earlier(key)' = Earlier(key) + Limit[key[1]]
      BY <1>3, <2>1, <2>2, <2>6, Product DEF Earlier
    <3>2. /\ admitted'[key] <= Earlier(key)' + Limit[key[1]]
          /\ admitted'[key] <= Earlier(key)' + counter'[key]
      BY <1>3, <2>1, <2>2, <2>3, <2>4, <2>6, <3>1 DEF Counted
    <3>3. QED
      BY <2>4, <2>5, <3>2 DEF Counted
  <2>7. CASE ~ (counter[key] = 0 /\ clock > LastCall(key))
    <3>1. Earlier(key)' = Earlier(key)
      BY <2>2, <2>7 DEF Earlier
    <3>2. admitted[key] <= Earlier(key) + counter[key]
      BY <1>2, <1>3, <2>1, <2>7 DEF Counted
    <3>3. /\ admitted'[key] <= Earlier(key) + Limit[key[1]]
          /\ admitted'[key] <= Earlier(key) + counter'[key]
      BY <1>3, <2>1, <2>2, <2>3, <2>4, <3>2 DEF Counted
    <3>4. QED
      BY <2>4, <2>5, <3>1, <3>3 DEF Counted
  <2>8. QED
    BY <2>6, <2>7
<1>8. QED
  BY <1>5, <1>6, <1>7

\* A step of c other than that leaves the counters alone.
LEMMA CountersUnchanged ==
  ASSUME LimiterInv, UNCHANGED <<clock, counter, expires, restarts, admitted>>
  PROVE  Counters' /\ \A k \in Keys : Counted(k)'
BY DEF LimiterInv, GatewayTypeOK, Counters, Counted, LastCall, Earlier

\* The counters apart, a step moves one call; it does not begin to wait but in
\* Arrive.
LEMMA MoveInv ==
  ASSUME LimiterInv, TypeOK', NEW c \in Calls, clock' = clock,
         NEW s \in {"out", "unauthorized", "limited", "routed"},
         stage' = [stage EXCEPT ![c] = s],
         IF s = "out" THEN inside' = inside \ {c} /\ Out(c)
                      ELSE c \in inside /\ UNCHANGED <<inside, request, readAt>>,
         Counters' /\ \A k \in Keys : Counted(k)'
  PROVE  LimiterInv'
<1>1. /\ stage \in [Calls -> {"out", "unauthorized", "counting", "limited", "routed"}]
      /\ request \in [Calls -> Requests \cup {None}]
      /\ readAt \in [Calls -> 0..MaxTime] /\ 0 \in 0..MaxTime
  BY TimeAssumption DEF LimiterInv, GatewayTypeOK
<1>2. /\ stage' \in [Calls -> {"out", "unauthorized", "counting", "limited", "routed"}]
      /\ request' \in [Calls -> Requests \cup {None}]
      /\ readAt' \in [Calls -> 0..MaxTime]
  BY <1>1 DEF Out
<1>3. ASSUME NEW d \in Calls
      PROVE  /\ IF d \in inside' THEN stage'[d] # "out" /\ request'[d] \in Requests
                                 ELSE stage'[d] = "out"
             /\ Waiting(d)'
  <2>1. CASE d = c
    BY <1>1, <2>1 DEF LimiterInv, GatewayTypeOK, Waiting, Out
  <2>2. CASE d # c
    BY <1>1, <2>2 DEF LimiterInv, GatewayTypeOK, Waiting, Out
  <2>3. QED
    BY <2>1, <2>2
<1>4. GatewayTypeOK'
  BY <1>2, <1>3 DEF LimiterInv, GatewayTypeOK, Counters
<1>5. QED
  BY <1>3, <1>4 DEF LimiterInv

LEMMA ArriveInv ==
  ASSUME LimiterInv, TypeOK', NEW c \in Calls, NEW r \in Requests, Arrive(c, r)
  PROVE  LimiterInv'
<1> DEFINE Stages == {"unauthorized", "routed", "counting"}
<1>1. inside' = inside \cup {c}
  BY DEF Arrive, Admit, Probe
<1>2. PICK s \in Stages :
        /\ stage' = [stage EXCEPT ![c] = s]
        /\ s = "counting" => IsExempt(r) \/ Authenticates(r)
  <2>1. stage' = [stage EXCEPT ![c] = Layer(r)]
    BY DEF Arrive
  <2>2. Layer(r) \in Stages /\ (Layer(r) = "counting" => IsExempt(r) \/ Authenticates(r))
    BY DEF Layer
  <2>3. QED
    BY <2>1, <2>2
<1>3. /\ request' = [request EXCEPT ![c] = r]
      /\ readAt' = [readAt EXCEPT ![c] = IF stage'[c] = "counting" THEN clock ELSE 0]
      /\ UNCHANGED <<clock, counter, expires, restarts, admitted>>
  BY DEF Arrive, limiterVars, counts
<1>4. /\ stage \in [Calls -> {"out", "unauthorized", "counting", "limited", "routed"}]
      /\ request \in [Calls -> Requests \cup {None}]
      /\ readAt \in [Calls -> 0..MaxTime]
      /\ clock \in 0..MaxTime /\ 0 \in 0..MaxTime
  BY TimeAssumption DEF LimiterInv, GatewayTypeOK
<1>5. /\ stage' \in [Calls -> {"out", "unauthorized", "counting", "limited", "routed"}]
      /\ request' \in [Calls -> Requests \cup {None}]
      /\ readAt' \in [Calls -> 0..MaxTime]
  BY <1>2, <1>3, <1>4
<1>6. stage'[c] \in Stages /\ request'[c] = r
      /\ (stage'[c] = "counting" => /\ IsExempt(r) \/ Authenticates(r)
                                    /\ readAt'[c] = clock)
  BY <1>2, <1>3, <1>4
<1>7. ASSUME NEW d \in Calls
      PROVE  /\ IF d \in inside' THEN stage'[d] # "out" /\ request'[d] \in Requests
                                 ELSE stage'[d] = "out"
             /\ Waiting(d)'
  <2>1. CASE d = c
    BY <1>1, <1>3, <1>4, <1>6, <2>1 DEF Waiting, Authenticates
  <2>2. CASE d # c
    BY <1>1, <1>2, <1>3, <1>4, <2>2 DEF LimiterInv, GatewayTypeOK, Waiting
  <2>3. QED
    BY <2>1, <2>2
<1>8. Counters' /\ \A k \in Keys : Counted(k)'
  BY <1>3, CountersUnchanged
<1>9. GatewayTypeOK'
  BY <1>3, <1>4, <1>5, <1>7, <1>8 DEF LimiterInv, GatewayTypeOK, Counters
<1>10. QED
  BY <1>7, <1>8, <1>9 DEF LimiterInv

LEMMA RunScriptInv ==
  ASSUME LimiterInv, TypeOK', NEW c \in Calls, RunScript(c)
  PROVE  LimiterInv'
<1>1. stage[c] = "counting" /\ Increment(KeyOf(c)) /\ clock' = clock
      /\ UNCHANGED <<inside, request, readAt>>
  BY DEF RunScript, vars
<1>2. c \in inside
  BY <1>1 DEF LimiterInv, GatewayTypeOK
<1>3. counter[KeyOf(c)] \in Nat /\ Limit[KeyOf(c)[1]] \in Nat
      /\ KeyOf(c)[1] = TierOf(request[c])
  BY <1>1, CallOfMinute, KeysHaveLimits DEF LimiterInv, GatewayTypeOK, KeyOf
<1>4. \/ UNCHANGED admitted
      \/ /\ counter[KeyOf(c)] + 1 <= Limit[KeyOf(c)[1]]
         /\ admitted' = [admitted EXCEPT ![KeyOf(c)] = @ + 1]
  BY <1>3 DEF RunScript
<1>5. PICK s \in {"limited", "routed"} : stage' = [stage EXCEPT ![c] = s]
  BY DEF RunScript
<1>6. Counters' /\ \A k \in Keys : Counted(k)'
  BY <1>1, <1>4, IncrementInv
<1>7. QED
  BY <1>1, <1>2, <1>5, <1>6, MoveInv

\* FailOpen and GoAway, which may have run the script without its answer.
LEMMA UnansweredInv ==
  ASSUME LimiterInv, NEW c \in Calls, stage[c] = "counting", clock' = clock,
         Increment(KeyOf(c)) \/ UNCHANGED counts, UNCHANGED admitted
  PROVE  Counters' /\ \A k \in Keys : Counted(k)'
BY IncrementInv, CountersUnchanged DEF counts

LEMMA FailOpenInv ==
  ASSUME LimiterInv, TypeOK', NEW c \in Calls, FailOpen(c)
  PROVE  LimiterInv'
<1>1. /\ stage[c] = "counting" /\ stage' = [stage EXCEPT ![c] = "routed"]
      /\ UNCHANGED <<inside, clock, request, readAt, admitted>>
      /\ Increment(KeyOf(c)) \/ UNCHANGED counts
  BY DEF FailOpen, vars
<1>2. c \in inside
  BY <1>1 DEF LimiterInv, GatewayTypeOK
<1>3. QED
  BY <1>1, <1>2, UnansweredInv, MoveInv

LEMMA GoAwayInv ==
  ASSUME LimiterInv, TypeOK', NEW c \in Calls, GoAway(c)
  PROVE  LimiterInv'
<1>1. /\ stage[c] = "counting" /\ stage' = [stage EXCEPT ![c] = "out"] /\ Out(c)
      /\ inside' = inside \ {c}
      /\ UNCHANGED <<clock, admitted>>
      /\ Increment(KeyOf(c)) \/ UNCHANGED counts
  BY DEF GoAway, Drop, Out
<1>2. QED
  BY <1>1, UnansweredInv, MoveInv

LEMMA AnswerInv ==
  ASSUME LimiterInv, TypeOK', NEW c \in Calls, Answer(c)
  PROVE  LimiterInv'
<1>1. /\ stage' = [stage EXCEPT ![c] = "out"] /\ Out(c)
      /\ inside' = inside \ {c}
      /\ UNCHANGED <<clock, counter, expires, restarts, admitted>>
  BY DEF Answer, Respond, RespondError, Out, limiterVars, counts
<1>2. QED
  BY <1>1, CountersUnchanged, MoveInv

LEMMA LimiterStep == LimiterInv /\ TypeOK' /\ [GatewayNext]_gatewayVars => LimiterInv'
<1> SUFFICES ASSUME LimiterInv, TypeOK', [GatewayNext]_gatewayVars
             PROVE  LimiterInv'
  OBVIOUS
<1>1. CASE Tick
  BY <1>1, TickInv
<1>2. CASE TimeOut \/ UNCHANGED gatewayVars
  <2>1. UNCHANGED <<clock, stage, request, readAt, counter, expires, restarts, admitted,
                    inside>>
    BY <1>2 DEF TimeOut, Elapse, gatewayVars, layerVars, limiterVars, counts, vars
  <2>2. Counters' /\ \A k \in Keys : Counted(k)'
    BY <2>1, CountersUnchanged
  <2>3. QED
    BY <2>1, <2>2 DEF LimiterInv, GatewayTypeOK, Counters, Waiting
<1>3. CASE \E c \in Calls : \/ \E r \in Requests : Arrive(c, r)
                            \/ RunScript(c) \/ FailOpen(c) \/ Answer(c) \/ GoAway(c)
  BY <1>3, ArriveInv, RunScriptInv, FailOpenInv, AnswerInv, GoAwayInv
<1>4. QED
  BY <1>1, <1>2, <1>3 DEF GatewayNext

LEMMA LimiterInvariant == GatewaySpec => []LimiterInv
<1>1. GatewayInit => LimiterInv
  BY LimiterInit
<1>2. IInv => TypeOK
  BY DEF IInv
<1>3. QED
  BY <1>1, <1>2, LimiterStep, GatewayUsesBreaker, Invariant, PTL DEF GatewaySpec, UsesBreaker

\* The limiter's bound, for any limits and window and however long the calls of Redis
\* take: INCR and EXPIRE of the script (rate_limit.rs:86-100) with a time to live of the
\* window and one second (rate_limit.rs:179) let no more than the limit through, and as
\* many again for each count that a call begins after that second.
THEOREM GatewayLimits == GatewaySpec => []WindowLimit
<1>1. ASSUME LimiterInv, NEW k \in Keys
      PROVE  admitted[k] <= Limit[k[1]] * (1 + restarts[k])
  BY <1>1, EarlierTyped DEF LimiterInv, Counted
<1>2. LimiterInv => WindowLimit
  BY <1>1 DEF WindowLimit
<1>3. QED
  BY <1>2, LimiterInvariant, PTL

\* Types, and with them the correspondence of calls to the breaker's requests.
THEOREM GatewayTypes == GatewaySpec => []GatewayTypeOK
<1>1. LimiterInv => GatewayTypeOK
  BY DEF LimiterInv
<1>2. QED
  BY <1>1, LimiterInvariant, PTL
=============================================================================
