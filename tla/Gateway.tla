------------------------------- MODULE Gateway -------------------------------
(***************************************************************************)
(* kova-gateway (services/kova-gateway/src): the middleware that router.rs *)
(* puts around its routes, outermost first: the circuit breaker            *)
(* (CircuitBreaker), authentication (middleware/auth.rs), the rate limiter *)
(* (middleware/rate_limit.rs), tracing, and the routes, which are stubs.   *)
(*                                                                         *)
(* A request runs from the breaker to the limiter's call of Redis without  *)
(* a pause.  The replicas of the gateway share the counters in Redis; the  *)
(* breaker is that of one replica.                                         *)
(***************************************************************************)
EXTENDS CircuitBreaker, Sequences

CONSTANTS
  Requests,  \* requests: path, the addresses in X-Forwarded-For, token or None
  KeySet,    \* JwtKeySet: the key of each kid
  Leeway,    \* seconds that jsonwebtoken grants an expired token
  Limit,     \* requests a minute in each tier: 10, 30, 100
  Window,    \* seconds to a minute
  MaxTime,   \* bound: seconds that pass
  MaxFaults  \* bound: calls of Redis that fail, with the drops

Tiers == {"auth", "payment", "standard"}

ASSUME LimitAssumption  == Limit \in [Tiers -> Nat]
ASSUME WindowAssumption == Window \in Nat \ {0}
ASSUME TimeAssumption   == MaxTime \in Nat

VARIABLES
  clock,    \* seconds
  stage,    \* where each call stands
  request,  \* its request
  readAt,   \* when it read the clock for the name of its counter
  counter,  \* the counters in Redis
  expires,  \* when each goes
  restarts, \* how often a late call has begun the count of each
  admitted, \* how many calls each let through
  faults

counts      == <<counter, expires, restarts>>
limiterVars == <<counts, admitted>>
layerVars   == <<clock, stage, request, readAt, limiterVars, faults>>
gatewayVars == <<vars, layerVars>>

-----------------------------------------------------------------------------
(* Authentication. *)

\* is_exempt: the health probe and all routes under /auth/.
IsExempt(r) == r.path \in {"/health", "/auth/otp", "/auth/register"}

\* JwtKeySet::get.
KeyFor(kid) ==
  LET name == IF kid = None THEN "default" ELSE kid
  IN  IF name \in DOMAIN KeySet THEN KeySet[name] ELSE None

\* validate_token, with AuthError for the kinds of error.
ValidateToken(t) ==
  CASE t.alg # "RS256"                              -> "WrongAlgorithm"
    [] t.alg = "RS256" /\ KeyFor(t.kid) = None       -> "UnknownKid"
    [] t.alg = "RS256" /\ KeyFor(t.kid) \notin {None, t.key} -> "Invalid"
    [] OTHER -> IF clock > t.exp + Leeway THEN "Expired"
                ELSE IF t.iss # "kova-auth" THEN "Invalid" ELSE "Ok"

\* A token whose subject is no user id (None) is Invalid as well.
Authenticates(r) ==
  r.token # None /\ ValidateToken(r.token) = "Ok" /\ r.token.sub # None

-----------------------------------------------------------------------------
(* The rate limiter. *)

\* tier_for.
TierOf(r) == CASE r.path = "/auth/otp" -> "auth"
               [] r.path = "/payments" -> "payment"
               [] OTHER                -> "standard"

\* extract_client_ip: requests without the header are one client.
ClientIp(r) == IF r.forwarded = <<>> THEN "unknown" ELSE Head(r.forwarded)

\* The user of a request that authentication has let through by its token, the
\* address of any other; OTP requests go by address in any case.
Identifier(r) == IF TierOf(r) = "auth" \/ IsExempt(r) THEN ClientIp(r)
                 ELSE r.token.sub

Keys == {<<TierOf(r), Identifier(r), m>> :
           r \in {q \in Requests : IsExempt(q) \/ q.token # None},
           m \in 0..(MaxTime \div Window)}

\* kova:ratelimit:<tier>:<identifier>:<window_minute>.
KeyOf(c) == <<TierOf(request[c]), Identifier(request[c]), readAt[c] \div Window>>

TtlOfWindow == Window

\* The time to live of a counter.
Ttl == Window + 1

\* The script is run for a key after the second that follows its minute: nothing
\* bounds the time that a call of Redis takes.
IsLate(k) == clock > Window * (k[3] + 1)

\* The Lua script: INCR, and EXPIRE on the first.  Counting ends one above the
\* limit, where the script's answer no longer changes.
Increment(k) ==
  /\ counter' = [counter EXCEPT ![k] = IF @ > Limit[k[1]] THEN @ ELSE @ + 1]
  /\ expires' = [expires EXCEPT ![k] = IF counter[k] = 0 THEN clock + Ttl ELSE @]
  /\ restarts' = [restarts EXCEPT ![k] = IF counter[k] = 0 /\ IsLate(k) THEN @ + 1 ELSE @]

-----------------------------------------------------------------------------

GatewayInit ==
  /\ Init
  /\ clock = 0
  /\ stage = [c \in Calls |-> "out"]
  /\ request = [c \in Calls |-> None]
  /\ readAt = [c \in Calls |-> 0]
  /\ counter = [k \in Keys |-> 0]
  /\ expires = [k \in Keys |-> 0]
  /\ restarts = [k \in Keys |-> 0]
  /\ admitted = [k \in Keys |-> 0]
  /\ faults = 0

\* Counters expire as time passes, whatever calls of Redis are under way.
Tick ==
  /\ clock < MaxTime
  /\ clock' = clock + 1
  /\ LET gone == {k \in Keys : expires[k] <= clock'}
     IN  /\ counter' = [k \in Keys |-> IF k \in gone THEN 0 ELSE counter[k]]
         /\ expires' = [k \in Keys |-> IF k \in gone THEN 0 ELSE expires[k]]
  /\ UNCHANGED <<vars, stage, request, readAt, restarts, admitted, faults>>

\* Half a minute in which nothing else is of interest.
TimeOut == Elapse /\ UNCHANGED layerVars

\* How far in a request gets at once: the health probe passes the limiter by.
Layer(r) == IF ~ IsExempt(r) /\ ~ Authenticates(r) THEN "unauthorized"
            ELSE IF r.path = "/health" THEN "routed" ELSE "counting"

\* The request passes the breaker, then authentication, and the limiter reads
\* the clock.
Arrive(c, r) ==
  /\ Admit(c) \/ Probe(c)
  /\ request' = [request EXCEPT ![c] = r]
  /\ stage' = [stage EXCEPT ![c] = Layer(r)]
  /\ readAt' = [readAt EXCEPT ![c] = IF stage'[c] = "counting" THEN clock ELSE 0]
  /\ UNCHANGED <<clock, limiterVars, faults>>

\* The script is run for c.
RunScript(c) ==
  /\ stage[c] = "counting"
  /\ Increment(KeyOf(c))
  /\ IF counter[KeyOf(c)] + 1 > Limit[TierOf(request[c])]
     THEN /\ stage' = [stage EXCEPT ![c] = "limited"]
          /\ UNCHANGED admitted
     ELSE /\ stage' = [stage EXCEPT ![c] = "routed"]
          /\ admitted' = [admitted EXCEPT ![KeyOf(c)] = @ + 1]
  /\ UNCHANGED <<vars, clock, request, readAt, faults>>

\* The call of Redis fails, whether or not the script was run: "fail open".
FailOpen(c) ==
  /\ stage[c] = "counting"
  /\ faults + drops < MaxFaults
  /\ faults' = faults + 1
  /\ stage' = [stage EXCEPT ![c] = "routed"]
  /\ \/ Increment(KeyOf(c))
     \/ UNCHANGED counts
  /\ UNCHANGED <<vars, clock, request, readAt, admitted>>

Out(c) ==
  /\ stage' = [stage EXCEPT ![c] = "out"]
  /\ request' = [request EXCEPT ![c] = None]
  /\ readAt' = [readAt EXCEPT ![c] = 0]

\* The stub of every route answers 501, and so a failure; the health probe
\* answers 200 and the fallback 404.
IsStub(r) == r.path \notin {"/health", "/nowhere"}

AnswerUncounted(c) ==
  /\ \/ /\ stage[c] \in {"unauthorized", "limited"}
        /\ inside' = inside \ {c}
        /\ UNCHANGED <<breakerVars, probe, streak, drops>>
     \/ stage[c] = "routed" /\ ~ IsStub(request[c]) /\ Respond(c)
     \/ stage[c] = "routed" /\ IsStub(request[c]) /\ RespondError(c)
  /\ Out(c)
  /\ UNCHANGED <<clock, limiterVars, faults>>

\* 401, 429 and the answers of the routes, on their way out past the breaker.
Answer(c) ==
  /\ \/ stage[c] \in {"unauthorized", "limited"} /\ Respond(c)
     \/ stage[c] = "routed" /\ ~ IsStub(request[c]) /\ Respond(c)
     \/ stage[c] = "routed" /\ IsStub(request[c]) /\ RespondError(c)
  /\ Out(c)
  /\ UNCHANGED <<clock, limiterVars, faults>>

\* The client goes away while the limiter waits for Redis, before or after the
\* script is run.
GoAway(c) ==
  /\ stage[c] = "counting"
  /\ Drop(c)
  /\ Out(c)
  /\ \/ Increment(KeyOf(c))
     \/ UNCHANGED counts
  /\ UNCHANGED <<clock, admitted, faults>>

GatewayNext ==
  \/ Tick \/ TimeOut
  \/ \E c \in Calls : \/ \E r \in Requests : Arrive(c, r)
                      \/ RunScript(c) \/ FailOpen(c) \/ Answer(c) \/ GoAway(c)

GatewaySpec == GatewayInit /\ [][GatewayNext]_gatewayVars

(***************************************************************************)
(* Redis answers, or its call fails, and no stage but "counting" waits for *)
(* anything.                                                               *)
(***************************************************************************)
GatewayFairSpec ==
  GatewaySpec /\ \A c \in Calls : WF_gatewayVars(RunScript(c) \/ FailOpen(c) \/ Answer(c))

-----------------------------------------------------------------------------
(* Properties. *)

\* The variables have their types, and a call is in a stage exactly while the
\* breaker has it inside.
GatewayTypeOK ==
  /\ TypeOK
  /\ clock \in 0..MaxTime
  /\ stage \in [Calls -> {"out", "unauthorized", "counting", "limited", "routed"}]
  /\ request \in [Calls -> Requests \cup {None}]
  /\ readAt \in [Calls -> 0..MaxTime]
  /\ counter \in [Keys -> Nat] /\ expires \in [Keys -> Nat]
  /\ restarts \in [Keys -> Nat] /\ admitted \in [Keys -> Nat]
  /\ \A c \in Calls : IF c \in inside THEN stage[c] # "out" /\ request[c] \in Requests
                                     ELSE stage[c] = "out"

\* "10 req/min per IP", "30 req/min per user_id" (rate_limit.rs:4-6), by the
\* minute of the clock.  The counter of a minute lives into the second that follows
\* it ("TTL is set to window_secs + 1", rate_limit.rs:11), so calls of Redis that come
\* in by then are counted together, and a counter lets no more than the limit of its
\* tier through; a call that takes longer may find the counter gone, and each that
\* begins it anew lets as many through again.
WindowLimit == \A k \in Keys : admitted[k] <= Limit[k[1]] * (1 + restarts[k])

\* The layers within use the breaker as its own module says: every request that
\* is let in comes out once, as a success or a failure.
UsesBreaker == Spec
=============================================================================
