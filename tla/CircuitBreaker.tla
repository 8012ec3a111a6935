--------------------------- MODULE CircuitBreaker ---------------------------
(***************************************************************************)
(* The circuit breaker of kova-gateway                                     *)
(* (services/kova-gateway/src/middleware/circuit_breaker.rs), which wraps  *)
(* all routes, auth and rate limiting included.  A request takes the mutex *)
(* twice: in allow_request before it goes inside and in on_success or      *)
(* on_failure once it has its response; other requests come in between.    *)
(***************************************************************************)
EXTENDS Integers

CONSTANTS
  Calls,      \* connections, each with one request at a time
  Threshold,  \* FAILURE_THRESHOLD
  MaxDrops,   \* bound: requests whose future is dropped before it answers
  None

ASSUME ThresholdAssumption == Threshold \in Nat \ {0}
ASSUME DropAssumption      == MaxDrops \in Nat
ASSUME NoneAssumption      == None \notin Calls

VARIABLES
  mode,      \* the variant of State
  failures,  \* consecutive_failures of Closed
  timedOut,  \* whether opened_at of Open is 30 seconds ago
  inside,    \* the requests that were let in and have no response yet
  probe,     \* the request that made the breaker half-open
  streak,    \* failures among the responses since the last other response
  drops

breakerVars == <<mode, failures, timedOut>>
vars == <<mode, failures, timedOut, inside, probe, streak, drops>>

Init ==
  /\ mode = "Closed"
  /\ failures = 0
  /\ timedOut = FALSE
  /\ inside = {}
  /\ probe = None
  /\ streak = 0
  /\ drops = 0

\* opened_at.elapsed() reaches OPEN_DURATION.
Elapse ==
  /\ mode = "Open"
  /\ ~ timedOut
  /\ timedOut' = TRUE
  /\ UNCHANGED <<mode, failures, inside, probe, streak, drops>>

\* allow_request while Closed.
Admit(c) ==
  /\ c \notin inside
  /\ mode = "Closed"
  /\ inside' = inside \cup {c}
  /\ UNCHANGED <<breakerVars, probe, streak, drops>>

\* allow_request while Open for 30 seconds; any other request is refused with
\* 503, and changes nothing.
Probe(c) ==
  /\ c \notin inside
  /\ mode = "Open" /\ timedOut
  /\ mode' = "HalfOpen"
  /\ timedOut' = FALSE
  /\ probe' = c
  /\ inside' = inside \cup {c}
  /\ UNCHANGED <<failures, streak, drops>>

\* on_success closes the breaker from whatever state.
OnSuccess ==
  /\ mode' = "Closed"
  /\ failures' = 0
  /\ timedOut' = FALSE

OpenBreaker ==
  /\ mode' = "Open"
  /\ failures' = 0
  /\ timedOut' = FALSE

OnFailureOpeningEarly ==
  \/ /\ mode = "Closed"
     /\ IF failures + 2 >= Threshold
        THEN OpenBreaker
        ELSE failures' = failures + 1 /\ UNCHANGED <<mode, timedOut>>
  \/ mode = "HalfOpen" /\ OpenBreaker
  \/ mode = "Open" /\ UNCHANGED breakerVars

OnFailureInHalfOpenIgnored ==
  \/ /\ mode = "Closed"
     /\ IF failures + 1 >= Threshold
        THEN OpenBreaker
        ELSE failures' = failures + 1 /\ UNCHANGED <<mode, timedOut>>
  \/ mode # "Closed" /\ UNCHANGED breakerVars

OnFailure ==
  \/ /\ mode = "Closed"
     /\ IF failures + 1 >= Threshold
        THEN OpenBreaker
        ELSE failures' = failures + 1 /\ UNCHANGED <<mode, timedOut>>
  \/ mode = "HalfOpen" /\ OpenBreaker
  \/ mode = "Open" /\ UNCHANGED breakerVars

ProbeEnds == probe' = IF mode' = "HalfOpen" THEN probe ELSE None

\* A response below 500, those of auth and the rate limiter included.
Respond(c) ==
  /\ c \in inside
  /\ inside' = inside \ {c}
  /\ OnSuccess
  /\ ProbeEnds
  /\ streak' = 0
  /\ UNCHANGED drops

\* A response of 500 and up.
RespondError(c) ==
  /\ c \in inside
  /\ inside' = inside \ {c}
  /\ OnFailure
  /\ ProbeEnds
  /\ streak' = IF streak < Threshold THEN streak + 1 ELSE streak
  /\ UNCHANGED drops

\* The client goes away: the future is dropped at its await, and neither
\* on_success nor on_failure runs.
Drop(c) ==
  /\ c \in inside
  /\ drops < MaxDrops
  /\ drops' = drops + 1
  /\ inside' = inside \ {c}
  /\ UNCHANGED <<breakerVars, probe, streak>>

Leave(c) == Respond(c) \/ RespondError(c) \/ Drop(c)

Next == Elapse \/ \E c \in Calls : Admit(c) \/ Probe(c) \/ Leave(c)

Spec == Init /\ [][Next]_vars

(***************************************************************************)
(* A request that is inside comes out: with its response, or dropped.      *)
(***************************************************************************)
Fairness == \A c \in Calls : WF_vars(Leave(c))

FairSpec == Spec /\ Fairness

-----------------------------------------------------------------------------
(* Properties. *)

\* The variables have their types; Closed never counts up to the threshold, at
\* which on_failure opens the breaker.
TypeOK ==
  /\ mode \in {"Closed", "Open", "HalfOpen"}
  /\ failures \in 0..(Threshold - 1)
  /\ timedOut \in BOOLEAN
  /\ inside \subseteq Calls
  /\ probe \in Calls \cup {None}
  /\ streak \in 0..Threshold
  /\ drops \in 0..MaxDrops

\* "tracks consecutive failures" (circuit_breaker.rs:4): what Closed counts is
\* the failures since the last response of another kind, late responses of
\* requests from before an opening included.
CountsConsecutive == mode = "Closed" => failures = streak

\* "allows exactly one probe request" (circuit_breaker.rs:6): a half-open
\* breaker has let one request in, and while no request is dropped that one is
\* still to answer; it lets no other in.
OneProbe ==
  /\ mode = "HalfOpen" <=> probe # None
  /\ mode = "HalfOpen" /\ drops = 0 => probe \in inside

\* No request gets in beside the probe, or while the breaker is freshly open.
FastFails ==
  [][mode = "HalfOpen" \/ (mode = "Open" /\ ~ timedOut) => inside' \subseteq inside]_vars

\* The breaker opens only on the last of Threshold failures in a row, or on a
\* failure while half-open; what it has been through before does not count.
OpensOnThreshold ==
  [][mode # "Open" /\ mode' = "Open" => mode = "HalfOpen" \/ streak' = Threshold]_vars

\* A half-open breaker comes to a decision as long as no request is dropped.
ProbeDecides == mode = "HalfOpen" /\ drops = 0 ~> mode # "HalfOpen" \/ drops > 0

\* "Success -> Closed; failure -> Open" (circuit_breaker.rs:7): the half-open
\* state ends.  A probe that is dropped breaks it.
HalfOpenEnds == mode = "HalfOpen" ~> mode # "HalfOpen"
=============================================================================
