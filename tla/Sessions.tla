------------------------------ MODULE Sessions ------------------------------
(***************************************************************************)
(* The sessions of kova-auth: issuing and rotating refresh tokens          *)
(* (services/kova-auth/src/tokens.rs) and revoking sessions                *)
(* (src/handlers/device.rs), by any number of concurrent requests over one *)
(* MySQL database and one Redis.                                           *)
(*                                                                         *)
(* A session is one row of the table sessions; its refresh token, found    *)
(* by token_selector, and its access token, named by access_token_jti, are *)
(* named by it.  Every statement is a transaction of its own.              *)
(***************************************************************************)
EXTENDS Integers

CONSTANTS
  Sids,    \* sessions that may come to be
  Users,
  Calls,   \* requests to the service
  None

ASSUME NoneAssumption == None \notin Sids \cup Users

VARIABLES
  age,      \* of a session: both of its tokens run, only refresh, neither
  owner,    \* its user_id
  parent,   \* the session it was rotated from, if any
  revoked,  \* sessions with a revoked_at
  cached,   \* sessions whose jti has a key kova:revoked:jti: in Redis
  pc,       \* where each call is
  target,   \* the session, and the user, that the call is about
  todo,     \* the sessions whose jti it has still to cache
  known,    \* the sessions there were, and the calls that were over, when
  before,   \*   the call began
  answer    \* what it has returned

rowVars  == <<age, owner, parent, revoked>>
callVars == <<pc, target, todo, known, before, answer>>
vars     == <<age, owner, parent, revoked, cached, pc, target, todo, known, before, answer>>

NoTarget == [session |-> None, user |-> None]
NoAnswer == [kind |-> "none"]

Issued == {s \in Sids : age[s] # "unissued"}
OwnedBy(u) == {s \in Issued : owner[s] = u}

\* The bearer of an unexpired access token; AuthClaims asks nothing else.
SignedIn(u) == \E s \in OwnedBy(u) : age[s] = "access"

Init ==
  /\ age = [s \in Sids |-> "unissued"]
  /\ owner = [s \in Sids |-> None]
  /\ parent = [s \in Sids |-> None]
  /\ revoked = {}
  /\ cached = {}
  /\ pc = [c \in Calls |-> "idle"]
  /\ target = [c \in Calls |-> NoTarget]
  /\ todo = [c \in Calls |-> {}]
  /\ known = [c \in Calls |-> {}]
  /\ before = [c \in Calls |-> {}]
  /\ answer = [c \in Calls |-> NoAnswer]

\* issue_token_pair: the row of a new session.
Issue(s, u, p) ==
  /\ age[s] = "unissued"
  /\ age' = [age EXCEPT ![s] = "access"]
  /\ owner' = [owner EXCEPT ![s] = u]
  /\ parent' = [parent EXCEPT ![s] = p]
  /\ UNCHANGED revoked

\* otp_verify or biometric_verify succeeds.
SignIn(s, u) ==
  /\ Issue(s, u, None)
  /\ UNCHANGED <<cached, callVars>>

\* The access token lives 15 minutes, the refresh token 30 days.
GrowOld(s) ==
  /\ age[s] \in {"access", "refresh"}
  /\ age' = [age EXCEPT ![s] = IF @ = "access" THEN "refresh" ELSE "expired"]
  /\ UNCHANGED <<owner, parent, revoked, cached, callVars>>

Begin(c, s, u) ==
  /\ pc[c] = "idle"
  /\ target' = [target EXCEPT ![c] = [session |-> s, user |-> u]]
  /\ known' = [known EXCEPT ![c] = Issued]
  /\ before' = [before EXCEPT ![c] = {d \in Calls : pc[d] = "done"}]

Goto(c, l)   == pc' = [pc EXCEPT ![c] = l]
Return(c, a) == Goto(c, "done") /\ answer' = [answer EXCEPT ![c] = a]

-----------------------------------------------------------------------------
(* rotate_refresh_token *)

PresentIgnoringRevocation(c, s) ==
  /\ Begin(c, s, owner[s])
  /\ s \in Issued
  /\ IF age[s] = "expired"
     THEN Return(c, [kind |-> "not_found"])
     ELSE Goto(c, "rotating") /\ UNCHANGED answer
  /\ UNCHANGED <<rowVars, cached, todo>>

\* The SELECT by selector, with revoked_at as it is now.
Present(c, s) ==
  /\ Begin(c, s, owner[s])
  /\ s \in Issued
  /\ IF age[s] = "expired"
     THEN Return(c, [kind |-> "not_found"])
     ELSE /\ Goto(c, IF s \in revoked THEN "sweeping" ELSE "rotating")
          /\ UNCHANGED answer
  /\ UNCHANGED <<rowVars, cached, todo>>

SweepTarget(c, a) ==
  /\ pc[c] = "sweeping"
  /\ revoked' = revoked \cup {target[c].session}
  /\ Return(c, a)
  /\ UNCHANGED <<age, owner, parent, cached, target, todo, known, before>>

\* The token was revoked: the whole family is.
Sweep(c, a) ==
  /\ pc[c] = "sweeping"
  /\ revoked' = revoked \cup OwnedBy(target[c].user)
  /\ Return(c, a)
  /\ UNCHANGED <<age, owner, parent, cached, target, todo, known, before>>

SpendLater(c) ==
  /\ pc[c] = "rotating"
  /\ Goto(c, "issuing")
  /\ UNCHANGED <<rowVars, cached, target, todo, known, before, answer>>

\* The old session is revoked, whatever its revoked_at has become meanwhile.
Spend(c) ==
  /\ pc[c] = "rotating"
  /\ Goto(c, "issuing")
  /\ revoked' = revoked \cup {target[c].session}
  /\ UNCHANGED <<age, owner, parent, cached, target, todo, known, before, answer>>

\* The new one is issued.
IssueNext(c, s, a) ==
  /\ pc[c] = "issuing"
  /\ Issue(s, target[c].user, target[c].session)
  /\ Return(c, a)
  /\ UNCHANGED <<cached, target, todo, known, before>>

-----------------------------------------------------------------------------
(* session_delete, sessions_revoke_all and logout *)

\* The SELECT of session_delete: a session of the caller's, not revoked.
Delete(c, s, u) ==
  /\ SignedIn(u)
  /\ Begin(c, s, u)
  /\ IF s \in OwnedBy(u) \ revoked
     THEN Goto(c, "deleting") /\ UNCHANGED answer
     ELSE Return(c, [kind |-> "not_found"])
  /\ UNCHANGED <<rowVars, cached, todo>>

\* Its UPDATE.
DeleteSession(c) ==
  /\ pc[c] = "deleting"
  /\ Goto(c, "caching")
  /\ revoked' = revoked \cup {target[c].session}
  /\ todo' = [todo EXCEPT ![c] = {target[c].session}]
  /\ UNCHANGED <<age, owner, parent, cached, target, known, before, answer>>

\* sessions_revoke_all collects the jtis of the live sessions.
RevokeAll(c, u) ==
  /\ SignedIn(u)
  /\ Begin(c, None, u)
  /\ Goto(c, "revoking")
  /\ todo' = [todo EXCEPT ![c] = OwnedBy(u) \ revoked]
  /\ UNCHANGED <<rowVars, cached, answer>>

RevokeCollected(c) ==
  /\ pc[c] = "revoking"
  /\ Goto(c, "caching")
  /\ UNCHANGED <<rowVars, cached, target, todo, known, before, answer>>

\* Its UPDATE revokes those that are live by now.
RevokeOwned(c) ==
  /\ pc[c] = "revoking"
  /\ Goto(c, "caching")
  /\ revoked' = revoked \cup OwnedBy(target[c].user)
  /\ UNCHANGED <<age, owner, parent, cached, target, todo, known, before, answer>>

\* logout revokes the session whose access token it was called with.
Logout(c, s) ==
  /\ age[s] = "access"
  /\ Begin(c, s, owner[s])
  /\ Goto(c, "caching")
  /\ revoked' = revoked \cup {s}
  /\ todo' = [todo EXCEPT ![c] = {s}]
  /\ UNCHANGED <<age, owner, parent, cached, answer>>

\* SET EX of one jti; an error of Redis is ignored.
Cache(c, s) ==
  /\ pc[c] = "caching"
  /\ s \in todo[c]
  /\ todo' = [todo EXCEPT ![c] = @ \ {s}]
  /\ cached' \in {cached, cached \cup {s}}
  /\ UNCHANGED <<rowVars, pc, target, known, before, answer>>

Finish(c) ==
  /\ pc[c] = "caching"
  /\ todo[c] = {}
  /\ Return(c, [kind |-> "ok"])
  /\ UNCHANGED <<rowVars, cached, target, todo, known, before>>

\* The key has a TTL of 900 seconds, as long as the access token lives.
Forget(s) ==
  /\ age[s] # "access"
  /\ s \in cached
  /\ cached' = cached \ {s}
  /\ UNCHANGED <<rowVars, callVars>>

\* A statement fails, or the service or its caller goes away between two.
Fail(c) ==
  /\ pc[c] \notin {"idle", "done"}
  /\ Return(c, [kind |-> "error"])
  /\ UNCHANGED <<rowVars, cached, target, todo, known, before>>

-----------------------------------------------------------------------------
Rotate(c) ==
  \/ \E s \in Sids : Present(c, s)
  \/ Sweep(c, [kind |-> "reuse"]) \/ Sweep(c, [kind |-> "error"])
  \/ Spend(c)
  \/ \E s \in Sids : \/ IssueNext(c, s, [kind |-> "pair", session |-> s])
                     \/ IssueNext(c, s, [kind |-> "error"])

Revoke(c) ==
  \/ \E u \in Users : RevokeAll(c, u) \/ \E s \in Sids : Delete(c, s, u)
  \/ \E s \in Sids : Logout(c, s) \/ Cache(c, s)
  \/ DeleteSession(c) \/ RevokeOwned(c) \/ Finish(c)

Next ==
  \/ \E s \in Sids : GrowOld(s) \/ Forget(s) \/ \E u \in Users : SignIn(s, u)
  \/ \E c \in Calls : Rotate(c) \/ Revoke(c) \/ Fail(c)

Spec == Init /\ [][Next]_vars

-----------------------------------------------------------------------------
(* Properties. *)

\* The variables have their types, and every session has a user.
TypeOK ==
  /\ age \in [Sids -> {"unissued", "access", "refresh", "expired"}]
  /\ owner \in [Sids -> Users \cup {None}]
  /\ \A s \in Sids : s \in Issued <=> owner[s] \in Users
  /\ parent \in [Sids -> Sids \cup {None}]
  /\ revoked \subseteq Sids
  /\ cached \subseteq Sids
  /\ pc \in [Calls -> {"idle", "rotating", "sweeping", "issuing", "deleting",
                       "revoking", "caching", "done"}]
  /\ target \in [Calls -> [session : Sids \cup {None}, user : Users \cup {None}]]
  /\ todo \in [Calls -> SUBSET Sids]
  /\ known \in [Calls -> SUBSET Sids]
  /\ before \in [Calls -> SUBSET Calls]
  /\ answer \in [Calls -> [kind : {"none", "not_found", "reuse", "ok", "error"}]
                            \cup [kind : {"pair"}, session : Sids]]

\* A session descends from sessions of its own user, all of them revoked.
FamilyIsSpent ==
  \A s \in Issued : parent[s] # None =>
    /\ parent[s] \in revoked
    /\ owner[s] = owner[parent[s]]

\* "Reuse of a previously-rotated token" (handlers/token.rs:17): a token whose
\* rotation was answered, or whose session was ended by a call that answered
\* ok, never yields a pair to a call that begins after that.
SpentTokenRefused ==
  \A c, d \in Calls :
    /\ c \in before[d]
    /\ target[c].session # None
    /\ target[c].session = target[d].session
    /\ answer[c].kind \in {"pair", "reuse", "ok"}
    => answer[d].kind # "pair"

\* A call that answers REFRESH_TOKEN_REUSE, or that all sessions are revoked,
\* has revoked every session that its user had when it began.
SweepIsComplete ==
  \A c \in Calls :
    \/ answer[c].kind = "reuse"
    \/ answer[c].kind = "ok" /\ target[c].session = None
    => \A s \in known[c] : owner[s] = target[c].user => s \in revoked

\* The revocation list of access tokens never runs ahead of the database: a jti
\* is in Redis only if its session is revoked, whatever failed in between.
CachedIsRevoked == cached \subseteq revoked

\* "old token is invalidated atomically in the same transaction that creates
\* the new one" (TASKS.md:700): when no call is at work on a session, a caller
\* that was given its successor was given the only one.  Two refreshes at once
\* break it.
RotationIsAtomic ==
  \A c \in Calls :
    /\ answer[c].kind = "pair"
    /\ \A d \in Calls : target[d].session = target[c].session => pc[d] = "done"
    => \A s \in Issued : parent[s] = target[c].session => s = answer[c].session
=============================================================================
