--------------------------- MODULE SessionsProofs ---------------------------
(***************************************************************************)
(* Proofs about Sessions, for any number of sessions, users and concurrent *)
(* calls.  Rows only advance: a session that is issued keeps its owner,    *)
(* and one that is revoked stays so.  What a call has found out about them *)
(* in one statement therefore still holds in its next, whatever others do  *)
(* in between, and what follows from the calls that were over when it      *)
(* began is settled by the revocations that those have left behind.        *)
(***************************************************************************)
EXTENDS Sessions, TLAPS

\* Rows are added and revoked, and none changes hands.
Advance ==
  /\ Issued \subseteq Issued'
  /\ \A s \in Issued : owner'[s] = owner[s]
  /\ revoked \subseteq revoked'

\* A revoked session and a parent are sessions there are.
RowInv ==
  /\ revoked \subseteq Issued
  /\ FamilyIsSpent

\* All that the user had when c began is revoked.
Complete(c) == \A s \in known[c] : owner[s] = target[c].user => s \in revoked

Settles(c) == answer[c].kind \in {"pair", "reuse", "ok"}

\* What a call may count on, by where it is and by what it has answered.
CallInv(c) ==
  /\ known[c] \subseteq Issued
  /\ pc[c] \in {"rotating", "sweeping", "issuing", "deleting"} =>
       target[c].session \in OwnedBy(target[c].user) /\ target[c].user \in Users
  /\ pc[c] = "revoking" =>
       /\ target[c].session = None
       /\ target[c].user \in Users
       /\ todo[c] \subseteq OwnedBy(target[c].user)
  /\ pc[c] = "caching" =>
       /\ todo[c] \subseteq revoked
       /\ target[c].session = None => Complete(c)
  /\ pc[c] \in {"issuing", "caching"} \/ Settles(c) =>
       target[c].session = None \/ target[c].session \in revoked
  /\ pc[c] # "done" => answer[c].kind = "none"
  /\ answer[c].kind = "reuse" => Complete(c)
  /\ answer[c].kind = "ok" /\ target[c].session = None => Complete(c)

\* The calls that were over before d began leave it no token to rotate.
PairInv(c, d) ==
  c \in before[d] =>
    /\ pc[c] = "done"
    /\ /\ Settles(c)
       /\ target[c].session # None
       /\ target[c].session = target[d].session
       => pc[d] \notin {"rotating", "issuing"} /\ answer[d].kind # "pair"

IInv == /\ TypeOK
        /\ RowInv
        /\ cached \subseteq revoked
        /\ \A c \in Calls : CallInv(c)
        /\ \A c, d \in Calls : PairInv(c, d)

-----------------------------------------------------------------------------
LEMMA InitInv == Init => IInv
<1> SUFFICES ASSUME Init PROVE IInv
  OBVIOUS
<1>1. TypeOK
  BY NoneAssumption DEF Init, TypeOK, Issued, NoTarget, NoAnswer
<1>2. RowInv /\ cached \subseteq revoked
  BY DEF Init, RowInv, FamilyIsSpent, Issued
<1>3. \A c \in Calls : CallInv(c)
  BY DEF Init, CallInv, NoAnswer, Settles
<1>4. \A c, d \in Calls : PairInv(c, d)
  BY DEF Init, PairInv
<1>5. QED
  BY <1>1, <1>2, <1>3, <1>4 DEF IInv

\* The call c alone moves.
Moves(c) ==
  \A d \in Calls \ {c} : /\ pc'[d] = pc[d] /\ target'[d] = target[d]
                         /\ todo'[d] = todo[d] /\ known'[d] = known[d]
                         /\ before'[d] = before[d] /\ answer'[d] = answer[d]

\* Calls that do not move keep what they count on while rows advance.
LEMMA OthersKept ==
  ASSUME Advance, NEW d \in Calls, CallInv(d), known[d] \subseteq Issued,
         pc'[d] = pc[d], target'[d] = target[d], todo'[d] = todo[d],
         known'[d] = known[d], answer'[d] = answer[d]
  PROVE  CallInv(d)'
<1>1. Complete(d) => Complete(d)'
  BY DEF Complete, Advance
<1>2. \A u \in Users : OwnedBy(u) \subseteq OwnedBy(u)'
  BY DEF OwnedBy, Advance
<1>3. QED
  BY <1>1, <1>2 DEF CallInv, Advance, Settles

\* A step of the rows alone.
LEMMA RowStep ==
  ASSUME IInv, Advance, UNCHANGED callVars, TypeOK', RowInv', cached' \subseteq revoked'
  PROVE  IInv'
<1>1. ASSUME NEW d \in Calls
      PROVE  CallInv(d)'
  BY OthersKept DEF IInv, CallInv, callVars
<1>2. ASSUME NEW c \in Calls, NEW d \in Calls
      PROVE  PairInv(c, d)'
  BY DEF IInv, PairInv, callVars, Settles
<1>3. QED
  BY <1>1, <1>2 DEF IInv

\* A call begins: those that are over by now have revoked the session if they have
\* settled it.
LEMMA BeginStep ==
  ASSUME IInv, Advance, NEW c \in Calls, pc[c] = "idle", Moves(c),
         before'[c] = {d \in Calls : pc[d] = "done"},
         TypeOK', RowInv', cached' \subseteq revoked', CallInv(c)',
         pc'[c] \in {"rotating", "issuing"} \/ answer'[c].kind = "pair" =>
           target'[c].session \notin revoked
  PROVE  IInv'
<1>1. ASSUME NEW d \in Calls
      PROVE  CallInv(d)'
  BY OthersKept DEF IInv, CallInv, Moves
<1>2. ASSUME NEW d \in Calls, NEW e \in Calls
      PROVE  PairInv(d, e)'
  <2>1. CASE e = c
    <3>1. CASE d = c
      BY <2>1, <3>1 DEF PairInv
    <3>2. CASE d # c
      BY <2>1, <3>2 DEF IInv, PairInv, CallInv, Moves, Settles
    <3>3. QED
      BY <3>1, <3>2
  <2>2. CASE e # c
    BY <2>2 DEF IInv, PairInv, Moves, Settles
  <2>3. QED
    BY <2>1, <2>2
<1>3. QED
  BY <1>1, <1>2 DEF IInv

\* A call goes on, or ends: it stays about the session it was about.
LEMMA ProceedStep ==
  ASSUME IInv, Advance, NEW c \in Calls, pc[c] \notin {"idle", "done"}, Moves(c),
         UNCHANGED <<target, known, before>>,
         TypeOK', RowInv', cached' \subseteq revoked', CallInv(c)',
         pc'[c] \in {"rotating", "issuing"} \/ answer'[c].kind = "pair" =>
           pc[c] \in {"rotating", "issuing"}
  PROVE  IInv'
<1>1. ASSUME NEW d \in Calls
      PROVE  CallInv(d)'
  BY OthersKept DEF IInv, CallInv, Moves
<1>2. ASSUME NEW d \in Calls, NEW e \in Calls
      PROVE  PairInv(d, e)'
  <2>1. CASE d = c
    BY <2>1 DEF IInv, PairInv
  <2>2. CASE d # c /\ e = c
    BY <2>2 DEF IInv, PairInv, Moves, Settles
  <2>3. CASE d # c /\ e # c
    BY <2>3 DEF IInv, PairInv, Moves, Settles
  <2>4. QED
    BY <2>1, <2>2, <2>3
<1>3. QED
  BY <1>1, <1>2 DEF IInv

-----------------------------------------------------------------------------
(* The rows. *)

LEMMA Unissued ==
  ASSUME TypeOK, NEW s \in Sids
  PROVE  s \in Issued <=> age[s] # "unissued"
BY DEF Issued

\* The INSERT of a session: of a parent that is revoked and has its user.
LEMMA IssueRow ==
  ASSUME IInv, NEW s \in Sids, NEW u \in Users, NEW p, Issue(s, u, p),
         p # None => p \in revoked /\ owner[p] = u
  PROVE  /\ Advance /\ RowInv' /\ revoked' = revoked
         /\ age' \in [Sids -> {"unissued", "access", "refresh", "expired"}]
         /\ owner' \in [Sids -> Users \cup {None}]
         /\ \A r \in Sids : r \in Issued' <=> owner'[r] \in Users
         /\ parent' \in [Sids -> Sids \cup {None}]
<1> USE DEF IInv, TypeOK
<1>1. /\ age' = [age EXCEPT ![s] = "access"] /\ owner' = [owner EXCEPT ![s] = u]
      /\ parent' = [parent EXCEPT ![s] = p] /\ revoked' = revoked /\ s \notin Issued
  BY DEF Issue, Issued
<1>2. Issued' = Issued \cup {s}
  BY <1>1 DEF Issued
<1>3. p \in Sids \cup {None}
  OBVIOUS
<1>4. Advance
  BY <1>1, <1>2 DEF Advance, Issued
<1>5. RowInv'
  <2>1. revoked' \subseteq Issued'
    BY <1>1, <1>2 DEF RowInv
  <2>2. ASSUME NEW r \in Issued', parent'[r] # None
        PROVE  parent'[r] \in revoked' /\ owner'[r] = owner'[parent'[r]]
    <3>1. CASE r = s
      BY <1>1, <2>2, <3>1 DEF RowInv
    <3>2. CASE r # s
      <4>1. r \in Issued /\ parent'[r] = parent[r] /\ owner'[r] = owner[r]
        BY <1>1, <1>2, <2>2, <3>2
      <4>2. parent[r] \in revoked /\ parent[r] \in Issued /\ owner[r] = owner[parent[r]]
        BY <2>2, <4>1 DEF RowInv, FamilyIsSpent
      <4>3. QED
        BY <1>1, <4>1, <4>2
    <3>3. QED
      BY <3>1, <3>2
  <2>3. QED
    BY <2>1, <2>2 DEF RowInv, FamilyIsSpent
<1>6. QED
  BY <1>1, <1>2, <1>3, <1>4, <1>5, NoneAssumption DEF Issued

\* An UPDATE that revokes sessions there are.
LEMMA RevokeRows ==
  ASSUME IInv, NEW S \in SUBSET Issued, revoked' = revoked \cup S,
         UNCHANGED <<age, owner, parent>>
  PROVE  Advance /\ RowInv' /\ Issued' = Issued
BY DEF IInv, Advance, RowInv, FamilyIsSpent, Issued

LEMMA RowsUnchanged ==
  ASSUME IInv, UNCHANGED rowVars
  PROVE  Advance /\ RowInv' /\ Issued' = Issued
BY DEF IInv, Advance, RowInv, FamilyIsSpent, Issued, rowVars

LEMMA SignInInv ==
  ASSUME IInv, NEW s \in Sids, NEW u \in Users, SignIn(s, u)
  PROVE  IInv'
<1>1. Issue(s, u, None) /\ UNCHANGED callVars /\ cached' = cached
  BY DEF SignIn
<1>2. TypeOK'
  BY <1>1, IssueRow DEF IInv, TypeOK, callVars
<1>3. QED
  BY <1>1, <1>2, IssueRow, RowStep DEF IInv

LEMMA GrowOldInv ==
  ASSUME IInv, NEW s \in Sids, GrowOld(s)
  PROVE  IInv'
<1>1. /\ age[s] \in {"access", "refresh"}
      /\ age' = [age EXCEPT ![s] = IF age[s] = "access" THEN "refresh" ELSE "expired"]
      /\ UNCHANGED <<owner, parent, revoked, cached, callVars>>
  BY DEF GrowOld
<1>2. Issued' = Issued
  BY <1>1 DEF Issued, IInv, TypeOK
<1>3. TypeOK'
  BY <1>1, <1>2 DEF IInv, TypeOK, callVars
<1>4. Advance /\ RowInv'
  BY <1>1, <1>2 DEF IInv, Advance, RowInv, FamilyIsSpent
<1>5. QED
  BY <1>1, <1>3, <1>4, RowStep DEF IInv

LEMMA ForgetInv ==
  ASSUME IInv, NEW s \in Sids, Forget(s)
  PROVE  IInv'
<1>1. cached' \subseteq cached /\ UNCHANGED rowVars /\ UNCHANGED callVars
  BY DEF Forget
<1>2. Advance /\ RowInv' /\ Issued' = Issued
  BY <1>1, RowsUnchanged
<1>3. TypeOK'
  BY <1>1, <1>2 DEF IInv, TypeOK, callVars, rowVars
<1>4. QED
  BY <1>1, <1>2, <1>3, RowStep DEF IInv, rowVars

-----------------------------------------------------------------------------
(* The calls. *)

LEMMA PresentInv ==
  ASSUME IInv, NEW c \in Calls, NEW s \in Sids, Present(c, s)
  PROVE  IInv'
<1> USE DEF IInv
<1>1. /\ pc[c] = "idle" /\ s \in Issued /\ owner[s] \in Users
      /\ target' = [target EXCEPT ![c] = [session |-> s, user |-> owner[s]]]
      /\ known' = [known EXCEPT ![c] = Issued]
      /\ before' = [before EXCEPT ![c] = {d \in Calls : pc[d] = "done"}]
      /\ UNCHANGED <<rowVars, cached, todo>>
  BY DEF Present, Begin, TypeOK
<1>2. \/ /\ pc' = [pc EXCEPT ![c] = "done"]
         /\ answer' = [answer EXCEPT ![c] = [kind |-> "not_found"]]
      \/ pc' = [pc EXCEPT ![c] = "sweeping"] /\ answer' = answer
      \/ pc' = [pc EXCEPT ![c] = "rotating"] /\ answer' = answer /\ s \notin revoked
  BY DEF Present, Return, Goto
<1>3. Advance /\ RowInv' /\ Issued' = Issued
  BY <1>1, RowsUnchanged
<1>4. TypeOK'
  <2>1. /\ pc' \in [Calls -> {"idle", "rotating", "sweeping", "issuing", "deleting",
                              "revoking", "caching", "done"}]
        /\ answer' \in [Calls -> [kind : {"none", "not_found", "reuse", "ok", "error"}]
                                   \cup [kind : {"pair"}, session : Sids]]
    <3>1. \/ pc' = [pc EXCEPT ![c] = "done"] \/ pc' = [pc EXCEPT ![c] = "sweeping"]
          \/ pc' = [pc EXCEPT ![c] = "rotating"]
      BY <1>2
    <3>2. answer' = answer \/ answer' = [answer EXCEPT ![c] = [kind |-> "not_found"]]
      BY <1>2
    <3> DEFINE A == [kind : {"none", "not_found", "reuse", "ok", "error"}]
                      \cup [kind : {"pair"}, session : Sids]
    <3>3. [kind |-> "not_found"] \in A /\ answer \in [Calls -> A]
      BY DEF TypeOK
    <3> HIDE DEF A
    <3>4. answer' \in [Calls -> A]
      BY <3>2, <3>3
    <3>5. QED
      BY <3>1, <3>4 DEF TypeOK, A
  <2>2. /\ target' \in [Calls -> [session : Sids \cup {None}, user : Users \cup {None}]]
        /\ known' \in [Calls -> SUBSET Sids] /\ before' \in [Calls -> SUBSET Calls]
    BY <1>1 DEF TypeOK, Issued
  <2>3. QED
    BY <1>1, <1>3, <2>1, <2>2 DEF TypeOK, rowVars
<1>5. CallInv(c)'
  BY <1>1, <1>2, <1>3 DEF CallInv, TypeOK, OwnedBy, rowVars, Settles
<1>6. Moves(c)
  BY <1>1, <1>2 DEF Moves, TypeOK
<1>7. pc'[c] \in {"rotating", "issuing"} \/ answer'[c].kind = "pair" =>
        target'[c].session \notin revoked
  BY <1>1, <1>2 DEF CallInv, TypeOK
<1>8. before'[c] = {d \in Calls : pc[d] = "done"} /\ cached' \subseteq revoked'
  BY <1>1 DEF TypeOK, rowVars
<1>9. QED
  BY <1>1, <1>3, <1>4, <1>5, <1>6, <1>7, <1>8, BeginStep

LEMMA SweepInv ==
  ASSUME IInv, NEW c \in Calls,
         Sweep(c, [kind |-> "reuse"]) \/ Sweep(c, [kind |-> "error"])
  PROVE  IInv'
<1> USE DEF IInv
<1>1. /\ pc[c] = "sweeping" /\ pc' = [pc EXCEPT ![c] = "done"]
      /\ revoked' = revoked \cup OwnedBy(target[c].user)
      /\ UNCHANGED <<age, owner, parent, cached, target, todo, known, before>>
  BY DEF Sweep, Return, Goto
<1>2. \/ answer' = [answer EXCEPT ![c] = [kind |-> "reuse"]]
      \/ answer' = [answer EXCEPT ![c] = [kind |-> "error"]]
  BY DEF Sweep, Return
<1>3. OwnedBy(target[c].user) \subseteq Issued
  BY DEF OwnedBy
<1>4. Advance /\ RowInv' /\ Issued' = Issued
  BY <1>1, <1>3, RevokeRows
<1>5. TypeOK'
  <2> DEFINE A == [kind : {"none", "not_found", "reuse", "ok", "error"}]
                    \cup [kind : {"pair"}, session : Sids]
  <2>1. [kind |-> "reuse"] \in A /\ [kind |-> "error"] \in A /\ answer \in [Calls -> A]
    BY DEF TypeOK
  <2> HIDE DEF A
  <2>2. answer' \in [Calls -> A]
    BY <1>2, <2>1
  <2>3. QED
    BY <1>1, <1>3, <1>4, <2>2 DEF TypeOK, Issued, A
<1>6. target[c].session \in revoked' /\ Complete(c)'
  BY <1>1 DEF CallInv, Complete, OwnedBy
<1>7. CallInv(c)'
  BY <1>1, <1>2, <1>4, <1>6 DEF CallInv, TypeOK
<1>8. Moves(c)
  BY <1>1, <1>2 DEF Moves, TypeOK
<1>9. pc'[c] = "done" /\ answer'[c].kind # "pair" /\ cached' \subseteq revoked'
  BY <1>1, <1>2 DEF TypeOK
<1>10. QED
  BY <1>1, <1>4, <1>5, <1>7, <1>8, <1>9, ProceedStep

LEMMA SpendInv ==
  ASSUME IInv, NEW c \in Calls, Spend(c)
  PROVE  IInv'
<1> USE DEF IInv
<1>1. /\ pc[c] = "rotating" /\ pc' = [pc EXCEPT ![c] = "issuing"]
      /\ revoked' = revoked \cup {target[c].session}
      /\ UNCHANGED <<age, owner, parent, cached, target, todo, known, before, answer>>
  BY DEF Spend, Goto
<1>2. target[c].session \in OwnedBy(target[c].user) /\ target[c].session \in Issued
  BY <1>1 DEF CallInv, OwnedBy
<1>3. Advance /\ RowInv' /\ Issued' = Issued
  BY <1>1, <1>2, RevokeRows
<1>4. TypeOK'
  BY <1>1, <1>2, <1>3 DEF TypeOK, Issued
<1>5. CallInv(c)'
  BY <1>1, <1>2, <1>3 DEF CallInv, TypeOK, OwnedBy, Settles
<1>6. Moves(c)
  BY <1>1 DEF Moves, TypeOK
<1>7. QED
  BY <1>1, <1>3, <1>4, <1>5, <1>6, ProceedStep

\* The session that is issued takes its user from one that is revoked by now.
LEMMA IssueNextInv ==
  ASSUME IInv, NEW c \in Calls, NEW s \in Sids,
         \/ IssueNext(c, s, [kind |-> "pair", session |-> s])
         \/ IssueNext(c, s, [kind |-> "error"])
  PROVE  IInv'
<1> USE DEF IInv
<1>1. /\ pc[c] = "issuing" /\ pc' = [pc EXCEPT ![c] = "done"]
      /\ Issue(s, target[c].user, target[c].session)
      /\ UNCHANGED <<cached, target, todo, known, before>>
  BY DEF IssueNext, Return, Goto
<1>2. \/ answer' = [answer EXCEPT ![c] = [kind |-> "pair", session |-> s]]
      \/ answer' = [answer EXCEPT ![c] = [kind |-> "error"]]
  BY DEF IssueNext, Return
<1>3. /\ target[c].user \in Users
      /\ target[c].session # None =>
           target[c].session \in revoked /\ owner[target[c].session] = target[c].user
  BY <1>1 DEF CallInv, OwnedBy
<1>4. /\ Advance /\ RowInv' /\ revoked' = revoked
      /\ age' \in [Sids -> {"unissued", "access", "refresh", "expired"}]
      /\ owner' \in [Sids -> Users \cup {None}]
      /\ \A r \in Sids : r \in Issued' <=> owner'[r] \in Users
      /\ parent' \in [Sids -> Sids \cup {None}]
  BY <1>1, <1>3, IssueRow
<1>5. TypeOK'
  BY <1>1, <1>2, <1>4 DEF TypeOK
<1>6. CallInv(c)'
  BY <1>1, <1>2, <1>4 DEF CallInv, TypeOK, Advance, Settles
<1>7. Moves(c)
  BY <1>1, <1>2 DEF Moves, TypeOK
<1>8. QED
  BY <1>1, <1>4, <1>5, <1>6, <1>7, ProceedStep

\* The SELECT of session_delete.
LEMMA DeleteInv ==
  ASSUME IInv, NEW c \in Calls, NEW s \in Sids, NEW u \in Users, Delete(c, s, u)
  PROVE  IInv'
<1> USE DEF IInv
<1>1. /\ pc[c] = "idle"
      /\ target' = [target EXCEPT ![c] = [session |-> s, user |-> u]]
      /\ known' = [known EXCEPT ![c] = Issued]
      /\ before' = [before EXCEPT ![c] = {d \in Calls : pc[d] = "done"}]
      /\ UNCHANGED <<rowVars, cached, todo>>
  BY DEF Delete, Begin
<1>2. \/ /\ pc' = [pc EXCEPT ![c] = "done"]
         /\ answer' = [answer EXCEPT ![c] = [kind |-> "not_found"]]
      \/ pc' = [pc EXCEPT ![c] = "deleting"] /\ answer' = answer /\ s \in OwnedBy(u)
  BY DEF Delete, Return, Goto
<1>3. Advance /\ RowInv' /\ Issued' = Issued
  BY <1>1, RowsUnchanged
<1>4. TypeOK'
  <2>1. /\ target' \in [Calls -> [session : Sids \cup {None}, user : Users \cup {None}]]
        /\ known' \in [Calls -> SUBSET Sids] /\ before' \in [Calls -> SUBSET Calls]
    BY <1>1 DEF TypeOK, Issued
  <2>2. CASE /\ pc' = [pc EXCEPT ![c] = "done"]
             /\ answer' = [answer EXCEPT ![c] = [kind |-> "not_found"]]
    BY <1>1, <1>3, <2>1, <2>2 DEF TypeOK, rowVars
  <2>3. CASE pc' = [pc EXCEPT ![c] = "deleting"] /\ answer' = answer
    BY <1>1, <1>3, <2>1, <2>3 DEF TypeOK, rowVars
  <2>4. QED
    BY <1>2, <2>2, <2>3
<1>5. CallInv(c)'
  BY <1>1, <1>2, <1>3 DEF CallInv, TypeOK, OwnedBy, rowVars, Settles
<1>6. Moves(c)
  BY <1>1, <1>2 DEF Moves, TypeOK
<1>7. pc'[c] \notin {"rotating", "issuing"} /\ answer'[c].kind # "pair"
  BY <1>1, <1>2 DEF CallInv, TypeOK
<1>8. before'[c] = {d \in Calls : pc[d] = "done"} /\ cached' \subseteq revoked'
  BY <1>1 DEF TypeOK, rowVars
<1>9. QED
  BY <1>1, <1>3, <1>4, <1>5, <1>6, <1>7, <1>8, BeginStep

LEMMA RevokeAllInv ==
  ASSUME IInv, NEW c \in Calls, NEW u \in Users, RevokeAll(c, u)
  PROVE  IInv'
<1> USE DEF IInv
<1>1. /\ pc[c] = "idle" /\ pc' = [pc EXCEPT ![c] = "revoking"]
      /\ target' = [target EXCEPT ![c] = [session |-> None, user |-> u]]
      /\ known' = [known EXCEPT ![c] = Issued]
      /\ before' = [before EXCEPT ![c] = {d \in Calls : pc[d] = "done"}]
      /\ todo' = [todo EXCEPT ![c] = OwnedBy(u) \ revoked]
      /\ UNCHANGED <<rowVars, cached, answer>>
  BY DEF RevokeAll, Begin, Goto
<1>2. Advance /\ RowInv' /\ Issued' = Issued
  BY <1>1, RowsUnchanged
<1>3. TypeOK'
  BY <1>1, <1>2 DEF TypeOK, rowVars, OwnedBy, Issued
<1>4. CallInv(c)'
  BY <1>1, <1>2 DEF CallInv, TypeOK, OwnedBy, rowVars, Settles
<1>5. Moves(c)
  BY <1>1 DEF Moves, TypeOK
<1>6. pc'[c] = "revoking" /\ answer'[c].kind # "pair"
  BY <1>1 DEF CallInv, TypeOK
<1>7. before'[c] = {d \in Calls : pc[d] = "done"} /\ cached' \subseteq revoked'
  BY <1>1 DEF TypeOK, rowVars
<1>8. QED
  BY <1>1, <1>2, <1>3, <1>4, <1>5, <1>6, <1>7, BeginStep

LEMMA LogoutInv ==
  ASSUME IInv, NEW c \in Calls, NEW s \in Sids, Logout(c, s)
  PROVE  IInv'
<1> USE DEF IInv
<1>1. /\ pc[c] = "idle" /\ pc' = [pc EXCEPT ![c] = "caching"]
      /\ target' = [target EXCEPT ![c] = [session |-> s, user |-> owner[s]]]
      /\ known' = [known EXCEPT ![c] = Issued]
      /\ before' = [before EXCEPT ![c] = {d \in Calls : pc[d] = "done"}]
      /\ todo' = [todo EXCEPT ![c] = {s}]
      /\ revoked' = revoked \cup {s}
      /\ UNCHANGED <<age, owner, parent, cached, answer>>
  BY DEF Logout, Begin, Goto
<1>2. s \in Issued /\ owner[s] \in Users
  BY DEF Logout, Issued, TypeOK
<1>3. Advance /\ RowInv' /\ Issued' = Issued
  BY <1>1, <1>2, RevokeRows
<1>4. TypeOK'
  BY <1>1, <1>2, <1>3 DEF TypeOK, Issued
<1>5. CallInv(c)'
  BY <1>1, <1>2, <1>3, NoneAssumption DEF CallInv, TypeOK, Settles
<1>6. Moves(c)
  BY <1>1 DEF Moves, TypeOK
<1>7. pc'[c] = "caching" /\ answer'[c].kind # "pair"
  BY <1>1 DEF CallInv, TypeOK
<1>8. before'[c] = {d \in Calls : pc[d] = "done"} /\ cached' \subseteq revoked'
  BY <1>1 DEF TypeOK
<1>9. QED
  BY <1>1, <1>3, <1>4, <1>5, <1>6, <1>7, <1>8, BeginStep

\* The two UPDATEs.
LEMMA DeleteSessionInv ==
  ASSUME IInv, NEW c \in Calls, DeleteSession(c)
  PROVE  IInv'
<1> USE DEF IInv
<1>1. /\ pc[c] = "deleting" /\ pc' = [pc EXCEPT ![c] = "caching"]
      /\ revoked' = revoked \cup {target[c].session}
      /\ todo' = [todo EXCEPT ![c] = {target[c].session}]
      /\ UNCHANGED <<age, owner, parent, cached, target, known, before, answer>>
  BY DEF DeleteSession, Goto
<1>2. target[c].session \in Issued
  BY <1>1 DEF CallInv, OwnedBy
<1>3. Advance /\ RowInv' /\ Issued' = Issued
  BY <1>1, <1>2, RevokeRows
<1>4. TypeOK'
  BY <1>1, <1>2, <1>3 DEF TypeOK, Issued
<1>5. CallInv(c)'
  <2>1. target[c].session # None
    BY <1>2, NoneAssumption DEF Issued
  <2>2. QED
    BY <1>1, <1>3, <2>1 DEF CallInv, TypeOK, Settles
<1>6. Moves(c)
  BY <1>1 DEF Moves, TypeOK
<1>7. pc'[c] = "caching" /\ answer'[c].kind # "pair" /\ cached' \subseteq revoked'
  BY <1>1 DEF CallInv, TypeOK
<1>8. QED
  BY <1>1, <1>3, <1>4, <1>5, <1>6, <1>7, ProceedStep

LEMMA RevokeOwnedInv ==
  ASSUME IInv, NEW c \in Calls, RevokeOwned(c)
  PROVE  IInv'
<1> USE DEF IInv
<1>1. /\ pc[c] = "revoking" /\ pc' = [pc EXCEPT ![c] = "caching"]
      /\ revoked' = revoked \cup OwnedBy(target[c].user)
      /\ UNCHANGED <<age, owner, parent, cached, target, todo, known, before, answer>>
  BY DEF RevokeOwned, Goto
<1>2. OwnedBy(target[c].user) \subseteq Issued
  BY DEF OwnedBy
<1>3. Advance /\ RowInv' /\ Issued' = Issued
  BY <1>1, <1>2, RevokeRows
<1>4. TypeOK'
  BY <1>1, <1>2, <1>3 DEF TypeOK, Issued
<1>5. Complete(c)'
  BY <1>1 DEF CallInv, Complete, OwnedBy
<1>6. CallInv(c)'
  BY <1>1, <1>3, <1>5 DEF CallInv, TypeOK, Settles
<1>7. Moves(c)
  BY <1>1 DEF Moves, TypeOK
<1>8. pc'[c] = "caching" /\ answer'[c].kind # "pair" /\ cached' \subseteq revoked'
  BY <1>1 DEF CallInv, TypeOK
<1>9. QED
  BY <1>1, <1>3, <1>4, <1>6, <1>7, <1>8, ProceedStep

\* Redis is told of a session that the database has revoked.
LEMMA CacheInv ==
  ASSUME IInv, NEW c \in Calls, NEW s \in Sids, Cache(c, s)
  PROVE  IInv'
<1> USE DEF IInv
<1>1. /\ pc[c] = "caching" /\ s \in todo[c]
      /\ todo' = [todo EXCEPT ![c] = @ \ {s}]
      /\ cached' \in {cached, cached \cup {s}}
      /\ UNCHANGED <<rowVars, pc, target, known, before, answer>>
  BY DEF Cache
<1>2. Advance /\ RowInv' /\ Issued' = Issued
  BY <1>1, RowsUnchanged
<1>3. TypeOK'
  BY <1>1, <1>2 DEF TypeOK, rowVars
<1>4. s \in revoked /\ cached' \subseteq revoked'
  BY <1>1 DEF CallInv, rowVars
<1>5. Complete(c) => Complete(c)'
  BY <1>1 DEF Complete, rowVars
<1>6. CallInv(c)'
  BY <1>1, <1>2, <1>5 DEF CallInv, TypeOK, Settles, rowVars
<1>7. Moves(c)
  BY <1>1 DEF Moves, TypeOK
<1>8. pc'[c] = "caching" /\ answer'[c].kind # "pair"
  BY <1>1 DEF CallInv, TypeOK
<1>9. QED
  BY <1>1, <1>2, <1>3, <1>4, <1>6, <1>7, <1>8, ProceedStep

\* Finish and Fail: the answer.
LEMMA EndInv ==
  ASSUME IInv, NEW c \in Calls, Finish(c) \/ Fail(c)
  PROVE  IInv'
<1> USE DEF IInv
<1>1. /\ pc[c] \notin {"idle", "done"} /\ pc' = [pc EXCEPT ![c] = "done"]
      /\ UNCHANGED <<rowVars, cached, target, todo, known, before>>
  BY DEF Finish, Fail, Return, Goto
<1>2. \/ pc[c] = "caching" /\ answer' = [answer EXCEPT ![c] = [kind |-> "ok"]]
      \/ answer' = [answer EXCEPT ![c] = [kind |-> "error"]]
  BY DEF Finish, Fail, Return
<1>3. Advance /\ RowInv' /\ Issued' = Issued
  BY <1>1, RowsUnchanged
<1>4. TypeOK'
  <2>1. CASE answer' = [answer EXCEPT ![c] = [kind |-> "ok"]]
    BY <1>1, <1>3, <2>1 DEF TypeOK, rowVars
  <2>2. CASE answer' = [answer EXCEPT ![c] = [kind |-> "error"]]
    BY <1>1, <1>3, <2>2 DEF TypeOK, rowVars
  <2>3. QED
    BY <1>2, <2>1, <2>2
<1>5. Complete(c) => Complete(c)'
  BY <1>1 DEF Complete, rowVars
<1>6. CallInv(c)'
  BY <1>1, <1>2, <1>3, <1>5 DEF CallInv, TypeOK, Settles, rowVars
<1>7. Moves(c)
  BY <1>1, <1>2 DEF Moves, TypeOK
<1>8. pc'[c] = "done" /\ answer'[c].kind # "pair" /\ cached' \subseteq revoked'
  BY <1>1, <1>2 DEF TypeOK, rowVars
<1>9. QED
  BY <1>1, <1>3, <1>4, <1>6, <1>7, <1>8, ProceedStep

LEMMA StutterInv ==
  ASSUME IInv, UNCHANGED vars
  PROVE  IInv'
<1>1. TypeOK' /\ RowInv' /\ cached' \subseteq revoked' /\ Advance
  BY DEF IInv, vars, TypeOK, RowInv, FamilyIsSpent, Issued, Advance
<1>2. QED
  BY <1>1, RowStep DEF vars, callVars

-----------------------------------------------------------------------------
LEMMA NextInv == IInv /\ [Next]_vars => IInv'
<1> SUFFICES ASSUME IInv, [Next]_vars PROVE IInv'
  OBVIOUS
<1>1. ASSUME NEW s \in Sids, GrowOld(s) \/ Forget(s) \/ \E u \in Users : SignIn(s, u)
      PROVE  IInv'
  BY <1>1, GrowOldInv, ForgetInv, SignInInv
<1>2. ASSUME NEW c \in Calls, Rotate(c)
      PROVE  IInv'
  BY <1>2, PresentInv, SweepInv, SpendInv, IssueNextInv DEF Rotate
<1>3. ASSUME NEW c \in Calls, Revoke(c)
      PROVE  IInv'
  BY <1>3, RevokeAllInv, DeleteInv, LogoutInv, CacheInv, DeleteSessionInv, RevokeOwnedInv,
     EndInv DEF Revoke
<1>4. ASSUME NEW c \in Calls, Fail(c)
      PROVE  IInv'
  BY <1>4, EndInv
<1>5. CASE UNCHANGED vars
  BY <1>5, StutterInv
<1>6. QED
  BY <1>1, <1>2, <1>3, <1>4, <1>5 DEF Next

LEMMA Invariant == Spec => []IInv
BY InitInv, NextInv, PTL DEF Spec

\* The state of any number of sessions and calls is well typed; in particular a
\* session has a user once it is issued.
THEOREM SessionsTypeCorrect == Spec => []TypeOK
<1>1. IInv => TypeOK
  BY DEF IInv
<1>2. QED
  BY <1>1, Invariant, PTL

\* A session comes from the rotation of a revoked one of the same user, however
\* rotations, revocations and failures meet (tokens.rs:171-188).
THEOREM FamiliesSpent == Spec => []FamilyIsSpent
<1>1. IInv => FamilyIsSpent
  BY DEF IInv, RowInv
<1>2. QED
  BY <1>1, Invariant, PTL

\* A token that was rotated, found to be reused or logged out by a call that has
\* answered gives no pair to any call that begins later (handlers/token.rs:17).
THEOREM SpentRefused == Spec => []SpentTokenRefused
<1>1. IInv => SpentTokenRefused
  BY DEF IInv, PairInv, SpentTokenRefused, Settles
<1>2. QED
  BY <1>1, Invariant, PTL

\* A call that answers that a family, or all sessions, are revoked has missed none
\* that there was when it began (tokens.rs:158, handlers/device.rs:109).
THEOREM SweepsComplete == Spec => []SweepIsComplete
<1>1. IInv => SweepIsComplete
  BY DEF IInv, CallInv, SweepIsComplete, Complete
<1>2. QED
  BY <1>1, Invariant, PTL

\* Redis lists no session that the database has not revoked (handlers/device.rs:68-119).
THEOREM CacheFollowsDatabase == Spec => []CachedIsRevoked
<1>1. IInv => CachedIsRevoked
  BY DEF IInv, CachedIsRevoked
<1>2. QED
  BY <1>1, Invariant, PTL
=============================================================================
