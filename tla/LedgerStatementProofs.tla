----------------------- MODULE LedgerStatementProofs -----------------------
(***************************************************************************)
(* Proofs about LedgerStatement, for any number of entries, any accounts   *)
(* and any limits.  A page is the top of a top: the rows within a limit,   *)
(* of the rows within one more.  So the page is everything there is, or    *)
(* its cursor points at its oldest row and what is left out is older       *)
(* (LastPage, FullPage).  Then the cursor divides what the reader has from *)
(* what it is owed, and goes on doing so while entries are committed on    *)
(* either side of it.                                                      *)
(*                                                                         *)
(* That a set of rows has an oldest one is taken from the well-founded     *)
(* order of the numbers, by counting the newer rows.                       *)
(***************************************************************************)
EXTENDS LedgerStatement, FiniteSetTheorems, WellFoundedInduction, TLAPS

-----------------------------------------------------------------------------
(* The order of the rows, by how many rows are newer than a row. *)

\* A set of natural numbers has a smallest one.
LEMMA SmallestInNat ==
  ASSUME NEW T \in SUBSET Nat, T # {}
  PROVE  \E x \in T : \A y \in T : x <= y
<1> DEFINE Below == {p \in Nat \X Nat : p[1] < p[2]}
<1>1. IsWellFoundedOn(Below, Nat)
  BY NatLessThanWellFounded, Zenon DEF OpToRel
<1>2. \E x \in T : \A y \in T : ~ (<<y, x>> \in Below)
  <2> HIDE DEF Below
  <2> QED BY <1>1, WFMin
<1>3. PICK x \in T : \A y \in T : ~ (<<y, x>> \in Below)
  BY <1>2
<1>4. ASSUME NEW y \in T
      PROVE  x <= y
  <2>1. x \in Nat /\ y \in Nat
    OBVIOUS
  <2>2. <<y, x>> \notin Below
    BY <1>3
  <2>3. ~ (y < x)
    BY <2>1, <2>2
  <2>4. QED
    BY <2>1, <2>3
<1>5. QED
  BY <1>4

Dated == created \in [Entries -> Nat]

NewerRows(S, e) == {d \in S : Newer(d, e)}

LEMMA NewerIsOrder ==
  ASSUME Dated, NEW c \in Entries, NEW d \in Entries, NEW e \in Entries
  PROVE  /\ ~ Newer(e, e)
         /\ Newer(c, d) /\ Newer(d, e) => Newer(c, e)
         /\ d # e => Newer(d, e) \/ Newer(e, d)
<1>1. /\ c \in Nat /\ d \in Nat /\ e \in Nat
      /\ created[c] \in Nat /\ created[d] \in Nat /\ created[e] \in Nat
  BY EntryAssumption DEF Dated
<1>2. QED
  BY <1>1 DEF Newer

LEMMA RankType ==
  ASSUME NEW S, IsFiniteSet(S), NEW e
  PROVE  /\ IsFiniteSet(NewerRows(S, e))
         /\ Cardinality(NewerRows(S, e)) \in 0..Cardinality(S)
<1>1. NewerRows(S, e) \in SUBSET S
  BY DEF NewerRows
<1>2. QED
  BY <1>1, FS_Subset, FS_CardinalityType

LEMMA RankGrows ==
  ASSUME Dated, NEW S \in SUBSET Entries, IsFiniteSet(S),
         NEW d \in S, NEW e \in Entries, Newer(d, e)
  PROVE  Cardinality(NewerRows(S, d)) < Cardinality(NewerRows(S, e))
<1>1. NewerRows(S, d) \subseteq NewerRows(S, e)
  BY NewerIsOrder DEF NewerRows
<1>2. d \in NewerRows(S, e) \ NewerRows(S, d)
  BY NewerIsOrder DEF NewerRows
<1>3. /\ Cardinality(NewerRows(S, d)) <= Cardinality(NewerRows(S, e))
      /\ Cardinality(NewerRows(S, d)) # Cardinality(NewerRows(S, e))
  BY <1>1, <1>2, RankType, FS_Subset
<1>4. QED
  BY <1>3, RankType

\* A set of rows, if it is not empty, has an oldest one.
LEMMA OldestExists ==
  ASSUME Dated, NEW S \in SUBSET Entries, IsFiniteSet(S), S # {}
  PROVE  \E e \in S : \A d \in S \ {e} : Newer(d, e)
<1> DEFINE Behind(e) == Cardinality(S) - Cardinality(NewerRows(S, e))
           Counts == {Behind(e) : e \in S}
<1>1. \A e \in S : Behind(e) \in Nat
  BY RankType, FS_CardinalityType
<1>2. Counts \in SUBSET Nat /\ Counts # {}
  BY <1>1
<1>3. PICK n \in Counts : \A m \in Counts : n <= m
  <2> HIDE DEF Counts
  <2> QED BY <1>2, SmallestInNat
<1>4. PICK e \in S : Behind(e) = n
  BY <1>3
<1>5. ASSUME NEW d \in S \ {e}
      PROVE  Newer(d, e)
  <2>1. Behind(e) <= Behind(d)
    BY <1>3, <1>4
  <2>2. Newer(e, d) => Behind(d) < Behind(e)
    BY RankGrows, RankType, FS_CardinalityType
  <2>3. QED
    BY <2>1, <2>2, <1>1, NewerIsOrder
<1>6. QED
  BY <1>5

LEMMA TopIsClosed ==
  ASSUME Dated, NEW S \in SUBSET Entries, IsFiniteSet(S), NEW n \in Nat
  PROVE  /\ TopRows(S, n) \in SUBSET S
         /\ IsFiniteSet(TopRows(S, n))
         /\ \A e \in TopRows(S, n), d \in S : Newer(d, e) => d \in TopRows(S, n)
<1>1. TopRows(S, n) \in SUBSET S
  BY DEF TopRows
<1>2. ASSUME NEW e \in TopRows(S, n), NEW d \in S, Newer(d, e)
      PROVE  d \in TopRows(S, n)
  <2>1. Cardinality(NewerRows(S, e)) < n
    BY DEF TopRows, NewerRows
  <2>2. Cardinality(NewerRows(S, d)) < n
    BY <1>1, <1>2, <2>1, RankGrows, RankType
  <2>3. QED
    BY <2>2 DEF TopRows, NewerRows
<1>3. QED
  BY <1>1, <1>2, FS_Subset

LEMMA TopOfFew ==
  ASSUME Dated, NEW S \in SUBSET Entries, IsFiniteSet(S), NEW n \in Nat,
         Cardinality(S) <= n
  PROVE  TopRows(S, n) = S
<1>1. ASSUME NEW e \in S
      PROVE  Cardinality(NewerRows(S, e)) < n
  <2>1. NewerRows(S, e) \in SUBSET S /\ NewerRows(S, e) # S
    BY NewerIsOrder DEF NewerRows
  <2>2. Cardinality(NewerRows(S, e)) # Cardinality(S)
    BY <2>1, FS_Subset
  <2>3. QED
    BY <2>2, RankType, FS_CardinalityType
<1>2. QED
  BY <1>1 DEF TopRows, NewerRows

\* Where rows are left out, as many as were asked for are in.
LEMMA TopIsFull ==
  ASSUME Dated, NEW S \in SUBSET Entries, IsFiniteSet(S), NEW n \in Nat,
         TopRows(S, n) # S
  PROVE  n <= Cardinality(TopRows(S, n))
<1> DEFINE Rank(e) == Cardinality(NewerRows(S, e))
           Ranks == {Rank(e) : e \in S \ TopRows(S, n)}
<1>1. \A e \in S : Rank(e) \in Nat
  BY RankType
<1>2. Ranks \in SUBSET Nat /\ Ranks # {}
  BY <1>1 DEF TopRows
<1>3. PICK k \in Ranks : \A m \in Ranks : k <= m
  <2> HIDE DEF Ranks
  <2> QED BY <1>2, SmallestInNat
<1>4. PICK e \in S \ TopRows(S, n) : Rank(e) = k
  BY <1>3
<1>5. n <= Rank(e)
  BY <1>1, <1>4 DEF TopRows, NewerRows
<1>6. NewerRows(S, e) \subseteq TopRows(S, n)
  <2> SUFFICES ASSUME NEW d \in S, Newer(d, e), d \notin TopRows(S, n)
               PROVE  FALSE
    BY DEF NewerRows
  <2>1. Rank(d) < Rank(e)
    BY RankGrows
  <2>2. Rank(e) <= Rank(d)
    BY <1>3, <1>4
  <2>3. QED
    BY <2>1, <2>2, <1>1
<1>7. Rank(e) <= Cardinality(TopRows(S, n))
  BY <1>6, TopIsClosed, FS_Subset
<1>8. QED
  BY <1>5, <1>7, <1>1, TopIsClosed, FS_CardinalityType

-----------------------------------------------------------------------------
(* A page. *)

PageOf(S, limit) == TopRows(TopRows(S, limit + 1), limit)

NextOf(S, limit) == NextCursor(TopRows(S, limit + 1), limit)

LEMMA EncodeIsCursor ==
  ASSUME Dated, NEW e \in Entries
  PROVE  /\ Encode(e) \in Cursors
         /\ Encode(e) # None
         /\ Encode(e).at = created[e] /\ Encode(e).id = e
<1>1. e \in Nat /\ created[e] \in Nat
  BY EntryAssumption DEF Dated
<1>2. Encode(e) \in Cursors
  BY <1>1 DEF Encode, Cursors
<1>3. QED
  BY <1>2, NoneAssumption DEF Encode

\* Without a cursor, the page is all there is.
LEMMA LastPage ==
  ASSUME Dated, NEW S \in SUBSET Entries, IsFiniteSet(S), NEW limit \in Nat \ {0},
         Cardinality(TopRows(S, limit + 1)) <= limit
  PROVE  PageOf(S, limit) = S /\ NextOf(S, limit) = None
<1> DEFINE rows == TopRows(S, limit + 1)
<1>1. rows \in SUBSET S /\ IsFiniteSet(rows)
  BY TopIsClosed
<1>2. rows = S
  BY <1>1, TopIsFull, FS_CardinalityType
<1>3. TopRows(rows, limit) = rows
  BY <1>1, TopOfFew
<1>4. NextOf(S, limit) = None
  BY <1>1, FS_CardinalityType DEF NextOf, NextCursor
<1>5. QED
  BY <1>2, <1>3, <1>4 DEF PageOf

\* With a cursor, it points at the oldest row of the page, and what is left out is
\* older.
LEMMA FullPage ==
  ASSUME Dated, NEW S \in SUBSET Entries, IsFiniteSet(S), NEW limit \in Nat \ {0},
         ~ (Cardinality(TopRows(S, limit + 1)) <= limit)
  PROVE  \E o \in PageOf(S, limit) :
           /\ NextOf(S, limit) = Encode(o)
           /\ \A e \in PageOf(S, limit) : e = o \/ Newer(e, o)
           /\ \A e \in S \ PageOf(S, limit) : Newer(o, e)
<1> DEFINE rows == TopRows(S, limit + 1)
           kept == TopRows(rows, limit)
<1>1. /\ rows \in SUBSET S /\ IsFiniteSet(rows)
      /\ \A e \in rows, d \in S : Newer(d, e) => d \in rows
  BY TopIsClosed
<1>2. /\ kept \in SUBSET rows /\ IsFiniteSet(kept)
      /\ \A e \in kept, d \in rows : Newer(d, e) => d \in kept
  <2> HIDE DEF rows
  <2> QED BY <1>1, TopIsClosed
<1>3. Cardinality(rows) > limit
  BY <1>1, FS_CardinalityType
<1>4. kept # {}
  <2>1. kept # rows => limit <= Cardinality(kept)
    <3> HIDE DEF rows
    <3> QED BY <1>1, TopIsFull
  <2>2. Cardinality({}) = 0
    BY FS_EmptySet
  <2>3. QED
    <3> HIDE DEF rows, kept
    <3> QED BY <1>3, <2>1, <2>2
<1>5. \E e \in kept : \A d \in kept \ {e} : Newer(d, e)
  <2> HIDE DEF kept
  <2> QED BY <1>1, <1>2, <1>4, OldestExists
<1> DEFINE o == CHOOSE e \in kept : \A d \in kept \ {e} : Newer(d, e)
<1>6. o \in kept /\ \A d \in kept \ {o} : Newer(d, o)
  <2> HIDE DEF kept
  <2> QED BY <1>5
<1>7. NextOf(S, limit) = Encode(o)
  BY <1>3 DEF NextOf, NextCursor
<1>8. ASSUME NEW e \in S \ kept
      PROVE  Newer(o, e)
  <2> HIDE DEF o, kept, rows
  <2>1. o \in kept /\ o \in rows /\ o # e
    BY <1>2, <1>6, <1>8
  <2>2. ~ Newer(e, o)
    BY <1>1, <1>2, <2>1, <1>8
  <2>3. QED
    BY <1>1, <2>1, <2>2, NewerIsOrder
<1>9. QED
  <2> HIDE DEF o
  <2> QED BY <1>6, <1>7, <1>8 DEF PageOf

-----------------------------------------------------------------------------
(* The invariant. *)

\* What the reader has lies on one side of its cursor; what it is owed and has not seen
\* lies on the other.
PagingInv ==
  /\ Accepts(query)
  /\ cursor # None
  /\ \A e \in Statement : ~ Beyond(e, cursor)
  /\ \A e \in due : e \in Statement \/ Beyond(e, cursor)

\* The balance was made of rows that the statement owes the reader.
ReportInv ==
  report # None =>
    \E rows \in SUBSET committed :
      /\ report = [balance |-> SignedSum(query.account, rows), count |-> Cardinality(rows)]
      /\ \A e \in rows : Touches(e, query.account) /\ Data[e].currency = query.currency
      /\ phase \in {"paging", "complete"} /\ query.from = None /\ query.to = None =>
           rows \subseteq due

IInv ==
  /\ TypeOK
  /\ IsFiniteSet(committed)
  /\ phase = "idle" => cursor = None /\ page = {} /\ seen = {} /\ due = {}
  /\ phase = "paging" => PagingInv
  /\ PagesDescend
  /\ \A e \in due : Matches(e, query)
  /\ NothingDueIsMissed
  /\ ReportInv

LEMMA TypeDates ==
  ASSUME TypeOK
  PROVE  Dated /\ committed \in SUBSET Entries /\ clock \in Nat
BY TimeAssumption DEF TypeOK, Dated

LEMMA InitInv == Init => IInv
<1> SUFFICES ASSUME Init PROVE IInv
  OBVIOUS
<1>1. TypeOK
  BY TimeAssumption DEF Init, TypeOK
<1>2. IsFiniteSet(committed)
  BY FS_EmptySet DEF Init
<1>3. QED
  BY <1>1, <1>2 DEF Init, IInv, PagesDescend, NothingDueIsMissed, ReportInv

-----------------------------------------------------------------------------
(* Entries come in, and the reader knows nothing of it. *)

LEMMA EntriesComeIn ==
  ASSUME IInv, UNCHANGED readerVars, TypeOK', IsFiniteSet(committed'),
         committed \subseteq committed',
         \A e \in committed : created'[e] = created[e]
  PROVE  IInv'
<1>1. UNCHANGED <<via, query, phase, cursor, page, seen, due, report>>
  BY DEF readerVars
<1>2. /\ page \subseteq committed /\ seen \subseteq committed /\ due \subseteq committed
  BY DEF IInv, TypeOK
<1>3. ASSUME NEW e \in committed
      PROVE  /\ Matches(e, query)' <=> Matches(e, query)
             /\ Beyond(e, cursor)' <=> Beyond(e, cursor)
             /\ \A d \in committed : Newer(d, e)' <=> Newer(d, e)
  BY <1>1, <1>3 DEF Matches, Touches, TimeOf, Beyond, Newer
<1>4. PagingInv => PagingInv'
  BY <1>1, <1>2, <1>3 DEF PagingInv, Statement, Accepts, Limit
<1>5. PagesDescend'
  BY <1>1, <1>2, <1>3 DEF IInv, PagesDescend
<1>6. \A e \in due' : Matches(e, query)'
  BY <1>1, <1>2, <1>3 DEF IInv
<1>7. NothingDueIsMissed'
  BY <1>1 DEF IInv, NothingDueIsMissed, Statement
<1>8. ReportInv'
  BY <1>1 DEF IInv, ReportInv, Touches
<1>9. QED
  BY <1>1, <1>4, <1>5, <1>6, <1>7, <1>8 DEF IInv

LEMMA LedgerKeeps ==
  ASSUME IInv, Tick \/ \E e \in Entries : Stamp(e) \/ Commit(e)
  PROVE  IInv'
<1>1. UNCHANGED readerVars
  BY DEF Tick, Stamp, Commit
<1>2. /\ clock \in 1..MaxTime /\ MaxTime \in Nat
      /\ created \in [Entries -> 0..clock]
      /\ committed \subseteq {e \in Entries : created[e] # 0}
  BY TimeAssumption DEF IInv, TypeOK
<1>3. /\ clock' \in 1..MaxTime
      /\ created' \in [Entries -> 0..clock']
      /\ committed' \subseteq {e \in Entries : created'[e] # 0}
      /\ committed \subseteq committed'
      /\ \A e \in committed : created'[e] = created[e]
  <2>1. CASE Tick
    BY <1>2, <2>1 DEF Tick
  <2>2. CASE \E e \in Entries : Stamp(e)
    BY <1>2, <2>2 DEF Stamp
  <2>3. CASE \E e \in Entries : Commit(e)
    BY <1>2, <2>3 DEF Commit
  <2>4. QED
    BY <2>1, <2>2, <2>3
<1>4. IsFiniteSet(committed')
  BY FS_AddElement DEF IInv, Tick, Stamp, Commit
<1>5. TypeOK'
  BY <1>1, <1>3 DEF IInv, TypeOK, readerVars
<1>6. QED
  BY <1>1, <1>3, <1>4, <1>5, EntriesComeIn

-----------------------------------------------------------------------------
(* The reader. *)

\* Without a page, a step of the reader keeps what it has.
LEMMA NoPageKeeps ==
  ASSUME IInv, UNCHANGED <<ledgerVars, via, query, cursor, page, seen, due, report>>,
         phase' \in {"refused", "malformed"}
  PROVE  IInv'
<1>1. UNCHANGED <<clock, created, committed, via, query, cursor, page, seen, due, report>>
  BY DEF ledgerVars
<1>2. TypeOK'
  BY <1>1 DEF IInv, TypeOK
<1>3. PagesDescend' /\ \A e \in due' : Matches(e, query)'
  BY <1>1 DEF IInv, PagesDescend, Newer, Matches, Touches, TimeOf
<1>4. ReportInv'
  BY <1>1 DEF IInv, ReportInv, Touches
<1>5. QED
  BY <1>1, <1>2, <1>3, <1>4 DEF IInv, NothingDueIsMissed

LEMMA GetBalanceKeeps ==
  ASSUME IInv, GetBalance
  PROVE  IInv'
<1>1. /\ UNCHANGED <<clock, created, committed, via, query, phase, cursor, page, seen, due>>
      /\ phase = "idle" /\ report' = BalanceOf(query)
  BY DEF GetBalance, ledgerVars
<1>2. TypeOK'
  BY <1>1 DEF IInv, TypeOK
<1>3. PagesDescend' /\ \A e \in due' : Matches(e, query)'
  BY <1>1 DEF IInv, PagesDescend, Newer, Matches, Touches, TimeOf
<1> DEFINE rows == {e \in committed : /\ Touches(e, query.account)
                                      /\ Data[e].currency = query.currency}
<1>4. /\ rows \in SUBSET committed'
      /\ report' = [balance |-> SignedSum(query'.account, rows), count |-> Cardinality(rows)]
      /\ \A e \in rows : Touches(e, query.account)' /\ Data[e].currency = query'.currency
  BY <1>1 DEF BalanceOf, Touches
<1>5. ReportInv'
  <2> HIDE DEF rows
  <2> QED BY <1>1, <1>4 DEF ReportInv
<1>6. QED
  BY <1>1, <1>2, <1>3, <1>5 DEF IInv, NothingDueIsMissed

\* What a page may hold.
Candidates == {e \in committed : Matches(e, query) /\ Beyond(e, cursor)}

LEMMA LimitType ==
  ASSUME Accepts(query)
  PROVE  Limit(query) \in Nat \ {0}
BY LimitAssumption DEF Accepts

\* What one SELECT and the cursor made of it do.
LEMMA PageRead ==
  ASSUME IInv, Accepts(query), ReadPage
  PROVE  /\ page' \subseteq Candidates
         /\ seen' = Statement
         /\ \/ phase' = "complete" /\ cursor' = None /\ page' = Candidates
            \/ /\ phase' = "paging" /\ cursor' \in Cursors /\ cursor' # None
               /\ \E o \in page' : /\ cursor'.at = created[o] /\ cursor'.id = o
                                   /\ \A e \in page' : e = o \/ Newer(e, o)
                                   /\ \A e \in Candidates \ page' : Newer(o, e)
<1> DEFINE limit == Limit(query)
<1>1. Dated /\ committed \in SUBSET Entries /\ IsFiniteSet(committed)
  BY TypeDates DEF IInv
<1>2. Candidates \in SUBSET Entries /\ IsFiniteSet(Candidates)
  BY <1>1, FS_Subset DEF Candidates
<1>3. limit \in Nat \ {0}
  BY LimitType
<1>4. /\ page' = PageOf(Candidates, limit)
      /\ seen' = Statement
      /\ cursor' = Wrap(NextOf(Candidates, limit))
      /\ phase' = IF cursor' = None THEN "complete" ELSE "paging"
  BY DEF ReadPage, PageOf, NextOf, Candidates, Statement
<1> HIDE DEF limit
<1>5. PageOf(Candidates, limit) \subseteq Candidates
  BY DEF PageOf, TopRows
<1>6. CASE Cardinality(TopRows(Candidates, limit + 1)) <= limit
  <2>1. PageOf(Candidates, limit) = Candidates /\ NextOf(Candidates, limit) = None
    BY <1>1, <1>2, <1>3, <1>6, LastPage
  <2>2. QED
    BY <1>4, <2>1 DEF Wrap
<1>7. CASE ~ (Cardinality(TopRows(Candidates, limit + 1)) <= limit)
  <2>1. PICK o \in PageOf(Candidates, limit) :
          /\ NextOf(Candidates, limit) = Encode(o)
          /\ \A e \in PageOf(Candidates, limit) : e = o \/ Newer(e, o)
          /\ \A e \in Candidates \ PageOf(Candidates, limit) : Newer(o, e)
    BY <1>1, <1>2, <1>3, <1>7, FullPage
  <2>2. o \in Entries
    BY <1>2, <1>5
  <2>3. /\ Encode(o) \in Cursors /\ Encode(o) # None
        /\ Encode(o).at = created[o] /\ Encode(o).id = o
    BY <1>1, <2>2, EncodeIsCursor
  <2>4. /\ Wrap(Encode(o)) \in Cursors
        /\ Wrap(Encode(o)).at = created[o] /\ Wrap(Encode(o)).id = o
    BY <2>3 DEF Wrap, Cursors
  <2>5. cursor' = Wrap(Encode(o)) /\ cursor' # None
    BY <1>4, <2>1, <2>4, NoneAssumption
  <2>6. QED
    BY <1>4, <1>5, <2>1, <2>4, <2>5
<1>8. QED
  BY <1>6, <1>7

\* The rows beyond the cursor are older than those that are not.
LEMMA CursorDivides ==
  ASSUME Dated, cursor \in Cursors, cursor # None,
         NEW e \in Entries, NEW d \in Entries, ~ Beyond(e, cursor), Beyond(d, cursor)
  PROVE  Newer(e, d)
<1>1. /\ cursor.at \in Nat /\ cursor.id \in Nat
      /\ e \in Nat /\ d \in Nat /\ created[e] \in Nat /\ created[d] \in Nat
  BY EntryAssumption DEF Dated, Cursors
<1>2. QED
  BY <1>1 DEF Beyond, Newer

LEMMA PointedAt ==
  ASSUME Dated, NEW c, c # None, NEW o \in Entries, c.at = created[o], c.id = o,
         NEW e \in Entries
  PROVE  Beyond(e, c) <=> Newer(o, e)
<1>1. o \in Nat /\ e \in Nat /\ created[o] \in Nat /\ created[e] \in Nat
  BY EntryAssumption DEF Dated
<1>2. QED
  BY <1>1 DEF Beyond, Newer

\* A page that is read, whether the first or a later one: all that the reader has lies
\* before the cursor, and what it is owed and has not seen is a candidate.
LEMMA PageKeeps ==
  ASSUME IInv, Accepts(query), ReadPage, UNCHANGED <<ledgerVars, via, query, report>>,
         due' \subseteq committed, \A e \in due' : Matches(e, query),
         \A e \in due' : e \in Statement \/ Beyond(e, cursor),
         \A e \in Statement : ~ Beyond(e, cursor),
         cursor = None => Statement = {},
         ReportInv'
  PROVE  IInv'
<1>1. Dated /\ committed \in SUBSET Entries
  BY TypeDates DEF IInv
<1>2. /\ UNCHANGED <<clock, created, committed, via, query, report>>
      /\ cursor \in {None} \cup Cursors
      /\ Statement \subseteq committed
  BY DEF ledgerVars, IInv, TypeOK, Statement
<1>3. /\ page' \subseteq Candidates
      /\ seen' = Statement
      /\ phase' \in {"complete", "paging"} /\ cursor' \in {None} \cup Cursors
      /\ phase' = "complete" => page' = Candidates
  BY PageRead
<1>4. Statement' = Statement \cup page'
  BY <1>3 DEF Statement
<1>5. TypeOK'
  BY <1>2, <1>3 DEF IInv, TypeOK, Candidates
<1>6. \A e \in Statement, d \in Candidates : Newer(e, d)
  BY <1>1, <1>2, CursorDivides DEF Candidates
<1>7. PagesDescend'
  BY <1>2, <1>3, <1>6 DEF PagesDescend, Newer
<1>8. \A e \in due' : Matches(e, query)'
  BY <1>2 DEF Matches, Touches, TimeOf
<1>9. \A e \in due' : e \in Statement \/ e \in Candidates
  BY DEF Candidates
<1>10. NothingDueIsMissed'
  BY <1>3, <1>4, <1>9 DEF NothingDueIsMissed
<1>11. ASSUME phase' = "paging"
       PROVE  PagingInv'
  <2>1. PICK o \in page' : /\ cursor'.at = created[o] /\ cursor'.id = o
                           /\ \A e \in page' : e = o \/ Newer(e, o)
                           /\ \A e \in Candidates \ page' : Newer(o, e)
    BY <1>11, PageRead
  <2>2. cursor' # None
    BY <1>11, PageRead
  <2>3. o \in Candidates /\ Candidates \subseteq committed
    BY <1>3 DEF Candidates
  <2>4. \A e \in committed : Beyond(e, cursor)' <=> Newer(o, e)
    <3>1. \A e \in committed : Beyond(e, cursor') <=> Newer(o, e)
      BY <1>1, <2>1, <2>2, <2>3, PointedAt
    <3>2. QED
      BY <1>2, <3>1 DEF Beyond
  <2>5. \A e \in Statement' : e \in committed /\ ~ Newer(o, e)
    BY <1>1, <1>2, <1>3, <1>4, <1>6, <2>1, <2>3, NewerIsOrder
  <2>6. \A e \in due' : e \in Statement' \/ Newer(o, e)
    BY <1>4, <1>9, <2>1
  <2>7. Accepts(query)'
    BY <1>2 DEF Accepts, Limit
  <2>8. QED
    BY <2>2, <2>4, <2>5, <2>6, <2>7 DEF PagingInv
<1>12. QED
  BY <1>2, <1>3, <1>5, <1>7, <1>8, <1>10, <1>11 DEF IInv

LEMMA FirstPageKeeps ==
  ASSUME IInv, FirstPage
  PROVE  IInv'
<1>1. /\ phase = "idle" /\ Accepts(query) /\ ReadPage
      /\ due' = {e \in committed : Matches(e, query)}
      /\ UNCHANGED <<ledgerVars, via, query, report>>
  BY DEF FirstPage
<1>2. cursor = None /\ Statement = {}
  BY <1>1 DEF IInv, Statement
<1>3. \A e \in committed : Beyond(e, cursor)
  BY <1>2 DEF Beyond
<1>4. ReportInv'
  <2>1. UNCHANGED <<committed, query, report>>
    BY <1>1 DEF ledgerVars
  <2>2. ASSUME NEW rows \in SUBSET committed, query.from = None, query.to = None,
               \A e \in rows : Touches(e, query.account) /\ Data[e].currency = query.currency
        PROVE  rows \subseteq due'
    BY <1>1, <2>2 DEF Matches, TimeOf
  <2>3. QED
    BY <2>1, <2>2 DEF IInv, ReportInv, Touches
<1>5. QED
  BY <1>1, <1>2, <1>3, <1>4, PageKeeps

LEMMA NextPageKeeps ==
  ASSUME IInv, NextPage
  PROVE  IInv'
<1>1. /\ phase = "paging" /\ ReadPage
      /\ UNCHANGED <<ledgerVars, via, query, due, report>>
  BY DEF NextPage
<1>2. PagingInv /\ due \subseteq committed /\ \A e \in due : Matches(e, query)
  BY <1>1 DEF IInv, TypeOK
<1>3. ReportInv'
  BY <1>1 DEF IInv, ReportInv, Touches, ledgerVars
<1>4. QED
  BY <1>1, <1>2, <1>3, PageKeeps DEF PagingInv

LEMMA StepInv == IInv /\ [Next]_vars => IInv'
<1> SUFFICES ASSUME IInv, [Next]_vars PROVE IInv'
  OBVIOUS
<1>1. CASE Tick \/ \E e \in Entries : Stamp(e) \/ Commit(e)
  BY <1>1, LedgerKeeps
<1>2. CASE GetBalance
  BY <1>2, GetBalanceKeeps
<1>3. CASE Refuse \/ MalformedCursor \/ Expire
  BY <1>3, NoPageKeeps DEF Refuse, MalformedCursor, Expire
<1>4. CASE FirstPage
  BY <1>4, FirstPageKeeps
<1>5. CASE NextPage
  BY <1>5, NextPageKeeps
<1>6. CASE UNCHANGED vars
  <2>1. /\ UNCHANGED readerVars /\ UNCHANGED <<clock, created, committed>>
        /\ UNCHANGED <<via, query, phase, cursor, page, seen, due, report>>
    BY <1>6 DEF vars, ledgerVars, readerVars
  <2>2. TypeOK' /\ IsFiniteSet(committed')
    BY <2>1 DEF IInv, TypeOK
  <2>3. QED
    BY <2>1, <2>2, EntriesComeIn
<1>7. QED
  BY <1>1, <1>2, <1>3, <1>4, <1>5, <1>6 DEF Next

LEMMA Invariant == Spec => []IInv
BY InitInv, StepInv, PTL DEF Spec

-----------------------------------------------------------------------------
(* Theorems. *)

\* Dates, pages and cursors keep their types, and a page has only committed rows.
THEOREM StatementTypeCorrect == Spec => []TypeOK
<1>1. IInv => TypeOK
  BY DEF IInv
<1>2. QED
  BY <1>1, Invariant, PTL

\* Page follows page in the order of the statement, and no row comes twice, whatever is
\* committed between them and with whatever created_at.
THEOREM StatementDescends == Spec => []PagesDescend
<1>1. IInv => PagesDescend
  BY DEF IInv
<1>2. QED
  BY <1>1, Invariant, PTL

\* The reader of the last page has all that was committed before it read the first.
THEOREM NothingIsMissed == Spec => []NothingDueIsMissed
<1>1. IInv => NothingDueIsMissed
  BY DEF IInv
<1>2. QED
  BY <1>1, Invariant, PTL

\* A statement of as many rows as GetBalance counted has those rows, and their sum is
\* the balance.
THEOREM StatementIsBalance == Spec => []StatementAddsUp
<1>1. ASSUME IInv, phase = "complete", report # None, query.from = None, query.to = None,
             Cardinality(Statement) = report.count
      PROVE  SignedSum(query.account, Statement) = report.balance
  <2>1. PICK rows \in SUBSET committed :
          /\ report = [balance |-> SignedSum(query.account, rows),
                       count |-> Cardinality(rows)]
          /\ rows \subseteq due
    BY <1>1 DEF IInv, ReportInv
  <2>2. rows \subseteq Statement /\ IsFiniteSet(Statement)
    BY <1>1, <2>1, FS_Subset DEF IInv, TypeOK, NothingDueIsMissed, Statement
  <2>3. rows = Statement
    BY <1>1, <2>1, <2>2, FS_Subset
  <2>4. QED
    BY <2>1, <2>3
<1>2. IInv => StatementAddsUp
  BY <1>1 DEF StatementAddsUp
<1>3. QED
  BY <1>2, Invariant, PTL
=============================================================================
