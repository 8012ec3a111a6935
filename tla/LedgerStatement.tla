--------------------------- MODULE LedgerStatement ---------------------------
(***************************************************************************)
(* The reads of kova-ledger: GetStatement, page by page (statement.rs and  *)
(* server.rs in services/kova-ledger/src), and GetBalance (balance.rs),    *)
(* with the endpoint of kova-account that hands the pages on to customers  *)
(* (services/kova-account/src/handlers/statement.rs), while entries are    *)
(* being committed.                                                        *)
(*                                                                         *)
(* post_entry stamps an entry with created_at before its transaction       *)
(* commits, so that entries turn up in the table in another order than the *)
(* one they are listed in.  Readers share nothing: one is enough.          *)
(***************************************************************************)
EXTENDS Integers, FiniteSetsExt

CONSTANTS
  Entries,      \* entry ids: numbers, ordered as the bytes of the UUIDs
  Data,         \* debit and credit account, amount and currency of each entry
  Queries,      \* requests: token, account, currency, from, to, limit
  AuthKey,      \* the key of kova-auth
  Owned,        \* the accounts of each customer
  DefaultLimit, \* 20
  MaxLimit,     \* 100
  MaxTime,      \* bound: instants that created_at takes
  None          \* a parameter that is left out

ASSUME EntryAssumption == Entries \subseteq Nat
ASSUME LimitAssumption == DefaultLimit \in 1..MaxLimit /\ MaxLimit \in Nat
ASSUME TimeAssumption  == MaxTime \in Nat \ {0}

\* The cursors a client may hold: where a page ended, under layers of base64.
Cursors == [layers : Nat, at : Nat, id : Nat]

ASSUME NoneAssumption  == None \notin Cursors

VARIABLES
  clock,     \* the present instant
  created,   \* created_at of each entry, 0 while nobody has posted it
  committed, \* the rows of ledger_entries that others can see
  via,       \* the service that the reader calls
  query,     \* its request
  phase,     \* how far it has come
  cursor,    \* the cursor it was given with the last page
  page,      \* the entries on that page
  seen,      \* the entries on the pages before it
  due,       \* what matched the query when it read its first page
  report     \* the answer to GetBalance before the first page

ledgerVars == <<clock, created, committed>>
readerVars == <<via, query, phase, cursor, page, seen, due, report>>
vars       == <<ledgerVars, readerVars>>

Init ==
  /\ clock = 1
  /\ created = [e \in Entries |-> 0]
  /\ committed = {}
  /\ via \in {"kova-ledger", "kova-account"}
  /\ query \in Queries
  /\ via = "kova-ledger" => query.limit # None
  /\ phase = "idle"
  /\ cursor = None
  /\ page = {}
  /\ seen = {}
  /\ due = {}
  /\ report = None

-----------------------------------------------------------------------------
(* Entries come in. *)

Tick ==
  /\ clock < MaxTime
  /\ clock' = clock + 1
  /\ UNCHANGED <<created, committed, readerVars>>

\* post_entry has read the clock for e; other transactions do not see e yet.
Stamp(e) ==
  /\ created[e] = 0
  /\ created' = [created EXCEPT ![e] = clock]
  /\ UNCHANGED <<clock, committed, readerVars>>

\* The transaction of e commits.  One that is rolled back never does.
Commit(e) ==
  /\ created[e] # 0
  /\ e \notin committed
  /\ committed' = committed \cup {e}
  /\ UNCHANGED <<clock, created, readerVars>>

-----------------------------------------------------------------------------
(* The queries. *)

\* ORDER BY created_at DESC, id DESC.
Newer(d, e) ==
  \/ created[d] > created[e]
  \/ created[d] = created[e] /\ d > e

\* The first n rows of S in that order.
TopRows(S, n) == {e \in S : Cardinality({d \in S : Newer(d, e)}) < n}

Touches(e, a) == a \in {Data[e].debit, Data[e].credit}

\* timestamp_to_dt: seconds beyond the range of its type are as good as left out.
TimeOf(t) == IF t # None /\ t > MaxTime THEN None ELSE t

Matches(e, q) ==
  /\ Touches(e, q.account)
  /\ q.currency \in {None, Data[e].currency}
  /\ TimeOf(q.from) # None => created[e] >= q.from
  /\ TimeOf(q.to) # None => created[e] <= q.to

BeyondWithTies(e, c) ==
  c # None => created[e] < c.at \/ (created[e] = c.at /\ e <= c.id)

\* The keyset condition: e comes after the row that cursor c points at.
Beyond(e, c) ==
  c # None => created[e] < c.at \/ (created[e] = c.at /\ e < c.id)

\* encode_cursor: base64 over 24 bytes.
Encode(e) == [layers |-> 1, at |-> created[e], id |-> e]

\* decode_cursor takes one layer of base64 off and wants 24 bytes under it.
Decodes(c) == c = None \/ c.layers = 1

\* kova-account puts a layer of its own around the ledger's cursor.
Wrap(c) == IF c = None \/ via = "kova-ledger" THEN c
           ELSE [c EXCEPT !.layers = c.layers + 1]

CursorAtExtraRow(rows, limit) ==
  IF Cardinality(rows) > limit
  THEN Encode(CHOOSE e \in rows : \A d \in rows \ {e} : Newer(d, e))
  ELSE None

\* If the row beyond the limit is there, a cursor at the last row of the page.
NextCursor(rows, limit) ==
  IF Cardinality(rows) > limit
  THEN LET kept == TopRows(rows, limit)
       IN  Encode(CHOOSE e \in kept : \A d \in kept \ {e} : Newer(d, e))
  ELSE None

\* The two services fill in the default for different ways to leave the limit
\* out, and refuse the same limits; kova-account has no other filter.
Limit(q) == IF q.limit = (IF via = "kova-ledger" THEN 0 ELSE None)
            THEN DefaultLimit ELSE q.limit

Accepts(q) ==
  /\ Limit(q) \in 1..MaxLimit
  /\ via = "kova-account" =>
       q.account \in Owned[q.token.sub] /\ q.currency = None /\ q.from = None /\ q.to = None

\* sign_access_token: what kova-auth signs for a customer, good for a while.
AccessToken(user, last) == [key |-> AuthKey, iss |-> "kova-auth", sub |-> user, lasts |-> last]

\* jsonwebtoken::decode, as every service calls it: RS256 under the key of
\* kova-auth, which has issued the token, and not a minute past its exp.
Verifies(t) == /\ t # None
               /\ t.key = AuthKey
               /\ t.iss = "kova-auth"
               /\ clock <= t.lasts

\* kova-account wants a customer in the claims.
AuthUser(t) == Verifies(t) /\ t.sub # None

\* kova-ledger takes any claims, and the same token for every account.
Interceptor(t) == Verifies(t)

SignedIn == IF via = "kova-ledger" THEN Interceptor(query.token) ELSE AuthUser(query.token)

SupportedCurrencies == {"NGN", "GBP", "USD", "KES"}

\* The SUM: credits of the account count for it, debits against it.
SignedSum(account, rows) ==
  LET Signed(e) == IF Data[e].credit = account THEN Data[e].amount ELSE - Data[e].amount
  IN  MapThenSumSet(Signed, rows)

BalanceOfAllCurrencies(q) ==
  LET rows == {e \in committed : Touches(e, q.account)}
  IN  [balance |-> SignedSum(q.account, rows), count |-> Cardinality(rows)]

\* The one SELECT of get_balance.  (as_of, the largest created_at of these
\* rows, is left out.)
BalanceOf(q) ==
  LET rows == {e \in committed : /\ Touches(e, q.account)
                                 /\ Data[e].currency = q.currency}
  IN  [balance |-> SignedSum(q.account, rows), count |-> Cardinality(rows)]

-----------------------------------------------------------------------------
(* The reader. *)

\* GetBalance before the statement.
GetBalance ==
  /\ phase = "idle" /\ report = None
  /\ via = "kova-ledger" /\ SignedIn
  /\ query.currency \in SupportedCurrencies
  /\ report' = BalanceOf(query)
  /\ UNCHANGED <<ledgerVars, via, query, phase, cursor, page, seen, due>>

\* No token, an unsupported currency, a limit out of range, somebody else's
\* account.
Refuse ==
  /\ phase = "idle"
  /\ \/ ~ SignedIn
     \/ SignedIn /\ ~ Accepts(query)
     \/ /\ via = "kova-ledger" /\ report = None
        /\ query.currency \notin SupportedCurrencies \cup {None}
  /\ phase' = "refused"
  /\ UNCHANGED <<ledgerVars, via, query, cursor, page, seen, due, report>>

\* get_statement: one SELECT of limit + 1 rows, the last of which is only there
\* to tell whether there are more.
ReadPage ==
  LET limit == Limit(query)
      rows  == TopRows({e \in committed : Matches(e, query) /\ Beyond(e, cursor)},
                       limit + 1)
  IN  /\ page' = TopRows(rows, limit)
      /\ seen' = seen \cup page
      /\ cursor' = Wrap(NextCursor(rows, limit))
      /\ phase' = IF cursor' = None THEN "complete" ELSE "paging"

FirstPage ==
  /\ phase = "idle"
  /\ SignedIn
  /\ Accepts(query)
  /\ due' = {e \in committed : Matches(e, query)}
  /\ ReadPage
  /\ UNCHANGED <<ledgerVars, via, query, report>>

\* The same request with the cursor of the last page.
NextPage ==
  /\ phase = "paging"
  /\ SignedIn
  /\ Decodes(cursor)
  /\ ReadPage
  /\ UNCHANGED <<ledgerVars, via, query, due, report>>

\* InvalidArgument("malformed cursor").
MalformedCursor ==
  /\ phase = "paging"
  /\ SignedIn
  /\ ~ Decodes(cursor)
  /\ phase' = "malformed"
  /\ UNCHANGED <<ledgerVars, via, query, cursor, page, seen, due, report>>

\* The token has expired between two pages.
Expire ==
  /\ phase = "paging"
  /\ ~ SignedIn
  /\ phase' = "refused"
  /\ UNCHANGED <<ledgerVars, via, query, cursor, page, seen, due, report>>

Next ==
  \/ Tick
  \/ \E e \in Entries : Stamp(e) \/ Commit(e)
  \/ GetBalance \/ Refuse \/ FirstPage \/ NextPage \/ MalformedCursor
  \/ Expire

Spec == Init /\ [][Next]_vars

(***************************************************************************)
(* A reader that has a cursor asks for the next page, and is answered.     *)
(***************************************************************************)
FairSpec == Spec /\ WF_vars(NextPage \/ MalformedCursor \/ Expire)

-----------------------------------------------------------------------------
(* Properties. *)

\* What the reader has of the statement.
Statement == seen \cup page

\* The variables have their types; an entry is committed once it is stamped.
TypeOK ==
  /\ clock \in 1..MaxTime
  /\ created \in [Entries -> 0..clock]
  /\ committed \subseteq {e \in Entries : created[e] # 0}
  /\ query \in Queries
  /\ phase \in {"idle", "paging", "complete", "refused", "malformed"}
  /\ cursor \in {None} \cup Cursors
  /\ page \subseteq committed
  /\ seen \subseteq committed
  /\ due \subseteq committed

\* "verify all 25 are returned exactly once" and "in descending created_at order"
\* (TASKS.md:843-844) hold across pages, whatever commits between them: a page
\* has only entries that are older than all those on the pages before it.
PagesDescend == \A e \in seen, d \in page : Newer(e, d)

\* Keyset pagination loses nothing that was there when it began: at the end, the
\* reader has seen every entry that was committed before its first page.  What
\* it may miss was committed later.
NothingDueIsMissed == phase = "complete" => due \subseteq Statement

\* The statement adds up to the balance: a reader that then pages through as
\* many entries as GetBalance counted (entry_count) has those same entries.
StatementAddsUp ==
  /\ phase = "complete" /\ report # None
  /\ query.from = None /\ query.to = None
  /\ Cardinality(Statement) = report.count
  => SignedSum(query.account, Statement) = report.balance

\* Paging comes to an end, entries arriving all the while.
PagingEnds == phase = "paging" ~> phase # "paging"

\* "Cursor is opaque to the client" (kova-account's statement.rs:3): a cursor
\* that a service hands out is one that it takes back.
CursorIsTakenBack == phase # "malformed"
=============================================================================
