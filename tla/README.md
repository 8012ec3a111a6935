# KOVA in TLA+

KOVA is the backend of a Nigerian payment product: a Rust workspace of services
over MySQL, Redis and Kafka. This directory holds TLA+ modules that model the
parts of it that carry state, the TLC configurations that check them on small
instances, and theorems about them that TLAPS checks. `PROJECT.json` lists the
runs, the source lines behind each definition, the mutations that break each
property, the hazards of the code and the theorems.

Run a check with `tlc -config <name>.cfg <Module>`, a proof with
`tlapm <Module>Proofs.tla`. The proofs about `LedgerPosting` are in `LedgerProofs`,
those about `CircuitBreaker` in `GatewayProofs`, those about `KafkaClients` in
`PaymentEventsProofs`: in each case the second module extends the first.

## 1. The system

### Components

| Component | State it keeps | Operations | Status |
|---|---|---|---|
| ledger posting (`services/kova-ledger/src/posting.rs`, `idempotency.rs`, `server.rs`) | tables `ledger_entries`, `ledger_outbox` | `post_entry` | modelled: `LedgerPosting`, `IdempotentLedger`, `LedgerTypes` |
| ledger outbox (`outbox.rs`) | `published_at` of `ledger_outbox`, the worker's error count | `run_outbox_worker`, `process_batch` | modelled: `LedgerOutbox` |
| ledger service (`main.rs`) | the database they share | server, workers, reconciliation | partly: `Ledger` has posting and workers |
| ledger reads (`balance.rs`, `statement.rs`) | none; cursors travel with the client | `get_balance`, `get_statement`, the token interceptor | modelled: `LedgerStatement` |
| ledger reconciliation (`reconciliation.rs`) | `ledger_account_snapshots`, an hourly interval, a total | `run_eod_reconciliation`, `reconciliation_pass` | modelled: `Reconciliation` |
| sessions (`services/kova-auth/src/tokens.rs`, `handlers/device.rs`, `handlers/token.rs`) | table `sessions`, Redis keys `kova:revoked:jti:` | issue, refresh, delete, revoke all, logout | partly: `Sessions` |
| one-time codes, PIN, biometrics (`handlers/otp.rs`, `pin.rs`, `biometric.rs`, `register.rs`) | tables `users`, `otp_codes`, Redis keys `kova:otp:rl:`, `kova:biometric:challenge:` | register, request, verify, set and change PIN, challenge, answer | modelled: `OneTimeCodes` |
| account lifecycle (`services/kova-account/src/handlers/create.rs`, `close.rs`, `state_machine.rs`) | tables `accounts`, `account_number_seq` | create, close | modelled: `Accounts` |
| account reads (`handlers/balance.rs`, `statement.rs`, `get.rs`, `mod.rs`) | Redis keys `kova:balance:` | balance, statement, list, get, `AuthUser` | partly: balance in `Accounts`, statement in `LedgerStatement` |
| circuit breaker (`services/kova-gateway/src/middleware/circuit_breaker.rs`) | one `State` behind a mutex | `allow_request`, `on_success`, `on_failure` | modelled: `CircuitBreaker` |
| rate limiter (`middleware/rate_limit.rs`) | Redis counters per tier, client and minute | one Lua call per request | modelled: `Gateway` |
| gateway auth and routes (`middleware/auth.rs`, `router.rs`) | the key set | validation of a JWT, exempt paths; the handlers are stubs that answer 501 | partly: `Gateway` |
| Kafka wrappers (`crates/kova-kafka`) | positions and offsets, at the broker | publish with retries, consume, commit | modelled: `KafkaClients` |
| shared types (`crates/kova-types`) | none | payment and KYC status machines, money arithmetic | partly: `PaymentEvents` has the payment machine |
| event payloads (`crates/kova-types/src/events`) | none | none | partly: the payment topics in `PaymentEvents` |
| payments, cards, KYC, audit, fraud, FX, notifications, reconciliation services | none | none | one-line placeholders: nothing to model |

### How they interact

* Clients reach the services through the gateway, whose layers run in the order
  breaker, auth, rate limiter, tracing, routes (`router.rs` build; `routes.md`
  gives the opposite order). Replicas of the gateway share the counters in Redis
  and nothing else.
* `post_entry` and the outbox workers of all replicas of kova-ledger meet in
  `ledger_outbox`: a posting commits a row, a worker publishes it through
  `KovaKafkaProducer`. Readers and the reconciliation see the committed rows of
  `ledger_entries`.
* kova-account calls the ledger, the payments service and a publisher through
  the traits of `clients.rs`. The implementations in the repository are stubs;
  the model takes the traits at their word, with calls that may fail before or
  after their effect, and the statement endpoint is composed with the ledger that
  its trait describes.
* otp_verify and biometric_verify end in `issue_token_pair`, the sign-in of
  `Sessions`.
* The Redis list of revoked jtis is written by kova-auth and read by no code in
  the repository; `AuthClaims`, `AuthUser`, the gateway and the ledger's
  interceptor accept every unexpired access token.

### What is hard

Every handler is an async function whose statements are transactions of their
own unless it opens one, so that any two requests interleave at every await,
and a request may be dropped there. MySQL keeps an ownerless transaction's locks
until it notices. A reply may be lost after its effect. Kafka may take a message
and not acknowledge it, and gives partitions from one member of a group to
another. Timers (the TTLs of Redis keys, the opening of the breaker, the age of
tokens and codes, the hourly interval) run out between any two steps. An entry is
stamped before it is committed. The list "hazards" of `PROJECT.json` has each
place in the code with the properties that watch it.

### What makes each part correct

* posting: one entry per key; the same answer to a retry; a real conflict behind
  each refusal; an entry and its event together or not at all; an answer to each
  call.
* outbox: no mark without a sending; no row in two transactions; no duplicate
  without an unacknowledged attempt or a lost transaction; delivery once faults end.
* ledger: an event at the broker only for a committed entry, and for each
  acknowledged one; workers' locks do not stop postings for ever.
* reads: the pages of a statement descend, miss nothing that was there at the
  beginning, add up to the balance and come to an end.
* reconciliation: a pass a night, over everything that was active, with
  snapshots that go forward.
* Kafka and payments: offsets follow the processing; events of an entity are
  processed in the order of their topic, at least once, more often only after a
  fault; nothing is settled that was not approved.
* sessions: a spent token gives no pair to who comes later; a sweep misses no
  session that existed when it began; a family lies in one user.
* codes: one grant per code and per challenge; a bounded number of texts.
* accounts: a creation that was acknowledged stands; events tell the truth; a
  closed account was empty; cached balances become right.
* gateway: the breaker opens on the threshold and decides by its probe; the inner
  layers report every request to it once; a counter lets no more than its limit
  through, but for those that a late call begins anew.

## 2. The plan

What is done is marked.

1. `LedgerTypes`, `LedgerPosting` with the abstract `IdempotentLedger` (done,
   proved), `LedgerOutbox` (done, proved), `Ledger`, which composes them (done,
   proved to implement both).
2. `Sessions`, `OneTimeCodes`, `Accounts`, `CircuitBreaker` (done, proved).
3. `LedgerStatement` (done, proved), `Reconciliation` (done).
4. `Gateway`: the breaker composed with auth and the limiter (done, proved).
5. `KafkaClients`, `PaymentEvents` (done, proved).
6. Proofs that are left: the action properties of `Reconciliation`
   (OncePerNight, PassIsComplete, SnapshotsAdvance).
7. Models that are left: an outbox row that can never be published, device
   registration, the tracing layer's request id.

The abstract specifications stated: the atomic ledger that post_entry implements,
and the breaker as the layers inside it have to use it (`UsesBreaker`).

## 3. What is modelled

MySQL, Redis, Kafka and the clients of other services are modelled by what the
code uses of them, and those definitions are marked external in the map where no
line of the repository stands for them. Hashes, tokens, names and money are
abstracted to what the properties tell apart. Each definition of the form
"operator with a suffix that says what is wrong" (`PollUnlocked`, `SpendLater`)
is a mutation, used by no specification: putting it in the place of the operator
it follows breaks a property, and shows that the property depends on that code.

### Ledger: `LedgerTypes`, `LedgerPosting`, `IdempotentLedger`

A call is one invocation of `post_entry`; the UUID of its entry is the name of
the call, and a client's retry is another call. `pc` follows the handler:
`Begin` or `Reject` is the validation with the hash and the clock,
`InsertRow`/`InsertDuplicate` the INSERT into `ledger_entries`, `CheckFails` the
INSERT that a CHECK constraint refuses, `Enqueue` the INSERT into
`ledger_outbox`, `Commit` the COMMIT, `LookUp` the idempotency branch.
`pending` and `queued` hold what open transactions have written, `entries` and
`outbox` what is committed. An INSERT whose key an open transaction has inserted
can do neither: it waits, as in InnoDB. `Fail` stops a call at any statement and
leaves its rows pending until `Rollback`, which is how a dropped transaction
behaves; `CommitUnacknowledged` is the COMMIT whose reply is lost.

Data that matters: the key, whose column has a collation that ignores case (hence
`Folded`); the fields the payload hash digests, with the scale of the decimal,
because `amount.to_string()` shows it; amounts in a tenth of the unit of
DECIMAL(19,4), so that one can round to 0 (`Column`); rows from before migration
0002, which have no hash (`Legacy`, `NullHash`); the microseconds of DATETIME(6).
`IdempotentLedger` is the promise of the proto file: one step per call.

### Outbox: `LedgerOutbox`

Every replica runs one worker. `Poll` is the SELECT ... FOR UPDATE SKIP LOCKED,
`Publish` and `Mark` the two statements of the loop over the batch, `Commit` its
end, `PollEmpty`/`Wake` the idle sleep, `BackOff` the error path of
`run_outbox_worker` with its exponential delay. Rows are named by `created_at`
and appear in any order, because a row is stamped by its INSERT and seen at the
COMMIT. `Kafka` chooses the publisher of the build.

Publishing a row is a call of `KovaKafkaProducer::publish`, up to `MaxRetries`
attempts at the broker (`producer.rs:66-99`). `Publish` is the attempt that is
acknowledged; `Retry` one with a transient error, after which the next follows, the
transaction open; `PublishFails` one with another error or the last one, which
costs the batch. Whether the broker has the row after an error is open
(`Unacknowledged`), so that a publish that succeeds may have put the row there
several times. `sent` counts an attempt when it is made, though the broker may take
its message a little later. The other failures are `Fail`, `CommitUnacknowledged`
and `Crash`, which may come in the middle of an attempt. Each of these is one of
the `faults`; the locks of a lost transaction stay in `orphaned` until `Release`.

### Service: `Ledger`

The two above over one database: it extends `LedgerPosting` and instantiates
`LedgerOutbox` with the outbox rows of the postings as the visible rows of the
workers. `Advance`, `Post` and `Work` are their steps beside each other. What neither has alone is the gap lock
(`GapLocked`): the SELECT of a batch that is not full locks the place where the
next outbox row goes until the batch is committed, so that postings wait for the
publishing to Kafka.

### Reads: `LedgerStatement`

Entries are `Stamp`ed (post_entry has read the clock) and `Commit`ted in any
order while one reader pages; readers share nothing, so that one is enough. It
calls kova-ledger, or kova-account, which calls the ledger for it. `FirstPage`,
`NextPage`, `MalformedCursor`, `Expire` and `Refuse` are what a request can come
to; `ReadPage` is the one SELECT with `Matches` (the filters), `Beyond` (the
keyset condition) and the row beyond the limit, from which `NextCursor` makes the
cursor. A cursor counts its layers of base64: `Encode` gives one, `Wrap` is
kova-account's, `Decodes` wants one. `GetBalance` is the SUM of get_balance.
`AccessToken` is what kova-auth signs, `Interceptor` and `AuthUser` are the two
services' reading of it; it may expire between pages. The reader keeps what it saw (`seen`, `page`) and what it
was owed (`due`), for the properties.

### Reconciliation: `Reconciliation`

The clock counts minutes over a day of `Hours` of `Minutes`. `Fires` is the
interval of one hour from the start of the process, `due` a tick not yet taken
(one at most: Skip), `Wake` the test of the window. A pass is `SelectAccounts`,
then for each account `SelectCurrencies`, and for each currency `ReadBalance`,
`Compare`, `Insert`: one query each, with entries committed and the other
replicas' passes in between; `Finish` or `Fail` end it. A snapshot keeps the rows
that its balance sums, so that snapshots can be ordered, and two of them differ if
their sums do. `Restart` begins a process, its interval and its total anew.

### Kafka and payments: `KafkaClients`, `PaymentEvents`

The producer goes through `script`, the rows of an outbox for one entity:
`Publish` begins a publish, `Delivered`, `TransientError` (the broker may have
the message, and another attempt follows or the batch is given up) and
`PermanentError` end an attempt, `CommitBatch` marks what was sent; an error
sends the worker back to the first unmarked row. `log` holds the one partition
of each topic that the entity's key selects. The members of a group run the loop
of `lib.rs`: `Receive`, `Handle`, `CommitOffset`, one message at a time; a member
that `Rebalance` has robbed does not know it, and the broker ignores its commit.
One worker at a time publishes the rows of an entity: with several, each with rows
of the same entity in its batch, the order of a topic is nobody's promise.
A message that cannot be deserialised comes as an error without its offset
(`SkipUnreadable`). consume leaves it to the caller to skip or park it; the model
skips. The loop printed in `lib.rs` would end at its `result?` instead, come back
at the committed offset and meet the same message again, for ever.

`PaymentEvents` puts `PaymentStatus::transition` behind that loop: the events of
one payment, in the topics that carry them (`Tells`), drive its status. What
kova-payments will do with an event is not written; only that an event without a
transition changes nothing is assumed (`Process`). SubmittedToRail is in the
status machine and in no topic.

### kova-auth: `Sessions` and `OneTimeCodes`

`Sessions` names a session and both of its tokens by one identifier. A refresh is
`Present` (the SELECT), then `Sweep` (reuse) or `Spend` and `IssueNext` (the
UPDATE and the INSERT); the three revocations are a SELECT, an UPDATE and one
Redis call per jti. `age` abstracts the two lifetimes. `known` and `before`
record what there was when a call began, for the properties.

`OneTimeCodes` puts each request in a slot. otp_request is `CheckLimit` (GET),
`StoreCode`, `SendText`, `Count` (INCR), `SetWindow` (EXPIRE); otp_verify is
`VerifyCode`, `UseCode`, `IssuePair`; pin_set and pin_change are `ReadPin`,
`CheckCode`, `UseCode`, `WritePin`; the biometric handlers are `IssueChallenge`,
`AnswerChallenge` (GETDEL) and `IssuePair`. `AcceptCode` is the SELECT of the
newest unused, unexpired row, with `created_at` in seconds, which leaves the
order of two codes of one second open.

### kova-account: `Accounts`

Each request in a slot again: `TakeNumber`, `InsertAccount` or `AlreadyExists`,
`Open` or `OpenFails` with `Compensate`, `Announce` or `AnnounceFails` for a
creation; `StartClose`, `AskPayments`, `AskFunds`, `PersistClose`,
`AnnounceClose` for a close; `StartBalance`, `Hit` or `Miss`, `AskBalance`,
`FillCache` for a balance. No code in the repository makes an account Active yet;
`ChangeStatus` stands for whoever will, by the status machine, and `Post` for
the postings of the ledger, which does not know of accounts. The second GET of
the balance, after a ledger failure, is left out: it reads the key that was just
found empty and can only find it if another reader filled it in between.

### kova-gateway: `CircuitBreaker` and `Gateway`

In `CircuitBreaker` the mutex is taken before a request goes inside and after its
response, so that responses meet a breaker that other requests have changed.
`Respond` and `RespondError` are any response below 500, or not; `Drop` is the
client that goes away.

`Gateway` extends it with the layers inside. A request `Arrive`s past the breaker
(`Admit` or `Probe`) and authentication (`ValidateToken`, `IsExempt`) up to the
limiter, which reads the clock and names its counter (`KeyOf`); `RunScript` is the
Lua script at Redis, `FailOpen` a call that fails whether or not the script ran,
`GoAway` the client that leaves meanwhile; `Answer` takes 401, 429, or what the
route says back past the breaker, where 501s of the stubs count as failures and
401s and 429s as successes. `Tick` is a second, in which counters expire, whatever
calls of Redis are under way: neither `rate_limit.rs` nor the `ConnectionManager`
that `main.rs:31` makes sets a time for the answer. A script that is run after the
second that follows its minute is late (`IsLate`), and `restarts` records how often
such a script began a count. The counters are those of all replicas; the breaker
is that of one.

## 4. The runs

States are distinct states.

| Run | Module | States | Bounds | What it shows |
|---|---|---|---|---|
| posting | `MCLedgerPosting` | 100,694 | 3 calls; 8 requests: one, its retry under another case, a conflict, the same amount with more decimals, an amount that rounds to 0, a legacy key, another key, an invalid one | one entry per key, agreeing answers, durability of acknowledgements, entry and event together, justified refusals, the atomic ledger is implemented |
| outbox | `LedgerOutbox` | 436,348 | 2 workers, 3 rows, batches of 2, 3 attempts, 3 faults | at-least-once, disjoint batches, duplicates accounted for by unacknowledged attempts and lost transactions, delivery |
| ledger | `MCLedger` | 54,240 | 2 calls; 4 requests, one of an amount that rounds to 0; 2 workers, 3 attempts, 1 fault | no phantom events, acknowledged entries are published, postings behind a gap lock are answered |
| events | `MCPaymentEvents` | 690,288 | 2 members, MAX_RETRIES 2; a settled payment of 5 events and 1 fault, or 3 fraud decisions, one unreadable, and 3 faults | offsets follow processing, order per topic, duplicates need faults, settled was approved, everything is processed in the end |
| sessions | `MCSessions` | 1,091,193 | 3 sessions, 2 users, 2 calls | families, spent tokens, sweeps and the revocation list |
| codes | `MCOneTimeCodes` | 1,372,912 | 1 user, 2 slots, limit 1, 3 codes, 1 challenge, 1 fault | bound on texts, spent codes, single-use challenges |
| accounts | `Accounts` | 690,743 | 1 holder, 2 slots, 2 numbers, 1 posting, 2 faults | acknowledged creations stand, events are true, closed accounts were empty, the cache converges |
| gateway | `MCGateway` | 1,630,282 | 2 calls, 3 routes, threshold 2, limits 1, minutes of 2 s, 3 s, calls of Redis of up to 3 s, 1 fault or drop | the limit of a counter and what late calls add to it, the threshold, the probe's decision, each request reported once |
| statement | `MCLedgerStatement` | 422,534 | 4 entries, 3 instants, 15 queries, both services, pages of 1 to 3 | pages descend, nothing that was there is missed, the statement adds up to the balance, paging ends |
| statement_cursor | `MCLedgerStatement` | violation | the same | kova-account refuses the cursor it gave |
| reconciliation | `MCReconciliation` | 2,599,346 | 2 replicas, 2 entries, 2 hours of 4 minutes a day, windows of 3 minutes, passes of up to 4, 1 fault; minutes 7 to 11, around the first midnight | one pass a night per process, complete passes, snapshots that go forward |
| reconciliation_window | `MCReconciliation` | violation | 1 replica, minutes 4 to 10 | a replica that steps over the window |

Why the bounds are enough: each hazard needs at most two actors in conflict and
one that comes after. Three calls are a winner, a loser and a retry that finds
the outcome of either. Three rows and batches of two make full, partial and
queued batches; three faults let a publish succeed at its last attempt after two
that the broker took without an acknowledgement, use all its attempts up, or lose a
batch after any of these or after a COMMIT whose reply was lost. Three sessions are one rotated twice, or one and
two successors. With the limit at 1 a second text already needs a race, and the
bound the property states (the limit, less one, and the slots) is below the
three codes there are. Two account numbers are a creation and the duplicate that
it beats, or its retry; two faults are a failed entry and a failed DELETE. Four
entries and pages of one or two make three pages, with an entry that is
committed late before, on and behind the boundary, and two of one instant. A
payment of five events is the shortest that is settled; three decisions with one
unreadable between them and three faults let an ambiguous send, a rebalance and a
crash meet. In the gateway two calls are a late one and the one that follows it,
in two windows (minutes of two seconds and a time to live of three keep the
proportion of 60 and 61: one more than the window), and the theorems hold for any
number. A call that reads the clock in the first minute and comes in at the third
second finds its counter gone and begins another, so that both sides of the limit's
bound are reached. A day of two hours of four minutes leaves the window of three minutes
shorter than an hour, as the code's of eleven is (`ClockAssumption`): a process can
meet it once or step over it, and a pass of up to an hour can outlast it.

Cutting calls or faults off at a bound ends every behaviour, so liveness is
checked as "once faults end": that is what the code can promise.

`CHECK_DEADLOCK FALSE` stands where a bound or the code ends the run: all calls of
`posting` and `sessions` are made, all codes or account numbers used, all
events processed, the last second or minute passed. The outbox and the ledger
have it on: their workers never stop.

These properties are stated in the modules and are in no configuration; add one
to the cfg to see what it says.

* Violated by the code (section 6): `RotationIsAtomic` (sessions),
  `OneGrantPerCode` (codes, with `Limit = 2` and `MaxCodes = 2`),
  `FailedCreateLeavesNoRow` (accounts), `MarkedWasSent` with `Kafka = FALSE`
  (outbox), `HalfOpenEnds` (`CircuitBreaker` with `FairSpec`, four calls,
  threshold 5, two drops).
* Proved for every instance: `TypeOK` of posting, outbox, breaker, gateway,
  sessions, codes, accounts and statement, `LookUpFindsRow`, `MarkIsFinal`,
  `CountsConsecutive`, `OneProbe`, `FastFails`.
* `TypeOK` of `Reconciliation`, which has no proofs, holds when it is added.

### Fairness

Only steps that the runtime or a server takes by itself are fair, all weakly: a
handler or worker that can go on is polled by tokio (`Proceed`, `Work`); MySQL
rolls back a transaction whose connection is gone (`Rollback`, `Release`); a Redis
TTL runs out (`CacheExpires`); a request inside the gateway ends, because a call of
Redis returns or fails some time, however late (`GatewayFairSpec`); a worker goes on publishing, the broker
answers, and every member's loop goes on (`PaymentFairness`). Of a client it is
assumed only that one that has a cursor asks for the next page (`FairSpec` of
`LedgerStatement`): PagingEnds is about the pages, not about the client. Otherwise
no request has to come, none has to fail, and a row may stay locked for any finite
time. `Reconciliation` has no fairness and needs none: its clock does not pass a
tick that is due.

## 5. What is proved

For every value of the constants, from the named ASSUMEs of the modules (which
TLC evaluates on the instances) and nothing else.

**Posting** (`LedgerProofs`). None of the safety properties is inductive
by itself: that a key has one committed entry says nothing of the rows that
transactions hold. `IInv` adds

* `KeyLock`: one row per key among committed *and* pending rows. This is what the
  wait of the INSERT buys, and it makes a COMMIT harmless;
* `PendingOwned`, `QueuedOwned`, `CommittedOwned`: each row is the row of its
  call, whose `pc` says that it is inside the transaction, or over;
* `Stamped`: `created_at` tells outbox rows apart, over both tables;
* `EventOfEntry`, `LookUpFindsRow`, `AcknowledgedIsDurable`, `RefusalJustified`
  themselves, and `Asked` and `Answers`, which tie answers to `pc`.

`Invariant` is Spec => []IInv, with a lemma per action. From it:
`PostingTypeCorrect`, `OneEntryPerKey`, `IdempotentAnswers`,
`AcknowledgedDurable`, `TransactionalOutbox`, `ConflictsAreReal`.

**Refinement** (`LedgerProofs`). `PostingIsAtomic`: `LedgerPosting`
implements `IdempotentLedger`. A call takes effect at its COMMIT, or when it
reads the row it lost to; every other step stutters under the mapping. `IInv`
is needed where a COMMIT must be the first with its key.

**Outbox** (`LedgerOutboxProofs`). `IInv` ties what a worker holds to where it is
(`Held`), says that what it has dealt with was sent (`DealtWithWasSent`), and
accounts for each sending of a row by the transaction that holds it or by a fault
(`SentInVain`): an unacknowledged attempt pays for what it may have sent whether
the publish goes on or not (`AttemptPaid`). From it: `OutboxTypeCorrect`, `BatchesDisjoint`, `AtLeastOnce`
(for a build with Kafka), `DuplicatesBounded`, `MarksAreFinal`, and
`OnlyCommittedSent`: what is sent was committed by a posting.

**Service** (`LedgerProofs`). `PostingInLedger` and `OutboxInLedger`: `Ledger`
implements `LedgerPosting` and `LedgerOutbox`, so that what is proved of the two
holds where they meet. The gap locks only delay an INSERT. To the workers a COMMIT
has to be one row that appears, a new one, among the rows they may come to see;
that is where the invariant of the postings comes in (`CommitAppears`), with
`StampInv`: each INSERT is of a call of its own, so that the stamps stay within
the number of calls. From the two: `EventsAreOfEntries` and `LedgerKeepsItsParts`.

**Statement** (`LedgerStatementProofs`). What a page is, first, for any set of rows:
`TopRows` keeps the newest (`TopIsClosed`), all of few (`TopOfFew`) and as many as
were asked for of many (`TopIsFull`), so that a page either is everything that was
left (`LastPage`) or has a cursor at its oldest row with everything that was left
out behind it (`FullPage`). The invariant says that the cursor divides: what the
reader has is not beyond it, what it is owed is beyond it or seen (`PagingInv`).
Entries that are committed late, on either side, do not touch that. `ReportInv`
ties GetBalance to rows that the statement owes. From `IInv`: `StatementDescends`,
`NothingIsMissed`, `StatementIsBalance`, `StatementTypeCorrect`. The sum itself is
not looked into: equal sets have equal sums, which is all that is needed.

**Sessions** (`SessionsProofs`). A refresh reads in one transaction and writes in
another, and nothing holds the row meanwhile, so each property needs to know what
a call under way may count on (`CallInv`: a session it is to rotate exists and is
of its user; the caching of jtis begins when the UPDATE is over) and what those
that ended before another began have left behind (`PairInv`). The parents and the
owners of sessions never change and `revoked` only grows (`Advance`), so that most
steps keep all of it. From `IInv`: `FamiliesSpent`, `SpentRefused`,
`SweepsComplete`, `CacheFollowsDatabase`, `SessionsTypeCorrect`.

**Codes** (`OneTimeCodesProofs`). `TextsBounded` is not inductive, because the
counter is read before the text and raised after it. `LimitInv` says where the
difference is: in requests that have texted and not counted, and in faults; and
that those who have still to text had room when they read the counter.
`ChallengeInv` follows a challenge from the key of one phone to one request and to
its pair, which GETDEL allows to happen once. `CodeInv` and `JobInv` tie a code
that is used to the request that marked it. From `IInv`: `LimitHolds`,
`ChallengeIsSingleUse`, `GrantedStaysSpent` (an action property),
`CodesTypeCorrect`.

**Accounts** (`AccountsProofs`). A request under way has a right to what it read
only as far as `JobInv` says: the account of a creation is its own (`OneCreator`,
from the sequence of numbers: `NumbersAreNew`), its row stands until it compensates
itself, and the balance that a close read can have changed only by a late posting.
From `IInv`: `CreationStands`, `AccountEventsAreTrue`, `ClosedIsEmpty`,
`AccountsTypeCorrect`.

**Kafka and payments** (`PaymentEventsProofs`). The producer's half (`ProducerInv`):
a partition holds no row before the earlier rows of its topic (`NoGaps`), although
a batch that is begun again repeats rows, and what the batch is past was sent
(`SentSoFar`). The consumer's half (`MemberInv`, `HandInv`): what a member has
received was processed or is in its hand, and the message in hand comes after
what was processed. `NoFaultInv` keeps the stronger account of the time before the
first fault, for `OnceUnlessFaults`. From `IInv`: `CommitFollowsProcessing`,
`OrderPerTopic`; and since `PaymentEvents` implements `KafkaClients`
(`PaymentsAreClients`), `SettlementNeedsApproval` with `StatusInv`, which says what
each status stands for. Scripts are finite sequences of events that have a topic
(`ScriptAssumption`); of members and topics nothing is assumed.

**Breaker** (`GatewayProofs`). The invariant is inductive as it stands:
`BreakerCounts`, then the action properties `BreakerOpens` and
`BreakerFastFails`.

**Gateway** (`GatewayProofs`). `GatewayUsesBreaker`: every step of the gateway is a
step of the breaker or leaves it alone, so that the gateway implements
`CircuitBreaker` and inherits its theorems (`GatewayBreakerOpens`).
`GatewayLimits`: `WindowLimit` alone is not inductive, because a counter that
expires while a call in time is under way would be counted from 0 again.
`LimiterInv` adds that a waiting call has read the clock already (`Waiting`), that a
counter outlives the calls that are in time for it, and that, as long as it lives or
such a call may begin it, it has counted every request it let through since the
count began (`Counted`); each count that a late call begins is one of `restarts`.
Nothing is assumed of the time that a call of Redis takes. The extra second of `Ttl`
is what keeps the calls of the second after the minute in one count: without it
(the mutation `TtlOfWindow`) TLC finds a counter that lets more through although no
call was late.

**The assumptions** are types and bounds of constants (finitely many calls, rows and
slots, natural numbers for limits, values such as `None` that are no other value),
and what the collation and the migrations say of keys (`FoldedAssumption`,
`LegacyAssumption`).

**Only model-checked.** Liveness (`Delivered`, `AcknowledgedIsPublished`,
`PostingAnswered`, `CacheConverges`, `ProbeDecides`, `PagingEnds`,
`EverythingIsProcessed`) and ENABLED, which are out of reach of the prover; and
the three action properties of `Reconciliation`, which no theorem states yet.

## 6. Where the code and its documents differ

Shown by a run:

* `statement_cursor`: kova-account encodes the ledger's cursor, which is base64
  already, once more (`handlers/statement.rs:72`) and passes what comes back on as
  it is (`:55`), where the ledger refuses it. Its client is a stub so far, so that
  the page breaks when the real one is put in.
* `reconciliation_window`: the hourly interval counts from the start of the
  process (`reconciliation.rs:38-50`); one that starts between minute 6 and minute
  54 never has a tick in the window that `main.rs:8` says is used nightly.

Shown by adding a property to a configuration (section 4):

* `RotationIsAtomic`: SELECT, UPDATE and INSERT of a rotation are three
  transactions, and the UPDATE does not test `revoked_at`, so two refreshes at
  once each get a successor (`tokens.rs:171`). `TASKS.md:700` and the comment at
  `tokens.rs:170` say that it is atomic.
* `OneGrantPerCode`: the UPDATE that marks a code does not test `used_at`
  (`otp.rs:157`), so two requests at once can both use it. `TASKS.md:681` says a
  second use is refused.
* `FailedCreateLeavesNoRow`: a publish that fails leaves the account
  (`create.rs:117`); `create.rs:9` says that it is rolled back.
* `MarkedWasSent` without the feature kafka, which is how the Dockerfile builds:
  rows are marked as published and never sent (`outbox.rs:39`).
* `HalfOpenEnds`: a probe that is dropped leaves the breaker half-open for ever
  (`circuit_breaker.rs:184`).

Seen while modelling, in the models or the code, without a run of their own:

* The first answer of `post_entry` has the nanoseconds of the clock, a replay the
  microseconds of the row (`posting.rs:132` and `157-165`).
* The hash digests the text of the decimal, so that 10.00 and 10.0000 under one
  key are a conflict (`idempotency.rs:30`; the run posting has such requests).
* A positive amount that DECIMAL(19,4) rounds to 0 passes the validation and is
  answered with a database error (`CheckFails`). Of any other amount with more
  decimals the hash and the event carry what was asked, the row what was stored
  (`posting.rs:94` and `112`).
* The event goes to the topic "kova.ledger.entry.created" with four fields
  (`posting.rs:109-118`); kova-types has "kova.ledger.entry_created" and other
  fields (`events/ledger.rs:15` and `25-39`).
* Workers publish inside the transaction that locks the batch (`outbox.rs:129`);
  `crates/kova-kafka/src/producer.rs:9` says never to.
* "Idempotent producer prevents duplicates on retry" (`producer.rs:40`) does not
  span the attempts that publish makes itself; in `KafkaClients` and `LedgerOutbox`
  each may be another message.
* A family that is revoked because of a reuse (`tokens.rs:158`) misses the session
  that a rotation under way inserts after the UPDATE: `SweepIsComplete` speaks of
  the sessions that there were when the sweep began.
* A rotation whose INSERT fails has spent its session and made no other
  (`tokens.rs:182`); `FamilyIsSpent` allows it, and the client has to sign in again.
* A session that is issued between the SELECT and the UPDATE of a revocation of all
  (`device.rs:100`) is revoked in the database and not in Redis, to which
  `CachedIsRevoked` says only the converse.
* A member that loses its partitions and gets them back commits the offset of the
  message it still has in hand, which may lie before the committed one.
* `Settled` is called terminal (`payment.rs:47`, `is_terminal` at 70 "no further
  transitions possible") and goes on to Refunded (164); "any non-terminal state"
  times out (101), but SettlementSubmitted does not.
* A duplicate of FraudApproved moves a payment from Validating to FraudCheck and
  on to FxConversion (`payment.rs:149`); SettledWasApproved holds all the same,
  because no status is reached without one approval.
* The limiter is called a sliding window (`rate_limit.rs:1`); it is a fixed window
  of the clock's minute, and two windows side by side let twice the limit through
  within a minute. A call of Redis that comes in later than the second after its
  minute finds the counter gone and lets as many through again (`WindowLimit` counts
  them: `restarts`). A retry_after that is computed after the minute has changed
  counts to the end of the next one (`:198`).
* X-KOVA-Request-ID is set inside the other layers, so that 401, 429 and 503 do not
  have it (`router.rs:68`).
* 501s of the stubs open the breaker for the health probe as well, so that five
  calls of unimplemented routes make it answer 503 (`render.yaml:104` polls it);
  401s and 429s reset the count, and close a half-open breaker.
* A success of a request that was let in before the opening closes an open
  breaker at once (`circuit_breaker.rs:77`); line 5 says it stays open for 30
  seconds.
* If the EXPIRE of the code limit is lost, the counter has no TTL and the phone
  is refused for good (`otp.rs:90`). With fairness on `WindowEnds`,
  "a full counter is emptied" fails on `OneTimeCodes`.
* The branch `OtpAlreadyUsed` cannot be reached, because the SELECT leaves used
  rows out (`otp.rs:133` and `147`): a second use gets the answer of a wrong or
  expired code, not 409.
* The balance that allows a close is read before the UPDATE, which does not test
  it again, and the ledger posts to closed accounts (`close.rs:79-102`):
  `ClosedWasEmpty` holds only up to postings after the read.
* The same two reads let a close overlap the compensation of a creation and
  announce the closing of an account that has no row.
* A pass compares the snapshot of an earlier night with the balance of now, so that
  ordinary activity counts as a mismatch and raises the alarm of `TASKS.md:988`
  (`Compare`). After midnight CURDATE() is the new day, of which there is next to
  nothing. A query that fails drops the mismatches counted so far
  (`reconciliation.rs:70`).
* `TASKS.md:985` wants a job that may run twice a day without a second snapshot;
  every replica writes its own (`reconciliation.rs:140`), and a slow one an older
  one after a newer (SnapshotsAdvance allows it between replicas only). Migration
  0001:50 says that snapshots are those of kova-reconciliation and hold all
  entries up to snapshot_at; an entry that was stamped before and committed
  after is not among them.
* A from_time or to_time that is out of range is ignored, not refused
  (`server.rs:132`; `TimeOf`).
* as_of of GetBalance is the time of the latest entry, not of the reading.
* `money.rs:200` says that `+` panics on overflow; it returns an Option.

## 7. What is not modelled, and why

The services that are placeholders have no code. Handlers behind the gateway are
stubs. Event payloads, identifiers, configuration, tracing, health endpoints and
the shape of JSON answers carry no state. `Money` and the KYC status machine of
kova-types are called by no service: without a caller there is no state that they
could put in order, and the unit tests beside them enumerate what they return.
`get.rs` reads rows and masks numbers. Argon2, SHA-256 and RS256 are taken to
do what they are for. The overflow of counters is out of reach in practice (a
64-bit identifier, a 32-bit error count that grows once in 30 seconds). Device
registration is an upsert that nothing reads.

Not covered by a property: an outbox row that can never be published stays first
in its batch and holds back the rows behind it (`outbox.rs:129`; `Delivered`
assumes that faults end); events of different entries are published by several
replicas in any order, about which nothing is promised; two pin_set requests at
once, of which the later replaces the PIN of the earlier (`pin.rs:62`).

The statement is modelled with one entry table that only grows; deleting entries
is refused by a trigger. Time is in whole instants: clocks of several replicas of
kova-ledger that differ, which would let an entry be stamped behind a page even
without a slow commit, behave in the model like a commit that is late.
