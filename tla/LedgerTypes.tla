---------------------------- MODULE LedgerTypes ----------------------------
(***************************************************************************)
(* The requests of kova-ledger's PostEntry, their validation, the payload  *)
(* hash that tells a retry from a conflict and the comparison of           *)
(* idempotency keys: what the posting path and its abstract specification  *)
(* share.                                                                  *)
(***************************************************************************)
EXTENDS Integers

CONSTANTS
  Calls,      \* invocations of post_entry
  Keys,       \* idempotency keys, as the callers spell them
  Folded,     \* [Keys -> Keys]: the spelling that utf8mb4_unicode_ci compares
  Accounts,   \* account ids
  Requests,   \* the requests callers may send
  Legacy,     \* keys whose rows are older than migration 0002
  NullHash,   \* the payload_hash of those rows
  NoRequest   \* no request yet

(***************************************************************************)
(* An amount is a number of hundred-thousandths, one digit more than the   *)
(* column DECIMAL(19,4) has, and the scale with which the caller wrote it: *)
(* Decimal keeps the scale of the string it was parsed from.               *)
(***************************************************************************)
Request == [key : Keys, debit : Accounts, credit : Accounts,
            amount : Int, scale : Nat, currency : STRING]

\* A payload hash is the tuple of the fields that SHA-256 digests.
Hashes == [debit : Accounts, credit : Accounts, amount : Int, scale : Nat,
           currency : STRING]

\* The row that predates the hash column is named by its key.
Ids == Calls \cup Legacy

ASSUME RequestsAssumption == Requests \subseteq Request
ASSUME FoldedAssumption   == Folded \in [Keys -> Keys]
ASSUME LegacyAssumption   ==
  /\ Legacy \subseteq Keys
  /\ \A k, l \in Legacy : Folded[k] = Folded[l] => k = l
ASSUME NamesAssumption    ==
  /\ Calls \cap Keys = {}
  /\ NullHash \notin Hashes
  /\ NoRequest \notin Request

SupportedCurrencies == {"NGN", "GBP", "USD", "KES"}

\* The column keeps ten-thousandths; MySQL rounds a half up to them.
Column(amount) == (amount + 5) \div 10

\* The CHECK constraints and the ENUM of the table ledger_entries.
MeetsChecks(h) == /\ Column(h.amount) > 0
                  /\ h.debit # h.credit
                  /\ h.currency \in SupportedCurrencies

\* The validation at the head of post_entry.
Valid(r) == /\ r.amount > 0
            /\ r.debit # r.credit
            /\ r.currency \in SupportedCurrencies

\* compute_payload_hash digests amount.to_string(), which shows the scale.
Hash(r) == [debit |-> r.debit, credit |-> r.credit, amount |-> r.amount,
            scale |-> r.scale, currency |-> r.currency]

SameKey(k, l) == Folded[k] = Folded[l]
=============================================================================
