-------------------------- MODULE MCLedgerPosting --------------------------
(* Small instances of LedgerPosting. *)
EXTENDS LedgerPosting, TLC

CONSTANTS c1, c2, c3, key1, KEY1, key2, key3, alice, bob

\* key1 and KEY1 differ in case only, which the collation of the column ignores.
MCFolded == (key1 :> key1) @@ (KEY1 :> key1) @@ (key2 :> key2) @@ (key3 :> key3)

Transfer(k, a, s, cur) == [key |-> k, debit |-> alice, credit |-> bob,
                           amount |-> a, scale |-> s, currency |-> cur]

\* A request, its resubmission under the other spelling of the key, two conflicts
\* (another amount, and the same one with more decimals), an unrelated request,
\* one on a key from before the migration, an invalid one, and one whose amount
\* is positive and rounds to zero.
MCRequests == {Transfer(key1, 50, 2, "NGN"), Transfer(KEY1, 50, 2, "NGN"),
               Transfer(key1, 70, 2, "NGN"), Transfer(key1, 50, 4, "NGN"),
               Transfer(key2, 50, 2, "NGN"), Transfer(key3, 50, 2, "NGN"),
               Transfer(key1, 50, 2, "EUR"), Transfer(key1, 4, 5, "NGN")}
=============================================================================
