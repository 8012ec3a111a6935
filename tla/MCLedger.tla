------------------------------ MODULE MCLedger ------------------------------
(* A small instance of Ledger: two calls and two workers. *)
EXTENDS Ledger, TLC

CONSTANTS c1, c2, key1, key2, alice, bob

MCFolded == (key1 :> key1) @@ (key2 :> key2)

Transfer(k) == [key |-> k, debit |-> alice, credit |-> bob, amount |-> 50,
                scale |-> 2, currency |-> "NGN"]

MCRequests == {Transfer(key1), Transfer(key2), [Transfer(key1) EXCEPT !.amount = 0],
               [Transfer(key1) EXCEPT !.amount = 4]}

=============================================================================
