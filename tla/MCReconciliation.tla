-------------------------- MODULE MCReconciliation --------------------------
(* A small instance of Reconciliation: two entries between two accounts. *)
EXTENDS Reconciliation, TLC

CONSTANTS alice, bob

Transfer(from, to, amount, currency) ==
  [debit |-> from, credit |-> to, amount |-> amount, currency |-> currency]

MCData == <<Transfer(alice, bob, 1, "NGN"), Transfer(bob, alice, 2, "NGN")>>

Alike == Permutations(Replicas)

=============================================================================
