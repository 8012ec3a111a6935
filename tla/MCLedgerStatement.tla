-------------------------- MODULE MCLedgerStatement --------------------------
(* A small instance of LedgerStatement: four entries, two of them in the same *)
(* currency and of the same account in either direction.                      *)
EXTENDS LedgerStatement

CONSTANTS alice, bob, customer, key

Transfer(from, to, amount, currency) ==
  [debit |-> from, credit |-> to, amount |-> amount, currency |-> currency]

MCData == <<Transfer(alice, bob, 4, "NGN"), Transfer(bob, alice, 7, "NGN"),
            Transfer(alice, bob, 1, "GBP"), Transfer(alice, bob, 2, "NGN")>>

MCOwned == [u \in {customer} |-> {alice}]

Query(account, currency, from, to, limit) ==
  [token |-> AccessToken(customer, MaxTime), account |-> account,
   currency |-> currency, from |-> from, to |-> to, limit |-> limit]

MCQueries ==
  {Query(alice, c, None, None, l) : c \in {None, "NGN"}, l \in {1, 2}}
    \cup {Query(alice, "NGN", 2, None, 1), Query(alice, None, MaxTime + 1, 2, 1),
          Query(alice, "EUR", None, None, 2), Query(bob, None, None, None, 2),
          Query(alice, None, None, None, 0), Query(alice, None, None, None, None),
          Query(alice, None, None, None, MaxLimit + 1)}
    \cup {[Query(alice, None, None, None, 1) EXCEPT !.token = t] :
            t \in {None, [AccessToken(customer, MaxTime) EXCEPT !.key = None],
                  AccessToken(None, 1), AccessToken(customer, 1)}}

=============================================================================
