------------------------------ MODULE MCGateway ------------------------------
(* A small instance of Gateway: a user, an address and one key. *)
EXTENDS Gateway

CONSTANTS user, address, key

MCLimit == [t \in Tiers |-> 1]

MCKeySet == [kid \in {"default"} |-> key]

Token(kid, exp) ==
  [alg |-> "RS256", kid |-> kid, key |-> key, iss |-> "kova-auth", exp |-> exp,
   sub |-> user]

Request(path, forwarded, token) ==
  [path |-> path, forwarded |-> forwarded, token |-> token]

MCRequests ==
  {Request("/health", <<>>, None), Request("/auth/otp", <<address>>, None),
   Request("/payments", <<>>, Token(None, 0))}

=============================================================================
