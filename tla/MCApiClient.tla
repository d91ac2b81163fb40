---------------------------- MODULE MCApiClient ----------------------------
(* Callers, methods and configurations of the TLC instances of ApiClient.   *)
EXTENDS ApiClient

CONSTANTS a, b2, d, z1, z2

MixedMethod == [c \in Callers |-> IF c = a THEN "GET" ELSE "POST"]
RestMethod == [c \in Callers |-> "GET"]
GraphMethod == [c \in Callers |-> "POST"]
OneScope == [c \in Callers |-> z1]

Doubling == [n \in 0 .. Attempts - 1 |-> 2 ^ n]

Bucket(r, n) == [rate |-> r, burst |-> n]

\* GraphQL refills at one token a tick, the others at half of it.
Account ==
  [rest |-> Bucket(1, 1), graphql |-> Bucket(2, 2), total |-> Bucket(1, 2),
   scope |-> Bucket(1, 1), accountBased |-> TRUE, maxPause |-> 2]
PerToken == [Account EXCEPT !.accountBased = FALSE]
\* One token a tick everywhere, one token at most but for the total.
Even ==
  [rest |-> Bucket(1, 1), graphql |-> Bucket(1, 1), total |-> Bucket(1, 2),
   scope |-> Bucket(1, 1), accountBased |-> TRUE, maxPause |-> 2]
EvenOrMore == {Even, [Even EXCEPT !.rest = Bucket(1, 2)]}
\* Unit = 3: GraphQL refills two thirds of a token a tick, the others a whole one.
Fractional ==
  [rest |-> Bucket(3, 1), graphql |-> Bucket(2, 1), total |-> Bucket(3, 2),
   scope |-> Bucket(3, 1), accountBased |-> TRUE, maxPause |-> 2]
FractionalOnly == {Fractional}
BothMeters == {Account, PerToken}
=============================================================================
