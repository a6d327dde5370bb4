---------------------------- MODULE MCOAuthStore ----------------------------
(* OAuthStore with two grants that ask for different redirects and          *)
(* challenges, and token requests right and wrong in each field.            *)
EXTENDS OAuthStore, TLC

CONSTANTS g1, g2, e1, e2

TwoGrants == {g1, g2}
TwoExchanges == {e1, e2}

Callback(port) == [uri |-> "callback", port |-> port]
Unregistered == [uri |-> "elsewhere", port |-> 1]
Registrations == {"callback"}

Right(g, port, verifier) ==
  [grantType |-> "authorization_code", code |-> g, client |-> "client",
   redirect |-> Callback(port), verifier |-> verifier, secretKnown |-> TRUE]

GoodAsk(port, challenge) ==
  [responseType |-> "code", client |-> "client", redirect |-> Callback(port),
   challenge |-> challenge, method |-> "S256"]

SomeAsks ==
  {GoodAsk(1, "v1"), [GoodAsk(2, "v2") EXCEPT !.method = ""],
   [GoodAsk(1, "v1") EXCEPT !.redirect = Unregistered],
   [GoodAsk(1, "v1") EXCEPT !.client = "other"],
   [GoodAsk(1, "") EXCEPT !.method = "plain"]}

SomeForms ==
  UNION {{Right(g, 1, "v1"), Right(g, 2, "v2"), Right(g, 2, "v1"), Right(g, 1, "v2"),
          [Right(g, 1, "v1") EXCEPT !.client = "other"],
          [Right(g, 1, "v1") EXCEPT !.secretKnown = FALSE],
          [Right(g, 1, "v1") EXCEPT !.grantType = "password"]} : g \in Grants}
  \cup {Right(Never, 1, "v1")}

StoreSymmetry == Permutations(Grants) \cup Permutations(Exchanges)
=============================================================================
