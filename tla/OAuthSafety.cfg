CONSTANTS
  g1 = g1
  g2 = g2
  e1 = e1
  e2 = e2
  Never = Never
  Grants <- TwoGrants
  Exchanges <- TwoExchanges
  Asks <- SomeAsks
  Forms <- SomeForms
  Client = "client"
  RedirectURIs <- Registrations
  CodeLifetime = 1
  TokenLifetime = 2
  UseKey = TRUE
  UseAllowlist = TRUE
  MaxTime = 4
  MaxRestarts = 1
SPECIFICATION Spec
SYMMETRY StoreSymmetry
INVARIANTS
  DueToItsGrant
  ServedExactly
PROPERTIES
  AddingPrunes
  ImplementsGrant
CHECK_DEADLOCK FALSE
