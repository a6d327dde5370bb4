CONSTANTS
  c1 = c1
  c2 = c2
  me = me
  guest = guest
  Calls <- TwoCalls
  Workloads <- SomeWork
  MaxText = 1
  MaxMoves = 2
  Users <- TwoUsers
  Me = me
  KnownWords = TRUE
SPECIFICATION MCSpec
INVARIANTS
  StuckKeysReported
  BlockHasOneOwner
  ReportedTrueIfKnown
PROPERTIES
  NoNeedlessTakeover
  ReturnsUnlessHeld
CHECK_DEADLOCK FALSE
