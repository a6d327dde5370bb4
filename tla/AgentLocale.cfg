CONSTANTS
  c1 = c1
  c2 = c2
  me = me
  guest = guest
  Calls <- TwoCalls
  Workloads <- Reconnecting
  MaxText = 1
  MaxMoves = 1
  Users <- Alone
  Me = me
  KnownWords = FALSE
SPECIFICATION Spec
INVARIANTS
  ReportedTrue
CHECK_DEADLOCK FALSE
