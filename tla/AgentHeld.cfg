CONSTANTS
  c1 = c1
  c2 = c2
  me = me
  guest = guest
  Calls <- TwoCalls
  Workloads <- ShellWork
  MaxText = 1
  MaxMoves = 1
  Users <- Alone
  Me = me
  KnownWords = TRUE
SPECIFICATION FairSpec
PROPERTIES
  TimeoutsEndCalls
CHECK_DEADLOCK FALSE
