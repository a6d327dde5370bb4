CONSTANTS
  c1 = c1
  c2 = c2
  NoCall = NoCall
  Calls <- TwoCalls
  MaxDrops = 1
SPECIFICATION Spec
INVARIANTS
  NeverReprocessed
CHECK_DEADLOCK FALSE
