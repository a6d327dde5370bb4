CONSTANTS
  c1 = c1
  c2 = c2
  NoCall = NoCall
  Calls <- TwoCalls
  MaxDrops = 2
SPECIFICATION FairSpec
INVARIANTS
  ReadsWholeFiles
  OldestFirst
  RepeatedOnlyByDrop
  RepliedLeavesNoFile
PROPERTIES
  ImplementsRelay
  EveryRelayReturns
  RequestsHandled
CHECK_DEADLOCK FALSE
