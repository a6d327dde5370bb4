CONSTANTS
  c1 = c1
  c2 = c2
  c3 = c3
  NoTask = NoTask
  Calls <- ThreeCalls
  Tools <- AllKinds
  Limit <- MCLimit
  MaxHistory = 1
SPECIFICATION MCSpec
INVARIANTS
  SlotAccounting
  ActiveTasksTracked
  HistoryKeepsNewest
  AnswerMatchesVerdict
PROPERTIES
  NoStartAfterCancel
  ImplementsPool
  EveryCallAnswered
CHECK_DEADLOCK FALSE
