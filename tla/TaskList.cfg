CONSTANTS
  c1 = c1
  c2 = c2
  c3 = c3
  NoTask = NoTask
  Calls <- TwoCalls
  Tools <- ClickAndList
  Limit <- MCLimit
  MaxHistory = 1
SPECIFICATION Spec
PROPERTY
  ListsAllActive
CHECK_DEADLOCK FALSE
