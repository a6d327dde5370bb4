CONSTANTS
  Unset = Unset
  Tier1 <- Observing
  Tier2 <- Interacting
  Tier3 <- Destructive
  Files <- SomeFiles
  NoFile <- EmptyFile
  Keys <- SomeKeys
  CommandLines <- SomeLines
SPECIFICATION Spec
INVARIANT
  SameSurface
CHECK_DEADLOCK FALSE
