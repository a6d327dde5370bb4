CONSTANTS
  Unset = Unset
  Tier1 <- Observing
  Tier2 <- Interacting
  Tier3 <- Destructive
  Files <- SomeFiles
  NoFile <- EmptyFile
  Keys <- SomeKeys
  CommandLines <- SomeLines
  Coordinates <- Positions
  MaxSteps = 6
  Letters <- TwoLetters
  MaxText = 4
  Words = {"x"}
  Kept = 2
  MaxPiece = 3
  MaxStream = 5
  Runes <- TwoLetters
  fuzzyMaxLen = 4
  MaxName = 5
SPECIFICATION MCSpec
INVARIANTS
  NetworkNeedsKey
  Tier3OnlyIfAsked
  ExcludedStayOff
  SurfaceReproduced
  TypedFaithfully
  TailKeepsNewest
  CauseReported
  BestAlignment
PROPERTIES
  GlideOnTrack
CHECK_DEADLOCK FALSE
