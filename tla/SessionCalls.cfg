CONSTANTS
  c1 = c1
  c2 = c2
  Boot = Boot
  Nobody = Nobody
  HasAgent = TRUE
  Calls <- TwoCalls
  Kinds <- Kind
  MaxClients = 2
  MaxSteps = 2
SPECIFICATION MCSpec
INVARIANTS
  OneLiveClient
  NoInputToDeadSession
  NoHalfOpenSession
  WakeOnlyUnused
  ButtonReleased
  InputsUninterrupted
  NothingLeftBehind
PROPERTIES
  EveryCallReturns
