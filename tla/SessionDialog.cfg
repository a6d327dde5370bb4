CONSTANTS
  c1 = c1
  c2 = c2
  Boot = Boot
  Nobody = Nobody
  HasAgent = TRUE
  Calls <- TwoCalls
  Kinds <- Kind
  MaxClients = 1
  MaxSteps = 1
SPECIFICATION Spec
INVARIANTS
  RunDialogUndisturbed
