SPECIFICATION Spec
CONSTANTS
  Id = {a}
  Declaration <- MCDeclaration
  Grant <- MCGrant
  Effects <- MCEffects
  MaxTime = 3
  MaxMissed = 2
  MaxEmits = 1
  MaxTable = 1
INVARIANTS
  RowsAreTheTruth
  NothingLostInSilence
PROPERTIES
  SettledOnce
