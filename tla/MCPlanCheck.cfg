SPECIFICATION Spec
CONSTANTS
  Effect = {"send", "close"}
  Observe = {"list"}
  Compute = "compute"
  CapsOf <- MCCapsOf
  Withheld = {"close"}
  Start = "shut"
  Transitions <- MCTransitions
  Submitted <- MCSubmitted
  Offer <- MCOffer
  noSlot = noSlot
  NoSlot = noSlot
  Granted <- MCGranted
  S_MAX = 20
  MAX_NODES = 9
  MAX_DEPTH = 4
  MaxWord = 30
  MaxUnits = 3
  MaxList = 3
  MaxResumes = 1
INVARIANTS
  BudgetCovers
  EffectsArePaid
  WorldOrderLegal
CHECK_DEADLOCK FALSE
