SPECIFICATION Spec
CONSTANTS
  MaxCount = 3
  MaxFrac = 3
  Point <- MCPoint
  Claim <- MCClaim
  Capacity <- MCCapacity
  MaxLive = 3
INVARIANTS
  GateIsExact
  FragmentLaws

