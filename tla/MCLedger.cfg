SPECIFICATION Spec
CONSTANTS
  alice = alice
  bob = bob
  budget = budget
  lock = lock
  alias = alias
  device = device
  nothing = nothing
  w1 = w1
  noWorker = noWorker
  noPool = noPool
  Subject <- MCSubject
  Class <- MCClass
  Decl <- MCDecl
  Pool = {budget, lock, alias}
  ClassOf <- MCClassOf
  Frag <- MCFrag
  ClaimOf <- MCClaimOf
  CapacityOf <- MCSmallCapacityOf
  Zero <- MCZero
  Admits <- MCAdmits
  Target <- MCTarget
  PolicyOf <- MCPolicyOf
  Alias <- MCAlias
  Worker <- MCWorker
  NoWorker = noWorker
  NoPool = noPool
  Free = free
  Spent = spent
  LeaseRequest <- MCLeaseRequest
  Instantiation <- MCInstantiation
  Outcome <- MCOutcome
  MaxId = 3
  MaxTime = 1
  MaxAttempts = 1
SYMMETRY Symmetry
INVARIANTS
  TypeOK
  WithinCapacity
  ForestKept
  NoSharedTarget
  ObligationKept
PROPERTIES
  FreedOnlyWhenConfirmed
  ImplementsClaims
