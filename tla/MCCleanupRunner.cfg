SPECIFICATION RunnerSpec
CONSTANTS
  daemon = daemon
  command = command
  sweeper = sweeper
  client = client
  nobody = nobody
  part = part
  device = device
  nothing = nothing
  unit = unit
  noPool = noPool
  Subject <- MCSubject
  Class <- MCClass
  Decl <- MCDecl
  Pool <- MCPool
  ClassOf <- MCClassOf
  Frag <- MCFrag
  ClaimOf <- MCFamily
  CapacityOf <- MCFamily
  Zero = unit
  Admits <- MCAdmits
  Target <- MCTarget
  PolicyOf <- MCPolicyOf
  Alias <- MCAlias
  Worker = {1, 2, 3, 4}
  NoWorker = 0
  NoPool = noPool
  LeaseRequest = {}
  Instantiation = {}
  Outcome <- MCOutcome
  MaxId = 3
  MaxTime = 0
  MaxAttempts = 3
  Runner <- MCRunner
  Process = {daemon}
  ProcessOf <- MCSameProcess
  Sweeper = sweeper
  NoProcess = nobody
  Seed <- MCSeed
  MaxFaults = 1
INVARIANTS
  AttemptIsOurs
  FreedMeansGone
  NoneLeftBehind
PROPERTIES
  ChildrenGoFirst
CHECK_DEADLOCK FALSE
