SPECIFICATION FairSpec
CONSTANTS
  Names = {"a", "b"}
  Verbs = {"v"}
  Declares <- MCDeclares
  Callers <- MCCallers
  MaxInc = 2
  MaxSubs = 1
  EventQueue = 1
  Ops = {"spawn", "emit", "reclaim", "subscribe"}
  Requests = {"spawn_child", "invoke", "subscribe", "unsubscribe"}
  MaxInputs = 4
INVARIANTS FreedLeavesNothing NothingUnderRetiring ClosedMeansDead
PROPERTIES ReclaimEnds
CHECK_DEADLOCK FALSE
