SPECIFICATION FairSpec
CONSTANTS
  Names = {"a"}
  Verbs = {"v"}
  Declares <- MCDeclares
  Callers <- MCCallers
  MaxInc = 1
  MaxSubs = 1
  EventQueue = 1
  Ops = {"spawn"}
  Requests = {"subscribe"}
  MaxInputs = 2
PROPERTIES CrashIsReclaimed
CHECK_DEADLOCK FALSE
