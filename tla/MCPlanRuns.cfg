SPECIFICATION FairSpec
CONSTANTS
  first = first
  second = second
  third = third
  fourth = fourth
  nobody = nobody
  main = main
  other = other
  Consent = {first, second, third, fourth}
  NoConsent = nobody
  Budget <- MCBudget
  Expiry <- MCExpiry
  Plan <- MCPlan
  Loop = 2
  Admitted = 2
  Mode = {"strict", "truncate", "escalate"}
  Caller = {main, other}
  MaxTime = 2
  MaxFaults = 1
INVARIANTS
  WithinConsent
  
  
  
PROPERTIES
  AbortStands
  
  
CHECK_DEADLOCK FALSE
