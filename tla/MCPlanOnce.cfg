SPECIFICATION Spec
CONSTANTS
  first = first
  second = second
  third = third
  fourth = fourth
  nobody = nobody
  main = main
  other = other
  Consent = {first, second, third, fourth}
  NoConsent = nobody
  Budget <- MCBudget
  Expiry <- MCExpiry
  Plan <- MCPlan
  Loop = 2
  Admitted = 2
  Mode = {"strict", "truncate", "escalate"}
  Caller = {main}
  MaxTime = 2
  MaxFaults = 1
INVARIANTS
  ExactlyOnce
CHECK_DEADLOCK FALSE
