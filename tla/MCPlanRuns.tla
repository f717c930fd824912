----------------------------- MODULE MCPlanRuns -----------------------------
(***************************************************************************)
(* A plan whose loop is over its bound from the start.  The first consent  *)
(* pays for what the bound admits, the second for nothing the run needs,   *)
(* the others for the rest or for the batch.  They outlive the first.      *)
(***************************************************************************)
EXTENDS PlanRuns

CONSTANTS first, second, third, fourth, nobody, main, other

MCBudget == [c \in Consent |->
  IF c = second THEN 0 ELSE 2]
MCExpiry == [c \in Consent |-> IF c = first THEN 1 ELSE 2]
MCPlan == <<"emit", "emit", "withhold", "withhold">>
=============================================================================
