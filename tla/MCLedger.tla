------------------------------ MODULE MCLedger ------------------------------
(***************************************************************************)
(* A ledger small enough for TLC: a counted budget whose rows only account *)
(* for themselves, and two names of one exclusive device that cleanup has  *)
(* to remove from the world.                                               *)
(***************************************************************************)
EXTENDS LedgerClaims, TLC

CONSTANTS alice, bob, budget, lock, alias, device, nothing, w1, noWorker, noPool

RA == INSTANCE ResourceAlgebra WITH MaxCount <- 3, MaxFrac <- 2

MCSubject == {alice, bob}
MCClass == {"budget", "lock"}
MCDecl == [c \in MCClass |->
  IF c = "budget" THEN [policy |-> AccountingOnly, duration |-> NoDuration]
                  ELSE [policy |-> "file_lock", duration |-> 1]]

MCClassOf == [p \in Pool |-> IF p = budget THEN "budget" ELSE "lock"]
Count(n) == <<"counted", n>>
Token == <<"exclusive", "token">>
MCFrag == {Count(0), Count(1), Count(2), Token}
MCClaimOf == [p \in Pool |-> IF p = budget THEN {Count(1)} ELSE {Token}]
MCSmallCapacityOf == [p \in Pool |-> IF p = budget THEN {Count(0), Count(1)} ELSE {Token}]
MCZero == Count(0)
MCAdmits(c, f) == RA!AuthValid(c, f)
MCTarget == {nothing, device}
MCPolicyOf == [t \in MCTarget |-> IF t = device THEN "file_lock" ELSE AccountingOnly]
MCAlias == {<<device, device>>}
MCWorker == {w1}
MCLeaseRequest ==
  {[kind |-> "default", arg |-> 0], [kind |-> "parent_bound", arg |-> 0]}
MCOutcome == {"confirmed", "retryable"}

MCInstantiation == {<<bob, alice>>}

Symmetry == Permutations({lock, alias})
=============================================================================
