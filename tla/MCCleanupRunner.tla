-------------------------- MODULE MCCleanupRunner --------------------------
(***************************************************************************)
(* A device, a part that is bound to it and an account under it with a     *)
(* lease of its own that has run out.  The least fresh session is next.    *)
(***************************************************************************)
EXTENDS CleanupRunner

CONSTANTS daemon, command, sweeper, client, nobody, part, device, nothing, unit, noPool

MCSubject == {"plugin", "user"}
MCOneSubject == {"user"}
MCClass == {"managed", "account"}
MCDecl == [c \in MCClass |->
  [policy |-> IF c = "managed" THEN "process" ELSE AccountingOnly, duration |-> NoDuration]]
MCPool == {"things", "money"}
MCClassOf == [p \in MCPool |-> IF p = "things" THEN "managed" ELSE "account"]
MCFrag == {unit}
MCFamily == [p \in MCPool |-> MCFrag]
MCAdmits(c, f) == TRUE
MCTarget == {device, part, nothing}
MCPolicyOf == [t \in MCTarget |-> IF t = nothing THEN AccountingOnly ELSE "process"]
MCAlias == {<<t, t>> : t \in {device, part}}
MCOutcome == {"confirmed", "already_absent", "retryable"}
MCRunner == {sweeper, client}

MCSameProcess == [r \in MCRunner |-> daemon]
MCTwoProcesses == [r \in MCRunner |-> IF r = sweeper THEN daemon ELSE command]

Row(s, p, parent, lease, t) ==
  [subject |-> s, pool |-> p, frag |-> unit, parent |-> parent, lease |-> lease,
   state |-> "active", target |-> t]

SeedWith(rows) ==
  [capacities |-> [p \in MCPool |-> unit], holdings |-> [i \in 0 .. MaxId - 1 |-> rows[i + 1]],
   next_id |-> MaxId]

Device == Row("plugin", "things", NoParent, Unbounded, device)
Part == Row("plugin", "things", 0, ParentBound, part)
Account == Row("user", "money", 0, Until(0), nothing)

MCSeed == SeedWith(<<Device, Part, Account>>)
MCSmallSeed == SeedWith(<<[Device EXCEPT !.subject = "user"], Account>>)
=============================================================================
