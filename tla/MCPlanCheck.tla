---------------------------- MODULE MCPlanCheck ----------------------------
(***************************************************************************)
(* All plans of one shape over one part, and all of two levels over small  *)
(* parts: effects that happen at once ("send") or on approval ("close"),   *)
(* and a variable that is read and used.                                   *)
(***************************************************************************)
EXTENDS PlanCheck

CONSTANT noSlot

MCCapsOf == [v \in {"send", "close", "list"} |->
  CASE v = "send" -> {"net"} [] v = "close" -> {"net", "fs"} [] v = "list" -> {}]

(* A connection that is opened by what is sent. *)
MCTransitions ==
  {<<"shut", "send", "live">>, <<"live", "send", "live">>, <<"live", "close", "shut">>}

MCConst == [reads |-> {}, vars |-> {}]
MCUse == [reads |-> {}, vars |-> {"x"}]
MCList == [reads |-> {"list"}, vars |-> {}]
MCPure == [reads |-> {"compute"}, vars |-> {}]

MCEffect(v, arg) == [op |-> "effect", verb |-> v, arg |-> arg]
MCLet == [op |-> "let", var |-> "x", expr |-> MCList]
MCIf(p, q) == [op |-> "if", guard |-> MCPure, then |-> p, else |-> q]
MCForeach(n, m, p) ==
  [op |-> "foreach", var |-> "x", list |-> MCList, bound |-> n, mode |-> m, body |-> p]

MCMode == {"strict", "truncate", "escalate"}
MCSend == <<MCEffect("send", MCConst)>>
MCClose == <<MCEffect("close", MCConst)>>
MCParts ==
  {MCSend, MCClose, <<MCLet>>, <<MCEffect("send", MCUse)>>, <<MCEffect("send", MCList)>>}

MCOver(P, Q, bounds) ==
  {p \o q : p \in P, q \in Q} \cup {<<MCIf(p, q)>> : p \in P, q \in Q}
  \cup {<<MCForeach(n, m, p)>> : n \in bounds, m \in MCMode, p \in P}
MCLevel1 == MCOver(MCParts, MCParts, {0, 1, 2, 4})
MCSmall == {MCSend, MCClose}
(* The two loops in each other would run once, if the word wrapped. *)
MCSubmitted ==
  MCLevel1 \cup MCOver(MCOver(MCSmall \cup {<<MCLet>>}, MCSmall, {0, 1, 2}), MCSmall, {1, 2})
  \cup {MCClose \o MCSend \o MCSend, <<MCForeach(8, "truncate", <<MCForeach(4, "strict", MCSend)>>)>>,
        <<MCIf(<<MCIf(<<MCIf(<<MCIf(MCSend, <<>>)>>, <<>>)>>, <<>>)>>, <<>>)>>}

MCOffer == {{"net", "fs"}, {"net"}, noSlot}
MCGranted == {{"send", "close", "list", "compute"}, {"send", "list"}}
=============================================================================
