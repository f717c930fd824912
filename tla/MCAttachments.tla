--------------------------- MODULE MCAttachments ---------------------------
(* One attachment under declarations that cover every trigger and every    *)
(* overflow policy, and two that rest on one grant.                        *)
EXTENDS Attachments

Topic == [trigger |-> "topic", integrity |-> TRUE, budget |-> 1, nMax |-> 2, ttl |-> 2,
          period |-> 1, minInterval |-> 1, depth |-> 1, overflow |-> "coalesce",
          failureBudget |-> 2, grants |-> {}]

MCDeclaration ==
  {Topic,
   [Topic EXCEPT !.overflow = "drop_oldest", !.failureBudget = 1, !.integrity = FALSE],
   [Topic EXCEPT !.overflow = "fail_stop", !.nMax = 1, !.minInterval = 0],
   [Topic EXCEPT !.trigger = "timer", !.overflow = "drop_newest", !.ttl = 3],
   [Topic EXCEPT !.trigger = "manual", !.minInterval = 0, !.grants = {"g"}]}
MCGrant == {"g"}
MCEffects == {<<>>, <<1>>, <<1, 1>>}
=============================================================================
