----------------------------- MODULE PlanShapes -----------------------------
(***************************************************************************)
(* Effect plans as trees, and what is computed from a tree alone: its      *)
(* metering shape (portos-kernel/src/plan_ir.rs), what the shape requires  *)
(* (portos-rm/src/coeffect.rs) and the protocol states it can lead to      *)
(* (portos-rm/src/protocol.rs).                                            *)
(*                                                                         *)
(* A statement is a record whose field op is "let", "effect", "if" or      *)
(* "foreach".  An expression is what it reads from drivers and the         *)
(* variables it uses.  What a verb requires is its capabilities and, when  *)
(* the truth table says so, one use of itself; dependencies are required   *)
(* exactly as capabilities are and are left out.                           *)
(***************************************************************************)
EXTENDS Integers, FiniteSets, SequencesExt

CONSTANTS
  Effect,       \* verbs that bear a budget
  CapsOf,       \* CapsOf[v]: the capabilities a verb's manifest entry requires
  Withheld,     \* the effects that are withheld until an approval
  Start,        \* the initial state of the protocol
  Transitions   \* <<state, verb, state>>, deterministic

ASSUME ShapeAssumption ==
  /\ Effect \subseteq DOMAIN CapsOf
  /\ Withheld \subseteq Effect
  /\ \A t, u \in Transitions : t[1] = u[1] /\ t[2] = u[2] => t = u

----------------------------------------------------------------------------
(* to_ast_nodes and Plan::from_ast: what bears no budget becomes an empty  *)
(* sequence.                                                               *)
ShapeSeq(items) == [kind |-> "seq", items |-> items]
RECURSIVE Shape(_)
Shape(stmts) ==
  LET One(s) ==
        CASE s.op = "effect" -> [kind |-> "verb", verb |-> s.verb]
          [] s.op = "foreach" -> [kind |-> "loop", bound |-> s.bound, body |-> Shape(s.body)]
          [] s.op = "if" -> [kind |-> "branch", a |-> Shape(s.then), b |-> Shape(s.else)]
          [] s.op = "let" -> ShapeSeq(<<>>)
  IN ShapeSeq([i \in DOMAIN stmts |-> One(stmts[i])])

----------------------------------------------------------------------------
(* Requires: a set of capabilities and a vector of counts; absent is 0.    *)
Ign == [caps |-> {}, uses |-> [v \in Effect |-> 0]]
Unit(v) == [caps |-> CapsOf[v], uses |-> [u \in Effect |-> IF u = v THEN 1 ELSE 0]]
Plus(r, s) ==
  [caps |-> r.caps \cup s.caps, uses |-> [v \in Effect |-> r.uses[v] + s.uses[v]]]
Scale(n, r) == [caps |-> r.caps, uses |-> [v \in Effect |-> n * r.uses[v]]]
Larger(m, n) == IF m >= n THEN m ELSE n
Join(r, s) ==
  [caps |-> r.caps \cup s.caps, uses |-> [v \in Effect |-> Larger(r.uses[v], s.uses[v])]]
Covered(r, s) == r.caps \subseteq s.caps /\ \A v \in Effect : r.uses[v] <= s.uses[v]

(* demand_sum counts both arms of a branch. *)
RECURSIVE DemandSum(_)
DemandSum(p) ==
  CASE p.kind = "verb" -> Unit(p.verb)
    [] p.kind = "seq" -> FoldLeft(LAMBDA r, q : Plus(r, DemandSum(q)), Ign, p.items)
    [] p.kind = "loop" -> Scale(p.bound, DemandSum(p.body))
    [] p.kind = "branch" -> Plus(DemandSum(p.a), DemandSum(p.b))

(* demand_paths takes the larger arm: what some run can really need. *)
RECURSIVE DemandPaths(_)
DemandPaths(p) ==
  CASE p.kind = "verb" -> Unit(p.verb)
    [] p.kind = "seq" -> FoldLeft(LAMBDA r, q : Plus(r, DemandPaths(q)), Ign, p.items)
    [] p.kind = "loop" -> Scale(p.bound, DemandPaths(p.body))
    [] p.kind = "branch" -> Join(DemandPaths(p.a), DemandPaths(p.b))

(* admit_plan, and admit_mount of a driver with the given verbs.           *)
AdmitPlan(p, ceiling) == Covered(DemandSum(p), ceiling)

(* Mutant: one verb that fits lets the driver in. *)
MutAdmitMount(verbs, offers) == \E v \in verbs : CapsOf[v] \subseteq offers
AdmitMount(verbs, offers) == \A v \in verbs : CapsOf[v] \subseteq offers

----------------------------------------------------------------------------
(* Protocol: a verb in no transition leaves the state alone, and one with  *)
(* no transition where it occurs is a violation.                           *)
Violation == "violation"
Scoped == {t[2] : t \in Transitions}
ProtocolStep(state, v) ==
  IF v \notin Scoped THEN state
  ELSE IF \E t \in Transitions : t[1] = state /\ t[2] = v
    THEN (CHOOSE t \in Transitions : t[1] = state /\ t[2] = v)[3]
    ELSE Violation
CheckSequence(verbs) == FoldLeft(ProtocolStep, Start, verbs)

(* Mutant: a loop is taken to run as often as its bound says. *)
MutAfterLoop(after, bound) == after[bound]
AfterLoop(after, bound) == UNION {after[n] : n \in 0 .. bound}

(* reach: the states after some path, a violation on any path among them:  *)
(* nothing leads out of it but verbs that are not scoped.                  *)
RECURSIVE Reach(_, _)
Reach(p, states) ==
  CASE p.kind = "verb" -> {ProtocolStep(s, p.verb) : s \in states}
    [] p.kind = "seq" -> FoldLeft(LAMBDA cur, q : Reach(q, cur), states, p.items)
    [] p.kind = "loop" ->
         LET after[n \in 0 .. p.bound] == IF n = 0 THEN states ELSE Reach(p.body, after[n - 1])
         IN AfterLoop(after, p.bound)
    [] p.kind = "branch" -> Reach(p.a, states) \cup Reach(p.b, states)

(* project keeps the shape and the verbs in keep. *)
RECURSIVE Project(_, _)
Project(p, keep) ==
  CASE p.kind = "verb" -> IF p.verb \in keep THEN p ELSE ShapeSeq(<<>>)
    [] p.kind = "seq" -> ShapeSeq([i \in DOMAIN p.items |-> Project(p.items[i], keep)])
    [] p.kind = "loop" -> [p EXCEPT !.body = Project(p.body, keep)]
    [] p.kind = "branch" -> [p EXCEPT !.a = Project(p.a, keep), !.b = Project(p.b, keep)]

CheckPlan(p) == Violation \notin Reach(p, {Start})

(* Mutant: effects are taken to happen in the order of the plan. *)
MutCheckWorldOrder(p) == CheckPlan(p)

(* check_plan_world_order: withheld effects happen after all the others.   *)
CheckWorldOrder(p) ==
  CheckPlan(ShapeSeq(<<Project(p, Effect \ Withheld), Project(p, Withheld)>>))
=============================================================================
