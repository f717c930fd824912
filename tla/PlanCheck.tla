----------------------------- MODULE PlanCheck -----------------------------
(***************************************************************************)
(* The admission of a plan (portos-kernel/src/plancheck.rs), against what  *)
(* the interpreter (plans/interpreter.rs) then does with it: which verbs   *)
(* it calls, how often, in which order, and what pays for that.  The       *)
(* states of a run, its threads and its crashes are PlanRuns'.             *)
(*                                                                         *)
(* The labels of values, and with them the refusal of a sink, are left     *)
(* out: a plan that is refused for a label is not run.                     *)
(***************************************************************************)
EXTENDS PlanShapes

CONSTANTS
  Observe,      \* verbs that only read
  Compute,      \* compute::run, what pure expressions call
  Submitted,    \* the plans that are submitted
  Offer,        \* what the slot of the driver may offer, or NoSlot
  NoSlot,       \* the driver was started in no slot
  Granted,      \* the live grants the submitter may have, as verbs
  S_MAX, MAX_NODES, MAX_DEPTH,
  MaxWord,      \* the largest u64
  MaxUnits,     \* consents for up to so many uses of every effect
  MaxList,      \* the longest list a foreach meets
  MaxResumes

ASSUME CheckAssumption ==
  /\ Observe \cap Effect = {} /\ Observe \subseteq DOMAIN CapsOf
  /\ Compute \notin Observe \cup Effect
  /\ {S_MAX, MAX_NODES, MAX_DEPTH, MaxWord, MaxUnits, MaxList, MaxResumes} \subseteq Nat
  /\ S_MAX < MaxWord

VARIABLES
  plan, offers, grants,
  adm,         \* what admission derived
  phase,       \* submitted, refused, admitted, running, paused, awaiting, releasing, ended
  stack,       \* the interpreter's: statements left, loop body, rounds left, mode
  env,         \* the variables that have a value
  named,       \* the effects the first consent names
  granted,     \* the uses that the consents so far pay for
  pool,        \* what is left of them
  fiber,       \* the verbs of the run's capabilities
  world,       \* the effects that happened, in order
  buffer,      \* the effects withheld
  steps,       \* the statements executed
  resumes

input == <<plan, offers, grants>>
paid == <<named, granted, pool, fiber>>
vars == <<input, adm, phase, stack, env, paid, world, buffer, steps, resumes>>

Verbs == Observe \cup Effect
Least(m, n) == IF m <= n THEN m ELSE n

----------------------------------------------------------------------------
(* walk_stmts.  A walk stops at its first error.                           *)
NoWalk == [err |-> "none", env |-> {}, budget |-> <<>>, steps |-> 0, nodes |-> 0]
Stopped(w, err) == [w EXCEPT !.err = err]

(* The driver has schemas once it runs; only a slot asks what it requires. *)
Mounted == offers # NoSlot => AdmitMount(Verbs, offers)
Schemas == IF Mounted THEN Verbs ELSE {}

(* One node each for what is read and the variables; a constant is one too. *)
ExprNodes(e) == Larger(1, Cardinality(e.reads) + Cardinality(e.vars))
ExprChecked(w, e) ==
  LET counted == [w EXCEPT !.nodes = @ + ExprNodes(e)] IN
  IF ~ e.reads \subseteq (Schemas \cap Observe) \cup {Compute} THEN Stopped(counted, "UnknownVerb")
  ELSE IF ~ e.vars \subseteq w.env THEN Stopped(counted, "UnknownVar")
  ELSE counted

AddTo(budget, v, n) ==
  [u \in DOMAIN budget \cup {v} |-> (IF u \in DOMAIN budget THEN budget[u] ELSE 0)
                                    + (IF u = v THEN n ELSE 0)]

(* Mutant: the body of a loop is charged once. *)
MutRounds(mult, bound) == mult
Rounds(mult, bound) == Least(mult * bound, MaxWord)

RECURSIVE Walk(_, _, _, _)
Walk(start, stmts, mult, depth) ==
  LET Visit(w, s) ==
        LET n == [w EXCEPT !.nodes = @ + 1, !.steps = Least(@ + mult, MaxWord)] IN
        IF w.err # "none" THEN w
        ELSE IF n.steps > S_MAX THEN Stopped(n, "StepCeiling")
        ELSE CASE s.op = "let" ->
                    LET e == ExprChecked(n, s.expr)
                    IN IF e.err = "none" THEN [e EXCEPT !.env = @ \cup {s.var}] ELSE e
               [] s.op = "effect" ->
                    LET e == ExprChecked(n, s.arg)
                    IN IF s.verb \notin Schemas \cap Effect THEN Stopped(n, "UnknownVerb")
                       ELSE IF e.err = "none" THEN [e EXCEPT !.budget = AddTo(@, s.verb, mult)]
                       ELSE e
               [] s.op = "if" ->
                    LET g == ExprChecked(n, s.guard)
                        t == IF g.err = "none" THEN Walk(g, s.then, mult, depth + 1) ELSE g
                    IN IF t.err = "none" THEN Walk(t, s.else, mult, depth + 1) ELSE t
               [] s.op = "foreach" ->
                    LET l == ExprChecked(n, s.list)
                    IN IF l.err = "none"
                         THEN Walk([l EXCEPT !.env = @ \cup {s.var}], s.body,
                                   Rounds(mult, s.bound), depth + 1)
                         ELSE l
  IN IF depth > MAX_DEPTH THEN Stopped(start, "TooDeep") ELSE FoldLeft(Visit, start, stmts)

Admit ==
  LET w == Walk(NoWalk, plan, 1, 1)
  IN IF w.err = "none" /\ w.nodes > MAX_NODES THEN Stopped(w, "TooLarge") ELSE w

(* verb_demand does not look at the arguments of effects. *)
RECURSIVE VerbDemand(_)
VerbDemand(stmts) ==
  UNION {LET s == stmts[i] IN
         CASE s.op = "let" -> s.expr.reads
           [] s.op = "effect" -> {s.verb}
           [] s.op = "if" -> s.guard.reads \cup VerbDemand(s.then) \cup VerbDemand(s.else)
           [] s.op = "foreach" -> s.list.reads \cup VerbDemand(s.body) : i \in DOMAIN stmts}

----------------------------------------------------------------------------
(* The run. *)
NoUses == [v \in Effect |-> 0]
Uses(budget) == [v \in Effect |-> IF v \in DOMAIN budget THEN budget[v] ELSE 0]
More(f, g) == [v \in Effect |-> f[v] + g[v]]
Count(seq) == [v \in Effect |-> Cardinality({i \in DOMAIN seq : seq[i] = v})]

Frame(body, rounds, mode) ==
  [rest |-> body, body |-> body, left |-> rounds - 1, mode |-> mode]
NextRound(frame) == Frame(frame.body, frame.left, frame.mode)

Init ==
  /\ plan \in Submitted /\ offers \in Offer /\ grants \in Granted
  /\ adm = NoWalk /\ phase = "submitted"
  /\ stack = <<>> /\ env = {}
  /\ named = {} /\ granted = NoUses /\ pool = NoUses /\ fiber = {}
  /\ world = <<>> /\ buffer = <<>> /\ steps = 0 /\ resumes = 0

Submit ==
  /\ phase = "submitted"
  /\ adm' = Admit
  /\ phase' = IF adm'.err = "none" /\ VerbDemand(plan) \subseteq grants THEN "admitted"
              ELSE "refused"
  /\ UNCHANGED <<input, stack, env, paid, world, buffer, steps, resumes>>

(* Consents that are signed for a plan: its budget, without the effects it *)
(* is 0 for, or the same number for every effect.                          *)
Consents ==
  {adm.budget, [v \in {u \in DOMAIN adm.budget : adm.budget[u] > 0} |-> adm.budget[v]]}
  \cup {[v \in Effect |-> n] : n \in 0 .. MaxUnits}
Fits(consent) == \A v \in DOMAIN adm.budget : adm.budget[v] <= Uses(consent)[v]

Mints(uses, verbs) ==
  /\ granted' = More(granted, uses)
  /\ pool' = More(pool, uses)
  /\ fiber' = fiber \cup verbs

(* start; mint_fiber_caps counts a verb only if the consent names it. *)
StartRun(consent) ==
  /\ phase = "admitted"
  /\ Fits(consent)
  /\ phase' = "running"
  /\ stack' = <<Frame(plan, 1, "none")>>
  /\ LET verbs == VerbDemand(plan)
     IN /\ named' = DOMAIN consent \cap verbs
        /\ Mints([v \in Effect |-> IF v \in verbs THEN Uses(consent)[v] ELSE 0], verbs)
  /\ UNCHANGED <<input, adm, env, world, buffer, steps, resumes>>

(* exec_stmts. *)
Top == Last(stack)
Head1 == Top.rest[1]
Past == [stack EXCEPT ![Len(stack)].rest = Tail(@)]
At(op) == phase = "running" /\ stack # <<>> /\ Top.rest # <<>> /\ Head1.op = op
Step == steps' = steps + 1
Evaluates(e) == e.reads \subseteq fiber /\ e.vars \subseteq env
CurrentMode ==
  LET loops == SelectSeq(stack, LAMBDA f : f.mode # "none")
  IN IF loops = <<>> THEN "strict" ELSE Last(loops).mode

(* A block or a round is over, and at last the plan. *)
Leave ==
  /\ phase = "running"
  /\ stack # <<>>
  /\ Top.rest = <<>>
  /\ stack' = IF Top.left > 0
                THEN [stack EXCEPT ![Len(stack)] = NextRound(@)]
                ELSE Front(stack)
  /\ phase' = IF stack' # <<>> THEN phase ELSE IF buffer = <<>> THEN "ended" ELSE "awaiting"
  /\ UNCHANGED <<input, adm, env, paid, world, buffer, steps, resumes>>

ExecLet ==
  /\ At("let")
  /\ Evaluates(Head1.expr)
  /\ env' = env \cup {Head1.var}
  /\ stack' = Past
  /\ Step
  /\ UNCHANGED <<input, adm, phase, paid, world, buffer, resumes>>

ExecIf ==
  /\ At("if")
  /\ Evaluates(Head1.guard)
  /\ \E arm \in {Head1.then, Head1.else} : stack' = Append(Past, Frame(arm, 1, "none"))
  /\ Step
  /\ UNCHANGED <<input, adm, phase, env, paid, world, buffer, resumes>>

(* Mutant: a list that is too long is cut one element too late. *)
MutTaken(n, s) == IF n <= s.bound \/ s.mode = "escalate" THEN n ELSE s.bound + 1
Taken(n, s) == IF n <= s.bound \/ s.mode = "escalate" THEN n ELSE s.bound

(* A list that is too long ends a strict run, and parks an escalating one. *)
ExecForeach ==
  /\ At("foreach")
  /\ Evaluates(Head1.list)
  /\ \E n \in 0 .. MaxList :
       /\ n <= Head1.bound \/ Head1.mode # "strict"
       /\ LET taken == Taken(n, Head1)
          IN /\ stack' = IF taken = 0 THEN Past
                         ELSE Append(Past, Frame(Head1.body, taken, Head1.mode))
             /\ env' = IF taken = 0 THEN env ELSE env \cup {Head1.var}
       /\ phase' = IF n > Head1.bound /\ Head1.mode = "escalate" THEN "paused" ELSE "running"
  /\ Step
  /\ UNCHANGED <<input, adm, paid, world, buffer, resumes>>

ExecWithheld ==
  /\ At("effect")
  /\ Evaluates(Head1.arg)
  /\ Head1.verb \in Withheld
  /\ buffer' = Append(buffer, Head1.verb)
  /\ stack' = Past
  /\ Step
  /\ UNCHANGED <<input, adm, phase, env, paid, world, resumes>>

(* Mutant: a pool that is used up is taken for one that never was. *)
MutFree(v) == v \in VerbDemand(plan) /\ pool[v] = 0

(* An effect that the first consent does not name is not counted. *)
Free(v) == v \in VerbDemand(plan) \ named
CanSpend(v) == v \in fiber /\ (Free(v) \/ pool[v] > 0)
Spend(v) == pool' = IF Free(v) THEN pool ELSE [pool EXCEPT ![v] = @ - 1]
Due == At("effect") /\ Evaluates(Head1.arg) /\ Head1.verb \notin Withheld

ExecEffect ==
  /\ Due
  /\ CanSpend(Head1.verb)
  /\ Spend(Head1.verb)
  /\ world' = Append(world, Head1.verb)
  /\ stack' = Past
  /\ Step
  /\ UNCHANGED <<input, adm, phase, env, named, granted, fiber, buffer, resumes>>

Gives == phase' = "ended" /\ buffer' = <<>> /\ stack' = <<>>

(* The gate refuses: the innermost loop's mode says what then. *)
GateRefuses == Due /\ ~ CanSpend(Head1.verb)
ExecRefused ==
  /\ GateRefuses
  /\ IF CurrentMode = "escalate" THEN phase' = "paused" /\ UNCHANGED <<buffer, stack>> ELSE Gives
  /\ UNCHANGED <<input, adm, env, paid, world, steps, resumes>>

(* A statement fails, or a suspended run is aborted: the batch is dropped. *)
GiveUp ==
  /\ phase \in {"running", "paused", "awaiting", "releasing"}
  /\ Gives
  /\ UNCHANGED <<input, adm, env, paid, world, steps, resumes>>

(* resume: the increment mints pools of its own, whatever the plan needs. *)
Resume(verbs) ==
  /\ phase = "paused"
  /\ resumes < MaxResumes
  /\ resumes' = resumes + 1
  /\ Mints([v \in Effect |-> IF v \in verbs THEN 1 ELSE 0], verbs)
  /\ phase' = "running"
  /\ UNCHANGED <<input, adm, stack, env, named, world, buffer, steps>>

(* approve, under a consent that covers the batch: minted for, released in *)
(* order.                                                                  *)
Approve ==
  /\ phase = "awaiting"
  /\ phase' = "releasing"
  /\ Mints(Count(buffer), {buffer[i] : i \in DOMAIN buffer})
  /\ UNCHANGED <<input, adm, stack, env, named, world, buffer, steps, resumes>>

Release ==
  /\ phase = "releasing"
  /\ CanSpend(buffer[1])
  /\ Spend(buffer[1])
  /\ world' = Append(world, buffer[1])
  /\ buffer' = Tail(buffer)
  /\ phase' = IF buffer' = <<>> THEN "ended" ELSE phase
  /\ UNCHANGED <<input, adm, stack, env, named, granted, fiber, steps, resumes>>

Next ==
  \/ Submit
  \/ phase = "admitted" /\ \E c \in Consents : StartRun(c)
  \/ Leave \/ ExecLet \/ ExecIf \/ ExecForeach \/ ExecWithheld \/ ExecEffect
  \/ ExecRefused \/ GiveUp
  \/ \E verbs \in SUBSET Effect : Resume(verbs)
  \/ Approve \/ Release

Spec == Init /\ [][Next]_vars

----------------------------------------------------------------------------
Admitted == phase \notin {"submitted", "refused"}
Escalated == resumes > 0
Caused ==
  [caps |-> UNION {CapsOf[world[i]] : i \in DOMAIN world}, uses |-> Count(world \o buffer)]
Ceilings ==
  {[caps |-> c, uses |-> [v \in Effect |-> n]] :
     c \in SUBSET UNION {CapsOf[v] : v \in Effect}, n \in 0 .. MaxUnits}

(* What a statement asks of the capabilities of the run, an effect's        *)
(* arguments left aside: verb_demand does not look at those, although the  *)
(* interpreter evaluates them.                                             *)
Reached(s) ==
  CASE s.op = "let" -> s.expr.reads
    [] s.op = "if" -> s.guard.reads
    [] s.op = "foreach" -> s.list.reads
    [] s.op = "effect" -> {s.verb}

(* What admission derived bounds what a run does, whichever branches and   *)
(* lists it meets: the budget is the sum the law crate computes            *)
(* (tests/plan_ir.rs), a driver in a slot causes nothing the slot does not *)
(* offer, and no statement that is reached lacks the capability for its    *)
(* verb (its arguments aside).  Until an escalation no run causes more than *)
(* its longest path or than a ceiling the plan was admitted under, the     *)
(* steps stay below the worst case, and the gate has nothing to refuse.    *)
BudgetCovers ==
  Admitted =>
    LET shape == Shape(plan) IN
    /\ Uses(adm.budget) = DemandSum(shape).uses
    /\ offers # NoSlot => Caused.caps \subseteq offers
    /\ \A op \in {"let", "if", "foreach", "effect"} : At(op) => Reached(Head1) \subseteq fiber
    /\ ~ Escalated =>
         /\ Covered(Caused, DemandPaths(shape))
         /\ \A c \in Ceilings : AdmitPlan(shape, c) => Covered(Caused, c)
         /\ steps <= adm.steps
         /\ ~ GateRefuses

(* Every effect that happened was paid for by a consent.  After an          *)
(* escalation this is said of the effects the first consent names: the     *)
(* capability for another is minted without a count (admission.rs:147), so *)
(* that a resume pays for it once and it may happen again.                 *)
EffectsArePaid ==
  \A v \in Effect : v \in named \/ ~ Escalated => Count(world)[v] <= granted[v]

(* A plan that passed the static check of the protocol breaks it on no     *)
(* path, although what is withheld happens late (protocol.rs:17).          *)
WorldOrderLegal ==
  Admitted /\ ~ Escalated /\ CheckWorldOrder(Shape(plan)) => CheckSequence(world) # Violation
=============================================================================
