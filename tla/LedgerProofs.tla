---------------------------- MODULE LedgerProofs ----------------------------
(***************************************************************************)
(* What the ledger keeps for every set of subjects, classes, pools and     *)
(* targets, for every algebra that satisfies the two laws Ledger assumes,  *)
(* and for every width of its counters; and that it implements Claims.     *)
(* Then what the retirement path of CleanupRunner keeps, for every set of  *)
(* runners, processes, sessions and holdings, from every ledger of rows    *)
(* that were granted and never retired, and for every number of faults.    *)
(***************************************************************************)
EXTENDS LedgerClaims, CleanupRunner, TLAPS

----------------------------------------------------------------------------
(* Every lease a request resolves to is a lease: its timestamp has not     *)
(* left its width.                                                         *)
LEMMA ResolveType ==
  ASSUME NEW r \in LeaseRequest, NEW c \in Class, NEW b \in BOOLEAN, NEW t \in Time,
         CanResolve(r, Decl[c], b, t)
  PROVE  Resolve(r, Decl[c], b, t) \in Lease
<1>1. Decl[c].duration \in Nat \cup {NoDuration} /\ r.arg \in Nat
  BY DeclAssumption, InputAssumption
<1>2. CASE IsFor(r, Decl[c])
  <2>1. Duration(r, Decl[c]) \in Nat
    BY <1>1, <1>2, InputAssumption DEF Duration, IsFor, NoDuration
  <2>2. t + Duration(r, Decl[c]) \in Time
    BY <1>2, <2>1, BoundsAssumption DEF CanResolve, Time
  <2>3. QED BY <1>2, <2>2 DEF Resolve, IsFor, Until, Lease
<1>3. CASE ~ IsFor(r, Decl[c]) /\ r.kind = "until"
  <2>1. r.arg \in Time
    BY <1>1, <1>3, BoundsAssumption DEF CanResolve, Time
  <2>2. QED BY <1>3, <2>1 DEF Resolve, IsFor, Until, Lease
<1>4. CASE ~ IsFor(r, Decl[c]) /\ r.kind # "until"
  <2>1. 0 \in Time BY BoundsAssumption DEF Time
  <2>2. Resolve(r, Decl[c], b, t) \in {ParentBound, Unbounded}
    BY <1>4 DEF Resolve, IsFor, BoundOrUnbounded
  <2>3. QED BY <2>1, <2>2 DEF ParentBound, Unbounded, Lease
<1>5. QED BY <1>2, <1>3, <1>4

(* The empty ledger has the shape TypeOK asks for. *)
LEMMA InitType == Init => TypeOK
  BY BoundsAssumption DEF Init, TypeOK, Issued, Time

(* A row whose state, owner or lease is replaced is still a row. *)
LEMMA RowType ==
  ASSUME NEW h \in Holding
  PROVE  /\ \A s \in {"active", "retiring", "retired"} : [h EXCEPT !.state = s] \in Holding
         /\ \A s \in Subject : [h EXCEPT !.subject = s] \in Holding
         /\ \A l \in Lease : [h EXCEPT !.lease = l] \in Holding
  BY DEF Holding

(* A granted row is a row, and its identity is one nobody holds. *)
LEMMA GrantType ==
  ASSUME TypeOK, NEW owner \in Subject, NEW p \in Pool, NEW f \in ClaimOf[p],
         NEW parent \in Issued \cup {NoParent}, NEW r \in LeaseRequest, NEW t \in Target,
         Grant(owner, p, f, parent, r, t)
  PROVE  TypeOK'
<1> DEFINE decl == Decl[ClassOf[p]]
           lease == Resolve(r, decl, parent # NoParent, now)
           row == [subject |-> owner, pool |-> p, frag |-> f, parent |-> parent,
                   lease |-> lease, state |-> "active", target |-> t]
<1>1. next_id' \in 0 .. MaxId /\ Issued' = 0 .. next_id /\ next_id \in Id
      /\ Issued \subseteq Id
  BY BoundsAssumption DEF TypeOK, Grant, Issued, Id
<1>2. lease \in Lease
  BY DeclAssumption, ResolveType DEF Grant, TypeOK
<1>3. row \in Holding
  BY <1>1, <1>2, PoolAssumption DEF Holding
<1>4. holdings' \in [Issued' -> Holding]
  <2>1. holdings' = [i \in 0 .. next_id |-> IF i = next_id THEN row ELSE holdings[i]]
    BY DEF Grant
  <2>2. \A i \in 0 .. next_id : i # next_id => i \in Issued
    BY DEF Issued, TypeOK
  <2>3. QED BY <1>1, <1>3, <2>1, <2>2 DEF TypeOK
<1>5. cleanups' \in [Issued' -> Cleanup]
  <2>1. NoCleanup \in Cleanup
    BY BoundsAssumption DEF NoCleanup, Cleanup
  <2>2. \A i \in 0 .. next_id : i # next_id => i \in Issued
    BY DEF Issued, TypeOK
  <2>3. QED BY <1>1, <2>1, <2>2 DEF Grant, TypeOK
<1>6. QED BY <1>1, <1>4, <1>5 DEF TypeOK, Grant

(* A task that ends, is claimed or is requested is a task. *)
LEMMA CleanupType ==
  ASSUME NEW k \in Cleanup, BoundsAssumption
  PROVE  /\ \A o \in Claimable \cup Completion :
              [k EXCEPT !.state = o, !.worker = NoWorker] \in Cleanup
         /\ \A w \in Work : RunningAs(w) \in Cleanup
         /\ [NoCleanup EXCEPT !.state = "pending"] \in Cleanup
<1>1. \A o \in Claimable \cup Completion :
         [k EXCEPT !.state = o, !.worker = NoWorker] \in Cleanup
  BY DEF Cleanup
<1>2. \A w \in Work : RunningAs(w) \in Cleanup
  BY DEF Cleanup, RunningAs, Work, BoundsAssumption
<1>3. [NoCleanup EXCEPT !.state = "pending"] \in Cleanup
  BY DEF Cleanup, NoCleanup, Claimable, BoundsAssumption
<1>4. QED BY <1>1, <1>2, <1>3

(* What a step does to the rows, when it issues none: some rows change     *)
(* their state, or one its owner or its lease.                             *)
Restated(S, s) ==
  /\ holdings' = [i \in Issued |-> IF i \in S THEN [holdings[i] EXCEPT !.state = s]
                                              ELSE holdings[i]]
  /\ next_id' = next_id

(* Rows whose state is replaced are rows, and no identity is issued. *)
LEMMA RestatedType ==
  ASSUME TypeOK, NEW S, NEW s \in {"active", "retiring", "retired"}, Restated(S, s)
  PROVE  holdings' \in [Issued' -> Holding] /\ Issued' = Issued
<1>1. Issued' = Issued
  BY DEF Restated, Issued
<1>2. \A i \in Issued : [holdings[i] EXCEPT !.state = s] \in Holding
  BY RowType DEF TypeOK
<1>3. QED BY <1>1, <1>2 DEF Restated, TypeOK

(* Freeing one row is restating it. *)
LEMMA OneRetired ==
  ASSUME TypeOK, NEW i \in Issued, UNCHANGED next_id,
         holdings' = [holdings EXCEPT ![i].state = "retired"]
  PROVE  Restated({i}, "retired")
  BY DEF TypeOK, Restated

(* A retirement keeps every shape. *)
LEMMA RetireType ==
  ASSUME TypeOK, NEW S, Retire(S)
  PROVE  TypeOK'
<1>1. Restated(S, "retiring")
  BY DEF Retire, Restated
<1>2. holdings' \in [Issued' -> Holding] /\ Issued' = Issued
  BY <1>1, RestatedType
<1>3. cleanups' \in [Issued' -> Cleanup]
  <2>1. [NoCleanup EXCEPT !.state = "pending"] \in Cleanup
    BY BoundsAssumption DEF Cleanup, NoCleanup, Claimable
  <2>2. QED BY <1>2, <2>1 DEF Retire, TypeOK
<1>4. QED BY <1>2, <1>3 DEF TypeOK, Retire

(* The holding a caller names. *)
LEMMA HoldingStepType ==
  ASSUME TypeOK, NEW i \in Issued, HoldingStep(i)
  PROVE  TypeOK'
<1>1. CASE Release(i)
  <2>1. Restated({i}, "retired")
    BY <1>1, OneRetired DEF Release
  <2>2. QED BY <1>1, <2>1, RestatedType DEF TypeOK, Release
<1>2. CASE RequestRetirement(i)
  BY <1>2, RetireType DEF RequestRetirement
<1>3. CASE TeardownHolding(i)
  BY <1>3, RetireType DEF TeardownHolding
<1>4. ASSUME NEW to \in Subject, Transfer(i, to) PROVE TypeOK'
  <2>1. Issued' = Issued BY <1>4 DEF Transfer, Issued
  <2>2. [holdings[i] EXCEPT !.subject = to] \in Holding
    BY RowType DEF TypeOK
  <2>3. holdings' \in [Issued' -> Holding]
    BY <1>4, <2>1, <2>2 DEF Transfer, TypeOK
  <2>4. QED BY <1>4, <2>1, <2>3 DEF Transfer, TypeOK
<1>5. ASSUME NEW r \in LeaseRequest, Renew(i, r) PROVE TypeOK'
  <2>1. Issued' = Issued BY <1>5 DEF Renew, Issued
  <2>2. holdings[i] \in Holding /\ holdings[i].lease \in Lease /\ holdings[i].pool \in Pool
    BY DEF TypeOK, Holding
  <2>3. Renewed(i, r) \in Lease
    <3>1. CASE KeepsLease(i, r)
      BY <2>2, <3>1 DEF Renewed
    <3>2. CASE ~ KeepsLease(i, r)
      <4>1. ClassOf[holdings[i].pool] \in Class
        BY <2>2, DeclAssumption
      <4>2. QED BY <1>5, <3>2, <4>1, ResolveType DEF Renew, Renewed, DeclOf, TypeOK
    <3>3. QED BY <3>1, <3>2
  <2>4. [holdings[i] EXCEPT !.lease = Renewed(i, r)] \in Holding
    BY <2>2, <2>3, RowType
  <2>5. holdings' \in [Issued' -> Holding]
    BY <1>5, <2>1, <2>4 DEF Renew, TypeOK
  <2>6. QED BY <1>5, <2>1, <2>5 DEF Renew, TypeOK
<1>6. QED BY <1>1, <1>2, <1>3, <1>4, <1>5 DEF HoldingStep

(* The task a worker or a recovery pass names. *)
LEMMA CleanupStepType ==
  ASSUME TypeOK, NEW i \in Issued, CleanupStep(i)
  PROVE  TypeOK'
<1>0. cleanups[i] \in Cleanup /\ cleanups \in [Issued -> Cleanup]
  BY DEF TypeOK
<1>1. ASSUME NEW w \in Worker, Claim(i, w) PROVE TypeOK'
  <2>1. [attempts |-> cleanups[i].attempts + 1, worker |-> w] \in Work
    BY <1>0, <1>1, BoundsAssumption DEF Claim, Cleanup, Work
  <2>2. RunningAs([attempts |-> cleanups[i].attempts + 1, worker |-> w]) \in Cleanup
    BY <1>0, <2>1, CleanupType, BoundsAssumption
  <2>3. QED BY <1>0, <1>1, <2>2 DEF Claim, TypeOK, Issued
<1>2. ASSUME NEW work \in Work, Abandon(i, work) PROVE TypeOK'
  <2>1. [cleanups[i] EXCEPT !.state = "unknown", !.worker = NoWorker] \in Cleanup
    BY <1>0, CleanupType, BoundsAssumption DEF Claimable, Failure
  <2>2. QED BY <1>0, <1>2, <2>1 DEF Abandon, TypeOK, Issued
<1>3. ASSUME NEW work \in Work, NEW o \in Outcome, Finish(i, work, o) PROVE TypeOK'
  <2>1. o \in Claimable \cup Completion
    BY InputAssumption DEF Claimable
  <2>2. [cleanups[i] EXCEPT !.state = o, !.worker = NoWorker] \in Cleanup
    BY <1>0, <2>1, CleanupType, BoundsAssumption
  <2>3. cleanups' \in [Issued' -> Cleanup] /\ Issued' = Issued
    BY <1>0, <1>3, <2>2 DEF Finish, Issued
  <2>4. holdings' \in [Issued' -> Holding]
    <3>1. CASE o \in Completion
      <4>1. Restated({i}, "retired") BY <1>3, <3>1, OneRetired DEF Finish
      <4>2. QED BY <4>1, RestatedType
    <3>2. CASE o \notin Completion
      BY <1>3, <2>3, <3>2 DEF Finish, TypeOK
    <3>3. QED BY <3>1, <3>2
  <2>5. QED BY <1>3, <2>3, <2>4 DEF Finish, TypeOK
<1>4. QED BY <1>1, <1>2, <1>3 DEF CleanupStep

(* No operation of the ledger leaves the shapes or the widths. *)
LEMMA TypeStep == TypeOK /\ [Next]_vars => TypeOK'
<1> SUFFICES ASSUME TypeOK, [Next]_vars PROVE TypeOK'
  OBVIOUS
<1>1. CASE GrantSome
  BY <1>1, GrantType DEF GrantSome
<1>2. CASE PoolStep
  <2>1. ASSUME NEW p \in Pool, SettleAndZero(p) PROVE TypeOK'
    <3>1. Restated(OccupyingOf(p), "retired")
      BY <2>1 DEF SettleAndZero, Restated
    <3>2. QED BY <2>1, <3>1, RestatedType, PoolAssumption DEF SettleAndZero, TypeOK
  <2>2. ASSUME NEW p \in Pool, NEW c \in CapacityOf[p],
               CreatePool(p, c) \/ ResizePool(p, c)
        PROVE  TypeOK'
    BY <2>2, PoolAssumption DEF CreatePool, ResizePool, TypeOK, Issued
  <2>3. QED BY <1>2, <2>1, <2>2 DEF PoolStep
<1>3. CASE SubjectStep
  <2>1. ASSUME NEW s \in Subject, Teardown(s) PROVE TypeOK'
    BY <2>1, RetireType DEF Teardown
  <2>2. ASSUME NEW e \in Instantiation, DeclareInstantiation(e[1], e[2]) PROVE TypeOK'
    BY <2>2, InputAssumption DEF DeclareInstantiation, TypeOK, Issued
  <2>3. QED BY <1>3, <2>1, <2>2 DEF SubjectStep
<1>4. CASE Sweep
  BY <1>4, RetireType DEF Sweep
<1>5. CASE Tick
  BY <1>5, BoundsAssumption DEF Tick, TypeOK, Time, Issued
<1>6. CASE \E i \in Issued : HoldingStep(i) \/ CleanupStep(i)
  BY <1>6, HoldingStepType, CleanupStepType
<1>7. CASE UNCHANGED vars
  BY <1>7 DEF vars, TypeOK, Issued
<1>8. QED BY <1>1, <1>2, <1>3, <1>4, <1>5, <1>6, <1>7 DEF Next

(* Every row, task, capacity and counter keeps its shape and its width,    *)
(* through every operation of the ledger.                                  *)
THEOREM TypeCorrect == Spec => []TypeOK
  BY InitType, TypeStep, PTL DEF Spec

----------------------------------------------------------------------------
(* Safety.  None of the invariants below is inductive alone: that a row    *)
(* is freed after everything under it rests on the forest, that its        *)
(* retirement leaves no bound descendant on the closure it takes along,    *)
(* and that nothing comes to hang under a running attempt on the task      *)
(* belonging to a retiring row.                                            *)
IInv ==
  /\ TypeOK
  /\ WithinCapacity
  /\ AncestorsOccupy
  /\ BoundFollowsParent
  /\ NoSharedTarget
  /\ ObligationKept
  /\ RunningIsLeaf

(* What Closure computes: it holds S, takes along whoever hangs under it,  *)
(* and stays within every set that does.                                   *)
LEMMA ClosureFacts ==
  ASSUME NEW S \in SUBSET Issued, NEW C \in SUBSET Issued
  PROVE  /\ S \subseteq Closure(S, C)
         /\ Closed(Closure(S, C), C)
         /\ \A T \in SUBSET Issued : S \subseteq T /\ Closed(T, C) => Closure(S, C) \subseteq T
<1>1. S \subseteq Closure(S, C)
  BY DEF Closure
<1>2. Closed(Closure(S, C), C)
  <2> SUFFICES ASSUME NEW c \in C, holdings[c].parent \in Closure(S, C)
               PROVE  c \in Closure(S, C)
    BY DEF Closed
  <2>1. ASSUME NEW T \in SUBSET Issued, S \subseteq T, Closed(T, C) PROVE c \in T
    <3>1. holdings[c].parent \in T BY <2>1 DEF Closure
    <3>2. QED BY <2>1, <3>1 DEF Closed
  <2>2. QED BY <2>1 DEF Closure
<1>3. \A T \in SUBSET Issued : S \subseteq T /\ Closed(T, C) => Closure(S, C) \subseteq T
  BY DEF Closure
<1>4. QED BY <1>1, <1>2, <1>3

(* A retirement: usable rows, and every usable row bound to one of them,   *)
(* start to retire.                                                        *)
Retiring(S) ==
  /\ S \subseteq Active
  /\ Closed(S, BoundChildren)
  /\ Retire(S)

(* A release: rows that occupy, and nothing that stays hangs under them.   *)
Freed(S) ==
  /\ S \subseteq Occupying
  /\ \A c \in Occupying \ S : holdings[c].parent \notin S
  /\ Restated(S, "retired")

(* Retirement on request, by lease and by teardown are one kind of step.   *)
LEMMA RetirementSteps ==
  ASSUME TypeOK,
         \/ Sweep
         \/ \E s \in Subject : Teardown(s)
         \/ \E i \in Issued : RequestRetirement(i) \/ TeardownHolding(i)
  PROVE  \E S \in SUBSET Issued : Retiring(S)
<1>1. /\ Active \subseteq Occupying /\ Occupying \subseteq Issued
      /\ BoundChildren \subseteq Active
  BY DEF Active, Occupying, BoundChildren, IsActive, Occupies
<1>2. CASE Sweep
  <2> DEFINE X == {i \in Occupying : ~ IsActive(i) \/ Expired(i)}
  <2>1. Closed(BoundClosure(X), BoundChildren)
    BY <1>1, ClosureFacts DEF BoundClosure
  <2>2. Closed(Due, BoundChildren)
    BY <1>1, <2>1 DEF Closed, Due
  <2>3. QED BY <1>1, <1>2, <2>2 DEF Sweep, Retiring, Due
<1>3. ASSUME NEW X \in SUBSET Occupying, Retire(Active \cap OccupyingClosure(X))
      PROVE  \E S \in SUBSET Issued : Retiring(S)
  <2>1. Closed(OccupyingClosure(X), Occupying)
    BY <1>1, ClosureFacts DEF OccupyingClosure
  <2>2. Closed(Active \cap OccupyingClosure(X), BoundChildren)
    BY <1>1, <2>1 DEF Closed
  <2>3. QED BY <1>1, <1>3, <2>2 DEF Retiring
<1>4. ASSUME NEW i \in Issued, RequestRetirement(i)
      PROVE  \E S \in SUBSET Issued : Retiring(S)
  <2>1. i \in Active BY <1>4 DEF RequestRetirement, Active
  <2>2. Closed(Active, BoundChildren) BY <1>1 DEF Closed
  <2>3. BoundClosure({i}) \subseteq Active
    <3>1. Active \in SUBSET Issued /\ {i} \in SUBSET Issued /\ {i} \subseteq Active
          /\ BoundChildren \in SUBSET Issued
      BY <1>1, <2>1
    <3>2. QED BY <2>2, <3>1, ClosureFacts DEF BoundClosure
  <2>4. Closed(BoundClosure({i}), BoundChildren)
    BY <1>1, ClosureFacts DEF BoundClosure
  <2>5. QED BY <1>1, <1>4, <2>3, <2>4 DEF RequestRetirement, Retiring
<1>5. ASSUME NEW i \in Issued, TeardownHolding(i)
      PROVE  \E S \in SUBSET Issued : Retiring(S)
  BY <1>3, <1>5 DEF TeardownHolding
<1>6. ASSUME NEW s \in Subject, Teardown(s)
      PROVE  \E S \in SUBSET Issued : Retiring(S)
  <2>1. {i \in Occupying : holdings[i].subject = s} \in SUBSET Occupying
    OBVIOUS
  <2>2. QED BY <1>3, <1>6, <2>1 DEF Teardown
<1>7. QED BY <1>2, <1>4, <1>5, <1>6

(* A single leaf that is freed. *)
LEMMA LeafFreed ==
  ASSUME TypeOK, NEW i \in Issued, Occupies(i), OccupyingChildren(i) = {},
         UNCHANGED next_id, holdings' = [holdings EXCEPT ![i].state = "retired"]
  PROVE  Freed({i})
<1>1. Restated({i}, "retired") BY OneRetired
<1>2. QED BY <1>1 DEF Freed, Occupying, OccupyingChildren

(* Closing a counted pool frees all of its rows and leaves nothing that    *)
(* hangs under one of them: its guard looks at the children of every row.  *)
LEMMA SettledFreed ==
  ASSUME TypeOK, NEW p \in Pool, SettleAndZero(p)
  PROVE  Freed(OccupyingOf(p))
<1>1. OccupyingOf(p) \subseteq Occupying BY DEF OccupyingOf
<1>2. ASSUME NEW c \in Occupying \ OccupyingOf(p), holdings[c].parent \in OccupyingOf(p)
      PROVE  FALSE
  <2>1. c \in OccupyingChildren(holdings[c].parent) BY <1>2 DEF OccupyingChildren
  <2>2. OccupyingChildren(holdings[c].parent) \subseteq OccupyingOf(p)
    BY <1>2 DEF SettleAndZero
  <2>3. QED BY <1>2, <2>1, <2>2
<1>3. QED BY <1>1, <1>2 DEF SettleAndZero, Freed, Restated

(* Everything a step can do to the rows. *)
LEMMA RowSteps ==
  ASSUME TypeOK, ObligationKept, [Next]_vars
  PROVE  \/ UNCHANGED <<holdings, next_id>>
         \/ GrantSome
         \/ \E i \in Issued, s \in Subject : Transfer(i, s)
         \/ \E i \in Issued, r \in LeaseRequest : Renew(i, r)
         \/ \E S \in SUBSET Issued : Retiring(S)
         \/ \E S \in SUBSET Issued : Freed(S)
<1>0. Occupying \subseteq Issued BY DEF Occupying
<1>1. CASE PoolStep
  BY <1>0, <1>1, SettledFreed DEF PoolStep, CreatePool, ResizePool, OccupyingOf
<1>2. CASE SubjectStep
  BY <1>2, RetirementSteps DEF SubjectStep, DeclareInstantiation
<1>3. ASSUME NEW i \in Issued, HoldingStep(i)
      PROVE  \/ \E s \in Subject : Transfer(i, s)
             \/ \E r \in LeaseRequest : Renew(i, r)
             \/ \E S \in SUBSET Issued : Retiring(S)
             \/ Freed({i})
  <2>1. CASE Release(i) BY <2>1, LeafFreed DEF Release, IsActive, Occupies
  <2>2. CASE RequestRetirement(i) BY <2>2, RetirementSteps
  <2>3. CASE TeardownHolding(i) BY <2>3, RetirementSteps
  <2>4. QED BY <1>3, <2>1, <2>2, <2>3 DEF HoldingStep
<1>4. ASSUME NEW i \in Issued, CleanupStep(i)
      PROVE  UNCHANGED <<holdings, next_id>> \/ Freed({i})
  <2>1. ASSUME NEW w \in Work, NEW o \in Outcome, Finish(i, w, o)
        PROVE  UNCHANGED <<holdings, next_id>> \/ Freed({i})
    <3>1. CASE o \in Completion
      BY <2>1, <3>1, LeafFreed DEF Finish, Occupies
    <3>2. CASE o \notin Completion BY <2>1, <3>2 DEF Finish
    <3>3. QED BY <3>1, <3>2
  <2>2. QED BY <1>4, <2>1 DEF CleanupStep, Claim, Abandon
<1>5. QED BY <1>1, <1>2, <1>3, <1>4, RetirementSteps DEF Next, Tick, vars

(* What replacing a state does to a row, field by field. *)
LEMMA RestatedRows ==
  ASSUME TypeOK, NEW S \in SUBSET Issued, NEW s \in {"active", "retiring", "retired"},
         Restated(S, s)
  PROVE  /\ Issued' = Issued
         /\ \A i \in Issued : /\ holdings'[i].subject = holdings[i].subject
                              /\ holdings'[i].pool = holdings[i].pool
                              /\ holdings'[i].frag = holdings[i].frag
                              /\ holdings'[i].parent = holdings[i].parent
                              /\ holdings'[i].lease = holdings[i].lease
                              /\ holdings'[i].target = holdings[i].target
                              /\ holdings'[i].state = IF i \in S THEN s ELSE holdings[i].state
<1>1. Issued' = Issued BY DEF Restated, Issued
<1>2. \A i \in Issued : holdings[i] \in Holding BY DEF TypeOK
<1>3. QED BY <1>1, <1>2 DEF Restated, Holding

(* The row a grant adds, and that it leaves every other as it was. *)
LEMMA GrantRows ==
  ASSUME TypeOK, NEW owner \in Subject, NEW p \in Pool, NEW f \in ClaimOf[p],
         NEW parent \in Issued \cup {NoParent}, NEW r \in LeaseRequest, NEW t \in Target,
         Grant(owner, p, f, parent, r, t)
  PROVE  /\ Issued' = Issued \cup {next_id} /\ next_id \notin Issued
         /\ \A i \in Issued : i < next_id /\ holdings'[i] = holdings[i]
                              /\ cleanups'[i] = cleanups[i]
         /\ LET h == holdings'[next_id] IN
              /\ h.state = "active" /\ h.pool = p /\ h.frag = f
              /\ h.parent = parent /\ h.target = t
              /\ h.lease.kind = "parent_bound" => parent # NoParent
         /\ cleanups'[next_id] = NoCleanup
<1>1. /\ Issued' = Issued \cup {next_id} /\ next_id \notin Issued
      /\ Issued' = 0 .. next_id
      /\ \A i \in Issued : i < next_id
  BY DEF TypeOK, Grant, Issued
<1>2. /\ \A i \in Issued : holdings'[i] = holdings[i] /\ cleanups'[i] = cleanups[i]
      /\ cleanups'[next_id] = NoCleanup
  BY <1>1 DEF Grant
<1>3. holdings'[next_id] =
        [subject |-> owner, pool |-> p, frag |-> f, parent |-> parent,
         lease |-> Resolve(r, Decl[ClassOf[p]], parent # NoParent, now),
         state |-> "active", target |-> t]
  BY <1>1 DEF Grant
<1>4. holdings'[next_id].lease.kind = "parent_bound" => parent # NoParent
  BY <1>3 DEF Grant, CanResolve, Resolve, BoundOrUnbounded, Until, Unbounded, ParentBound
<1>5. QED BY <1>1, <1>2, <1>3, <1>4

(* The rows a transfer or a renewal leaves alone, field by field. *)
LEMMA TransferRows ==
  ASSUME TypeOK, NEW i \in Issued, NEW to \in Subject, Transfer(i, to)
  PROVE  /\ Issued' = Issued
         /\ \A j \in Issued : /\ holdings'[j].pool = holdings[j].pool
                              /\ holdings'[j].frag = holdings[j].frag
                              /\ holdings'[j].parent = holdings[j].parent
                              /\ holdings'[j].lease = holdings[j].lease
                              /\ holdings'[j].target = holdings[j].target
                              /\ holdings'[j].state = holdings[j].state
<1>1. \A j \in Issued : holdings[j] \in Holding BY DEF TypeOK
<1>2. QED BY <1>1 DEF Transfer, TypeOK, Issued, Holding

(* A renewal touches the lease of one row and nothing else. *)
LEMMA RenewRows ==
  ASSUME TypeOK, NEW i \in Issued, NEW r \in LeaseRequest, Renew(i, r)
  PROVE  /\ Issued' = Issued
         /\ \A j \in Issued : /\ holdings'[j].pool = holdings[j].pool
                              /\ holdings'[j].frag = holdings[j].frag
                              /\ holdings'[j].parent = holdings[j].parent
                              /\ holdings'[j].target = holdings[j].target
                              /\ holdings'[j].state = holdings[j].state
         /\ \A j \in Issued \ {i} : holdings'[j].lease = holdings[j].lease
         /\ holdings'[i].lease = Renewed(i, r)
<1>1. \A j \in Issued : holdings[j] \in Holding BY DEF TypeOK
<1>2. QED BY <1>1 DEF Renew, TypeOK, Issued, Holding

(* A renewal that binds a lease to the parent finds the parent usable,     *)
(* also when it keeps the lease the row had.                               *)
LEMMA RenewedBound ==
  ASSUME TypeOK, BoundFollowsParent, NEW i \in Issued, NEW r \in LeaseRequest, Renew(i, r),
         Renewed(i, r).kind = "parent_bound"
  PROVE  holdings[i].parent \in Active
<1>1. CASE KeepsLease(i, r)
  BY <1>1 DEF Renew, Renewed, BoundFollowsParent, BoundChildren, Active
<1>2. CASE ~ KeepsLease(i, r)
  BY <1>2 DEF Renew, Renewed, Resolve, BoundOrUnbounded, Until, Unbounded, ParentBound
<1>3. QED BY <1>1, <1>2

(* A retirement only replaces states. *)
LEMMA RetiringRows ==
  ASSUME TypeOK, NEW S \in SUBSET Issued, Retiring(S)
  PROVE  Restated(S, "retiring")
  BY DEF Retiring, Retire, Restated

(* No step frees a row while something that occupies hangs under it. *)
LEMMA ForestStep ==
  ASSUME TypeOK, ObligationKept, AncestorsOccupy, BoundFollowsParent, [Next]_vars
  PROVE  AncestorsOccupy'
<1>0. /\ next_id \in Nat
      /\ \A i \in Issued : holdings[i].parent # NoParent => holdings[i].parent \in Issued
  BY DEF TypeOK, AncestorsOccupy, Holding, Id, Issued, NoParent
<1>1. CASE UNCHANGED <<holdings, next_id>>
  BY <1>1 DEF AncestorsOccupy, Issued, Occupies
<1>2. CASE GrantSome
  <2> SUFFICES ASSUME NEW owner \in Subject, NEW p \in Pool, NEW f \in ClaimOf[p],
                      NEW parent \in Issued \cup {NoParent}, NEW r \in LeaseRequest,
                      NEW t \in Target, Grant(owner, p, f, parent, r, t)
               PROVE  AncestorsOccupy'
    BY <1>2 DEF GrantSome
  <2>1. parent # NoParent => parent \in Issued /\ Occupies(parent)
    BY DEF Grant, MayParent, IsActive, Occupies
  <2>3. QED BY <2>1, <1>0, GrantRows DEF AncestorsOccupy, Occupies
<1>3. ASSUME NEW i \in Issued, NEW s \in Subject, Transfer(i, s) PROVE AncestorsOccupy'
  <2> QED BY <1>3, <1>0, TransferRows DEF AncestorsOccupy, Occupies
<1>4. ASSUME NEW i \in Issued, NEW r \in LeaseRequest, Renew(i, r) PROVE AncestorsOccupy'
  <2>1. Issued' = Issued /\ \A j \in Issued : /\ holdings'[j].parent = holdings[j].parent
                                              /\ holdings'[j].state = holdings[j].state
    BY <1>4, RenewRows
  <2>2. QED BY <1>0, <2>1 DEF AncestorsOccupy, Occupies
<1>5. ASSUME NEW S \in SUBSET Issued, Retiring(S) PROVE AncestorsOccupy'
  <2>1. Restated(S, "retiring") BY <1>5, RetiringRows
  <2>3. \A j \in S : Occupies(j)
    BY <1>5 DEF Retiring, Active, IsActive, Occupies
  <2>4. QED BY <2>1, <1>0, <2>3, RestatedRows DEF AncestorsOccupy, Occupies
<1>6. ASSUME NEW S \in SUBSET Issued, Freed(S) PROVE AncestorsOccupy'
  <2>1. Restated(S, "retired") BY <1>6 DEF Freed
  <2>3. \A j \in Issued \ S : Occupies(j) => holdings[j].parent \notin S
    BY <1>6 DEF Freed, Occupying
  <2>4. QED BY <2>1, <1>0, <2>3, RestatedRows DEF AncestorsOccupy, Occupies
<1>7. QED BY <1>1, <1>2, <1>3, <1>4, <1>5, <1>6, RowSteps

(* No step leaves a usable row bound to a parent that is not usable. *)
LEMMA BoundStep ==
  ASSUME TypeOK, ObligationKept, AncestorsOccupy, BoundFollowsParent, [Next]_vars
  PROVE  BoundFollowsParent'
<1>1. CASE UNCHANGED <<holdings, next_id>>
  BY <1>1 DEF BoundFollowsParent, BoundChildren, Active, IsActive, Issued
<1>2. CASE GrantSome
  <2> SUFFICES ASSUME NEW owner \in Subject, NEW p \in Pool, NEW f \in ClaimOf[p],
                      NEW parent \in Issued \cup {NoParent}, NEW r \in LeaseRequest,
                      NEW t \in Target, Grant(owner, p, f, parent, r, t)
               PROVE  BoundFollowsParent'
    BY <1>2 DEF GrantSome
  <2>1. parent # NoParent => parent \in Active
    BY DEF Grant, MayParent, Active
  <2>2. Active' = Active \cup {next_id}
    BY GrantRows DEF Active, IsActive
  <2>3. BoundChildren' \subseteq BoundChildren \cup {next_id}
    BY <2>2, GrantRows DEF BoundChildren, Active
  <2>4. QED BY <2>1, <2>2, <2>3, GrantRows DEF BoundFollowsParent, BoundChildren, Active
<1>3. ASSUME NEW i \in Issued, NEW s \in Subject, Transfer(i, s) PROVE BoundFollowsParent'
  BY <1>3, TransferRows DEF BoundFollowsParent, BoundChildren, Active, IsActive
<1>4. ASSUME NEW i \in Issued, NEW r \in LeaseRequest, Renew(i, r) PROVE BoundFollowsParent'
  <2>1. Active' = Active
    BY <1>4, RenewRows DEF Active, IsActive
  <2>2. \A j \in BoundChildren' : /\ holdings'[j].parent = holdings[j].parent
                                  /\ j # i => j \in BoundChildren
    BY <1>4, <2>1, RenewRows DEF BoundChildren, Active
  <2>3. i \in BoundChildren' => holdings[i].parent \in Active
    BY <1>4, RenewRows, RenewedBound DEF BoundChildren
  <2>4. QED
    <3> SUFFICES ASSUME NEW j \in BoundChildren' PROVE holdings'[j].parent \in Active'
      BY DEF BoundFollowsParent
    <3>1. CASE j = i BY <2>1, <2>2, <2>3, <3>1
    <3>2. CASE j # i BY <2>1, <2>2, <3>2 DEF BoundFollowsParent
    <3>3. QED BY <3>1, <3>2
<1>5. ASSUME NEW S \in SUBSET Issued, Retiring(S) PROVE BoundFollowsParent'
  <2>1. Restated(S, "retiring") BY <1>5, RetiringRows
  <2>2. Active' = Active \ S
    BY <2>1, RestatedRows DEF Active, IsActive
  <2>3. BoundChildren' = BoundChildren \ S
    BY <2>1, <2>2, RestatedRows DEF BoundChildren, Active
  <2>4. QED BY <1>5, <2>1, <2>2, <2>3, RestatedRows
            DEF BoundFollowsParent, Retiring, Closed, BoundChildren, Active
<1>6. ASSUME NEW S \in SUBSET Issued, Freed(S) PROVE BoundFollowsParent'
  <2>1. Restated(S, "retired") BY <1>6 DEF Freed
  <2>2. Active' = Active \ S
    BY <2>1, RestatedRows DEF Active, IsActive
  <2>3. BoundChildren' = BoundChildren \ S
    BY <2>1, <2>2, RestatedRows DEF BoundChildren, Active
  <2>4. BoundChildren \subseteq Occupying
    BY DEF BoundChildren, Active, Occupying, IsActive, Occupies
  <2>5. QED BY <1>6, <2>1, <2>2, <2>3, <2>4, RestatedRows
            DEF BoundFollowsParent, Freed, BoundChildren, Active
<1>7. QED BY <1>1, <1>2, <1>3, <1>4, <1>5, <1>6, RowSteps

(* The rows that occupied before still do, and name what they named. *)
SameClaims ==
  /\ Occupying' \subseteq Occupying
  /\ \A i \in Occupying' : /\ holdings'[i].pool = holdings[i].pool
                           /\ holdings'[i].frag = holdings[i].frag
                           /\ holdings'[i].target = holdings[i].target
                           /\ holdings'[i].parent = holdings[i].parent

(* Every step but a grant adds nothing to what occupies. *)
LEMMA ClaimSteps ==
  ASSUME TypeOK, ObligationKept, [Next]_vars
  PROVE  GrantSome \/ SameClaims
<1>1. CASE UNCHANGED <<holdings, next_id>>
  BY <1>1 DEF SameClaims, Occupying, Occupies, Issued
<1>2. ASSUME NEW i \in Issued, NEW s \in Subject, Transfer(i, s) PROVE SameClaims
  BY <1>2, TransferRows DEF SameClaims, Occupying, Occupies
<1>3. ASSUME NEW i \in Issued, NEW r \in LeaseRequest, Renew(i, r) PROVE SameClaims
  BY <1>3, RenewRows DEF SameClaims, Occupying, Occupies
<1>4. ASSUME NEW S \in SUBSET Issued, Retiring(S) PROVE SameClaims
  <2>1. Restated(S, "retiring") BY <1>4, RetiringRows
  <2>2. S \subseteq Occupying
    BY <1>4 DEF Retiring, Active, IsActive, Occupying, Occupies
  <2>3. QED BY <2>1, <2>2, RestatedRows DEF SameClaims, Occupying, Occupies
<1>5. ASSUME NEW S \in SUBSET Issued, Freed(S) PROVE SameClaims
  <2>1. Restated(S, "retired") BY <1>5 DEF Freed
  <2>2. QED BY <2>1, RestatedRows DEF SameClaims, Occupying, Occupies
<1>6. QED BY <1>1, <1>2, <1>3, <1>4, <1>5, RowSteps

(* No step lets two rows that occupy stand for one thing. *)
LEMMA TargetStep ==
  ASSUME TypeOK, ObligationKept, NoSharedTarget, [Next]_vars
  PROVE  NoSharedTarget'
<1>1. CASE SameClaims
  BY <1>1 DEF SameClaims, NoSharedTarget
<1>2. CASE GrantSome
  <2> SUFFICES ASSUME NEW owner \in Subject, NEW p \in Pool, NEW f \in ClaimOf[p],
                      NEW parent \in Issued \cup {NoParent}, NEW r \in LeaseRequest,
                      NEW t \in Target, Grant(owner, p, f, parent, r, t)
               PROVE  NoSharedTarget'
    BY <1>2 DEF GrantSome
  <2>1. \A j \in Occupying : /\ <<t, holdings[j].target>> \notin Alias
                             /\ holdings[j].target \in Target
    BY DEF Grant, TargetFree, TypeOK, Holding, Occupying
  <2>2. \A j \in Occupying : <<holdings[j].target, t>> \notin Alias
    BY <2>1, DeclAssumption
  <2>3. /\ Occupying' = Occupying \cup {next_id}
        /\ next_id \notin Occupying
        /\ holdings'[next_id].target = t
        /\ \A j \in Occupying : holdings'[j] = holdings[j]
    BY GrantRows DEF Occupying, Occupies
  <2>4. QED BY <2>1, <2>2, <2>3 DEF NoSharedTarget
<1>3. QED BY <1>1, <1>2, ClaimSteps

(* A family that only loses members stays within its capacity. *)
LEMMA FewerFit ==
  ASSUME TypeOK, TypeOK', SameClaims, NEW p \in Pool, NEW c \in Frag,
         Admits(c, LiveFrags(p))
  PROVE  Admits(c, LiveFrags(p)')
<1> DEFINE S == OccupyingOf(p)
           T == OccupyingOf(p)'
<1>1. Issued \subseteq Id BY BoundsAssumption DEF TypeOK, Issued, Id
<1>2. S \in SUBSET Id /\ T \in SUBSET S
  BY <1>1 DEF SameClaims, OccupyingOf, Occupying
<1>3. LiveFrags(p) \in [S -> Frag]
  BY DEF LiveFrags, TypeOK, Holding, OccupyingOf, Occupying
<1>4. LiveFrags(p)' = [i \in T |-> LiveFrags(p)[i]]
  <2>1. \A i \in T : holdings'[i].frag = holdings[i].frag
    BY DEF SameClaims, OccupyingOf
  <2>2. \A i \in T : LiveFrags(p)[i] = holdings[i].frag
    BY <1>2 DEF LiveFrags
  <2>3. QED BY <2>1, <2>2 DEF LiveFrags
<1>5. Admits(c, [i \in T |-> LiveFrags(p)[i]])
  BY <1>2, <1>3, AuthMonotone
<1>6. QED BY <1>4, <1>5

(* Only the operations on pools touch a capacity. *)
LEMMA CapacitySteps ==
  ASSUME [Next]_vars
  PROVE  PoolStep \/ UNCHANGED capacities
<1>1. GrantSome => UNCHANGED capacities
  BY DEF GrantSome, Grant
<1>2. SubjectStep \/ Sweep \/ Tick => UNCHANGED capacities
  BY DEF SubjectStep, Teardown, Sweep, Retire, DeclareInstantiation, Tick
<1>3. \A i \in Issued : HoldingStep(i) => UNCHANGED capacities
  BY DEF HoldingStep, Release, RequestRetirement, TeardownHolding, Retire, Transfer, Renew
<1>4. \A i \in Issued : CleanupStep(i) => UNCHANGED capacities
  BY DEF CleanupStep, Claim, Abandon, Finish
<1>5. QED BY <1>1, <1>2, <1>3, <1>4 DEF Next, vars

(* No step lets a pool hold more than its capacity admits. *)
LEMMA CapacityStep ==
  ASSUME TypeOK, TypeOK', ObligationKept, WithinCapacity, [Next]_vars
  PROVE  WithinCapacity'
<1> SUFFICES ASSUME NEW p \in Pool
             PROVE  /\ capacities'[p] = NoPool => OccupyingOf(p)' = {}
                    /\ capacities'[p] # NoPool => Admits(capacities'[p], LiveFrags(p)')
  BY DEF WithinCapacity
<1>0. /\ capacities[p] = NoPool => OccupyingOf(p) = {}
      /\ capacities[p] # NoPool => Admits(capacities[p], LiveFrags(p))
  BY DEF WithinCapacity
<1>1. CASE SameClaims /\ capacities'[p] = capacities[p]
  <2>1. OccupyingOf(p)' \subseteq OccupyingOf(p)
    BY <1>1 DEF SameClaims, OccupyingOf
  <2>2. capacities[p] # NoPool => capacities[p] \in Frag
    BY DEF TypeOK
  <2>3. QED BY <1>0, <1>1, <2>1, <2>2, FewerFit
<1>2. CASE GrantSome
  <2> SUFFICES ASSUME NEW owner \in Subject, NEW q \in Pool, NEW f \in ClaimOf[q],
                      NEW parent \in Issued \cup {NoParent}, NEW r \in LeaseRequest,
                      NEW t \in Target, Grant(owner, q, f, parent, r, t)
               PROVE  /\ capacities'[p] = NoPool => OccupyingOf(p)' = {}
                      /\ capacities'[p] # NoPool =>
                           Admits(capacities'[p], LiveFrags(p)')
    BY <1>2 DEF GrantSome
  <2>1. capacities' = capacities /\ capacities[q] # NoPool
    BY DEF Grant
  <2>2. /\ Occupying' = Occupying \cup {next_id}
        /\ holdings'[next_id].pool = q /\ holdings'[next_id].frag = f
        /\ \A j \in Occupying : j # next_id /\ holdings'[j] = holdings[j]
    BY GrantRows DEF Occupying, Occupies
  <2>3. CASE p = q
    <3>1. OccupyingOf(p)' = OccupyingOf(p) \cup {next_id}
      BY <2>2, <2>3 DEF OccupyingOf
    <3>2. LiveFrags(p)' = [i \in OccupyingOf(p) \cup {next_id} |->
                             IF i = next_id THEN f ELSE holdings[i].frag]
      BY <2>2, <2>3, <3>1 DEF LiveFrags, OccupyingOf
    <3>3. QED BY <2>1, <2>3, <3>2 DEF Grant
  <2>4. CASE p # q
    <3>1. OccupyingOf(p)' = OccupyingOf(p)
      BY <2>2, <2>4 DEF OccupyingOf
    <3>2. LiveFrags(p)' = LiveFrags(p)
      BY <2>2, <3>1 DEF LiveFrags, OccupyingOf
    <3>3. QED BY <1>0, <2>1, <3>1, <3>2
  <2>5. QED BY <2>3, <2>4
<1>3. ASSUME NEW q \in Pool, NEW c \in CapacityOf[q],
             CreatePool(q, c) \/ ResizePool(q, c), capacities'[p] # capacities[p]
      PROVE  Admits(capacities'[p], LiveFrags(p)') /\ capacities'[p] # NoPool
  <2>1. p = q /\ capacities'[p] = c /\ c # NoPool
    BY <1>3, PoolAssumption DEF CreatePool, ResizePool, TypeOK
  <2>2. UNCHANGED <<holdings, next_id>>
    BY <1>3 DEF CreatePool, ResizePool
  <2>3. LiveFrags(p)' = LiveFrags(p)
    BY <2>2 DEF LiveFrags, OccupyingOf, Occupying, Occupies, Issued
  <2>4. CASE CreatePool(q, c)
    <3>1. OccupyingOf(p) = {} BY <1>0, <2>1, <2>4 DEF CreatePool
    <3>2. LiveFrags(p) = [i \in {} |-> Zero] BY <3>1 DEF LiveFrags
    <3>3. QED BY <2>1, <2>3, <3>2, AuthEmpty
  <2>5. CASE ResizePool(q, c)
    BY <2>1, <2>3, <2>5 DEF ResizePool
  <2>6. QED BY <1>3, <2>4, <2>5
<1>4. ASSUME NEW q \in Pool, SettleAndZero(q), capacities'[p] # capacities[p]
      PROVE  Admits(capacities'[p], LiveFrags(p)') /\ capacities'[p] # NoPool
  <2>1. p = q /\ capacities'[p] = Zero
    BY <1>4 DEF SettleAndZero, TypeOK
  <2>2. Restated(OccupyingOf(p), "retired")
    BY <1>4, <2>1 DEF SettleAndZero, Restated
  <2>3. OccupyingOf(p) \in SUBSET Issued BY DEF OccupyingOf, Occupying
  <2>4. OccupyingOf(p)' = {}
    BY <2>2, <2>3, RestatedRows DEF OccupyingOf, Occupying, Occupies
  <2>5. LiveFrags(p)' = [i \in {} |-> Zero] BY <2>4 DEF LiveFrags
  <2>6. QED BY <2>1, <2>5, AuthEmpty, PoolAssumption
<1>5. \/ GrantSome
      \/ capacities'[p] = capacities[p]
      \/ \E q \in Pool : SettleAndZero(q) \/ \E c \in CapacityOf[q] :
                                               CreatePool(q, c) \/ ResizePool(q, c)
  BY CapacitySteps DEF PoolStep
<1>6. QED BY <1>1, <1>2, <1>3, <1>4, <1>5, ClaimSteps

(* Releasing rows that were usable and unmanaged leaves no task behind. *)
LEMMA ReleasedObligation ==
  ASSUME TypeOK, ObligationKept, NEW S \in SUBSET Active, Restated(S, "retired"),
         UNCHANGED cleanups, \A i \in S : ~ IsManaged(i)
  PROVE  ObligationKept'
<1>1. S \in SUBSET Issued /\ \A i \in S : IsActive(i) BY DEF Active
<1>2. \A i \in Issued : IsManaged(i)' <=> IsManaged(i)
  BY <1>1, RestatedRows DEF IsManaged
<1>3. \A i \in S : cleanups[i].state = "none"
  BY <1>1 DEF ObligationKept, NoCleanup
<1>4. QED BY <1>1, <1>2, <1>3, RestatedRows
          DEF ObligationKept, IsActive, Claimable, Failure, Completion

(* A retirement gives every row it takes along a task of its own. *)
LEMMA RetireObligation ==
  ASSUME TypeOK, ObligationKept, NEW S \in SUBSET Issued, Retiring(S)
  PROVE  ObligationKept'
<1>1. Restated(S, "retiring") BY RetiringRows
<1>2. /\ Issued' = Issued
      /\ \A i \in Issued : /\ IsManaged(i)' <=> IsManaged(i)
                           /\ holdings'[i].state = IF i \in S THEN "retiring" ELSE holdings[i].state
  BY <1>1, RestatedRows DEF IsManaged
<1>3. \A i \in S : cleanups'[i] = [state |-> "pending", attempts |-> 0, worker |-> NoWorker]
  BY DEF Retiring, Retire, NoCleanup
<1>4. \A i \in Issued \ S : cleanups'[i] = cleanups[i]
  BY DEF Retiring, Retire
<1>5. QED BY <1>2, <1>3, <1>4
          DEF ObligationKept, IsActive, Claimable, Failure, Completion, NoCleanup

(* What an attempt's three steps do to its task and to nothing else. *)
LEMMA AttemptRows ==
  ASSUME TypeOK, NEW i \in Issued, CleanupStep(i)
  PROVE  /\ \A j \in Issued \ {i} : cleanups'[j] = cleanups[j] /\ holdings'[j] = holdings[j]
         /\ holdings[i].state = "retiring" \/ UNCHANGED holdings
         /\ holdings'[i].target = holdings[i].target
         /\ \/ /\ UNCHANGED holdings
               /\ cleanups[i].state \in Claimable /\ cleanups'[i].state = "running"
               /\ cleanups'[i].attempts > 0
               /\ OccupyingChildren(i) = {}
            \/ /\ UNCHANGED holdings
               /\ cleanups[i].state = "running" /\ cleanups'[i].state \in Failure
               /\ cleanups'[i].attempts > 0
            \/ /\ holdings'[i].state = "retired"
               /\ cleanups[i].state = "running" /\ cleanups'[i].state \in Completion
               /\ cleanups'[i].attempts = cleanups[i].attempts
               /\ cleanups'[i].attempts > 0
         /\ UNCHANGED next_id
<1>0. /\ \A j \in Issued : holdings[j] \in Holding /\ cleanups[j] \in Cleanup
      /\ DOMAIN holdings = Issued /\ DOMAIN cleanups = Issued
  BY DEF TypeOK
<1>1. ASSUME NEW w \in Worker, Claim(i, w)
      PROVE  /\ UNCHANGED <<holdings, next_id>>
             /\ \A j \in Issued \ {i} : cleanups'[j] = cleanups[j]
             /\ cleanups[i].state \in Claimable /\ cleanups'[i].state = "running"
             /\ cleanups'[i].attempts > 0
             /\ OccupyingChildren(i) = {}
  BY <1>0, <1>1 DEF Claim, RunningAs, TypeOK, Cleanup
<1>2. ASSUME NEW work \in Work, Abandon(i, work)
      PROVE  /\ UNCHANGED <<holdings, next_id>>
             /\ \A j \in Issued \ {i} : cleanups'[j] = cleanups[j]
             /\ cleanups[i].state = "running" /\ cleanups'[i].state \in Failure
             /\ cleanups'[i].attempts > 0
  BY <1>0, <1>2 DEF Abandon, RunningAs, TypeOK, Cleanup, Work, Failure
<1>3. ASSUME NEW work \in Work, NEW o \in Outcome, Finish(i, work, o)
      PROVE  /\ UNCHANGED next_id
             /\ \A j \in Issued \ {i} : cleanups'[j] = cleanups[j] /\ holdings'[j] = holdings[j]
             /\ cleanups[i].state = "running" /\ cleanups'[i].state = o
             /\ cleanups'[i].attempts = cleanups[i].attempts /\ cleanups'[i].attempts > 0
             /\ holdings'[i].target = holdings[i].target
             /\ holdings[i].state = "retiring"
             /\ o \in Completion => holdings'[i].state = "retired"
             /\ o \notin Completion => o \in Failure /\ UNCHANGED holdings
  <2>1. cleanups[i].attempts > 0
    BY <1>3 DEF Finish, RunningAs, Work
  <2>2. QED BY <1>0, <1>3, <2>1, InputAssumption DEF Finish, RunningAs, Holding, Cleanup
<1>4. QED BY <1>0, <1>1, <1>2, <1>3 DEF CleanupStep

(* Claiming, finishing and abandoning keep the task and the state of its   *)
(* row in step.                                                            *)
LEMMA AttemptObligation ==
  ASSUME TypeOK, ObligationKept, NEW i \in Issued, CleanupStep(i)
  PROVE  ObligationKept'
<1>1. Issued' = Issued BY AttemptRows DEF Issued
<1>2. cleanups[i].state \in Claimable \cup {"running"} /\ holdings[i].state = "retiring"
  BY AttemptRows DEF ObligationKept
<1>3. \A j \in Issued : /\ IsManaged(j)' <=> IsManaged(j)
                        /\ j # i => IsActive(j)' <=> IsActive(j)
  BY AttemptRows DEF IsManaged, IsActive
<1>4. /\ holdings'[i].state = "retiring" <=> cleanups'[i].state \in Claimable \cup {"running"}
      /\ holdings'[i].state # "active"
      /\ holdings'[i].state = "retired" => cleanups'[i].state \in Completion
      /\ cleanups'[i].attempts > 0
  BY <1>2, AttemptRows DEF Claimable, Failure, Completion
<1>5. \A j \in Issued \ {i} : cleanups'[j] = cleanups[j] /\ holdings'[j] = holdings[j]
  BY AttemptRows
<1>6. SUFFICES ASSUME NEW j \in Issued
               PROVE  /\ IsActive(j)' => cleanups'[j] = NoCleanup
                      /\ holdings'[j].state = "retiring" <=>
                           cleanups'[j].state \in Claimable \cup {"running"}
                      /\ holdings'[j].state = "retired" /\ IsManaged(j)' =>
                           cleanups'[j].state \in Completion
                      /\ cleanups'[j].state \in Completion \cup {"running"} =>
                           cleanups'[j].attempts > 0
  BY <1>1 DEF ObligationKept
<1>7. CASE j = i BY <1>4, <1>7 DEF IsActive
<1>8. CASE j # i BY <1>3, <1>5, <1>8 DEF ObligationKept
<1>9. QED BY <1>7, <1>8

(* Every step leaves a retiring row with exactly one unfinished task. *)
LEMMA ObligationStep ==
  ASSUME TypeOK, ObligationKept, BoundFollowsParent, [Next]_vars
  PROVE  ObligationKept'
<1>1. CASE GrantSome
  <2> SUFFICES ASSUME NEW owner \in Subject, NEW p \in Pool, NEW f \in ClaimOf[p],
                      NEW parent \in Issued \cup {NoParent}, NEW r \in LeaseRequest,
                      NEW t \in Target, Grant(owner, p, f, parent, r, t)
               PROVE  ObligationKept'
    BY <1>1 DEF GrantSome
  <2>1. \A i \in Issued : IsManaged(i)' <=> IsManaged(i)
    BY GrantRows DEF IsManaged
  <2>2. QED BY <2>1, GrantRows
            DEF ObligationKept, IsActive, NoCleanup, Claimable, Failure, Completion
<1>2. CASE UNCHANGED <<holdings, next_id, cleanups>>
  BY <1>2 DEF ObligationKept, IsActive, IsManaged, Issued
<1>3. ASSUME NEW i \in Issued, NEW s \in Subject, Transfer(i, s) PROVE ObligationKept'
  <2>1. cleanups' = cleanups BY <1>3 DEF Transfer
  <2>2. QED BY <1>3, <2>1, TransferRows DEF ObligationKept, IsActive, IsManaged
<1>4. ASSUME NEW i \in Issued, NEW r \in LeaseRequest, Renew(i, r) PROVE ObligationKept'
  <2>1. cleanups' = cleanups BY <1>4 DEF Renew
  <2>2. QED BY <1>4, <2>1, RenewRows DEF ObligationKept, IsActive, IsManaged
<1>5. ASSUME NEW i \in Issued, Release(i) PROVE ObligationKept'
  <2>1. Restated({i}, "retired") BY <1>5, OneRetired DEF Release
  <2>2. QED BY <1>5, <2>1, ReleasedObligation DEF Release, Active
<1>6. ASSUME NEW p \in Pool, SettleAndZero(p) PROVE ObligationKept'
  <2>1. Restated(OccupyingOf(p), "retired") BY <1>6 DEF SettleAndZero, Restated
  <2>2. OccupyingOf(p) \in SUBSET Active
    BY <1>6 DEF SettleAndZero, OccupyingOf, Occupying, Active
  <2>3. QED BY <1>6, <2>1, <2>2, ReleasedObligation DEF SettleAndZero
<1>7. CASE Sweep \/ (\E s \in Subject : Teardown(s)) \/
           \E i \in Issued : RequestRetirement(i) \/ TeardownHolding(i)
  BY <1>7, RetirementSteps, RetireObligation
<1>8. CASE \E i \in Issued : CleanupStep(i)
  BY <1>8, AttemptObligation
<1>9. QED BY <1>1, <1>2, <1>3, <1>4, <1>5, <1>6, <1>7, <1>8
          DEF Next, PoolStep, SubjectStep, HoldingStep, CreatePool, ResizePool,
              DeclareInstantiation, Tick, vars

(* An attempt that is out after a step was out before, or begins with it. *)
LEMMA RunningSteps ==
  ASSUME TypeOK, [Next]_vars, NEW i \in Issued', cleanups'[i].state = "running"
  PROVE  /\ i \in Issued
         /\ \/ cleanups[i].state = "running"
            \/ \E w \in Worker : Claim(i, w)
<1>1. CASE GrantSome
  BY <1>1, GrantRows DEF GrantSome, NoCleanup
<1>2. CASE UNCHANGED <<cleanups, next_id>>
  BY <1>2 DEF Issued
<1>3. ASSUME NEW S, Retire(S) PROVE i \in Issued /\ cleanups[i].state = "running"
  BY <1>3 DEF Retire, NoCleanup, Issued
<1>4. ASSUME NEW j \in Issued, CleanupStep(j)
      PROVE  /\ i \in Issued
             /\ cleanups[i].state = "running" \/ \E w \in Worker : Claim(i, w)
  <2>1. i \in Issued BY <1>4, AttemptRows DEF Issued
  <2>2. CASE i # j BY <1>4, <2>1, <2>2, AttemptRows
  <2>3. CASE i = j
    <3>1. ASSUME NEW work \in Work, Abandon(j, work) PROVE cleanups[i].state = "running"
      BY <2>3, <3>1 DEF Abandon, RunningAs
    <3>2. ASSUME NEW work \in Work, NEW o \in Outcome, Finish(j, work, o)
          PROVE  cleanups[i].state = "running"
      BY <2>3, <3>2 DEF Finish, RunningAs
    <3>3. QED BY <1>4, <2>1, <2>3, <3>1, <3>2 DEF CleanupStep
  <2>4. QED BY <2>2, <2>3
<1>5. QED BY <1>1, <1>2, <1>3, <1>4
          DEF Next, PoolStep, SubjectStep, HoldingStep, CreatePool, ResizePool, SettleAndZero,
              DeclareInstantiation, Sweep, Teardown, TeardownHolding, RequestRetirement,
              Release, Transfer, Renew, Tick, vars

(* Nothing comes to hang under the row of a running attempt. *)
LEMMA LeafStep ==
  ASSUME TypeOK, ObligationKept, RunningIsLeaf, [Next]_vars
  PROVE  RunningIsLeaf'
<1> SUFFICES ASSUME NEW i \in Issued', cleanups'[i].state = "running"
             PROVE  OccupyingChildren(i)' = {}
  BY DEF RunningIsLeaf
<1>1. /\ i \in Issued
      /\ cleanups[i].state = "running" \/ \E w \in Worker : Claim(i, w)
  BY RunningSteps
<1>2. OccupyingChildren(i) = {} /\ holdings[i].state = "retiring"
  BY <1>1 DEF RunningIsLeaf, ObligationKept, Claim
<1>3. CASE SameClaims
  BY <1>2, <1>3 DEF SameClaims, OccupyingChildren
<1>4. CASE GrantSome
  <2> SUFFICES ASSUME NEW owner \in Subject, NEW p \in Pool, NEW f \in ClaimOf[p],
                      NEW parent \in Issued \cup {NoParent}, NEW r \in LeaseRequest,
                      NEW t \in Target, Grant(owner, p, f, parent, r, t)
               PROVE  OccupyingChildren(i)' = {}
    BY <1>4 DEF GrantSome
  <2>1. parent # NoParent => IsActive(parent)
    BY DEF Grant, MayParent
  <2>2. parent # i
    BY <1>1, <1>2, <2>1 DEF IsActive, Issued, NoParent
  <2>3. /\ Occupying' = Occupying \cup {next_id}
        /\ holdings'[next_id].parent = parent
        /\ \A j \in Occupying : holdings'[j] = holdings[j]
    BY GrantRows DEF Occupying, Occupies
  <2>4. QED BY <1>2, <2>2, <2>3 DEF OccupyingChildren
<1>5. QED BY <1>3, <1>4, ClaimSteps

(* The empty ledger satisfies the inductive invariant. *)
LEMMA InitIInv == Init => IInv
<1> SUFFICES ASSUME Init PROVE IInv
  OBVIOUS
<1>1. Issued = {} /\ Occupying = {} /\ BoundChildren = {}
  BY DEF Init, Issued, Occupying, BoundChildren, Active
<1>2. WithinCapacity
  BY <1>1 DEF Init, WithinCapacity, OccupyingOf
<1>3. QED BY <1>1, <1>2, InitType
          DEF IInv, AncestorsOccupy, BoundFollowsParent, NoSharedTarget, ObligationKept,
              RunningIsLeaf

(* The invariant is inductive. *)
LEMMA IInvStep == IInv /\ [Next]_vars => IInv'
<1> SUFFICES ASSUME IInv, [Next]_vars PROVE IInv'
  OBVIOUS
<1>1. TypeOK' BY TypeStep DEF IInv
<1>2. WithinCapacity' BY <1>1, CapacityStep DEF IInv
<1>3. AncestorsOccupy' BY ForestStep DEF IInv
<1>4. BoundFollowsParent' BY BoundStep DEF IInv
<1>5. NoSharedTarget' BY TargetStep DEF IInv
<1>6. ObligationKept' BY ObligationStep DEF IInv
<1>7. RunningIsLeaf' BY LeafStep DEF IInv
<1>8. QED BY <1>1, <1>2, <1>3, <1>4, <1>5, <1>6, <1>7 DEF IInv

(* The inductive invariant holds in every reachable ledger. *)
THEOREM Inductive == Spec => []IInv
  BY InitIInv, IInvStep, PTL DEF Spec

(* No pool is ever handed out beyond its capacity, whatever is granted,    *)
(* resized, retired, settled and cleaned up in whatever order.             *)
THEOREM CapacitySafe == Spec => []WithinCapacity
<1>1. IInv => WithinCapacity BY DEF IInv
<1>2. QED BY <1>1, Inductive, PTL

(* The holdings in use always form a forest that loses only its leaves; a  *)
(* retirement takes along every usable holding that is bound to it, and    *)
(* nothing ever hangs under a holding whose cleanup is being attempted.    *)
THEOREM ForestSafe == Spec => []ForestKept
<1>1. IInv => ForestKept BY DEF IInv, ForestKept
<1>2. QED BY <1>1, Inductive, PTL

(* Two holdings never answer for one thing of the world, even while one of *)
(* them is only waiting for its cleanup.                                   *)
THEOREM TargetSafe == Spec => []NoSharedTarget
<1>1. IInv => NoSharedTarget BY DEF IInv
<1>2. QED BY <1>1, Inductive, PTL

(* No retirement loses its task and no managed holding is retired without. *)
THEOREM ObligationSafe == Spec => []ObligationKept
<1>1. IInv => ObligationKept BY DEF IInv
<1>2. QED BY <1>1, Inductive, PTL

(* Rows that never needed the world are freed by a release alone.          *)
LEMMA UnmanagedFreed ==
  ASSUME TypeOK, NEW S \in SUBSET Active, Restated(S, "retired"),
         \A i \in S : ~ IsManaged(i)
  PROVE  FreedByItsAttempt
  BY RestatedRows DEF FreedByItsAttempt, Active, Occupies

(* A step that frees a managed row is the end of its running attempt. *)
LEMMA ConfirmedStep ==
  ASSUME IInv, [Next]_vars
  PROVE  [FreedByItsAttempt]_vars
<1> USE DEF IInv
<1>1. CASE GrantSome
  BY <1>1, GrantRows DEF GrantSome, FreedByItsAttempt, Occupies
<1>2. ASSUME NEW S \in SUBSET Issued, Retiring(S) PROVE FreedByItsAttempt
  <2>1. Restated(S, "retiring") BY <1>2, RetiringRows
  <2>2. QED BY <2>1, RestatedRows DEF FreedByItsAttempt, Occupies
<1>3. CASE UNCHANGED holdings
  BY <1>3 DEF FreedByItsAttempt, Occupies
<1>4. ASSUME NEW i \in Issued, NEW s \in Subject, Transfer(i, s) PROVE FreedByItsAttempt
  BY <1>4, TransferRows DEF FreedByItsAttempt, Occupies
<1>5. ASSUME NEW i \in Issued, NEW r \in LeaseRequest, Renew(i, r) PROVE FreedByItsAttempt
  BY <1>5, RenewRows DEF FreedByItsAttempt, Occupies
<1>6. ASSUME NEW i \in Issued, Release(i) PROVE FreedByItsAttempt
  <2>1. Restated({i}, "retired") BY <1>6, OneRetired DEF Release
  <2>2. QED BY <1>6, <2>1, UnmanagedFreed DEF Release, Active
<1>7. ASSUME NEW p \in Pool, SettleAndZero(p) PROVE FreedByItsAttempt
  <2>1. Restated(OccupyingOf(p), "retired") BY <1>7 DEF SettleAndZero, Restated
  <2>2. OccupyingOf(p) \in SUBSET Active
    BY <1>7 DEF SettleAndZero, OccupyingOf, Occupying, Active
  <2>3. QED BY <1>7, <2>1, <2>2, UnmanagedFreed DEF SettleAndZero
<1>8. ASSUME NEW i \in Issued, CleanupStep(i) PROVE FreedByItsAttempt
  <2> SUFFICES ASSUME NEW j \in Issued, Occupies(j), ~ Occupies(j)'
               PROVE  /\ cleanups[j].state = "running"
                      /\ cleanups'[j].state \in Completion
                      /\ cleanups'[j].attempts = cleanups[j].attempts
    BY DEF FreedByItsAttempt
  <2>1. j = i BY <1>8, AttemptRows DEF Occupies
  <2>2. QED BY <1>8, <2>1, AttemptRows DEF Occupies
<1>9. QED BY <1>1, <1>2, <1>3, <1>4, <1>5, <1>6, <1>7, <1>8, RetirementSteps
          DEF Next, PoolStep, SubjectStep, HoldingStep, CreatePool, ResizePool,
              DeclareInstantiation, Tick, vars

(* A managed holding ends in one way only: the attempt that was out for it *)
(* reports its target gone.                                                *)
THEOREM ConfirmedSafe == Spec => FreedOnlyWhenConfirmed
<1>1. IInv /\ [Next]_vars => [FreedByItsAttempt]_vars BY ConfirmedStep
<1>2. QED BY <1>1, Inductive, PTL DEF Spec, FreedOnlyWhenConfirmed

----------------------------------------------------------------------------
(* The ledger implements Claims.  A step of the ledger is a claim taken,   *)
(* claims given up, a capacity set, an account settled, or nothing that    *)
(* Claims can see.                                                         *)

(* What Claims calls held is what the ledger counts as occupying. *)
LEMMA HeldIsOccupying ==
  ASSUME TypeOK
  PROVE  /\ Issued \subseteq Id
         /\ \A i \in Issued : ClaimOfHolding(i) \in Abstract!Claim
         /\ \A i \in Occupying : /\ claim[i].pool = holdings[i].pool
                                 /\ claim[i].frag = holdings[i].frag
                                 /\ claim[i].parent = holdings[i].parent
         /\ \A i \in Id \ Issued : claim[i] = Free
         /\ Abstract!Held = Occupying
<1>1. Issued \subseteq Id
  BY BoundsAssumption DEF TypeOK, Issued, Id
<1>2. \A i \in Issued : ClaimOfHolding(i) \in Abstract!Claim
  BY DEF TypeOK, Holding, ClaimOfHolding, Abstract!Claim
<1>3. \A i \in Issued : ClaimOfHolding(i) \notin {Free, Spent}
  BY <1>2, PhaseAssumption DEF Abstract!Claim
<1>4. /\ \A i \in Occupying : claim[i] = ClaimOfHolding(i)
      /\ \A i \in Id \ Issued : claim[i] = Free
      /\ \A i \in Issued \ Occupying : claim[i] = Spent
  BY <1>1 DEF claim, Occupying
<1>5. Abstract!Held = Occupying
  BY <1>1, <1>3, <1>4 DEF Abstract!Held, Occupying
<1>6. \A i \in Occupying : /\ claim[i].pool = holdings[i].pool
                           /\ claim[i].frag = holdings[i].frag
                           /\ claim[i].parent = holdings[i].parent
  BY <1>1 DEF claim, Occupying, ClaimOfHolding
<1>7. QED BY <1>1, <1>2, <1>4, <1>5, <1>6

(* A pool's claims are its holdings, and weigh the same. *)
LEMMA FamilyIsLive ==
  ASSUME TypeOK, NEW p \in Pool
  PROVE  /\ Abstract!HeldOf(p) = OccupyingOf(p)
         /\ Abstract!Family(p) = LiveFrags(p)
<1>1. \A i \in Occupying : claim[i].pool = holdings[i].pool /\ claim[i].frag = holdings[i].frag
  BY HeldIsOccupying
<1>2. Abstract!HeldOf(p) = OccupyingOf(p)
  BY <1>1, HeldIsOccupying DEF Abstract!HeldOf, OccupyingOf
<1>3. Abstract!Family(p) = LiveFrags(p)
  BY <1>1, <1>2 DEF Abstract!Family, LiveFrags, OccupyingOf
<1>4. QED BY <1>2, <1>3

(* Rows that are freed are claims given up, leaves first. *)
LEMMA FreedDrops ==
  ASSUME TypeOK, NEW S \in SUBSET Issued, Freed(S)
  PROVE  Abstract!Removable(S) /\ claim' = Abstract!Dropped(S)
<1>1. S \subseteq Occupying /\ Restated(S, "retired") BY DEF Freed
<1>2. Abstract!Removable(S)
  BY <1>1, HeldIsOccupying DEF Freed, Abstract!Removable
<1>3. Issued' = Issued BY <1>1, RestatedRows
<1>4. ASSUME NEW i \in Id PROVE claim'[i] = IF i \in S THEN Spent ELSE claim[i]
  <2>1. CASE i \notin Issued BY <1>3, <2>1 DEF claim
  <2>2. CASE i \in S BY <1>1, <1>3, <2>2, RestatedRows DEF claim, Occupies
  <2>3. CASE i \in Issued \ S
    BY <1>1, <1>3, <2>3, RestatedRows DEF claim, Occupies, ClaimOfHolding
  <2>4. QED BY <2>1, <2>2, <2>3
<1>5. claim' = Abstract!Dropped(S) BY <1>4 DEF claim, Abstract!Dropped
<1>6. QED BY <1>2, <1>5

(* A grant is a claim taken. *)
LEMMA GrantTakes ==
  ASSUME TypeOK, NEW owner \in Subject, NEW p \in Pool, NEW f \in ClaimOf[p],
         NEW parent \in Issued \cup {NoParent}, NEW r \in LeaseRequest, NEW t \in Target,
         Grant(owner, p, f, parent, r, t)
  PROVE  Abstract!Take(next_id, [pool |-> p, frag |-> f, parent |-> parent])
<1> DEFINE c == [pool |-> p, frag |-> f, parent |-> parent]
<1>1. next_id \in Id \ Issued
  <2>1. next_id \notin Issued BY GrantRows
  <2>2. next_id < MaxId BY DEF Grant
  <2>3. QED BY <2>1, <2>2, BoundsAssumption DEF TypeOK, Id
<1>2. claim[next_id] = Free BY <1>1, HeldIsOccupying
<1>3. c.parent # NoParent => c.parent \in Abstract!Held
  BY HeldIsOccupying DEF Grant, MayParent, IsActive, Occupying, Occupies
<1>4. Admits(capacities[p],
                [j \in Abstract!HeldOf(p) \cup {next_id} |->
                   IF j = next_id THEN f ELSE claim[j].frag])
  <2>1. \A j \in OccupyingOf(p) : claim[j].frag = holdings[j].frag
    BY HeldIsOccupying DEF OccupyingOf
  <2>2. [j \in Abstract!HeldOf(p) \cup {next_id} |-> IF j = next_id THEN f ELSE claim[j].frag]
        = [j \in OccupyingOf(p) \cup {next_id} |-> IF j = next_id THEN f ELSE holdings[j].frag]
    BY <2>1, FamilyIsLive
  <2>3. QED BY <2>2 DEF Grant
<1>5. ASSUME NEW i \in Id PROVE claim'[i] = IF i = next_id THEN c ELSE claim[i]
  <2>1. CASE i = next_id
    BY <2>1, GrantRows DEF claim, Occupies, ClaimOfHolding
  <2>2. CASE i \in Issued
    BY <2>2, GrantRows DEF claim, Occupies, ClaimOfHolding
  <2>3. CASE i \notin Issued /\ i # next_id
    BY <2>3, GrantRows DEF claim
  <2>4. QED BY <2>1, <2>2, <2>3
<1>6. claim' = [claim EXCEPT ![next_id] = c]
  BY <1>1, <1>5 DEF claim
<1>7. QED BY <1>2, <1>3, <1>4, <1>6 DEF Abstract!Take, Grant

(* Owners, leases and retirement requests are nothing Claims can see. *)
LEMMA UnseenStep ==
  ASSUME TypeOK,
         \/ UNCHANGED <<holdings, next_id>>
         \/ \E i \in Issued, s \in Subject : Transfer(i, s)
         \/ \E i \in Issued, r \in LeaseRequest : Renew(i, r)
         \/ \E S \in SUBSET Issued : Retiring(S)
  PROVE  claim' = claim
<1>1. CASE UNCHANGED <<holdings, next_id>>
  BY <1>1 DEF claim, ClaimOfHolding, Occupies, Issued
<1>2. ASSUME NEW i \in Issued, NEW s \in Subject, Transfer(i, s) PROVE claim' = claim
  BY <1>2, TransferRows DEF claim, ClaimOfHolding, Occupies
<1>3. ASSUME NEW i \in Issued, NEW r \in LeaseRequest, Renew(i, r) PROVE claim' = claim
  BY <1>3, RenewRows DEF claim, ClaimOfHolding, Occupies
<1>4. ASSUME NEW S \in SUBSET Issued, Retiring(S) PROVE claim' = claim
  <2>1. Restated(S, "retiring") BY <1>4, RetiringRows
  <2>2. \A i \in S : IsActive(i) BY <1>4 DEF Retiring, Active
  <2>3. Issued' = Issued /\ \A i \in Issued : /\ Occupies(i)' <=> Occupies(i)
                                              /\ ClaimOfHolding(i)' = ClaimOfHolding(i)
    BY <2>1, <2>2, RestatedRows DEF Occupies, IsActive, ClaimOfHolding
  <2>4. QED BY <2>3 DEF claim
<1>5. QED BY <1>1, <1>2, <1>3, <1>4

(* Creating, resizing and closing a pool are steps of Claims. *)
LEMMA PoolStepRefines ==
  ASSUME IInv, PoolStep
  PROVE  Abstract!Next
<1>0. TypeOK /\ WithinCapacity BY DEF IInv
<1>1. ASSUME NEW p \in Pool, SettleAndZero(p) PROVE Abstract!Settle(p)
  <2>1. Freed(OccupyingOf(p)) BY <1>0, <1>1, SettledFreed
  <2>2. OccupyingOf(p) \in SUBSET Issued BY DEF OccupyingOf, Occupying
  <2>3. QED BY <1>0, <1>1, <2>1, <2>2, FreedDrops, FamilyIsLive
            DEF Abstract!Settle, SettleAndZero
<1>2. ASSUME NEW p \in Pool, NEW c \in CapacityOf[p], CreatePool(p, c) \/ ResizePool(p, c)
      PROVE  Abstract!SetCapacity(p, c) /\ c \in Frag
  <2>1. claim' = claim
    BY <1>0, <1>2, UnseenStep DEF CreatePool, ResizePool
  <2>2. Admits(c, LiveFrags(p))
    <3>1. CASE CreatePool(p, c)
      <4>1. OccupyingOf(p) = {} BY <1>0, <3>1 DEF WithinCapacity, CreatePool
      <4>2. LiveFrags(p) = [i \in {} |-> Zero] BY <4>1 DEF LiveFrags
      <4>3. QED BY <4>2, AuthEmpty
    <3>2. CASE ResizePool(p, c) BY <3>2 DEF ResizePool
    <3>3. QED BY <1>2, <3>1, <3>2
  <2>3. QED BY <1>0, <1>2, <2>1, <2>2, FamilyIsLive, PoolAssumption
            DEF Abstract!SetCapacity, CreatePool, ResizePool
<1>3. QED BY <1>1, <1>2 DEF PoolStep, Abstract!Next

(* Every step of the ledger is a step of Claims or leaves the claims       *)
(* alone.                                                                  *)
LEMMA StepRefines ==
  ASSUME IInv, [Next]_vars
  PROVE  [Abstract!Next]_(Abstract!vars)
<1>0. TypeOK /\ ObligationKept BY DEF IInv
<1>1. CASE PoolStep
  BY <1>1, PoolStepRefines
<1>2. CASE ~ PoolStep
  <2>1. capacities' = capacities
    BY <1>2, CapacitySteps
  <2>2. CASE claim' = claim
    BY <2>1, <2>2 DEF Abstract!vars
  <2>3. CASE GrantSome
    <3>1. PICK owner \in Subject, p \in Pool, parent \in Issued \cup {NoParent},
               r \in LeaseRequest, t \in Target :
                 \E f \in ClaimOf[p] : Grant(owner, p, f, parent, r, t)
      BY <2>3 DEF GrantSome
    <3> PICK f \in ClaimOf[p] : Grant(owner, p, f, parent, r, t)
      BY <3>1
    <3>2. Abstract!Take(next_id, [pool |-> p, frag |-> f, parent |-> parent])
      BY <1>0, GrantTakes
    <3>3. next_id \in Id /\ [pool |-> p, frag |-> f, parent |-> parent] \in Abstract!Claim
      BY <1>0, HeldIsOccupying, PoolAssumption, BoundsAssumption
         DEF Grant, TypeOK, Id, Abstract!Claim
    <3>4. QED BY <3>2, <3>3 DEF Abstract!Next
  <2>4. ASSUME NEW S \in SUBSET Issued, Freed(S) PROVE Abstract!Next
    <3>1. Abstract!Drop(S)
      BY <1>0, <2>1, <2>4, FreedDrops DEF Abstract!Drop
    <3>2. S \in SUBSET Abstract!Held
      BY <1>0, <2>4, HeldIsOccupying DEF Freed
    <3>3. QED BY <3>1, <3>2 DEF Abstract!Next
  <2>5. QED BY <1>0, <2>2, <2>3, <2>4, RowSteps, UnseenStep
<1>3. QED BY <1>1, <1>2

(* The ledger keeps the promise of Claims whatever its constants are: for  *)
(* every algebra in which parts of admissible families are admissible.     *)
THEOREM LedgerImplementsClaims == Spec => ImplementsClaims
<1>1. Init => Abstract!Init
  BY DEF Init, Abstract!Init, claim, Issued
<1>2. IInv /\ [Next]_vars => [Abstract!Next]_(Abstract!vars)
  BY StepRefines
<1>3. QED BY <1>1, <1>2, Inductive, PTL DEF Spec, ImplementsClaims, Abstract!Spec

----------------------------------------------------------------------------
(* The retirement path.                                                    *)

Place == {"idle", "requested", "recover", "recovering", "permit", "list", "visit",
          "execute", "finish", "unwind"}
Acting == {"execute", "finish", "unwind"}
Attempt == [holding : Issued, work : Work]

(* The shape of what the runners remember, as far as it matters below. *)
RunnerType ==
  /\ pc \in [Runner -> Place]
  /\ todo \in [Runner -> SUBSET Issued]
  /\ observed \in [Runner -> SUBSET Attempt]
  /\ session \in [Runner -> Worker \cup {NoWorker}]
  /\ task \in [Runner -> Attempt \cup {NoTask}]
  /\ outcome \in [Runner -> Outcome \cup {"unknown"}]
  /\ home \in [Worker -> Process \cup {NoProcess}]

(* What the runners need of the ledger. *)
LedgerInv ==
  /\ TypeOK
  /\ AncestorsOccupy
  /\ BoundFollowsParent
  /\ ObligationKept
  /\ RunningIsLeaf

(* The session of a run is known to be at work in its process, and no two  *)
(* runs have the same.                                                     *)
SessionsKnown ==
  \A r \in Runner : InRun(r) => session[r] \in Worker /\ home[session[r]] = ProcessOf[r]
SessionsDiffer ==
  \A q, r \in Runner : InRun(q) /\ InRun(r) /\ session[q] = session[r] => q = r

(* A runner has a task while it acts, and the record of it is its own. *)
ActsOnTask == \A r \in Runner : task[r] # NoTask <=> pc[r] \in Acting
TasksCurrent ==
  \A r \in Runner : task[r] # NoTask => IsCurrent(r) /\ task[r].work.worker = session[r]
WorkersNamed ==
  \A i \in Issued : cleanups[i].state = "running" => cleanups[i].worker \in Worker

(* What a runner is about to commit as done is gone. *)
ReportedGone ==
  \A r \in Runner : pc[r] = "finish" /\ outcome[r] \in Completion => TargetOf(r) \notin present

RunnerInv ==
  /\ LedgerInv
  /\ RunnerType
  /\ SessionsKnown
  /\ SessionsDiffer
  /\ ActsOnTask
  /\ TasksCurrent
  /\ WorkersNamed
  /\ ReportedGone
  /\ FreedMeansGone

----------------------------------------------------------------------------
(* A retirement keeps what the runners need of the ledger. *)
LEMMA RetiringInv ==
  ASSUME LedgerInv, NEW S \in SUBSET Issued, Retiring(S)
  PROVE  LedgerInv'
<1>1. /\ Restated(S, "retiring")
      /\ \A j \in S : Occupies(j)
      /\ \A i \in Issued : holdings[i].parent # NoParent => holdings[i].parent \in Issued
  <2>1. \A i \in Issued : holdings[i].parent # NoParent => holdings[i].parent \in Issued
    BY DEF LedgerInv, TypeOK, AncestorsOccupy, Holding, Id, Issued, NoParent
  <2>2. QED BY <2>1, RetiringRows DEF LedgerInv, Retiring, Active, IsActive, Occupies
<1>2. TypeOK' BY RetireType DEF LedgerInv, Retiring
<1>3. AncestorsOccupy'
  BY <1>1, RestatedRows DEF LedgerInv, AncestorsOccupy, Occupies
<1>4. BoundFollowsParent'
  <2>1. /\ Active' = Active \ S
        /\ BoundChildren' = BoundChildren \ S
    BY <1>1, RestatedRows DEF LedgerInv, Active, IsActive, BoundChildren
  <2>2. BoundChildren \subseteq Issued BY DEF BoundChildren, Active
  <2>3. QED BY <1>1, <2>1, <2>2, RestatedRows
            DEF LedgerInv, BoundFollowsParent, Retiring, Closed
<1>5. ObligationKept' BY RetireObligation DEF LedgerInv
<1>6. RunningIsLeaf'
  <2> SUFFICES ASSUME NEW i \in Issued', cleanups'[i].state = "running"
               PROVE  OccupyingChildren(i)' = {}
    BY DEF RunningIsLeaf
  <2>1. i \in Issued /\ cleanups[i].state = "running"
    BY DEF Retiring, Retire, NoCleanup, Issued
  <2>2. OccupyingChildren(i) = {} BY <2>1 DEF LedgerInv, RunningIsLeaf
  <2>3. /\ Occupying' = Occupying
        /\ \A j \in Occupying : holdings'[j].parent = holdings[j].parent
    BY <1>1, RestatedRows DEF LedgerInv, Occupying, Occupies
  <2>4. QED BY <2>2, <2>3 DEF OccupyingChildren
<1>7. QED BY <1>2, <1>3, <1>4, <1>5, <1>6 DEF LedgerInv

(* So does a step of an attempt, which is one of the ledger's own. *)
LEMMA AttemptInv ==
  ASSUME LedgerInv, NEW i \in Issued, CleanupStep(i)
  PROVE  LedgerInv'
<1>1. [Next]_vars BY DEF Next
<1>2. QED BY <1>1, TypeStep, ForestStep, BoundStep, ObligationStep, LeafStep DEF LedgerInv

(* No row comes or goes, and no row changes its target. *)
SameTargets ==
  /\ Issued' = Issued
  /\ \A i \in Issued : holdings'[i].target = holdings[i].target
LEMMA TargetsStay ==
  ASSUME LedgerInv,
         \/ UNCHANGED ledgerVars
         \/ \E S \in SUBSET Issued : Retiring(S)
         \/ \E i \in Issued : CleanupStep(i)
  PROVE  LedgerInv' /\ SameTargets
<1>1. CASE UNCHANGED ledgerVars
  BY <1>1 DEF ledgerVars, vars, LedgerInv, SameTargets, TypeOK, AncestorsOccupy,
              BoundFollowsParent, ObligationKept, RunningIsLeaf, Issued, Occupies, BoundChildren,
              Active, IsActive, IsManaged, OccupyingChildren, Occupying
<1>2. ASSUME NEW S \in SUBSET Issued, Retiring(S) PROVE LedgerInv' /\ SameTargets
  BY <1>2, RetiringInv, RetiringRows, RestatedRows DEF LedgerInv, SameTargets
<1>3. ASSUME NEW i \in Issued, CleanupStep(i) PROVE LedgerInv' /\ SameTargets
  <2>1. Issued' = Issued BY <1>3, AttemptRows DEF Issued, LedgerInv
  <2>2. \A j \in Issued : holdings'[j].target = holdings[j].target
    BY <1>3, AttemptRows DEF LedgerInv
  <2>3. QED BY <1>3, <2>1, <2>2, AttemptInv DEF SameTargets
<1>4. QED BY <1>1, <1>2, <1>3

----------------------------------------------------------------------------
(* Most steps leave each runner its run, or end its task and perhaps its   *)
(* run with it, and do to the ledger what the tasks that go on allow.      *)
Keeps(q) ==
  /\ session'[q] = session[q] /\ task'[q] = task[q] /\ outcome'[q] = outcome[q]
  /\ InRun(q)' => InRun(q)
  /\ pc'[q] \in Acting <=> pc[q] \in Acting
  /\ pc'[q] = "finish" => pc[q] = "finish"
Leaves(q) ==
  /\ task'[q] = NoTask /\ pc'[q] \notin Acting
  /\ InRun(q)' => InRun(q) /\ session'[q] = session[q]
Settles(i) ==
  /\ CleanupStep(i)
  /\ cleanups[i].state = "running"
  /\ \A q \in Runner : Keeps(q) => task[q].holding # i
  /\ holdings'[i].state = "retired" => holdings[i].target \notin present
Plain ==
  /\ \A q \in Runner : Keeps(q) \/ Leaves(q)
  /\ \A q \in Runner : InRun(q)' => home'[session[q]] = home[session[q]]
  /\ present' \subseteq present
  /\ \/ UNCHANGED ledgerVars
     \/ \E S \in SUBSET Issued : Retiring(S)
     \/ \E i \in Issued : Settles(i)

(* What a task is, spelled out. *)
LEMMA TaskFacts ==
  ASSUME RunnerInv, NEW q \in Runner, task[q] # NoTask
  PROVE  /\ task[q].holding \in Issued /\ task[q].work \in Work
         /\ cleanups[task[q].holding] = RunningAs(task[q].work)
         /\ cleanups[task[q].holding].state = "running"
         /\ cleanups[task[q].holding].worker = session[q]
         /\ task[q].work.worker = session[q]
         /\ holdings[task[q].holding].state = "retiring"
         /\ pc[q] \in Acting /\ InRun(q)
<1>1. task[q] \in Attempt BY DEF RunnerInv, RunnerType
<1>2. task[q].holding \in Issued /\ task[q].work \in Work BY <1>1 DEF Attempt
<1>3. cleanups[task[q].holding] = RunningAs(task[q].work) /\ task[q].work.worker = session[q]
  BY DEF RunnerInv, TasksCurrent, IsCurrent
<1>4. pc[q] \in Acting /\ InRun(q)
  BY DEF RunnerInv, ActsOnTask, InRun, Acting
<1>5. cleanups[task[q].holding].state = "running" /\ cleanups[task[q].holding].worker = session[q]
  BY <1>3 DEF RunningAs
<1>6. holdings[task[q].holding].state = "retiring"
  BY <1>2, <1>5 DEF RunnerInv, LedgerInv, ObligationKept
<1>7. QED BY <1>2, <1>3, <1>4, <1>5, <1>6

(* No row a runner holds a task for is anyone else's. *)
LEMMA TasksApart ==
  ASSUME RunnerInv, NEW q \in Runner, NEW r \in Runner, task[q] # NoTask, task[r] # NoTask,
         task[q].holding = task[r].holding
  PROVE  q = r
  BY TaskFacts DEF RunnerInv, SessionsDiffer

(* A plain step keeps the record of every task that goes on. *)
LEMMA RecordStays ==
  ASSUME RunnerInv, Plain, NEW q \in Runner, Keeps(q), task[q] # NoTask
  PROVE  cleanups'[task[q].holding] = cleanups[task[q].holding]
<1> DEFINE h == task[q].holding
<1>1. h \in Issued /\ holdings[h].state = "retiring" BY TaskFacts
<1>2. CASE UNCHANGED ledgerVars BY <1>2 DEF ledgerVars, vars
<1>3. ASSUME NEW S \in SUBSET Issued, Retiring(S) PROVE cleanups'[h] = cleanups[h]
  <2>1. h \notin S BY <1>1, <1>3 DEF Retiring, Active, IsActive
  <2>2. QED BY <1>1, <1>3, <2>1 DEF Retiring, Retire
<1>4. ASSUME NEW i \in Issued, Settles(i) PROVE cleanups'[h] = cleanups[h]
  <2>1. h # i /\ CleanupStep(i) BY <1>4 DEF Settles
  <2>2. TypeOK BY DEF RunnerInv, LedgerInv
  <2>3. QED BY <1>1, <2>1, <2>2, AttemptRows
<1>5. QED BY <1>2, <1>3, <1>4 DEF Plain

(* A plain step keeps the invariant. *)
LEMMA PlainStep ==
  ASSUME RunnerInv, Plain, RunnerType'
  PROVE  RunnerInv'
<1>1. LedgerInv' /\ SameTargets
  BY TargetsStay DEF RunnerInv, Plain, Settles
<1>2. SessionsKnown'
  BY DEF RunnerInv, SessionsKnown, Plain, Keeps, Leaves
<1>3. SessionsDiffer'
  BY DEF RunnerInv, SessionsDiffer, Plain, Keeps, Leaves
<1>4. ActsOnTask'
  BY DEF RunnerInv, ActsOnTask, Plain, Keeps, Leaves
<1>5. TasksCurrent'
  <2> SUFFICES ASSUME NEW q \in Runner, task'[q] # NoTask
               PROVE  IsCurrent(q)' /\ task'[q].work.worker = session'[q]
    BY DEF TasksCurrent
  <2>1. Keeps(q) BY DEF Plain, Leaves
  <2>2. task'[q] = task[q] /\ session'[q] = session[q] BY <2>1 DEF Keeps
  <2>3. cleanups'[task[q].holding] = cleanups[task[q].holding] BY <2>1, <2>2, RecordStays
  <2>4. cleanups[task[q].holding] = RunningAs(task[q].work) /\ task[q].work.worker = session[q]
    BY <2>2, TaskFacts
  <2>5. QED BY <2>2, <2>3, <2>4 DEF IsCurrent
<1>6. WorkersNamed'
  <2> SUFFICES ASSUME NEW i \in Issued, cleanups'[i].state = "running"
               PROVE  cleanups'[i].worker \in Worker
    BY <1>1 DEF WorkersNamed, SameTargets
  <2>1. CASE UNCHANGED ledgerVars
    BY <2>1 DEF RunnerInv, WorkersNamed, ledgerVars, vars
  <2>2. ASSUME NEW S \in SUBSET Issued, Retiring(S) PROVE cleanups'[i].worker \in Worker
    BY <2>2 DEF Retiring, Retire, NoCleanup, RunnerInv, WorkersNamed
  <2>3. ASSUME NEW j \in Issued, Settles(j) PROVE cleanups'[i].worker \in Worker
    <3>1. CleanupStep(j) /\ cleanups[j].state = "running" /\ TypeOK
      BY <2>3 DEF Settles, RunnerInv, LedgerInv
    <3>2. cleanups'[j].state # "running"
      BY <3>1, AttemptRows DEF Claimable, Failure, Completion
    <3>3. cleanups'[i] = cleanups[i]
      BY <3>1, <3>2, AttemptRows
    <3>4. QED BY <3>3 DEF RunnerInv, WorkersNamed
  <2>4. QED BY <2>1, <2>2, <2>3 DEF Plain
<1>7. ReportedGone'
  <2> SUFFICES ASSUME NEW q \in Runner, pc'[q] = "finish", outcome'[q] \in Completion
               PROVE  TargetOf(q)' \notin present'
    BY DEF ReportedGone
  <2>1. Keeps(q) BY DEF Plain, Leaves, Acting
  <2>2. task'[q] = task[q] /\ pc[q] = "finish" /\ outcome[q] \in Completion
    BY <2>1 DEF Keeps
  <2>3. TargetOf(q) \notin present BY <2>2 DEF RunnerInv, ReportedGone
  <2>4. task[q].holding \in Issued
    BY <2>2, TaskFacts DEF RunnerInv, ActsOnTask, Acting
  <2>5. QED BY <1>1, <2>2, <2>3, <2>4 DEF SameTargets, TargetOf, Plain
<1>8. FreedMeansGone'
  <2> SUFFICES ASSUME NEW i \in Issued, IsManaged(i)', holdings'[i].state = "retired"
               PROVE  holdings[i].target \notin present
    BY <1>1 DEF FreedMeansGone, SameTargets, Plain
  <2>0. IsManaged(i) BY <1>1 DEF IsManaged, SameTargets
  <2>1. CASE holdings[i].state = "retired"
    BY <2>0, <2>1 DEF RunnerInv, FreedMeansGone
  <2>2. CASE holdings[i].state # "retired"
    <3>1. ~ UNCHANGED ledgerVars BY <2>2 DEF ledgerVars, vars
    <3>2. ASSUME NEW S \in SUBSET Issued, Retiring(S) PROVE FALSE
      <4>1. TypeOK /\ Restated(S, "retiring") BY <3>2, RetiringRows DEF RunnerInv, LedgerInv
      <4>2. QED BY <2>2, <4>1, RestatedRows
    <3>3. ASSUME NEW j \in Issued, Settles(j) PROVE holdings[i].target \notin present
      <4>1. CleanupStep(j) /\ TypeOK BY <3>3 DEF Settles, RunnerInv, LedgerInv
      <4>2. i = j BY <2>2, <4>1, AttemptRows
      <4>3. QED BY <3>3, <4>2 DEF Settles
    <3>4. QED BY <3>1, <3>2, <3>3 DEF Plain
  <2>3. QED BY <2>1, <2>2
<1>9. QED BY <1>1, <1>2, <1>3, <1>4, <1>5, <1>6, <1>7, <1>8 DEF RunnerInv

----------------------------------------------------------------------------
(* Steps that neither act nor end anything: every task is kept. *)
Quiet ==
  /\ UNCHANGED <<session, task, outcome, home>>
  /\ present' \subseteq present
  /\ \A q \in Runner : /\ InRun(q)' => InRun(q)
                       /\ pc'[q] \in Acting <=> pc[q] \in Acting
                       /\ pc'[q] = "finish" => pc[q] = "finish"

LEMMA QuietStep ==
  ASSUME RunnerInv, Quiet, RunnerType',
         \/ UNCHANGED ledgerVars
         \/ \E S \in SUBSET Issued : Retiring(S)
         \/ \E i \in Issued : Settles(i)
  PROVE  RunnerInv'
<1>1. Plain BY DEF Plain, Quiet, Keeps
<1>2. QED BY <1>1, PlainStep

(* What a request retires is a retirement of the ledger. *)
Retires == UNCHANGED ledgerVars \/ \E S \in SUBSET Issued : Retiring(S)

LEMMA TornDown ==
  ASSUME TypeOK, NEW X \in SUBSET Occupying, RetireAny(OccupyingClosure(X) \cap Active)
  PROVE  Retires
<1>1. /\ Active \subseteq Occupying /\ Occupying \subseteq Issued
      /\ BoundChildren \subseteq Active
  BY DEF Active, Occupying, BoundChildren, IsActive, Occupies
<1>2. Closed(OccupyingClosure(X), Occupying)
  BY <1>1, ClosureFacts DEF OccupyingClosure
<1>3. Closed(OccupyingClosure(X) \cap Active, BoundChildren)
  BY <1>1, <1>2 DEF Closed
<1>4. OccupyingClosure(X) \cap Active \in SUBSET Issued
  BY <1>1
<1>5. QED BY <1>3, <1>4 DEF RetireAny, Retires, Retiring

LEMMA TakenOver ==
  ASSUME TypeOK, RetireAny(Due \cup BoundClosure({i \in Active : IsManaged(i)}))
  PROVE  Retires
<1> DEFINE M == {i \in Active : IsManaged(i)}
           X == {i \in Occupying : ~ IsActive(i) \/ Expired(i)}
<1>1. /\ Active \subseteq Occupying /\ Occupying \subseteq Issued
      /\ BoundChildren \subseteq Active /\ M \subseteq Active /\ X \subseteq Occupying
  BY DEF Active, Occupying, BoundChildren, IsActive, Occupies
<1>2. Closed(BoundClosure(X), BoundChildren) /\ Closed(BoundClosure(M), BoundChildren)
  BY <1>1, ClosureFacts DEF BoundClosure
<1>3. BoundClosure(M) \subseteq Active
  <2>1. Closed(Active, BoundChildren) BY <1>1 DEF Closed
  <2>2. Active \in SUBSET Issued /\ M \in SUBSET Issued /\ BoundChildren \in SUBSET Issued
    BY <1>1
  <2>3. QED BY <1>1, <2>1, <2>2, ClosureFacts DEF BoundClosure
<1>4. Closed(Due, BoundChildren) /\ Due \subseteq Active
  BY <1>1, <1>2 DEF Closed, Due
<1>5. Closed(Due \cup BoundClosure(M), BoundChildren)
  BY <1>2, <1>4 DEF Closed
<1>6. Due \cup BoundClosure(M) \subseteq Active /\ Active \subseteq Issued
  BY <1>1, <1>3, <1>4
<1>7. QED BY <1>5, <1>6 DEF RetireAny, Retires, Retiring

LEMMA RequestedRetires ==
  ASSUME TypeOK, NEW r \in Runner, Begin(r)
  PROVE  Retires
<1>1. CASE RetireAny(Due)
  <2>1. CASE Due = {} BY <1>1, <2>1 DEF RetireAny, Retires
  <2>2. CASE Due # {} BY <1>1, <2>2, RetirementSteps DEF RetireAny, Sweep, Retires
  <2>3. QED BY <2>1, <2>2
<1>2. ASSUME NEW i \in Issued, BeginRelease(r, i) PROVE Retires
  BY <1>2, RetirementSteps DEF BeginRelease, Retires
<1>3. ASSUME NEW s \in Subject, RetireAny(OwnedClosure(s) \cap Active) PROVE Retires
  <2>1. {i \in Occupying : holdings[i].subject = s} \in SUBSET Occupying OBVIOUS
  <2>2. QED BY <1>3, <2>1, TornDown DEF OwnedClosure
<1>4. ASSUME NEW s \in Subject, BeginTeardown(r, s) PROVE Retires
  BY <1>3, <1>4 DEF BeginTeardown, BeginTearing
<1>5. ASSUME NEW i \in Issued, BeginTeardownHolding(r, i) PROVE Retires
  <2>1. {i} \cap Occupying \in SUBSET Occupying OBVIOUS
  <2>2. QED BY <1>5, <2>1, TornDown DEF BeginTeardownHolding, BeginTearing
<1>6. ASSUME NEW i \in Issued, BeginReclaim(r, i) PROVE Retires
  <2>1. CASE Occupies(i)
    <3>1. holdings[i].subject \in Subject BY DEF TypeOK, Holding
    <3>2. QED BY <1>3, <1>6, <2>1, <3>1 DEF BeginReclaim, BeginTearing
  <2>2. CASE ~ Occupies(i)
    BY <1>6, <2>2 DEF BeginReclaim, BeginTearing, RetireAny, Retires
  <2>3. QED BY <2>1, <2>2
<1>7. CASE BeginOpen(r)
  BY <1>7, TakenOver DEF BeginOpen
<1>8. CASE BeginSweep(r) BY <1>1, <1>8 DEF BeginSweep
<1>9. QED BY <1>2, <1>4, <1>5, <1>6, <1>7, <1>8 DEF Begin

(* A retirement issues no identity. *)
LEMMA RetiresIssued == Retires => Issued' = Issued
  BY DEF Retires, Retiring, Retire, ledgerVars, vars, Issued

(* Every request, and the opening of a store. *)
LEMMA BeginStep ==
  ASSUME RunnerInv, NEW r \in Runner, Begin(r)
  PROVE  RunnerInv'
<1>1. Retires BY RequestedRetires DEF RunnerInv, LedgerInv
<1>2. /\ \E n \in {"requested", "recover"} : pc' = [pc EXCEPT ![r] = n]
      /\ pc[r] = "idle"
      /\ UNCHANGED <<todo, observed, session, task, outcome, present, home>>
  <2>1. ASSUME NEW n, NEW S, Requested(r, n, S), n \in {"requested", "recover"}
        PROVE  /\ pc' = [pc EXCEPT ![r] = n]
               /\ pc[r] = "idle"
               /\ UNCHANGED <<todo, observed, session, task, outcome, present, home>>
    BY <2>1 DEF Requested
  <2>2. CASE BeginOpen(r) BY <2>2 DEF BeginOpen
  <2>3. QED BY <2>1, <2>2 DEF Begin, BeginSweep, BeginRelease, BeginTeardown, BeginTeardownHolding,
                          BeginReclaim, BeginTearing
<1>3. RunnerType'
  <2>1. pc' \in [Runner -> Place]
    BY <1>2 DEF RunnerInv, RunnerType, Place
  <2>2. QED BY <1>1, <1>2, <2>1, RetiresIssued DEF RunnerInv, RunnerType, Attempt
<1>4. Quiet
  BY <1>2 DEF RunnerInv, RunnerType, Quiet, InRun, Acting
<1>5. QED BY <1>1, <1>3, <1>4, QuietStep DEF Retires

(* A record that a recovery lists is one that could be claimed. *)
LEMMA RunningListed == RunnerInv => RunningTasks \subseteq Attempt
<1> SUFFICES ASSUME RunnerInv, NEW i \in Issued, cleanups[i].state = "running"
             PROVE  [holding |-> i, work |-> [attempts |-> cleanups[i].attempts,
                                              worker |-> cleanups[i].worker]] \in Attempt
  BY DEF RunningTasks
<1>1. cleanups[i] \in Cleanup BY DEF RunnerInv, LedgerInv, TypeOK
<1>2. cleanups[i].attempts > 0 /\ cleanups[i].worker \in Worker
  BY DEF RunnerInv, LedgerInv, ObligationKept, WorkersNamed
<1>3. cleanups[i].attempts \in 1 .. MaxAttempts
  BY <1>1, <1>2, BoundsAssumption DEF Cleanup
<1>4. QED BY <1>2, <1>3 DEF Attempt, Work

(* Steps that only read the ledger. *)
LEMMA ReadStep ==
  ASSUME RunnerInv, NEW r \in Runner,
         \/ ReadScope(r) \/ Observe(r) \/ Permit(r) \/ List(r)
         \/ \E e \in observed[r] : LeaveAlone(r, e)
         \/ \E i \in todo[r] : Skip(r, i)
         \/ EndPass(r) /\ progress[r]
         \/ Panic(r)
  PROVE  RunnerInv'
<1>1. UNCHANGED ledgerVars /\ UNCHANGED <<session, task, outcome, home, present>>
  BY DEF ReadScope, Observe, Permit, List, LeaveAlone, Skip, EndPass, Panic
<1>2. \/ pc' = pc
      \/ pc[r] = "requested" /\ pc' = [pc EXCEPT ![r] = "recover"]
      \/ pc[r] = "recover" /\ pc' = [pc EXCEPT ![r] = "recovering"]
      \/ pc[r] = "permit" /\ pc' = [pc EXCEPT ![r] = "list"]
      \/ pc[r] = "list" /\ pc' = [pc EXCEPT ![r] = "visit"]
      \/ pc[r] = "visit" /\ pc' = [pc EXCEPT ![r] = "permit"]
      \/ pc[r] = "execute" /\ pc' = [pc EXCEPT ![r] = "unwind"]
  BY DEF ReadScope, Observe, Permit, List, LeaveAlone, Skip, EndPass, Panic
<1>3. \/ todo' = todo
      \/ \E T \in SUBSET Issued : todo' = [todo EXCEPT ![r] = T]
  <2>1. CASE List(r) BY <2>1 DEF List
  <2>2. ASSUME NEW i \in todo[r], Skip(r, i)
        PROVE  \E T \in SUBSET Issued : todo' = [todo EXCEPT ![r] = T]
    BY <2>2 DEF Skip, RunnerInv, RunnerType
  <2>3. QED BY <2>1, <2>2 DEF ReadScope, Observe, Permit, LeaveAlone, EndPass, Panic
<1>4. \/ observed' = observed
      \/ \E O \in SUBSET Attempt : observed' = [observed EXCEPT ![r] = O]
  <2>1. CASE Observe(r) BY <2>1, RunningListed DEF Observe
  <2>2. ASSUME NEW e \in observed[r], LeaveAlone(r, e)
        PROVE  \E O \in SUBSET Attempt : observed' = [observed EXCEPT ![r] = O]
    BY <2>2 DEF LeaveAlone, RunnerInv, RunnerType
  <2>3. QED BY <2>1, <2>2 DEF ReadScope, List, Permit, Skip, EndPass, Panic
<1>5. Issued' = Issued BY <1>1 DEF Issued, ledgerVars, vars
<1>6. RunnerType'
  <2>1. pc' \in [Runner -> Place] BY <1>2 DEF RunnerInv, RunnerType, Place
  <2>2. todo' \in [Runner -> SUBSET Issued] BY <1>3 DEF RunnerInv, RunnerType
  <2>3. observed' \in [Runner -> SUBSET Attempt] BY <1>4 DEF RunnerInv, RunnerType
  <2>4. QED BY <1>1, <1>5, <2>1, <2>2, <2>3 DEF RunnerInv, RunnerType, Attempt
<1>7. Quiet BY <1>1, <1>2 DEF RunnerInv, RunnerType, Quiet, InRun, Acting
<1>8. QED BY <1>1, <1>6, <1>7, QuietStep

(* A worker that is taken for gone holds no task that goes on. *)
LEMMA GoneHasNoTask ==
  ASSUME RunnerInv, NEW r \in Runner, NEW e \in Attempt, Gone(r, e.work.worker),
         cleanups[e.holding] = RunningAs(e.work), NEW q \in Runner, task[q].holding = e.holding
  PROVE  FALSE
<1>1. e.holding \in Issued /\ cleanups[e.holding].worker = e.work.worker
  BY DEF Attempt, RunningAs
<1>2. task[q] # NoTask BY <1>1 DEF NoTask, NoParent, Issued
<1>3. InRun(q) /\ session[q] = e.work.worker BY <1>1, <1>2, TaskFacts
<1>4. home[e.work.worker] = ProcessOf[q] /\ ProcessOf[q] \in Process
  BY <1>3, RunnerAssumption DEF RunnerInv, SessionsKnown
<1>5. Live(e.work.worker) BY <1>3 DEF Live
<1>6. QED BY <1>4, <1>5, RunnerAssumption DEF Gone

(* So recovering what it had changes no task. *)
LEMMA RecoverStep ==
  ASSUME RunnerInv, NEW r \in Runner, NEW e \in observed[r], Recover(r, e)
  PROVE  RunnerInv'
<1>1. e \in Attempt BY DEF RunnerInv, RunnerType
<1>2. e.holding \in Issued /\ e.work \in Work BY <1>1 DEF Attempt
<1>3. CleanupStep(e.holding) BY <1>2 DEF Recover, CleanupStep
<1>4. cleanups[e.holding] = RunningAs(e.work) /\ UNCHANGED holdings
  BY DEF Recover, Abandon
<1>5. cleanups[e.holding].state = "running" /\ cleanups[e.holding].worker = e.work.worker
  BY <1>4 DEF RunningAs
<1>6. holdings[e.holding].state = "retiring"
  BY <1>2, <1>5 DEF RunnerInv, LedgerInv, ObligationKept
<1>7. ASSUME NEW q \in Runner, task[q].holding = e.holding PROVE FALSE
  BY <1>1, <1>4, <1>7, GoneHasNoTask DEF Recover
<1>8. Settles(e.holding)
  BY <1>3, <1>4, <1>5, <1>6, <1>7 DEF Settles
<1>9. RunnerType'
  <2>1. Issued' = Issued BY DEF Recover, Abandon, Issued
  <2>2. observed' \in [Runner -> SUBSET Attempt]
    BY DEF Recover, RunnerInv, RunnerType
  <2>3. QED BY <2>1, <2>2 DEF Recover, RunnerInv, RunnerType, Attempt
<1>10. Quiet BY DEF Recover, Quiet, InRun
<1>11. QED BY <1>2, <1>8, <1>9, <1>10, QuietStep

(* A target that goes away on its own only adds to what is gone. *)
LEMMA VanishStep ==
  ASSUME RunnerInv, Vanish
  PROVE  RunnerInv'
<1>1. UNCHANGED ledgerVars /\ UNCHANGED runnerVars /\ UNCHANGED home /\ present' \subseteq present
  BY DEF Vanish
<1>2. RunnerType'
  BY <1>1 DEF RunnerInv, RunnerType, Attempt, Issued, ledgerVars, vars, runnerVars
<1>3. Quiet BY <1>1 DEF Quiet, InRun, runnerVars
<1>4. QED BY <1>1, <1>2, <1>3, QuietStep

----------------------------------------------------------------------------
(* Runs that end leave every other run as it is. *)
LEMMA IdleRuns ==
  ASSUME RunnerInv, NEW R \in SUBSET Runner, Idle(R), Issued' = Issued
  PROVE  /\ \A q \in R : Leaves(q) /\ pc'[q] = "idle"
         /\ \A q \in Runner \ R : Keeps(q) /\ pc'[q] = pc[q]
         /\ home' \in [Worker -> Process \cup {NoProcess}] => RunnerType'
<1>2. NoTask \in Attempt \cup {NoTask} OBVIOUS
<1>3. \A q \in R : Leaves(q) /\ pc'[q] = "idle"
  BY DEF Idle, Leaves, Acting, InRun
<1>4. \A q \in Runner \ R : Keeps(q) /\ pc'[q] = pc[q]
  BY DEF Idle, Keeps, InRun
<1>5. pc' \in [Runner -> Place] BY DEF Idle, RunnerInv, RunnerType, Place
<1>6. todo' \in [Runner -> SUBSET Issued] BY DEF Idle, RunnerInv, RunnerType
<1>7. observed' \in [Runner -> SUBSET Attempt] BY DEF Idle, RunnerInv, RunnerType
<1>8. session' \in [Runner -> Worker \cup {NoWorker}] BY DEF Idle, RunnerInv, RunnerType
<1>9. task' \in [Runner -> Attempt \cup {NoTask}] BY DEF Idle, RunnerInv, RunnerType
<1>10. outcome' \in [Runner -> Outcome \cup {"unknown"}]
  BY DEF Idle, RunnerInv, RunnerType
<1>11. Attempt' = Attempt BY DEF Attempt
<1>12. QED BY <1>3, <1>4, <1>5, <1>6, <1>7, <1>8, <1>9, <1>10, <1>11 DEF RunnerType

(* Runs that end with nothing done to the ledger. *)
LEMMA AbortedStep ==
  ASSUME RunnerInv, NEW r \in Runner,
         \/ \E e \in observed[r] : RecoverStale(r, e)
         \/ Commit(r) /\ ~ IsCurrent(r)
         \/ CommitFails(r)
         \/ Unwind(r) /\ ~ IsCurrent(r)
         \/ Fenced(r)
         \/ EndPass(r) /\ ~ progress[r]
  PROVE  RunnerInv'
<1>1. UNCHANGED ledgerVars /\ UNCHANGED <<present, home>> /\ Idle({r})
  BY DEF RecoverStale, Commit, CommitFails, Unwind, Fenced, EndPass, Ends
<1>2. Issued' = Issued BY <1>1 DEF Issued, ledgerVars, vars
<1>3. RunnerType' BY <1>1, <1>2, IdleRuns DEF RunnerInv, RunnerType
<1>4. Plain BY <1>1, <1>2, IdleRuns DEF Plain
<1>5. QED BY <1>3, <1>4, PlainStep

(* An unwinding executor gives its task back as unknown. *)
LEMMA UnwindStep ==
  ASSUME RunnerInv, NEW r \in Runner, Unwind(r), IsCurrent(r)
  PROVE  RunnerInv'
<1> DEFINE i == task[r].holding
<1>1. Idle({r}) /\ UNCHANGED <<present, home>> /\ Finish(i, task[r].work, "unknown")
      /\ pc[r] = "unwind"
  BY DEF Unwind, Ends
<1>2. task[r] # NoTask BY <1>1 DEF RunnerInv, ActsOnTask, Acting
<1>3. Abandon(i, task[r].work) /\ Issued' = Issued /\ holdings' = holdings
  BY <1>1 DEF Finish, Abandon, Completion, Issued
<1>4. /\ i \in Issued /\ cleanups[i].state = "running" /\ task[r].work \in Work
      /\ holdings[i].state = "retiring"
  BY <1>2, TaskFacts
<1>5. CleanupStep(i) BY <1>3, <1>4 DEF CleanupStep
<1>6. Leaves(r) /\ pc'[r] = "idle" /\ ~ Keeps(r)
  <2>1. Leaves(r) /\ pc'[r] = "idle" BY <1>1, <1>3, IdleRuns
  <2>2. QED BY <1>2, <2>1 DEF Leaves, Keeps
<1>7. \A q \in Runner : Keeps(q) => task[q].holding # i
  <2> SUFFICES ASSUME NEW q \in Runner, Keeps(q), task[q].holding = i PROVE FALSE
    OBVIOUS
  <2>1. task[q] # NoTask BY <1>4 DEF NoTask, NoParent, Issued
  <2>2. q = r BY <1>2, <2>1, TasksApart
  <2>3. QED BY <1>6, <2>2
<1>8. Settles(i) BY <1>3, <1>4, <1>5, <1>7 DEF Settles
<1>9. RunnerType' BY <1>1, <1>3, IdleRuns DEF RunnerInv, RunnerType
<1>10. Plain BY <1>1, <1>3, <1>4, <1>8, IdleRuns DEF Plain
<1>11. QED BY <1>9, <1>10, PlainStep

(* A result is committed for the record it belongs to, and frees the row   *)
(* only when the target is gone.                                           *)
LEMMA CommitStep ==
  ASSUME RunnerInv, NEW r \in Runner, Commit(r), IsCurrent(r)
  PROVE  RunnerInv'
<1> DEFINE i == task[r].holding
<1>1. /\ Finish(i, task[r].work, outcome[r]) /\ pc[r] = "finish"
      /\ pc' = [pc EXCEPT ![r] = "visit"]
      /\ task' = [task EXCEPT ![r] = NoTask]
      /\ outcome' = [outcome EXCEPT ![r] = "unknown"]
      /\ UNCHANGED <<todo, observed, session, present, home>>
  BY DEF Commit
<1>2. task[r] # NoTask BY <1>1 DEF RunnerInv, ActsOnTask, Acting
<1>3. /\ i \in Issued /\ cleanups[i].state = "running" /\ task[r].work \in Work
      /\ holdings[i].state = "retiring"
  BY <1>2, TaskFacts
<1>4. outcome[r] \in Outcome \cup {"unknown"} BY DEF RunnerInv, RunnerType
<1>5. CleanupStep(i)
  <2>1. CASE outcome[r] \in Outcome
    BY <1>1, <1>3, <2>1 DEF CleanupStep
  <2>2. CASE outcome[r] = "unknown"
    <3>1. Abandon(i, task[r].work)
      BY <1>1, <2>2 DEF Finish, Abandon, Completion
    <3>2. QED BY <1>3, <3>1 DEF CleanupStep
  <2>3. QED BY <1>4, <2>1, <2>2
<1>6. \A q \in Runner : q # r => Keeps(q)
  BY <1>1 DEF Keeps, InRun, RunnerInv, RunnerType
<1>7. /\ Leaves(r) /\ ~ Keeps(r)
      /\ pc'[r] = "visit" /\ session'[r] = session[r]
  BY <1>1, <1>2 DEF Keeps, Leaves, InRun, Acting, RunnerInv, RunnerType
<1>8. \A q \in Runner : Keeps(q) => task[q].holding # i
  <2> SUFFICES ASSUME NEW q \in Runner, Keeps(q), task[q].holding = i PROVE FALSE
    OBVIOUS
  <2>1. task[q] # NoTask BY <1>3 DEF NoTask, NoParent, Issued
  <2>2. q = r BY <1>2, <2>1, TasksApart
  <2>3. QED BY <1>7, <2>2
<1>9. holdings'[i].state = "retired" => holdings[i].target \notin present
  <2>1. CASE outcome[r] \in Completion
    BY <1>1, <2>1 DEF RunnerInv, ReportedGone, TargetOf
  <2>2. CASE outcome[r] \notin Completion
    BY <1>1, <1>3, <2>2 DEF Finish
  <2>3. QED BY <2>1, <2>2
<1>10. Settles(i) BY <1>3, <1>5, <1>8, <1>9 DEF Settles
<1>11. Plain BY <1>1, <1>3, <1>6, <1>7, <1>10 DEF Plain
<1>12. RunnerType'
  <2>1. Issued' = Issued BY <1>1 DEF Finish, Issued
  <2>2. pc' \in [Runner -> Place] BY <1>1 DEF RunnerInv, RunnerType, Place
  <2>3. task' \in [Runner -> Attempt \cup {NoTask}] BY <1>1 DEF RunnerInv, RunnerType
  <2>4. outcome' \in [Runner -> Outcome \cup {"unknown"}] BY <1>1 DEF RunnerInv, RunnerType
  <2>5. Attempt' = Attempt BY <2>1 DEF Attempt
  <2>6. QED BY <1>1, <2>1, <2>2, <2>3, <2>4, <2>5 DEF RunnerInv, RunnerType
<1>13. QED BY <1>11, <1>12, PlainStep

(* A process that dies or exits takes all its runs with it. *)
LEMMA DiedStep ==
  ASSUME RunnerInv, NEW p \in Process, Crash(p) \/ Exit(p)
  PROVE  RunnerInv'
<1>1. UNCHANGED ledgerVars /\ UNCHANGED present
      /\ home' = [w \in Worker |-> IF home[w] = p THEN NoProcess ELSE home[w]]
  BY DEF Crash, Exit, Died
<1>2. Issued' = Issued BY <1>1 DEF Issued, ledgerVars, vars
<1>3. home' \in [Worker -> Process \cup {NoProcess}]
  BY <1>1 DEF RunnerInv, RunnerType
<1>4. RunnerType' /\ \A q \in Runner : Keeps(q) \/ Leaves(q)
  <2>1. RunnersOf(p) \in SUBSET Runner BY DEF RunnersOf
  <2>2. CASE Crash(p)
    BY <1>2, <1>3, <2>1, <2>2, IdleRuns DEF Crash
  <2>3. CASE Exit(p)
    BY <1>2, <1>3, <2>3 DEF Exit, runnerVars, RunnerInv, RunnerType, Attempt, Keeps, InRun
  <2>4. QED BY <2>2, <2>3
<1>5. ASSUME NEW q \in Runner, InRun(q)' PROVE home'[session[q]] = home[session[q]]
  <2>1. ProcessOf[q] # p
    <3>1. CASE Crash(p) BY <1>5, <3>1 DEF Crash, Idle, RunnersOf, InRun
    <3>2. CASE Exit(p) BY <1>5, <3>2 DEF Exit, RunnersOf, InRun, runnerVars
    <3>3. QED BY <3>1, <3>2
  <2>2. InRun(q) BY <1>4, <1>5 DEF Keeps, Leaves
  <2>3. session[q] \in Worker /\ home[session[q]] = ProcessOf[q]
    BY <2>2 DEF RunnerInv, SessionsKnown
  <2>4. QED BY <1>1, <2>1, <2>3
<1>6. Plain BY <1>1, <1>4, <1>5 DEF Plain
<1>7. QED BY <1>4, <1>6, PlainStep

----------------------------------------------------------------------------
(* A run that starts takes a session nobody else has, and its process      *)
(* forgets no session that is at work.                                     *)
LEMMA StartStep ==
  ASSUME RunnerInv, NEW r \in Runner, NEW w \in Fresh, StartRun(r, w)
  PROVE  RunnerInv'
<1>1. /\ pc[r] = "recovering" /\ pc' = [pc EXCEPT ![r] = "permit"]
      /\ session' = [session EXCEPT ![r] = w]
      /\ home' = [v \in Worker |-> IF v = w THEN ProcessOf[r]
                                   ELSE IF v \in Fresh THEN NoProcess ELSE home[v]]
      /\ UNCHANGED ledgerVars /\ UNCHANGED <<todo, observed, task, outcome, present>>
  BY DEF StartRun
<1>2. w \in Worker /\ ~ Live(w) BY DEF Fresh, Remembered
<1>3. LedgerInv' /\ SameTargets /\ UNCHANGED <<holdings, cleanups>>
  BY <1>1, TargetsStay DEF RunnerInv, ledgerVars, vars
<1>4. \A q \in Runner \ {r} : /\ pc'[q] = pc[q] /\ session'[q] = session[q]
                              /\ InRun(q)' <=> InRun(q)
  BY <1>1 DEF RunnerInv, RunnerType, InRun
<1>5. pc'[r] = "permit" /\ session'[r] = w /\ ~ InRun(r)
  BY <1>1 DEF RunnerInv, RunnerType, InRun
<1>6. ASSUME NEW q \in Runner, InRun(q)
      PROVE  session[q] # w /\ home'[session[q]] = home[session[q]]
  <2>1. Live(session[q]) BY <1>6 DEF Live
  <2>2. session[q] \notin Fresh BY <2>1 DEF Fresh, Remembered
  <2>3. session[q] \in Worker BY <1>6 DEF RunnerInv, SessionsKnown
  <2>4. QED BY <1>1, <2>2, <2>3
<1>7. RunnerType'
  <2>1. pc' \in [Runner -> Place] BY <1>1 DEF RunnerInv, RunnerType, Place
  <2>2. session' \in [Runner -> Worker \cup {NoWorker}]
    BY <1>1, <1>2 DEF RunnerInv, RunnerType
  <2>3. home' \in [Worker -> Process \cup {NoProcess}]
    BY <1>1, RunnerAssumption DEF RunnerInv, RunnerType
  <2>4. QED BY <1>1, <1>3, <2>1, <2>2, <2>3 DEF RunnerInv, RunnerType, Attempt, SameTargets
<1>8. SessionsKnown'
  <2>1. home'[w] = ProcessOf[r] BY <1>1, <1>2
  <2>2. QED BY <1>2, <1>4, <1>5, <1>6, <2>1 DEF RunnerInv, SessionsKnown
<1>9. SessionsDiffer'
  BY <1>4, <1>5, <1>6 DEF RunnerInv, SessionsDiffer
<1>10. task[r] = NoTask
  BY <1>1 DEF RunnerInv, ActsOnTask, Acting
<1>11. ActsOnTask'
  BY <1>1, <1>4, <1>5, <1>10 DEF RunnerInv, ActsOnTask, Acting
<1>12. TasksCurrent'
  BY <1>1, <1>3, <1>4, <1>10 DEF RunnerInv, TasksCurrent, IsCurrent
<1>13. WorkersNamed'
  BY <1>3 DEF RunnerInv, WorkersNamed, SameTargets
<1>14. ReportedGone'
  BY <1>1, <1>3, <1>4, <1>5 DEF RunnerInv, ReportedGone, TargetOf
<1>15. FreedMeansGone'
  BY <1>1, <1>3 DEF RunnerInv, FreedMeansGone, SameTargets, IsManaged
<1>16. QED BY <1>3, <1>7, <1>8, <1>9, <1>11, <1>12, <1>13, <1>14, <1>15 DEF RunnerInv

(* A claim is made of a record that is nobody's, in the runner's session. *)
LEMMA VisitStep ==
  ASSUME RunnerInv, NEW r \in Runner, NEW i \in todo[r], Visit(r, i)
  PROVE  RunnerInv'
<1> DEFINE claimed == [attempts |-> cleanups'[i].attempts, worker |-> session[r]]
           new == [holding |-> i, work |-> claimed]
<1>1. /\ Claim(i, session[r]) /\ pc[r] = "visit"
      /\ pc' = [pc EXCEPT ![r] = "execute"]
      /\ task' = [task EXCEPT ![r] = new]
      /\ todo' = [todo EXCEPT ![r] = @ \ {i}]
      /\ UNCHANGED <<observed, session, outcome, present, home>>
  BY DEF Visit
<1>2. i \in Issued BY DEF RunnerInv, RunnerType
<1>3. InRun(r) /\ session[r] \in Worker
  BY <1>1 DEF RunnerInv, SessionsKnown, InRun
<1>4. CleanupStep(i) BY <1>1, <1>3 DEF CleanupStep
<1>5. LedgerInv' /\ SameTargets
  BY <1>2, <1>4, TargetsStay DEF RunnerInv
<1>6. /\ cleanups'[i] = RunningAs([attempts |-> cleanups[i].attempts + 1, worker |-> session[r]])
      /\ \A j \in Issued : j # i => cleanups'[j] = cleanups[j]
      /\ holdings' = holdings
  BY <1>1, <1>2 DEF Claim, RunnerInv, LedgerInv, TypeOK
<1>7. cleanups'[i] = RunningAs(claimed) /\ claimed.worker = session[r]
  BY <1>6 DEF RunningAs
<1>8. claimed \in Work /\ new \in Attempt /\ new.holding = i /\ new.work = claimed
  <2>1. cleanups[i] \in Cleanup /\ cleanups[i].attempts < MaxAttempts
    BY <1>1, <1>2 DEF Claim, RunnerInv, LedgerInv, TypeOK
  <2>2. cleanups[i].attempts + 1 \in 1 .. MaxAttempts
    BY <2>1, BoundsAssumption DEF Cleanup
  <2>3. claimed.attempts = cleanups[i].attempts + 1 BY <1>6 DEF RunningAs
  <2>4. QED BY <1>2, <1>3, <2>2, <2>3 DEF Work, Attempt
<1> HIDE DEF claimed, new
<1>9. ASSUME NEW q \in Runner, task[q] # NoTask PROVE task[q].holding # i
  <2>1. cleanups[i].state # "running" BY <1>1 DEF Claim, Claimable, Failure
  <2>2. QED BY <1>9, <2>1, TaskFacts
<1>10. \A q \in Runner \ {r} : pc'[q] = pc[q] /\ task'[q] = task[q]
  BY <1>1 DEF RunnerInv, RunnerType
<1>11. pc'[r] = "execute" /\ task'[r] = new
  BY <1>1 DEF RunnerInv, RunnerType
<1>12. \A q \in Runner : InRun(q)' <=> InRun(q)
  BY <1>3, <1>10, <1>11 DEF InRun
<1>13. RunnerType'
  <2>1. Issued' = Issued BY <1>5 DEF SameTargets
  <2>2. pc' \in [Runner -> Place] BY <1>1 DEF RunnerInv, RunnerType, Place
  <2>3. task' \in [Runner -> Attempt \cup {NoTask}] BY <1>1, <1>8 DEF RunnerInv, RunnerType
  <2>4. todo' \in [Runner -> SUBSET Issued] BY <1>1 DEF RunnerInv, RunnerType
  <2>5. QED BY <1>1, <2>1, <2>2, <2>3, <2>4 DEF RunnerInv, RunnerType, Attempt
<1>14. SessionsKnown' /\ SessionsDiffer'
  BY <1>1, <1>12 DEF RunnerInv, SessionsKnown, SessionsDiffer
<1>15. new # NoTask BY <1>2, <1>8 DEF NoTask, NoParent, Issued
<1>16. ActsOnTask'
  BY <1>10, <1>11, <1>15 DEF RunnerInv, ActsOnTask, Acting
<1>17. TasksCurrent'
  <2> SUFFICES ASSUME NEW q \in Runner, task'[q] # NoTask
               PROVE  IsCurrent(q)' /\ task'[q].work.worker = session'[q]
    BY DEF TasksCurrent
  <2>1. CASE q = r BY <1>1, <1>7, <1>8, <1>11, <2>1 DEF IsCurrent
  <2>2. CASE q # r
    <3>1. task'[q] = task[q] /\ session'[q] = session[q] /\ task[q] # NoTask
      BY <1>1, <1>10, <2>2
    <3>2. /\ task[q].holding \in Issued /\ cleanups[task[q].holding] = RunningAs(task[q].work)
          /\ task[q].work.worker = session[q]
      BY <3>1, TaskFacts
    <3>3. task[q].holding # i BY <1>9, <3>1
    <3>4. QED BY <1>6, <3>1, <3>2, <3>3 DEF IsCurrent
  <2>3. QED BY <2>1, <2>2
<1>18. WorkersNamed'
  <2>1. cleanups'[i].worker = session[r] BY <1>6 DEF RunningAs
  <2>2. QED BY <1>3, <1>5, <1>6, <2>1 DEF RunnerInv, WorkersNamed, SameTargets
<1>19. ReportedGone'
  <2> SUFFICES ASSUME NEW q \in Runner, pc'[q] = "finish", outcome'[q] \in Completion
               PROVE  TargetOf(q)' \notin present'
    BY DEF ReportedGone
  <2>1. q # r BY <1>11
  <2>2. QED BY <1>1, <1>6, <1>10, <2>1 DEF RunnerInv, ReportedGone, TargetOf
<1>20. FreedMeansGone'
  BY <1>1, <1>5, <1>6 DEF RunnerInv, FreedMeansGone, SameTargets, IsManaged
<1>21. QED BY <1>5, <1>13, <1>14, <1>16, <1>17, <1>18, <1>19, <1>20 DEF RunnerInv

(* An executor that reports a target gone has seen it gone. *)
LEMMA ReportStep ==
  ASSUME RunnerInv, NEW r \in Runner, NEW o \in Outcome \cup {"unknown"},
         NEW P \in SUBSET present, pc[r] = "execute", Reported(r, o, P),
         o \in Completion => TargetOf(r) \notin P
  PROVE  RunnerInv'
<1>1. /\ outcome' = [outcome EXCEPT ![r] = o] /\ present' = P
      /\ pc' = [pc EXCEPT ![r] = "finish"]
      /\ UNCHANGED ledgerVars /\ UNCHANGED <<todo, observed, session, task, home>>
  BY DEF Reported
<1>2. LedgerInv' /\ SameTargets /\ UNCHANGED <<holdings, cleanups>>
  BY <1>1, TargetsStay DEF RunnerInv, ledgerVars, vars
<1>3. \A q \in Runner \ {r} : pc'[q] = pc[q] /\ outcome'[q] = outcome[q]
  BY <1>1 DEF RunnerInv, RunnerType
<1>4. pc'[r] = "finish" /\ outcome'[r] = o
  BY <1>1 DEF RunnerInv, RunnerType
<1>5. \A q \in Runner : InRun(q)' <=> InRun(q)
  BY <1>3, <1>4 DEF InRun
<1>6. RunnerType'
  <2>1. pc' \in [Runner -> Place] BY <1>1 DEF RunnerInv, RunnerType, Place
  <2>2. outcome' \in [Runner -> Outcome \cup {"unknown"}] BY <1>1 DEF RunnerInv, RunnerType
  <2>3. QED BY <1>1, <1>2, <2>1, <2>2 DEF RunnerInv, RunnerType, Attempt, SameTargets
<1>7. SessionsKnown' /\ SessionsDiffer'
  BY <1>1, <1>5 DEF RunnerInv, SessionsKnown, SessionsDiffer
<1>8. ActsOnTask'
  BY <1>1, <1>3, <1>4 DEF RunnerInv, ActsOnTask, Acting
<1>9. TasksCurrent'
  BY <1>1, <1>2 DEF RunnerInv, TasksCurrent, IsCurrent
<1>10. WorkersNamed'
  BY <1>2 DEF RunnerInv, WorkersNamed, SameTargets
<1>11. ReportedGone'
  BY <1>1, <1>2, <1>3, <1>4 DEF RunnerInv, ReportedGone, TargetOf
<1>12. FreedMeansGone'
  BY <1>1, <1>2 DEF RunnerInv, FreedMeansGone, SameTargets, IsManaged
<1>13. QED BY <1>2, <1>6, <1>7, <1>8, <1>9, <1>10, <1>11, <1>12 DEF RunnerInv

----------------------------------------------------------------------------
(* Runners that have not started find a ledger in order. *)
LEMMA InitRunner == RunnerInit => RunnerInv
<1> SUFFICES ASSUME RunnerInit PROVE RunnerInv
  OBVIOUS
<1>1. /\ next_id = Seed.next_id /\ holdings = Seed.holdings /\ capacities = Seed.capacities
      /\ Issued = 0 .. Seed.next_id - 1
      /\ cleanups = [i \in Issued |-> NoCleanup]
  BY DEF RunnerInit, Issued
<1>2. \A i \in Issued : /\ holdings[i] \in Holding /\ holdings[i].state = "active"
                        /\ holdings[i].parent < i
                        /\ holdings[i].lease.kind = "parent_bound" =>
                             holdings[i].parent # NoParent
                        /\ cleanups[i] = NoCleanup
  BY <1>1, SeedAssumption
<1>3. TypeOK
  <2>1. NoCleanup \in Cleanup BY BoundsAssumption DEF Cleanup, NoCleanup
  <2>2. instantiations \in [Subject -> Subject] /\ now \in Time
    BY BoundsAssumption DEF RunnerInit, Time
  <2>3. QED BY <1>1, <2>1, <2>2, SeedAssumption DEF TypeOK
<1>4. \A i \in Issued : holdings[i].parent # NoParent => holdings[i].parent \in Issued
  BY <1>2, <1>3 DEF TypeOK, Holding, Id, Issued, NoParent
<1>5. AncestorsOccupy BY <1>2, <1>4 DEF AncestorsOccupy, Occupies
<1>6. BoundFollowsParent
  BY <1>2, <1>4 DEF BoundFollowsParent, BoundChildren, Active, IsActive
<1>7. ObligationKept /\ RunningIsLeaf /\ WorkersNamed /\ FreedMeansGone
  BY <1>2 DEF ObligationKept, RunningIsLeaf, WorkersNamed, FreedMeansGone, NoCleanup,
              Claimable, Failure, Completion
<1>8. LedgerInv BY <1>3, <1>5, <1>6, <1>7 DEF LedgerInv
<1>9. \A r \in Runner : pc[r] = "idle" /\ task[r] = NoTask
  BY DEF RunnerInit
<1>10. RunnerType BY DEF RunnerInit, RunnerType, Place
<1>11. SessionsKnown /\ SessionsDiffer /\ ActsOnTask /\ TasksCurrent /\ ReportedGone
  BY <1>9 DEF SessionsKnown, SessionsDiffer, ActsOnTask, TasksCurrent, ReportedGone, InRun,
              Acting
<1>12. QED BY <1>7, <1>8, <1>10, <1>11 DEF RunnerInv

(* Every step of every runner, process and of the world keeps it. *)
LEMMA RunnerInvStep == RunnerInv /\ [RunnerNext]_runVars => RunnerInv'
<1> SUFFICES ASSUME RunnerInv, [RunnerNext]_runVars PROVE RunnerInv'
  OBVIOUS
<1>1. CASE UNCHANGED runVars
  <2>1. UNCHANGED ledgerVars /\ UNCHANGED runnerVars /\ UNCHANGED <<home, present>>
    BY <1>1 DEF runVars
  <2>2. RunnerType'
    BY <2>1 DEF RunnerInv, RunnerType, Attempt, Issued, ledgerVars, vars, runnerVars
  <2>3. Quiet BY <2>1 DEF Quiet, InRun, runnerVars
  <2>4. QED BY <2>1, <2>2, <2>3, QuietStep
<1>2. ASSUME NEW r \in Runner, Execute(r) PROVE RunnerInv'
  <2> DEFINE o == IF TargetOf(r) \in present \/ ~ IsManaged(task[r].holding)
                    THEN "confirmed" ELSE "already_absent"
  <2>1. o \in Outcome \cup {"unknown"}
    BY RunnerAssumption DEF Completion
  <2>2. pc[r] = "execute" /\ Reported(r, o, Removed(r)) BY <1>2 DEF Execute
  <2>3. Removed(r) \in SUBSET present /\ TargetOf(r) \notin Removed(r) BY DEF Removed
  <2> HIDE DEF o
  <2>4. QED BY <2>1, <2>2, <2>3, ReportStep
<1>3. ASSUME NEW r \in Runner, ExecuteFails(r) PROVE RunnerInv'
  <2>1. PICK o \in Outcome \cap Failure, P \in {present, present \ {TargetOf(r)}} :
          Reported(r, o, P)
    BY <1>3 DEF ExecuteFails
  <2>2. pc[r] = "execute" /\ P \in SUBSET present BY <1>3, <2>1 DEF ExecuteFails
  <2>3. o \notin Completion BY DEF Failure, Completion
  <2>4. QED BY <2>1, <2>2, <2>3, ReportStep
<1>4. ASSUME NEW r \in Runner, RunStep(r) PROVE RunnerInv'
  <2>1. CASE ReadScope(r) \/ Observe(r) \/ Permit(r) \/ List(r)
    BY <2>1, ReadStep
  <2>2. CASE EndPass(r)
    BY <2>2, ReadStep, AbortedStep
  <2>3. ASSUME NEW i \in todo[r], Skip(r, i) \/ Visit(r, i) PROVE RunnerInv'
    BY <2>3, ReadStep, VisitStep
  <2>4. ASSUME NEW e \in observed[r], Recover(r, e) \/ LeaveAlone(r, e) \/ RecoverStale(r, e)
        PROVE  RunnerInv'
    BY <2>4, ReadStep, RecoverStep, AbortedStep
  <2>5. ASSUME NEW w \in Fresh, StartRun(r, w) PROVE RunnerInv'
    BY <2>5, StartStep
  <2>6. CASE Fenced(r) BY <2>6, AbortedStep
  <2>7. CASE Execute(r) BY <1>2, <2>7
  <2>8. CASE Commit(r) BY <2>8, CommitStep, AbortedStep
  <2>9. CASE Unwind(r) BY <2>9, UnwindStep, AbortedStep
  <2>10. QED
    BY <1>4, <2>1, <2>2, <2>3, <2>4, <2>5, <2>6, <2>7, <2>8, <2>9 DEF RunStep
<1>5. CASE Fault
  <2>1. ASSUME NEW r \in Runner, Panic(r) PROVE RunnerInv' BY <2>1, ReadStep
  <2>2. ASSUME NEW r \in Runner, CommitFails(r) PROVE RunnerInv' BY <2>2, AbortedStep
  <2>3. QED BY <1>3, <1>5, <2>1, <2>2, DiedStep, VanishStep DEF Fault
<1>6. QED BY <1>1, <1>4, <1>5, BeginStep, DiedStep DEF RunnerNext

(* The inductive invariant holds in every reachable state of the runners. *)
THEOREM RunnerInductive == RunnerSpec => []RunnerInv
  BY InitRunner, RunnerInvStep, PTL DEF RunnerSpec

(* The ledger stays in shape and a forest whatever the runners do to it,   *)
(* in whatever order, and no retirement loses its task.                    *)
THEOREM RunnersKeepLedger == RunnerSpec => [](TypeOK /\ ForestKept /\ ObligationKept)
<1>1. RunnerInv => TypeOK /\ ForestKept /\ ObligationKept
  BY DEF RunnerInv, LedgerInv, ForestKept
<1>2. QED BY <1>1, RunnerInductive, PTL

(* No executor outlives its claim and no two act for one row, whatever     *)
(* crashes, recovers, panics or opens the root beside them.                *)
THEOREM AttemptSafe == RunnerSpec => []AttemptIsOurs
<1>1. RunnerInv => AttemptIsOurs
  <2> SUFFICES ASSUME RunnerInv, NEW r \in Runner, task[r] # NoTask
               PROVE  /\ IsCurrent(r)
                      /\ holdings[task[r].holding].state = "retiring"
                      /\ \A q \in Runner \ {r} : task[q].holding # task[r].holding
    BY DEF AttemptIsOurs
  <2>1. IsCurrent(r) /\ holdings[task[r].holding].state = "retiring"
    BY TaskFacts DEF RunnerInv, TasksCurrent
  <2>2. ASSUME NEW q \in Runner, task[q].holding = task[r].holding PROVE q = r
    <3>1. task[q] # NoTask BY <2>2, TaskFacts DEF NoTask, NoParent, Issued
    <3>2. QED BY <2>2, <3>1, TasksApart
  <2>3. QED BY <2>1, <2>2
<1>2. QED BY <1>1, RunnerInductive, PTL

(* No failed commit, crash, retry or late result frees a managed row whose *)
(* target is still there.                                                  *)
THEOREM FreedSafe == RunnerSpec => []FreedMeansGone
<1>1. RunnerInv => FreedMeansGone BY DEF RunnerInv
<1>2. QED BY <1>1, RunnerInductive, PTL

(* Whatever hangs under a row whose attempt is out has been freed. *)
LEMMA UnderAttempt ==
  ASSUME RunnerInv, NEW r \in Runner, task[r] # NoTask,
         NEW c \in Issued, Ancestor(task[r].holding, c)
  PROVE  ~ Occupies(c)
<1> DEFINE a == task[r].holding
           T == {i \in Issued : i = a \/ ~ Occupies(i)}
<1>1. a \in Issued /\ OccupyingChildren(a) = {}
  BY TaskFacts DEF RunnerInv, LedgerInv, RunningIsLeaf
<1>2. \A i \in Issued : /\ holdings[i].parent \in Issued => holdings[i].parent # NoParent
                        /\ holdings[i].parent # NoParent =>
                             (Occupies(i) => Occupies(holdings[i].parent))
  BY DEF RunnerInv, LedgerInv, AncestorsOccupy, NoParent, Issued
<1>3. Closed(T, Issued)
  <2> SUFFICES ASSUME NEW i \in Issued, holdings[i].parent \in T, Occupies(i)
               PROVE  FALSE
    BY DEF Closed
  <2>1. CASE holdings[i].parent = a
    <3>1. i \in OccupyingChildren(a) BY <2>1 DEF OccupyingChildren, Occupying
    <3>2. QED BY <1>1, <3>1
  <2>2. CASE ~ Occupies(holdings[i].parent) BY <1>2, <2>2
  <2>3. QED BY <2>1, <2>2
<1>4. {a} \subseteq T /\ T \in SUBSET Issued BY <1>1
<1>5. c \in Closure({a}, Issued) /\ c # a BY DEF Ancestor
<1>6. c \in T BY <1>3, <1>4, <1>5 DEF Closure
<1>7. QED BY <1>5, <1>6

(* The world loses a target only when everything that hung under it, at    *)
(* any depth and of whatever process, is accounted gone.                   *)
THEOREM ChildrenFirst == RunnerSpec => ChildrenGoFirst
<1> DEFINE First ==
      \A r \in Runner : pc[r] = "execute" /\ pc'[r] \in {"finish", "unwind"} =>
        \A c \in Issued : Ancestor(task[r].holding, c) => ~ Occupies(c)
<1>1. RunnerInv /\ [RunnerNext]_runVars => [First]_runVars
  BY UnderAttempt DEF RunnerInv, ActsOnTask, Acting
<1>2. QED BY <1>1, RunnerInductive, PTL DEF RunnerSpec, ChildrenGoFirst

----------------------------------------------------------------------------
(* Nothing is left behind.  While no fault has happened and no call was    *)
(* refused, one process has the store open and no task is lost, so that    *)
(* whatever could be claimed has a runner that will come to it.            *)
MemoryType ==
  /\ scope \in [Runner -> SUBSET Id]
  /\ permitted \in [Runner -> SUBSET Id]
  /\ attempted \in [Runner -> SUBSET Issued]
  /\ progress \in [Runner -> BOOLEAN]
  /\ store \in [Process -> {"closed", "opening", "open"}]
  /\ behind \in SUBSET Process
  /\ faults \in Nat
  /\ refused \in BOOLEAN

Calm == faults = 0 /\ ~ refused

OneOpen ==
  /\ behind = {}
  /\ \A p, q \in Process : store[p] # "closed" /\ store[q] # "closed" => p = q
  /\ \A r \in Runner : pc[r] # "idle" => store[ProcessOf[r]] # "closed"

(* What a request named with what it hangs under, and what hangs under it. *)
Reaches(S, i) == i \in S \/ \E k \in S \cap Issued : Ancestor(i, k)
Covers(S, i) == i \in S \/ \E k \in S \cap Issued : Ancestor(k, i)

(* A runner works on what it reaches, and what it attempted gets done. *)
Begun(i) == cleanups[i].state \in Completion \cup {"running"}
WorksWell(r) ==
  /\ pc[r] # "unwind"
  /\ pc[r] = "finish" => outcome[r] \in Completion
  /\ task[r] # NoTask => Reaches(scope[r], task[r].holding)
  /\ pc[r] = "idle" => todo[r] = {}
  /\ \A i \in todo[r] : Reaches(scope[r], i)
  /\ pc[r] = "list" => \A i \in permitted[r] : Reaches(scope[r], i)
  /\ \A i \in attempted[r] : Begun(i)

RunningOwned ==
  \A i \in Issued : cleanups[i].state = "running" => \E r \in Runner : task[r].holding = i

(* A runner will come to i: in this pass, or in one that is sure to follow. *)
Answers(r, i) ==
  \/ pc[r] = "requested" /\ Covers(scope[r], i)
  \/ pc[r] \in {"recover", "recovering", "permit"} /\ Reaches(scope[r], i)
  \/ pc[r] = "list" /\ i \in permitted[r]
  \/ pc[r] \in {"visit"} \cup Acting /\ i \in todo[r]
  \/ pc[r] \in Acting /\ Reaches(scope[r], i)
  \/ pc[r] = "visit" /\ progress[r] /\ Reaches(scope[r], i)
Answered == \A i \in Issued : CanClaim(i) => \E r \in Runner : Answers(r, i)

InOrder ==
  /\ OneOpen
  /\ \A r \in Runner : WorksWell(r)
  /\ RunningOwned
  /\ Answered

CalmInv ==
  /\ RunnerInv
  /\ MemoryType
  /\ Calm => InOrder

----------------------------------------------------------------------------
(* The tree of the holdings never changes. *)
SameTree ==
  /\ Issued' = Issued
  /\ \A i \in Issued : holdings'[i].parent = holdings[i].parent

LEMMA TreeStays ==
  ASSUME TypeOK,
         \/ UNCHANGED ledgerVars
         \/ \E S \in SUBSET Issued : Retiring(S)
         \/ \E i \in Issued : CleanupStep(i)
  PROVE  SameTree
<1>1. CASE UNCHANGED ledgerVars
  BY <1>1 DEF ledgerVars, vars, SameTree, Issued
<1>2. ASSUME NEW S \in SUBSET Issued, Retiring(S) PROVE SameTree
  BY <1>2, RetiringRows, RestatedRows DEF SameTree
<1>3. ASSUME NEW i \in Issued, CleanupStep(i) PROVE SameTree
  <2>1. Issued' = Issued BY <1>3, AttemptRows DEF Issued
  <2>2. \/ holdings' = holdings
        \/ holdings' = [holdings EXCEPT ![i].state = "retired"]
    BY <1>3 DEF CleanupStep, Claim, Abandon, Finish
  <2>3. QED BY <2>1, <2>2 DEF SameTree, TypeOK, Holding
<1>4. QED BY <1>1, <1>2, <1>3

LEMMA AncestorStays ==
  ASSUME SameTree, NEW a, NEW i
  PROVE  Ancestor(a, i)' <=> Ancestor(a, i)
<1>1. \A T \in SUBSET Issued : Closed(T, Issued)' <=> Closed(T, Issued)
  BY DEF SameTree, Closed
<1>2. QED BY <1>1 DEF SameTree, Ancestor, Closure

(* Ancestry is transitive, and a parent is an ancestor. *)
LEMMA AncestorTransitive ==
  ASSUME NEW a, NEW j, NEW k, Ancestor(a, j), Ancestor(j, k), a # k
  PROVE  Ancestor(a, k)
  BY DEF Ancestor, Closure

LEMMA ParentAncestor ==
  ASSUME NEW a, NEW c \in Issued, holdings[c].parent = a, a # c
  PROVE  Ancestor(a, c)
  BY DEF Ancestor, Closure, Closed

(* Whatever occupies under a holding is in its occupying closure. *)
LEMMA CoveredOccupying ==
  ASSUME RunnerInv, NEW S, NEW i \in Occupying, NEW k \in S \cap Issued, Ancestor(k, i)
  PROVE  i \in OccupyingClosure(S \cap Occupying)
<1> SUFFICES ASSUME NEW T \in SUBSET Issued, S \cap Occupying \subseteq T, Closed(T, Occupying)
             PROVE  i \in T
  BY DEF OccupyingClosure, Closure, Occupying
<1> DEFINE U == T \cup {c \in Issued : ~ Occupies(c)}
<1>1. \A c \in Issued : /\ holdings[c].parent \in Issued => holdings[c].parent # NoParent
                        /\ holdings[c].parent # NoParent =>
                             (Occupies(c) => Occupies(holdings[c].parent))
  BY DEF RunnerInv, LedgerInv, AncestorsOccupy, NoParent, Issued
<1>2. Closed(U, Issued)
  BY <1>1 DEF Closed, Occupying
<1>3. {k} \subseteq U /\ U \in SUBSET Issued BY DEF Occupying
<1>4. i \in U BY <1>2, <1>3 DEF Ancestor, Closure
<1>5. QED BY <1>4 DEF Occupying

(* What a retirement takes along hangs under what it was asked for. *)
LEMMA BoundCovered ==
  ASSUME NEW a \in Issued, NEW i \in BoundClosure({a})
  PROVE  Covers({a}, i)
<1>1. \A T : Closed(T, Issued) => Closed(T, BoundChildren)
  BY DEF Closed, BoundChildren, Active
<1>2. i \in Closure({a}, Issued)
  BY <1>1 DEF BoundClosure, Closure
<1>3. QED BY <1>2 DEF Covers, Ancestor

----------------------------------------------------------------------------
(* One runner moves; what it no longer answers for is done or never was    *)
(* its own.                                                                *)
SameRun(q) ==
  /\ pc'[q] = pc[q] /\ scope'[q] = scope[q] /\ permitted'[q] = permitted[q]
  /\ todo'[q] = todo[q] /\ attempted'[q] = attempted[q] /\ progress'[q] = progress[q]
  /\ task'[q] = task[q] /\ outcome'[q] = outcome[q]

BegunStays == \A i \in Issued : Begun(i) => Begun(i)'

LEMMA SameRunWorks ==
  ASSUME RunnerInv, MemoryType, SameTree, BegunStays, NEW q \in Runner, SameRun(q), WorksWell(q)
  PROVE  WorksWell(q)'
<1>1. \A a, i : Ancestor(a, i)' <=> Ancestor(a, i) BY AncestorStays
<1>2. \A i : Reaches(scope[q], i)' <=> Reaches(scope[q], i)
  BY <1>1 DEF Reaches, SameRun, SameTree
<1>3. Reaches(scope[q], task[q].holding)' <=> Reaches(scope[q], task[q].holding)
  BY <1>1 DEF Reaches, SameRun, SameTree
<1>4. \A i \in attempted[q] : i \in Issued BY DEF MemoryType
<1>5. QED BY <1>2, <1>3, <1>4 DEF WorksWell, SameRun, BegunStays

LEMMA SameRunAnswers ==
  ASSUME SameTree, NEW q, SameRun(q), NEW i, Answers(q, i)
  PROVE  Answers(q, i)'
<1>1. \A a, k : Ancestor(a, k)' <=> Ancestor(a, k) BY AncestorStays
<1>2. QED BY <1>1 DEF Answers, Reaches, Covers, SameRun, SameTree

LEMMA InOrderStep ==
  ASSUME RunnerInv, MemoryType, InOrder, SameTree, BegunStays, OneOpen', RunningOwned',
         NEW r \in Runner, \A q \in Runner \ {r} : SameRun(q), WorksWell(r)',
         \A i \in Issued : CanClaim(i)' => Answers(r, i)' \/ (CanClaim(i) /\ ~ Answers(r, i))
  PROVE  InOrder'
<1>1. \A q \in Runner : WorksWell(q)'
  BY SameRunWorks DEF InOrder
<1>2. ASSUME NEW i \in Issued, CanClaim(i)' PROVE \E q \in Runner : Answers(q, i)'
  <2>1. CASE Answers(r, i)' BY <2>1
  <2>2. CASE CanClaim(i) /\ ~ Answers(r, i)
    <3>1. PICK q \in Runner : Answers(q, i) BY <2>2 DEF InOrder, Answered
    <3>2. q # r BY <2>2, <3>1
    <3>3. QED BY <3>1, <3>2, SameRunAnswers
  <2>3. QED BY <1>2, <2>1, <2>2
<1>3. Answered' BY <1>2 DEF Answered, SameTree
<1>4. QED BY <1>1, <1>3 DEF InOrder

(* Steps that leave the ledger and every task as they are. *)
LEMMA LedgerKept ==
  ASSUME RunnerInv, RunningOwned, UNCHANGED ledgerVars
  PROVE  /\ SameTree /\ BegunStays
         /\ \A i \in Issued : CanClaim(i)' <=> CanClaim(i)
         /\ (\A q \in Runner : task'[q] = task[q]) => RunningOwned'
<1>1. UNCHANGED <<holdings, cleanups, next_id>> BY DEF ledgerVars, vars
<1>2. Issued' = Issued BY <1>1 DEF Issued
<1>3. SameTree BY <1>1, <1>2 DEF SameTree
<1>4. BegunStays BY <1>1 DEF BegunStays, Begun
<1>5. \A i \in Issued : CanClaim(i)' <=> CanClaim(i)
  BY <1>1, <1>2 DEF CanClaim, OccupyingChildren, Occupying, Occupies
<1>6. (\A q \in Runner : task'[q] = task[q]) => RunningOwned'
  BY <1>1, <1>2 DEF RunningOwned
<1>7. QED BY <1>3, <1>4, <1>5, <1>6

(* What can be claimed is not yet begun. *)
LEMMA ClaimableNotBegun ==
  ASSUME NEW i, CanClaim(i)
  PROVE  ~ Begun(i) /\ Unfinished(i) /\ Occupies(i) /\ ~ IsActive(i)
  BY DEF CanClaim, Begun, Unfinished, Claimable, Failure, Completion, Occupies, IsActive

(* A transaction of the one open process fences nobody off. *)
LEMMA AloneCommits ==
  ASSUME OneOpen, NEW p \in Process, store[p] # "closed", Commits(p)
  PROVE  behind' = {}
  BY DEF OneOpen, Commits

LEMMA OpenStays ==
  ASSUME OneOpen, behind' = {}, UNCHANGED store, NEW r \in Runner,
         \A q \in Runner \ {r} : pc'[q] = pc[q], pc[r] = "idle" => store[ProcessOf[r]] # "closed"
  PROVE  OneOpen'
  BY DEF OneOpen

(* In order, nobody is fenced off and every claimed record is at work. *)
LEMMA ReadsInOrder ==
  ASSUME RunnerInv, MemoryType, InOrder, NEW r \in Runner,
         \/ ReadScope(r) \/ Observe(r) \/ Permit(r) \/ List(r)
         \/ \E e \in observed[r] : LeaveAlone(r, e)
         \/ \E i \in todo[r] : Skip(r, i)
         \/ EndPass(r) /\ progress[r]
         \/ \E w \in Fresh : StartRun(r, w)
  PROVE  InOrder'
<1>1. UNCHANGED ledgerVars /\ UNCHANGED <<task, outcome, attempted, store>>
  BY DEF ReadScope, Observe, Permit, List, LeaveAlone, Skip, EndPass, StartRun, stores
<1>2. SameTree /\ BegunStays /\ RunningOwned' /\ \A i \in Issued : CanClaim(i)' <=> CanClaim(i)
  BY <1>1, LedgerKept DEF InOrder
<1>3. pc[r] # "idle" /\ store[ProcessOf[r]] # "closed" /\ ProcessOf[r] \in Process
  BY RunnerAssumption DEF ReadScope, Observe, Permit, List, LeaveAlone, Skip, EndPass, StartRun,
                          InOrder, OneOpen
<1>4. behind' = {}
  <2>1. UNCHANGED behind \/ Commits(ProcessOf[r])
    BY DEF ReadScope, Observe, Permit, List, LeaveAlone, Skip, EndPass, StartRun, stores
  <2>2. QED BY <1>3, <2>1, AloneCommits DEF InOrder, OneOpen
<1>5. \A q \in Runner \ {r} : SameRun(q)
  BY <1>1 DEF ReadScope, Observe, Permit, List, LeaveAlone, Skip, EndPass, StartRun, stores,
              SameRun, RunnerInv, RunnerType, MemoryType
<1>6. OneOpen' BY <1>1, <1>3, <1>4, <1>5, OpenStays DEF InOrder, SameRun
<1>7. \A a, k : Ancestor(a, k)' <=> Ancestor(a, k) BY <1>2, AncestorStays
<1>8. \A i \in attempted[r] : Begun(i)'
  BY <1>2 DEF InOrder, WorksWell, BegunStays, MemoryType
<1>9. Issued \subseteq Id /\ Issued' = Issued
  BY <1>2, BoundsAssumption DEF RunnerInv, LedgerInv, TypeOK, Issued, Id, SameTree
<1>10. WorksWell(r)
  BY DEF InOrder
<1> DEFINE Good ==
      /\ WorksWell(r)'
      /\ \A i \in Issued : CanClaim(i) /\ Answers(r, i) => Answers(r, i)'
<1>11. ASSUME ReadScope(r) PROVE Good
  <2>1. /\ pc[r] = "requested" /\ pc'[r] = "recover"
        /\ scope'[r] =
             scope[r] \cup {c \in OccupyingClosure(scope[r] \cap Occupying) : ~ IsActive(c)}
        /\ todo'[r] = todo[r]
    BY <1>11 DEF ReadScope, RunnerInv, RunnerType, MemoryType
  <2>2. \A i : Reaches(scope[r], i) => Reaches(scope[r], i)'
    BY <1>7, <1>9, <2>1 DEF Reaches
  <2>3. Reaches(scope[r], task[r].holding) => Reaches(scope[r], task[r].holding)'
    BY <1>1, <1>7, <1>9, <2>1 DEF Reaches
  <2>4. WorksWell(r)' BY <1>1, <1>8, <1>10, <2>1, <2>2, <2>3 DEF WorksWell
  <2>5. ASSUME NEW i \in Issued, CanClaim(i), Answers(r, i) PROVE i \in scope'[r]
    <3>1. i \in Occupying /\ ~ IsActive(i) BY <2>5, ClaimableNotBegun DEF Occupying
    <3>2. Covers(scope[r], i) BY <2>1, <2>5 DEF Answers, Acting
    <3>3. CASE i \in scope[r] BY <2>1, <3>3
    <3>4. CASE \E k \in scope[r] \cap Issued : Ancestor(k, i)
      BY <2>1, <3>1, <3>4, CoveredOccupying
    <3>5. QED BY <3>2, <3>3, <3>4 DEF Covers
  <2>6. QED BY <2>1, <2>4, <2>5 DEF Answers, Reaches
<1>12. ASSUME UNCHANGED <<scope, permitted, todo, progress>>,
              pc[r] \in {"recover", "recovering"}, pc'[r] \in {"recovering", "permit"}
       PROVE  Good
  <2>1. \A i : Reaches(scope[r], i) <=> Reaches(scope[r], i)'
    BY <1>7, <1>9, <1>12 DEF Reaches
  <2>2. Reaches(scope[r], task[r].holding) <=> Reaches(scope[r], task[r].holding)'
    BY <1>1, <1>7, <1>9, <1>12 DEF Reaches
  <2>3. WorksWell(r)' BY <1>1, <1>8, <1>10, <1>12, <2>1, <2>2 DEF WorksWell
  <2>4. QED BY <1>12, <2>1, <2>3 DEF Answers, Acting
<1>13. ASSUME Permit(r) PROVE Good
  <2>1. /\ pc[r] = "permit" /\ pc'[r] = "list" /\ permitted'[r] = Permitted(scope[r])
        /\ UNCHANGED <<scope, todo, progress>>
    BY <1>13 DEF Permit, RunnerInv, RunnerType, MemoryType
  <2>2. \A i : Reaches(scope[r], i) <=> Reaches(scope[r], i)'
    BY <1>7, <1>9, <2>1 DEF Reaches
  <2>3. Reaches(scope[r], task[r].holding) <=> Reaches(scope[r], task[r].holding)'
    BY <1>1, <1>7, <1>9, <2>1 DEF Reaches
  <2>4. \A i \in Permitted(scope[r]) : Reaches(scope[r], i)
    BY DEF Permitted, RetiringAncestors, Reaches
  <2>5. WorksWell(r)' BY <1>1, <1>8, <1>10, <2>1, <2>2, <2>3, <2>4 DEF WorksWell
  <2>6. ASSUME NEW i \in Issued, CanClaim(i), Answers(r, i) PROVE i \in permitted'[r]
    <3>1. Reaches(scope[r], i) BY <2>1, <2>6 DEF Answers, Acting
    <3>2. holdings[i].state = "retiring" BY <2>6 DEF CanClaim
    <3>3. QED BY <2>1, <3>1, <3>2 DEF Reaches, Permitted, RetiringAncestors
  <2>7. QED BY <2>1, <2>5, <2>6 DEF Answers
<1>14. ASSUME List(r) PROVE Good
  <2>1. /\ pc[r] = "list" /\ pc'[r] = "visit"
        /\ todo'[r] = {i \in permitted[r] \cap Issued : Unfinished(i)}
        /\ UNCHANGED <<scope, permitted, progress>>
    BY <1>14 DEF List, RunnerInv, RunnerType, MemoryType
  <2>2. \A i : Reaches(scope[r], i) <=> Reaches(scope[r], i)'
    BY <1>7, <1>9, <2>1 DEF Reaches
  <2>3. Reaches(scope[r], task[r].holding) <=> Reaches(scope[r], task[r].holding)'
    BY <1>1, <1>7, <1>9, <2>1 DEF Reaches
  <2>4. WorksWell(r)' BY <1>1, <1>8, <1>10, <2>1, <2>2, <2>3 DEF WorksWell
  <2>5. ASSUME NEW i \in Issued, CanClaim(i), Answers(r, i) PROVE i \in todo'[r]
    <3>1. i \in permitted[r] BY <2>1, <2>5 DEF Answers, Acting
    <3>2. QED BY <2>1, <2>5, <3>1, ClaimableNotBegun
  <2>6. QED BY <2>1, <2>4, <2>5 DEF Answers
<1>15. ASSUME NEW j \in todo[r], Skip(r, j) PROVE Good
  <2>1. /\ pc[r] = "visit" /\ pc'[r] = "visit" /\ todo'[r] = todo[r] \ {j}
        /\ UNCHANGED <<scope, permitted, progress>>
        /\ j \in attempted[r] \/ ~ CanClaim(j)
    BY <1>15 DEF Skip, RunnerInv, RunnerType, MemoryType
  <2>2. \A i : Reaches(scope[r], i) <=> Reaches(scope[r], i)'
    BY <1>7, <1>9, <2>1 DEF Reaches
  <2>3. Reaches(scope[r], task[r].holding) <=> Reaches(scope[r], task[r].holding)'
    BY <1>1, <1>7, <1>9, <2>1 DEF Reaches
  <2>4. WorksWell(r)' BY <1>1, <1>8, <1>10, <2>1, <2>2, <2>3 DEF WorksWell
  <2>5. ~ CanClaim(j) BY <1>10, <2>1, ClaimableNotBegun DEF WorksWell
  <2>6. QED BY <2>1, <2>2, <2>4, <2>5 DEF Answers, Acting
<1>16. ASSUME EndPass(r), progress[r] PROVE Good
  <2>1. /\ pc[r] = "visit" /\ pc'[r] = "permit" /\ todo[r] = {}
        /\ UNCHANGED <<scope, todo>>
    BY <1>16 DEF EndPass, RunnerInv, RunnerType, MemoryType
  <2>2. \A i : Reaches(scope[r], i) <=> Reaches(scope[r], i)'
    BY <1>7, <1>9, <2>1 DEF Reaches
  <2>3. Reaches(scope[r], task[r].holding) <=> Reaches(scope[r], task[r].holding)'
    BY <1>1, <1>7, <1>9, <2>1 DEF Reaches
  <2>4. WorksWell(r)' BY <1>1, <1>8, <1>10, <2>1, <2>2, <2>3 DEF WorksWell
  <2>5. QED BY <2>1, <2>2, <2>4 DEF Answers, Acting
<1>17. Good
  <2>1. CASE \/ Observe(r) \/ \E e \in observed[r] : LeaveAlone(r, e)
             \/ \E w \in Fresh : StartRun(r, w)
    <3>1. UNCHANGED <<scope, permitted, todo, progress>> /\ pc'[r] \in {"recovering", "permit"}
          /\ pc[r] \in {"recover", "recovering"}
      BY <2>1 DEF Observe, LeaveAlone, StartRun, RunnerInv, RunnerType
    <3>2. QED BY <1>12, <3>1
  <2>2. QED BY <1>11, <1>13, <1>14, <1>15, <1>16, <2>1
<1>18. WorksWell(r)' BY <1>17
<1>19. \A i \in Issued : CanClaim(i)' => Answers(r, i)' \/ (CanClaim(i) /\ ~ Answers(r, i))
  BY <1>2, <1>17
<1> HIDE DEF Good
<1>20. QED BY <1>2, <1>5, <1>6, <1>18, <1>19, InOrderStep

(* A run that ends without progress has nothing left to come to. *)
LEMMA EndsInOrder ==
  ASSUME RunnerInv, MemoryType, InOrder, NEW r \in Runner, EndPass(r), ~ progress[r]
  PROVE  InOrder'
<1>1. /\ UNCHANGED ledgerVars /\ Idle({r}) /\ pc[r] = "visit" /\ todo[r] = {} /\ behind' = behind
      /\ store' = [store EXCEPT ![ProcessOf[r]] = IF @ = "opening" THEN "open" ELSE @]
  BY DEF EndPass, Ends
<1>2. \A q \in Runner \ {r} : SameRun(q) BY <1>1 DEF Idle, SameRun
<1>3. /\ pc'[r] = "idle" /\ task'[r] = NoTask /\ todo'[r] = {} /\ attempted'[r] = {}
  BY <1>1 DEF Idle
<1>4. task[r] = NoTask BY <1>1 DEF RunnerInv, ActsOnTask, Acting
<1>5. SameTree /\ BegunStays /\ RunningOwned' /\ \A i \in Issued : CanClaim(i)' <=> CanClaim(i)
  BY <1>1, <1>2, <1>3, <1>4, LedgerKept DEF InOrder, SameRun
<1>6. WorksWell(r)' BY <1>3 DEF WorksWell
<1>7. \A i : ~ Answers(r, i) BY <1>1 DEF Answers, Acting
<1>8. OneOpen'
  <2>1. \A p \in Process : store'[p] = "closed" <=> store[p] = "closed"
    BY <1>1 DEF MemoryType
  <2>2. \A q \in Runner : pc'[q] # "idle" => pc[q] # "idle"
    BY <1>2, <1>3 DEF SameRun
  <2>3. QED BY <1>1, <2>1, <2>2, RunnerAssumption DEF InOrder, OneOpen
<1>9. QED BY <1>2, <1>5, <1>6, <1>7, <1>8, InOrderStep

(* What a retirement makes claimable has just begun to retire. *)
LEMMA RetiresClaims ==
  ASSUME RunnerInv, Retires
  PROVE  /\ SameTree /\ BegunStays
         /\ \A i \in Issued : CanClaim(i)' =>
              CanClaim(i) \/ (holdings[i].state # "retiring" /\ holdings'[i].state = "retiring")
         /\ \A i \in Issued : cleanups'[i].state = "running" => cleanups[i].state = "running"
<1>1. CASE UNCHANGED ledgerVars
  <2>1. UNCHANGED <<holdings, cleanups, next_id>> BY <1>1 DEF ledgerVars, vars
  <2>2. QED BY <2>1 DEF SameTree, Issued, BegunStays, Begun, CanClaim, OccupyingChildren,
                        Occupying, Occupies
<1>2. ASSUME NEW S \in SUBSET Issued, Retiring(S)
      PROVE  /\ SameTree /\ BegunStays
             /\ \A i \in Issued : CanClaim(i)' =>
                  CanClaim(i) \/ (holdings[i].state # "retiring" /\ holdings'[i].state = "retiring")
             /\ \A i \in Issued : cleanups'[i].state = "running" => cleanups[i].state = "running"
  <2>1. TypeOK BY DEF RunnerInv, LedgerInv
  <2>2. SameTree BY <1>2, <2>1, TreeStays
  <2>3. \A i \in S : holdings[i].state = "active" /\ cleanups[i] = NoCleanup
    BY <1>2 DEF Retiring, Active, IsActive, RunnerInv, LedgerInv, ObligationKept
  <2>4. /\ \A i \in S : cleanups'[i].state = "pending" /\ holdings'[i].state = "retiring"
        /\ \A i \in Issued \ S : cleanups'[i] = cleanups[i] /\ holdings'[i] = holdings[i]
    <3>1. Restated(S, "retiring") BY <1>2, <2>1, RetiringRows
    <3>2. QED BY <1>2, <2>1, <3>1, RestatedRows DEF Retiring, Retire, NoCleanup
  <2>5. BegunStays
    BY <2>3, <2>4 DEF BegunStays, Begun, NoCleanup, Completion
  <2>6. \A i \in Issued : OccupyingChildren(i)' = OccupyingChildren(i)
    <3>1. Occupying' = Occupying
      BY <2>2, <2>3, <2>4 DEF SameTree, Occupying, Occupies
    <3>2. QED BY <2>2, <3>1 DEF SameTree, OccupyingChildren, Occupying
  <2>7. QED BY <2>2, <2>3, <2>4, <2>5, <2>6 DEF CanClaim
<1>3. QED BY <1>1, <1>2 DEF Retires

(* Whoever asks for a retirement comes to all that it takes along. *)
LEMMA AskerAnswers ==
  ASSUME RunnerInv, MemoryType, NEW r \in Runner, Begin(r), NEW i \in Issued,
         holdings[i].state # "retiring", holdings'[i].state = "retiring"
  PROVE  Answers(r, i)'
<1>1. Retires BY RequestedRetires DEF RunnerInv, LedgerInv
<1>2. SameTree BY <1>1, RetiresClaims
<1>3. \A a, k : Ancestor(a, k)' <=> Ancestor(a, k) BY <1>2, AncestorStays
<1>4. ASSUME NEW S, RetireAny(S) PROVE i \in S
  BY <1>4 DEF RetireAny, Retire, ledgerVars, vars
<1>5. ASSUME pc'[r] = "recover", i \in scope'[r] PROVE Answers(r, i)'
  BY <1>5 DEF Answers, Reaches
<1>6. i \in Id BY BoundsAssumption DEF RunnerInv, LedgerInv, TypeOK, Issued, Id
<1>7. CASE BeginSweep(r)
  BY <1>5, <1>6, <1>7 DEF BeginSweep, Requested, MemoryType, RunnerInv, RunnerType
<1>8. CASE BeginOpen(r)
  BY <1>5, <1>6, <1>8 DEF BeginOpen, MemoryType, RunnerInv, RunnerType
<1>9. ASSUME NEW a \in Issued, BeginRelease(r, a) PROVE Answers(r, i)'
  <2>1. pc'[r] = "requested" /\ scope'[r] = {a}
    BY <1>9 DEF BeginRelease, Requested, MemoryType, RunnerInv, RunnerType
  <2>2. Retire(BoundClosure({a}))
    BY <1>9 DEF BeginRelease, RequestRetirement, ledgerVars, vars
  <2>3. Covers({a}, i) BY <2>2, BoundCovered DEF Retire
  <2>4. QED BY <1>2, <1>3, <2>1, <2>3 DEF Answers, Covers, SameTree
<1>10. ASSUME NEW rows, BeginTearing(r, rows) PROVE Answers(r, i)'
  <2>1. i \in rows BY <1>4, <1>10 DEF BeginTearing
  <2>2. pc'[r] = "recover" /\ scope'[r] = rows
    BY <1>10 DEF BeginTearing, Requested, MemoryType, RunnerInv, RunnerType
  <2>3. QED BY <1>5, <2>1, <2>2
<1>11. QED
  BY <1>7, <1>8, <1>9, <1>10 DEF Begin, BeginTeardown, BeginTeardownHolding, BeginReclaim

LEMMA BeginsInOrder ==
  ASSUME RunnerInv, MemoryType, InOrder, NEW r \in Runner, Begin(r), Calm'
  PROVE  InOrder'
<1>1. Retires BY RequestedRetires DEF RunnerInv, LedgerInv
<1>2. /\ SameTree /\ BegunStays
      /\ \A i \in Issued : CanClaim(i)' =>
           CanClaim(i) \/ (holdings[i].state # "retiring" /\ holdings'[i].state = "retiring")
      /\ \A i \in Issued : cleanups'[i].state = "running" => cleanups[i].state = "running"
  BY <1>1, RetiresClaims
<1>3. /\ pc[r] = "idle" /\ pc'[r] \in {"requested", "recover"}
      /\ \A q \in Runner \ {r} : SameRun(q)
      /\ UNCHANGED <<todo, attempted, task>>
  <2>1. ASSUME NEW n \in {"requested", "recover"}, NEW S, Requested(r, n, S)
        PROVE  /\ pc[r] = "idle" /\ pc'[r] \in {"requested", "recover"}
               /\ \A q \in Runner \ {r} : SameRun(q)
               /\ UNCHANGED <<todo, attempted, task>>
    BY <2>1 DEF Requested, SameRun, RunnerInv, RunnerType, MemoryType
  <2>2. CASE BeginOpen(r)
    BY <2>2 DEF BeginOpen, SameRun, RunnerInv, RunnerType, MemoryType
  <2>3. QED BY <2>1, <2>2 DEF Begin, BeginSweep, BeginRelease, BeginTeardown, BeginTeardownHolding,
                          BeginReclaim, BeginTearing
<1>4. task[r] = NoTask BY <1>3 DEF RunnerInv, ActsOnTask, Acting
<1>5. \A i \in Issued : CanClaim(i)' => Answers(r, i)' \/ (CanClaim(i) /\ ~ Answers(r, i))
  <2>1. \A i : ~ Answers(r, i) BY <1>3 DEF Answers, Acting
  <2>2. QED BY <1>2, <2>1, AskerAnswers
<1>6. RunningOwned'
  BY <1>2, <1>3 DEF InOrder, RunningOwned, SameTree
<1>7. WorksWell(r)'
  <2>1. todo'[r] = {} /\ task'[r] = NoTask
    BY <1>3, <1>4 DEF InOrder, WorksWell
  <2>2. \A i \in attempted[r] : Begun(i)'
    BY <1>2 DEF InOrder, WorksWell, BegunStays, MemoryType
  <2>3. QED BY <1>3, <2>1, <2>2 DEF WorksWell
<1>8. OneOpen'
  <2>1. ASSUME NEW n \in {"requested", "recover"}, NEW S, Requested(r, n, S) PROVE OneOpen'
    <3>1. /\ UNCHANGED store /\ store[ProcessOf[r]] # "closed" /\ Commits(ProcessOf[r])
          /\ \A q \in Runner \ {r} : pc'[q] = pc[q]
      BY <1>3, <2>1 DEF Requested, SameRun
    <3>2. behind' = {} BY <3>1, AloneCommits, RunnerAssumption DEF InOrder
    <3>3. QED BY <3>1, <3>2, OpenStays DEF InOrder
  <2>2. CASE BeginOpen(r)
    <3> DEFINE p == ProcessOf[r]
    <3>1. p \in Process BY RunnerAssumption
    <3>2. \A q \in Process : store[q] = "closed"
      BY <2>2 DEF BeginOpen, Calm, MemoryType
    <3>3. behind' = {} BY <2>2, <3>1, <3>2 DEF BeginOpen, Commits, InOrder, OneOpen
    <3>4. store' = [store EXCEPT ![p] = "opening"] BY <2>2 DEF BeginOpen
    <3>5. store'[p] = "opening" /\ \A q \in Process \ {p} : store'[q] = "closed"
      BY <3>1, <3>2, <3>4 DEF MemoryType
    <3>6. \A q \in Runner \ {r} : pc'[q] = "idle"
      BY <1>3, <3>2, RunnerAssumption DEF InOrder, OneOpen, SameRun
    <3>7. QED BY <3>3, <3>5, <3>6 DEF OneOpen
  <2>3. QED BY <2>1, <2>2 DEF Begin, BeginSweep, BeginRelease, BeginTeardown, BeginTeardownHolding,
                          BeginReclaim, BeginTearing
<1>9. QED BY <1>2, <1>3, <1>5, <1>6, <1>7, <1>8, InOrderStep

LEMMA VisitsInOrder ==
  ASSUME RunnerInv, MemoryType, InOrder, NEW r \in Runner, NEW i \in todo[r], Visit(r, i)
  PROVE  InOrder'
<1>1. /\ Claim(i, session[r]) /\ pc[r] = "visit" /\ i \in Issued
      /\ pc'[r] = "execute" /\ task'[r].holding = i
      /\ todo'[r] = todo[r] \ {i} /\ attempted'[r] = attempted[r] \cup {i}
      /\ \A q \in Runner \ {r} : SameRun(q)
      /\ UNCHANGED <<scope, permitted, progress, outcome, store>>
  BY DEF Visit, SameRun, RunnerInv, RunnerType, MemoryType
<1>2. /\ cleanups'[i].state = "running"
      /\ \A j \in Issued : j # i => cleanups'[j] = cleanups[j]
      /\ holdings' = holdings /\ Issued' = Issued
  BY <1>1 DEF Claim, RunningAs, RunnerInv, LedgerInv, TypeOK, Issued
<1>3. SameTree BY <1>2 DEF SameTree
<1>4. BegunStays BY <1>2 DEF BegunStays, Begun
<1>5. task[r] = NoTask /\ NoTask.holding \notin Issued
  BY <1>1 DEF RunnerInv, ActsOnTask, Acting, NoTask, NoParent, Issued
<1>6. RunningOwned'
  <2> SUFFICES ASSUME NEW j \in Issued, cleanups'[j].state = "running"
               PROVE  \E q \in Runner : task'[q].holding = j
    BY <1>2 DEF RunningOwned
  <2>1. CASE j = i BY <1>1, <2>1
  <2>2. CASE j # i
    <3>1. PICK q \in Runner : task[q].holding = j
      BY <1>2, <2>2 DEF InOrder, RunningOwned
    <3>2. q # r BY <1>5, <3>1
    <3>3. QED BY <1>1, <3>1, <3>2 DEF SameRun
  <2>3. QED BY <2>1, <2>2
<1>7. \A a, k : Ancestor(a, k)' <=> Ancestor(a, k) BY <1>3, AncestorStays
<1>8. \A j : Reaches(scope[r], j)' <=> Reaches(scope[r], j)
  BY <1>1, <1>2, <1>7 DEF Reaches
<1>9. WorksWell(r)'
  <2>1. Reaches(scope[r], i) /\ WorksWell(r) BY DEF InOrder, WorksWell
  <2>2. Reaches(scope[r], task[r].holding)'
    BY <1>1, <1>2, <1>7, <2>1 DEF Reaches
  <2>3. \A j \in attempted'[r] : Begun(j)'
    BY <1>1, <1>2, <1>4, <2>1 DEF WorksWell, BegunStays, MemoryType, Begun
  <2>4. QED BY <1>1, <1>8, <2>1, <2>2, <2>3 DEF WorksWell
<1>10. \A j \in Issued : CanClaim(j)' => Answers(r, j)' \/ (CanClaim(j) /\ ~ Answers(r, j))
  <2> SUFFICES ASSUME NEW j \in Issued, CanClaim(j)'
               PROVE  CanClaim(j) /\ (Answers(r, j) => Answers(r, j)')
    OBVIOUS
  <2>1. j # i BY <1>2 DEF CanClaim, Claimable, Failure
  <2>2. CanClaim(j)
    BY <1>2, <2>1 DEF CanClaim, OccupyingChildren, Occupying, Occupies
  <2>3. QED BY <1>1, <1>8, <2>1, <2>2 DEF Answers, Acting
<1>11. OneOpen'
  <2>1. store[ProcessOf[r]] # "closed" /\ Commits(ProcessOf[r])
    BY <1>1 DEF Visit, InOrder, OneOpen
  <2>2. behind' = {} BY <2>1, AloneCommits, RunnerAssumption DEF InOrder
  <2>3. QED BY <1>1, <2>1, <2>2, OpenStays DEF InOrder, SameRun
<1>12. QED BY <1>1, <1>3, <1>4, <1>6, <1>9, <1>10, <1>11, InOrderStep

LEMMA ExecutesInOrder ==
  ASSUME RunnerInv, MemoryType, InOrder, NEW r \in Runner, Execute(r)
  PROVE  InOrder'
<1>1. /\ UNCHANGED ledgerVars /\ pc[r] = "execute" /\ pc'[r] = "finish"
      /\ outcome'[r] \in Completion
      /\ \A q \in Runner \ {r} : SameRun(q)
      /\ UNCHANGED <<scope, permitted, todo, attempted, progress, task, store, behind>>
  BY DEF Execute, Reported, stores, SameRun, RunnerInv, RunnerType, Completion
<1>2. SameTree /\ BegunStays /\ RunningOwned' /\ \A i \in Issued : CanClaim(i)' <=> CanClaim(i)
  BY <1>1, LedgerKept DEF InOrder
<1>3. \A a, k : Ancestor(a, k)' <=> Ancestor(a, k) BY <1>2, AncestorStays
<1>4. \A i : Reaches(scope[r], i)' <=> Reaches(scope[r], i)
  BY <1>1, <1>2, <1>3 DEF Reaches, SameTree
<1>5. WorksWell(r)'
  <2>1. WorksWell(r) BY DEF InOrder
  <2>2. Reaches(scope[r], task[r].holding)' <=> Reaches(scope[r], task[r].holding)
    BY <1>1, <1>2, <1>3 DEF Reaches, SameTree
  <2>3. \A i \in attempted[r] : Begun(i)'
    BY <1>2, <2>1 DEF WorksWell, BegunStays, MemoryType
  <2>4. QED BY <1>1, <1>4, <2>1, <2>2, <2>3 DEF WorksWell
<1>6. \A i \in Issued : Answers(r, i) => Answers(r, i)'
  BY <1>1, <1>4 DEF Answers, Acting
<1>7. OneOpen' BY <1>1, OpenStays DEF InOrder, OneOpen, SameRun
<1>8. QED BY <1>1, <1>2, <1>5, <1>6, <1>7, InOrderStep

(* A row that is freed makes at most its parent claimable, and the runner  *)
(* that freed it reaches the parent in its next pass.                      *)
LEMMA CommitsInOrder ==
  ASSUME RunnerInv, MemoryType, InOrder, NEW r \in Runner, Commit(r), IsCurrent(r)
  PROVE  InOrder'
<1> DEFINE i == task[r].holding
<1>1. /\ Finish(i, task[r].work, outcome[r]) /\ pc[r] = "finish" /\ pc'[r] = "visit"
      /\ outcome[r] \in Completion /\ progress'[r] = TRUE /\ task'[r] = NoTask
      /\ \A q \in Runner \ {r} : SameRun(q)
      /\ UNCHANGED <<scope, permitted, todo, attempted, store>> /\ Commits(ProcessOf[r])
  <2>1. pc[r] = "finish" /\ outcome[r] \in Completion
    BY DEF Commit, InOrder, WorksWell
  <2>2. /\ Finish(i, task[r].work, outcome[r]) /\ Commits(ProcessOf[r])
        /\ pc' = [pc EXCEPT ![r] = "visit"] /\ task' = [task EXCEPT ![r] = NoTask]
        /\ outcome' = [outcome EXCEPT ![r] = "unknown"]
        /\ UNCHANGED <<scope, permitted, todo, attempted, store>>
        /\ progress' = [progress EXCEPT ![r] = @ \/ outcome[r] \in Completion]
    BY DEF Commit
  <2>3. progress'[r] = TRUE BY <2>1, <2>2, Zenon DEF MemoryType
  <2>4. pc'[r] = "visit" /\ task'[r] = NoTask /\ \A q \in Runner \ {r} : SameRun(q)
    BY <2>2 DEF SameRun, RunnerInv, RunnerType, MemoryType
  <2>5. QED BY <2>1, <2>2, <2>3, <2>4
<1>2. task[r] # NoTask /\ i \in Issued
  BY <1>1, TaskFacts DEF RunnerInv, ActsOnTask, Acting
<1> HIDE DEF i
<1>3. /\ cleanups'[i].state = outcome[r] /\ holdings'[i].state = "retired"
      /\ \A j \in Issued : j # i => cleanups'[j] = cleanups[j] /\ holdings'[j] = holdings[j]
      /\ \A j \in Issued : holdings'[j].parent = holdings[j].parent
      /\ Issued' = Issued
  <2>1. /\ cleanups[i] \in Cleanup /\ holdings[i] \in Holding
        /\ DOMAIN cleanups = Issued /\ DOMAIN holdings = Issued
    BY <1>2 DEF RunnerInv, LedgerInv, TypeOK
  <2>2. QED BY <1>1, <1>2, <2>1 DEF Finish, Issued, Cleanup, Holding
<1>4. SameTree BY <1>3 DEF SameTree
<1>5. BegunStays BY <1>1, <1>3 DEF BegunStays, Begun
<1>6. RunningOwned'
  <2> SUFFICES ASSUME NEW j \in Issued, cleanups'[j].state = "running"
               PROVE  \E q \in Runner : task'[q].holding = j
    BY <1>3 DEF RunningOwned
  <2>1. j # i BY <1>1, <1>3 DEF Completion
  <2>2. PICK q \in Runner : task[q].holding = j
    BY <1>3, <2>1 DEF InOrder, RunningOwned
  <2>3. q # r BY <2>1, <2>2 DEF i
  <2>4. QED BY <1>1, <2>2, <2>3 DEF SameRun
<1>7. \A a, k : Ancestor(a, k)' <=> Ancestor(a, k) BY <1>4, AncestorStays
<1>8. \A j : Reaches(scope[r], j)' <=> Reaches(scope[r], j)
  BY <1>1, <1>3, <1>7 DEF Reaches
<1>9. WorksWell(r)'
  <2>1. WorksWell(r) BY DEF InOrder
  <2>2. \A j \in attempted[r] : Begun(j)'
    BY <1>5, <2>1 DEF WorksWell, BegunStays, MemoryType
  <2>3. QED BY <1>1, <1>8, <2>1, <2>2 DEF WorksWell
<1>10. Reaches(scope[r], i)
  BY <1>2 DEF InOrder, WorksWell, i
<1>11. \A j \in Issued : CanClaim(j)' => Answers(r, j)' \/ (CanClaim(j) /\ ~ Answers(r, j))
  <2> SUFFICES ASSUME NEW j \in Issued, CanClaim(j)'
               PROVE  Answers(r, j)' \/ (CanClaim(j) /\ ~ Answers(r, j))
    OBVIOUS
  <2>1. j # i BY <1>1, <1>3 DEF CanClaim, Claimable, Failure, Completion
  <2>2. cleanups'[j] = cleanups[j] /\ holdings'[j] = holdings[j] BY <1>3, <2>1
  <2>3. CASE OccupyingChildren(j) = {}
    <3>1. CanClaim(j) BY <2>2, <2>3 DEF CanClaim
    <3>2. Answers(r, j) => Answers(r, j)'
      BY <1>1, <1>8 DEF Answers, Acting
    <3>3. QED BY <3>1, <3>2
  <2>4. CASE OccupyingChildren(j) # {}
    <3>1. PICK c \in OccupyingChildren(j) : TRUE BY <2>4
    <3>2. c \in Issued /\ Occupies(c) /\ holdings[c].parent = j
      BY <3>1 DEF OccupyingChildren, Occupying
    <3>3. c = i
      <4>1. c \notin OccupyingChildren(j)' BY DEF CanClaim
      <4>2. QED BY <1>3, <3>2, <4>1 DEF OccupyingChildren, Occupying, Occupies
    <3>4. Ancestor(j, i) BY <1>2, <2>1, <3>2, <3>3, ParentAncestor
    <3>5. Reaches(scope[r], j)
      <4>1. CASE i \in scope[r] BY <1>2, <3>4, <4>1 DEF Reaches
      <4>2. ASSUME NEW k \in scope[r] \cap Issued, Ancestor(i, k) PROVE Reaches(scope[r], j)
        BY <3>4, <4>2, AncestorTransitive DEF Reaches
      <4>3. QED BY <1>10, <4>1, <4>2 DEF Reaches
    <3>6. QED BY <1>1, <1>8, <3>5 DEF Answers
  <2>5. QED BY <2>3, <2>4
<1>12. OneOpen'
  <2>1. store[ProcessOf[r]] # "closed" BY <1>1 DEF InOrder, OneOpen
  <2>2. behind' = {} BY <1>1, <2>1, AloneCommits, RunnerAssumption DEF InOrder
  <2>3. QED BY <1>1, <2>1, <2>2, OpenStays DEF InOrder, SameRun
<1>13. QED BY <1>1, <1>4, <1>5, <1>6, <1>9, <1>11, <1>12, InOrderStep

(* Steps of no runner: a process that has nothing to do exits, a target    *)
(* goes away, or nothing happens.                                          *)
LEMMA OthersInOrder ==
  ASSUME RunnerInv, MemoryType, InOrder,
         \/ \E p \in Process : Exit(p)
         \/ Vanish
         \/ UNCHANGED runVars
  PROVE  InOrder'
<1>1. UNCHANGED ledgerVars /\ UNCHANGED runnerVars
  BY DEF Exit, Vanish, runVars
<1>2. /\ \A q \in Runner : SameRun(q) /\ pc'[q] = pc[q] /\ task'[q] = task[q]
      /\ Sweeper \in Runner
  BY <1>1, RunnerAssumption DEF runnerVars, SameRun
<1>3. SameTree /\ BegunStays /\ RunningOwned' /\ \A i \in Issued : CanClaim(i)' <=> CanClaim(i)
  BY <1>1, <1>2, LedgerKept DEF InOrder
<1>4. WorksWell(Sweeper)' BY <1>2, <1>3, SameRunWorks DEF InOrder
<1>5. \A i \in Issued : Answers(Sweeper, i) => Answers(Sweeper, i)'
  BY <1>2, <1>3, SameRunAnswers
<1>6. OneOpen'
  <2>1. CASE UNCHANGED <<store, behind>>
    BY <1>2, <2>1 DEF InOrder, OneOpen
  <2>2. ASSUME NEW p \in Process, Exit(p) PROVE OneOpen'
    <3>1. /\ store' = [store EXCEPT ![p] = "closed"] /\ behind' = behind \ {p}
          /\ \A q \in Runner : ProcessOf[q] = p => pc[q] = "idle"
      BY <2>2 DEF Exit, Died, RunnersOf
    <3>2. \A q \in Process : store'[q] # "closed" => store[q] # "closed"
      BY <3>1 DEF MemoryType
    <3>3. \A q \in Process \ {p} : store'[q] = store[q]
      BY <3>1 DEF MemoryType
    <3>4. QED BY <1>2, <3>1, <3>2, <3>3, RunnerAssumption DEF InOrder, OneOpen
  <2>3. QED BY <2>1, <2>2 DEF Vanish, runVars, stores
<1>7. QED BY <1>2, <1>3, <1>4, <1>5, <1>6, InOrderStep

----------------------------------------------------------------------------
(* The shape of what else the runners and the processes remember. *)
LEMMA IdleMemory ==
  ASSUME MemoryType, NEW R \in SUBSET Runner, Idle(R)
  PROVE  /\ scope' \in [Runner -> SUBSET Id]
         /\ permitted' \in [Runner -> SUBSET Id]
         /\ attempted' \in [Runner -> SUBSET Issued]
         /\ progress' \in [Runner -> BOOLEAN]
<1>1. scope' \in [Runner -> SUBSET Id] BY DEF Idle, MemoryType
<1>2. permitted' \in [Runner -> SUBSET Id] BY DEF Idle, MemoryType
<1>3. attempted' \in [Runner -> SUBSET Issued] BY DEF Idle, MemoryType
<1>4. progress' \in [Runner -> BOOLEAN] BY DEF Idle, MemoryType
<1>5. QED BY <1>1, <1>2, <1>3, <1>4

LEMMA BehindStays ==
  ASSUME MemoryType, NEW r \in Runner, UNCHANGED behind \/ Commits(ProcessOf[r])
  PROVE  behind' \in SUBSET Process
  BY RunnerAssumption DEF MemoryType, Commits

LEMMA EndsMemory ==
  ASSUME MemoryType, NEW r \in Runner, NEW s \in {"closed", "open"}, Ends(r, s),
         Issued' = Issued, behind' \in SUBSET Process, faults' \in Nat, refused' \in BOOLEAN
  PROVE  MemoryType'
<1>1. store' \in [Process -> {"closed", "opening", "open"}] BY DEF Ends, MemoryType
<1>2. QED BY <1>1, IdleMemory DEF Ends, MemoryType

LEMMA BeginMemory ==
  ASSUME RunnerInv, MemoryType, NEW r \in Runner, Begin(r)
  PROVE  MemoryType'
<1>1. Issued' = Issued BY RequestedRetires, RetiresIssued DEF RunnerInv, LedgerInv
<1>2. Issued \subseteq Id BY BoundsAssumption DEF RunnerInv, LedgerInv, TypeOK, Issued, Id
<1>3. ASSUME NEW n, NEW S \in SUBSET Id, Requested(r, n, S) PROVE MemoryType'
  <2>1. scope' \in [Runner -> SUBSET Id] BY <1>3 DEF Requested, MemoryType
  <2>2. behind' \in SUBSET Process BY <1>3, BehindStays DEF Requested
  <2>3. QED BY <1>1, <1>3, <2>1, <2>2 DEF Requested, MemoryType
<1>4. CASE BeginOpen(r)
  <2>1. scope' \in [Runner -> SUBSET Id] BY <1>4 DEF BeginOpen, MemoryType
  <2>2. store' \in [Process -> {"closed", "opening", "open"}]
    BY <1>4 DEF BeginOpen, MemoryType
  <2>3. behind' \in SUBSET Process BY <1>4, BehindStays DEF BeginOpen
  <2>4. faults' \in Nat BY <1>4 DEF BeginOpen, MemoryType
  <2>5. QED BY <1>1, <1>4, <2>1, <2>2, <2>3, <2>4 DEF BeginOpen, MemoryType
<1>5. CASE BeginSweep(r) BY <1>3, <1>5 DEF BeginSweep
<1>6. ASSUME NEW i \in Issued, BeginRelease(r, i) PROVE MemoryType'
  BY <1>2, <1>3, <1>6 DEF BeginRelease
<1>7. \A X : OccupyingClosure(X \cap Occupying) \in SUBSET Id
  <2> SUFFICES ASSUME NEW X PROVE OccupyingClosure(X \cap Occupying) \in SUBSET Id
    OBVIOUS
  <2>2. QED BY <1>2 DEF OccupyingClosure, Closure
<1>8. \A s : OwnedClosure(s) \in SUBSET Id
  <2>1. \A s : {i \in Occupying : holdings[i].subject = s} \cap Occupying =
               {i \in Occupying : holdings[i].subject = s}
    OBVIOUS
  <2>2. QED BY <1>7, <2>1 DEF OwnedClosure
<1>9. ASSUME NEW rows \in SUBSET Id, BeginTearing(r, rows) PROVE MemoryType'
  BY <1>3, <1>9 DEF BeginTearing
<1>10. ASSUME NEW s, BeginTeardown(r, s) PROVE MemoryType'
  BY <1>8, <1>9, <1>10 DEF BeginTeardown
<1>11. ASSUME NEW i, BeginTeardownHolding(r, i) PROVE MemoryType'
  BY <1>7, <1>9, <1>11 DEF BeginTeardownHolding
<1>12. ASSUME NEW i, BeginReclaim(r, i) PROVE MemoryType'
  BY <1>8, <1>9, <1>12 DEF BeginReclaim
<1>13. QED BY <1>4, <1>5, <1>6, <1>10, <1>11, <1>12 DEF Begin

(* No step issues an identity. *)
LEMMA IssuedStays ==
  ASSUME RunnerInv, [RunnerNext]_runVars
  PROVE  Issued' = Issued
<1>1. ASSUME UNCHANGED ledgerVars PROVE Issued' = Issued
  BY <1>1 DEF ledgerVars, vars, Issued
<1>2. ASSUME next_id' = next_id PROVE Issued' = Issued
  BY <1>2 DEF Issued
<1>3. ASSUME NEW r \in Runner, RunStep(r) PROVE Issued' = Issued
  <2>1. CASE \/ Fenced(r) \/ ReadScope(r) \/ Observe(r) \/ Permit(r) \/ List(r) \/ Execute(r)
             \/ EndPass(r) \/ \E w \in Fresh : StartRun(r, w)
             \/ \E e \in observed[r] : LeaveAlone(r, e) \/ RecoverStale(r, e)
             \/ \E i \in todo[r] : Skip(r, i)
    BY <1>1, <2>1 DEF Fenced, ReadScope, Observe, Permit, List, Execute, Reported, EndPass,
                      StartRun, LeaveAlone, RecoverStale, Skip
  <2>2. ASSUME NEW e \in observed[r], Recover(r, e) PROVE Issued' = Issued
    BY <1>2, <2>2 DEF Recover, Abandon
  <2>3. ASSUME NEW i \in todo[r], Visit(r, i) PROVE Issued' = Issued
    BY <1>2, <2>3 DEF Visit, Claim
  <2>4. CASE Commit(r) \/ Unwind(r)
    BY <1>1, <1>2, <2>4 DEF Commit, Unwind, Finish
  <2>5. QED BY <1>3, <2>1, <2>2, <2>3, <2>4 DEF RunStep
<1>4. ASSUME NEW r \in Runner, Begin(r) PROVE Issued' = Issued
  BY <1>4, RequestedRetires, RetiresIssued DEF RunnerInv, LedgerInv
<1>5. CASE Fault \/ (\E p \in Process : Exit(p)) \/ UNCHANGED runVars
  BY <1>1, <1>5 DEF Fault, ExecuteFails, Reported, Panic, CommitFails, Crash, Vanish, Exit,
                    runVars
<1>6. QED BY <1>3, <1>4, <1>5 DEF RunnerNext

LEMMA MemoryStep ==
  ASSUME RunnerInv, MemoryType, [RunnerNext]_runVars
  PROVE  MemoryType'
<1>1. Issued' = Issued BY IssuedStays
<1>2. Issued \subseteq Id BY BoundsAssumption DEF RunnerInv, LedgerInv, TypeOK, Issued, Id
<1>3. ASSUME UNCHANGED <<scope, permitted, attempted, progress, stores, refused>>, faults' \in Nat
      PROVE  MemoryType'
  BY <1>1, <1>3 DEF MemoryType, stores
<1>4. ASSUME NEW r \in Runner, RunStep(r) PROVE MemoryType'
  <2>1. CASE Observe(r) \/ List(r) \/ Execute(r) \/ \E w \in Fresh : StartRun(r, w)
    BY <1>3, <2>1 DEF Observe, List, Execute, Reported, StartRun, stores, MemoryType
  <2>2. ASSUME NEW e \in observed[r], LeaveAlone(r, e) PROVE MemoryType'
    BY <1>3, <2>2 DEF LeaveAlone, stores, MemoryType
  <2>3. CASE ReadScope(r)
    <3>1. OccupyingClosure(scope[r] \cap Occupying) \subseteq Id
      BY <1>2 DEF OccupyingClosure, Closure
    <3>2. scope' \in [Runner -> SUBSET Id] BY <2>3, <3>1 DEF ReadScope, MemoryType
    <3>3. QED BY <1>1, <2>3, <3>2 DEF ReadScope, stores, MemoryType
  <2>4. CASE Permit(r)
    <3>1. Permitted(scope[r]) \in SUBSET Id
      BY <1>2 DEF Permitted, RetiringAncestors, MemoryType
    <3>2. permitted' \in [Runner -> SUBSET Id] BY <2>4, <3>1 DEF Permit, MemoryType
    <3>3. QED BY <1>1, <2>4, <3>2 DEF Permit, stores, MemoryType
  <2>5. ASSUME NEW i \in todo[r], Skip(r, i) PROVE MemoryType'
    <3>1. behind' \in SUBSET Process BY <2>5, BehindStays DEF Skip
    <3>2. QED BY <1>1, <2>5, <3>1 DEF Skip, MemoryType
  <2>6. ASSUME NEW i \in todo[r], Visit(r, i) PROVE MemoryType'
    <3>1. behind' \in SUBSET Process BY <2>6, BehindStays DEF Visit
    <3>2. i \in Issued BY DEF RunnerInv, RunnerType
    <3>3. attempted' \in [Runner -> SUBSET Issued] BY <2>6, <3>2 DEF Visit, MemoryType
    <3>4. QED BY <1>1, <2>6, <3>1, <3>3 DEF Visit, MemoryType
  <2>7. ASSUME NEW e \in observed[r], Recover(r, e) PROVE MemoryType'
    <3>1. behind' \in SUBSET Process BY <2>7, BehindStays DEF Recover
    <3>2. QED BY <1>1, <2>7, <3>1 DEF Recover, MemoryType
  <2>8. ASSUME NEW e \in observed[r], RecoverStale(r, e) PROVE MemoryType'
    BY <1>1, <2>8, EndsMemory DEF RecoverStale, MemoryType
  <2>9. CASE Fenced(r)
    BY <1>1, <2>9, EndsMemory DEF Fenced, MemoryType
  <2>10. CASE Commit(r)
    <3>1. CASE IsCurrent(r)
      <4>1. behind' \in SUBSET Process BY <2>10, <3>1, BehindStays DEF Commit
      <4>2. progress' \in [Runner -> BOOLEAN]
        BY <2>10, <3>1 DEF Commit, MemoryType
      <4>3. QED BY <1>1, <2>10, <3>1, <4>1, <4>2 DEF Commit, MemoryType
    <3>2. CASE ~ IsCurrent(r)
      BY <1>1, <2>10, <3>2, EndsMemory DEF Commit, MemoryType
    <3>3. QED BY <3>1, <3>2
  <2>11. CASE Unwind(r)
    <3>1. behind' \in SUBSET Process BY <2>11, BehindStays DEF Unwind
    <3>2. QED BY <1>1, <2>11, <3>1, EndsMemory DEF Unwind, MemoryType
  <2>12. CASE EndPass(r)
    <3>1. CASE progress[r]
      <4>1. permitted' \in [Runner -> SUBSET Id] /\ progress' \in [Runner -> BOOLEAN]
        BY <2>12, <3>1 DEF EndPass, MemoryType
      <4>2. QED BY <1>1, <2>12, <3>1, <4>1 DEF EndPass, MemoryType
    <3>2. CASE ~ progress[r]
      BY <1>1, <2>12, <3>2, EndsMemory DEF EndPass, MemoryType
    <3>3. QED BY <3>1, <3>2
  <2>13. QED
    BY <1>4, <2>1, <2>2, <2>3, <2>4, <2>5, <2>6, <2>7, <2>8, <2>9, <2>10, <2>11, <2>12 DEF RunStep
<1>5. ASSUME NEW r \in Runner, ExecuteFails(r) \/ Panic(r) PROVE MemoryType'
  BY <1>3, <1>5 DEF ExecuteFails, Reported, Panic, stores, MemoryType
<1>6. ASSUME NEW r \in Runner, CommitFails(r) PROVE MemoryType'
  <2>1. behind' \in SUBSET Process
    BY <1>6, RunnerAssumption DEF CommitFails, MemoryType
  <2>2. QED BY <1>1, <1>6, <2>1, EndsMemory DEF CommitFails, MemoryType
<1>7. ASSUME NEW p \in Process, Crash(p) \/ Exit(p) PROVE MemoryType'
  <2>1. store' \in [Process -> {"closed", "opening", "open"}] /\ behind' \in SUBSET Process
    BY <1>7 DEF Crash, Exit, Died, MemoryType
  <2>2. CASE Crash(p)
    BY <1>1, <2>1, <2>2, IdleMemory DEF Crash, RunnersOf, MemoryType
  <2>3. CASE Exit(p)
    BY <1>1, <2>1, <2>3 DEF Exit, runnerVars, MemoryType
  <2>4. QED BY <1>7, <2>2, <2>3
<1>8. CASE Vanish \/ UNCHANGED runVars
  BY <1>3, <1>8 DEF Vanish, runVars, runnerVars, MemoryType
<1>9. QED BY <1>4, <1>5, <1>6, <1>7, <1>8, BeginMemory DEF RunnerNext, Fault

(* In order, nothing is fenced off, taken over or refused, so that a step  *)
(* that is no fault is one of a run that goes well.                        *)
LEMMA StepsInOrder ==
  ASSUME RunnerInv, MemoryType, InOrder, [RunnerNext]_runVars, Calm'
  PROVE  InOrder'
<1>1. \A r \in Runner : Current(r)
  BY DEF InOrder, OneOpen, Current
<1>2. ASSUME NEW r \in Runner, RunStep(r) PROVE InOrder'
  <2>1. ASSUME NEW e \in observed[r], Recover(r, e) PROVE FALSE
    <3>1. e \in Attempt BY DEF RunnerInv, RunnerType
    <3>2. Gone(r, e.work.worker) /\ cleanups[e.holding] = RunningAs(e.work)
      BY <2>1 DEF Recover, Abandon
    <3>3. e.holding \in Issued /\ cleanups[e.holding].state = "running"
      BY <3>1, <3>2 DEF Attempt, RunningAs
    <3>4. PICK q \in Runner : task[q].holding = e.holding
      BY <3>3 DEF InOrder, RunningOwned
    <3>5. QED BY <3>1, <3>2, <3>4, GoneHasNoTask
  <2>2. ASSUME NEW e \in observed[r], RecoverStale(r, e) PROVE FALSE
    BY <2>2 DEF RecoverStale, Calm
  <2>3. ASSUME Fenced(r) PROVE FALSE
    BY <1>1, <2>3 DEF Fenced
  <2>4. ASSUME Unwind(r) PROVE FALSE
    BY <2>4 DEF Unwind, InOrder, WorksWell
  <2>5. ASSUME Commit(r), ~ IsCurrent(r) PROVE FALSE
    BY <2>5 DEF Commit, Calm
  <2>6. QED
    BY <1>2, <2>1, <2>2, <2>3, <2>4, <2>5, ReadsInOrder, EndsInOrder, VisitsInOrder,
       ExecutesInOrder, CommitsInOrder DEF RunStep
<1>3. ASSUME NEW r \in Runner, ExecuteFails(r) \/ Panic(r) \/ CommitFails(r) PROVE FALSE
  BY <1>3 DEF ExecuteFails, Panic, CommitFails, Calm, MemoryType
<1>4. ASSUME NEW p \in Process, Crash(p) PROVE FALSE
  BY <1>4 DEF Crash, Calm, MemoryType
<1>5. QED BY <1>2, <1>3, <1>4, BeginsInOrder, OthersInOrder DEF RunnerNext, Fault

(* A fault is never forgotten. *)
LEMMA CalmBefore ==
  ASSUME MemoryType, [RunnerNext]_runVars, Calm'
  PROVE  Calm
<1>1. faults' \in {faults, faults + 1} /\ refused' \in {refused, TRUE}
  <2>1. ASSUME NEW r \in Runner, RunStep(r) PROVE faults' = faults /\ refused' \in {refused, TRUE}
    BY <2>1 DEF RunStep, Fenced, ReadScope, Observe, Recover, LeaveAlone, RecoverStale, StartRun,
                Permit, List, Skip, Visit, Execute, Reported, Commit, Unwind, EndPass
  <2>2. ASSUME NEW r \in Runner, Begin(r)
        PROVE  faults' \in {faults, faults + 1} /\ refused' = refused
    BY <2>2 DEF Begin, BeginSweep, BeginOpen, BeginRelease, BeginTeardown, BeginTeardownHolding,
                BeginReclaim, BeginTearing, Requested
  <2>3. CASE Fault
    BY <2>3 DEF Fault, ExecuteFails, Reported, Panic, CommitFails, Crash, Vanish
  <2>4. ASSUME NEW p \in Process, Exit(p) PROVE UNCHANGED <<faults, refused>>
    BY <2>4 DEF Exit
  <2>5. QED BY <2>1, <2>2, <2>3, <2>4 DEF RunnerNext, runVars
<1>2. faults = 0 BY <1>1 DEF Calm, MemoryType
<1>3. ~ refused BY <1>1, Zenon DEF Calm, MemoryType
<1>4. QED BY <1>2, <1>3 DEF Calm

LEMMA InitCalm == RunnerInit => CalmInv
<1> SUFFICES ASSUME RunnerInit PROVE CalmInv
  OBVIOUS
<1>1. RunnerInv BY InitRunner
<1>2. MemoryType BY DEF RunnerInit, MemoryType
<1>3. /\ \A r \in Runner : pc[r] = "idle" /\ task[r] = NoTask /\ todo[r] = {} /\ attempted[r] = {}
      /\ \A i \in Issued : cleanups[i] = NoCleanup
  BY DEF RunnerInit
<1>4. OneOpen
  BY <1>3, RunnerAssumption DEF RunnerInit, OneOpen
<1>5. RunningOwned /\ Answered
  BY <1>3 DEF RunningOwned, Answered, CanClaim, NoCleanup, Claimable, Failure
<1>6. \A r \in Runner : WorksWell(r)
  BY <1>3 DEF WorksWell
<1>7. QED BY <1>1, <1>2, <1>4, <1>5, <1>6 DEF CalmInv, InOrder

(* While nothing fails, the runners stay in order. *)
THEOREM CalmInductive == RunnerSpec => []CalmInv
<1>1. CalmInv /\ [RunnerNext]_runVars => CalmInv'
  BY RunnerInvStep, MemoryStep, StepsInOrder, CalmBefore DEF CalmInv
<1>2. QED BY <1>1, InitCalm, PTL DEF RunnerSpec

(* When every run is over and none of them failed, no task is left that    *)
(* anyone could take up: whoever frees a row comes back for what it woke,  *)
(* and a process ends its runs before it exits.                            *)
THEOREM NoneLeftSafe == RunnerSpec => []NoneLeftBehind
<1>1. CalmInv => NoneLeftBehind
  <2> SUFFICES ASSUME CalmInv, Calm, \A r \in Runner : pc[r] = "idle", NEW i \in Issued,
                      CanClaim(i)
               PROVE  FALSE
    BY DEF NoneLeftBehind, Calm
  <2>1. PICK r \in Runner : Answers(r, i) BY DEF CalmInv, InOrder, Answered
  <2>2. QED BY <2>1 DEF Answers, Acting
<1>2. QED BY <1>1, CalmInductive, PTL
=============================================================================
