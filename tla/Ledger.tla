------------------------------- MODULE Ledger -------------------------------
(***************************************************************************)
(* The holdings ledger of crates/portos-rm: the aggregate in which every   *)
(* subject's claims on every resource pool are granted, moved, renewed,    *)
(* retired and, once the world confirms that the thing behind a claim is   *)
(* gone, accounted as free again.                                          *)
(*                                                                         *)
(* An operation that the code refuses (an Err) changes nothing and so is   *)
(* not a step.  A handle is the identity it names: the generation string   *)
(* only tells a forged handle from a true one.  The idempotency key of a   *)
(* cleanup is left out, the kernel derives it from the holding's identity  *)
(* and never offers one twice.  A class declaration never changes once it  *)
(* is registered, so Decl is a constant.                                   *)
(***************************************************************************)
EXTENDS Integers

CONSTANTS
  Subject,         \* owners of holdings: sessions, plugins, accounts
  Class,           \* resource classes
  Decl,            \* Decl[c]: the registered ClassDecl of class c
  Pool,            \* ResourceKeys, (class, instance) pairs
  ClassOf,         \* ClassOf[p]: the class of pool p
  Frag,            \* fragments of every algebra
  ClaimOf,         \* ClaimOf[p]: the valid claims in the algebra of pool p
  CapacityOf,      \* CapacityOf[p]: the valid capacities in its algebra
  Zero,            \* Count(0)
  Admits(_, _),    \* frag_auth_valid over compose_frags of a family
  Target,          \* what cleanup has to remove
  PolicyOf,        \* PolicyOf[t]: the cleanup policy a target belongs to
  Alias,           \* pairs of targets that are one thing of the world
  Worker,          \* sessions that run cleanup
  NoWorker,
  NoPool,
  LeaseRequest,    \* the lease requests callers make
  Outcome,         \* what executors report: Completions and Failures
  Instantiation,   \* the (child, parent) subject pairs callers declare
  MaxId,           \* how many identities can be issued  (i64::MAX)
  MaxTime,         \* the last timestamp                 (i64::MAX)
  MaxAttempts      \* the last cleanup attempt           (i64::MAX)

Id == 0 .. MaxId - 1
Time == 0 .. MaxTime
NoParent == -1
NoDuration == -1

(* CleanupPolicy::AccountingOnly; every other policy is Managed(kind). *)
AccountingOnly == "accounting_only"

Lease == [kind : {"until", "parent_bound", "unbounded"}, at : Time]
Unbounded == [kind |-> "unbounded", at |-> 0]
ParentBound == [kind |-> "parent_bound", at |-> 0]
Until(t) == [kind |-> "until", at |-> t]

Holding ==
  [subject : Subject, pool : Pool, frag : Frag, parent : Id \cup {NoParent},
   lease : Lease, state : {"active", "retiring", "retired"}, target : Target]

(* CleanupState, with the two Completions of Done told apart. *)
Completion == {"confirmed", "already_absent"}
Failure == {"retryable", "unknown", "blocked"}
Claimable == {"pending"} \cup Failure
Cleanup ==
  [state : {"none", "running"} \cup Claimable \cup Completion,
   attempts : 0 .. MaxAttempts, worker : Worker \cup {NoWorker}]
NoCleanup == [state |-> "none", attempts |-> 0, worker |-> NoWorker]

(* A CleanupWork: the claimed record, as the worker carries it away. *)
Work == [attempts : 1 .. MaxAttempts, worker : Worker]
RunningAs(w) == [state |-> "running", attempts |-> w.attempts, worker |-> w.worker]

----------------------------------------------------------------------------
(* The ledger relies on two laws of its algebras: a part of an admissible  *)
(* family is admissible, and a valid capacity admits the empty family.     *)
ASSUME BoundsAssumption == MaxId \in Nat /\ MaxTime \in Nat /\ MaxAttempts \in Nat

ASSUME DeclAssumption ==
  /\ ClassOf \in [Pool -> Class]
  /\ PolicyOf \in [Target -> STRING]
  /\ \A c \in Class :
       /\ Decl[c].policy \in STRING
       /\ Decl[c].duration \in Nat \cup {NoDuration}
  /\ \A t, u \in Target : <<t, u>> \in Alias => <<u, t>> \in Alias

ASSUME PoolAssumption ==
  /\ NoPool \notin Frag
  /\ Zero \in Frag
  /\ \A p \in Pool : ClaimOf[p] \subseteq Frag /\ CapacityOf[p] \subseteq Frag

ASSUME AuthMonotone ==
  \A c \in Frag, S \in SUBSET Id : \A f \in [S -> Frag] : \A T \in SUBSET S :
    Admits(c, f) => Admits(c, [i \in T |-> f[i]])

ASSUME AuthEmpty ==
  /\ \A p \in Pool : \A c \in CapacityOf[p] : Admits(c, [i \in {} |-> Zero])
  /\ Admits(Zero, [i \in {} |-> Zero])

ASSUME InputAssumption ==
  /\ NoWorker \notin Worker
  /\ Outcome \subseteq Completion \cup Failure
  /\ \A r \in LeaseRequest :
       /\ r.kind \in {"default", "for", "until", "parent_bound", "unbounded"}
       /\ r.arg \in Nat
  /\ Instantiation \subseteq Subject \X Subject

----------------------------------------------------------------------------
VARIABLES
  capacities,      \* the capacity of each pool, NoPool before create_pool
  holdings,        \* every holding ever granted, by identity
  next_id,         \* the identity the next grant issues
  cleanups,        \* the cleanup task of each holding, NoCleanup if none
  instantiations,  \* which subject each subject was instantiated by
  now              \* the clock callers pass to time-dependent operations

vars == <<capacities, holdings, next_id, cleanups, instantiations, now>>

Issued == 0 .. next_id - 1
IsActive(i) == holdings[i].state = "active"
Occupies(i) == holdings[i].state # "retired"
Active == {i \in Issued : IsActive(i)}
Occupying == {i \in Issued : Occupies(i)}
OccupyingChildren(i) == {c \in Occupying : holdings[c].parent = i}
(* Mutant: a retiring row no longer counts against its pool. *)
MutOccupyingOf(p) == {i \in Active : holdings[i].pool = p}
OccupyingOf(p) == {i \in Occupying : holdings[i].pool = p}
LiveFrags(p) == [i \in OccupyingOf(p) |-> holdings[i].frag]
DeclOf(i) == Decl[ClassOf[holdings[i].pool]]
IsManaged(i) == PolicyOf[holdings[i].target] # AccountingOnly

(* The least set that contains S and every member of C whose parent is in it. *)
Closed(T, C) == \A c \in C : holdings[c].parent \in T => c \in T
Closure(S, C) ==
  {i \in Issued : \A T \in SUBSET Issued : S \subseteq T /\ Closed(T, C) => i \in T}

BoundChildren == {c \in Active : holdings[c].lease.kind = "parent_bound"}
BoundClosure(S) == Closure(S, BoundChildren)
OccupyingClosure(S) == Closure(S, Occupying)

----------------------------------------------------------------------------
(* LeaseRequest::resolve.  CanResolve is its Ok: no timestamp past MaxTime, *)
(* and ParentBound only under a parent.                                    *)
Duration(r, decl) == IF r.kind = "for" THEN r.arg ELSE decl.duration
IsFor(r, decl) == r.kind = "for" \/ (r.kind = "default" /\ decl.duration # NoDuration)

CanResolve(r, decl, hasParent, t) ==
  /\ IsFor(r, decl) => t + Duration(r, decl) <= MaxTime
  /\ r.kind = "until" => r.arg <= MaxTime
  /\ r.kind = "parent_bound" => hasParent

BoundOrUnbounded(bound) == IF bound THEN ParentBound ELSE Unbounded

Resolve(r, decl, hasParent, t) ==
  IF IsFor(r, decl) THEN Until(t + Duration(r, decl))
  ELSE IF r.kind = "until" THEN Until(r.arg)
  ELSE BoundOrUnbounded(r.kind = "parent_bound" \/ (r.kind = "default" /\ hasParent))

----------------------------------------------------------------------------
Init ==
  /\ capacities = [p \in Pool |-> NoPool]
  /\ holdings = [i \in {} |-> NoCleanup]
  /\ next_id = 0
  /\ cleanups = [i \in {} |-> NoCleanup]
  /\ instantiations = [s \in Subject |-> s]
  /\ now = 0

(* create_pool; an existing pool is returned or refused, never changed. *)
CreatePool(p, c) ==
  /\ capacities[p] = NoPool
  /\ capacities' = [capacities EXCEPT ![p] = c]
  /\ UNCHANGED <<holdings, next_id, cleanups, instantiations, now>>

(* Mutant: the capacity is set without looking at what is outstanding. *)
MutResizePool(p, c) ==
  /\ capacities[p] # NoPool
  /\ capacities' = [capacities EXCEPT ![p] = c]
  /\ UNCHANGED <<holdings, next_id, cleanups, instantiations, now>>

ResizePool(p, c) ==
  /\ capacities[p] # NoPool
  /\ Admits(c, LiveFrags(p))
  /\ capacities' = [capacities EXCEPT ![p] = c]
  /\ UNCHANGED <<holdings, next_id, cleanups, instantiations, now>>

(* declare_instantiation; a later declaration replaces an earlier one.  A  *)
(* subject that was never declared is its own entry: owning is checked     *)
(* first, so both read the same.                                           *)
DeclareInstantiation(child, parent) ==
  /\ instantiations' = [instantiations EXCEPT ![child] = parent]
  /\ UNCHANGED <<capacities, holdings, next_id, cleanups, now>>

(* Mutant: a retiring row still takes children. *)
MutMayParent(owner, i) ==
  Occupies(i) /\ holdings[i].subject \in {owner, instantiations[owner]}

MayParent(owner, i) ==
  /\ IsActive(i)
  /\ holdings[i].subject \in {owner, instantiations[owner]}

(* Mutant: only usable rows are compared, not the retiring ones. *)
MutTargetFree(t) == \A j \in Active : <<t, holdings[j].target>> \notin Alias

(* conflicts_with against every holding that still occupies, retiring or not. *)
TargetFree(t) == \A j \in Occupying : <<t, holdings[j].target>> \notin Alias

(* grant_with_cleanup: every check reads the ledger the row is pushed to. *)
Grant(owner, p, f, parent, r, t) ==
  LET decl == Decl[ClassOf[p]] IN
  /\ next_id < MaxId
  /\ capacities[p] # NoPool
  /\ PolicyOf[t] = decl.policy
  /\ TargetFree(t)
  /\ parent # NoParent => parent \in Issued /\ MayParent(owner, parent)
  /\ CanResolve(r, decl, parent # NoParent, now)
  /\ Admits(capacities[p],
            [i \in OccupyingOf(p) \cup {next_id} |->
               IF i = next_id THEN f ELSE holdings[i].frag])
  /\ holdings' =
       [i \in 0 .. next_id |->
          IF i = next_id
            THEN [subject |-> owner, pool |-> p, frag |-> f, parent |-> parent,
                  lease |-> Resolve(r, decl, parent # NoParent, now),
                  state |-> "active", target |-> t]
            ELSE holdings[i]]
  /\ cleanups' = [i \in 0 .. next_id |-> IF i = next_id THEN NoCleanup ELSE cleanups[i]]
  /\ next_id' = next_id + 1
  /\ UNCHANGED <<capacities, instantiations, now>>

(* transfer hands one active holding to another subject. *)
Transfer(i, to) ==
  /\ IsActive(i)
  /\ holdings' = [holdings EXCEPT ![i].subject = to]
  /\ UNCHANGED <<capacities, next_id, cleanups, instantiations, now>>

(* Mutants: release over an occupying child, of a retiring row, of a managed row. *)
Retired(i) ==
  /\ holdings' = [holdings EXCEPT ![i].state = "retired"]
  /\ UNCHANGED <<capacities, next_id, cleanups, instantiations, now>>
MutReleaseParent(i) == IsActive(i) /\ ~ IsManaged(i) /\ Retired(i)
MutReleaseRetiring(i) ==
  Occupies(i) /\ ~ IsManaged(i) /\ OccupyingChildren(i) = {} /\ Retired(i)
MutReleaseManaged(i) == IsActive(i) /\ OccupyingChildren(i) = {} /\ Retired(i)

(* release frees an accounting-only holding at once, leaves first. *)
Release(i) ==
  /\ IsActive(i)
  /\ ~ IsManaged(i)
  /\ OccupyingChildren(i) = {}
  /\ holdings' = [holdings EXCEPT ![i].state = "retired"]
  /\ UNCHANGED <<capacities, next_id, cleanups, instantiations, now>>

(* renew: a default renewal of a class without a default keeps the lease. *)
KeepsLease(i, r) == r.kind = "default" /\ DeclOf(i).duration = NoDuration

Renewed(i, r) ==
  IF KeepsLease(i, r) THEN holdings[i].lease
  ELSE Resolve(r, DeclOf(i), holdings[i].parent # NoParent, now)

(* Mutant: a lease may be bound to a parent that is retiring. *)
MutRenew(i, r) ==
  /\ IsActive(i)
  /\ KeepsLease(i, r) \/ CanResolve(r, DeclOf(i), holdings[i].parent # NoParent, now)
  /\ holdings' = [holdings EXCEPT ![i].lease = Renewed(i, r)]
  /\ UNCHANGED <<capacities, next_id, cleanups, instantiations, now>>

Renew(i, r) ==
  /\ IsActive(i)
  /\ KeepsLease(i, r) \/ CanResolve(r, DeclOf(i), holdings[i].parent # NoParent, now)
  /\ Renewed(i, r) = ParentBound => holdings[i].parent \in Active
  /\ holdings' = [holdings EXCEPT ![i].lease = Renewed(i, r)]
  /\ UNCHANGED <<capacities, next_id, cleanups, instantiations, now>>

(* settle_and_zero_pool: every row of a counted pool is released, deepest  *)
(* first, and the pool closed; one row that cannot go refuses the whole.   *)
SettleAndZero(p) ==
  /\ capacities[p] # NoPool
  /\ Zero \in CapacityOf[p]
  /\ \A i \in OccupyingOf(p) :
       /\ IsActive(i)
       /\ ~ IsManaged(i)
       /\ OccupyingChildren(i) \subseteq OccupyingOf(p)
  /\ holdings' = [i \in Issued |-> IF i \in OccupyingOf(p)
                                     THEN [holdings[i] EXCEPT !.state = "retired"]
                                     ELSE holdings[i]]
  /\ capacities' = [capacities EXCEPT ![p] = Zero]
  /\ UNCHANGED <<next_id, cleanups, instantiations, now>>

----------------------------------------------------------------------------
(* Retirement: an intent is recorded first, occupancy ends later. *)
Retire(S) ==
  /\ S # {}
  /\ holdings' = [i \in Issued |-> IF i \in S
                                     THEN [holdings[i] EXCEPT !.state = "retiring"]
                                     ELSE holdings[i]]
  /\ cleanups' = [i \in Issued |-> IF i \in S
                                     THEN [NoCleanup EXCEPT !.state = "pending"]
                                     ELSE cleanups[i]]
  /\ UNCHANGED <<capacities, next_id, instantiations, now>>

(* request_retirement takes the parent-bound descendants along; children   *)
(* with a lease of their own stay usable.                                  *)
RequestRetirement(i) == IsActive(i) /\ Retire(BoundClosure({i}))

(* The sweep's transaction: request_many over due_retirements. *)
Expired(i) == holdings[i].lease.kind = "until" /\ holdings[i].lease.at <= now
Due == Active \cap BoundClosure({i \in Occupying : ~ IsActive(i) \/ Expired(i)})
Sweep == Retire(Due)

(* request_teardown and teardown_holding: every occupying descendant goes. *)
Teardown(s) ==
  Retire(Active \cap OccupyingClosure({i \in Occupying : holdings[i].subject = s}))
TeardownHolding(i) == Retire(Active \cap OccupyingClosure({i} \cap Occupying))

(* Mutants: a row with children under it is claimed; the attempt counter   *)
(* runs past its width.                                                    *)
MutClaimParent(i, w) ==
  /\ cleanups[i].state \in Claimable
  /\ holdings[i].state = "retiring"
  /\ cleanups[i].attempts < MaxAttempts
  /\ cleanups' = [cleanups EXCEPT ![i] = RunningAs([attempts |-> @.attempts + 1, worker |-> w])]
  /\ UNCHANGED <<capacities, holdings, next_id, instantiations, now>>
MutClaim(i, w) ==
  /\ cleanups[i].state \in Claimable
  /\ holdings[i].state = "retiring"
  /\ OccupyingChildren(i) = {}
  /\ cleanups' = [cleanups EXCEPT ![i] = RunningAs([attempts |-> @.attempts + 1, worker |-> w])]
  /\ UNCHANGED <<capacities, holdings, next_id, instantiations, now>>

(* claim_cleanup *)
Claim(i, w) ==
  /\ cleanups[i].state \in Claimable
  /\ holdings[i].state = "retiring"
  /\ OccupyingChildren(i) = {}
  /\ cleanups[i].attempts < MaxAttempts
  /\ cleanups' = [cleanups EXCEPT ![i] = RunningAs([attempts |-> @.attempts + 1, worker |-> w])]
  /\ UNCHANGED <<capacities, holdings, next_id, instantiations, now>>

(* finish_cleanup: the whole record has to be the one that was claimed. *)
Finish(i, work, outcome) ==
  /\ cleanups[i] = RunningAs(work)
  /\ holdings[i].state = "retiring"
  /\ OccupyingChildren(i) = {}
  /\ holdings' = IF outcome \in Completion
                   THEN [holdings EXCEPT ![i].state = "retired"] ELSE holdings
  /\ cleanups' = [cleanups EXCEPT ![i].state = outcome, ![i].worker = NoWorker]
  /\ UNCHANGED <<capacities, next_id, instantiations, now>>

(* abandon_cleanup, of the record some recovery pass observed. *)
Abandon(i, work) ==
  /\ cleanups[i] = RunningAs(work)
  /\ cleanups' = [cleanups EXCEPT ![i].state = "unknown", ![i].worker = NoWorker]
  /\ UNCHANGED <<capacities, holdings, next_id, instantiations, now>>

Tick ==
  /\ now < MaxTime
  /\ now' = now + 1
  /\ UNCHANGED <<capacities, holdings, next_id, cleanups, instantiations>>

GrantSome ==
  \E owner \in Subject, p \in Pool, parent \in Issued \cup {NoParent},
     r \in LeaseRequest, t \in Target :
    \E f \in ClaimOf[p] : Grant(owner, p, f, parent, r, t)

PoolStep ==
  \E p \in Pool :
    \/ SettleAndZero(p)
    \/ \E c \in CapacityOf[p] : CreatePool(p, c) \/ ResizePool(p, c)

SubjectStep ==
  \/ \E s \in Subject : Teardown(s)
  \/ \E e \in Instantiation : DeclareInstantiation(e[1], e[2])

HoldingStep(i) ==
  \/ Release(i)
  \/ RequestRetirement(i)
  \/ TeardownHolding(i)
  \/ \E s \in Subject : Transfer(i, s)
  \/ \E r \in LeaseRequest : Renew(i, r)

CleanupStep(i) ==
  \/ \E w \in Worker : Claim(i, w)
  \/ \E work \in Work : Abandon(i, work)
  \/ \E work \in Work, outcome \in Outcome : Finish(i, work, outcome)

Next ==
  \/ GrantSome
  \/ PoolStep
  \/ SubjectStep
  \/ Sweep
  \/ Tick
  \/ \E i \in Issued : HoldingStep(i) \/ CleanupStep(i)

Spec == Init /\ [][Next]_vars

----------------------------------------------------------------------------
(* Every row, task and capacity has the shape the code's types give it; no *)
(* counter leaves its width.                                               *)
TypeOK ==
  /\ capacities \in [Pool -> Frag \cup {NoPool}]
  /\ next_id \in 0 .. MaxId
  /\ holdings \in [Issued -> Holding]
  /\ cleanups \in [Issued -> Cleanup]
  /\ instantiations \in [Subject -> Subject]
  /\ now \in Time

(* What occupies a pool, retiring claims included, fits its capacity, and  *)
(* nothing occupies a pool that does not exist (Ledger::invariant).        *)
WithinCapacity ==
  \A p \in Pool : IF capacities[p] = NoPool THEN OccupyingOf(p) = {}
                                            ELSE Admits(capacities[p], LiveFrags(p))

(* The parent graph is a forest that only loses leaves: whatever occupies  *)
(* hangs under an older row that still occupies.                           *)
AncestorsOccupy ==
  \A i \in Issued : holdings[i].parent # NoParent =>
    /\ holdings[i].parent < i
    /\ Occupies(i) => Occupies(holdings[i].parent)

(* A usable holding whose lease is its parent's has a usable parent, so a  *)
(* retirement never leaves a bound descendant behind.                      *)
BoundFollowsParent ==
  \A i \in BoundChildren : holdings[i].parent \in Active

(* No two rows stand for one thing of the world, however they are named.   *)
NoSharedTarget ==
  \A i, j \in Occupying :
    i # j => <<holdings[i].target, holdings[j].target>> \notin Alias

(* A retiring row has exactly one unfinished task, a usable row none, and  *)
(* a managed row is retired only by a task that was attempted and done.    *)
ObligationKept ==
  \A i \in Issued :
    /\ IsActive(i) => cleanups[i] = NoCleanup
    /\ holdings[i].state = "retiring" <=> cleanups[i].state \in Claimable \cup {"running"}
    /\ holdings[i].state = "retired" /\ IsManaged(i) => cleanups[i].state \in Completion
    /\ cleanups[i].state \in Completion \cup {"running"} => cleanups[i].attempts > 0

(* While a cleanup attempt is out, nothing can come to hang under its row. *)
RunningIsLeaf ==
  \A i \in Issued : cleanups[i].state = "running" => OccupyingChildren(i) = {}

(* The forest survives every order of grants, transfers, renewals,         *)
(* retirements and cleanup attempts: nothing is orphaned, nothing outlives *)
(* the lease it is bound to, and no cleanup pulls a parent from under what *)
(* still hangs on it.                                                      *)
ForestKept == AncestorsOccupy /\ BoundFollowsParent /\ RunningIsLeaf

(* A managed row stops occupying in one way only: the attempt that was     *)
(* running reports the target gone.                                        *)
FreedByItsAttempt ==
  \A i \in Issued :
    IsManaged(i) /\ Occupies(i) /\ ~ Occupies(i)' =>
      /\ cleanups[i].state = "running"
      /\ cleanups'[i].state \in Completion
      /\ cleanups'[i].attempts = cleanups[i].attempts
FreedOnlyWhenConfirmed == [][FreedByItsAttempt]_vars
=============================================================================
