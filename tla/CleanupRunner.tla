--------------------------- MODULE CleanupRunner ---------------------------
(***************************************************************************)
(* The retirement path of crates/portos-kernel/src/ledger/cleanup.rs: an   *)
(* intent is committed, a task is claimed, the world is acted on without   *)
(* any lock, and a result that is checked against the claimed record is    *)
(* committed.  Runners are threads of processes and interleave between     *)
(* their transactions; a process may die at any point.                     *)
(*                                                                         *)
(* Processes share one database.  Each has the ledger in memory and its    *)
(* transactions are refused for good once another process has committed    *)
(* one (LedgerStore::transaction), so a second kernel that opens a root    *)
(* puts the first one aside, whose executors still act.                    *)
(*                                                                         *)
(* The ledger's part of each step is an action of Ledger.  A session is a  *)
(* random name; Fresh picks one that nobody remembers, which is what the   *)
(* 128 random bits are for.  Time stands still: a lease of the seed has    *)
(* run out or goes on, so that a sweep may come before or after the rest.  *)
(***************************************************************************)
EXTENDS Ledger

CONSTANTS
  Runner,      \* threads that run cleanup
  Process,
  ProcessOf,   \* ProcessOf[r]: the process of runner r
  Sweeper,     \* the runner that sweeps in a loop (Host::start_sweeper)
  NoProcess,
  Seed,        \* the ledger rows the runners start from
  MaxFaults    \* crashes, failures and openings beside an open kernel altogether

(* Threads belong to processes, and an executor that is done says so. *)
ASSUME RunnerAssumption ==
  /\ Sweeper \in Runner
  /\ ProcessOf \in [Runner -> Process]
  /\ NoProcess \notin Process
  /\ Completion \subseteq Outcome

(* The runners start from rows that were granted and never retired. *)
ASSUME SeedAssumption ==
  /\ Seed.next_id \in 0 .. MaxId
  /\ Seed.capacities \in [Pool -> Frag \cup {NoPool}]
  /\ Seed.holdings \in [0 .. Seed.next_id - 1 -> Holding]
  /\ \A i \in 0 .. Seed.next_id - 1 :
       /\ Seed.holdings[i].state = "active"
       /\ Seed.holdings[i].parent < i
       /\ Seed.holdings[i].lease.kind = "parent_bound" => Seed.holdings[i].parent # NoParent

VARIABLES
  present,     \* the targets that exist in the world
  pc,          \* where each runner is
  scope,       \* the holdings its request named; Id for all
  permitted,   \* those it may work on in this pass
  todo,        \* the tasks it listed and has not visited in this pass
  attempted,   \* the tasks its run has attempted
  progress,    \* whether a task was completed in this pass
  observed,    \* the Running records it saw when it started
  session,     \* the session of its run
  task,        \* the holding and the claimed work it acts for
  outcome,     \* what its executor reported
  home,        \* the process of each session, NoProcess once it died
  store,       \* of each process: closed, opening or open
  behind,      \* the processes whose ledger another one has changed
  faults,      \* faults so far
  refused      \* whether some run ended on a StaleAttempt

ledgerVars == vars
runnerVars ==
  <<pc, scope, permitted, todo, attempted, progress, observed, session, task, outcome>>
stores == <<store, behind>>
runVars == <<ledgerVars, runnerVars, stores, present, home, faults, refused>>

NoTask == [holding |-> NoParent, work |-> [attempts |-> 0, worker |-> NoWorker]]
Unfinished(i) == cleanups[i].state \in Claimable \cup {"running"}
InRun(r) == pc[r] \in {"permit", "list", "visit", "execute", "finish", "unwind"}
Live(w) == \E r \in Runner : InRun(r) /\ session[r] = w
RunningTasks ==
  {[holding |-> i, work |-> [attempts |-> cleanups[i].attempts, worker |-> cleanups[i].worker]] :
     i \in {j \in Issued : cleanups[j].state = "running"}}

Remembered(w) ==
  \/ Live(w)
  \/ \E i \in Issued : cleanups[i].worker = w
  \/ \E r \in Runner : \E e \in observed[r] : e.work.worker = w
Fresh == {w \in Worker : ~ Remembered(w)}

(* What an ended run leaves behind: nothing but its durable records. *)
Idle(R) ==
  /\ pc' = [r \in Runner |-> IF r \in R THEN "idle" ELSE pc[r]]
  /\ scope' = [r \in Runner |-> IF r \in R THEN {} ELSE scope[r]]
  /\ permitted' = [r \in Runner |-> IF r \in R THEN {} ELSE permitted[r]]
  /\ todo' = [r \in Runner |-> IF r \in R THEN {} ELSE todo[r]]
  /\ attempted' = [r \in Runner |-> IF r \in R THEN {} ELSE attempted[r]]
  /\ progress' = [r \in Runner |-> IF r \in R THEN FALSE ELSE progress[r]]
  /\ observed' = [r \in Runner |-> IF r \in R THEN {} ELSE observed[r]]
  /\ session' = [r \in Runner |-> IF r \in R THEN NoWorker ELSE session[r]]
  /\ task' = [r \in Runner |-> IF r \in R THEN NoTask ELSE task[r]]
  /\ outcome' = [r \in Runner |-> IF r \in R THEN "unknown" ELSE outcome[r]]

----------------------------------------------------------------------------
RunnerInit ==
  /\ capacities = Seed.capacities
  /\ holdings = Seed.holdings
  /\ next_id = Seed.next_id
  /\ cleanups = [i \in Issued |-> NoCleanup]
  /\ instantiations = [s \in Subject |-> s]
  /\ now = 0
  /\ present = {t \in Target : PolicyOf[t] # AccountingOnly}
  /\ pc = [r \in Runner |-> "idle"]
  /\ scope = [r \in Runner |-> {}]
  /\ permitted = [r \in Runner |-> {}]
  /\ todo = [r \in Runner |-> {}]
  /\ attempted = [r \in Runner |-> {}]
  /\ progress = [r \in Runner |-> FALSE]
  /\ observed = [r \in Runner |-> {}]
  /\ session = [r \in Runner |-> NoWorker]
  /\ task = [r \in Runner |-> NoTask]
  /\ outcome = [r \in Runner |-> "unknown"]
  /\ home = [w \in Worker |-> NoProcess]
  /\ store = [p \in Process |-> IF p = ProcessOf[Sweeper] THEN "open" ELSE "closed"]
  /\ behind = {}
  /\ faults = 0
  /\ refused = FALSE

(* A transaction that changes nothing commits a revision too. *)
Current(r) == ProcessOf[r] \notin behind
Commits(p) == behind' = (behind \ {p}) \cup {q \in Process \ {p} : store[q] # "closed"}

(* A run ends, and with it the opening of the store it may belong to. *)
Ends(r, s) ==
  /\ Idle({r})
  /\ store' = [store EXCEPT ![ProcessOf[r]] = IF @ = "opening" THEN s ELSE @]
  /\ UNCHANGED <<present, home>>

(* The request of each entry point, in a transaction of its own. *)
Requested(r, next, S) ==
  /\ pc[r] = "idle"
  /\ store[ProcessOf[r]] = "open" /\ Current(r)
  /\ Commits(ProcessOf[r])
  /\ pc' = [pc EXCEPT ![r] = next]
  /\ scope' = [scope EXCEPT ![r] = S]
  /\ UNCHANGED <<permitted, todo, attempted, progress, observed, session, task, outcome,
                 present, store, home, faults, refused>>

RetireAny(S) == IF S = {} THEN UNCHANGED ledgerVars ELSE Retire(S)

(* Mutant: a sweep sees to nothing but what it has retired itself. *)
MutBeginSweep(r) == RetireAny(Due) /\ Requested(r, "recover", Due)

(* sweep_with_world: what is due, then everything that is left to do. *)
BeginSweep(r) == RetireAny(Due) /\ Requested(r, "recover", Id)

(* open and reconcile_on_open: nothing of the world that the ledger        *)
(* remembers is taken over by a kernel that opens it.                      *)
BeginOpen(r) ==
  LET p == ProcessOf[r] IN
  /\ store[p] = "closed"
  /\ \A q \in Runner : ProcessOf[q] = p => pc[q] = "idle"
  /\ IF \A q \in Process : store[q] = "closed"
       THEN UNCHANGED faults
       ELSE faults < MaxFaults /\ faults' = faults + 1
  /\ RetireAny(Due \cup BoundClosure({i \in Active : IsManaged(i)}))
  /\ store' = [store EXCEPT ![p] = "opening"]
  /\ Commits(p)
  /\ pc' = [pc EXCEPT ![r] = "recover"]
  /\ scope' = [scope EXCEPT ![r] = Id]
  /\ UNCHANGED <<permitted, todo, attempted, progress, observed, session, task, outcome,
                 present, home, refused>>

(* release_with_world; asking again of a retiring holding is no change. *)
BeginRelease(r, i) ==
  /\ IF IsActive(i) THEN RequestRetirement(i) ELSE UNCHANGED ledgerVars
  /\ Requested(r, "requested", {i})

(* teardown, teardown_holding and, for the owner of a plugin's row that    *)
(* still occupies, teardown_owner_incarnation.                             *)
OwnedClosure(s) == OccupyingClosure({i \in Occupying : holdings[i].subject = s})
BeginTearing(r, rows) == RetireAny(rows \cap Active) /\ Requested(r, "recover", rows)

BeginTeardown(r, s) == BeginTearing(r, OwnedClosure(s))
BeginTeardownHolding(r, i) == BeginTearing(r, OccupyingClosure({i} \cap Occupying))
BeginReclaim(r, i) ==
  BeginTearing(r, IF Occupies(i) THEN OwnedClosure(holdings[i].subject) ELSE {})

(* release_with_world reads its scope after the request was committed. *)
ReadScope(r) ==
  /\ pc[r] = "requested"
  /\ scope' = [scope EXCEPT ![r] =
                 @ \cup {c \in OccupyingClosure(@ \cap Occupying) : ~ IsActive(c)}]
  /\ pc' = [pc EXCEPT ![r] = "recover"]
  /\ UNCHANGED <<ledgerVars, stores, permitted, todo, attempted, progress, observed, session,
                 task, outcome, present, home, faults, refused>>

----------------------------------------------------------------------------
(* recover_workers: a list of the Running records, then one by one those   *)
(* whose worker is gone.  A session of this process is gone when its run   *)
(* is over, one of another process only when that process is.              *)
Observe(r) ==
  /\ pc[r] = "recover"
  /\ observed' = [observed EXCEPT ![r] = RunningTasks]
  /\ pc' = [pc EXCEPT ![r] = "recovering"]
  /\ UNCHANGED <<ledgerVars, stores, scope, permitted, todo, attempted, progress, session, task,
                 outcome, present, home, faults, refused>>

(* Mutants: a worker at work in this process is taken for gone, or one at  *)
(* work in another process.                                                *)
MutGoneHere(r, w) == home[w] # ProcessOf[r] => home[w] = NoProcess
MutGoneElsewhere(r, w) == home[w] = ProcessOf[r] => ~ Live(w)
Gone(r, w) == IF home[w] = ProcessOf[r] THEN ~ Live(w) ELSE home[w] = NoProcess

Recover(r, e) ==
  /\ pc[r] = "recovering"
  /\ e \in observed[r]
  /\ Gone(r, e.work.worker)
  /\ Abandon(e.holding, e.work)
  /\ Current(r) /\ Commits(ProcessOf[r])
  /\ observed' = [observed EXCEPT ![r] = @ \ {e}]
  /\ UNCHANGED <<pc, scope, permitted, todo, attempted, progress, session, task, outcome,
                 present, store, home, faults, refused>>

LeaveAlone(r, e) ==
  /\ pc[r] = "recovering"
  /\ e \in observed[r]
  /\ ~ Gone(r, e.work.worker)
  /\ observed' = [observed EXCEPT ![r] = @ \ {e}]
  /\ UNCHANGED <<ledgerVars, stores, pc, scope, permitted, todo, attempted, progress, session,
                 task, outcome, present, home, faults, refused>>

(* The record moved on since it was listed: StaleAttempt ends the call. *)
RecoverStale(r, e) ==
  /\ pc[r] = "recovering"
  /\ e \in observed[r]
  /\ Gone(r, e.work.worker)
  /\ cleanups[e.holding] # RunningAs(e.work)
  /\ Ends(r, "closed")
  /\ refused' = TRUE
  /\ UNCHANGED <<ledgerVars, behind, faults>>

StartRun(r, w) ==
  /\ pc[r] = "recovering"
  /\ observed[r] = {}
  /\ session' = [session EXCEPT ![r] = w]
  /\ home' = [v \in Worker |-> IF v = w THEN ProcessOf[r]
                                ELSE IF v \in Fresh THEN NoProcess ELSE home[v]]
  /\ pc' = [pc EXCEPT ![r] = "permit"]
  /\ UNCHANGED <<ledgerVars, stores, scope, permitted, todo, attempted, progress, observed, task,
                 outcome, present, faults, refused>>

----------------------------------------------------------------------------
(* One pass: the scope with its retiring ancestors, then the unfinished    *)
(* tasks, two reads with room between them.                                *)
Ancestor(a, i) == a # i /\ i \in Closure({a}, Issued)
RetiringAncestors(S) ==
  {a \in Issued : holdings[a].state = "retiring" /\ \E i \in S \cap Issued : Ancestor(a, i)}

(* Mutant: an ancestor is left to the request that retired it. *)
MutPermitted(S) == S
Permitted(S) == S \cup RetiringAncestors(S)

Permit(r) ==
  /\ pc[r] = "permit"
  /\ permitted' = [permitted EXCEPT ![r] = Permitted(scope[r])]
  /\ pc' = [pc EXCEPT ![r] = "list"]
  /\ UNCHANGED <<ledgerVars, stores, scope, todo, attempted, progress, observed, session, task,
                 outcome, present, home, faults, refused>>

List(r) ==
  /\ pc[r] = "list"
  /\ todo' = [todo EXCEPT ![r] = {i \in permitted[r] \cap Issued : Unfinished(i)}]
  /\ pc' = [pc EXCEPT ![r] = "visit"]
  /\ UNCHANGED <<ledgerVars, stores, scope, permitted, attempted, progress, observed, session,
                 task, outcome, present, home, faults, refused>>

CanClaim(i) ==
  /\ cleanups[i].state \in Claimable
  /\ holdings[i].state = "retiring"
  /\ OccupyingChildren(i) = {}

(* A task that was attempted in this run, or cannot be claimed now. *)
Skip(r, i) ==
  /\ pc[r] = "visit"
  /\ i \in todo[r]
  /\ \/ i \in attempted[r] /\ UNCHANGED behind
     \/ i \notin attempted[r] /\ ~ CanClaim(i) /\ Current(r) /\ Commits(ProcessOf[r])
  /\ todo' = [todo EXCEPT ![r] = @ \ {i}]
  /\ UNCHANGED <<ledgerVars, pc, scope, permitted, attempted, progress, observed, session,
                 task, outcome, present, store, home, faults, refused>>

Visit(r, i) ==
  /\ pc[r] = "visit"
  /\ i \in todo[r] \ attempted[r]
  /\ Claim(i, session[r])
  /\ Current(r) /\ Commits(ProcessOf[r])
  /\ task' = [task EXCEPT ![r] =
       [holding |-> i, work |-> [attempts |-> cleanups'[i].attempts, worker |-> session[r]]]]
  /\ todo' = [todo EXCEPT ![r] = @ \ {i}]
  /\ attempted' = [attempted EXCEPT ![r] = @ \cup {i}]
  /\ pc' = [pc EXCEPT ![r] = "execute"]
  /\ UNCHANGED <<scope, permitted, progress, observed, session, outcome, present, store, home,
                 faults, refused>>

(* world.execute, on the committed claim and outside every lock.  What has *)
(* no target is done without the world; a target is gone when this says    *)
(* so; a fault may remove it and still not know.                           *)
TargetOf(r) == holdings[task[r].holding].target
Reported(r, o, P) ==
  /\ outcome' = [outcome EXCEPT ![r] = o]
  /\ present' = P
  /\ pc' = [pc EXCEPT ![r] = "finish"]
  /\ UNCHANGED <<ledgerVars, stores, scope, permitted, todo, attempted, progress, observed,
                 session, task, home, refused>>

(* Mutant: a termination that was only requested is reported as done. *)
MutRemoved(r) == present
Removed(r) == present \ {TargetOf(r)}

Execute(r) ==
  /\ pc[r] = "execute"
  /\ Reported(r, IF TargetOf(r) \in present \/ ~ IsManaged(task[r].holding)
                   THEN "confirmed" ELSE "already_absent", Removed(r))
  /\ UNCHANGED faults

ExecuteFails(r) ==
  /\ faults < MaxFaults
  /\ pc[r] = "execute"
  /\ IsManaged(task[r].holding)
  /\ \E o \in Outcome \cap Failure, P \in {present, present \ {TargetOf(r)}} : Reported(r, o, P)
  /\ faults' = faults + 1

(* The executor unwinds; the run ends and takes its thread with it, so this *)
(* is not modelled for the sweeper.                                         *)
Panic(r) ==
  /\ faults < MaxFaults
  /\ r # Sweeper
  /\ pc[r] = "execute"
  /\ IsManaged(task[r].holding)
  /\ pc' = [pc EXCEPT ![r] = "unwind"]
  /\ faults' = faults + 1
  /\ UNCHANGED <<ledgerVars, stores, scope, permitted, todo, attempted, progress, observed,
                 session, task, outcome, present, home, refused>>

IsCurrent(r) == cleanups[task[r].holding] = RunningAs(task[r].work)

(* finish_cleanup, or StaleAttempt when the record is not the claimed one. *)
Commit(r) ==
  /\ pc[r] = "finish"
  /\ Current(r)
  /\ IF IsCurrent(r)
       THEN /\ Finish(task[r].holding, task[r].work, outcome[r])
            /\ progress' = [progress EXCEPT ![r] = @ \/ outcome[r] \in Completion]
            /\ pc' = [pc EXCEPT ![r] = "visit"]
            /\ task' = [task EXCEPT ![r] = NoTask]
            /\ outcome' = [outcome EXCEPT ![r] = "unknown"]
            /\ Commits(ProcessOf[r])
            /\ UNCHANGED <<scope, permitted, todo, attempted, observed, session, present, store,
                           home, refused>>
       ELSE /\ Ends(r, "closed")
            /\ refused' = TRUE
            /\ UNCHANGED <<ledgerVars, behind>>
  /\ UNCHANGED faults

(* The storage refuses a statement, or the commit itself, after which this *)
(* process can commit nothing more: the run ends, its record stays.        *)
CommitFails(r) ==
  /\ faults < MaxFaults
  /\ pc[r] \in {"finish", "unwind"}
  /\ Ends(r, "closed")
  /\ behind' \in {behind, behind \cup {ProcessOf[r]}}
  /\ faults' = faults + 1
  /\ UNCHANGED <<ledgerVars, refused>>

Unwind(r) ==
  /\ pc[r] = "unwind"
  /\ Current(r)
  /\ IF IsCurrent(r)
       THEN Finish(task[r].holding, task[r].work, "unknown") /\ Commits(ProcessOf[r])
       ELSE UNCHANGED <<ledgerVars, behind>>
  /\ Ends(r, "closed")
  /\ UNCHANGED <<faults, refused>>

(* A process that was put aside can neither read nor write its ledger any  *)
(* more: the run ends as soon as it tries to.                              *)
Fenced(r) ==
  /\ ~ Current(r)
  /\ pc[r] \notin {"idle", "execute"}
  /\ Ends(r, "closed")
  /\ UNCHANGED <<ledgerVars, behind, faults, refused>>

EndPass(r) ==
  /\ pc[r] = "visit"
  /\ todo[r] = {}
  /\ IF progress[r]
       THEN /\ pc' = [pc EXCEPT ![r] = "permit"]
            /\ permitted' = [permitted EXCEPT ![r] = {}]
            /\ progress' = [progress EXCEPT ![r] = FALSE]
            /\ UNCHANGED <<scope, todo, attempted, observed, session, task, outcome, present,
                           store, home>>
       ELSE Ends(r, "open")
  /\ UNCHANGED <<ledgerVars, behind, faults, refused>>

----------------------------------------------------------------------------
RunnersOf(p) == {r \in Runner : ProcessOf[r] = p}
Died(p) ==
  /\ home' = [w \in Worker |-> IF home[w] = p THEN NoProcess ELSE home[w]]
  /\ store' = [store EXCEPT ![p] = "closed"]
  /\ behind' = behind \ {p}

(* A process dies with all its threads, wherever they are. *)
Crash(p) ==
  /\ faults < MaxFaults
  /\ \E r \in RunnersOf(p) : pc[r] # "idle"
  /\ Idle(RunnersOf(p))
  /\ Died(p)
  /\ faults' = faults + 1
  /\ UNCHANGED <<ledgerVars, present, refused>>

(* A process with nothing left to do exits: a command is a process. *)
Exit(p) ==
  /\ \A r \in RunnersOf(p) : pc[r] = "idle"
  /\ store[p] # "closed" \/ \E w \in Worker : home[w] = p
  /\ Died(p)
  /\ UNCHANGED <<ledgerVars, runnerVars, present, faults, refused>>

(* The thing behind a holding goes away on its own. *)
Vanish ==
  /\ \E t \in present : present' = present \ {t}
  /\ UNCHANGED <<ledgerVars, runnerVars, stores, home, faults, refused>>

RunStep(r) ==
  \/ Fenced(r)
  \/ ReadScope(r)
  \/ Observe(r)
  \/ \E e \in observed[r] : Recover(r, e) \/ LeaveAlone(r, e) \/ RecoverStale(r, e)
  \/ \E w \in Fresh : (\A v \in Fresh : w <= v) /\ StartRun(r, w)
  \/ Permit(r)
  \/ List(r)
  \/ \E i \in todo[r] : Skip(r, i) \/ Visit(r, i)
  \/ Execute(r)
  \/ Commit(r)
  \/ Unwind(r)
  \/ EndPass(r)

Begin(r) ==
  \/ r = Sweeper /\ BeginSweep(r)
  \/ BeginOpen(r)
  \/ r # Sweeper /\ \E i \in Issued :
       BeginRelease(r, i) \/ BeginTeardownHolding(r, i) \/ BeginReclaim(r, i)
  \/ r # Sweeper /\ \E s \in Subject : BeginTeardown(r, s)

Fault ==
  \/ \E r \in Runner : ExecuteFails(r) \/ Panic(r) \/ CommitFails(r)
  \/ \E p \in Process : Crash(p)
  \/ Vanish

RunnerNext ==
  \/ \E r \in Runner : RunStep(r) \/ Begin(r)
  \/ \E p \in Process : Exit(p)
  \/ Fault

RunnerSpec == RunnerInit /\ [][RunnerNext]_runVars

(* Threads run and the sweeper's loop comes round again.  Commands end,    *)
(* and the process that sweeps is started again when it was put aside.     *)
(* Nothing is assumed of requests, and faults are bounded.                 *)
Fairness ==
  /\ \A r \in Runner : WF_runVars(RunStep(r))
  /\ WF_runVars(BeginSweep(Sweeper)) /\ WF_runVars(BeginOpen(Sweeper))
  /\ \A p \in Process :
       IF p = ProcessOf[Sweeper] THEN WF_runVars(Exit(p)) ELSE SF_runVars(Exit(p))

FairSpec == RunnerSpec /\ Fairness

----------------------------------------------------------------------------
(* While an executor acts, the attempt it acts for is the one on record:   *)
(* its row is retiring, no recovery took the task away and no other runner *)
(* acts for it.  So no executor outlives its claim and removes what a      *)
(* later holding of the same name owns, and no result comes too late.      *)
AttemptIsOurs ==
  \A r \in Runner : task[r] # NoTask =>
    /\ IsCurrent(r)
    /\ holdings[task[r].holding].state = "retiring"
    /\ \A q \in Runner \ {r} : task[q].holding # task[r].holding

(* A managed holding is accounted free only when its target is gone, and   *)
(* stays gone: no crash, failed commit or retry frees it on a guess.       *)
FreedMeansGone ==
  \A i \in Issued :
    IsManaged(i) /\ holdings[i].state = "retired" => holdings[i].target \notin present

(* Cleanup works from the leaves: an executor takes a target away only     *)
(* when every target that hung under it is gone.                           *)
ChildrenGoFirst ==
  [][\A r \in Runner : pc[r] = "execute" /\ pc'[r] \in {"finish", "unwind"} =>
       \A c \in Issued : Ancestor(task[r].holding, c) => ~ Occupies(c)]_runVars

(* A run that completes a task also wakes what waited for it, whoever's    *)
(* request that was: when every run is over, nothing failed and no call was *)
(* refused as stale, no task is left that could have been attempted.       *)
NoneLeftBehind ==
  faults = 0 /\ ~ refused /\ (\A r \in Runner : pc[r] = "idle") => \A i \in Issued : ~ CanClaim(i)

(* A request is carried through.  Whatever retires is in the end accounted *)
(* free, unless something usable whose lease goes on still hangs under it: *)
(* after crashes, lost commits and failed attempts alike.                  *)
Reclaimed ==
  \A i \in Id :
    (i \in Issued /\ holdings[i].state = "retiring")
      ~> (holdings[i].state = "retired" \/ \E c \in Active : Ancestor(i, c) /\ ~ Expired(c))
=============================================================================
