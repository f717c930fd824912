------------------------------- MODULE Host -------------------------------
(***************************************************************************)
(* The plugin host (crates/portos-kernel/src/host.rs and host/): plugin    *)
(* processes, the table of their handles, the route table, the list of     *)
(* subscriptions with its event delivery, calls, and the one teardown path *)
(* on which all of them are reclaimed.                                     *)
(*                                                                         *)
(* A row of the ledger is an incarnation of a plugin or a subscription.    *)
(* What the ledger promises of a row (retirement is one transaction, a     *)
(* claim needs that nothing occupies under the row, every executor ends    *)
(* with its target gone) is the subject of Ledger and CleanupRunner and is *)
(* taken from there; here are the locks and tables around it.              *)
(*                                                                         *)
(* Threads are the callers of the public API and one client loop per       *)
(* incarnation.  A step of a thread is what happens between two lock or    *)
(* ledger operations; the lock of the handles, which a spawn keeps over    *)
(* two steps, and that of the serve channel, which a call keeps until it   *)
(* is answered, are state.  A plugin that dies leaves what it had sent:    *)
(* its requests can still be read, only an answer fails.                   *)
(***************************************************************************)
EXTENDS Integers, Sequences, FiniteSets

CONSTANTS
  Names,       \* plugin names
  Verbs,
  Declares,    \* Declares[n]: the sets of verbs that a plugin of this name may declare
  Callers,     \* threads that use the public API
  MaxInc,      \* incarnations spawned altogether
  MaxSubs,     \* subscriptions made altogether
  EventQueue,  \* EVENT_QUEUE
  Ops,         \* API operations that callers use
  Requests,    \* client operations that plugins use
  MaxInputs    \* API operations and requests altogether

ASSUME HostAssumption ==
  /\ Declares \in [Names -> SUBSET SUBSET Verbs]
  /\ Callers \cap Nat = {}
  /\ MaxInc \in Nat /\ MaxSubs \in Nat /\ EventQueue \in Nat \ {0}
  /\ Ops \subseteq {"spawn", "emit", "call", "reclaim", "subscribe", "unsubscribe"}
  /\ Requests \subseteq {"spawn_child", "emit", "invoke", "subscribe", "unsubscribe"}

Incs == 1..MaxInc
Subs == (MaxInc + 1)..(MaxInc + MaxSubs)
Rows == Incs \cup Subs
Threads == Callers \cup Incs
None == 0
Kernel == "kernel"

VARIABLES
  row,       \* of each row: none, active, retiring, running or freed
  parent,    \* the row it is held under, or None
  owner,     \* its subject: a plugin name, or the kernel
  up,        \* the processes that live
  inbox,     \* requests of each incarnation that nobody has read
  queue,     \* events in each incarnation's or local subscriber's queue
  pump,      \* incarnations whose event pump runs
  plugins,   \* the handle under each name: an incarnation, or None
  routes,    \* the plugin name that serves each verb, or "none"
  subs,      \* the subscriptions in the list of the host
  lock,      \* who has the lock of the handles: a thread, or None
  serve,     \* who has the serve channel of each incarnation, or None
  th,        \* the threads
  inputs,    \* API operations and requests so far
  cut        \* history: incarnations that were retired because a channel closed

rowVars == <<row, parent, owner>>
procVars == <<up, inbox, queue, pump, serve>>
tableVars == <<plugins, routes, subs, lock>>
vars == <<rowVars, procVars, tableVars, th, inputs, cut>>

Idle == [at |-> "idle", then |-> "idle", arg |-> None, left |-> {}, jobs |-> <<>>,
         scope |-> {}]
With(q, r) == [f \in DOMAIN q |-> IF f \in DOMAIN r THEN r[f] ELSE q[f]]
Go(t, r) == th' = [th EXCEPT ![t] = With(@, r)]
At(t, pc) == th[t].at = pc
Unlocked == lock = None

Init ==
  /\ row = [r \in Rows |-> "none"] /\ parent = [r \in Rows |-> None]
  /\ owner = [r \in Rows |-> Kernel]
  /\ up = {} /\ inbox = [i \in Incs |-> <<>>] /\ queue = [r \in Rows |-> 0]
  /\ pump = {} /\ serve = [i \in Incs |-> None]
  /\ plugins = [n \in Names |-> None] /\ routes = [v \in Verbs |-> "none"]
  /\ subs = {} /\ lock = None /\ th = [t \in Threads |-> Idle]
  /\ inputs = 0 /\ cut = {}

-----------------------------------------------------------------------------
(* The ledger, as this component uses it.                                  *)
Occupying == {r \in Rows : row[r] \in {"active", "retiring", "running"}}
Children(S) == {r \in Occupying : parent[r] \in S}
(* occupying_closure: what the owner of i has, with all that is held under *)
(* it at any depth.                                                        *)
Closure(i) ==
  LET own == {r \in Occupying : owner[r] = owner[i]}
  IN {r \in Occupying :
        \A S \in SUBSET Occupying : own \subseteq S /\ Children(S) \subseteq S => r \in S}

FreshRow(S) == {r \in S : row[r] = "none" /\ \A q \in S : q < r => row[q] # "none"}
(* Mutant: a parent that still occupies will do.                           *)
MutMayHold(p) == p = None \/ (p \in Rows /\ row[p] \in {"active", "retiring"})
MayHold(p) == p = None \/ (p \in Rows /\ row[p] = "active")
Hold(r, n, p) ==
  /\ row' = [row EXCEPT ![r] = "active"] /\ parent' = [parent EXCEPT ![r] = p]
  /\ owner' = [owner EXCEPT ![r] = n]

Retire(S) == row' = [r \in Rows |-> IF r \in S /\ row[r] = "active" THEN "retiring" ELSE row[r]]
NameOf(t) == IF t \in Incs THEN owner[t] ELSE Kernel

-----------------------------------------------------------------------------
(* Spawning.  The process is started and has said hello; the lock of the   *)
(* handles is taken and kept until the routes stand.  The class of plugin  *)
(* rows is exclusive per name.                                             *)
NameFree(n) == \A i \in Incs : i \in Occupying => owner[i] # n

(* Mutant: the lock is only taken to publish.                              *)
MutLockOf(t) == None
LockOf(t) == t
SpawnHold(t, n, p) ==
  /\ Unlocked
  /\ \/ \E i \in FreshRow(Incs) :
          /\ NameFree(n) /\ MayHold(p)
          /\ Hold(i, n, p)
          /\ up' = up \cup {i} /\ lock' = LockOf(t)
          /\ Go(t, [at |-> "publish", arg |-> i])
     \/ /\ FreshRow(Incs) = {} \/ ~NameFree(n) \/ ~MayHold(p)
        /\ Go(t, [at |-> th[t].then])
        /\ UNCHANGED <<rowVars, up, lock>>
  /\ UNCHANGED <<inbox, queue, pump, serve, plugins, routes, subs, inputs, cut>>

SpawnPublish(t) ==
  LET i == th[t].arg
      n == owner[i]
  IN /\ At(t, "publish")
     /\ lock' = None
     /\ \E declared \in Declares[n] :
        IF \E v \in declared : routes[v] # "none"
        THEN /\ Go(t, [at |-> "jobs", jobs |-> <<[kind |-> "row", of |-> i, why |-> "refused"]>>])
             /\ UNCHANGED <<plugins, routes, pump>>
        ELSE /\ routes' = [v \in Verbs |-> IF v \in declared THEN n ELSE routes[v]]
             /\ plugins' = [plugins EXCEPT ![n] = i] /\ pump' = pump \cup {i}
             /\ th' = [th EXCEPT ![t].at = th[t].then, ![i].at = "read"]
     /\ UNCHANGED <<rowVars, up, inbox, queue, serve, subs, inputs, cut>>

(* The parent of a child plugin, or of a subscription, is whatever stands  *)
(* under the name of the asking client loop by now.                        *)
Lookup(t) ==
  /\ At(t, "lookup_spawn") \/ At(t, "lookup_hold")
  /\ Unlocked
  /\ LET p == plugins[NameOf(t)]
     IN Go(t, IF At(t, "lookup_hold") THEN [at |-> "hold", arg |-> p]
              ELSE IF p = None THEN [at |-> th[t].then] ELSE [at |-> "spawn", arg |-> p])
  /\ UNCHANGED <<rowVars, procVars, tableVars, inputs, cut>>

Spawn(t) == At(t, "spawn") /\ \E n \in Names : SpawnHold(t, n, th[t].arg)

-----------------------------------------------------------------------------
(* Subscriptions and events.                                               *)
Subscribe(t) ==
  /\ At(t, "hold")
  /\ Go(t, [at |-> th[t].then])
  /\ \/ \E s \in FreshRow(Subs) :
          /\ MayHold(th[t].arg)
          /\ Hold(s, NameOf(t), th[t].arg)
          /\ subs' = subs \cup {s}
     \/ /\ FreshRow(Subs) = {} \/ ~MayHold(th[t].arg)
        /\ UNCHANGED <<rowVars, subs>>
  /\ UNCHANGED <<procVars, plugins, routes, lock, inputs, cut>>

Snapshot(t) ==
  /\ At(t, "snapshot")
  /\ Go(t, [at |-> "targets", left |-> subs, jobs |-> <<>>])
  /\ UNCHANGED <<rowVars, procVars, tableVars, inputs, cut>>

CheckTarget(t) ==
  /\ At(t, "targets")
  /\ IF th[t].left = {} THEN Go(t, [at |-> "jobs"])
     ELSE \E s \in th[t].left :
            LET rest == th[t].left \ {s}
            IN IF row[s] = "active" THEN Go(t, [at |-> "send", arg |-> s, left |-> rest])
               ELSE Go(t, [left |-> rest])
  /\ UNCHANGED <<rowVars, procVars, tableVars, inputs, cut>>

(* The queue an event for s goes to: that of the incarnation s is held     *)
(* under, if it still has the name and its pump runs, or the subscriber's. *)
QueueOf(s) ==
  IF owner[s] = Kernel THEN {s} ELSE {i \in pump : plugins[owner[s]] = i /\ parent[s] = i}

Drop(s) == [kind |-> "row", of |-> s, why |-> "dropped"]
Overflow(s) == [kind |-> "name", of |-> owner[s], why |-> "overflow"]

Send(t) ==
  LET s == th[t].arg
      jobs == th[t].jobs
  IN /\ At(t, "send")
     /\ owner[s] # Kernel => Unlocked
     /\ \/ /\ QueueOf(s) = {}
           /\ Go(t, [at |-> "targets", jobs |-> <<Drop(s)>> \o jobs])
           /\ UNCHANGED queue
        \/ \E q \in QueueOf(s) :
             IF queue[q] < EventQueue
             THEN /\ queue' = [queue EXCEPT ![q] = @ + 1]
                  /\ Go(t, [at |-> "targets"])
             ELSE /\ Go(t, [at |-> "targets",
                            jobs |-> IF q = s THEN <<Drop(s)>> \o jobs
                                     ELSE Append(jobs, Overflow(s))])
                  /\ UNCHANGED queue
     /\ UNCHANGED <<rowVars, up, inbox, pump, serve, tableVars, inputs, cut>>

(* The pump of a plugin without an events channel writes to the serve      *)
(* channel, and ends at the first write that fails.                        *)
Pump(i) ==
  /\ i \in pump /\ queue[i] > 0 /\ serve[i] = None
  /\ IF i \in up THEN queue' = [queue EXCEPT ![i] = @ - 1] /\ UNCHANGED pump
     ELSE pump' = pump \ {i} /\ UNCHANGED queue
  /\ UNCHANGED <<rowVars, up, inbox, serve, tableVars, th, inputs, cut>>

Receive(s) ==
  /\ queue[s] > 0 /\ owner[s] = Kernel
  /\ queue' = [queue EXCEPT ![s] = @ - 1]
  /\ UNCHANGED <<rowVars, up, inbox, pump, serve, tableVars, th, inputs, cut>>

-----------------------------------------------------------------------------
(* Calls: the route gives a name, the name a handle, which must be active. *)
Resolve(t) ==
  /\ At(t, "route") /\ Unlocked
  /\ \E v \in Verbs :
       LET h == IF routes[v] = "none" THEN None ELSE plugins[routes[v]]
       IN Go(t, IF h # None /\ row[h] = "active" THEN [at |-> "call", arg |-> h]
                ELSE [at |-> th[t].then])
  /\ UNCHANGED <<rowVars, procVars, tableVars, inputs, cut>>

(* A call that the protocol of the plugin does not allow now, or that      *)
(* cannot be written, fails at once.                                       *)
CallOn(t) ==
  LET h == th[t].arg
  IN /\ At(t, "call") /\ serve[h] = None
     /\ \/ h \in up /\ serve' = [serve EXCEPT ![h] = t] /\ Go(t, [at |-> "reply"])
        \/ UNCHANGED serve /\ Go(t, [at |-> th[t].then])
     /\ UNCHANGED <<rowVars, up, inbox, queue, pump, tableVars, inputs, cut>>

Reply(t) ==
  /\ At(t, "reply")
  /\ serve' = [serve EXCEPT ![th[t].arg] = None]
  /\ Go(t, [at |-> th[t].then])
  /\ UNCHANGED <<rowVars, up, inbox, queue, pump, tableVars, inputs, cut>>

-----------------------------------------------------------------------------
(* Reclaiming.  A job names a plugin, which is looked up, or a row.  The   *)
(* retirement is one transaction.                                          *)
(* Mutant: only the plugin itself is retired, not what it holds.           *)
MutScopeOf(job) == {job.of}
ScopeOf(job) ==
  IF job.of \in Incs /\ job.why # "refused" THEN Closure(job.of) ELSE {job.of}

NextJob(t) ==
  LET rest == Tail(th[t].jobs)
      job == Head(th[t].jobs)
      r == job.of
  IN /\ At(t, "jobs")
     /\ \/ /\ th[t].jobs = <<>> /\ Go(t, [at |-> th[t].then])
           /\ UNCHANGED <<row, cut>>
        \/ /\ th[t].jobs # <<>> /\ job.kind = "name" /\ Unlocked
           /\ Go(t, [jobs |-> IF plugins[r] = None THEN rest
                              ELSE <<[kind |-> "row", of |-> plugins[r], why |-> job.why]>> \o rest])
           /\ UNCHANGED <<row, cut>>
        \/ /\ th[t].jobs # <<>> /\ job.kind = "row" /\ r \notin Occupying
           /\ Go(t, [jobs |-> rest])
           /\ UNCHANGED <<row, cut>>
        \/ /\ th[t].jobs # <<>> /\ job.kind = "row" /\ r \in Occupying
           /\ Retire(ScopeOf(job))
           /\ cut' = IF row[r] = "active" /\ job.why = "closed" THEN cut \cup {r} ELSE cut
           /\ Go(t, [at |-> "cleanup", jobs |-> rest, scope |-> ScopeOf(job)])
     /\ UNCHANGED <<parent, owner, procVars, tableVars, inputs>>

(* The rows a run may work on: those it retired and the retiring rows      *)
(* above them.                                                             *)
ParentsOf(S) == {parent[r] : r \in S} \ {None}
Above(S) ==
  {r \in Rows : \A T \in SUBSET Rows : ParentsOf(S \cup T) \subseteq T => r \in T}
Permitted(S) == {r \in S \cup Above(S) : row[r] = "retiring"}

Claim(t) ==
  LET ready == {r \in Permitted(th[t].scope) : Children({r}) = {}}
  IN /\ At(t, "cleanup")
     /\ \/ \E r \in ready :
             /\ row' = [row EXCEPT ![r] = "running"]
             /\ Go(t, [at |-> "execute", arg |-> r])
        \/ /\ ready = {}
           /\ Go(t, [at |-> "jobs"])
           /\ UNCHANGED row
     /\ UNCHANGED <<parent, owner, procVars, tableVars, inputs, cut>>

(* HostWorld::execute.  The handle, and with it the routes of its name, go *)
(* only if the name still stands for the incarnation that is cleaned.  The *)
(* serve channel is only tried for the polite frame, never waited for.     *)
ExecuteSub(t) ==
  LET s == th[t].arg
  IN /\ At(t, "execute") /\ s \in Subs
     /\ subs' = subs \ {s}
     /\ Go(t, [at |-> "finish"])
     /\ UNCHANGED <<rowVars, procVars, plugins, routes, lock, inputs, cut>>

ExecutePlugin(t) ==
  LET i == th[t].arg
      n == owner[i]
  IN /\ At(t, "execute") /\ i \in Incs /\ Unlocked
     /\ up' = up \ {i}
     /\ IF plugins[n] = i
        THEN /\ routes' = [v \in Verbs |-> IF routes[v] = n THEN "none" ELSE routes[v]]
             /\ plugins' = [plugins EXCEPT ![n] = None]
        ELSE UNCHANGED <<routes, plugins>>
     /\ Go(t, [at |-> "finish"])
     /\ UNCHANGED <<rowVars, inbox, queue, pump, serve, subs, lock, inputs, cut>>

Finish(t) ==
  /\ At(t, "finish")
  /\ row' = [row EXCEPT ![th[t].arg] = "freed"]
  /\ Go(t, [at |-> "cleanup", arg |-> None])
  /\ UNCHANGED <<parent, owner, procVars, tableVars, inputs, cut>>

-----------------------------------------------------------------------------
(* The entry points: what a thread does first for each operation.          *)
Own(t) == {s \in subs : owner[s] = NameOf(t)}
ByName(n) == <<[kind |-> "name", of |-> n, why |-> "asked"]>>
Enter(t, op, back) ==
  \/ op = "emit" /\ Go(t, [at |-> "snapshot", then |-> back])
  \/ op \in {"call", "invoke"} /\ Go(t, [at |-> "route", then |-> back])
  \/ op = "spawn" /\ Go(t, [at |-> "spawn", arg |-> None, then |-> back])
  \/ op = "spawn_child" /\ Go(t, [at |-> "lookup_spawn", then |-> back])
  \/ /\ op = "subscribe"
     /\ Go(t, [at |-> IF t \in Incs THEN "lookup_hold" ELSE "hold", arg |-> None, then |-> back])
  \/ /\ op = "reclaim"
     /\ \E n \in Names : Go(t, [at |-> "jobs", jobs |-> ByName(n), then |-> back])
  \/ /\ op = "unsubscribe"
     /\ \/ Own(t) = {} /\ Go(t, [at |-> "jobs", jobs |-> <<>>, then |-> back])
        \/ \E s \in Own(t) : Go(t, [at |-> "jobs", jobs |-> <<Drop(s)>>, then |-> back])

Begin(c) ==
  /\ At(c, "idle") /\ inputs < MaxInputs
  /\ inputs' = inputs + 1
  /\ \E op \in Ops : Enter(c, op, "idle")
  /\ UNCHANGED <<rowVars, procVars, tableVars, cut>>

(* A plugin writes a request to its client channel, or dies.               *)
Ask(i) ==
  /\ i \in up /\ inbox[i] = <<>> /\ inputs < MaxInputs
  /\ inputs' = inputs + 1
  /\ \E op \in Requests : inbox' = [inbox EXCEPT ![i] = <<op>>]
  /\ UNCHANGED <<rowVars, up, queue, pump, serve, tableVars, th, cut>>

Die(i) ==
  /\ i \in up
  /\ up' = up \ {i}
  /\ UNCHANGED <<rowVars, inbox, queue, pump, serve, tableVars, th, inputs, cut>>

(* handle_client_op: a retiring plugin may only let go, and some requests  *)
(* need a capability, or a place in the slot's row, that may be missing.   *)
Gated == {"invoke", "spawn_child"}
Retiring(i) == LET h == plugins[owner[i]] IN h # None /\ row[h] # "active"
Read(i) ==
  LET op == Head(inbox[i])
  IN /\ At(i, "read") /\ inbox[i] # <<>> /\ Unlocked
     /\ inbox' = [inbox EXCEPT ![i] = Tail(@)]
     /\ \/ /\ op \in Gated \/ (Retiring(i) /\ op # "unsubscribe")
           /\ Go(i, [at |-> "respond"])
        \/ /\ ~Retiring(i) \/ op = "unsubscribe"
           /\ Enter(i, op, "respond")
     /\ UNCHANGED <<rowVars, up, queue, pump, serve, tableVars, inputs, cut>>

(* The answer.  A client loop that cannot write it ends, and reclaims      *)
(* nothing.                                                                *)
Respond(i) ==
  /\ At(i, "respond")
  /\ Go(i, [at |-> IF i \in up THEN "read" ELSE "gone"])
  /\ UNCHANGED <<rowVars, procVars, tableVars, inputs, cut>>

(* Mutant: the loop reclaims whatever has its name now.                    *)
MutClosed(i) ==
  /\ At(i, "read") /\ inbox[i] = <<>> /\ i \notin up
  /\ Go(i, [at |-> "jobs", then |-> "gone",
            jobs |-> <<[kind |-> "name", of |-> owner[i], why |-> "closed"]>>])
  /\ UNCHANGED <<rowVars, procVars, tableVars, inputs, cut>>

Closed(i) ==
  /\ At(i, "read") /\ inbox[i] = <<>> /\ i \notin up
  /\ Go(i, [at |-> "jobs", then |-> "gone",
            jobs |-> <<[kind |-> "row", of |-> i, why |-> "closed"]>>])
  /\ UNCHANGED <<rowVars, procVars, tableVars, inputs, cut>>

-----------------------------------------------------------------------------
Teardown(t) == NextJob(t) \/ Claim(t) \/ ExecuteSub(t) \/ ExecutePlugin(t) \/ Finish(t)
Work(t) ==
  \/ Spawn(t) \/ SpawnPublish(t) \/ Lookup(t) \/ Subscribe(t) \/ Snapshot(t)
  \/ CheckTarget(t) \/ Send(t) \/ Resolve(t) \/ CallOn(t) \/ Teardown(t)
Next ==
  \/ \E t \in Threads : Work(t) \/ Reply(t)
  \/ \E c \in Callers : Begin(c)
  \/ \E i \in Incs : Read(i) \/ Respond(i) \/ Closed(i) \/ Ask(i) \/ Die(i) \/ Pump(i)
  \/ \E s \in Subs : Receive(s)

Spec == Init /\ [][Next]_vars

(* Threads run.  A plugin need not answer, ask, read events or die; a call *)
(* ends for sure only when the plugin it waits for is dead.                *)
Runs(t) ==
  \/ Work(t)
  \/ Reply(t) /\ th[t].arg \notin up
  \/ t \in Incs /\ (Read(t) \/ Respond(t) \/ Closed(t))
Fairness == \A t \in Threads : WF_vars(Runs(t))
FairSpec == Spec /\ Fairness

-----------------------------------------------------------------------------
(* What the ledger calls freed is gone: no process, no handle, no entry in *)
(* the list, and nobody routes to a name without a handle                  *)
(* (lifecycle.rs, "Serialize publication with cleanup").                   *)
FreedLeavesNothing ==
  /\ \A i \in Incs : row[i] = "freed" => i \notin up /\ plugins[owner[i]] # i
  /\ \A s \in Subs : row[s] = "freed" => s \notin subs
  /\ Unlocked => \A v \in Verbs : routes[v] # "none" => plugins[routes[v]] # None

(* Nothing is taken up under a row that is going, whoever asked and        *)
(* whatever its client loop looked up before (spawn_plugin, subscribe).    *)
NothingUnderRetiring ==
  \A r \in Rows : row[r] = "active" /\ parent[r] # None => row[parent[r]] = "active"

(* A client channel that closes takes down the incarnation it belonged to, *)
(* never a successor of the same name (spawn_client_loop passes its own    *)
(* holding).                                                               *)
ClosedMeansDead == \A i \in Incs : i \in cut => i \notin up

(* A row that began to retire is freed, even if its plugin sits on a call  *)
(* it never answers; and an incarnation that dies while its client loop    *)
(* waits, with nothing left to read, is reclaimed with all that is held    *)
(* under it, whoever else reclaims, spawns or subscribes meanwhile.        *)
ReclaimEnds ==
  \A i \in Incs :
    \/ row[i] = "retiring"
    \/ i \notin up /\ At(i, "read") /\ inbox[i] = <<>>
    ~> row[i] = "freed"

(* A plugin that went away, by exit or crash, is reclaimed (client.rs).    *)
CrashIsReclaimed == \A i \in Incs : row[i] = "active" /\ i \notin up ~> row[i] = "freed"
=============================================================================
