---------------------------- MODULE HostProofs ----------------------------
(***************************************************************************)
(* Proofs about Host, for any names, verbs, callers and bounds: what the   *)
(* ledger calls freed is gone from the process table, the handles, the     *)
(* routes and the list of subscriptions; nothing is active under a row     *)
(* that is going; and a closed channel takes down its own incarnation.     *)
(***************************************************************************)
EXTENDS Host, SequenceTheorems, TLAPS

Places ==
  {"idle", "publish", "lookup_spawn", "lookup_hold", "spawn", "hold", "snapshot", "targets",
   "send", "route", "call", "reply", "jobs", "cleanup", "execute", "finish", "read", "respond",
   "gone"}
Jobs ==
  [kind : {"row"}, of : Rows, why : {"refused", "dropped", "asked", "overflow", "closed"}]
    \cup [kind : {"name"}, of : Names, why : {"asked", "overflow"}]
ThreadType ==
  [at : Places, then : {"idle", "respond", "gone"}, arg : Rows \cup {None}, left : SUBSET Subs,
   jobs : Seq(Jobs), scope : SUBSET Rows]

TypeOK ==
  /\ row \in [Rows -> {"none", "active", "retiring", "running", "freed"}]
  /\ parent \in [Rows -> Incs \cup {None}] /\ owner \in [Rows -> Names \cup {Kernel}]
  /\ up \in SUBSET Incs /\ subs \in SUBSET Subs /\ cut \in SUBSET Incs
  /\ plugins \in [Names -> Incs \cup {None}] /\ routes \in [Verbs -> Names \cup {"none"}]
  /\ th \in [Threads -> ThreadType]

(* The client loop of an incarnation starts when its handle is published. *)
Published(i) == th[i].at # "idle"

IncHolds(i) ==
  /\ i \in up => i \in Occupying
  /\ i \in cut => i \notin up /\ row[i] # "none"
  /\ \A n \in Names : plugins[n] = i => owner[i] = n /\ i \in Occupying /\ Published(i)
  /\ Published(i) => row[i] # "none"
  /\ row[i] # "none" => owner[i] \in Names

RowHolds(r) ==
  /\ r \in subs => r \in Occupying
  /\ parent[r] # None => Published(parent[r])
  /\ row[r] = "active" /\ parent[r] # None => row[parent[r]] = "active"

Routed == \A v \in Verbs : routes[v] # "none" => plugins[routes[v]] # None

(* A job of the list that names a row.                                    *)
JobHolds(j) ==
  j.kind = "row" =>
    /\ j.of \in Incs => row[j.of] # "none"
    /\ j.why = "closed" => j.of \in Incs \ up
    /\ j.why = "refused" => j.of \in Incs /\ ~ Published(j.of)

(* The row that thread q works on.                                        *)
Gone(r) == r \notin subs \cup up /\ \A n \in Names : plugins[n] # r
Holds(t, q) ==
  /\ q.at \in {"execute", "finish"} => q.arg \in Rows /\ row[q.arg] = "running"
  /\ q.at = "finish" => Gone(q.arg)
  /\ q.at = "publish" =>
       /\ lock = t /\ q.arg \in Incs \cap Occupying
       /\ ~ Published(q.arg) /\ owner[q.arg] \in Names
  /\ q.at \in {"spawn", "hold"} => q.arg = None \/ (q.arg \in Incs /\ Published(q.arg))
  /\ q.at = "send" => q.arg \in Subs
  /\ q.at \in {"lookup_spawn", "lookup_hold"} => t \in Incs
  /\ t \in Incs /\ q.at \notin {"idle", "read", "respond", "gone"} => q.then # "idle"
  /\ \A k \in 1 .. Len(q.jobs) : JobHolds(q.jobs[k])

Apart(t, u) ==
  /\ t # u /\ th[t].at \in {"execute", "finish"} /\ th[u].at \in {"execute", "finish"} =>
       th[t].arg # th[u].arg
  /\ th[t].at = "publish" /\ th[u].at = "finish" => th[t].arg # th[u].arg
  /\ th[t].at = "publish" =>
       \A k \in 1 .. Len(th[u].jobs) :
         ~ (th[u].jobs[k].why = "refused" /\ th[u].jobs[k].of = th[t].arg)

IInv ==
  /\ TypeOK
  /\ \A i \in Incs : IncHolds(i)
  /\ \A r \in Rows : RowHolds(r)
  /\ Routed
  /\ \A t \in Threads : Holds(t, th[t])
  /\ \A t, u \in Threads : Apart(t, u)

USE HostAssumption

----------------------------------------------------------------------------
LEMMA Constants ==
  /\ None \notin Rows /\ None \notin Threads /\ Callers \cap Incs = {}
  /\ Incs \cap Subs = {} /\ Rows = Incs \cup Subs /\ Incs \subseteq Threads
BY DEF None, Rows, Threads, Incs, Subs

LEMMA OccupyingFacts ==
  ASSUME NEW r \in Rows
  PROVE  r \in Occupying <=> row[r] \in {"active", "retiring", "running"}
BY DEF Occupying

(* What becomes of the fields of a thread that goes on with those of r.    *)
LEMMA WithFacts ==
  ASSUME NEW q \in ThreadType, NEW r
  PROVE  With(q, r) =
           [at |-> IF "at" \in DOMAIN r THEN r.at ELSE q.at,
            then |-> IF "then" \in DOMAIN r THEN r.then ELSE q.then,
            arg |-> IF "arg" \in DOMAIN r THEN r.arg ELSE q.arg,
            left |-> IF "left" \in DOMAIN r THEN r.left ELSE q.left,
            jobs |-> IF "jobs" \in DOMAIN r THEN r.jobs ELSE q.jobs,
            scope |-> IF "scope" \in DOMAIN r THEN r.scope ELSE q.scope]
BY DEF ThreadType, With

LEMMA WithFields ==
  ASSUME NEW q \in ThreadType, NEW r,
         "at" \in DOMAIN r => r.at \in Places,
         "then" \in DOMAIN r => r.then \in {"idle", "respond", "gone"},
         "arg" \in DOMAIN r => r.arg \in Rows \cup {None},
         "left" \in DOMAIN r => r.left \in SUBSET Subs,
         "jobs" \in DOMAIN r => r.jobs \in Seq(Jobs),
         "scope" \in DOMAIN r => r.scope \in SUBSET Rows
  PROVE  /\ With(q, r) \in ThreadType
         /\ With(q, r).at = IF "at" \in DOMAIN r THEN r.at ELSE q.at
         /\ With(q, r).then = IF "then" \in DOMAIN r THEN r.then ELSE q.then
         /\ With(q, r).arg = IF "arg" \in DOMAIN r THEN r.arg ELSE q.arg
         /\ With(q, r).jobs = IF "jobs" \in DOMAIN r THEN r.jobs ELSE q.jobs
<1> DEFINE at == IF "at" \in DOMAIN r THEN r.at ELSE q.at
           then == IF "then" \in DOMAIN r THEN r.then ELSE q.then
           arg == IF "arg" \in DOMAIN r THEN r.arg ELSE q.arg
           left == IF "left" \in DOMAIN r THEN r.left ELSE q.left
           jobs == IF "jobs" \in DOMAIN r THEN r.jobs ELSE q.jobs
           scope == IF "scope" \in DOMAIN r THEN r.scope ELSE q.scope
<1>1. /\ at \in Places /\ then \in {"idle", "respond", "gone"} /\ arg \in Rows \cup {None}
      /\ left \in SUBSET Subs /\ jobs \in Seq(Jobs) /\ scope \in SUBSET Rows
  BY DEF ThreadType
<1>2. With(q, r) = [at |-> at, then |-> then, arg |-> arg, left |-> left, jobs |-> jobs,
                    scope |-> scope]
  BY WithFacts
<1> HIDE DEF at, then, arg, left, jobs, scope
<1>3. /\ With(q, r) \in ThreadType /\ With(q, r).at = at /\ With(q, r).then = then
      /\ With(q, r).arg = arg /\ With(q, r).jobs = jobs
  BY <1>1, <1>2 DEF ThreadType
<1> QED
  BY <1>3 DEF at, then, arg, jobs

LEMMA Moved ==
  ASSUME NEW t \in Threads, th[t] \in ThreadType, NEW r, Go(t, r),
         "at" \in DOMAIN r => r.at \in Places,
         "then" \in DOMAIN r => r.then \in {"idle", "respond", "gone"},
         "arg" \in DOMAIN r => r.arg \in Rows \cup {None},
         "left" \in DOMAIN r => r.left \in SUBSET Subs,
         "jobs" \in DOMAIN r => r.jobs \in Seq(Jobs),
         "scope" \in DOMAIN r => r.scope \in SUBSET Rows
  PROVE  \E q \in ThreadType :
           /\ th' = [th EXCEPT ![t] = q]
           /\ q.at = IF "at" \in DOMAIN r THEN r.at ELSE th[t].at
           /\ q.then = IF "then" \in DOMAIN r THEN r.then ELSE th[t].then
           /\ q.arg = IF "arg" \in DOMAIN r THEN r.arg ELSE th[t].arg
           /\ q.jobs = IF "jobs" \in DOMAIN r THEN r.jobs ELSE th[t].jobs
<1> DEFINE p == With(th[t], r)
<1>1. /\ p \in ThreadType
      /\ p.at = IF "at" \in DOMAIN r THEN r.at ELSE th[t].at
      /\ p.then = IF "then" \in DOMAIN r THEN r.then ELSE th[t].then
      /\ p.arg = IF "arg" \in DOMAIN r THEN r.arg ELSE th[t].arg
      /\ p.jobs = IF "jobs" \in DOMAIN r THEN r.jobs ELSE th[t].jobs
  BY WithFields
<1>2. th' = [th EXCEPT ![t] = p]
  BY DEF Go
<1> HIDE DEF p
<1> QED
  BY <1>1, <1>2

----------------------------------------------------------------------------
(* What a step leaves in order for a thread that it does not move, and for *)
(* one that moves on without a row in its hands.                           *)
Kept(r) == row[r] # "none" => row'[r] # "none"
Quiet(v) ==
  /\ th'[v].at \in {"execute", "finish", "publish"} =>
       th'[v].at = th[v].at /\ th'[v].arg = th[v].arg
  /\ \A k \in 1 .. Len(th'[v].jobs) :
       th'[v].jobs[k].why = "refused" =>
         \E m \in 1 .. Len(th[v].jobs) : th[v].jobs[m] = th'[v].jobs[k]

LEMMA ApartKept ==
  ASSUME NEW v \in Threads, NEW u \in Threads, Apart(v, u), Quiet(v), Quiet(u)
  PROVE  Apart(v, u)'
BY DEF Apart, Quiet

LEMMA JobKept ==
  ASSUME NEW j \in Jobs, JobHolds(j),
         \A r \in Rows : Kept(r),
         \A i \in Incs : row[i] # "none" /\ i \notin up => i \notin up',
         j.why = "refused" /\ Published(j.of)' => Published(j.of)
  PROVE  JobHolds(j)'
BY Constants DEF JobHolds, Kept

LEMMA HoldsKept ==
  ASSUME NEW u \in Threads, NEW q \in ThreadType, Holds(u, q),
         \A r \in Rows : Kept(r),
         \A i \in Incs : row[i] # "none" /\ i \notin up => i \notin up',
         \A i \in Incs : Published(i) => Published(i)',
         \A k \in 1 .. Len(q.jobs) :
           q.jobs[k].why = "refused" /\ Published(q.jobs[k].of)' => Published(q.jobs[k].of),
         q.at \in {"execute", "finish"} => row'[q.arg] = "running",
         q.at = "finish" => Gone(q.arg)',
         q.at = "publish" =>
           /\ lock' = u /\ q.arg \in Occupying' /\ ~ Published(q.arg)'
           /\ owner'[q.arg] = owner[q.arg]
  PROVE  Holds(u, q)'
<1>1. \A k \in 1 .. Len(q.jobs) : q.jobs[k] \in Jobs /\ JobHolds(q.jobs[k])
  BY DEF ThreadType, Holds
<1>2. \A k \in 1 .. Len(q.jobs) : JobHolds(q.jobs[k])'
  BY <1>1, JobKept
<1> QED
  BY <1>2 DEF Holds

(* A step of one thread that changes no table.                             *)
LEMMA ThreadStep ==
  ASSUME IInv, NEW t \in Threads, NEW q \in ThreadType, th' = [th EXCEPT ![t] = q],
         UNCHANGED <<row, parent, owner, up, plugins, routes, subs, lock, cut>>,
         Holds(t, q), q.at \notin {"execute", "finish", "publish"},
         t \in Incs => (q.at = "idle" <=> th[t].at = "idle"),
         \A k \in 1 .. Len(q.jobs) :
           q.jobs[k].why = "refused" => \E m \in 1 .. Len(th[t].jobs) : th[t].jobs[m] = q.jobs[k]
  PROVE  IInv'
<1>1. TypeOK /\ th \in [Threads -> ThreadType]
  BY DEF IInv, TypeOK
<1>2. TypeOK'
  BY <1>1 DEF TypeOK
<1>3. th'[t] = q /\ \A u \in Threads \ {t} : th'[u] = th[u]
  BY <1>1
<1>4. \A i \in Incs : Published(i)' <=> Published(i)
  BY <1>3, Constants DEF Published
<1>5. Occupying' = Occupying
  BY DEF Occupying
<1>6. \A i \in Incs : IncHolds(i)'
  BY <1>4, <1>5 DEF IncHolds, IInv
<1>7. \A r \in Rows : RowHolds(r)'
  <2>1. \A r \in Rows : parent[r] \in Incs \cup {None}
    BY <1>1 DEF TypeOK
  <2> QED
    BY <1>4, <1>5, <2>1 DEF RowHolds, IInv
<1>8. Routed'
  BY DEF Routed, IInv
<1>9. \A r \in Rows : Kept(r)
  BY DEF Kept
<1>10. ASSUME NEW u \in Threads, NEW p \in ThreadType, Holds(u, p) PROVE Holds(u, p)'
  <2>1. p.at = "publish" => p.arg \in Incs
    BY <1>10 DEF Holds
  <2>2. p.at \in {"execute", "finish"} => row'[p.arg] = "running"
    BY <1>10 DEF Holds
  <2>3. p.at = "finish" => Gone(p.arg)'
    BY <1>10 DEF Holds, Gone
  <2>4. p.at = "publish" =>
          /\ lock' = u /\ p.arg \in Occupying' /\ ~ Published(p.arg)'
          /\ owner'[p.arg] = owner[p.arg]
    BY <1>4, <1>5, <1>10, <2>1 DEF Holds
  <2>5. \A k \in 1 .. Len(p.jobs) : p.jobs[k].why = "refused" => p.jobs[k].of \in Incs
    BY <1>10 DEF Holds, JobHolds, ThreadType, Jobs
  <2>6. \A k \in 1 .. Len(p.jobs) :
          p.jobs[k].why = "refused" /\ Published(p.jobs[k].of)' => Published(p.jobs[k].of)
    BY <1>4, <2>5
  <2> QED
    BY <1>4, <1>9, <1>10, <2>2, <2>3, <2>4, <2>6, HoldsKept
<1>11. ASSUME NEW u \in Threads PROVE Holds(u, th[u])' 
  BY <1>1, <1>3, <1>10 DEF IInv
<1>12. \A u \in Threads : Quiet(u)
  BY <1>3 DEF Quiet
<1>13. \A v, u \in Threads : Apart(v, u)'
  BY <1>12, ApartKept DEF IInv
<1> QED
  BY <1>2, <1>6, <1>7, <1>8, <1>11, <1>13 DEF IInv

LEMMA NothingStep ==
  ASSUME IInv, UNCHANGED <<row, parent, owner, up, plugins, routes, subs, lock, cut, th>>
  PROVE  IInv'
<1>1. TypeOK' /\ Routed'
  BY DEF IInv, TypeOK, Routed
<1>2. (\A i \in Incs : IncHolds(i)') /\ \A r \in Rows : RowHolds(r)'
  BY DEF IInv, IncHolds, RowHolds, Occupying, Published
<1>3. \A t \in Threads : Holds(t, th[t])'
  BY DEF IInv, Holds, JobHolds, Occupying, Published, Gone
<1>4. \A t, u \in Threads : Apart(t, u)'
  BY DEF IInv, Apart
<1> QED
  BY <1>1, <1>2, <1>3, <1>4 DEF IInv

(* A thread is in order where it has no row of its own to answer for.      *)
Plain ==
  Places \ {"publish", "execute", "finish", "spawn", "hold", "send", "lookup_spawn",
            "lookup_hold"}

LEMMA ThreadFacts ==
  ASSUME IInv, NEW t \in Threads
  PROVE  /\ th[t] \in ThreadType /\ Holds(t, th[t])
         /\ t \in Incs /\ th[t].at \notin {"idle", "read", "respond", "gone"} => th[t].then # "idle"
         /\ t \in Incs /\ th[t].at # "idle" => owner[t] \in Names /\ row[t] # "none"
BY DEF IInv, TypeOK, Holds, IncHolds, Published

(* The thread goes to another place, with the jobs it has or new ones.     *)
LEMMA PlainStep ==
  ASSUME IInv, NEW t \in Threads, NEW r, Go(t, r),
         UNCHANGED <<row, parent, owner, up, plugins, routes, subs, lock, cut>>,
         NEW q, q = With(th[t], r), q \in ThreadType, q.at \in Plain,
         t \in Incs => (q.at = "idle" <=> th[t].at = "idle"),
         t \in Incs /\ q.at \notin {"idle", "read", "respond", "gone"} => q.then # "idle",
         \A k \in 1 .. Len(q.jobs) :
           \/ \E m \in 1 .. Len(th[t].jobs) : q.jobs[k] = th[t].jobs[m]
           \/ q.jobs[k].why # "refused" /\ JobHolds(q.jobs[k])
  PROVE  IInv'
<1>1. th' = [th EXCEPT ![t] = q]
  BY DEF Go
<1>2. \A k \in 1 .. Len(q.jobs) : JobHolds(q.jobs[k])
  BY ThreadFacts DEF Holds
<1>3. Holds(t, q) /\ q.at \notin {"execute", "finish", "publish"}
  BY <1>2 DEF Holds, Plain
<1> QED
  BY <1>1, <1>3, ThreadStep

LEMMA MoveStep ==
  ASSUME IInv, NEW t \in Threads, NEW at \in Plain, Go(t, [at |-> at]),
         UNCHANGED <<row, parent, owner, up, plugins, routes, subs, lock, cut>>,
         t \in Incs => (at = "idle" <=> th[t].at = "idle"),
         t \in Incs /\ at \notin {"idle", "read", "respond", "gone"} => th[t].then # "idle"
  PROVE  IInv'
<1> DEFINE q == With(th[t], [at |-> at])
<1>1. th[t] \in ThreadType /\ at \in Places
  BY ThreadFacts DEF Plain
<1>2. q \in ThreadType /\ q.at = at /\ q.then = th[t].then /\ q.jobs = th[t].jobs
  BY <1>1, WithFields
<1> HIDE DEF q
<1>3. q = With(th[t], [at |-> at])
  BY DEF q
<1> QED
  BY <1>2, <1>3, PlainStep

(* A thread is done with what it was asked for.                            *)
LEMMA ReturnStep ==
  ASSUME IInv, NEW t \in Threads, th[t].at \notin {"idle", "read", "respond", "gone"},
         Go(t, [at |-> th[t].then]),
         UNCHANGED <<row, parent, owner, up, plugins, routes, subs, lock, cut>>
  PROVE  IInv'
<1>1. th[t].then \in {"idle", "respond", "gone"} /\ th[t].then \in Plain
  BY ThreadFacts DEF ThreadType, Plain, Places
<1>2. t \in Incs => th[t].then # "idle"
  BY ThreadFacts
<1> DEFINE at == th[t].then
<1> HIDE DEF at
<1>3. Go(t, [at |-> at])
  BY DEF at
<1> QED
  BY <1>1, <1>2, <1>3, MoveStep DEF at

----------------------------------------------------------------------------
(* The steps that only move a thread.                                      *)
LEMMA SeenFacts ==
  ASSUME IInv, NEW n \in Names, plugins[n] # None
  PROVE  /\ plugins[n] \in Incs /\ plugins[n] \in Occupying /\ Published(plugins[n])
         /\ owner[plugins[n]] = n
BY DEF IInv, TypeOK, IncHolds

LEMMA LookupStep ==
  ASSUME IInv, NEW t \in Threads, Lookup(t)
  PROVE  IInv'
<1> DEFINE p == plugins[NameOf(t)]
<1>1. /\ UNCHANGED <<row, parent, owner, up, plugins, routes, subs, lock, cut>>
      /\ th[t].at \in {"lookup_spawn", "lookup_hold"}
      /\ Go(t, IF th[t].at = "lookup_hold" THEN [at |-> "hold", arg |-> p]
               ELSE IF p = None THEN [at |-> th[t].then] ELSE [at |-> "spawn", arg |-> p])
  BY DEF Lookup, At, rowVars, procVars, tableVars
<1>2. t \in Incs /\ NameOf(t) \in Names /\ th[t] \in ThreadType /\ th[t].then # "idle"
  BY <1>1, ThreadFacts DEF Holds, NameOf
<1>3. p = None \/ (p \in Incs /\ Published(p))
  BY <1>2, SeenFacts
<1>4. p \in Rows \cup {None}
  BY <1>3, Constants
<1> HIDE DEF p
<1>5. ASSUME NEW at \in {"hold", "spawn"}, Go(t, [at |-> at, arg |-> p]) PROVE IInv'
  <2> DEFINE q == With(th[t], [at |-> at, arg |-> p])
  <2>1. at \in Places
    BY DEF Places
  <2>2. q \in ThreadType /\ q.at = at /\ q.arg = p /\ q.then = th[t].then /\ q.jobs = th[t].jobs
    BY <1>2, <1>4, <2>1, WithFields
  <2>3. th' = [th EXCEPT ![t] = q]
    BY <1>5 DEF Go
  <2> HIDE DEF q
  <2>4. Holds(t, q)
    BY <1>2, <1>3, <2>2, ThreadFacts DEF Holds
  <2> QED
    BY <1>1, <2>2, <2>3, <2>4, ThreadStep
<1>6. CASE th[t].at = "lookup_hold"
  BY <1>1, <1>5, <1>6
<1>7. CASE th[t].at # "lookup_hold" /\ p = None
  BY <1>1, <1>7, ReturnStep
<1>8. CASE th[t].at # "lookup_hold" /\ p # None
  BY <1>1, <1>5, <1>8
<1> QED
  BY <1>6, <1>7, <1>8

LEMMA SnapshotStep ==
  ASSUME IInv, NEW t \in Threads, Snapshot(t)
  PROVE  IInv'
<1> DEFINE r == [at |-> "targets", left |-> subs, jobs |-> <<>>]
           q == With(th[t], r)
<1>1. /\ UNCHANGED <<row, parent, owner, up, plugins, routes, subs, lock, cut>>
      /\ th[t].at = "snapshot" /\ Go(t, r) /\ subs \in SUBSET Subs
  BY DEF Snapshot, At, rowVars, procVars, tableVars, IInv, TypeOK
<1>2. th[t] \in ThreadType /\ (t \in Incs => th[t].then # "idle")
  BY <1>1, ThreadFacts
<1>3. /\ DOMAIN r = {"at", "left", "jobs"} /\ r.at = "targets" /\ r.left \in SUBSET Subs
      /\ r.jobs = <<>> /\ r.at \in Places /\ r.jobs \in Seq(Jobs)
  BY <1>1 DEF Places
<1> HIDE DEF r
<1>4. q \in ThreadType /\ q.at = "targets" /\ q.then = th[t].then /\ q.jobs = <<>>
  BY <1>2, <1>3, WithFields
<1> HIDE DEF q
<1> QED
  BY <1>1, <1>2, <1>4, PlainStep DEF Plain, Places, q

LEMMA CheckTargetStep ==
  ASSUME IInv, NEW t \in Threads, CheckTarget(t)
  PROVE  IInv'
<1>1. /\ UNCHANGED <<row, parent, owner, up, plugins, routes, subs, lock, cut>>
      /\ th[t].at = "targets"
  BY DEF CheckTarget, At, rowVars, procVars, tableVars
<1>2. th[t] \in ThreadType /\ Holds(t, th[t]) /\ (t \in Incs => th[t].then # "idle")
  BY <1>1, ThreadFacts
<1>3. CASE th[t].left = {}
  <2>1. Go(t, [at |-> "jobs"]) /\ "jobs" \in Plain
    BY <1>3 DEF CheckTarget, Plain, Places
  <2> QED
    BY <1>1, <1>2, <2>1, MoveStep
<1>4. ASSUME NEW s \in th[t].left, row[s] = "active",
             Go(t, [at |-> "send", arg |-> s, left |-> th[t].left \ {s}])
      PROVE  IInv'
  <2> DEFINE q == With(th[t], [at |-> "send", arg |-> s, left |-> th[t].left \ {s}])
  <2>1. s \in Subs /\ s \in Rows /\ th[t].left \ {s} \in SUBSET Subs /\ "send" \in Places
    BY <1>2, Constants DEF ThreadType, Places
  <2>2. q \in ThreadType /\ q.at = "send" /\ q.arg = s /\ q.then = th[t].then /\ q.jobs = th[t].jobs
    BY <1>2, <2>1, WithFields
  <2>3. th' = [th EXCEPT ![t] = q]
    BY <1>4 DEF Go
  <2> HIDE DEF q
  <2>4. Holds(t, q)
    BY <1>2, <2>1, <2>2 DEF Holds
  <2> QED
    BY <1>1, <2>2, <2>3, <2>4, ThreadStep
<1>5. ASSUME NEW s \in th[t].left, Go(t, [left |-> th[t].left \ {s}])
      PROVE  IInv'
  <2> DEFINE r == [left |-> th[t].left \ {s}]
             q == With(th[t], r)
  <2>1. th[t].left \ {s} \in SUBSET Subs
    BY <1>2 DEF ThreadType
  <2>2. q \in ThreadType /\ q.at = "targets" /\ q.then = th[t].then /\ q.jobs = th[t].jobs
    BY <1>1, <1>2, <2>1, WithFields
  <2> HIDE DEF q, r
  <2> QED
    BY <1>1, <1>2, <1>5, <2>2, PlainStep DEF Plain, Places, q, r
<1> QED
  BY <1>3, <1>4, <1>5 DEF CheckTarget

LEMMA SendStep ==
  ASSUME IInv, NEW t \in Threads, Send(t)
  PROVE  IInv'
<1> DEFINE s == th[t].arg
           jobs == th[t].jobs
<1>1. /\ UNCHANGED <<row, parent, owner, up, plugins, routes, subs, lock, cut>>
      /\ th[t].at = "send"
  BY DEF Send, At, rowVars, procVars, tableVars
<1>2. /\ th[t] \in ThreadType /\ Holds(t, th[t]) /\ (t \in Incs => th[t].then # "idle")
      /\ s \in Subs /\ s \in Rows /\ s \notin Incs /\ jobs \in Seq(Jobs)
  BY <1>1, ThreadFacts, Constants DEF Holds, ThreadType
<1>3. "targets" \in Plain /\ "targets" \in Places
  BY DEF Plain, Places
<1>4. Drop(s) \in Jobs /\ JobHolds(Drop(s)) /\ Drop(s).why # "refused"
  BY <1>2 DEF Drop, Jobs, JobHolds
<1>5. ASSUME NEW more \in Seq(Jobs), Go(t, [at |-> "targets", jobs |-> more]),
             \A k \in 1 .. Len(more) :
               \/ \E m \in 1 .. Len(jobs) : more[k] = jobs[m]
               \/ more[k].why # "refused" /\ JobHolds(more[k])
      PROVE  IInv'
  <2> DEFINE r == [at |-> "targets", jobs |-> more]
             q == With(th[t], r)
  <2>1. DOMAIN r = {"at", "jobs"} /\ r.at = "targets" /\ r.jobs = more
    OBVIOUS
  <2>2. Go(t, r)
    BY <1>5
  <2> HIDE DEF r
  <2>3. q \in ThreadType /\ q.at = "targets" /\ q.then = th[t].then /\ q.jobs = more
    BY SMTT(30), <1>2, <1>3, <2>1, WithFields
  <2> HIDE DEF q
  <2> QED
    BY <1>1, <1>2, <1>3, <1>5, <2>2, <2>3, PlainStep DEF q
<1>6. CASE Go(t, [at |-> "targets", jobs |-> <<Drop(s)>> \o jobs])
  <2> DEFINE more == <<Drop(s)>> \o jobs
  <2>1. more \in Seq(Jobs) /\ Len(more) = 1 + Len(jobs) /\ more[1] = Drop(s)
    BY <1>2, <1>4
  <2>2. \A k \in 1 .. Len(more) : k # 1 => k - 1 \in 1 .. Len(jobs) /\ more[k] = jobs[k - 1]
    BY <1>2, <1>4
  <2> HIDE DEF more
  <2> QED
    BY <1>4, <1>5, <1>6, <2>1, <2>2 DEF more
<1>7. CASE Go(t, [at |-> "targets"])
  BY <1>1, <1>2, <1>3, <1>7, MoveStep
<1>8. CASE owner[s] # Kernel /\ Go(t, [at |-> "targets", jobs |-> Append(jobs, Overflow(s))])
  <2> DEFINE more == Append(jobs, Overflow(s))
  <2>1. owner[s] \in Names
    BY <1>2, <1>8 DEF IInv, TypeOK
  <2>2. Overflow(s) \in Jobs /\ JobHolds(Overflow(s)) /\ Overflow(s).why # "refused"
    BY <2>1 DEF Overflow, Jobs, JobHolds
  <2>3. more \in Seq(Jobs) /\ Len(more) = Len(jobs) + 1 /\ more[Len(jobs) + 1] = Overflow(s)
    BY <1>2, <2>2
  <2>4. \A k \in 1 .. Len(more) : k # Len(jobs) + 1 => k \in 1 .. Len(jobs) /\ more[k] = jobs[k]
    BY <1>2, <2>2
  <2> HIDE DEF more
  <2> QED
    BY <1>5, <1>8, <2>2, <2>3, <2>4 DEF more
<1>9. \/ Go(t, [at |-> "targets", jobs |-> <<Drop(s)>> \o jobs])
      \/ Go(t, [at |-> "targets"])
      \/ owner[s] # Kernel /\ Go(t, [at |-> "targets", jobs |-> Append(jobs, Overflow(s))])
  BY DEF Send, QueueOf
<1> QED
  BY <1>6, <1>7, <1>8, <1>9

LEMMA ResolveStep ==
  ASSUME IInv, NEW t \in Threads, Resolve(t)
  PROVE  IInv'
<1>1. /\ UNCHANGED <<row, parent, owner, up, plugins, routes, subs, lock, cut>>
      /\ th[t].at = "route"
  BY DEF Resolve, At, rowVars, procVars, tableVars
<1>2. th[t] \in ThreadType /\ Holds(t, th[t]) /\ (t \in Incs => th[t].then # "idle")
  BY <1>1, ThreadFacts
<1>3. CASE Go(t, [at |-> th[t].then])
  BY <1>1, <1>3, ReturnStep
<1>4. ASSUME NEW h \in Incs, Go(t, [at |-> "call", arg |-> h]) PROVE IInv'
  <2> DEFINE q == With(th[t], [at |-> "call", arg |-> h])
  <2>1. "call" \in Places /\ "call" \in Plain /\ h \in Rows
    BY Constants DEF Places, Plain
  <2>2. q \in ThreadType /\ q.at = "call" /\ q.then = th[t].then /\ q.jobs = th[t].jobs
    BY <1>2, <2>1, WithFields
  <2> HIDE DEF q
  <2> QED
    BY <1>1, <1>2, <1>4, <2>1, <2>2, PlainStep DEF q
<1>5. PICK v \in Verbs :
        LET h == IF routes[v] = "none" THEN None ELSE plugins[routes[v]]
        IN Go(t, IF h # None /\ row[h] = "active" THEN [at |-> "call", arg |-> h]
                 ELSE [at |-> th[t].then])
  BY DEF Resolve
<1> DEFINE h == IF routes[v] = "none" THEN None ELSE plugins[routes[v]]
<1>6. h # None => h \in Incs
  BY DEF IInv, TypeOK
<1>7. Go(t, IF h # None /\ row[h] = "active" THEN [at |-> "call", arg |-> h]
            ELSE [at |-> th[t].then])
  BY <1>5
<1> HIDE DEF h
<1> QED
  BY <1>3, <1>4, <1>6, <1>7

LEMMA CallStep ==
  ASSUME IInv, NEW t \in Threads, CallOn(t) \/ Reply(t), th[t].at \in {"call", "reply"}
  PROVE  IInv'
<1>1. UNCHANGED <<row, parent, owner, up, plugins, routes, subs, lock, cut>>
  BY DEF CallOn, Reply, rowVars, tableVars
<1>2. t \in Incs => th[t].then # "idle"
  BY ThreadFacts
<1>3. CASE Go(t, [at |-> th[t].then])
  BY <1>1, <1>3, ReturnStep
<1>4. CASE Go(t, [at |-> "reply"])
  <2>1. "reply" \in Plain
    BY DEF Plain, Places
  <2> QED
    BY <1>1, <1>2, <1>4, <2>1, MoveStep
<1> QED
  BY <1>3, <1>4 DEF CallOn, Reply

(* What a thread does first, for a caller and for a client loop.           *)
LEMMA EnterStep ==
  ASSUME IInv, NEW t \in Threads, NEW op, NEW back \in {"idle", "respond"},
         Enter(t, op, back),
         UNCHANGED <<row, parent, owner, up, plugins, routes, subs, lock, cut>>,
         t \in Incs => th[t].at = "read" /\ back = "respond",
         t \notin Incs => op \in Ops
  PROVE  IInv'
<1>1. th[t] \in ThreadType /\ Holds(t, th[t]) /\ (t \in Incs => back # "idle")
  BY ThreadFacts
<1>2. ASSUME NEW at \in Plain \ {"idle"}, NEW jobs \in Seq(Jobs),
             Go(t, [at |-> at, jobs |-> jobs, then |-> back]),
             \A k \in 1 .. Len(jobs) : jobs[k].why # "refused" /\ JobHolds(jobs[k])
      PROVE  IInv'
  <2> DEFINE r == [at |-> at, jobs |-> jobs, then |-> back]
             q == With(th[t], r)
  <2>1. DOMAIN r = {"at", "jobs", "then"} /\ r.at = at /\ r.jobs = jobs /\ r.then = back
    OBVIOUS
  <2>2. Go(t, r) /\ at \in Places
    BY <1>2 DEF Plain
  <2> HIDE DEF r
  <2>3. q \in ThreadType /\ q.at = at /\ q.then = back /\ q.jobs = jobs
    BY <1>1, <2>1, <2>2, WithFields
  <2> HIDE DEF q
  <2> QED
    BY <1>1, <1>2, <2>2, <2>3, PlainStep DEF q
<1>3. ASSUME NEW at \in {"snapshot", "route"}, Go(t, [at |-> at, then |-> back])
      PROVE  IInv'
  <2> DEFINE r == [at |-> at, then |-> back]
             q == With(th[t], r)
  <2>1. DOMAIN r = {"at", "then"} /\ r.at = at /\ r.then = back
    OBVIOUS
  <2>2. Go(t, r) /\ at \in Places /\ at \in Plain
    BY <1>3 DEF Plain, Places
  <2> HIDE DEF r
  <2>3. q \in ThreadType /\ q.at = at /\ q.then = back /\ q.jobs = th[t].jobs
    BY <1>1, <2>1, <2>2, WithFields
  <2> HIDE DEF q
  <2> QED
    BY <1>1, <2>2, <2>3, PlainStep DEF q
<1>4. ASSUME NEW at \in {"spawn", "hold", "lookup_spawn", "lookup_hold"}, NEW r, Go(t, r),
             With(th[t], r) \in ThreadType, With(th[t], r).at = at,
             With(th[t], r).then = back, With(th[t], r).jobs = th[t].jobs,
             at \in {"spawn", "hold"} => With(th[t], r).arg = None,
             at \in {"lookup_spawn", "lookup_hold"} => t \in Incs
      PROVE  IInv'
  <2> DEFINE q == With(th[t], r)
  <2>1. th' = [th EXCEPT ![t] = q]
    BY <1>4 DEF Go
  <2>2. Holds(t, q)
    BY <1>1, <1>4 DEF Holds
  <2> HIDE DEF q
  <2> QED
    BY <1>1, <1>4, <2>1, <2>2, ThreadStep DEF q
<1>5. CASE op = "emit" \/ op \in {"call", "invoke"}
  BY <1>3, <1>5 DEF Enter
<1>6. CASE op = "spawn_child"
  <2> DEFINE r == [at |-> "lookup_spawn", then |-> back]
  <2>1. /\ DOMAIN r = {"at", "then"} /\ r.at = "lookup_spawn" /\ r.then = back
        /\ "lookup_spawn" \in Places /\ Go(t, r)
    BY <1>6 DEF Enter, Places
  <2>2. t \in Incs
    BY <1>6
  <2> HIDE DEF r
  <2>3. /\ With(th[t], r) \in ThreadType /\ With(th[t], r).at = "lookup_spawn"
        /\ With(th[t], r).then = back /\ With(th[t], r).jobs = th[t].jobs
    BY <1>1, <2>1, WithFields
  <2> QED
    BY <1>4, <2>1, <2>2, <2>3
<1>7. CASE op \in {"spawn", "subscribe"}
  <2> DEFINE at == IF op = "spawn" THEN "spawn" ELSE IF t \in Incs THEN "lookup_hold" ELSE "hold"
             r == [at |-> at, arg |-> None, then |-> back]
  <2>1. /\ DOMAIN r = {"at", "arg", "then"} /\ r.at = at /\ r.arg = None /\ r.then = back
        /\ at \in Places /\ at \in {"spawn", "hold", "lookup_hold"}
        /\ at = "lookup_hold" => t \in Incs
    BY DEF Places
  <2>2. Go(t, r)
    BY <1>7 DEF Enter
  <2> HIDE DEF r, at
  <2>3. /\ With(th[t], r) \in ThreadType /\ With(th[t], r).at = at
        /\ With(th[t], r).then = back /\ With(th[t], r).jobs = th[t].jobs
        /\ With(th[t], r).arg = None
    BY <1>1, <2>1, WithFields
  <2> QED
    BY <1>4, <2>1, <2>2, <2>3
<1>8. "jobs" \in Plain \ {"idle"}
  BY DEF Plain, Places
<1>9. ASSUME NEW j \in Jobs, j.why # "refused", JobHolds(j),
             Go(t, [at |-> "jobs", jobs |-> <<j>>, then |-> back])
      PROVE  IInv'
  <2> DEFINE jobs == <<j>>
  <2>1. jobs \in Seq(Jobs) /\ Len(jobs) = 1 /\ jobs[1] = j
    OBVIOUS
  <2>2. Go(t, [at |-> "jobs", jobs |-> jobs, then |-> back])
    BY <1>9
  <2> HIDE DEF jobs
  <2>3. \A k \in 1 .. Len(jobs) : jobs[k].why # "refused" /\ JobHolds(jobs[k])
    BY <1>9, <2>1
  <2> QED
    BY <1>2, <1>8, <2>1, <2>2, <2>3
<1>10. CASE op = "reclaim"
  <2>1. PICK n \in Names : Go(t, [at |-> "jobs", jobs |-> ByName(n), then |-> back])
    BY <1>10 DEF Enter
  <2> DEFINE j == [kind |-> "name", of |-> n, why |-> "asked"]
  <2>2. ByName(n) = <<j>> /\ j \in Jobs /\ j.why # "refused" /\ JobHolds(j)
    BY DEF ByName, Jobs, JobHolds
  <2> HIDE DEF j
  <2> QED
    BY <1>9, <2>1, <2>2
<1>11. CASE op = "unsubscribe"
  <2>1. CASE Go(t, [at |-> "jobs", jobs |-> <<>>, then |-> back])
    <3> DEFINE jobs == <<>>
    <3>1. jobs \in Seq(Jobs) /\ Len(jobs) = 0
      OBVIOUS
    <3>2. Go(t, [at |-> "jobs", jobs |-> jobs, then |-> back])
      BY <2>1
    <3> HIDE DEF jobs
    <3>3. \A k \in 1 .. Len(jobs) : jobs[k].why # "refused" /\ JobHolds(jobs[k])
      BY <3>1
    <3> QED
      BY <1>2, <1>8, <3>1, <3>2, <3>3
  <2>2. ASSUME NEW s \in Own(t), Go(t, [at |-> "jobs", jobs |-> <<Drop(s)>>, then |-> back])
        PROVE  IInv'
    <3>1. s \in Rows /\ s \notin Incs
      BY Constants DEF Own, IInv, TypeOK
    <3>2. Drop(s) \in Jobs /\ Drop(s).why # "refused" /\ JobHolds(Drop(s))
      BY <3>1 DEF Drop, Jobs, JobHolds
    <3> QED
      BY <1>9, <2>2, <3>2
  <2> QED
    BY <1>11, <2>1, <2>2 DEF Enter
<1> QED
  BY <1>5, <1>6, <1>7, <1>10, <1>11 DEF Enter

LEMMA BeginStep ==
  ASSUME IInv, NEW c \in Callers, Begin(c)
  PROVE  IInv'
<1>1. /\ UNCHANGED <<row, parent, owner, up, plugins, routes, subs, lock, cut>>
      /\ \E op \in Ops : Enter(c, op, "idle")
  BY DEF Begin, rowVars, procVars, tableVars
<1>2. c \in Threads /\ c \notin Incs
  BY Constants DEF Threads
<1> QED
  BY <1>1, <1>2, EnterStep

LEMMA ReadStep ==
  ASSUME IInv, NEW i \in Incs, Read(i) \/ Respond(i)
  PROVE  IInv'
<1>1. /\ UNCHANGED <<row, parent, owner, up, plugins, routes, subs, lock, cut>>
      /\ th[i].at \in {"read", "respond"} /\ i \in Threads
  BY Constants DEF Read, Respond, At, rowVars, procVars, tableVars
<1>2. ASSUME NEW at \in {"read", "respond", "gone"}, Go(i, [at |-> at]) PROVE IInv'
  <2>1. at \in Plain
    BY DEF Plain, Places
  <2> QED
    BY <1>1, <1>2, <2>1, MoveStep
<1>3. CASE Respond(i)
  <2>1. Go(i, [at |-> IF i \in up THEN "read" ELSE "gone"])
    BY <1>3 DEF Respond
  <2> DEFINE at == IF i \in up THEN "read" ELSE "gone"
  <2>2. at \in {"read", "respond", "gone"} /\ Go(i, [at |-> at])
    BY <2>1
  <2> HIDE DEF at
  <2> QED
    BY <1>2, <2>2
<1>4. CASE Read(i)
  <2>1. th[i].at = "read"
    BY <1>4 DEF Read, At
  <2>2. CASE Go(i, [at |-> "respond"])
    BY <1>2, <2>2
  <2>3. CASE ~ Go(i, [at |-> "respond"])
    <3> DEFINE op == Head(inbox[i])
    <3>1. Enter(i, op, "respond")
      BY <1>4, <2>3 DEF Read
    <3> HIDE DEF op
    <3> QED
      BY <1>1, <2>1, <3>1, EnterStep
  <2> QED
    BY <2>2, <2>3
<1> QED
  BY <1>3, <1>4

LEMMA ClosedStep ==
  ASSUME IInv, NEW i \in Incs, Closed(i)
  PROVE  IInv'
<1> DEFINE j == [kind |-> "row", of |-> i, why |-> "closed"]
           jobs == <<j>>
           r == [at |-> "jobs", then |-> "gone", jobs |-> jobs]
           q == With(th[i], r)
<1>1. /\ UNCHANGED <<row, parent, owner, up, plugins, routes, subs, lock, cut>>
      /\ th[i].at = "read" /\ i \in Threads /\ i \in Rows /\ i \notin up /\ Go(i, r)
  BY Constants DEF Closed, At, rowVars, procVars, tableVars
<1>2. j \in Jobs /\ j.why # "refused" /\ JobHolds(j)
  BY <1>1, ThreadFacts DEF Jobs, JobHolds
<1>3. jobs \in Seq(Jobs) /\ Len(jobs) = 1 /\ jobs[1] = j
  BY <1>2
<1>4. DOMAIN r = {"at", "then", "jobs"} /\ r.at = "jobs" /\ r.then = "gone" /\ r.jobs = jobs
  OBVIOUS
<1> HIDE DEF j, jobs, r
<1>5. th[i] \in ThreadType /\ "jobs" \in Places /\ "jobs" \in Plain
  BY <1>1, ThreadFacts DEF Plain, Places
<1>6. q \in ThreadType /\ q.at = "jobs" /\ q.then = "gone" /\ q.jobs = jobs
  BY <1>3, <1>4, <1>5, WithFields
<1>7. q = With(th[i], r)
  OBVIOUS
<1> HIDE DEF q
<1>8. \A k \in 1 .. Len(q.jobs) : q.jobs[k].why # "refused" /\ JobHolds(q.jobs[k])
  <2>1. \A k \in 1 .. Len(jobs) : jobs[k] = j
    BY <1>3
  <2>2. \A k \in 1 .. Len(q.jobs) : q.jobs[k] = j
    BY <1>6, <2>1, Zenon
  <2> QED
    BY <1>2, <2>2
<1> QED
  BY <1>1, <1>5, <1>6, <1>7, <1>8, PlainStep

----------------------------------------------------------------------------
(* The steps that change a table, the ledger or the processes.             *)
GoneNext(r) == r \notin subs' \cup up' /\ \A n \in Names : plugins'[n] # r

LEMMA WorldStep ==
  ASSUME IInv, TypeOK', NEW t \in Threads, NEW q \in ThreadType, th' = [th EXCEPT ![t] = q],
         t \in Incs => (q.at = "idle" <=> th[t].at = "idle"),
         \A i \in Incs : IncHolds(i)', \A r \in Rows : RowHolds(r)', Routed',
         \A r \in Rows : Kept(r),
         \A i \in Incs : row[i] # "none" /\ i \notin up => i \notin up',
         Holds(t, q)',
         \A u \in Threads \ {t} :
           /\ th[u].at = "publish" =>
                /\ lock' = u /\ th[u].arg \in Occupying' /\ owner'[th[u].arg] = owner[th[u].arg]
           /\ th[u].at \in {"execute", "finish"} => row'[th[u].arg] = "running"
           /\ th[u].at = "finish" => GoneNext(th[u].arg),
         \A u \in Threads : Apart(t, u)' /\ Apart(u, t)'
  PROVE  IInv'
<1>1. th'[t] = q /\ (\A u \in Threads \ {t} : th'[u] = th[u]) /\ th \in [Threads -> ThreadType]
  BY DEF IInv, TypeOK
<1>2. \A i \in Incs : Published(i)' <=> Published(i)
  BY <1>1, Constants DEF Published
<1>3. ASSUME NEW u \in Threads \ {t} PROVE Holds(u, th[u])'
  <2>1. th[u] \in ThreadType /\ th'[u] = th[u]
    BY <1>1
  <2> SUFFICES ASSUME NEW p \in ThreadType, p = th[u] PROVE Holds(u, p)'
    BY <2>1
  <2>2. Holds(u, p)
    BY DEF IInv
  <2>3. \A k \in 1 .. Len(p.jobs) : p.jobs[k].why = "refused" => p.jobs[k].of \in Incs
    BY <2>2 DEF Holds, JobHolds, ThreadType, Jobs
  <2>4. \A k \in 1 .. Len(p.jobs) :
          p.jobs[k].why = "refused" /\ Published(p.jobs[k].of)' => Published(p.jobs[k].of)
    BY <1>2, <2>3
  <2>5. p.at = "publish" =>
          /\ lock' = u /\ p.arg \in Occupying' /\ ~ Published(p.arg)'
          /\ owner'[p.arg] = owner[p.arg]
    BY <1>2, <2>2 DEF Holds
  <2>6. p.at \in {"execute", "finish"} => row'[p.arg] = "running"
    OBVIOUS
  <2>7. p.at = "finish" => Gone(p.arg)'
    BY DEF Gone, GoneNext
  <2> QED
    BY <1>2, <2>2, <2>4, <2>5, <2>6, <2>7, HoldsKept
<1>4. Holds(t, th[t])'
  BY <1>1
<1>5. \A u \in Threads : Quiet(u) \/ u = t
  BY <1>1 DEF Quiet
<1>6. \A v, u \in Threads : Apart(v, u)'
  BY <1>5, ApartKept DEF IInv
<1> QED
  BY <1>3, <1>4, <1>6 DEF IInv

LEMMA NoPublish ==
  ASSUME IInv, Unlocked, NEW u \in Threads PROVE th[u].at # "publish"
BY Constants DEF IInv, Holds, Unlocked

LEMMA DieStep ==
  ASSUME IInv, NEW i \in Incs, Die(i)
  PROVE  IInv'
<1>1. /\ UNCHANGED <<row, parent, owner, plugins, routes, subs, lock, cut, th>>
      /\ up' = up \ {i} /\ TypeOK
  BY DEF Die, rowVars, tableVars, IInv
<1>2. TypeOK' /\ Routed' /\ \A r \in Rows : RowHolds(r)'
  BY <1>1 DEF IInv, TypeOK, Routed, RowHolds, Occupying, Published
<1>3. \A j \in Incs : IncHolds(j)'
  BY <1>1 DEF IInv, IncHolds, Occupying, Published
<1>4. \A t \in Threads : Holds(t, th[t])'
  BY <1>1 DEF IInv, Holds, JobHolds, Occupying, Published, Gone
<1>5. \A t, u \in Threads : Apart(t, u)'
  BY <1>1 DEF IInv, Apart
<1> QED
  BY <1>2, <1>3, <1>4, <1>5 DEF IInv

(* A new row r that t holds for n under p.                                 *)
LEMMA HoldFacts ==
  ASSUME IInv, NEW r \in Rows, row[r] = "none", NEW n \in Names \cup {Kernel},
         NEW p, p = None \/ (p \in Incs /\ Published(p)), MayHold(p), Hold(r, n, p)
  PROVE  /\ row' \in [Rows -> {"none", "active", "retiring", "running", "freed"}]
         /\ parent' \in [Rows -> Incs \cup {None}] /\ owner' \in [Rows -> Names \cup {Kernel}]
         /\ row'[r] = "active" /\ owner'[r] = n /\ parent'[r] = p
         /\ \A s \in Rows \ {r} : row'[s] = row[s] /\ owner'[s] = owner[s] /\ parent'[s] = parent[s]
         /\ Occupying' = Occupying \cup {r} /\ r \notin Occupying
         /\ \A s \in Rows : Kept(s)
         /\ r \in Incs => ~ Published(r)
         /\ \A s \in Rows : parent'[s] # None => Published(parent'[s])
         /\ \A s \in Rows : row'[s] = "active" /\ parent'[s] # None => row'[parent'[s]] = "active"
<1>1. /\ row \in [Rows -> {"none", "active", "retiring", "running", "freed"}]
      /\ parent \in [Rows -> Incs \cup {None}] /\ owner \in [Rows -> Names \cup {Kernel}]
      /\ p \in Incs \cup {None}
  BY DEF IInv, TypeOK
<1>2. /\ row' = [row EXCEPT ![r] = "active"] /\ parent' = [parent EXCEPT ![r] = p]
      /\ owner' = [owner EXCEPT ![r] = n]
  BY DEF Hold
<1>3. /\ row' \in [Rows -> {"none", "active", "retiring", "running", "freed"}]
      /\ parent' \in [Rows -> Incs \cup {None}] /\ owner' \in [Rows -> Names \cup {Kernel}]
      /\ row'[r] = "active" /\ owner'[r] = n /\ parent'[r] = p
      /\ \A s \in Rows \ {r} : row'[s] = row[s] /\ owner'[s] = owner[s] /\ parent'[s] = parent[s]
  BY <1>1, <1>2
<1>4. Occupying' = Occupying \cup {r} /\ r \notin Occupying
  BY <1>3 DEF Occupying
<1>5. \A s \in Rows : Kept(s)
  BY <1>3 DEF Kept
<1>6. r \in Incs => ~ Published(r)
  BY DEF IInv, IncHolds
<1>7. \A s \in Rows : parent'[s] # None => Published(parent'[s])
  BY <1>3 DEF IInv, RowHolds
<1>8. p = None \/ (p # r /\ row[p] = "active" /\ p \in Rows)
  BY DEF MayHold
<1>9. \A s \in Rows : row[s] = "active" /\ parent[s] # None =>
        parent[s] # r /\ parent[s] \in Rows /\ row[parent[s]] = "active"
  <2>1. \A s \in Rows : parent[s] # None => parent[s] \in Incs /\ Published(parent[s])
    BY <1>1 DEF IInv, RowHolds
  <2> QED
    BY <1>6, <2>1, Constants DEF IInv, RowHolds
<1>10. \A s \in Rows : row'[s] = "active" /\ parent'[s] # None => row'[parent'[s]] = "active"
  BY <1>3, <1>8, <1>9
<1> QED
  BY <1>3, <1>4, <1>5, <1>6, <1>7, <1>10

(* What a hold keeps of the tables, when r is not among them before.       *)
LEMMA HeldRows ==
  ASSUME IInv, NEW r \in Rows, row[r] = "none",
         \A s \in Rows \ {r} : row'[s] = row[s] /\ owner'[s] = owner[s],
         Occupying' = Occupying \cup {r}, r \notin Occupying, row'[r] # "none",
         r \in Incs => ~ Published(r) /\ owner'[r] \in Names,
         \A i \in Incs : Published(i)' <=> Published(i),
         up' \ {r} = up, subs' \ {r} = subs, UNCHANGED <<plugins, routes, cut>>
  PROVE  /\ \A i \in Incs : IncHolds(i)'
         /\ \A s \in Rows : s \in subs' => s \in Occupying'
         /\ Routed'
         /\ \A i \in Incs : row[i] # "none" /\ i \notin up => i \notin up'
         /\ \A u \in Threads :
              /\ th[u].at = "publish" =>
                   th[u].arg \in Occupying' /\ owner'[th[u].arg] = owner[th[u].arg]
              /\ th[u].at \in {"execute", "finish"} => row'[th[u].arg] = "running"
              /\ th[u].at = "finish" => GoneNext(th[u].arg)
<1>1. ASSUME NEW i \in Incs PROVE IncHolds(i)'
  <2>1. IncHolds(i) /\ i \in Rows
    BY Constants DEF IInv
  <2> QED
    BY <2>1 DEF IncHolds
<1>2. \A s \in Rows : s \in subs' => s \in Occupying'
  BY DEF IInv, RowHolds
<1>3. Routed'
  BY DEF IInv, Routed
<1>4. \A i \in Incs : row[i] # "none" /\ i \notin up => i \notin up'
  OBVIOUS
<1>5. ASSUME NEW u \in Threads
      PROVE  /\ th[u].at = "publish" =>
                  th[u].arg \in Occupying' /\ owner'[th[u].arg] = owner[th[u].arg]
             /\ th[u].at \in {"execute", "finish"} => row'[th[u].arg] = "running"
             /\ th[u].at = "finish" => GoneNext(th[u].arg)
  <2>1. Holds(u, th[u])
    BY DEF IInv
  <2>2. th[u].at = "publish" => th[u].arg \in Rows /\ th[u].arg \in Occupying /\ th[u].arg # r
    BY <2>1, Constants DEF Holds
  <2>3. th[u].at \in {"execute", "finish"} =>
          th[u].arg \in Rows /\ row[th[u].arg] = "running" /\ th[u].arg # r
    BY <2>1 DEF Holds
  <2>4. th[u].at = "finish" => Gone(th[u].arg)
    BY <2>1 DEF Holds
  <2> QED
    BY <2>2, <2>3, <2>4 DEF Gone, GoneNext
<1> QED
  BY <1>1, <1>2, <1>3, <1>4, <1>5

(* A thread that goes on with nothing in its hands stands apart.           *)
LEMMA QuietStep ==
  ASSUME IInv, NEW t \in Threads, NEW q \in ThreadType, th' = [th EXCEPT ![t] = q],
         q.at \notin {"execute", "finish", "publish"},
         \A k \in 1 .. Len(q.jobs) :
           q.jobs[k].why = "refused" => \E m \in 1 .. Len(th[t].jobs) : th[t].jobs[m] = q.jobs[k]
  PROVE  \A u \in Threads : Apart(t, u)' /\ Apart(u, t)'
<1>1. th'[t] = q /\ \A u \in Threads \ {t} : th'[u] = th[u]
  BY DEF IInv, TypeOK
<1>2. \A u \in Threads : Quiet(u)
  BY <1>1 DEF Quiet
<1> QED
  BY <1>2, ApartKept DEF IInv

LEMMA NameFacts ==
  ASSUME IInv, NEW t \in Threads, th[t].at # "idle"
  PROVE  NameOf(t) \in Names \cup {Kernel}
BY ThreadFacts DEF NameOf

LEMMA SubscribeStep ==
  ASSUME IInv, NEW t \in Threads, Subscribe(t)
  PROVE  IInv'
<1>1. /\ UNCHANGED <<up, plugins, routes, lock, cut>> /\ th[t].at = "hold"
      /\ Go(t, [at |-> th[t].then])
  BY DEF Subscribe, At, procVars
<1>2. CASE UNCHANGED <<row, parent, owner, subs>>
  BY <1>1, <1>2, ReturnStep
<1>3. CASE ~ UNCHANGED <<row, parent, owner, subs>>
  <2>1. PICK s \in FreshRow(Subs) :
          /\ MayHold(th[t].arg) /\ Hold(s, NameOf(t), th[t].arg) /\ subs' = subs \cup {s}
    BY <1>3 DEF Subscribe, rowVars
  <2>2. s \in Subs /\ s \in Rows /\ s \notin Incs /\ row[s] = "none"
    BY <2>1, Constants DEF FreshRow
  <2> DEFINE p == th[t].arg
             n == NameOf(t)
  <2>3. /\ th[t] \in ThreadType /\ Holds(t, th[t]) /\ (t \in Incs => th[t].then # "idle")
        /\ p = None \/ (p \in Incs /\ Published(p))
        /\ n \in Names \cup {Kernel}
        /\ th[t].then \in {"idle", "respond", "gone"} /\ th[t].then \in Places
    BY <1>1, ThreadFacts, NameFacts DEF Holds, ThreadType, Places
  <2>4. PICK q \in ThreadType :
          /\ q.at = th[t].then /\ q.then = th[t].then /\ q.jobs = th[t].jobs
          /\ th' = [th EXCEPT ![t] = q]
    <3> DEFINE r == [at |-> th[t].then]
    <3>1. DOMAIN r = {"at"} /\ r.at = th[t].then /\ Go(t, r)
      BY <1>1
    <3> HIDE DEF r
    <3> QED
      BY <2>3, <3>1, Moved
  <2>5. th' = [th EXCEPT ![t] = q]
    BY <2>4
  <2> HIDE DEF p, n
  <2>6. /\ row' \in [Rows -> {"none", "active", "retiring", "running", "freed"}]
        /\ parent' \in [Rows -> Incs \cup {None}] /\ owner' \in [Rows -> Names \cup {Kernel}]
        /\ row'[s] = "active"
        /\ \A r \in Rows \ {s} : row'[r] = row[r] /\ owner'[r] = owner[r] /\ parent'[r] = parent[r]
        /\ Occupying' = Occupying \cup {s} /\ s \notin Occupying
        /\ \A r \in Rows : Kept(r)
        /\ \A r \in Rows : parent'[r] # None => Published(parent'[r])
        /\ \A r \in Rows : row'[r] = "active" /\ parent'[r] # None => row'[parent'[r]] = "active"
    <3>1. MayHold(p) /\ Hold(s, n, p)
      BY <2>1 DEF p, n
    <3> QED
      BY <2>2, <2>3, <3>1, HoldFacts
  <2>7. \A i \in Incs : Published(i)' <=> Published(i)
    <3>1. th \in [Threads -> ThreadType]
      BY DEF IInv, TypeOK
    <3> QED
      BY <1>1, <2>3, <2>4, <2>5, <3>1, Constants DEF Published
  <2>8. up' \ {s} = up /\ subs' \ {s} = subs
    <3>1. s \notin up /\ s \notin subs
      BY <2>2, <2>6 DEF IInv, TypeOK, RowHolds
    <3> QED
      BY <1>1, <2>1, <3>1
  <2>9. /\ \A i \in Incs : IncHolds(i)'
        /\ \A r \in Rows : r \in subs' => r \in Occupying'
        /\ Routed'
        /\ \A i \in Incs : row[i] # "none" /\ i \notin up => i \notin up'
        /\ \A u \in Threads :
             /\ th[u].at = "publish" =>
                  th[u].arg \in Occupying' /\ owner'[th[u].arg] = owner[th[u].arg]
             /\ th[u].at \in {"execute", "finish"} => row'[th[u].arg] = "running"
             /\ th[u].at = "finish" => GoneNext(th[u].arg)
    BY <1>1, <2>2, <2>6, <2>7, <2>8, HeldRows
  <2>10. \A r \in Rows : RowHolds(r)'
    <3>1. \A r \in Rows : parent'[r] \in Incs \cup {None}
      BY <2>6
    <3> QED
      BY <2>6, <2>7, <2>9, <3>1 DEF RowHolds
  <2>11. TypeOK'
    BY <1>1, <2>1, <2>2, <2>4, <2>5, <2>6 DEF IInv, TypeOK
  <2>12. Holds(t, q)'
    <3>1. \A k \in 1 .. Len(q.jobs) : q.jobs[k] \in Jobs /\ JobHolds(q.jobs[k])
      BY <2>3, <2>4 DEF Holds, ThreadType
    <3>2. \A k \in 1 .. Len(q.jobs) : JobHolds(q.jobs[k])'
      <4> SUFFICES ASSUME NEW k \in 1 .. Len(q.jobs) PROVE JobHolds(q.jobs[k])'
        OBVIOUS
      <4>1. q.jobs[k].why = "refused" => q.jobs[k].of \in Incs
        BY <3>1 DEF JobHolds, Jobs
      <4> QED
        BY <2>6, <2>7, <2>9, <3>1, <4>1, JobKept
    <3> QED
      BY <2>3, <2>4, <3>2 DEF Holds
  <2>13. \A u \in Threads : Apart(t, u)' /\ Apart(u, t)'
    BY <2>3, <2>4, <2>5, QuietStep
  <2>14. \A u \in Threads : th[u].at = "publish" => lock' = u
    BY <1>1 DEF IInv, Holds
  <2> QED
    BY <1>1, <2>3, <2>4, <2>5, <2>6, <2>9, <2>10, <2>11, <2>12, <2>13, <2>14, WorldStep
<1> QED
  BY <1>2, <1>3

LEMMA SpawnStep ==
  ASSUME IInv, NEW t \in Threads, Spawn(t)
  PROVE  IInv'
<1> DEFINE p == th[t].arg
<1>1. PICK n \in Names : th[t].at = "spawn" /\ SpawnHold(t, n, p)
  BY DEF Spawn, At
<1>2. /\ th[t] \in ThreadType /\ Holds(t, th[t]) /\ (t \in Incs => th[t].then # "idle")
      /\ p = None \/ (p \in Incs /\ Published(p))
  BY <1>1, ThreadFacts DEF Holds
<1> HIDE DEF p
<1>3. CASE Go(t, [at |-> th[t].then]) /\ UNCHANGED <<rowVars, up, lock>>
  <2>1. UNCHANGED <<row, parent, owner, up, plugins, routes, subs, lock, cut>>
    BY <1>1, <1>3 DEF SpawnHold, rowVars
  <2> QED
    BY <1>1, <1>3, <2>1, ReturnStep
<1>4. CASE ~ (Go(t, [at |-> th[t].then]) /\ UNCHANGED <<rowVars, up, lock>>)
  <2>1. PICK i \in FreshRow(Incs) :
          /\ MayHold(p) /\ Hold(i, n, p) /\ up' = up \cup {i} /\ lock' = t
          /\ Go(t, [at |-> "publish", arg |-> i])
    BY <1>1, <1>4 DEF SpawnHold, LockOf
  <2>2. /\ i \in Incs /\ i \in Rows /\ i \notin Subs /\ row[i] = "none"
        /\ UNCHANGED <<plugins, routes, subs, cut>> /\ Unlocked
    BY <1>1, <2>1, Constants DEF FreshRow, SpawnHold
  <2>3. PICK q \in ThreadType :
          /\ q.at = "publish" /\ q.then = th[t].then /\ q.jobs = th[t].jobs /\ q.arg = i
          /\ th' = [th EXCEPT ![t] = q]
    <3> DEFINE r == [at |-> "publish", arg |-> i]
    <3>1. DOMAIN r = {"at", "arg"} /\ r.at = "publish" /\ r.arg = i /\ Go(t, r) /\ "publish" \in Places
      BY <2>1 DEF Places
    <3> HIDE DEF r
    <3> QED
      BY <1>2, <2>2, <3>1, Moved
  <2>4. /\ row' \in [Rows -> {"none", "active", "retiring", "running", "freed"}]
        /\ parent' \in [Rows -> Incs \cup {None}] /\ owner' \in [Rows -> Names \cup {Kernel}]
        /\ row'[i] = "active" /\ owner'[i] = n
        /\ \A r \in Rows \ {i} : row'[r] = row[r] /\ owner'[r] = owner[r] /\ parent'[r] = parent[r]
        /\ Occupying' = Occupying \cup {i} /\ i \notin Occupying
        /\ \A r \in Rows : Kept(r)
        /\ ~ Published(i)
        /\ \A r \in Rows : parent'[r] # None => Published(parent'[r])
        /\ \A r \in Rows : row'[r] = "active" /\ parent'[r] # None => row'[parent'[r]] = "active"
    BY <1>2, <2>1, <2>2, HoldFacts
  <2>5. th'[t] = q /\ \A u \in Threads \ {t} : th'[u] = th[u]
    BY <2>3 DEF IInv, TypeOK
  <2>6. \A j \in Incs : Published(j)' <=> Published(j)
    BY <1>1, <2>3, <2>5, Constants DEF Published
  <2>7. up' \ {i} = up /\ subs' \ {i} = subs
    <3>1. i \notin up /\ i \notin subs
      BY <2>2, <2>4 DEF IInv, TypeOK, IncHolds
    <3> QED
      BY <2>1, <2>2, <3>1
  <2>8. /\ \A j \in Incs : IncHolds(j)'
        /\ \A r \in Rows : r \in subs' => r \in Occupying'
        /\ Routed'
        /\ \A j \in Incs : row[j] # "none" /\ j \notin up => j \notin up'
        /\ \A u \in Threads :
             /\ th[u].at = "publish" =>
                  th[u].arg \in Occupying' /\ owner'[th[u].arg] = owner[th[u].arg]
             /\ th[u].at \in {"execute", "finish"} => row'[th[u].arg] = "running"
             /\ th[u].at = "finish" => GoneNext(th[u].arg)
    BY <2>2, <2>4, <2>6, <2>7, HeldRows
  <2>9. \A r \in Rows : RowHolds(r)'
    <3>1. \A r \in Rows : parent'[r] \in Incs \cup {None}
      BY <2>4
    <3> QED
      BY <2>4, <2>6, <2>8, <3>1 DEF RowHolds
  <2>10. TypeOK'
    BY <2>1, <2>2, <2>3, <2>4 DEF IInv, TypeOK
  <2>11. \A k \in 1 .. Len(q.jobs) : q.jobs[k] \in Jobs /\ JobHolds(q.jobs[k])
    BY <1>2, <2>3 DEF Holds, ThreadType
  <2>12. Holds(t, q)'
    <3>1. \A k \in 1 .. Len(q.jobs) : JobHolds(q.jobs[k])'
      <4> SUFFICES ASSUME NEW k \in 1 .. Len(q.jobs) PROVE JobHolds(q.jobs[k])'
        OBVIOUS
      <4>1. q.jobs[k].why = "refused" => q.jobs[k].of \in Incs
        BY <2>11 DEF JobHolds, Jobs
      <4> QED
        BY <2>4, <2>6, <2>8, <2>11, <4>1, JobKept
    <3> QED
      BY <1>2, <2>1, <2>2, <2>3, <2>4, <2>6, <3>1 DEF Holds
  <2>13. \A u \in Threads : th[u].at # "publish"
    BY <2>2, NoPublish
  <2>14. ASSUME NEW u \in Threads PROVE Apart(t, u)' /\ Apart(u, t)'
    <3>1. /\ th[u].at = "finish" => th[u].arg # i
          /\ \A k \in 1 .. Len(th[u].jobs) :
               ~ (th[u].jobs[k].why = "refused" /\ th[u].jobs[k].of = i)
      <4>1. Holds(u, th[u]) /\ \A k \in 1 .. Len(th[u].jobs) : th[u].jobs[k] \in Jobs
        BY ThreadFacts DEF ThreadType
      <4> QED
        BY <2>2, <4>1 DEF Holds, JobHolds, Jobs
    <3>2. \A k \in 1 .. Len(q.jobs) : ~ (q.jobs[k].why = "refused" /\ q.jobs[k].of = i)
      BY <2>2, <2>11 DEF JobHolds, Jobs
    <3>3. CASE u = t
      BY <2>3, <2>5, <3>2, <3>3 DEF Apart
    <3>4. CASE u # t
      BY <2>3, <2>5, <2>13, <3>1, <3>4 DEF Apart
    <3> QED
      BY <3>3, <3>4
  <2>15. t \in Incs => (q.at = "idle" <=> th[t].at = "idle")
    BY <1>1, <2>3
  <2> QED
    BY ZenonT(40), <2>3, <2>4, <2>8, <2>9, <2>10, <2>12, <2>13, <2>14, <2>15, WorldStep
<1> QED
  BY <1>3, <1>4

----------------------------------------------------------------------------
(* Publication: the only step that starts a client loop.                   *)
LEMMA RefusedStep ==
  ASSUME IInv, NEW t \in Threads, th[t].at = "publish", lock' = None,
         Go(t, [at |-> "jobs", jobs |-> <<[kind |-> "row", of |-> th[t].arg, why |-> "refused"]>>]),
         UNCHANGED <<row, parent, owner, up, plugins, routes, subs, cut>>
  PROVE  IInv'
<1> DEFINE i == th[t].arg
<1>1. /\ th[t] \in ThreadType /\ Holds(t, th[t]) /\ (t \in Incs => th[t].then # "idle")
      /\ lock = t /\ i \in Incs /\ i \in Rows /\ i \in Occupying /\ ~ Published(i)
  BY ThreadFacts, Constants DEF Holds
<1>2. PICK q \in ThreadType :
        /\ q.at = "jobs" /\ q.then = th[t].then /\ Len(q.jobs) = 1
        /\ q.jobs[1] = [kind |-> "row", of |-> i, why |-> "refused"]
        /\ th' = [th EXCEPT ![t] = q]
  <2> DEFINE j == [kind |-> "row", of |-> i, why |-> "refused"]
             jobs == <<j>>
             r == [at |-> "jobs", jobs |-> jobs]
  <2>1. DOMAIN r = {"at", "jobs"} /\ r.at = "jobs" /\ r.jobs = jobs /\ Go(t, r) /\ "jobs" \in Places
    BY DEF Places
  <2>2. j \in Jobs
    BY <1>1 DEF Jobs
  <2>3. jobs \in Seq(Jobs) /\ Len(jobs) = 1 /\ jobs[1] = j
    BY <2>2
  <2> HIDE DEF r, jobs, j
  <2>4. \E q \in ThreadType :
          q.at = "jobs" /\ q.then = th[t].then /\ q.jobs = jobs /\ th' = [th EXCEPT ![t] = q]
    BY <1>1, <2>1, <2>3, Moved
  <2> QED
    BY <2>3, <2>4 DEF j
<1> HIDE DEF i
<1>3. th'[t] = q /\ \A u \in Threads \ {t} : th'[u] = th[u]
  BY <1>2 DEF IInv, TypeOK
<1>4. \A u \in Threads \ {t} : th[u].at # "publish"
  BY <1>1 DEF IInv, Holds
<1>5. \A k \in Incs : Published(k)' <=> Published(k)
  BY <1>2, <1>3, Constants DEF Published
<1>6. Occupying' = Occupying /\ \A r \in Rows : Kept(r)
  BY DEF Occupying, Kept
<1>7. TypeOK'
  BY <1>2 DEF IInv, TypeOK
<1>8. (\A k \in Incs : IncHolds(k)') /\ (\A r \in Rows : RowHolds(r)') /\ Routed'
  <2>1. \A r \in Rows : parent[r] \in Incs \cup {None}
    BY DEF IInv, TypeOK
  <2> QED
    BY <1>5, <1>6, <2>1 DEF IInv, IncHolds, RowHolds, Routed
<1>9. Holds(t, q)'
  <2>1. row[i] # "none"
    BY <1>1, OccupyingFacts
  <2>2. JobHolds(q.jobs[1])'
    BY <1>1, <1>2, <1>5, <2>1 DEF JobHolds
  <2>3. \A k \in 1 .. Len(q.jobs) : k = 1
    BY <1>2
  <2>4. \A k \in 1 .. Len(q.jobs) : JobHolds(q.jobs[k])'
    BY <2>2, <2>3
  <2> QED
    BY <1>1, <1>2, <2>4 DEF Holds
<1>10. ASSUME NEW u \in Threads PROVE Apart(t, u)' /\ Apart(u, t)'
  BY <1>2, <1>3, <1>4 DEF Apart
<1>11. \A u \in Threads \ {t} :
         /\ th[u].at \in {"execute", "finish"} => row'[th[u].arg] = "running"
         /\ th[u].at = "finish" => GoneNext(th[u].arg)
  BY DEF IInv, Holds, Gone, GoneNext
<1>12. t \in Incs => (q.at = "idle" <=> th[t].at = "idle")
  BY <1>2
<1> QED
  BY <1>2, <1>4, <1>6, <1>7, <1>8, <1>9, <1>10, <1>11, <1>12, WorldStep

LEMMA AtFacts ==
  ASSUME NEW q \in ThreadType, NEW at \in Places, NEW p, p = [q EXCEPT !.at = at]
  PROVE  /\ p \in ThreadType /\ p.at = at /\ p.then = q.then /\ p.arg = q.arg
         /\ p.jobs = q.jobs
BY DEF ThreadType

LEMMA PublishedStep ==
  ASSUME IInv, NEW t \in Threads, th[t].at = "publish", lock' = None,
         NEW declared \in SUBSET Verbs,
         LET i == th[t].arg
             n == owner[i]
         IN /\ routes' = [v \in Verbs |-> IF v \in declared THEN n ELSE routes[v]]
            /\ plugins' = [plugins EXCEPT ![n] = i]
            /\ th' = [th EXCEPT ![t].at = th[t].then, ![i].at = "read"],
         UNCHANGED <<row, parent, owner, up, subs, cut>>
  PROVE  IInv'
<1> DEFINE i == th[t].arg
           n == owner[i]
<1>1. /\ th[t] \in ThreadType /\ Holds(t, th[t]) /\ (t \in Incs => th[t].then # "idle")
      /\ lock = t /\ i \in Incs /\ i \in Rows /\ i \in Occupying /\ ~ Published(i) /\ n \in Names
      /\ i \in Threads /\ i # t /\ i # None
  BY ThreadFacts, Constants DEF Holds, Published
<1>2. /\ routes' = [v \in Verbs |-> IF v \in declared THEN n ELSE routes[v]]
      /\ plugins' = [plugins EXCEPT ![n] = i]
      /\ th' = [th EXCEPT ![t].at = th[t].then, ![i].at = "read"]
  OBVIOUS
<1>3. th[i].at = "idle" /\ th[i] \in ThreadType /\ Holds(i, th[i])
  BY <1>1, ThreadFacts DEF Published
<1> HIDE DEF i, n
<1>4. TypeOK /\ th \in [Threads -> ThreadType]
  BY DEF IInv, TypeOK
<1>5. /\ th'[t] = [th[t] EXCEPT !.at = th[t].then] /\ th'[i] = [th[i] EXCEPT !.at = "read"]
      /\ \A u \in Threads \ {t, i} : th'[u] = th[u]
  BY <1>1, <1>2, <1>4
<1>6. /\ th'[t] \in ThreadType /\ th'[t].at = th[t].then /\ th'[t].then = th[t].then
      /\ th'[t].jobs = th[t].jobs
  <2>1. th[t].then \in Places
    BY <1>1 DEF ThreadType, Places
  <2> SUFFICES ASSUME NEW p, p = th[t], NEW at, at = th[t].then, NEW x, x = th'[t]
               PROVE  x \in ThreadType /\ x.at = at /\ x.then = p.then /\ x.jobs = p.jobs
    BY ZenonT(40)
  <2>2. p \in ThreadType /\ at \in Places /\ x = [p EXCEPT !.at = at]
    BY <1>1, <1>5, <2>1
  <2> QED
    BY ONLY <2>2, AtFacts
<1>7. th'[i] \in ThreadType /\ th'[i].at = "read" /\ th'[i].jobs = th[i].jobs
  <2> SUFFICES ASSUME NEW p, p = th[i], NEW at, at = "read", NEW x, x = th'[i]
               PROVE  x \in ThreadType /\ x.at = at /\ x.jobs = p.jobs
    OBVIOUS
  <2>1. p \in ThreadType /\ at \in Places /\ x = [p EXCEPT !.at = at]
    BY <1>3, <1>5 DEF Places
  <2> QED
    BY <2>1, AtFacts
<1>8. th[t].then \in {"idle", "respond", "gone"}
  BY <1>1 DEF ThreadType
<1>9. \A k \in Incs : Published(k)' <=> Published(k) \/ k = i
  <2>1. ASSUME NEW k \in Incs PROVE Published(k)' <=> Published(k) \/ k = i
    <3>1. CASE k = i
      BY <1>7, <3>1 DEF Published
    <3>2. CASE k = t
      BY <1>1, <1>6, <3>2 DEF Published
    <3>3. CASE k # i /\ k # t
      BY <1>5, <3>3, Constants DEF Published
    <3> QED
      BY <3>1, <3>2, <3>3
  <2> QED
    BY <2>1
<1>10. TypeOK'
  <2>1. th' \in [Threads -> ThreadType]
    <3>1. \A u \in Threads : th'[u] \in ThreadType
      BY <1>4, <1>5, <1>6, <1>7
    <3>2. th' = [u \in Threads |-> th'[u]]
      BY <1>2, <1>4
    <3> QED
      BY <3>1, <3>2
  <2>2. routes' \in [Verbs -> Names \cup {"none"}]
    <3>1. \A v \in Verbs : routes[v] \in Names \cup {"none"}
      BY <1>4 DEF TypeOK
    <3> QED
      BY <1>1, <1>2, <3>1
  <2>3. plugins' \in [Names -> Incs \cup {None}]
    <3>1. plugins \in [Names -> Incs \cup {None}]
      BY <1>4 DEF TypeOK
    <3> SUFFICES ASSUME NEW P, P = Incs \cup {None}, NEW m, m = n, NEW k, k = i
                 PROVE  plugins' \in [Names -> P]
      OBVIOUS
    <3>2. plugins \in [Names -> P] /\ m \in Names /\ k \in P /\ plugins' = [plugins EXCEPT ![m] = k]
      BY <1>1, <1>2, <3>1
    <3> QED
      BY <3>2
  <2> QED
    BY <1>4, <2>1, <2>2, <2>3 DEF TypeOK
<1>11. /\ plugins'[n] = i /\ \A m \in Names \ {n} : plugins'[m] = plugins[m]
       /\ Occupying' = Occupying /\ \A r \in Rows : Kept(r)
  BY <1>1, <1>2, <1>4 DEF TypeOK, Occupying, Kept
<1>12. ASSUME NEW k \in Incs PROVE IncHolds(k)'
  <2>1. IncHolds(k)
    BY DEF IInv
  <2>2. \A m \in Names : plugins'[m] = k => owner'[k] = m /\ k \in Occupying' /\ Published(k)'
    BY <1>1, <1>9, <1>11, <2>1 DEF IncHolds, n
  <2>3. Published(k)' => row'[k] # "none" /\ owner'[k] \in Names
    BY <1>1, <1>9, <2>1, OccupyingFacts DEF IncHolds, n
  <2> QED
    BY <1>11, <2>1, <2>2, <2>3 DEF IncHolds
<1>13. ASSUME NEW r \in Rows PROVE RowHolds(r)'
  <2>1. parent[r] \in Incs \cup {None}
    BY <1>4 DEF TypeOK
  <2> QED
    BY <1>9, <1>11, <2>1 DEF IInv, RowHolds
<1>14. Routed'
  <2>1. \A v \in Verbs : routes[v] # "none" => routes[v] \in Names /\ plugins[routes[v]] # None
    BY <1>4 DEF IInv, TypeOK, Routed
  <2> QED
    BY <1>1, <1>2, <1>11, <2>1 DEF Routed
<1>15. \A u \in Threads \ {t} : th[u].at # "publish"
  BY <1>1 DEF IInv, Holds
<1>16. \A u \in Threads : \A k \in 1 .. Len(th[u].jobs) :
         ~ (th[u].jobs[k].why = "refused" /\ th[u].jobs[k].of = i)
  BY DEF IInv, Apart, i
<1>17. ASSUME NEW u \in Threads, NEW k \in 1 .. Len(th[u].jobs) PROVE JobHolds(th[u].jobs[k])'
  <2> SUFFICES ASSUME NEW j \in Jobs, j = th[u].jobs[k] PROVE JobHolds(j)'
    <3>1. th[u].jobs[k] \in Jobs /\ th'[u].jobs[k] = th[u].jobs[k]
      BY <1>4, <1>5, <1>6, <1>7 DEF ThreadType
    <3> QED
      BY <3>1
  <2>1. JobHolds(j)
    BY DEF IInv, Holds
  <2>2. j.why = "refused" => j.of \in Incs /\ j.of # i
    BY <1>16, <2>1 DEF JobHolds, Jobs
  <2> QED
    BY <1>9, <1>11, <2>1, <2>2, JobKept
<1>18. ASSUME NEW u \in Threads PROVE Holds(u, th[u])'
  <2>1. \A k \in 1 .. Len(th'[u].jobs) : JobHolds(th[u].jobs[k])'
    <3>1. th'[u].jobs = th[u].jobs
      BY <1>5, <1>6, <1>7
    <3> QED
      BY <1>17, <3>1
  <2>2. CASE u = t
    BY <1>1, <1>6, <1>8, <2>1, <2>2 DEF Holds
  <2>3. CASE u = i
    BY <1>7, <2>1, <2>3 DEF Holds
  <2>4. CASE u # t /\ u # i
    <3>1. th'[u] = th[u] /\ Holds(u, th[u]) /\ th[u].at # "publish"
      BY <1>5, <1>15, <2>4 DEF IInv
    <3>2. th[u].at = "finish" => Gone(th[u].arg)'
      <4>1. th[u].at = "finish" => Gone(th[u].arg) /\ th[u].arg # i
        BY <3>1 DEF Holds, IInv, Apart, i
      <4> QED
        BY <1>11, <3>1, <4>1 DEF Gone
    <3> QED
      BY <1>9, <2>1, <3>1, <3>2 DEF Holds
  <2> QED
    BY <2>2, <2>3, <2>4
<1>19. ASSUME NEW v \in Threads, NEW u \in Threads PROVE Apart(v, u)'
  <2>1. ASSUME NEW w \in Threads
        PROVE  /\ th'[w].at \in {"execute", "finish"} => th'[w] = th[w]
               /\ th'[w].at # "publish"
    <3>1. CASE w = t
      BY <1>6, <1>8, <3>1
    <3>2. CASE w = i
      BY <1>7, <3>2
    <3>3. CASE w # t /\ w # i
      BY <1>5, <1>15, <3>3
    <3> QED
      BY <3>1, <3>2, <3>3
  <2>2. v # u /\ th'[v].at \in {"execute", "finish"} /\ th'[u].at \in {"execute", "finish"} =>
          th'[v].arg # th'[u].arg
    <3>1. Apart(v, u)
      BY DEF IInv
    <3> QED
      BY <2>1, <3>1 DEF Apart
  <2> QED
    BY <2>1, <2>2 DEF Apart
<1> QED
  BY <1>10, <1>12, <1>13, <1>14, <1>18, <1>19 DEF IInv

LEMMA PublishStep ==
  ASSUME IInv, NEW t \in Threads, SpawnPublish(t)
  PROVE  IInv'
<1> DEFINE i == th[t].arg
           n == owner[i]
<1>1. th[t].at = "publish" /\ lock' = None /\ UNCHANGED <<row, parent, owner, up, subs, cut>>
  BY DEF SpawnPublish, At, rowVars
<1>2. n \in Names
  BY <1>1, ThreadFacts DEF Holds
<1>3. PICK declared \in Declares[n] :
        IF \E v \in declared : routes[v] # "none"
        THEN /\ Go(t, [at |-> "jobs", jobs |-> <<[kind |-> "row", of |-> i, why |-> "refused"]>>])
             /\ UNCHANGED <<plugins, routes, pump>>
        ELSE /\ routes' = [v \in Verbs |-> IF v \in declared THEN n ELSE routes[v]]
             /\ plugins' = [plugins EXCEPT ![n] = i] /\ pump' = pump \cup {i}
             /\ th' = [th EXCEPT ![t].at = th[t].then, ![i].at = "read"]
  BY DEF SpawnPublish
<1>4. declared \in SUBSET Verbs
  BY <1>2
<1>5. CASE \E v \in declared : routes[v] # "none"
  BY <1>1, <1>3, <1>5, RefusedStep
<1>6. CASE ~ \E v \in declared : routes[v] # "none"
  BY <1>1, <1>3, <1>4, <1>6, PublishedStep
<1> QED
  BY <1>5, <1>6

----------------------------------------------------------------------------
(* Reclaiming: the list of jobs, and what one of them retires.             *)
LEMMA TailFacts ==
  ASSUME NEW jobs \in Seq(Jobs), jobs # <<>>
  PROVE  /\ 1 \in 1 .. Len(jobs) /\ Head(jobs) = jobs[1] /\ Head(jobs) \in Jobs
         /\ Tail(jobs) \in Seq(Jobs)
         /\ \A k \in 1 .. Len(Tail(jobs)) : k + 1 \in 1 .. Len(jobs) /\ Tail(jobs)[k] = jobs[k + 1]
OBVIOUS

LEMMA JobsStep ==
  ASSUME IInv, NEW t \in Threads, th[t].at = "jobs", NEW more \in Seq(Jobs),
         Go(t, [jobs |-> more]),
         UNCHANGED <<row, parent, owner, up, plugins, routes, subs, lock, cut>>,
         \A k \in 1 .. Len(more) :
           \/ \E m \in 1 .. Len(th[t].jobs) : more[k] = th[t].jobs[m]
           \/ more[k].why # "refused" /\ JobHolds(more[k])
  PROVE  IInv'
<1> DEFINE r == [jobs |-> more]
           q == With(th[t], r)
<1>1. DOMAIN r = {"jobs"} /\ r.jobs = more /\ Go(t, r)
  OBVIOUS
<1> HIDE DEF r
<1>2. th[t] \in ThreadType /\ (t \in Incs => th[t].then # "idle")
  BY ThreadFacts
<1>3. q \in ThreadType /\ q.at = "jobs" /\ q.then = th[t].then /\ q.jobs = more
  BY <1>1, <1>2, WithFields
<1>4. "jobs" \in Plain
  BY DEF Plain, Places
<1> HIDE DEF q
<1> QED
  BY <1>1, <1>2, <1>3, <1>4, PlainStep DEF q

(* What the owner of i has is closed under what is held under it.          *)
LEMMA ClosureFacts ==
  ASSUME NEW i \in Rows
  PROVE  Closure(i) \in SUBSET Rows /\ Children(Closure(i)) \subseteq Closure(i)
<1> DEFINE own == {r \in Occupying : owner[r] = owner[i]}
           Good(S) == own \subseteq S /\ Children(S) \subseteq S
<1>1. Closure(i) = {r \in Occupying : \A S \in SUBSET Occupying : Good(S) => r \in S}
  BY DEF Closure
<1>2. Occupying \subseteq Rows /\ Children(Closure(i)) \subseteq Occupying
  BY DEF Occupying, Children
<1>3. ASSUME NEW r \in Children(Closure(i)), NEW S \in SUBSET Occupying, Good(S) PROVE r \in S
  <2>1. r \in Occupying /\ parent[r] \in Closure(i)
    BY DEF Children
  <2>2. parent[r] \in S
    BY <1>1, <1>3, <2>1
  <2> QED
    BY <1>3, <2>1, <2>2 DEF Children
<1> QED
  BY <1>1, <1>2, <1>3

LEMMA RetireStep ==
  ASSUME IInv, NEW t \in Threads, NEW q \in ThreadType, th[t].at = "jobs",
         th' = [th EXCEPT ![t] = q], q.at = "cleanup", q.then = th[t].then,
         \A k \in 1 .. Len(q.jobs) : \E m \in 1 .. Len(th[t].jobs) : q.jobs[k] = th[t].jobs[m],
         NEW S \in SUBSET Rows, Retire(S),
         \A r \in Rows : row[r] = "active" /\ parent[r] # None /\ parent[r] \in S => r \in S,
         NEW C \in SUBSET Incs, cut' = cut \cup C,
         \A i \in C : i \notin up /\ row[i] # "none",
         UNCHANGED <<parent, owner, up, plugins, routes, subs, lock>>
  PROVE  IInv'
<1>1. /\ TypeOK /\ (t \in Incs => th[t].then # "idle")
      /\ row \in [Rows -> {"none", "active", "retiring", "running", "freed"}]
      /\ \A r \in Rows : parent[r] \in Incs \cup {None}
  BY ThreadFacts DEF IInv, TypeOK
<1>2. row' = [r \in Rows |-> IF r \in S /\ row[r] = "active" THEN "retiring" ELSE row[r]]
  BY DEF Retire
<1>3. /\ \A r \in Rows : row'[r] = "active" => row[r] = "active" /\ r \notin S
      /\ \A r \in Rows : row[r] = "active" /\ r \notin S => row'[r] = "active"
      /\ \A r \in Rows : row[r] = "running" => row'[r] = "running"
      /\ \A r \in Rows : row'[r] = "none" <=> row[r] = "none"
      /\ \A r \in Rows : row[r] \in {"active", "retiring", "running"} <=>
                         row'[r] \in {"active", "retiring", "running"}
  BY <1>1, <1>2
<1>4. row' \in [Rows -> {"none", "active", "retiring", "running", "freed"}]
  BY <1>1, <1>2
<1>5. Occupying' = Occupying /\ \A r \in Rows : Kept(r)
  BY <1>3 DEF Occupying, Kept
<1>6. th'[t] = q /\ \A u \in Threads \ {t} : th'[u] = th[u]
  BY <1>1 DEF TypeOK
<1>7. \A i \in Incs : Published(i)' <=> Published(i)
  BY <1>6, Constants DEF Published
<1>8. TypeOK'
  BY <1>1, <1>4 DEF TypeOK
<1>9. ASSUME NEW i \in Incs PROVE IncHolds(i)'
  <2>1. IncHolds(i) /\ i \in Rows
    BY Constants DEF IInv
  <2>2. i \in cut' => i \notin up /\ row'[i] # "none"
    BY <1>3, <2>1 DEF IncHolds
  <2> QED
    BY <1>3, <1>5, <1>7, <2>1, <2>2 DEF IncHolds
<1>10. ASSUME NEW r \in Rows PROVE RowHolds(r)'
  <2>1. RowHolds(r)
    BY DEF IInv
  <2>2. parent[r] # None => parent[r] \in Incs /\ parent[r] \in Rows
    BY <1>1, Constants
  <2>3. row'[r] = "active" /\ parent[r] # None => row'[parent[r]] = "active"
    BY <1>3, <2>1, <2>2 DEF RowHolds
  <2> QED
    BY <1>5, <1>7, <2>1, <2>2, <2>3 DEF RowHolds
<1>11. Routed'
  BY DEF IInv, Routed
<1>12. ASSUME NEW u \in Threads
       PROVE  /\ th[u].at = "publish" =>
                   /\ lock' = u /\ th[u].arg \in Occupying'
                   /\ owner'[th[u].arg] = owner[th[u].arg]
              /\ th[u].at \in {"execute", "finish"} => row'[th[u].arg] = "running"
              /\ th[u].at = "finish" => GoneNext(th[u].arg)
  <2>1. Holds(u, th[u])
    BY DEF IInv
  <2> QED
    BY <1>3, <1>5, <2>1 DEF Holds, Gone, GoneNext
<1>13. Holds(t, q)'
  <2>1. ASSUME NEW k \in 1 .. Len(q.jobs) PROVE JobHolds(q.jobs[k])'
    <3>1. q.jobs[k] \in Jobs /\ JobHolds(q.jobs[k])
      BY ThreadFacts DEF Holds, ThreadType
    <3>2. q.jobs[k].why = "refused" => q.jobs[k].of \in Incs
      BY <3>1 DEF JobHolds, Jobs
    <3> QED
      BY <1>5, <1>7, <3>1, <3>2, JobKept
  <2> QED
    BY <1>1, <2>1 DEF Holds
<1>14. \A u \in Threads : Apart(t, u)' /\ Apart(u, t)'
  <2>1. \A k \in 1 .. Len(q.jobs) : \E m \in 1 .. Len(th[t].jobs) : th[t].jobs[m] = q.jobs[k]
    OBVIOUS
  <2> QED
    BY <2>1, QuietStep
<1> QED
  BY <1>5, <1>8, <1>9, <1>10, <1>11, <1>12, <1>13, <1>14, WorldStep

LEMMA NextJobStep ==
  ASSUME IInv, NEW t \in Threads, NextJob(t)
  PROVE  IInv'
<1> DEFINE jobs == th[t].jobs
           rest == Tail(jobs)
           job == Head(jobs)
           r == job.of
<1>1. /\ UNCHANGED <<parent, owner, up, plugins, routes, subs, lock>>
      /\ th[t].at = "jobs"
  BY DEF NextJob, At, procVars, tableVars
<1>2. th[t] \in ThreadType /\ Holds(t, th[t]) /\ jobs \in Seq(Jobs)
  BY ThreadFacts DEF ThreadType
<1>3. \/ /\ jobs = <<>> /\ Go(t, [at |-> th[t].then])
         /\ UNCHANGED <<row, cut>>
      \/ /\ jobs # <<>> /\ job.kind = "name"
         /\ Go(t, [jobs |-> IF plugins[r] = None THEN rest
                            ELSE <<[kind |-> "row", of |-> plugins[r], why |-> job.why]>> \o rest])
         /\ UNCHANGED <<row, cut>>
      \/ /\ jobs # <<>> /\ job.kind = "row"
         /\ Go(t, [jobs |-> rest])
         /\ UNCHANGED <<row, cut>>
      \/ /\ jobs # <<>> /\ job.kind = "row" /\ r \in Occupying
         /\ Retire(ScopeOf(job))
         /\ cut' = IF row[r] = "active" /\ job.why = "closed" THEN cut \cup {r} ELSE cut
         /\ Go(t, [at |-> "cleanup", jobs |-> rest, scope |-> ScopeOf(job)])
  BY DEF NextJob
<1>4. CASE jobs = <<>> /\ Go(t, [at |-> th[t].then]) /\ UNCHANGED <<row, cut>>
  BY <1>1, <1>4, ReturnStep
<1>5. CASE jobs # <<>>
  <2>1. /\ job \in Jobs /\ JobHolds(job) /\ rest \in Seq(Jobs)
        /\ \A k \in 1 .. Len(rest) : \E m \in 1 .. Len(th[t].jobs) : rest[k] = th[t].jobs[m]
    <3>1. jobs \in Seq(Jobs) /\ jobs # <<>> /\ \A k \in 1 .. Len(jobs) : JobHolds(jobs[k])
      BY <1>2, <1>5 DEF Holds
    <3> SUFFICES ASSUME NEW list, list = jobs
                 PROVE  /\ Head(list) \in Jobs /\ JobHolds(Head(list)) /\ Tail(list) \in Seq(Jobs)
                        /\ \A k \in 1 .. Len(Tail(list)) :
                             \E m \in 1 .. Len(list) : Tail(list)[k] = list[m]
      OBVIOUS
    <3> HIDE DEF jobs
    <3> QED
      BY <3>1, TailFacts
  <2> HIDE DEF job, rest, jobs
  <2>2. CASE Go(t, [jobs |-> rest]) /\ UNCHANGED <<row, cut>>
    BY <1>1, <2>1, <2>2, JobsStep
  <2>3. CASE /\ job.kind = "name" /\ plugins[r] # None /\ UNCHANGED <<row, cut>>
             /\ Go(t, [jobs |-> <<[kind |-> "row", of |-> plugins[r], why |-> job.why]>> \o rest])
    <3> DEFINE j == [kind |-> "row", of |-> plugins[r], why |-> job.why]
               more == <<j>> \o rest
    <3>1. r \in Names /\ job.why \in {"asked", "overflow"}
      BY <2>1, <2>3 DEF Jobs
    <3>2. plugins[r] \in Incs /\ plugins[r] \in Rows /\ row[plugins[r]] # "none"
      BY <2>3, <3>1, SeenFacts, Constants, OccupyingFacts
    <3>3. j \in Jobs /\ j.why # "refused" /\ JobHolds(j)
      BY <3>1, <3>2 DEF Jobs, JobHolds
    <3>4. Go(t, [jobs |-> <<j>> \o rest])
      BY <2>3
    <3> HIDE DEF j
    <3>5. more \in Seq(Jobs) /\ Len(more) = 1 + Len(rest) /\ more[1] = j
      BY <2>1, <3>3
    <3>6. \A k \in 1 .. Len(more) : k # 1 => k - 1 \in 1 .. Len(rest) /\ more[k] = rest[k - 1]
      BY <2>1, <3>3
    <3>7. Go(t, [jobs |-> more])
      BY <3>4
    <3> HIDE DEF more
    <3>8. \A k \in 1 .. Len(more) :
            \/ \E m \in 1 .. Len(th[t].jobs) : more[k] = th[t].jobs[m]
            \/ more[k].why # "refused" /\ JobHolds(more[k])
      <4> SUFFICES ASSUME NEW k \in 1 .. Len(more)
                   PROVE  \/ \E m \in 1 .. Len(th[t].jobs) : more[k] = th[t].jobs[m]
                          \/ more[k].why # "refused" /\ JobHolds(more[k])
        OBVIOUS
      <4>1. CASE k = 1
        BY <3>3, <3>5, <4>1
      <4>2. CASE k # 1
        BY <2>1, <3>6, <4>2
      <4> QED
        BY <4>1, <4>2
    <3> QED
      BY <1>1, <2>3, <3>5, <3>7, <3>8, JobsStep
  <2>4. CASE /\ job.kind = "row" /\ r \in Occupying /\ Retire(ScopeOf(job))
             /\ cut' = IF row[r] = "active" /\ job.why = "closed" THEN cut \cup {r} ELSE cut
             /\ Go(t, [at |-> "cleanup", jobs |-> rest, scope |-> ScopeOf(job)])
    <3> DEFINE S == ScopeOf(job)
               C == IF row[r] = "active" /\ job.why = "closed" THEN {r} ELSE {}
    <3>1. r \in Rows /\ row[r] # "none"
      BY <2>4 DEF Occupying
    <3>2. S \in SUBSET Rows
      BY <3>1, ClosureFacts DEF ScopeOf
    <3>3. \A s \in Rows : row[s] = "active" /\ parent[s] # None /\ parent[s] \in S => s \in S
      <4> SUFFICES ASSUME NEW s \in Rows, row[s] = "active", parent[s] # None, parent[s] \in S
                   PROVE  s \in S
        OBVIOUS
      <4>1. parent[s] \in Incs /\ Published(parent[s]) /\ s \in Occupying
        BY DEF IInv, TypeOK, RowHolds, Occupying
      <4>2. CASE r \in Incs /\ job.why # "refused"
        <5>1. S = Closure(r)
          BY <4>2 DEF ScopeOf
        <5> QED
          BY <3>1, <4>1, <5>1, ClosureFacts DEF Children
      <4>3. CASE ~ (r \in Incs /\ job.why # "refused")
        <5>1. S = {r}
          BY <4>3 DEF ScopeOf
        <5>2. job.why = "refused" => ~ Published(r)
          BY <2>1, <2>4 DEF JobHolds
        <5> QED
          BY <4>1, <4>3, <5>1, <5>2
      <4> QED
        BY <4>2, <4>3
    <3>4. C \in SUBSET Incs /\ cut' = cut \cup C /\ \A i \in C : i \notin up /\ row[i] # "none"
      BY <2>1, <2>4, <3>1 DEF JobHolds
    <3>5. PICK q \in ThreadType :
            /\ th' = [th EXCEPT ![t] = q] /\ q.at = "cleanup" /\ q.then = th[t].then
            /\ q.jobs = rest
      <4> DEFINE n == [at |-> "cleanup", jobs |-> rest, scope |-> S]
      <4>1. /\ DOMAIN n = {"at", "jobs", "scope"} /\ n.at = "cleanup" /\ n.jobs = rest
            /\ n.scope = S /\ Go(t, n) /\ "cleanup" \in Places
        BY <2>4 DEF Places
      <4> HIDE DEF n, S
      <4> QED
        BY <1>2, <2>1, <3>2, <4>1, Moved
    <3>6. Retire(S)
      BY <2>4
    <3> HIDE DEF S, C
    <3>7. \A k \in 1 .. Len(q.jobs) : \E m \in 1 .. Len(th[t].jobs) : q.jobs[k] = th[t].jobs[m]
      BY <2>1, <3>5, Zenon
    <3> QED
      BY <1>1, <3>2, <3>3, <3>4, <3>5, <3>6, <3>7, RetireStep
  <2> QED
    BY <1>3, <1>5, <2>2, <2>3, <2>4
<1> QED
  BY <1>3, <1>4, <1>5

----------------------------------------------------------------------------
(* Executors.  A thread that takes a row in hand, or keeps it, stands      *)
(* apart from the others when nobody else has that row.                    *)
LEMMA HandStep ==
  ASSUME IInv, NEW t \in Threads, NEW q \in ThreadType, th' = [th EXCEPT ![t] = q],
         q.at \in {"execute", "finish"}, q.jobs = th[t].jobs,
         \A u \in Threads \ {t} :
           /\ th[u].at \in {"execute", "finish"} => th[u].arg # q.arg
           /\ q.at = "finish" /\ th[u].at = "publish" => th[u].arg # q.arg
  PROVE  \A u \in Threads : Apart(t, u)' /\ Apart(u, t)'
<1>1. th'[t] = q /\ \A u \in Threads \ {t} : th'[u] = th[u]
  BY DEF IInv, TypeOK
<1>2. ASSUME NEW u \in Threads PROVE Apart(t, u)' /\ Apart(u, t)'
  <2>1. Apart(u, t)
    BY DEF IInv
  <2>2. CASE u = t
    BY <1>1, <2>2 DEF Apart
  <2>3. CASE u # t
    BY <1>1, <2>1, <2>3 DEF Apart
  <2> QED
    BY <2>2, <2>3
<1> QED
  BY <1>2

(* The jobs of the thread that moves are as good as they were.             *)
LEMMA JobsKept ==
  ASSUME IInv, NEW t \in Threads, NEW q \in ThreadType, q.jobs = th[t].jobs,
         \A r \in Rows : Kept(r),
         \A i \in Incs : row[i] # "none" /\ i \notin up => i \notin up',
         \A i \in Incs : Published(i)' <=> Published(i)
  PROVE  \A k \in 1 .. Len(q.jobs) : JobHolds(q.jobs[k])'
<1> SUFFICES ASSUME NEW k \in 1 .. Len(q.jobs) PROVE JobHolds(q.jobs[k])'
  OBVIOUS
<1>1. q.jobs[k] \in Jobs /\ JobHolds(q.jobs[k])
  BY ThreadFacts DEF Holds, ThreadType
<1>2. q.jobs[k].why = "refused" => q.jobs[k].of \in Incs
  BY <1>1 DEF JobHolds, Jobs
<1> QED
  BY <1>1, <1>2, JobKept

LEMMA ClaimStep ==
  ASSUME IInv, NEW t \in Threads, Claim(t)
  PROVE  IInv'
<1>1. /\ UNCHANGED <<parent, owner, up, plugins, routes, subs, lock, cut>>
      /\ th[t].at = "cleanup"
  BY DEF Claim, At, procVars, tableVars
<1>2. /\ th[t] \in ThreadType /\ Holds(t, th[t]) /\ (t \in Incs => th[t].then # "idle")
      /\ TypeOK
  BY <1>1, ThreadFacts DEF IInv
<1>3. CASE Go(t, [at |-> "jobs"]) /\ UNCHANGED row
  <2>1. "jobs" \in Plain
    BY DEF Plain, Places
  <2> QED
    BY <1>1, <1>2, <1>3, <2>1, MoveStep
<1>4. CASE ~ (Go(t, [at |-> "jobs"]) /\ UNCHANGED row)
  <2>1. PICK r \in Permitted(th[t].scope) :
          row' = [row EXCEPT ![r] = "running"] /\ Go(t, [at |-> "execute", arg |-> r])
    BY <1>4 DEF Claim
  <2>2. r \in Rows /\ row[r] = "retiring"
    BY <1>2 DEF Permitted, Above, ThreadType
  <2>3. PICK q \in ThreadType :
          /\ th' = [th EXCEPT ![t] = q] /\ q.at = "execute" /\ q.then = th[t].then
          /\ q.arg = r /\ q.jobs = th[t].jobs
    <3> DEFINE n == [at |-> "execute", arg |-> r]
    <3>1. /\ DOMAIN n = {"at", "arg"} /\ n.at = "execute" /\ n.arg = r /\ Go(t, n)
          /\ "execute" \in Places
      BY <2>1 DEF Places
    <3> HIDE DEF n
    <3> QED
      BY <1>2, <2>2, <3>1, Moved
  <2>4. th'[t] = q /\ \A u \in Threads \ {t} : th'[u] = th[u]
    BY <1>2, <2>3 DEF TypeOK
  <2>5. /\ row' \in [Rows -> {"none", "active", "retiring", "running", "freed"}]
        /\ row'[r] = "running" /\ \A s \in Rows \ {r} : row'[s] = row[s]
    BY <1>2, <2>1, <2>2 DEF TypeOK
  <2>6. Occupying' = Occupying /\ \A s \in Rows : Kept(s)
    BY <2>2, <2>5 DEF Occupying, Kept
  <2>7. \A i \in Incs : Published(i)' <=> Published(i)
    BY <1>1, <2>3, <2>4, Constants DEF Published
  <2>8. TypeOK'
    BY <1>1, <1>2, <2>3, <2>5 DEF TypeOK
  <2>9. ASSUME NEW i \in Incs PROVE IncHolds(i)'
    <3>1. IncHolds(i) /\ i \in Rows
      BY Constants DEF IInv
    <3>2. row[i] # "none" <=> row'[i] # "none"
      BY <2>2, <2>5, <3>1
    <3> QED
      BY <1>1, <2>6, <2>7, <3>1, <3>2 DEF IncHolds
  <2>10. ASSUME NEW s \in Rows PROVE RowHolds(s)'
    <3>1. RowHolds(s) /\ (parent[s] # None => parent[s] \in Incs /\ parent[s] \in Rows)
      BY <1>2, Constants DEF IInv, TypeOK
    <3>2. row'[s] = "active" /\ parent[s] # None => row'[parent[s]] = "active"
      BY <2>2, <2>5, <3>1 DEF RowHolds
    <3> QED
      BY <1>1, <2>6, <2>7, <3>1, <3>2 DEF RowHolds
  <2>11. Routed'
    BY <1>1 DEF IInv, Routed
  <2>12. ASSUME NEW u \in Threads
         PROVE  /\ th[u].at = "publish" =>
                     /\ lock' = u /\ th[u].arg \in Occupying'
                     /\ owner'[th[u].arg] = owner[th[u].arg]
                /\ th[u].at \in {"execute", "finish"} =>
                     th[u].arg # r /\ row'[th[u].arg] = "running"
                /\ th[u].at = "finish" => GoneNext(th[u].arg)
    <3>1. Holds(u, th[u])
      BY DEF IInv
    <3> QED
      BY <1>1, <2>2, <2>5, <2>6, <3>1 DEF Holds, Gone, GoneNext
  <2>13. \A k \in 1 .. Len(q.jobs) : JobHolds(q.jobs[k])'
    BY <1>1, <2>3, <2>6, <2>7, JobsKept
  <2>14. Holds(t, q)'
    BY <1>1, <1>2, <2>2, <2>3, <2>5, <2>13 DEF Holds
  <2>15. \A u \in Threads : Apart(t, u)' /\ Apart(u, t)'
    BY ZenonT(40), <2>3, <2>12, HandStep
  <2>16. t \in Incs => (q.at = "idle" <=> th[t].at = "idle")
    BY <1>1, <2>3
  <2>17. \A i \in Incs : row[i] # "none" /\ i \notin up => i \notin up'
    BY <1>1
  <2> QED
    BY <2>3, <2>6, <2>8, <2>9, <2>10, <2>11, <2>12, <2>14, <2>15, <2>16, <2>17, WorldStep
<1> QED
  BY <1>3, <1>4

(* The common part of the two executors: i leaves the tables.              *)
LEMMA ExecutedStep ==
  ASSUME IInv, NEW t \in Threads, th[t].at = "execute", NEW r, r = th[t].arg,
         Go(t, [at |-> "finish"]),
         up' \in SUBSET up, subs' \in SUBSET subs,
         plugins' \in [Names -> Incs \cup {None}], routes' \in [Verbs -> Names \cup {"none"}],
         \A n \in Names : plugins'[n] = plugins[n] \/ plugins'[n] = None,
         Routed', GoneNext(r),
         \A u \in Threads : th[u].at = "publish" => th[u].arg # r,
         UNCHANGED <<row, parent, owner, lock, cut>>
  PROVE  IInv'
<1>1. /\ th[t] \in ThreadType /\ Holds(t, th[t]) /\ (t \in Incs => th[t].then # "idle")
      /\ TypeOK /\ r \in Rows /\ row[r] = "running"
  BY ThreadFacts DEF IInv, Holds
<1>2. PICK q \in ThreadType :
        /\ th' = [th EXCEPT ![t] = q] /\ q.at = "finish" /\ q.then = th[t].then
        /\ q.arg = r /\ q.jobs = th[t].jobs
  <2> DEFINE n == [at |-> "finish"]
  <2>1. DOMAIN n = {"at"} /\ n.at = "finish" /\ Go(t, n) /\ "finish" \in Places
    BY DEF Places
  <2> HIDE DEF n
  <2> QED
    BY <1>1, <2>1, Moved
<1>3. th'[t] = q /\ \A u \in Threads \ {t} : th'[u] = th[u]
  BY <1>1, <1>2 DEF TypeOK
<1>4. Occupying' = Occupying /\ \A s \in Rows : Kept(s)
  BY DEF Occupying, Kept
<1>5. \A i \in Incs : Published(i)' <=> Published(i)
  BY <1>2, <1>3, Constants DEF Published
<1>6. TypeOK'
  BY <1>1, <1>2 DEF TypeOK
<1>7. ASSUME NEW i \in Incs PROVE IncHolds(i)'
  <2>1. IncHolds(i) /\ i # None
    BY Constants DEF IInv
  <2>2. \A n \in Names : plugins'[n] = i => plugins[n] = i
    BY <2>1
  <2> QED
    BY <1>4, <1>5, <2>1, <2>2 DEF IncHolds
<1>8. ASSUME NEW s \in Rows PROVE RowHolds(s)'
  <2>1. RowHolds(s) /\ (parent[s] # None => parent[s] \in Incs)
    BY <1>1 DEF IInv, TypeOK
  <2> QED
    BY <1>4, <1>5, <2>1 DEF RowHolds
<1>9. ASSUME NEW u \in Threads \ {t}
      PROVE  /\ th[u].at = "publish" =>
                  /\ lock' = u /\ th[u].arg \in Occupying'
                  /\ owner'[th[u].arg] = owner[th[u].arg]
             /\ th[u].at \in {"execute", "finish"} =>
                  th[u].arg # r /\ row'[th[u].arg] = "running"
             /\ th[u].at = "finish" => GoneNext(th[u].arg)
  <2>1. Holds(u, th[u]) /\ Apart(t, u)
    BY DEF IInv
  <2>2. th[u].at \in {"execute", "finish"} => th[u].arg # r
    BY <2>1 DEF Apart
  <2>3. th[u].at = "finish" => GoneNext(th[u].arg)
    <3>1. th[u].at = "finish" => Gone(th[u].arg) /\ th[u].arg \in Rows /\ th[u].arg # None
      BY <2>1, Constants DEF Holds
    <3> QED
      BY <3>1 DEF Gone, GoneNext
  <2> QED
    BY <1>4, <2>1, <2>2, <2>3 DEF Holds
<1>10. \A i \in Incs : row[i] # "none" /\ i \notin up => i \notin up'
  OBVIOUS
<1>11. \A k \in 1 .. Len(q.jobs) : JobHolds(q.jobs[k])'
  BY <1>2, <1>4, <1>5, <1>10, JobsKept
<1>12. Gone(r)'
  BY DEF Gone, GoneNext
<1>13. Holds(t, q)'
  BY <1>1, <1>2, <1>11, <1>12 DEF Holds
<1>14. \A u \in Threads : Apart(t, u)' /\ Apart(u, t)'
  <2>1. \A u \in Threads \ {t} :
          /\ th[u].at \in {"execute", "finish"} => th[u].arg # q.arg
          /\ q.at = "finish" /\ th[u].at = "publish" => th[u].arg # q.arg
    BY <1>2, <1>9
  <2> QED
    BY <1>2, <2>1, HandStep
<1>15. t \in Incs => (q.at = "idle" <=> th[t].at = "idle")
  BY <1>2
<1> QED
  BY <1>2, <1>4, <1>6, <1>7, <1>8, <1>9, <1>10, <1>13, <1>14, <1>15, WorldStep

LEMMA ExecuteSubStep ==
  ASSUME IInv, NEW t \in Threads, ExecuteSub(t)
  PROVE  IInv'
<1> DEFINE s == th[t].arg
<1>1. /\ UNCHANGED <<row, parent, owner, up, plugins, routes, lock, cut>>
      /\ th[t].at = "execute" /\ s \in Subs /\ subs' = subs \ {s} /\ Go(t, [at |-> "finish"])
  BY DEF ExecuteSub, At, rowVars, procVars
<1>2. s \notin Incs /\ s # None
  BY <1>1, Constants
<1>3. \A u \in Threads : th[u].at = "publish" => th[u].arg # s
  BY <1>2 DEF IInv, Holds
<1>4. /\ up \in SUBSET Incs /\ plugins \in [Names -> Incs \cup {None}]
      /\ routes \in [Verbs -> Names \cup {"none"}] /\ Routed
  BY DEF IInv, TypeOK
<1> HIDE DEF s
<1>5. GoneNext(s) /\ Routed'
  BY <1>1, <1>2, <1>4 DEF GoneNext, Routed
<1> SUFFICES ASSUME NEW r, r = s PROVE IInv'
  OBVIOUS
<1>6. r = th[t].arg
  BY DEF s
<1> QED
  BY <1>1, <1>3, <1>4, <1>5, <1>6, ExecutedStep

LEMMA ExecutePluginStep ==
  ASSUME IInv, NEW t \in Threads, ExecutePlugin(t)
  PROVE  IInv'
<1> SUFFICES ASSUME NEW i, i = th[t].arg, NEW n, n = owner[i] PROVE IInv'
  OBVIOUS
<1>1. /\ UNCHANGED <<row, parent, owner, subs, lock, cut>>
      /\ th[t].at = "execute" /\ i \in Incs /\ Unlocked /\ up' = up \ {i}
      /\ Go(t, [at |-> "finish"])
      /\ IF plugins[n] = i
         THEN /\ routes' = [v \in Verbs |-> IF routes[v] = n THEN "none" ELSE routes[v]]
              /\ plugins' = [plugins EXCEPT ![n] = None]
         ELSE UNCHANGED <<routes, plugins>>
  BY DEF ExecutePlugin, At, rowVars
<1>2. /\ plugins \in [Names -> Incs \cup {None}] /\ routes \in [Verbs -> Names \cup {"none"}]
      /\ subs \in SUBSET Subs /\ i # None /\ i \notin Subs
  BY <1>1, Constants DEF IInv, TypeOK
<1>3. \A m \in Names : plugins[m] = i => m = n
  BY <1>1 DEF IInv, IncHolds
<1>4. plugins' \in [Names -> Incs \cup {None}] /\ routes' \in [Verbs -> Names \cup {"none"}]
  <2>1. plugins' \in [Names -> Incs \cup {None}]
    <3> SUFFICES ASSUME NEW P, P = Incs \cup {None} PROVE plugins' \in [Names -> P]
      OBVIOUS
    <3>1. plugins \in [Names -> P] /\ None \in P
      BY <1>2
    <3> QED
      BY <1>1, <3>1
  <2>2. routes' \in [Verbs -> Names \cup {"none"}]
    <3>1. \A v \in Verbs : routes[v] \in Names \cup {"none"}
      BY <1>2
    <3> QED
      BY <1>1, <1>2, <3>1
  <2> QED
    BY <2>1, <2>2
<1>5. \A m \in Names : plugins'[m] = IF plugins[m] = i THEN None ELSE plugins[m]
  <2>1. CASE plugins[n] = i
    <3>1. \A m \in Names : plugins'[m] = IF m = n THEN None ELSE plugins[m]
      BY <1>1, <1>2, <2>1
    <3> QED
      BY <1>3, <2>1, <3>1
  <2>2. CASE plugins[n] # i
    BY <1>1, <1>3, <2>2
  <2> QED
    BY <2>1, <2>2
<1>6. \A v \in Verbs : routes'[v] # "none" =>
        /\ routes'[v] = routes[v] /\ routes[v] \in Names
        /\ plugins[n] = i => routes[v] # n
  BY <1>1, <1>2
<1>7. Routed'
  <2> SUFFICES ASSUME NEW v \in Verbs, routes'[v] # "none"
               PROVE  plugins'[routes'[v]] # None
    BY DEF Routed
  <2>1. /\ routes'[v] = routes[v] /\ routes[v] \in Names /\ routes[v] # "none"
        /\ plugins[n] = i => routes[v] # n
    BY <1>6
  <2>2. plugins[routes[v]] # None
    BY <2>1 DEF IInv, Routed
  <2>3. plugins[routes[v]] # i
    BY <1>3, <2>1
  <2> QED
    BY <1>5, <2>1, <2>2, <2>3
<1>8. GoneNext(i)
  BY <1>1, <1>2, <1>5 DEF GoneNext
<1>9. \A u \in Threads : th[u].at = "publish" => th[u].arg # i
  BY <1>1, NoPublish
<1>10. \A m \in Names : plugins'[m] = plugins[m] \/ plugins'[m] = None
  BY <1>5
<1>11. up' \in SUBSET up /\ subs' \in SUBSET subs
  BY <1>1
<1> QED
  BY <1>1, <1>4, <1>7, <1>8, <1>9, <1>10, <1>11, ExecutedStep

LEMMA FinishStep ==
  ASSUME IInv, NEW t \in Threads, Finish(t)
  PROVE  IInv'
<1> SUFFICES ASSUME NEW a, a = th[t].arg PROVE IInv'
  OBVIOUS
<1>1. /\ UNCHANGED <<parent, owner, up, plugins, routes, subs, lock, cut>>
      /\ th[t].at = "finish" /\ row' = [row EXCEPT ![a] = "freed"]
      /\ Go(t, [at |-> "cleanup", arg |-> None])
  BY DEF Finish, At, procVars, tableVars
<1>2. /\ th[t] \in ThreadType /\ Holds(t, th[t]) /\ (t \in Incs => th[t].then # "idle")
      /\ TypeOK /\ a \in Rows /\ row[a] = "running" /\ Gone(a)
  BY <1>1, ThreadFacts DEF IInv, Holds
<1>3. PICK q \in ThreadType :
        /\ th' = [th EXCEPT ![t] = q] /\ q.at = "cleanup" /\ q.then = th[t].then
        /\ q.jobs = th[t].jobs
  <2> DEFINE n == [at |-> "cleanup", arg |-> None]
  <2>1. /\ DOMAIN n = {"at", "arg"} /\ n.at = "cleanup" /\ n.arg = None /\ Go(t, n)
        /\ "cleanup" \in Places
    BY <1>1 DEF Places
  <2> HIDE DEF n
  <2> QED
    BY <1>2, <2>1, Moved
<1>4. th'[t] = q /\ \A u \in Threads \ {t} : th'[u] = th[u]
  BY <1>2, <1>3 DEF TypeOK
<1>5. /\ row' \in [Rows -> {"none", "active", "retiring", "running", "freed"}]
      /\ row'[a] = "freed" /\ \A s \in Rows \ {a} : row'[s] = row[s]
  BY <1>1, <1>2 DEF TypeOK
<1>6. Occupying' = Occupying \ {a} /\ \A s \in Rows : Kept(s)
  BY <1>5 DEF Occupying, Kept
<1>7. \A i \in Incs : Published(i)' <=> Published(i)
  BY <1>1, <1>3, <1>4, Constants DEF Published
<1>8. TypeOK'
  BY <1>1, <1>2, <1>3, <1>5 DEF TypeOK
<1>9. ASSUME NEW i \in Incs PROVE IncHolds(i)'
  <2>1. IncHolds(i) /\ i \in Rows
    BY Constants DEF IInv
  <2>2. row[i] # "none" <=> row'[i] # "none"
    BY <1>2, <1>5, <2>1
  <2>3. i = a => i \notin up /\ \A n \in Names : plugins[n] # i
    BY <1>2 DEF Gone
  <2> QED
    BY <1>1, <1>6, <1>7, <2>1, <2>2, <2>3 DEF IncHolds
<1>10. ASSUME NEW s \in Rows PROVE RowHolds(s)'
  <2>1. RowHolds(s) /\ (parent[s] # None => parent[s] \in Incs /\ parent[s] \in Rows)
    BY <1>2, Constants DEF IInv, TypeOK
  <2>2. row'[s] = "active" /\ parent[s] # None => row'[parent[s]] = "active"
    BY <1>2, <1>5, <2>1 DEF RowHolds
  <2>3. s \in subs => s # a
    BY <1>2 DEF Gone
  <2> QED
    BY <1>1, <1>6, <1>7, <2>1, <2>2, <2>3 DEF RowHolds
<1>11. Routed'
  BY <1>1 DEF IInv, Routed
<1>12. ASSUME NEW u \in Threads \ {t}
       PROVE  /\ th[u].at = "publish" =>
                   /\ lock' = u /\ th[u].arg \in Occupying'
                   /\ owner'[th[u].arg] = owner[th[u].arg]
              /\ th[u].at \in {"execute", "finish"} => row'[th[u].arg] = "running"
              /\ th[u].at = "finish" => GoneNext(th[u].arg)
  <2>1. Holds(u, th[u]) /\ Apart(t, u) /\ Apart(u, t)
    BY DEF IInv
  <2>2. th[u].at \in {"publish", "execute", "finish"} => th[u].arg # a
    BY <1>1, <2>1 DEF Apart
  <2> QED
    BY <1>1, <1>5, <1>6, <2>1, <2>2 DEF Holds, Gone, GoneNext
<1>13. \A i \in Incs : row[i] # "none" /\ i \notin up => i \notin up'
  BY <1>1
<1>14. \A k \in 1 .. Len(q.jobs) : JobHolds(q.jobs[k])'
  BY <1>3, <1>6, <1>7, <1>13, JobsKept
<1>15. Holds(t, q)'
  BY <1>2, <1>3, <1>14 DEF Holds
<1>16. \A u \in Threads : Apart(t, u)' /\ Apart(u, t)'
  BY <1>3, QuietStep
<1>17. t \in Incs => (q.at = "idle" <=> th[t].at = "idle")
  BY <1>1, <1>3
<1> QED
  BY <1>3, <1>6, <1>8, <1>9, <1>10, <1>11, <1>12, <1>13, <1>15, <1>16, <1>17, WorldStep

----------------------------------------------------------------------------
LEMMA InitHolds ==
  ASSUME Init
  PROVE  IInv
<1>1. TypeOK
  <2>1. <<>> \in Seq(Jobs) /\ {} \in SUBSET Subs /\ {} \in SUBSET Rows
    OBVIOUS
  <2>2. Idle \in ThreadType
    BY <2>1 DEF Idle, ThreadType, Places
  <2>3. th \in [Threads -> ThreadType]
    BY <2>2 DEF Init
  <2> QED
    BY <2>3 DEF Init, TypeOK
<1>2. \A t \in Threads : th[t].at = "idle" /\ th[t].jobs = <<>> /\ Len(th[t].jobs) = 0
  BY DEF Init, Idle
<1>3. \A i \in Incs : IncHolds(i)
  <2>1. \A i \in Incs : ~ Published(i) /\ i # None /\ i \in Rows
    BY <1>2, Constants DEF Published
  <2> QED
    BY <2>1 DEF Init, IncHolds
<1>4. (\A r \in Rows : RowHolds(r)) /\ Routed
  BY DEF Init, RowHolds, Routed
<1>5. \A t \in Threads : Holds(t, th[t])
  BY <1>2 DEF Holds
<1>6. \A t, u \in Threads : Apart(t, u)
  BY <1>2 DEF Apart
<1> QED
  BY <1>1, <1>3, <1>4, <1>5, <1>6 DEF IInv

LEMMA WorkStep ==
  ASSUME IInv, NEW t \in Threads, Work(t)
  PROVE  IInv'
<1>1. CASE Spawn(t) \/ SpawnPublish(t)
  BY <1>1, SpawnStep, PublishStep
<1>2. CASE Lookup(t) \/ Subscribe(t) \/ Snapshot(t)
  BY <1>2, LookupStep, SubscribeStep, SnapshotStep
<1>3. CASE CheckTarget(t) \/ Send(t) \/ Resolve(t)
  BY <1>3, CheckTargetStep, SendStep, ResolveStep
<1>4. CASE CallOn(t)
  <2>1. th[t].at = "call"
    BY <1>4 DEF CallOn, At
  <2> QED
    BY <1>4, <2>1, CallStep
<1>5. CASE NextJob(t) \/ Claim(t)
  BY <1>5, NextJobStep, ClaimStep
<1>6. CASE ExecuteSub(t) \/ ExecutePlugin(t) \/ Finish(t)
  BY <1>6, ExecuteSubStep, ExecutePluginStep, FinishStep
<1> QED
  BY <1>1, <1>2, <1>3, <1>4, <1>5, <1>6 DEF Work, Teardown

LEMMA StepHolds ==
  ASSUME IInv, [Next]_vars
  PROVE  IInv'
<1>1. ASSUME NEW t \in Threads, Work(t) \/ Reply(t) PROVE IInv'
  <2>1. CASE Work(t)
    BY <2>1, WorkStep
  <2>2. CASE Reply(t)
    <3>1. th[t].at = "reply"
      BY <2>2 DEF Reply, At
    <3> QED
      BY <2>2, <3>1, CallStep
  <2> QED
    BY <1>1, <2>1, <2>2
<1>2. ASSUME NEW c \in Callers, Begin(c) PROVE IInv'
  BY <1>2, BeginStep
<1>3. ASSUME NEW i \in Incs, Read(i) \/ Respond(i) \/ Closed(i) \/ Ask(i) \/ Die(i) \/ Pump(i)
      PROVE  IInv'
  <2>1. CASE Read(i) \/ Respond(i)
    BY <2>1, ReadStep
  <2>2. CASE Closed(i)
    BY <2>2, ClosedStep
  <2>3. CASE Die(i)
    BY <2>3, DieStep
  <2>4. CASE Ask(i) \/ Pump(i)
    <3>1. UNCHANGED <<row, parent, owner, up, plugins, routes, subs, lock, cut, th>>
      BY <2>4 DEF Ask, Pump, rowVars, tableVars
    <3> QED
      BY <3>1, NothingStep
  <2> QED
    BY <1>3, <2>1, <2>2, <2>3, <2>4
<1>4. ASSUME NEW s \in Subs, Receive(s) PROVE IInv'
  <2>1. UNCHANGED <<row, parent, owner, up, plugins, routes, subs, lock, cut, th>>
    BY <1>4 DEF Receive, rowVars, tableVars
  <2> QED
    BY <2>1, NothingStep
<1>5. CASE UNCHANGED vars
  <2>1. UNCHANGED <<row, parent, owner, up, plugins, routes, subs, lock, cut, th>>
    BY <1>5 DEF vars, rowVars, procVars, tableVars
  <2> QED
    BY <2>1, NothingStep
<1> QED
  BY <1>1, <1>2, <1>3, <1>4, <1>5 DEF Next

(* The invariant behind the theorems about the host.                       *)
THEOREM Inductive == Spec => []IInv
<1>1. Init => IInv
  BY InitHolds
<1>2. IInv /\ [Next]_vars => IInv'
  BY StepHolds
<1> QED
  BY <1>1, <1>2, PTL DEF Spec

(* When cleanup (HostWorld::execute) has been recorded as done, nothing of *)
(* the row is left: its process is reaped, its handle and its subscription *)
(* are out of the tables, and no verb is routed to a name whose handle is  *)
(* gone, whoever spawned under the name meanwhile.                         *)
THEOREM FreedSafe == Spec => []FreedLeavesNothing
<1>1. IInv => FreedLeavesNothing
  <2> SUFFICES ASSUME IInv PROVE FreedLeavesNothing
    OBVIOUS
  <2>1. ASSUME NEW i \in Incs, row[i] = "freed" PROVE i \notin up /\ plugins[owner[i]] # i
    <3>1. i \notin Occupying /\ IncHolds(i) /\ i # None
      BY <2>1, Constants, OccupyingFacts DEF IInv
    <3> QED
      BY <2>1, <3>1 DEF IncHolds
  <2>2. ASSUME NEW s \in Subs, row[s] = "freed" PROVE s \notin subs
    <3>1. s \in Rows /\ s \notin Occupying
      BY <2>2, Constants, OccupyingFacts
    <3> QED
      BY <3>1 DEF IInv, RowHolds
  <2> QED
    BY <2>1, <2>2 DEF IInv, Routed, FreedLeavesNothing
<1> QED
  BY <1>1, Inductive, PTL

(* What is active hangs under nothing that retires or is freed: a child or *)
(* a subscription is taken up under its parent in one ledger transaction,  *)
(* and a retirement takes all that hangs under what it retires.            *)
THEOREM UnderRetiringSafe == Spec => []NothingUnderRetiring
<1>1. IInv => NothingUnderRetiring
  BY DEF IInv, RowHolds, NothingUnderRetiring
<1> QED
  BY <1>1, Inductive, PTL

(* An incarnation that is retired because its client channel closed has no *)
(* process any more: spawn_client_loop reclaims the holding it was started *)
(* with, never the one that has the name by then.                          *)
THEOREM ClosedSafe == Spec => []ClosedMeansDead
<1>1. IInv => ClosedMeansDead
  BY DEF IInv, IncHolds, ClosedMeansDead
<1> QED
  BY <1>1, Inductive, PTL
=============================================================================
