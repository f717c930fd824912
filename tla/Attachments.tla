---------------------------- MODULE Attachments ----------------------------
(***************************************************************************)
(* Attachments and triggers, portos-rm/src/test_support/attach.rs: a plan  *)
(* attached to a trigger fires at most n_max times under one standing      *)
(* consent. Each firing is a segment with a pool of its own; it ends in    *)
(* one settlement whatever ends it: the run, a failure, the lease, the     *)
(* user, a revoked grant, a changed policy table or a crash.               *)
(*                                                                         *)
(* Rows of the ledger, the attachments, the firings and the inbox survive  *)
(* a crash; queues and the firing in flight do not. Everything in the      *)
(* ledger here is accounting only, so a row is held or freed, never        *)
(* retiring. Budgets have the class attach::fire and one effect class.     *)
(***************************************************************************)
EXTENDS Integers, Sequences, SequencesExt, FiniteSets, FiniteSetsExt

CONSTANTS
  Id,          \* names of attachments
  Declaration, \* [trigger, integrity, budget, nMax, ttl, period, minInterval,
               \*  depth, overflow, failureBudget, grants]
  Grant,       \* standing grants a declaration may rest on
  Effects,     \* the sequences of effect amounts a run may mint
  MaxTime, MaxMissed, MaxEmits, MaxTable

ASSUME DeclarationAssumption ==
  Declaration \subseteq
    [trigger : {"topic", "timer", "manual"}, integrity : BOOLEAN, budget : Nat, nMax : Nat,
     ttl : Nat, period : Nat, minInterval : Nat, depth : Nat,
     overflow : {"coalesce", "drop_oldest", "drop_newest", "fail_stop"},
     failureBudget : Nat, grants : SUBSET Grant]

None == "none"
Seqs == UNION {1 .. d.nMax : d \in Declaration}
Commits == {"completed", "completed_empty"}
Failures == {"failstop", "truncated", "crashed"}
Terminal == {"expired", "detached"}

VARIABLES
  now,
  table,          \* the policy table that is in force
  transactional,  \* are spent rows and segment written in one transaction
  crashed,
  att,            \* attachments: declaration, status, root lease, rows of the total pools
  firing,         \* firings: segment row, firing pool, end, and what they put in the inbox
  queue,          \* events waiting for a firing, per attachment
  inflight,       \* the firing under way, per attachment, or 0
  cache,          \* cached_outstanding of the total pools
  owed            \* history: events heard that no firing took, no entry of the audit
                  \* tells of as dropped or merged, and no crash or retirement cleared

vars == <<now, table, transactional, crashed, att, firing, queue, inflight, cache, owed>>

Absent == [status |-> None]
NoFiring == [end |-> None, segment |-> None, cap |-> 0, emitted |-> 0, waiting |-> 0, read |-> 0]
Exists(a) == att[a].status # None
Live(a) == att[a].status \notin Terminal \cup {None}

Init ==
  /\ now = 0 /\ table = 0 /\ transactional \in BOOLEAN /\ crashed = FALSE
  /\ att = [a \in Id |-> Absent]
  /\ firing = [a \in Id |-> [s \in Seqs |-> NoFiring]]
  /\ queue = [a \in Id |-> <<>>]
  /\ inflight = [a \in Id |-> 0]
  /\ cache = [a \in Id |-> [fire |-> 0, spent |-> 0]]
  /\ owed = [a \in Id |-> 0]

(* next_seq and fired_count go by the rows of the fire pool that are held. *)
FiredCount(r) == Cardinality(r.fired)
NextSeq(r) == FiredCount(r) + 1

(* recompute_outstanding: the fold over the rows that are held.            *)
Outstanding(r) ==
  [fire |-> IF r.status = None THEN 0 ELSE FiredCount(r),
   spent |-> IF r.status = None THEN 0 ELSE FiredCount(r) * r.decl.budget]

\* One pool of n_max firings, one of n_max budgets, and a root whose lease is
\* the ttl; the trigger and the route are held under the root.
Fresh(d) ==
  [status |-> "active", decl |-> d, failures |-> 0,
   notBefore |-> 0, lastTick |-> now, expires |-> now + d.ttl, root |-> "held",
   capFire |-> d.nMax, capSpent |-> d.nMax * d.budget, fired |-> {}]

Attach(a, d) ==
  /\ ~crashed /\ ~Exists(a)
  /\ att' = [att EXCEPT ![a] = Fresh(d)]
  /\ UNCHANGED <<now, table, transactional, crashed, firing, queue, inflight, cache, owed>>

----------------------------------------------------------------------------
(* Events and queues. What an arrival does to one attachment.              *)

Pause(r, status) == IF r.status \in Terminal THEN r ELSE [r EXCEPT !.status = status]

Depth(r) == Max({r.decl.depth, 1})

\* The attachment, its queue and what it owes after enqueue(ev): one more event
\* was heard, and each drop and each merge pushes an entry that tells of one.
Heard(n) == n + 1
Told(n) == n - 1

(* Mutant: whatever finds the queue full is dropped without an entry. *)
MutEnqueue(r, q, n, ev) ==
  IF Len(q) < Depth(r) THEN <<r, Append(q, ev), Heard(n)>> ELSE <<r, q, Heard(n)>>

Enqueue(r, q, n, ev) ==
  IF Len(q) < Depth(r) THEN <<r, Append(q, ev), Heard(n)>>
  ELSE CASE r.decl.overflow = "coalesce" ->
              <<r, [q EXCEPT ![Len(q)].missed = @ + 1 + ev.missed], Told(Heard(n))>>
         [] r.decl.overflow = "drop_oldest" -> <<r, Append(Tail(q), ev), Told(Heard(n))>>
         [] r.decl.overflow = "drop_newest" -> <<r, q, Told(Heard(n))>>
         [] r.decl.overflow = "fail_stop" -> <<Pause(r, "paused_failure"), q, Told(Heard(n))>>

Arrival(ok) == [ok |-> ok, missed |-> 0]

\* event: every attachment to the topic that has not ended hears it.
Hears(a) == Live(a) /\ att[a].decl.trigger = "topic"
Event(ok) ==
  /\ ~crashed
  /\ \E a \in Id : Hears(a)
  /\ \A a \in Id : \A k \in DOMAIN queue[a] : queue[a][k].missed < MaxMissed
  /\ LET After(a) == Enqueue(att[a], queue[a], owed[a], Arrival(ok))
     IN /\ att' = [a \in Id |-> IF Hears(a) THEN After(a)[1] ELSE att[a]]
        /\ queue' = [a \in Id |-> IF Hears(a) THEN After(a)[2] ELSE queue[a]]
        /\ owed' = [a \in Id |-> IF Hears(a) THEN After(a)[3] ELSE owed[a]]
  /\ UNCHANGED <<now, table, transactional, crashed, firing, inflight, cache>>

----------------------------------------------------------------------------
(* Settlement: one path for every end.                                     *)

\* The firing: unconsumed events are withdrawn unless it committed, the segment
\* is torn down, its pool is settled and closed, the end is recorded.
Settled(f, end) ==
  [f EXCEPT !.end = end, !.cap = 0,
            !.segment = IF @ = "held" THEN "freed" ELSE @,
            !.waiting = IF end \in Commits THEN @ ELSE 0]

\* The attachment: the failure budget counts failures in a row.
FailureBudget(r, end) ==
  IF end \in Failures
  THEN LET counted == [r EXCEPT !.failures = @ + 1]
       IN IF counted.failures >= r.decl.failureBudget
          THEN Pause(counted, "paused_failure") ELSE counted
  ELSE IF end \in Commits THEN [r EXCEPT !.failures = 0] ELSE r

----------------------------------------------------------------------------
(* Retirement: detach, expiry, revocation and a table that rejects.        *)

\* The firings of a after it retires: the one in flight and any with a segment
\* left are settled, and every pool is closed.
RetiredFirings(a, end) ==
  [s \in Seqs |->
    IF s = inflight[a] \/ firing[a][s].segment = "held"
    THEN Settled(firing[a][s], end) ELSE [firing[a][s] EXCEPT !.cap = 0]]

(* Mutant: the pools of an attachment that ended still mint. *)
MutRetiredAttachment(r, status) == [r EXCEPT !.root = "freed", !.fired = {}, !.status = status]

RetiredAttachment(r, status) ==
  [r EXCEPT !.root = "freed", !.fired = {}, !.capFire = 0, !.capSpent = 0, !.status = status]

Cleared(a) == owed[a] - Len(queue[a])

\* Retiring the attachments in S; rest[a] is what the same call does to those it
\* leaves, as <<attachment, queue, owed>>.
RetireAll(S, status, end, rest) ==
  /\ att' = [a \in Id |-> IF a \in S THEN RetiredAttachment(att[a], status) ELSE rest[a][1]]
  /\ queue' = [a \in Id |-> IF a \in S THEN <<>> ELSE rest[a][2]]
  /\ owed' = [a \in Id |-> IF a \in S THEN Cleared(a) ELSE rest[a][3]]
  /\ firing' = [a \in Id |-> IF a \in S THEN RetiredFirings(a, end) ELSE firing[a]]
  /\ inflight' = [a \in Id |-> IF a \in S THEN 0 ELSE inflight[a]]
  /\ cache' = IF S = {} THEN cache ELSE [a \in Id |-> Outstanding(att'[a])]

AsItIs == [a \in Id |-> <<att[a], queue[a], owed[a]>>]

Detach(a) ==
  /\ ~crashed /\ Live(a)
  /\ RetireAll({a}, "detached", "aborted", AsItIs)
  /\ UNCHANGED <<now, table, transactional, crashed>>

RestOn(g) == {a \in Id : Live(a) /\ g \in att[a].decl.grants}
Revoke(g) ==
  /\ ~crashed /\ RestOn(g) # {}
  /\ RetireAll(RestOn(g), "detached", "aborted", AsItIs)
  /\ UNCHANGED <<now, table, transactional, crashed>>

\* tick: the sweep of the ledger is the only way a lease ends; timers that are
\* due are queued once, however many periods went by.
Due(a) == Live(a) /\ att[a].expires <= now
Rings(a) ==
  /\ Live(a) /\ att[a].decl.trigger = "timer"
  /\ now >= att[a].lastTick + att[a].decl.period
Tick ==
  LET rung == [a \in Id |->
        IF Rings(a)
        THEN Enqueue([att[a] EXCEPT !.lastTick = now], queue[a], owed[a], Arrival(TRUE))
        ELSE AsItIs[a]]
      due == {a \in Id : Due(a)}
  IN /\ ~crashed
     /\ \E a \in Id : Due(a) \/ Rings(a)
     /\ RetireAll(due, "expired", "expired", rung)
     /\ UNCHANGED <<now, table, transactional, crashed>>

\* table_change: who is still admitted waits for a new signature.
TableChange(admitted) ==
  LET live == {a \in Id : Live(a)}
      waits == [a \in Id |->
        IF Live(a) THEN <<Pause(att[a], "paused_table"), queue[a], owed[a]>> ELSE AsItIs[a]]
  IN /\ ~crashed /\ table < MaxTable
     /\ table' = table + 1
     /\ RetireAll(live \ admitted, "detached", "aborted", waits)
     /\ UNCHANGED <<now, transactional, crashed>>

Resign(a) ==
  /\ att[a].status = "paused_table"
  /\ att' = [att EXCEPT ![a].status = "active"]
  /\ UNCHANGED <<now, table, transactional, crashed, firing, queue, inflight, cache, owed>>

Resume(a) ==
  /\ att[a].status = "paused_failure"
  /\ att' = [att EXCEPT ![a].status = "active", ![a].failures = 0]
  /\ UNCHANGED <<now, table, transactional, crashed, firing, queue, inflight, cache, owed>>

----------------------------------------------------------------------------
(* Firing.                                                                 *)

\* The checks of begin that change nothing when they refuse, and the event
\* that is popped; a refusal after that has used the event up.
MayTake(a) ==
  /\ ~crashed /\ att[a].status = "active" /\ inflight[a] = 0
  /\ now >= att[a].notBefore
  /\ att[a].decl.trigger # "manual" => queue[a] # <<>>
Taken(a) ==
  IF att[a].decl.trigger = "manual" THEN <<queue[a], owed[a]>>
  ELSE <<Tail(queue[a]), owed[a] - 1>>
Vetted(a) == att[a].decl.trigger # "manual" /\ att[a].decl.integrity => Head(queue[a]).ok

Room(a) == FiredCount(att[a]) < att[a].capFire

\* Reject::Precondition and Reject::NMax.
Refuse(a) ==
  /\ MayTake(a) /\ att[a].decl.trigger # "manual"
  /\ ~(Vetted(a) /\ Room(a))
  /\ queue' = [queue EXCEPT ![a] = Taken(a)[1]]
  /\ owed' = [owed EXCEPT ![a] = Taken(a)[2]]
  /\ UNCHANGED <<now, table, transactional, crashed, att, firing, inflight, cache>>

\* The rows of the firing: spent rows first, then the firing pool, the segment
\* under the root and the firing record.
Spent(a) == [att[a] EXCEPT !.fired = @ \cup {NextSeq(att[a])}]
Started(a) == [Spent(a) EXCEPT !.notBefore = now + att[a].decl.minInterval]
Segment(a) == [NoFiring EXCEPT !.segment = "held", !.cap = att[a].decl.budget]

(* The cache is counted up by what the firing takes, it is not read off the  *)
(* rows here: settling and recovering are what read it off the rows.         *)
(* Mutant: the firing is counted and the budget it takes is not. *)
MutCharged(a) == [cache EXCEPT ![a].fire = @ + 1]
Charged(a) == [cache EXCEPT ![a].fire = @ + 1, ![a].spent = @ + att[a].decl.budget]

Begin(a) ==
  /\ MayTake(a) /\ Vetted(a) /\ Room(a)
  /\ att' = [att EXCEPT ![a] = Started(a)]
  /\ firing' = [firing EXCEPT ![a][NextSeq(att[a])] = Segment(a)]
  /\ inflight' = [inflight EXCEPT ![a] = NextSeq(att[a])]
  /\ queue' = [queue EXCEPT ![a] = Taken(a)[1]]
  /\ owed' = [owed EXCEPT ![a] = Taken(a)[2]]
  /\ cache' = Charged(a)
  /\ UNCHANGED <<now, table, transactional, crashed>>

\* crash: queues and firings in flight are gone. q and n are what the call that
\* crashed had made of them.
Lose(q, n) ==
  /\ crashed' = TRUE
  /\ queue' = [a \in Id |-> <<>>]
  /\ owed' = [a \in Id |-> n[a] - Len(q[a])]
  /\ inflight' = [a \in Id |-> 0]

Crash ==
  /\ ~crashed /\ Lose(queue, owed)
  /\ UNCHANGED <<now, table, transactional, att, firing, cache>>

\* A crash between the spent rows and the segment: a transaction takes the rows
\* back, without one they stay.
CrashBetweenRows(a) ==
  /\ MayTake(a) /\ Vetted(a) /\ Room(a)
  /\ att' = [att EXCEPT ![a] = IF transactional THEN @ ELSE Spent(a)]
  /\ cache' = IF transactional THEN cache ELSE Charged(a)
  /\ Lose([queue EXCEPT ![a] = Taken(a)[1]], [owed EXCEPT ![a] = Taken(a)[2]])
  /\ UNCHANGED <<now, table, transactional, firing>>

Emit(a) ==
  /\ ~crashed /\ inflight[a] # 0
  /\ firing[a][inflight[a]].emitted < MaxEmits
  /\ firing' = [firing EXCEPT ![a][inflight[a]].emitted = @ + 1,
                              ![a][inflight[a]].waiting = @ + 1]
  /\ UNCHANGED <<now, table, transactional, crashed, att, queue, inflight, cache, owed>>

\* finish: effects draw on the firing pool one by one, the first that does not
\* fit ends the run and it emits nothing more.
Fits(es, cap) == FoldLeft(+, 0, es) <= cap
Finish(a, es, emits, end) ==
  LET s == inflight[a]
      f == firing[a][s]
      ended == IF Fits(es, f.cap) THEN end ELSE "truncated"
      ran == IF ended = "truncated" THEN f
             ELSE [f EXCEPT !.emitted = @ + emits, !.waiting = @ + emits]
  IN /\ ~crashed /\ s # 0
     /\ f.emitted + emits <= MaxEmits
     /\ att[a].decl.budget = 0 => es = <<>>
     /\ firing' = [firing EXCEPT ![a][s] = Settled(ran, ended)]
     /\ att' = [att EXCEPT ![a] = FailureBudget(@, ended)]
     /\ cache' = [b \in Id |-> Outstanding(att[b])]
     /\ inflight' = [inflight EXCEPT ![a] = 0]
     /\ UNCHANGED <<now, table, transactional, crashed, queue, owed>>

\* The consumer of the inbox takes one event; it may do so after a crash too.
Consume(a, s) ==
  /\ firing[a][s].waiting > 0
  /\ firing' = [firing EXCEPT ![a][s].waiting = @ - 1, ![a][s].read = @ + 1]
  /\ UNCHANGED <<now, table, transactional, crashed, att, queue, inflight, cache, owed>>

----------------------------------------------------------------------------
(* recover: a firing that spent and has no segment ran empty; one whose     *)
(* segment is held was in flight; a timer catches up once and tells of the  *)
(* periods it missed.                                                      *)

(* Mutant: recovery takes any firing that had a segment for one in flight. *)
MutRecoveredFiring(a, s) ==
  IF s \in att[a].fired /\ firing[a][s].segment # None /\ Live(a)
  THEN Settled(firing[a][s], "crashed") ELSE firing[a][s]

RecoveredFiring(a, s) ==
  LET f == firing[a][s]
  IN CASE s \in att[a].fired /\ f.segment = None /\ f.end = None ->
            [f EXCEPT !.end = "completed_empty"]
       [] s \in att[a].fired /\ f.segment = "held" /\ Live(a) -> Settled(f, "crashed")
       [] OTHER -> f

Interrupted(a) == {s \in Seqs : s \in att[a].fired /\ firing[a][s].segment = "held"}

RecoveredAttachment(a) ==
  IF Live(a) /\ Interrupted(a) # {} THEN FailureBudget(att[a], "crashed") ELSE att[a]

\* How many periods a timer slept through.
Elapsed(r) == (now - r.lastTick) \div r.decl.period
CatchesUp(r) ==
  /\ r.status = "active" /\ r.decl.trigger = "timer" /\ r.decl.period > 0
  /\ Elapsed(r) >= 1

Recover ==
  LET r(a) == IF Exists(a) THEN RecoveredAttachment(a) ELSE att[a]
      late(a) == Exists(a) /\ CatchesUp(r(a))
  IN /\ crashed
     /\ crashed' = FALSE
     /\ firing' = [a \in Id |-> [s \in Seqs |->
          IF Exists(a) THEN RecoveredFiring(a, s) ELSE firing[a][s]]]
     /\ att' = [a \in Id |-> IF late(a) THEN [r(a) EXCEPT !.lastTick = now] ELSE r(a)]
     /\ queue' = [a \in Id |->
          IF late(a) THEN <<[ok |-> TRUE, missed |-> Elapsed(r(a)) - 1]>> ELSE <<>>]
     /\ owed' = [a \in Id |-> IF late(a) THEN Heard(owed[a]) ELSE owed[a]]
     /\ cache' = [a \in Id |-> Outstanding(att'[a])]
     /\ UNCHANGED <<now, table, transactional, inflight>>

Pass == now < MaxTime /\ now' = now + 1
        /\ UNCHANGED <<table, transactional, crashed, att, firing, queue, inflight, cache, owed>>

Next ==
  \/ \E a \in Id, d \in Declaration : Attach(a, d)
  \/ \E ok \in BOOLEAN : Event(ok)
  \/ \E a \in Id : Detach(a) \/ Resign(a) \/ Resume(a)
  \/ \E g \in Grant : Revoke(g)
  \/ Tick
  \/ \E admitted \in SUBSET Id : TableChange(admitted)
  \/ \E a \in Id : Refuse(a) \/ Begin(a) \/ Emit(a) \/ CrashBetweenRows(a)
  \/ \E a \in Id, es \in Effects, n \in 0 .. 1, end \in {"completed", "failstop"} :
       Finish(a, es, n, end)
  \/ \E a \in Id, s \in Seqs : Consume(a, s)
  \/ Crash \/ Recover \/ Pass

Spec == Init /\ [][Next]_vars
----------------------------------------------------------------------------
(* [Q12], [SEQ], invariants() of the scheduler: an attachment fires at     *)
(* most n_max times, its firings are numbered without gaps by the rows it  *)
(* spent, what is cached is what the rows add up to, and one that ended    *)
(* has no row left and no pool that would still mint.                      *)
RowsAreTheTruth ==
  \A a \in {a \in Id : Exists(a)} :
    LET r == att[a] IN
    /\ r.fired = 1 .. FiredCount(r)
    /\ FiredCount(r) <= r.decl.nMax
    /\ cache[a] = Outstanding(r)
    /\ \A s \in Seqs : firing[a][s].segment = "held" => s \in r.fired /\ r.root = "held"
    /\ r.status \in Terminal =>
         /\ r.root = "freed" /\ r.fired = {} /\ r.capFire = 0 /\ r.capSpent = 0
         /\ inflight[a] = 0

(* [Q13], [EMIT-TX]: a firing ends once, and in one shape however it ends, *)
(* by itself, with its attachment or after a crash. Its segment is gone    *)
(* and its pool is closed. If it completed, all it put in the inbox stays  *)
(* there until it is read, whatever happens later; if not, nothing of it   *)
(* is left to read.                                                        *)
OneShape(f) ==
  /\ f.segment # "held" /\ f.cap = 0
  /\ IF f.end \in Commits THEN f.waiting + f.read = f.emitted ELSE f.waiting = 0
SettledOnce ==
  [][\A a \in Id : \A s \in Seqs :
       /\ firing[a][s].end # None => firing'[a][s].end = firing[a][s].end
       /\ firing'[a][s].end # None => OneShape(firing'[a][s])]_vars

(* [A4] nothing is dropped in silence: what an attachment heard is still   *)
(* queued, was taken by a firing, is told in the audit, or went with the   *)
(* queue in a crash or with the attachment.                                *)
NothingLostInSilence ==
  \A a \in Id : owed[a] = Len(queue[a])
=============================================================================
