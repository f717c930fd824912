------------------------- MODULE AttachmentsProofs -------------------------
(***************************************************************************)
(* Proofs about Attachments, for any attachments, declarations, grants and *)
(* effects: what is cached and spent agrees with the rows, a firing is     *)
(* settled once and in one shape, and no event is lost in silence.         *)
(***************************************************************************)
EXTENDS Attachments, FiniteSetTheorems, SequenceTheorems, TLAPS

EventType == [ok : BOOLEAN, missed : Int]
AttType ==
  [status : {"active", "paused_table", "paused_failure"} \cup Terminal, decl : Declaration,
   failures : Int, notBefore : Int, lastTick : Int, expires : Int, root : {"held", "freed"},
   capFire : Int, capSpent : Int, fired : SUBSET Seqs]
Ends == Commits \cup Failures \cup {None, "aborted", "expired"}
FiringType ==
  [end : Ends, segment : {None, "held", "freed"}, cap : Int, emitted : Int, waiting : Int,
   read : Int]

(* The rows of an attachment, before and after it ends. *)
AttHolds(r) ==
  /\ FiredCount(r) \in Nat
  /\ r.fired = 1 .. FiredCount(r)
  /\ FiredCount(r) <= r.decl.nMax
  /\ IF r.status \in Terminal
       THEN r.root = "freed" /\ r.fired = {} /\ r.capFire = 0 /\ r.capSpent = 0
       ELSE r.root = "held" /\ r.capFire = r.decl.nMax

(* Firing s of an attachment r that has firing i under way: it is ahead,   *)
(* spent and not begun, under way or interrupted, or settled.              *)
FiringHolds(r, i, s, f) ==
  /\ f.segment = None => f.cap = 0
  /\ f.segment = "held" =>
       f.end = None /\ r.status \notin Terminal \cup {None} /\ s \in r.fired
  /\ f.segment = "freed" => f.end # None
  /\ IF f.end = None THEN f.waiting + f.read = f.emitted ELSE OneShape(f)
  /\ r.status \notin Terminal /\ ~ (r.status # None /\ s \in r.fired) => f = NoFiring
  /\ i = s => f.segment = "held"

RowsHold(r, fs, i) ==
  /\ r = Absent \/ AttHolds(r)
  /\ \A s \in Seqs : FiringHolds(r, i, s, fs[s])

AHolds(a) ==
  /\ att[a] \in {Absent} \cup AttType
  /\ firing[a] \in [Seqs -> FiringType]
  /\ queue[a] \in Seq(EventType)
  /\ inflight[a] \in Seqs \cup {0}
  /\ cache[a] = Outstanding(att[a])
  /\ owed[a] = Len(queue[a])
  /\ RowsHold(att[a], firing[a], inflight[a])
  /\ crashed => queue[a] = <<>> /\ inflight[a] = 0

Tables ==
  /\ att = [a \in Id |-> att[a]]
  /\ firing = [a \in Id |-> firing[a]]
  /\ queue = [a \in Id |-> queue[a]]
  /\ inflight = [a \in Id |-> inflight[a]]
  /\ cache = [a \in Id |-> cache[a]]
  /\ owed = [a \in Id |-> owed[a]]

IInv == now \in Nat /\ crashed \in BOOLEAN /\ Tables /\ \A a \in Id : AHolds(a)

(* No firing that has ended ends again. *)
EndsKept(a) == \A s \in Seqs : firing[a][s].end # None => firing'[a][s].end = firing[a][s].end

(* q has the rows of r. *)
Alike(r, q) ==
  \/ q = r
  \/ /\ r \in AttType /\ q \in AttType
     /\ q.decl = r.decl /\ q.fired = r.fired /\ q.root = r.root
     /\ q.capFire = r.capFire /\ q.capSpent = r.capSpent
     /\ q.status \in Terminal <=> r.status \in Terminal

USE DeclarationAssumption

----------------------------------------------------------------------------
LEMMA DeclFacts ==
  ASSUME NEW d \in Declaration
  PROVE  /\ d.nMax \in Nat /\ d.budget \in Nat /\ d.ttl \in Nat /\ d.period \in Nat
         /\ d.minInterval \in Nat /\ d.depth \in Nat /\ d.failureBudget \in Nat
         /\ d.overflow \in {"coalesce", "drop_oldest", "drop_newest", "fail_stop"}
         /\ d.nMax * d.budget \in Nat
<1>1. /\ d.nMax \in Nat /\ d.budget \in Nat /\ d.ttl \in Nat /\ d.period \in Nat
      /\ d.minInterval \in Nat /\ d.depth \in Nat /\ d.failureBudget \in Nat
      /\ d.overflow \in {"coalesce", "drop_oldest", "drop_newest", "fail_stop"}
  OBVIOUS
<1>2. \A x, y \in Nat : x * y \in Nat
  OBVIOUS
<1> QED
  BY <1>1, <1>2

LEMMA SeqsFacts ==
  /\ Seqs \subseteq Nat \ {0}
  /\ \A d \in Declaration : \A k \in 1 .. d.nMax : k \in Seqs
BY DeclFacts DEF Seqs

LEMMA StatusFacts ==
  /\ None \notin Terminal
  /\ \A r \in AttType : r.status # None /\ r # Absent
BY DEF None, Terminal, AttType, Absent

(* Whoever has the rows of r has what they add up to, and its firings. *)
LEMMA AlikeRows ==
  ASSUME NEW r \in {Absent} \cup AttType, NEW q, Alike(r, q), NEW fs, NEW i, RowsHold(r, fs, i)
  PROVE  /\ q \in {Absent} \cup AttType
         /\ RowsHold(q, fs, i)
         /\ Outstanding(q) = Outstanding(r)
<1>1. CASE q = r
  BY <1>1
<1>2. CASE q # r
  <2>1. /\ r \in AttType /\ q \in AttType
        /\ q.decl = r.decl /\ q.fired = r.fired /\ q.root = r.root
        /\ q.capFire = r.capFire /\ q.capSpent = r.capSpent
        /\ q.status \in Terminal <=> r.status \in Terminal
    BY <1>2 DEF Alike
  <2>2. r.status # None /\ q.status # None /\ r # Absent
    BY <2>1, StatusFacts
  <2>3. FiredCount(q) = FiredCount(r)
    BY <2>1 DEF FiredCount
  <2>4. Outstanding(q) = Outstanding(r)
    BY <2>1, <2>2, <2>3 DEF Outstanding
  <2>5. AttHolds(q)
    BY <2>1, <2>2, <2>3 DEF AttHolds, RowsHold
  <2>6. \A s \in Seqs : FiringHolds(q, i, s, fs[s])
    BY <2>1, <2>2 DEF RowsHold, FiringHolds
  <2> QED
    BY <2>1, <2>4, <2>5, <2>6 DEF RowsHold
<1> QED
  BY <1>1, <1>2

LEMMA PauseAlike ==
  ASSUME NEW r \in AttType, NEW status \in {"paused_table", "paused_failure"}
  PROVE  Alike(r, Pause(r, status)) /\ Pause(r, status) \in AttType
BY DEF Pause, Alike, AttType, Terminal

LEMMA DepthFacts ==
  ASSUME NEW r \in AttType PROVE Depth(r) \in Nat /\ Depth(r) >= 1
<1>1. r.decl.depth \in Nat
  BY DeclFacts DEF AttType
<1>2. \E x \in {r.decl.depth, 1} : \A y \in {r.decl.depth, 1} : x >= y
  BY <1>1
<1>3. Depth(r) \in {r.decl.depth, 1} /\ \A y \in {r.decl.depth, 1} : Depth(r) >= y
  BY <1>2 DEF Depth, Max
<1> QED
  BY <1>1, <1>3

(* Whatever enqueue makes of an event, it counts what is in the queue. *)
LEMMA EnqueueFacts ==
  ASSUME NEW r \in AttType, NEW q \in Seq(EventType), NEW ev \in EventType
  PROVE  LET e == Enqueue(r, q, Len(q), ev)
         IN /\ Alike(r, e[1])
            /\ e[2] \in Seq(EventType)
            /\ e[3] = Len(e[2])
<1>1. Depth(r) \in Nat /\ Depth(r) >= 1 /\ Len(q) \in Nat
  BY DepthFacts
<1>2. CASE Len(q) < Depth(r)
  <2>1. Enqueue(r, q, Len(q), ev) = <<r, Append(q, ev), Len(q) + 1>>
    BY <1>2 DEF Enqueue, Heard
  <2> QED
    BY <2>1 DEF Alike
<1>3. CASE ~ (Len(q) < Depth(r))
  <2>1. Len(q) \in 1 .. Len(q)
    BY <1>1, <1>3
  <2>2. Told(Heard(Len(q))) = Len(q)
    BY <1>1 DEF Told, Heard
  <2>3. r.decl.overflow \in {"coalesce", "drop_oldest", "drop_newest", "fail_stop"}
    BY DeclFacts DEF AttType
  <2>4. CASE r.decl.overflow = "coalesce"
    <3> DEFINE e == [q[Len(q)] EXCEPT !.missed = @ + 1 + ev.missed]
    <3>1. Enqueue(r, q, Len(q), ev) = <<r, [q EXCEPT ![Len(q)] = e], Len(q)>>
      BY <1>3, <2>2, <2>4 DEF Enqueue
    <3>2. e \in EventType
      <4>1. q[Len(q)] \in EventType
        BY <2>1
      <4> QED
        BY SMTT(30), <4>1 DEF EventType
    <3>3. [q EXCEPT ![Len(q)] = e] \in Seq(EventType) /\ Len([q EXCEPT ![Len(q)] = e]) = Len(q)
      BY <2>1, <3>2, ExceptSeq
    <3> QED
      BY <3>1, <3>3 DEF Alike
  <2>5. CASE r.decl.overflow = "drop_oldest"
    <3>1. Enqueue(r, q, Len(q), ev) = <<r, Append(Tail(q), ev), Len(q)>>
      BY <1>3, <2>2, <2>5 DEF Enqueue
    <3>2. Tail(q) \in Seq(EventType) /\ Len(Tail(q)) = Len(q) - 1
      BY <2>1
    <3> QED
      BY <1>1, <3>1, <3>2 DEF Alike
  <2>6. CASE r.decl.overflow = "drop_newest"
    <3>1. Enqueue(r, q, Len(q), ev) = <<r, q, Len(q)>>
      BY <1>3, <2>2, <2>6 DEF Enqueue
    <3> QED
      BY <3>1 DEF Alike
  <2>7. CASE r.decl.overflow = "fail_stop"
    <3>1. Enqueue(r, q, Len(q), ev) = <<Pause(r, "paused_failure"), q, Len(q)>>
      BY <1>3, <2>2, <2>7 DEF Enqueue
    <3> QED
      BY <3>1, PauseAlike
  <2> QED
    BY <2>3, <2>4, <2>5, <2>6, <2>7
<1> QED
  BY <1>2, <1>3

----------------------------------------------------------------------------
(* What a settlement makes of a firing that is held.                       *)
LEMMA SettledFacts ==
  ASSUME NEW f \in FiringType, f.segment = "held", f.end = None, f.waiting + f.read = f.emitted,
         NEW end \in Ends \ {None}
  PROVE  LET g == Settled(f, end)
         IN /\ g \in FiringType /\ g.end = end /\ g.segment = "freed" /\ g.cap = 0
            /\ OneShape(g)
<1>1. "held" # "freed" /\ Commits \subseteq Ends
  BY DEF Ends
<1>2. /\ Settled(f, end) \in FiringType
      /\ Settled(f, end).end = end /\ Settled(f, end).segment = "freed"
      /\ Settled(f, end).cap = 0 /\ Settled(f, end).emitted = f.emitted
      /\ Settled(f, end).read = f.read
      /\ Settled(f, end).waiting = IF end \in Commits THEN f.waiting ELSE 0
  <2> DEFINE w == IF end \in Commits THEN f.waiting ELSE 0
  <2>1. Settled(f, end) =
          [f EXCEPT !.end = end, !.cap = 0, !.segment = "freed", !.waiting = w]
    BY DEF Settled
  <2>2. w \in Int
    BY DEF FiringType
  <2> HIDE DEF w
  <2>3. Settled(f, end) =
          [end |-> end, segment |-> "freed", cap |-> 0, emitted |-> f.emitted, waiting |-> w,
           read |-> f.read]
    BY <2>1 DEF FiringType
  <2>4. Settled(f, end) \in FiringType
    BY <2>2, <2>3 DEF FiringType
  <2> QED
    BY <2>3, <2>4 DEF w
<1> QED
  BY <1>2 DEF OneShape

(* A settled firing is in order for whoever spent it, or has ended. *)
LEMMA SettledHolds ==
  ASSUME NEW f, f.segment = "freed", f.end # None, OneShape(f), NEW r, NEW i, NEW s, i # s,
         r.status \in Terminal \/ (r.status # None /\ s \in r.fired)
  PROVE  FiringHolds(r, i, s, f)
BY DEF FiringHolds, None

LEMMA HeldFacts ==
  ASSUME NEW a \in Id, AHolds(a), NEW s \in Seqs, firing[a][s].segment = "held"
  PROVE  /\ firing[a][s] \in FiringType /\ firing[a][s].end = None
         /\ firing[a][s].waiting + firing[a][s].read = firing[a][s].emitted
         /\ Live(a) /\ s \in att[a].fired
BY DEF AHolds, RowsHold, FiringHolds, Live

LEMMA UnderWay ==
  ASSUME NEW a \in Id, AHolds(a), inflight[a] # 0
  PROVE  inflight[a] \in Seqs /\ firing[a][inflight[a]].segment = "held"
BY DEF AHolds, RowsHold, FiringHolds

LEMMA LiveFacts ==
  ASSUME NEW a \in Id, AHolds(a), Live(a)
  PROVE  att[a] \in AttType /\ AttHolds(att[a]) /\ att[a].status \notin Terminal
BY DEF AHolds, RowsHold, Live, Absent

LEMMA AsBefore ==
  ASSUME NEW a \in Id, AHolds(a), att'[a] = att[a], firing'[a] = firing[a],
         queue'[a] = queue[a], inflight'[a] = inflight[a], cache'[a] = cache[a],
         owed'[a] = owed[a], crashed' = crashed
  PROVE  AHolds(a)' /\ EndsKept(a)
BY DEF AHolds, EndsKept

(* An attachment that keeps its rows and its firings. *)
LEMMA AlikeStep ==
  ASSUME NEW a \in Id, AHolds(a), Alike(att[a], att'[a]), firing'[a] = firing[a],
         queue'[a] \in Seq(EventType), owed'[a] = Len(queue'[a]),
         inflight'[a] = inflight[a], cache'[a] = Outstanding(att'[a]), ~ crashed'
  PROVE  AHolds(a)' /\ EndsKept(a)
<1>1. RowsHold(att'[a], firing'[a], inflight'[a]) /\ att'[a] \in {Absent} \cup AttType
  BY AlikeRows DEF AHolds
<1> QED
  BY <1>1 DEF AHolds, EndsKept

LEMMA EmptyFacts == Cardinality({}) = 0 /\ 1 .. 0 = {}
BY FS_EmptySet

(* An attachment that ends leaves no row and no firing under way.          *)
LEMMA RetiredStep ==
  ASSUME NEW a \in Id, AHolds(a), Live(a), NEW status \in Terminal,
         NEW end \in {"aborted", "expired"},
         att'[a] = RetiredAttachment(att[a], status), firing'[a] = RetiredFirings(a, end),
         queue'[a] = <<>>, inflight'[a] = 0, cache'[a] = Outstanding(att'[a]),
         owed'[a] = Cleared(a)
  PROVE  AHolds(a)' /\ EndsKept(a)
<1>1. /\ att[a] \in AttType
      /\ firing[a] \in [Seqs -> FiringType]
      /\ owed[a] = Len(queue[a]) /\ queue[a] \in Seq(EventType)
  BY LiveFacts DEF AHolds
<1>2. /\ att'[a] \in AttType /\ att'[a].status = status /\ att'[a].fired = {}
      /\ att'[a].root = "freed" /\ att'[a].capFire = 0 /\ att'[a].capSpent = 0
      /\ att'[a].decl = att[a].decl
  <2>1. att'[a] =
          [status |-> status, decl |-> att[a].decl, failures |-> att[a].failures,
           notBefore |-> att[a].notBefore, lastTick |-> att[a].lastTick,
           expires |-> att[a].expires, root |-> "freed", capFire |-> 0, capSpent |-> 0,
           fired |-> {}]
    BY <1>1 DEF RetiredAttachment, AttType
  <2> QED
    BY <1>1, <2>1 DEF AttType
<1>3. AttHolds(att'[a])
  <2>1. att'[a].decl.nMax \in Nat
    BY <1>1, <1>2, DeclFacts DEF AttType
  <2> QED
    BY <1>2, <2>1, EmptyFacts DEF AttHolds, FiredCount
<1>4. queue'[a] \in Seq(EventType) /\ owed'[a] = Len(queue'[a])
  BY <1>1 DEF Cleared
<1>5. ASSUME NEW s \in Seqs
      PROVE  /\ firing'[a][s] \in FiringType
             /\ FiringHolds(att'[a], 0, s, firing'[a][s])
             /\ firing[a][s].end # None => firing'[a][s].end = firing[a][s].end
  <2>1. s # 0
    BY SeqsFacts
  <2>2. CASE s = inflight[a] \/ firing[a][s].segment = "held"
    <3>1. firing[a][s].segment = "held"
      BY <2>1, <2>2, UnderWay
    <3>2. firing'[a][s] = Settled(firing[a][s], end)
      BY <2>2 DEF RetiredFirings
    <3>3. end \in Ends \ {None}
      BY DEF Ends, None, Commits, Failures
    <3> QED
      BY <1>2, <2>1, <3>1, <3>2, <3>3, HeldFacts, SettledFacts, SettledHolds DEF OneShape
  <2>3. CASE ~ (s = inflight[a] \/ firing[a][s].segment = "held")
    <3>1. firing'[a][s] = [firing[a][s] EXCEPT !.cap = 0]
      BY <2>3 DEF RetiredFirings
    <3>2. FiringHolds(att[a], inflight[a], s, firing[a][s]) /\ firing[a][s] \in FiringType
      BY <1>1 DEF AHolds, RowsHold
    <3>3. /\ firing'[a][s] \in FiringType /\ firing'[a][s].cap = 0
          /\ firing'[a][s].end = firing[a][s].end
          /\ firing'[a][s].segment = firing[a][s].segment
          /\ firing'[a][s].emitted = firing[a][s].emitted
          /\ firing'[a][s].waiting = firing[a][s].waiting
          /\ firing'[a][s].read = firing[a][s].read
      BY <3>1, <3>2 DEF FiringType
    <3>4. OneShape(firing[a][s]) => OneShape(firing'[a][s])
      BY <3>3 DEF OneShape
    <3> QED
      BY <1>2, <2>1, <2>3, <3>2, <3>3, <3>4 DEF FiringHolds
  <2> QED
    BY <2>2, <2>3
<1>6. firing'[a] \in [Seqs -> FiringType]
  <2>1. firing'[a] = [s \in Seqs |-> firing'[a][s]]
    BY DEF RetiredFirings
  <2> QED
    BY <1>5, <2>1
<1> QED
  BY <1>2, <1>3, <1>4, <1>5, <1>6 DEF AHolds, RowsHold, EndsKept

----------------------------------------------------------------------------
(* The steps.                                                              *)
LEMMA RetireAllStep ==
  ASSUME IInv, ~ crashed, now' = now, crashed' = crashed, Tables',
         NEW S \in SUBSET Id, \A a \in S : Live(a), NEW status \in Terminal,
         NEW end \in {"aborted", "expired"},
         \A a \in S :
           /\ att'[a] = RetiredAttachment(att[a], status) /\ firing'[a] = RetiredFirings(a, end)
           /\ queue'[a] = <<>> /\ inflight'[a] = 0 /\ owed'[a] = Cleared(a),
         \A a \in Id \ S :
           /\ Alike(att[a], att'[a]) /\ firing'[a] = firing[a] /\ inflight'[a] = inflight[a]
           /\ queue'[a] \in Seq(EventType) /\ owed'[a] = Len(queue'[a]),
         cache' = IF S = {} THEN cache ELSE [a \in Id |-> Outstanding(att'[a])]
  PROVE  IInv' /\ \A a \in Id : EndsKept(a)
<1>1. ASSUME NEW a \in S PROVE AHolds(a)' /\ EndsKept(a)
  BY <1>1, RetiredStep DEF IInv
<1>2. ASSUME NEW a \in Id \ S PROVE AHolds(a)' /\ EndsKept(a)
  <2>1. AHolds(a)
    BY DEF IInv
  <2>2. cache'[a] = Outstanding(att'[a])
    <3>1. CASE S = {}
      BY <2>1, <3>1, AlikeRows DEF AHolds
    <3>2. CASE S # {}
      BY <3>2
    <3> QED
      BY <3>1, <3>2
  <2> QED
    BY <2>1, <2>2, AlikeStep
<1> QED
  BY <1>1, <1>2 DEF IInv

(* A step of one attachment that leaves the others as they are. *)
LEMMA OneStep ==
  ASSUME IInv, now' \in Nat, crashed' = crashed, NEW a \in Id, AHolds(a)', EndsKept(a), Tables',
         \A b \in Id \ {a} :
           /\ att'[b] = att[b] /\ firing'[b] = firing[b] /\ queue'[b] = queue[b]
           /\ inflight'[b] = inflight[b] /\ cache'[b] = cache[b] /\ owed'[b] = owed[b]
  PROVE  IInv' /\ \A b \in Id : EndsKept(b)
<1>1. \A b \in Id \ {a} : AHolds(b)' /\ EndsKept(b)
  BY AsBefore DEF IInv
<1> QED
  BY <1>1 DEF IInv

LEMMA AttachStep ==
  ASSUME IInv, NEW a \in Id, NEW d \in Declaration, Attach(a, d)
  PROVE  IInv' /\ \A b \in Id : EndsKept(b)
<1>1. /\ AHolds(a) /\ att[a] = Absent
      /\ att' = [att EXCEPT ![a] = Fresh(d)] /\ now' = now /\ crashed' = crashed
      /\ UNCHANGED <<firing, queue, inflight, cache, owed>>
  BY StatusFacts DEF IInv, Attach, Exists, AHolds
<1>2. Tables' /\ att'[a] = Fresh(d) /\ \A b \in Id \ {a} : att'[b] = att[b]
  BY <1>1 DEF IInv, Tables
<1>3. \A s \in Seqs : firing[a][s] = NoFiring
  BY <1>1 DEF AHolds, RowsHold, FiringHolds, Absent, None, Terminal
<1>4. Fresh(d) \in AttType
  <2>1. now + d.ttl \in Int /\ now \in Int
    BY DeclFacts DEF IInv
  <2>2. d.nMax \in Int /\ d.nMax * d.budget \in Int
    BY DeclFacts
  <2> QED
    BY <2>1, <2>2 DEF Fresh, AttType
<1>5. /\ FiredCount(Fresh(d)) = 0 /\ Fresh(d).fired = {} /\ Fresh(d).decl = d
      /\ Fresh(d).status = "active" /\ Fresh(d).root = "held" /\ Fresh(d).capFire = d.nMax
  BY EmptyFacts DEF FiredCount, Fresh
<1>6. AttHolds(Fresh(d))
  BY <1>5, DeclFacts, EmptyFacts DEF AttHolds, Terminal
<1>7. ASSUME NEW s \in Seqs PROVE FiringHolds(Fresh(d), inflight[a], s, firing[a][s])
  <2>1. FiringHolds(Absent, inflight[a], s, NoFiring)
    BY <1>1, <1>3 DEF AHolds, RowsHold
  <2> QED
    BY <1>3, <1>5, <2>1 DEF FiringHolds, NoFiring, None
<1>8. Outstanding(Fresh(d)) = Outstanding(Absent)
  <2>1. 0 * d.budget = 0
    BY DeclFacts
  <2> QED
    BY <1>5, <2>1 DEF Outstanding, Absent, None
<1>9. AHolds(a)' /\ EndsKept(a)
  BY <1>1, <1>2, <1>4, <1>6, <1>7, <1>8 DEF AHolds, RowsHold, EndsKept
<1> QED
  BY <1>1, <1>2, <1>9, OneStep DEF IInv

LEMMA EventStep ==
  ASSUME IInv, NEW ok \in BOOLEAN, Event(ok)
  PROVE  IInv' /\ \A a \in Id : EndsKept(a)
<1> DEFINE e(a) == Enqueue(att[a], queue[a], owed[a], Arrival(ok))
<1>1. /\ att' = [a \in Id |-> IF Hears(a) THEN e(a)[1] ELSE att[a]]
      /\ queue' = [a \in Id |-> IF Hears(a) THEN e(a)[2] ELSE queue[a]]
      /\ owed' = [a \in Id |-> IF Hears(a) THEN e(a)[3] ELSE owed[a]]
      /\ ~ crashed /\ UNCHANGED <<now, crashed, firing, inflight, cache>>
  BY DEF Event
<1>2. Arrival(ok) \in EventType
  BY DEF Arrival, EventType
<1>3. ASSUME NEW a \in Id, Hears(a)
      PROVE  Alike(att[a], e(a)[1]) /\ e(a)[2] \in Seq(EventType) /\ e(a)[3] = Len(e(a)[2])
  BY <1>2, <1>3, LiveFacts, EnqueueFacts DEF IInv, AHolds, Hears
<1> HIDE DEF e
<1>4. ASSUME NEW a \in Id PROVE AHolds(a)' /\ EndsKept(a)
  <2>1. AHolds(a)
    BY DEF IInv
  <2>2. CASE Hears(a)
    <3>1. Alike(att[a], att'[a]) /\ queue'[a] \in Seq(EventType) /\ owed'[a] = Len(queue'[a])
      BY <1>1, <1>3, <2>2
    <3>2. cache'[a] = Outstanding(att'[a])
      BY <1>1, <2>1, <3>1, AlikeRows DEF AHolds
    <3> QED
      BY <1>1, <2>1, <3>1, <3>2, AlikeStep
  <2>3. CASE ~ Hears(a)
    BY <1>1, <2>1, <2>3, AsBefore
  <2> QED
    BY <2>2, <2>3
<1>5. Tables'
  BY <1>1 DEF Tables, IInv
<1> QED
  BY <1>1, <1>4, <1>5 DEF IInv

LEMMA AsItIsFacts ==
  ASSUME IInv, NEW a \in Id
  PROVE  /\ Alike(att[a], AsItIs[a][1])
         /\ AsItIs[a][2] \in Seq(EventType) /\ AsItIs[a][3] = Len(AsItIs[a][2])
BY DEF IInv, AHolds, AsItIs, Alike

(* RetireAll over whatever else the call makes of those it leaves. *)
LEMMA RetireSome ==
  ASSUME IInv, ~ crashed, now' = now, crashed' = crashed,
         NEW S \in SUBSET Id, \A a \in S : Live(a), NEW status \in Terminal,
         NEW end \in {"aborted", "expired"}, NEW rest, RetireAll(S, status, end, rest),
         \A a \in Id : /\ Alike(att[a], rest[a][1])
                      /\ rest[a][2] \in Seq(EventType) /\ rest[a][3] = Len(rest[a][2])
  PROVE  IInv' /\ \A a \in Id : EndsKept(a)
<1>1. Tables'
  BY DEF RetireAll, Tables, IInv
<1>2. \A a \in S :
        /\ att'[a] = RetiredAttachment(att[a], status) /\ firing'[a] = RetiredFirings(a, end)
        /\ queue'[a] = <<>> /\ inflight'[a] = 0 /\ owed'[a] = Cleared(a)
  BY DEF RetireAll
<1>3. \A a \in Id \ S :
        /\ Alike(att[a], att'[a]) /\ firing'[a] = firing[a] /\ inflight'[a] = inflight[a]
        /\ queue'[a] \in Seq(EventType) /\ owed'[a] = Len(queue'[a])
  BY DEF RetireAll
<1>4. cache' = IF S = {} THEN cache ELSE [a \in Id |-> Outstanding(att'[a])]
  BY DEF RetireAll
<1> QED
  BY <1>1, <1>2, <1>3, <1>4, RetireAllStep

LEMMA DetachStep ==
  ASSUME IInv, NEW a \in Id, Detach(a)
  PROVE  IInv' /\ \A b \in Id : EndsKept(b)
<1>1. /\ ~ crashed /\ Live(a) /\ now' = now /\ crashed' = crashed
      /\ RetireAll({a}, "detached", "aborted", AsItIs)
  BY DEF Detach
<1>2. "detached" \in Terminal /\ {a} \in SUBSET Id /\ \A b \in {a} : Live(b)
  BY <1>1 DEF Terminal
<1>3. \A b \in Id :
        /\ Alike(att[b], AsItIs[b][1])
        /\ AsItIs[b][2] \in Seq(EventType) /\ AsItIs[b][3] = Len(AsItIs[b][2])
  BY AsItIsFacts
<1> QED
  BY <1>1, <1>2, <1>3, RetireSome

LEMMA RevokeStep ==
  ASSUME IInv, NEW g \in Grant, Revoke(g)
  PROVE  IInv' /\ \A b \in Id : EndsKept(b)
<1>1. /\ ~ crashed /\ now' = now /\ crashed' = crashed
      /\ RetireAll(RestOn(g), "detached", "aborted", AsItIs)
  BY DEF Revoke
<1>2. "detached" \in Terminal /\ RestOn(g) \in SUBSET Id /\ \A a \in RestOn(g) : Live(a)
  BY DEF Terminal, RestOn
<1>3. \A b \in Id :
        /\ Alike(att[b], AsItIs[b][1])
        /\ AsItIs[b][2] \in Seq(EventType) /\ AsItIs[b][3] = Len(AsItIs[b][2])
  BY AsItIsFacts
<1> QED
  BY <1>1, <1>2, <1>3, RetireSome

LEMMA TickStep ==
  ASSUME IInv, Tick
  PROVE  IInv' /\ \A b \in Id : EndsKept(b)
<1> DEFINE rung == [a \in Id |->
             IF Rings(a)
             THEN Enqueue([att[a] EXCEPT !.lastTick = now], queue[a], owed[a], Arrival(TRUE))
             ELSE AsItIs[a]]
           due == {a \in Id : Due(a)}
<1>1. ~ crashed /\ now' = now /\ crashed' = crashed /\ RetireAll(due, "expired", "expired", rung)
  BY DEF Tick
<1>2. "expired" \in Terminal /\ due \in SUBSET Id /\ \A a \in due : Live(a)
  BY DEF Terminal, Due
<1>3. ASSUME NEW a \in Id
      PROVE  /\ Alike(att[a], rung[a][1])
             /\ rung[a][2] \in Seq(EventType) /\ rung[a][3] = Len(rung[a][2])
  <2>1. CASE ~ Rings(a)
    BY <2>1, AsItIsFacts
  <2>2. CASE Rings(a)
    <3> DEFINE r == [att[a] EXCEPT !.lastTick = now]
    <3>1. AHolds(a) /\ att[a] \in AttType /\ now \in Int
      BY <2>2, LiveFacts DEF Rings, IInv
    <3>2. r \in AttType /\ Alike(att[a], r)
      BY <3>1 DEF AttType, Alike
    <3>3. Arrival(TRUE) \in EventType
      BY DEF Arrival, EventType
    <3> DEFINE e == Enqueue(r, queue[a], Len(queue[a]), Arrival(TRUE))
    <3>4. rung[a] = e
      BY <2>2, <3>1 DEF AHolds
    <3>5. queue[a] \in Seq(EventType)
      BY <3>1 DEF AHolds
    <3> HIDE DEF r, rung
    <3>6. Alike(r, e[1]) /\ e[2] \in Seq(EventType) /\ e[3] = Len(e[2])
      BY <3>2, <3>3, <3>5, EnqueueFacts
    <3> HIDE DEF e
    <3>7. Alike(att[a], e[1])
      BY <3>1, <3>2, <3>6 DEF Alike
    <3> QED
      BY <3>4, <3>6, <3>7
  <2> QED
    BY <2>1, <2>2
<1> HIDE DEF rung, due
<1> QED
  BY <1>1, <1>2, <1>3, RetireSome

LEMMA TableStep ==
  ASSUME IInv, NEW admitted \in SUBSET Id, TableChange(admitted)
  PROVE  IInv' /\ \A b \in Id : EndsKept(b)
<1> DEFINE live == {a \in Id : Live(a)}
           waits == [a \in Id |->
             IF Live(a) THEN <<Pause(att[a], "paused_table"), queue[a], owed[a]>> ELSE AsItIs[a]]
<1>1. /\ ~ crashed /\ now' = now /\ crashed' = crashed
      /\ RetireAll(live \ admitted, "detached", "aborted", waits)
  BY DEF TableChange
<1>2. /\ "detached" \in Terminal /\ live \ admitted \in SUBSET Id
      /\ \A a \in live \ admitted : Live(a)
  BY DEF Terminal
<1>3. ASSUME NEW a \in Id
      PROVE  /\ Alike(att[a], waits[a][1])
             /\ waits[a][2] \in Seq(EventType) /\ waits[a][3] = Len(waits[a][2])
  <2>1. CASE ~ Live(a)
    BY <2>1, AsItIsFacts
  <2>2. CASE Live(a)
    <3>1. AHolds(a) /\ att[a] \in AttType
      BY <2>2, LiveFacts DEF IInv
    <3> QED
      BY <2>2, <3>1, PauseAlike DEF AHolds
  <2> QED
    BY <2>1, <2>2
<1> HIDE DEF live, waits
<1> QED
  BY <1>1, <1>2, <1>3, RetireSome

LEMMA SignStep ==
  ASSUME IInv, NEW a \in Id, Resign(a) \/ Resume(a)
  PROVE  IInv' /\ \A b \in Id : EndsKept(b)
<1>1. /\ AHolds(a) /\ att[a] \in AttType /\ att[a].status \notin Terminal
      /\ now' = now /\ crashed' = crashed
      /\ UNCHANGED <<firing, queue, inflight, cache, owed>>
  BY StatusFacts DEF IInv, AHolds, Resign, Resume, Absent, None, Terminal
<1>2. /\ Tables' /\ Alike(att[a], att'[a]) /\ \A b \in Id \ {a} : att'[b] = att[b]
  <2>1. CASE Resign(a)
    <3>1. att'[a] = [att[a] EXCEPT !.status = "active"]
      BY <2>1 DEF Resign, IInv, Tables
    <3> QED
      BY <1>1, <2>1, <3>1 DEF Resign, IInv, Tables, Alike, AttType, Terminal
  <2>2. CASE Resume(a)
    <3>1. att'[a] = [att[a] EXCEPT !.status = "active", !.failures = 0]
      BY <2>2 DEF Resume, IInv, Tables
    <3> QED
      BY <1>1, <2>2, <3>1 DEF Resume, IInv, Tables, Alike, AttType, Terminal
  <2> QED
    BY <2>1, <2>2
<1>3. AHolds(a)' /\ EndsKept(a)
  BY <1>1, <1>2, AlikeRows DEF AHolds, EndsKept
<1> QED
  BY <1>1, <1>2, <1>3, OneStep DEF IInv

----------------------------------------------------------------------------
(* Firing.                                                                 *)
LEMMA TakenFacts ==
  ASSUME NEW a \in Id, AHolds(a), MayTake(a)
  PROVE  /\ att[a] \in AttType /\ AttHolds(att[a]) /\ att[a].status = "active"
         /\ Taken(a)[1] \in Seq(EventType) /\ Taken(a)[2] = Len(Taken(a)[1])
<1>1. att[a] \in AttType /\ AttHolds(att[a]) /\ att[a].status = "active"
  BY DEF AHolds, RowsHold, MayTake, Absent, None
<1>2. queue[a] \in Seq(EventType) /\ owed[a] = Len(queue[a])
  BY DEF AHolds
<1>3. CASE att[a].decl.trigger = "manual"
  BY <1>1, <1>2, <1>3 DEF Taken
<1>4. CASE att[a].decl.trigger # "manual"
  <2>1. queue[a] # <<>> /\ Taken(a) = <<Tail(queue[a]), owed[a] - 1>>
    BY <1>4 DEF MayTake, Taken
  <2>2. Tail(queue[a]) \in Seq(EventType) /\ Len(Tail(queue[a])) = Len(queue[a]) - 1
    BY <1>2, <2>1
  <2> QED
    BY <1>1, <1>2, <2>1, <2>2
<1> QED
  BY <1>3, <1>4

LEMMA RefuseStep ==
  ASSUME IInv, NEW a \in Id, Refuse(a)
  PROVE  IInv' /\ \A b \in Id : EndsKept(b)
<1>1. /\ AHolds(a) /\ MayTake(a) /\ ~ crashed
      /\ queue' = [queue EXCEPT ![a] = Taken(a)[1]] /\ owed' = [owed EXCEPT ![a] = Taken(a)[2]]
      /\ now' = now /\ crashed' = crashed /\ UNCHANGED <<att, firing, inflight, cache>>
  BY DEF IInv, Refuse, MayTake
<1>2. Tables' /\ queue'[a] = Taken(a)[1] /\ owed'[a] = Taken(a)[2]
  BY <1>1 DEF IInv, Tables
<1>3. \A b \in Id \ {a} : queue'[b] = queue[b] /\ owed'[b] = owed[b]
  BY <1>1 DEF IInv, Tables
<1>4. AHolds(a)' /\ EndsKept(a)
  BY <1>1, <1>2, TakenFacts DEF AHolds, EndsKept
<1> QED
  BY <1>1, <1>2, <1>3, <1>4, OneStep DEF IInv

(* One more row is spent, and the firing it numbers has not begun. *)
LEMMA SpentFacts ==
  ASSUME NEW a \in Id, AHolds(a), MayTake(a), Room(a)
  PROVE  /\ NextSeq(att[a]) \in Seqs /\ NextSeq(att[a]) \notin att[a].fired
         /\ Spent(a) \in AttType /\ AttHolds(Spent(a))
         /\ Spent(a).fired = att[a].fired \cup {NextSeq(att[a])}
         /\ Spent(a).status = "active" /\ Spent(a).decl = att[a].decl
         /\ FiredCount(att[a]) \in Nat /\ FiredCount(Spent(a)) = FiredCount(att[a]) + 1
<1> DEFINE n == FiredCount(att[a])
<1>1. /\ att[a] \in AttType /\ AttHolds(att[a]) /\ att[a].status = "active"
      /\ att[a].decl \in Declaration
  BY TakenFacts DEF AttType
<1>2. /\ n \in Nat /\ att[a].fired = 1 .. n /\ n < att[a].decl.nMax /\ att[a].root = "held"
      /\ att[a].capFire = att[a].decl.nMax /\ att[a].decl.nMax \in Nat
  BY <1>1, DeclFacts DEF AttHolds, Room, Terminal
<1> HIDE DEF n
<1>3. NextSeq(att[a]) = n + 1
  BY DEF NextSeq, n
<1>4. n + 1 \in Seqs /\ n + 1 \notin att[a].fired
  <2>1. n + 1 \in 1 .. att[a].decl.nMax
    BY <1>2
  <2> QED
    BY <1>1, <1>2, <2>1, SeqsFacts
<1>5. Spent(a) = [att[a] EXCEPT !.fired = att[a].fired \cup {n + 1}]
  BY <1>3 DEF Spent
<1>6. /\ Spent(a) \in AttType /\ Spent(a).fired = att[a].fired \cup {n + 1}
      /\ Spent(a).status = "active" /\ Spent(a).decl = att[a].decl
      /\ Spent(a).root = "held" /\ Spent(a).capFire = att[a].decl.nMax
  <2> DEFINE more == att[a].fired \cup {n + 1}
  <2>1. more \in SUBSET Seqs
    BY <1>1, <1>4 DEF AttType
  <2>2. Spent(a) = [att[a] EXCEPT !.fired = more]
    BY <1>5
  <2> HIDE DEF more
  <2>3. /\ Spent(a) \in AttType /\ Spent(a).fired = more
        /\ Spent(a).status = att[a].status /\ Spent(a).decl = att[a].decl
        /\ Spent(a).root = att[a].root /\ Spent(a).capFire = att[a].capFire
    BY <1>1, <2>1, <2>2 DEF AttType
  <2> QED
    BY <1>1, <1>2, <2>3 DEF more
<1>7. Spent(a).fired = 1 .. n + 1
  BY <1>2, <1>6
<1>8. FiredCount(Spent(a)) = n + 1
  BY <1>2, <1>7, FS_Interval DEF FiredCount
<1>9. AttHolds(Spent(a))
  BY <1>2, <1>6, <1>7, <1>8 DEF AttHolds, Terminal
<1> QED
  BY <1>2, <1>3, <1>4, <1>6, <1>8, <1>9 DEF n

(* One firing and one budget more is what the rows add up to with the row   *)
(* that was spent: the cache that was right is right again.                 *)
LEMMA ChargedFacts ==
  ASSUME IInv, NEW a \in Id, MayTake(a), Room(a)
  PROVE  /\ Charged(a) = [b \in Id |-> Charged(a)[b]]
         /\ Charged(a)[a] = Outstanding(Spent(a))
         /\ \A b \in Id \ {a} : Charged(a)[b] = cache[b]
<1> DEFINE n == FiredCount(att[a])
           w == att[a].decl.budget
<1>1. AHolds(a) /\ cache = [b \in Id |-> cache[b]] /\ cache[a] = Outstanding(att[a])
  BY DEF IInv, AHolds, Tables
<1>2. /\ n \in Nat /\ FiredCount(Spent(a)) = n + 1 /\ w \in Nat
      /\ att[a].status = "active" /\ Spent(a).status = "active" /\ Spent(a).decl = att[a].decl
  <2>1. att[a] \in AttType /\ att[a].status = "active"
    BY <1>1, TakenFacts
  <2>2. att[a].decl \in Declaration
    BY <2>1 DEF AttType
  <2> QED
    BY <1>1, <2>1, <2>2, SpentFacts, DeclFacts
<1> HIDE DEF n, w
<1>3. cache[a] = [fire |-> n, spent |-> n * w]
  BY <1>1, <1>2 DEF Outstanding, None, n, w
<1>4. Outstanding(Spent(a)) = [fire |-> n + 1, spent |-> (n + 1) * w]
  BY <1>2 DEF Outstanding, None, w
<1>5. (n + 1) * w = n * w + w
  BY <1>2
<1>6. Charged(a) = [cache EXCEPT ![a] = [cache[a] EXCEPT !.fire = cache[a].fire + 1,
                                                         !.spent = cache[a].spent + w]]
  BY <1>1 DEF Charged, w
<1>7. [cache[a] EXCEPT !.fire = cache[a].fire + 1, !.spent = cache[a].spent + w]
        = [fire |-> n + 1, spent |-> n * w + w]
  <2>1. cache[a].fire = n /\ cache[a].spent = n * w
    BY <1>3
  <2>2. [cache[a] EXCEPT !.fire = n + 1] = [fire |-> n + 1, spent |-> n * w]
    BY <1>3
  <2> DEFINE m == n * w
  <2> HIDE DEF m
  <2>3. [[fire |-> n + 1, spent |-> m] EXCEPT !.spent = m + w] = [fire |-> n + 1, spent |-> m + w]
    OBVIOUS
  <2> QED
    BY <2>1, <2>2, <2>3 DEF m
<1> QED
  BY <1>1, <1>4, <1>5, <1>6, <1>7

LEMMA SpentHolds ==
  ASSUME NEW a \in Id, AHolds(a), MayTake(a), Room(a), NEW s \in Seqs
  PROVE  FiringHolds(Spent(a), 0, s, firing[a][s])
<1>1. FiringHolds(att[a], inflight[a], s, firing[a][s])
  BY DEF AHolds, RowsHold
<1>2. /\ att[a].status = "active" /\ Spent(a).status = "active" /\ att[a].fired \subseteq Spent(a).fired
      /\ inflight[a] = 0
  BY TakenFacts, SpentFacts DEF MayTake
<1> QED
  BY <1>1, <1>2, StatusFacts DEF FiringHolds, None, Terminal

LEMMA BeginStep ==
  ASSUME IInv, NEW a \in Id, Begin(a)
  PROVE  IInv' /\ \A b \in Id : EndsKept(b)
<1> DEFINE k == NextSeq(att[a])
<1>1. /\ AHolds(a) /\ MayTake(a) /\ Room(a) /\ ~ crashed /\ inflight[a] = 0 /\ now \in Nat
      /\ att' = [att EXCEPT ![a] = Started(a)]
      /\ firing' = [firing EXCEPT ![a][k] = Segment(a)]
      /\ inflight' = [inflight EXCEPT ![a] = k]
      /\ queue' = [queue EXCEPT ![a] = Taken(a)[1]] /\ owed' = [owed EXCEPT ![a] = Taken(a)[2]]
      /\ cache' = Charged(a)
      /\ now' = now /\ crashed' = crashed
  BY DEF IInv, Begin, MayTake
<1>2. /\ k \in Seqs /\ k \notin att[a].fired
      /\ Spent(a) \in AttType /\ AttHolds(Spent(a)) /\ Spent(a).fired = att[a].fired \cup {k}
      /\ Spent(a).status = "active" /\ Spent(a).decl = att[a].decl
      /\ att[a].status = "active" /\ att[a].decl \in Declaration
  BY <1>1, SpentFacts, TakenFacts DEF AttType
<1> HIDE DEF k
<1>3. /\ Started(a) \in AttType /\ AttHolds(Started(a)) /\ Started(a).fired = att[a].fired \cup {k}
      /\ Started(a).status = "active" /\ Started(a).decl = att[a].decl
  <2>1. now + att[a].decl.minInterval \in Int
    BY <1>1, <1>2, DeclFacts
  <2>2. /\ Started(a) \in AttType /\ Started(a).fired = Spent(a).fired
        /\ Started(a).status = Spent(a).status /\ Started(a).decl = Spent(a).decl
        /\ Started(a).root = Spent(a).root /\ Started(a).capFire = Spent(a).capFire
        /\ Started(a).capSpent = Spent(a).capSpent
    BY <1>2, <2>1 DEF Started, AttType
  <2>3. FiredCount(Started(a)) = FiredCount(Spent(a))
    BY <2>2 DEF FiredCount
  <2> QED
    BY <1>2, <2>2, <2>3 DEF AttHolds
<1>c. /\ cache' = [b \in Id |-> cache'[b]] /\ cache'[a] = Outstanding(Started(a))
      /\ \A b \in Id \ {a} : cache'[b] = cache[b]
  <2>1. Outstanding(Started(a)) = Outstanding(Spent(a))
    BY <1>1, <1>2, <1>3 DEF Outstanding, FiredCount
  <2> QED
    BY <1>1, <2>1, ChargedFacts
<1>4. /\ Tables' /\ att'[a] = Started(a) /\ inflight'[a] = k /\ cache'[a] = Outstanding(att'[a])
      /\ queue'[a] = Taken(a)[1] /\ owed'[a] = Taken(a)[2]
      /\ firing'[a] = [firing[a] EXCEPT ![k] = Segment(a)]
  BY <1>1, <1>c DEF IInv, Tables
<1>5. \A b \in Id \ {a} :
        /\ att'[b] = att[b] /\ firing'[b] = firing[b] /\ queue'[b] = queue[b]
        /\ inflight'[b] = inflight[b] /\ cache'[b] = cache[b] /\ owed'[b] = owed[b]
  BY <1>1, <1>c DEF IInv, Tables
<1>6. firing[a] \in [Seqs -> FiringType]
  BY <1>1 DEF AHolds
<1>7. Segment(a) \in FiringType /\ FiringHolds(Started(a), k, k, Segment(a))
  <2>1. att[a].decl.budget \in Int
    BY <1>2, DeclFacts
  <2>2. /\ NoFiring \in FiringType /\ NoFiring.end = None /\ NoFiring.emitted = 0
        /\ NoFiring.waiting = 0 /\ NoFiring.read = 0
    BY DEF NoFiring, FiringType, Ends
  <2>3. /\ Segment(a) \in FiringType /\ Segment(a).segment = "held"
        /\ Segment(a).end = NoFiring.end /\ Segment(a).emitted = NoFiring.emitted
        /\ Segment(a).waiting = NoFiring.waiting /\ Segment(a).read = NoFiring.read
    BY <2>1, <2>2 DEF Segment, FiringType
  <2> QED
    BY <1>3, <2>2, <2>3 DEF FiringHolds, None, Terminal
<1>8. ASSUME NEW s \in Seqs
      PROVE  /\ FiringHolds(Started(a), k, s, firing'[a][s])
             /\ firing[a][s].end # None => firing'[a][s].end = firing[a][s].end
  <2>1. FiringHolds(Spent(a), 0, s, firing[a][s])
    BY <1>1, SpentHolds
  <2>2. CASE s = k
    <3>1. FiringHolds(att[a], inflight[a], s, firing[a][s])
      BY <1>1 DEF AHolds, RowsHold
    <3>2. firing[a][s] = NoFiring
      BY <1>2, <2>2, <3>1 DEF FiringHolds, Terminal
    <3> QED
      BY <1>4, <1>6, <1>7, <2>2, <3>2 DEF NoFiring
  <2>3. CASE s # k
    <3>1. firing'[a][s] = firing[a][s]
      BY <1>4, <1>6, <2>3
    <3> QED
      BY <1>2, <1>3, <2>1, <2>3, <3>1 DEF FiringHolds
  <2> QED
    BY <2>2, <2>3
<1>9. AHolds(a)' /\ EndsKept(a)
  <2>1. firing'[a] \in [Seqs -> FiringType]
    BY <1>4, <1>6, <1>7
  <2>2. RowsHold(att'[a], firing'[a], inflight'[a])
    BY <1>3, <1>4, <1>8 DEF RowsHold
  <2> QED
    BY <1>1, <1>2, <1>3, <1>4, <1>8, <2>1, <2>2, TakenFacts DEF AHolds, EndsKept
<1> QED
  BY <1>1, <1>4, <1>5, <1>9, OneStep

(* A crash leaves no event and no firing under way, and the rows it finds. *)
LEMMA LostStep ==
  ASSUME NEW a \in Id, AHolds(a), firing'[a] = firing[a], crashed',
         att'[a] \in {Absent} \cup AttType, att'[a] = Absent \/ AttHolds(att'[a]),
         \A s \in Seqs : FiringHolds(att'[a], 0, s, firing[a][s]),
         queue'[a] = <<>>, inflight'[a] = 0, owed'[a] = 0, cache'[a] = Outstanding(att'[a])
  PROVE  AHolds(a)' /\ EndsKept(a)
BY DEF AHolds, RowsHold, EndsKept

LEMMA CrashStep ==
  ASSUME IInv, Crash
  PROVE  IInv' /\ \A b \in Id : EndsKept(b)
<1>1. /\ crashed' = TRUE /\ now' = now /\ UNCHANGED <<att, firing, cache>>
      /\ queue' = [a \in Id |-> <<>>] /\ inflight' = [a \in Id |-> 0]
      /\ owed' = [a \in Id |-> owed[a] - Len(queue[a])]
  BY DEF Crash, Lose
<1>2. ASSUME NEW a \in Id PROVE AHolds(a)' /\ EndsKept(a)
  <2>1. AHolds(a)
    BY DEF IInv
  <2>2. \A s \in Seqs : FiringHolds(att[a], 0, s, firing[a][s])
    BY <2>1, SeqsFacts DEF AHolds, RowsHold, FiringHolds
  <2>3. owed'[a] = 0
    BY <1>1, <2>1 DEF AHolds
  <2>4. queue'[a] = <<>> /\ inflight'[a] = 0 /\ crashed'
    BY <1>1
  <2>5. /\ att'[a] = att[a] /\ firing'[a] = firing[a] /\ cache'[a] = Outstanding(att'[a])
        /\ att[a] \in {Absent} \cup AttType /\ (att[a] = Absent \/ AttHolds(att[a]))
    BY <1>1, <2>1 DEF AHolds, RowsHold
  <2> QED
    BY <2>1, <2>2, <2>3, <2>4, <2>5, LostStep
<1>3. Tables'
  BY <1>1 DEF IInv, Tables
<1> QED
  BY <1>1, <1>2, <1>3 DEF IInv

LEMMA CrashBetweenStep ==
  ASSUME IInv, NEW a \in Id, CrashBetweenRows(a)
  PROVE  IInv' /\ \A b \in Id : EndsKept(b)
<1>1. /\ AHolds(a) /\ MayTake(a) /\ Room(a) /\ crashed' = TRUE /\ now' = now /\ firing' = firing
      /\ att' = [att EXCEPT ![a] = IF transactional THEN att[a] ELSE Spent(a)]
      /\ cache' = IF transactional THEN cache ELSE Charged(a)
      /\ queue' = [b \in Id |-> <<>>] /\ inflight' = [b \in Id |-> 0]
  BY DEF IInv, CrashBetweenRows, Lose
<1>2. ASSUME NEW b \in Id PROVE owed'[b] = 0
  <2>1. owed'[b] = [owed EXCEPT ![a] = Taken(a)[2]][b] - Len([queue EXCEPT ![a] = Taken(a)[1]][b])
    BY DEF CrashBetweenRows, Lose
  <2>2. AHolds(b)
    BY DEF IInv
  <2>3. CASE b = a
    <3>1. Taken(a)[1] \in Seq(EventType) /\ Taken(a)[2] = Len(Taken(a)[1])
      BY <1>1, TakenFacts
    <3>2. owed'[b] = Taken(a)[2] - Len(Taken(a)[1])
      BY <2>1, <2>3 DEF IInv, Tables
    <3> QED
      BY <3>1, <3>2
  <2>4. CASE b # a
    <3>1. owed'[b] = owed[b] - Len(queue[b])
      BY <2>1, <2>4 DEF IInv, Tables
    <3> QED
      BY <2>2, <3>1 DEF AHolds
  <2> QED
    BY <2>3, <2>4
<1>c. /\ cache' = [b \in Id |-> cache'[b]]
      /\ \/ att'[a] = att[a] /\ cache'[a] = cache[a]
         \/ att'[a] = Spent(a) /\ cache'[a] = Outstanding(Spent(a))
      /\ \A b \in Id \ {a} : cache'[b] = cache[b] /\ att'[b] = att[b]
  <2>1. CASE transactional
    BY <1>1, <2>1 DEF IInv, Tables
  <2>2. CASE ~ transactional
    BY <1>1, <2>2, ChargedFacts DEF IInv, Tables
  <2> QED
    BY <2>1, <2>2
<1>3. Tables'
  BY <1>1, <1>c DEF IInv, Tables, CrashBetweenRows, Lose
<1>4. ASSUME NEW b \in Id PROVE AHolds(b)' /\ EndsKept(b)
  <2>1. AHolds(b) /\ queue'[b] = <<>> /\ inflight'[b] = 0 /\ owed'[b] = 0 /\ firing'[b] = firing[b]
    BY <1>1, <1>2 DEF IInv
  <2>2. CASE att'[b] = att[b] /\ cache'[b] = cache[b]
    <3>1. \A s \in Seqs : FiringHolds(att[b], 0, s, firing[b][s])
      BY <2>1, SeqsFacts DEF AHolds, RowsHold, FiringHolds
    <3>2. cache'[b] = Outstanding(att'[b])
      BY <2>1, <2>2 DEF AHolds
    <3> QED
      BY <1>1, <2>1, <2>2, <3>1, <3>2, LostStep DEF AHolds, RowsHold
  <2>3. CASE b = a /\ att'[b] = Spent(a) /\ cache'[b] = Outstanding(att'[b])
    BY <1>1, <2>1, <2>3, SpentFacts, SpentHolds, LostStep
  <2> QED
    BY <1>c, <2>2, <2>3
<1> QED
  BY <1>1, <1>3, <1>4 DEF IInv

----------------------------------------------------------------------------
(* A firing that goes on, ends or is read.                                 *)
LEMMA FiringStep ==
  ASSUME IInv, NEW a \in Id, NEW s \in Seqs, NEW g \in FiringType,
         firing' = [firing EXCEPT ![a] = [firing[a] EXCEPT ![s] = g]],
         Tables', now' = now, crashed' = crashed, queue' = queue, owed' = owed,
         Alike(att[a], att'[a]), inflight'[a] \in {inflight[a], 0},
         FiringHolds(att[a], inflight'[a], s, g),
         firing[a][s].end # None => g.end = firing[a][s].end,
         cache'[a] = Outstanding(att'[a]),
         \A b \in Id \ {a} : att'[b] = att[b] /\ inflight'[b] = inflight[b] /\ cache'[b] = cache[b]
  PROVE  IInv' /\ \A b \in Id : EndsKept(b)
<1>1. /\ AHolds(a) /\ firing[a] \in [Seqs -> FiringType]
      /\ firing'[a] = [firing[a] EXCEPT ![s] = g]
      /\ \A b \in Id \ {a} : firing'[b] = firing[b]
  BY DEF IInv, Tables, AHolds
<1>2. firing'[a] \in [Seqs -> FiringType] /\ firing'[a][s] = g
  BY <1>1
<1>3. \A k \in Seqs : k # s => firing'[a][k] = firing[a][k]
  BY <1>1
<1>4. ASSUME NEW k \in Seqs PROVE FiringHolds(att[a], inflight'[a], k, firing'[a][k])
  <2>1. CASE k = s
    BY <1>2, <2>1
  <2>2. CASE k # s
    <3>1. FiringHolds(att[a], inflight[a], k, firing'[a][k]) /\ k # 0
      BY <1>1, <1>3, <2>2, SeqsFacts DEF AHolds, RowsHold
    <3> QED
      BY <3>1 DEF FiringHolds
  <2> QED
    BY <2>1, <2>2
<1>5. RowsHold(att[a], firing'[a], inflight'[a]) /\ att[a] \in {Absent} \cup AttType
  BY <1>1, <1>4 DEF AHolds, RowsHold
<1>6. att'[a] \in {Absent} \cup AttType /\ RowsHold(att'[a], firing'[a], inflight'[a])
  BY <1>5, AlikeRows
<1>7. EndsKept(a)
  BY <1>2, <1>3 DEF EndsKept
<1>8. AHolds(a)'
  BY <1>1, <1>2, <1>6 DEF AHolds
<1> QED
  BY <1>1, <1>7, <1>8, OneStep DEF IInv

(* A firing puts n more into the inbox; the consumer of the inbox takes one. *)
LEMMA EmittedFacts ==
  ASSUME NEW f \in FiringType, NEW n \in Int
  PROVE  LET g == [f EXCEPT !.emitted = @ + n, !.waiting = @ + n]
         IN /\ g \in FiringType /\ g.end = f.end /\ g.segment = f.segment /\ g.cap = f.cap
            /\ g.emitted = f.emitted + n /\ g.waiting = f.waiting + n /\ g.read = f.read
<1> DEFINE x == f.emitted + n
           y == f.waiting + n
           g == [f EXCEPT !.emitted = x, !.waiting = y]
<1>1. x \in Int /\ y \in Int
  BY DEF FiringType
<1> HIDE DEF x, y
<1>2. g = [end |-> f.end, segment |-> f.segment, cap |-> f.cap, emitted |-> x, waiting |-> y,
           read |-> f.read]
  <2> DEFINE m == [f EXCEPT !.emitted = x]
  <2>1. m = [end |-> f.end, segment |-> f.segment, cap |-> f.cap, emitted |-> x,
             waiting |-> f.waiting, read |-> f.read]
    BY DEF FiringType
  <2>2. g = [m EXCEPT !.waiting = y]
    OBVIOUS
  <2> HIDE DEF m, g
  <2> QED
    BY <2>1, <2>2
<1>3. /\ g \in FiringType /\ g.end = f.end /\ g.segment = f.segment /\ g.cap = f.cap
      /\ g.emitted = x /\ g.waiting = y /\ g.read = f.read
  BY <1>1, <1>2 DEF FiringType
<1> QED
  BY <1>3 DEF x, y

LEMMA TakenFromInbox ==
  ASSUME NEW f \in FiringType
  PROVE  LET g == [f EXCEPT !.waiting = @ - 1, !.read = @ + 1]
         IN /\ g \in FiringType /\ g.end = f.end /\ g.segment = f.segment /\ g.cap = f.cap
            /\ g.emitted = f.emitted /\ g.waiting = f.waiting - 1 /\ g.read = f.read + 1
<1> DEFINE x == f.waiting - 1
           y == f.read + 1
           g == [f EXCEPT !.waiting = x, !.read = y]
<1>1. x \in Int /\ y \in Int
  BY DEF FiringType
<1> HIDE DEF x, y
<1>2. g = [end |-> f.end, segment |-> f.segment, cap |-> f.cap, emitted |-> f.emitted,
           waiting |-> x, read |-> y]
  <2> DEFINE m == [f EXCEPT !.waiting = x]
  <2>1. m = [end |-> f.end, segment |-> f.segment, cap |-> f.cap, emitted |-> f.emitted,
             waiting |-> x, read |-> f.read]
    BY DEF FiringType
  <2>2. g = [m EXCEPT !.read = y]
    OBVIOUS
  <2> HIDE DEF m, g
  <2> QED
    BY <2>1, <2>2
<1>3. /\ g \in FiringType /\ g.end = f.end /\ g.segment = f.segment /\ g.cap = f.cap
      /\ g.emitted = f.emitted /\ g.waiting = x /\ g.read = y
  BY <1>1, <1>2 DEF FiringType
<1> QED
  BY <1>3 DEF x, y

LEMMA EmitStep ==
  ASSUME IInv, NEW a \in Id, Emit(a)
  PROVE  IInv' /\ \A b \in Id : EndsKept(b)
<1> DEFINE s == inflight[a]
           g == [firing[a][s] EXCEPT !.emitted = @ + 1, !.waiting = @ + 1]
<1>1. /\ AHolds(a) /\ s # 0 /\ firing \in [Id -> [Seqs -> FiringType]]
      /\ now' = now /\ crashed' = crashed /\ UNCHANGED <<att, queue, inflight, cache, owed>>
  BY DEF IInv, Emit, AHolds, Tables
<1>2. s \in Seqs /\ firing[a][s].segment = "held"
  BY <1>1, UnderWay
<1>3. /\ firing[a][s] \in FiringType /\ firing[a][s].end = None
      /\ firing[a][s].waiting + firing[a][s].read = firing[a][s].emitted
      /\ s \in att[a].fired
  BY <1>1, <1>2, HeldFacts
<1>4. firing' = [firing EXCEPT ![a] = [firing[a] EXCEPT ![s] = g]]
  BY <1>1, <1>2 DEF Emit
<1>5. /\ g \in FiringType /\ g.end = None /\ g.segment = "held"
      /\ g.waiting = firing[a][s].waiting + 1 /\ g.emitted = firing[a][s].emitted + 1
      /\ g.read = firing[a][s].read
  <2> HIDE DEF s
  <2>1. /\ g \in FiringType /\ g.end = firing[a][s].end /\ g.segment = firing[a][s].segment
        /\ g.waiting = firing[a][s].waiting + 1 /\ g.emitted = firing[a][s].emitted + 1
        /\ g.read = firing[a][s].read
    <3> 1 \in Int
      OBVIOUS
    <3> QED
      BY <1>3, EmittedFacts, Zenon
  <2> QED
    BY <1>2, <1>3, <2>1
<1>6. FiringHolds(att[a], s, s, firing[a][s])
  BY <1>1, <1>2 DEF AHolds, RowsHold
<1> HIDE DEF g, s
<1>7. g.waiting + g.read = g.emitted
  BY <1>3, <1>5 DEF FiringType
<1>8. FiringHolds(att[a], s, s, g)
  BY <1>2, <1>3, <1>5, <1>6, <1>7 DEF FiringHolds, None
<1>9. Tables'
  BY <1>1, <1>4 DEF IInv, Tables
<1>10. Alike(att[a], att'[a]) /\ cache'[a] = Outstanding(att'[a]) /\ inflight'[a] = s
  BY <1>1 DEF Alike, AHolds, s
<1> QED
  BY <1>1, <1>2, <1>3, <1>4, <1>5, <1>8, <1>9, <1>10, FiringStep DEF s

LEMMA BudgetAlike ==
  ASSUME NEW r \in AttType, NEW end
  PROVE  Alike(r, FailureBudget(r, end)) /\ FailureBudget(r, end) \in AttType
<1> DEFINE counted == [r EXCEPT !.failures = @ + 1]
<1>1. Alike(r, counted) /\ counted \in AttType
  BY DEF Alike, AttType
<1>2. [r EXCEPT !.failures = 0] \in AttType /\ Alike(r, [r EXCEPT !.failures = 0])
  BY DEF Alike, AttType
<1>3. FailureBudget(r, end) \in {counted, Pause(counted, "paused_failure"), [r EXCEPT !.failures = 0], r}
  BY DEF FailureBudget
<1> HIDE DEF counted
<1>4. Alike(counted, Pause(counted, "paused_failure")) /\ Pause(counted, "paused_failure") \in AttType
  BY <1>1, PauseAlike
<1>5. Alike(r, Pause(counted, "paused_failure"))
  BY <1>1, <1>4 DEF Alike
<1> QED
  BY <1>1, <1>2, <1>3, <1>4, <1>5 DEF Alike

LEMMA FinishStep ==
  ASSUME IInv, NEW a \in Id, NEW es \in Effects, NEW n \in 0 .. 1,
         NEW end \in {"completed", "failstop"}, Finish(a, es, n, end)
  PROVE  IInv' /\ \A b \in Id : EndsKept(b)
<1> DEFINE s == inflight[a]
           f == firing[a][s]
           ended == IF Fits(es, f.cap) THEN end ELSE "truncated"
           ran == IF ended = "truncated" THEN f
                  ELSE [f EXCEPT !.emitted = @ + n, !.waiting = @ + n]
           g == Settled(ran, ended)
<1>1. /\ AHolds(a) /\ s # 0 /\ firing \in [Id -> [Seqs -> FiringType]]
      /\ now' = now /\ crashed' = crashed /\ queue' = queue /\ owed' = owed
      /\ att' = [att EXCEPT ![a] = FailureBudget(att[a], ended)]
      /\ cache' = [b \in Id |-> Outstanding(att[b])]
      /\ inflight' = [inflight EXCEPT ![a] = 0]
  BY DEF IInv, Finish, AHolds, Tables
<1>2. s \in Seqs /\ f.segment = "held"
  BY <1>1, UnderWay
<1>3. f \in FiringType /\ f.end = None /\ f.waiting + f.read = f.emitted /\ Live(a) /\ s \in att[a].fired
  BY <1>1, <1>2, HeldFacts
<1>4. firing' = [firing EXCEPT ![a] = [firing[a] EXCEPT ![s] = g]]
  BY <1>1, <1>2 DEF Finish
<1>5. ended \in Ends \ {None}
  BY DEF Ends, Commits, Failures, None
<1> HIDE DEF f, s, ended
<1>6. /\ ran \in FiringType /\ ran.end = None /\ ran.segment = "held"
      /\ ran.waiting + ran.read = ran.emitted
  <2>1. CASE ended = "truncated"
    BY <1>2, <1>3, <2>1
  <2>2. CASE ended # "truncated"
    <3>1. ran = [f EXCEPT !.emitted = @ + n, !.waiting = @ + n]
      BY <2>2
    <3>2. n \in Int
      OBVIOUS
    <3> HIDE DEF ran
    <3>3. /\ ran \in FiringType /\ ran.end = f.end /\ ran.segment = f.segment
          /\ ran.waiting = f.waiting + n /\ ran.emitted = f.emitted + n /\ ran.read = f.read
      BY <1>3, <3>1, <3>2, EmittedFacts, Zenon
    <3> QED
      BY <1>2, <1>3, <3>3 DEF FiringType
  <2> QED
    BY <2>1, <2>2
<1> HIDE DEF ran
<1>7. /\ g \in FiringType /\ g.end = ended /\ g.segment = "freed" /\ OneShape(g)
  BY <1>5, <1>6, SettledFacts
<1> HIDE DEF g
<1>8. FiringHolds(att[a], 0, s, g)
  BY <1>2, <1>3, <1>5, <1>7, SeqsFacts, SettledHolds DEF Live
<1>9. Tables'
  BY <1>1, <1>4 DEF IInv, Tables
<1>10. /\ inflight'[a] = 0 /\ att'[a] = FailureBudget(att[a], ended)
       /\ cache'[a] = Outstanding(att[a])
       /\ \A b \in Id \ {a} : att'[b] = att[b] /\ inflight'[b] = inflight[b] /\ cache'[b] = cache[b]
  BY <1>1 DEF IInv, Tables, AHolds
<1>11. Alike(att[a], att'[a])
  BY <1>1, <1>3, <1>10, LiveFacts, BudgetAlike
<1>12. cache'[a] = Outstanding(att'[a])
  BY <1>1, <1>10, <1>11, AlikeRows DEF AHolds
<1>13. firing[a][s].end # None => g.end = firing[a][s].end
  BY <1>3 DEF f
<1>14. inflight'[a] \in {inflight[a], 0} /\ FiringHolds(att[a], inflight'[a], s, g)
  BY <1>8, <1>10
<1> QED
  BY <1>1, <1>2, <1>4, <1>7, <1>9, <1>10, <1>11, <1>12, <1>13, <1>14, FiringStep

LEMMA ConsumeStep ==
  ASSUME IInv, NEW a \in Id, NEW s \in Seqs, Consume(a, s)
  PROVE  IInv' /\ \A b \in Id : EndsKept(b)
<1> DEFINE f == firing[a][s]
           g == [f EXCEPT !.waiting = @ - 1, !.read = @ + 1]
<1>1. /\ AHolds(a) /\ firing \in [Id -> [Seqs -> FiringType]] /\ f.waiting > 0
      /\ now' = now /\ crashed' = crashed /\ UNCHANGED <<att, queue, inflight, cache, owed>>
  BY DEF IInv, Consume, AHolds, Tables
<1>2. f \in FiringType /\ FiringHolds(att[a], inflight[a], s, f)
  BY <1>1 DEF AHolds, RowsHold
<1>3. firing' = [firing EXCEPT ![a] = [firing[a] EXCEPT ![s] = g]]
  BY <1>1 DEF Consume
<1> HIDE DEF f
<1>4. /\ g \in FiringType /\ g.end = f.end /\ g.segment = f.segment /\ g.cap = f.cap
      /\ g.waiting = f.waiting - 1 /\ g.emitted = f.emitted /\ g.read = f.read + 1
  BY <1>2, TakenFromInbox
<1> HIDE DEF g
<1>5. f # NoFiring
  BY <1>1 DEF NoFiring
<1>6. g.waiting + g.read = f.waiting + f.read
  BY <1>2, <1>4 DEF FiringType
<1>7. FiringHolds(att[a], inflight[a], s, g)
  BY <1>1, <1>2, <1>4, <1>5, <1>6 DEF FiringHolds, OneShape
<1>8. Tables'
  BY <1>1, <1>3 DEF IInv, Tables
<1>9. /\ Alike(att[a], att'[a]) /\ cache'[a] = Outstanding(att'[a]) /\ inflight'[a] = inflight[a]
      /\ firing[a][s].end = g.end
  BY <1>1, <1>4 DEF Alike, AHolds, f
<1> QED
  BY <1>1, <1>3, <1>4, <1>7, <1>8, <1>9, FiringStep

----------------------------------------------------------------------------
(* Recovery: a firing that spent and never began ran empty, one that was   *)
(* under way crashed, and every other is as it was.                        *)
LEMMA RecoveredFacts ==
  ASSUME NEW a \in Id, AHolds(a), Exists(a), inflight[a] = 0, NEW s \in Seqs
  PROVE  /\ RecoveredFiring(a, s) \in FiringType
         /\ FiringHolds(att[a], 0, s, RecoveredFiring(a, s))
         /\ firing[a][s].end # None => RecoveredFiring(a, s).end = firing[a][s].end
<1> DEFINE f == firing[a][s]
           ranEmpty == s \in att[a].fired /\ f.segment = None /\ f.end = None
           underWay == s \in att[a].fired /\ f.segment = "held" /\ Live(a)
<1>1. f \in FiringType /\ FiringHolds(att[a], 0, s, f) /\ s # 0
  BY SeqsFacts DEF AHolds, RowsHold
<1>2. CASE ranEmpty
  <2>1. RecoveredFiring(a, s) = [f EXCEPT !.end = "completed_empty"]
    BY <1>2 DEF RecoveredFiring, None
  <2>2. "completed_empty" \in Ends /\ "completed_empty" \in Commits /\ "completed_empty" # None
    BY DEF Ends, Commits, None
  <2>3. f.cap = 0 /\ f.waiting + f.read = f.emitted /\ f.segment = None /\ f.end = None
    BY <1>1, <1>2 DEF FiringHolds
  <2>4. s \in att[a].fired /\ att[a].status # None
    BY <1>2 DEF Exists
  <2> HIDE DEF f, ranEmpty
  <2> DEFINE g == [f EXCEPT !.end = "completed_empty"]
  <2>5. /\ g \in FiringType /\ g.end = "completed_empty" /\ g.segment = None /\ g.cap = 0
        /\ g.waiting = f.waiting /\ g.read = f.read /\ g.emitted = f.emitted
    BY <1>1, <2>2, <2>3 DEF FiringType
  <2> HIDE DEF g
  <2>6. OneShape(g) /\ g.segment # "held" /\ g.segment # "freed"
    BY <2>2, <2>3, <2>5 DEF OneShape, None
  <2>7. FiringHolds(att[a], 0, s, g)
    BY <1>1, <2>2, <2>4, <2>5, <2>6 DEF FiringHolds
  <2> QED
    BY <2>1, <2>3, <2>5, <2>7 DEF f, g
<1>3. CASE ~ ranEmpty /\ underWay
  <2>1. RecoveredFiring(a, s) = Settled(f, "crashed")
    BY <1>3 DEF RecoveredFiring
  <2>2. "crashed" \in Ends \ {None}
    BY DEF Ends, Failures, None
  <2>3. f.segment = "held" /\ f.end = None /\ f.waiting + f.read = f.emitted
    BY <1>3, HeldFacts
  <2>4. s \in att[a].fired /\ att[a].status # None
    BY <1>3 DEF Exists
  <2> HIDE DEF f, ranEmpty, underWay
  <2> DEFINE g == Settled(f, "crashed")
  <2>5. g \in FiringType /\ g.end = "crashed" /\ g.segment = "freed" /\ OneShape(g)
    BY <1>1, <2>2, <2>3, SettledFacts
  <2> HIDE DEF g
  <2>6. FiringHolds(att[a], 0, s, g)
    BY <1>1, <2>2, <2>4, <2>5, SettledHolds
  <2> QED
    BY <2>1, <2>3, <2>5, <2>6 DEF f, g
<1>4. CASE ~ ranEmpty /\ ~ underWay
  <2>1. RecoveredFiring(a, s) = f
    BY <1>4 DEF RecoveredFiring
  <2> QED
    BY <1>1, <2>1
<1> QED
  BY <1>2, <1>3, <1>4

(* What recovery makes of an attachment has its rows. *)
LEMMA RecoveredAlike ==
  ASSUME NEW a \in Id, AHolds(a), Exists(a)
  PROVE  RecoveredAttachment(a) \in AttType /\ Alike(att[a], RecoveredAttachment(a))
<1>1. att[a] \in AttType
  BY DEF AHolds, Exists, Absent
<1> QED
  BY <1>1, BudgetAlike DEF RecoveredAttachment, Alike

LEMMA CaughtUp ==
  ASSUME NEW r \in AttType, CatchesUp(r), now \in Nat
  PROVE  /\ [r EXCEPT !.lastTick = now] \in AttType
         /\ Alike(r, [r EXCEPT !.lastTick = now])
         /\ Elapsed(r) - 1 \in Int
<1>1. now \in Int /\ r.lastTick \in Int /\ r.decl.period \in Nat \ {0}
  BY DeclFacts DEF AttType, CatchesUp
<1>2. now - r.lastTick \in Int
  BY <1>1
<1>3. \A x \in Int : \A p \in Nat \ {0} : (x \div p) - 1 \in Int
  OBVIOUS
<1>4. Elapsed(r) - 1 \in Int
  BY <1>1, <1>2, <1>3 DEF Elapsed
<1>5. [r EXCEPT !.lastTick = now] \in AttType /\ Alike(r, [r EXCEPT !.lastTick = now])
  BY <1>1 DEF AttType, Alike
<1> QED
  BY <1>4, <1>5

LEMMA RecoverStep ==
  ASSUME IInv, Recover
  PROVE  IInv' /\ \A b \in Id : EndsKept(b)
<1> DEFINE r(a) == IF Exists(a) THEN RecoveredAttachment(a) ELSE att[a]
           late(a) == Exists(a) /\ CatchesUp(r(a))
<1>1. /\ crashed /\ crashed' = FALSE /\ now' = now /\ inflight' = inflight
      /\ firing' = [a \in Id |-> [s \in Seqs |->
           IF Exists(a) THEN RecoveredFiring(a, s) ELSE firing[a][s]]]
      /\ att' = [a \in Id |-> IF late(a) THEN [r(a) EXCEPT !.lastTick = now] ELSE r(a)]
      /\ queue' = [a \in Id |->
           IF late(a) THEN <<[ok |-> TRUE, missed |-> Elapsed(r(a)) - 1]>> ELSE <<>>]
      /\ owed' = [a \in Id |-> IF late(a) THEN Heard(owed[a]) ELSE owed[a]]
      /\ cache' = [a \in Id |-> Outstanding(att'[a])]
  BY DEF Recover
<1>2. now \in Nat /\ Tables
  BY DEF IInv
<1> HIDE DEF r, late
<1>3. ASSUME NEW a \in Id PROVE AHolds(a)' /\ EndsKept(a)
  <2>1. AHolds(a) /\ inflight[a] = 0 /\ queue[a] = <<>> /\ owed[a] = 0
    BY <1>1 DEF IInv, AHolds
  <2>2. ASSUME NEW s \in Seqs
        PROVE  /\ firing'[a][s] \in FiringType
               /\ FiringHolds(att[a], 0, s, firing'[a][s])
               /\ firing[a][s].end # None => firing'[a][s].end = firing[a][s].end
    <3>1. CASE Exists(a)
      <4>1. firing'[a][s] = RecoveredFiring(a, s)
        BY <1>1, <3>1
      <4> QED
        BY <2>1, <3>1, <4>1, RecoveredFacts
    <3>2. CASE ~ Exists(a)
      <4>1. firing'[a][s] = firing[a][s]
        BY <1>1, <3>2
      <4> QED
        BY <2>1, <4>1 DEF AHolds, RowsHold
    <3> QED
      BY <3>1, <3>2
  <2>3. firing'[a] \in [Seqs -> FiringType]
    <3>1. firing'[a] = [s \in Seqs |-> firing'[a][s]]
      BY <1>1
    <3> QED
      BY <2>2, <3>1
  <2>4. Alike(att[a], r(a)) /\ (Exists(a) => r(a) \in AttType)
    BY <2>1, RecoveredAlike DEF r, Alike
  <2>5. Alike(att[a], att'[a])
    <3>1. CASE late(a)
      <4>1. att'[a] = [r(a) EXCEPT !.lastTick = now]
        BY <1>1, <3>1
      <4>2. Alike(r(a), [r(a) EXCEPT !.lastTick = now])
        BY <1>2, <2>4, <3>1, CaughtUp DEF late
      <4> QED
        BY <2>4, <4>1, <4>2 DEF Alike
    <3>2. CASE ~ late(a)
      BY <1>1, <2>4, <3>2
    <3> QED
      BY <3>1, <3>2
  <2>6. queue'[a] \in Seq(EventType) /\ owed'[a] = Len(queue'[a])
    <3>1. CASE late(a)
      <4> DEFINE ev == [ok |-> TRUE, missed |-> Elapsed(r(a)) - 1]
      <4>1. Elapsed(r(a)) - 1 \in Int
        BY <1>2, <2>4, <3>1, CaughtUp DEF late
      <4>2. ev \in EventType
        BY <4>1 DEF EventType
      <4>3. queue'[a] = <<ev>> /\ owed'[a] = Heard(0)
        BY <1>1, <2>1, <3>1
      <4> HIDE DEF ev
      <4> QED
        BY <4>2, <4>3 DEF Heard
    <3>2. CASE ~ late(a)
      BY <1>1, <2>1, <3>2
    <3> QED
      BY <3>1, <3>2
  <2>7. RowsHold(att[a], firing'[a], 0) /\ att[a] \in {Absent} \cup AttType
    BY <2>1, <2>2 DEF AHolds, RowsHold
  <2>8. RowsHold(att'[a], firing'[a], 0) /\ att'[a] \in {Absent} \cup AttType
    BY <2>5, <2>7, AlikeRows
  <2>9. cache'[a] = Outstanding(att'[a]) /\ inflight'[a] = 0 /\ ~ crashed'
    BY <1>1, <2>1
  <2> QED
    BY <2>2, <2>3, <2>6, <2>8, <2>9 DEF AHolds, EndsKept
<1>4. Tables'
  BY <1>1, <1>2 DEF Tables
<1> QED
  BY <1>1, <1>2, <1>3, <1>4 DEF IInv

----------------------------------------------------------------------------
LEMMA PassStep ==
  ASSUME IInv, Pass
  PROVE  IInv' /\ \A b \in Id : EndsKept(b)
<1>1. /\ now' \in Nat /\ UNCHANGED <<crashed, att, firing, queue, inflight, cache, owed>>
  BY DEF IInv, Pass
<1>2. \A a \in Id : AHolds(a)' /\ EndsKept(a)
  BY <1>1, AsBefore DEF IInv
<1> QED
  BY <1>1, <1>2 DEF IInv, Tables

LEMMA InitHolds == Init => IInv
<1> SUFFICES ASSUME Init PROVE IInv
  OBVIOUS
<1>1. /\ now = 0 /\ crashed = FALSE
      /\ att = [a \in Id |-> Absent] /\ firing = [a \in Id |-> [s \in Seqs |-> NoFiring]]
      /\ queue = [a \in Id |-> <<>>] /\ inflight = [a \in Id |-> 0]
      /\ cache = [a \in Id |-> [fire |-> 0, spent |-> 0]] /\ owed = [a \in Id |-> 0]
  BY DEF Init
<1>2. NoFiring \in FiringType
  BY DEF NoFiring, FiringType, Ends
<1>3. ASSUME NEW s \in Seqs PROVE FiringHolds(Absent, 0, s, NoFiring)
  <2>1. s # 0
    BY SeqsFacts
  <2> QED
    BY <2>1 DEF FiringHolds, NoFiring, None
<1>4. Outstanding(Absent) = [fire |-> 0, spent |-> 0]
  BY DEF Outstanding, Absent
<1>5. ASSUME NEW a \in Id PROVE AHolds(a)
  <2>1. RowsHold(att[a], firing[a], inflight[a])
    BY <1>1, <1>3 DEF RowsHold
  <2>2. firing[a] \in [Seqs -> FiringType]
    BY <1>1, <1>2
  <2> QED
    BY <1>1, <1>4, <2>1, <2>2 DEF AHolds
<1>6. Tables
  BY <1>1 DEF Tables
<1>7. crashed \in BOOLEAN
  BY <1>1, Zenon
<1> QED
  BY <1>1, <1>5, <1>6, <1>7 DEF IInv

LEMMA StepHolds == IInv /\ [Next]_vars => IInv' /\ \A a \in Id : EndsKept(a)
<1> SUFFICES ASSUME IInv, [Next]_vars PROVE IInv' /\ \A a \in Id : EndsKept(a)
  OBVIOUS
<1>1. ASSUME NEW a \in Id, NEW d \in Declaration, Attach(a, d)
      PROVE  IInv' /\ \A b \in Id : EndsKept(b)
  BY <1>1, AttachStep
<1>2. ASSUME NEW ok \in BOOLEAN, Event(ok) PROVE IInv' /\ \A b \in Id : EndsKept(b)
  BY <1>2, EventStep
<1>3. ASSUME NEW a \in Id, Detach(a) \/ Resign(a) \/ Resume(a)
      PROVE  IInv' /\ \A b \in Id : EndsKept(b)
  BY <1>3, DetachStep, SignStep
<1>4. ASSUME NEW g \in Grant, Revoke(g) PROVE IInv' /\ \A b \in Id : EndsKept(b)
  BY <1>4, RevokeStep
<1>5. CASE Tick
  BY <1>5, TickStep
<1>6. ASSUME NEW admitted \in SUBSET Id, TableChange(admitted)
      PROVE  IInv' /\ \A b \in Id : EndsKept(b)
  BY <1>6, TableStep
<1>7. ASSUME NEW a \in Id, Refuse(a) \/ Begin(a) \/ Emit(a) \/ CrashBetweenRows(a)
      PROVE  IInv' /\ \A b \in Id : EndsKept(b)
  BY <1>7, RefuseStep, BeginStep, EmitStep, CrashBetweenStep
<1>8. ASSUME NEW a \in Id, NEW es \in Effects, NEW n \in 0 .. 1,
             NEW end \in {"completed", "failstop"}, Finish(a, es, n, end)
      PROVE  IInv' /\ \A b \in Id : EndsKept(b)
  BY <1>8, FinishStep
<1>9. ASSUME NEW a \in Id, NEW s \in Seqs, Consume(a, s)
      PROVE  IInv' /\ \A b \in Id : EndsKept(b)
  BY <1>9, ConsumeStep
<1>10. CASE Crash \/ Recover \/ Pass
  BY <1>10, CrashStep, RecoverStep, PassStep
<1>11. CASE UNCHANGED vars
  <2>1. UNCHANGED <<now, crashed, att, firing, queue, inflight, cache, owed>>
    BY <1>11 DEF vars
  <2>2. \A a \in Id : AHolds(a)' /\ EndsKept(a)
    BY <2>1, AsBefore DEF IInv
  <2> QED
    BY <2>1, <2>2 DEF IInv, Tables
<1> QED
  BY <1>1, <1>2, <1>3, <1>4, <1>5, <1>6, <1>7, <1>8, <1>9, <1>10, <1>11 DEF Next

(* Whatever triggers, consents, revocations, policy tables and crashes do  *)
(* to the attachments of attach.rs, the rows and firings of each add up.   *)
THEOREM Inductive == Spec => []IInv
BY InitHolds, StepHolds, PTL DEF Spec

(* At most n_max firings, numbered without gaps by the rows they spent;    *)
(* the cache is what the rows add up to; no held segment without its row   *)
(* and root; and an attachment that ended keeps nothing ([Q12], [SEQ] and  *)
(* invariants() of attach.rs).                                             *)
THEOREM RowsSafe == Spec => []RowsAreTheTruth
<1>1. IInv => RowsAreTheTruth
  <2> SUFFICES ASSUME IInv, NEW a \in Id, Exists(a)
               PROVE  LET r == att[a] IN
                 /\ r.fired = 1 .. FiredCount(r)
                 /\ FiredCount(r) <= r.decl.nMax
                 /\ cache[a] = Outstanding(r)
                 /\ \A s \in Seqs : firing[a][s].segment = "held" => s \in r.fired /\ r.root = "held"
                 /\ r.status \in Terminal =>
                      /\ r.root = "freed" /\ r.fired = {} /\ r.capFire = 0 /\ r.capSpent = 0
                      /\ inflight[a] = 0
    BY DEF RowsAreTheTruth
  <2>1. AHolds(a)
    BY DEF IInv
  <2>2. AttHolds(att[a])
    BY <2>1 DEF AHolds, RowsHold, Exists, Absent
  <2>3. \A s \in Seqs : firing[a][s].segment = "held" => s \in att[a].fired /\ Live(a)
    BY <2>1, HeldFacts
  <2>4. inflight[a] # 0 => Live(a)
    BY <2>1, <2>3, UnderWay
  <2> QED
    BY <2>1, <2>2, <2>3, <2>4 DEF AHolds, AttHolds, Live
<1> QED
  BY <1>1, Inductive, PTL

(* Every event an attachment heard is queued, taken, told of in the audit, *)
(* or went with its queue: enqueue, begin, settlement and recovery account *)
(* for each ([A4] of attach.rs).                                           *)
THEOREM NothingLostSafe == Spec => []NothingLostInSilence
<1>1. IInv => NothingLostInSilence
  BY DEF IInv, AHolds, NothingLostInSilence
<1> QED
  BY <1>1, Inductive, PTL

(* A firing that has ended keeps its end and its one shape, whichever of   *)
(* finish, retirement and recovery ended it ([Q13], [EMIT-TX]).            *)
THEOREM SettledOnceSafe == Spec => SettledOnce
<1>1. IInv' /\ (\A a \in Id : EndsKept(a)) =>
        \A a \in Id : \A s \in Seqs :
          /\ firing[a][s].end # None => firing'[a][s].end = firing[a][s].end
          /\ firing'[a][s].end # None => OneShape(firing'[a][s])
  BY DEF IInv, AHolds, RowsHold, FiringHolds, EndsKept
<1>2. IInv /\ [Next]_vars =>
        [\A a \in Id : \A s \in Seqs :
           /\ firing[a][s].end # None => firing'[a][s].end = firing[a][s].end
           /\ firing'[a][s].end # None => OneShape(firing'[a][s])]_vars
  BY <1>1, StepHolds
<1> QED
  BY <1>2, Inductive, PTL DEF Spec, SettledOnce
=============================================================================
