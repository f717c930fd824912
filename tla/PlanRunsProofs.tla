--------------------------- MODULE PlanRunsProofs ---------------------------
(***************************************************************************)
(* Proofs about PlanRuns, for any plan, consents, callers and faults.      *)
(***************************************************************************)
EXTENDS PlanRuns, FiniteFolds, SequenceTheorems

Starting == {"start_consume", "start_mint", "start_spawn"}
Releasing == {"approve_mint", "approve_count", "release", "release_log", "release_mark"}
Midway == {"release_log", "release_mark"}
Dropped == {"approve_teardown", "approve_fail"}
Kept == {"approve_keep", "approve_finish"}
Approving == {"approve_consume", "approve_load", "approve_drop"} \cup Releasing \cup Dropped
              \cup Kept
Place == {"idle", "resume_signal"} \cup Starting \cup Approving

Outcome == {"none", "completed", "truncated", "fail_stop", "aborted"}
RunState == {"admitted", "running", "paused", "awaiting_approval", "done"}
AnyConsent == Consent \cup {NoConsent}
ItemState == {"held", "aborted", "inserted"}
InterpPlace == {"idle", "run", "log", "park", "wait", "unpark", "await", "drop", "teardown",
                "finish"}
CallState == [at : Place, consent : AnyConsent, batch : Seq(Nat), seq : Nat]

(* What the rows and the threads are made of. *)
RowType == row \in [state : RunState, nonce : AnyConsent, outcome : Outcome]
BufferType == buffer \in Seq(ItemState)
CreditType == consumed \subseteq Consent /\ credit \in [Consent -> Nat]
LogType == log \subseteq Nat \ {0} /\ IsFiniteSet(log)
EffectType ==
  direct \in Nat /\ released \in [Item -> Nat] /\ segment \in {"open", "kept", "rolled_back"}
ClockType ==
  /\ now \in Nat /\ faults \in Nat
  /\ up \in {"down", "recover", "recovering", "recovered", "up", "stopping"}
MemType == mem \in [state : RunState \cup {"none"}, ttl_at : Nat]
SignalType ==
  /\ signal \in [kind : {"none", "resume", "abort"}, consent : AnyConsent]
  /\ signal.kind = "resume" <=> signal.consent # NoConsent
InterpType ==
  /\ interp \in [at : InterpPlace, pos : Nat \ {0}, last : 0 .. Len(Plan),
                 withheld : Nat, outcome : Outcome]
  /\ interp.at = "idle" => interp = NoInterp
CallType ==
  /\ call \in [Caller -> CallState]
  /\ \A t \in Caller : call[t].at # "idle" => call[t].consent \in Consent
  /\ \A t \in Caller : call[t].at \in Midway => call[t].batch # <<>>
SweepType ==
  /\ sweep \in [at : {"idle", "abort", "drop", "teardown", "finish"},
                saw : {"none", "awaiting_approval", "paused"}]
  /\ IF sweep.at = "idle" THEN sweep = NoSweep ELSE sweep.saw # "none"

PlanType ==
  /\ RowType /\ BufferType /\ CreditType /\ LogType /\ EffectType
  /\ ClockType /\ MemType /\ SignalType /\ InterpType /\ CallType /\ SweepType

(* No more is withheld than the plan has. *)
Buffered ==
  /\ Len(buffer) <= Len(Plan)
  /\ interp.at # "idle" => interp.withheld = Len(buffer) /\ interp.withheld < interp.pos

(* A run that nobody started has left no trace, and one thread at most is  *)
(* about to start it.                                                      *)
Untouched ==
  row.state = "admitted" =>
    /\ row = [state |-> "admitted", nonce |-> NoConsent, outcome |-> "none"]
    /\ buffer = <<>> /\ segment = "open" /\ log = {}
    /\ direct = 0 /\ released = [k \in Item |-> 0]
    /\ interp = NoInterp /\ sweep = NoSweep /\ up \in {"down", "up", "stopping"}
    /\ mem.state \in {"none", "admitted", "running"}
    /\ \A t \in Caller : call[t].at \in {"idle"} \cup Starting
    /\ \A t \in Caller : call[t].at \in Starting => mem.state = "running"
    /\ \A s, t \in Caller : call[s].at \in Starting /\ call[t].at \in Starting => s = t
    /\ \A t \in Caller :
         call[t].at \in {"start_mint", "start_spawn"} => call[t].consent \in consumed

(* One that was started is nobody's to start again. *)
Started ==
  row.state # "admitted" =>
    /\ row.nonce \in consumed
    /\ mem.state # "admitted"
    /\ \A t \in Caller : call[t].at \notin Starting

(* While the interpreter is at work nobody else ends the run or approves   *)
(* it, and what it withheld is all held.                                   *)
Working ==
  interp.at \notin {"idle", "await"} =>
    /\ row.state \in {"running", "paused"} /\ row.outcome = "none"
    /\ mem.state \in {"running", "paused"}
    /\ \A t \in Caller : call[t].at \in {"idle", "resume_signal"}
    /\ sweep.at \in {"idle", "abort"} /\ sweep.saw # "awaiting_approval"
    /\ interp.at \notin {"teardown", "finish"} => \A k \in DOMAIN buffer : buffer[k] = "held"

(* Between its two writes the sweeper may have ended the run already. *)
Waiting ==
  interp.at = "await" =>
    /\ row.state # "awaiting_approval"
    /\ mem.state \in {"awaiting_approval", "done"}
    /\ \A t \in Caller : call[t].at \in {"idle", "resume_signal"}

(* A process has threads between its opening and its end. *)
Alive ==
  /\ up \notin {"up", "stopping"} => interp = NoInterp /\ mem = NoHandle /\ signal = NoSignal
  /\ up # "up" => sweep = NoSweep /\ \A t \in Caller : call[t] = NoCall

Control == Buffered /\ Untouched /\ Started /\ Working /\ Waiting /\ Alive

----------------------------------------------------------------------------
(* Every place and state that an action names. *)
LEMMA Named ==
  /\ {"idle", "resume_signal", "start_consume", "start_mint", "start_spawn", "approve_consume",
      "approve_load", "approve_mint", "approve_count", "release", "release_log", "release_mark",
      "approve_drop", "approve_teardown", "approve_fail", "approve_keep", "approve_finish"}
       \subseteq Place
  /\ Outcome = {"none", "completed", "truncated", "fail_stop", "aborted"}
  /\ RunState = {"admitted", "running", "paused", "awaiting_approval", "done"}
  /\ ItemState = {"held", "aborted", "inserted"}
  /\ {"run", "log", "park", "wait", "unpark", "await", "drop", "teardown", "finish"}
       = InterpPlace \ {"idle"}
BY DEF Place, Starting, Approving, Releasing, Dropped, Kept, Outcome, RunState, ItemState,
       InterpPlace

(* What the constants are. *)
LEMMA Given ==
  /\ Len(Plan) \in Nat /\ Loop \in 1 .. Len(Plan) /\ Admitted \in 0 .. Len(Plan) - 1
  /\ \A c \in Consent : Budget[c] \in Nat /\ Expiry[c] \in Nat /\ c # NoConsent
BY PlanAssumption

(* A call in progress has a consent. *)
LEMMA Asking ==
  ASSUME CallType, NEW t \in Caller, call[t].at # "idle"
  PROVE  /\ call[t].consent \in Consent /\ call[t].consent # NoConsent
         /\ call[t].batch \in Seq(Nat) /\ call[t].seq \in Nat /\ Len(call[t].batch) \in Nat
BY PlanAssumption DEF CallType, CallState

(* A call that goes on, ends or begins changes nothing of another.         *)
LEMMA NoneTyped ==
  /\ NoCall \in CallState /\ NoSweep \in [at : {"idle"}, saw : {"none"}]
  /\ NoInterp \in [at : {"idle"}, pos : {1}, last : {0}, withheld : {0}, outcome : {"none"}]
  /\ NoHandle \in [state : {"none"}, ttl_at : {0}]
  /\ NoSignal \in [kind : {"none"}, consent : {NoConsent}]
<1>1. <<>> \in Seq(Nat) OBVIOUS
<1>2. QED
  BY <1>1 DEF NoCall, CallState, Place, AnyConsent, NoSweep, NoInterp, NoHandle, NoSignal

(* A call that goes on keeps its consent, its batch and its place in the log. *)
LEMMA CallGoes ==
  ASSUME CallType, NEW t \in Caller, NEW to \in Place, Goes(t, to), call[t].at # "idle",
         to \in Midway => call[t].batch # <<>>
  PROVE  /\ CallType'
         /\ \A s \in Caller \ {t} : call'[s] = call[s]
         /\ call'[t].at = to
         /\ to # "idle" => /\ call'[t].consent = call[t].consent
                           /\ call'[t].batch = call[t].batch
                           /\ call'[t].seq = call[t].seq
         /\ to = "idle" => call'[t] = NoCall
<1>1. call \in [Caller -> CallState] /\ NoCall \in CallState
  BY NoneTyped DEF CallType
<1>2. CASE to = "idle"
  BY <1>1, <1>2 DEF Goes, NoCall, CallType, Midway
<1>3. CASE to # "idle"
  <2>1. call' = [call EXCEPT ![t] = [call[t] EXCEPT !.at = to]] BY <1>3 DEF Goes
  <2>2. [call[t] EXCEPT !.at = to] \in CallState BY <1>1 DEF CallState
  <2>3. call'[t] = [call[t] EXCEPT !.at = to] BY <1>1, <2>1
  <2>4. /\ call'[t].at = to /\ call'[t].consent = call[t].consent
        /\ call'[t].batch = call[t].batch /\ call'[t].seq = call[t].seq
    BY <1>1, <2>3 DEF CallState
  <2>5. \A s \in Caller \ {t} : call'[s] = call[s] BY <1>1, <2>1
  <2>6. call' \in [Caller -> CallState] BY <1>1, <2>1, <2>2
  <2>7. CallType' BY <2>4, <2>5, <2>6 DEF CallType
  <2>8. QED BY <1>3, <2>4, <2>5, <2>7
<1>4. QED BY <1>2, <1>3

(* A call begins with its consent and no batch; the other calls stay.      *)
LEMMA CallBegins ==
  ASSUME CallType, NEW t \in Caller, NEW c \in Consent, NEW to \in Place \ Midway, Begins(t, c, to)
  PROVE  /\ up = "up" /\ call[t].at = "idle"
         /\ CallType'
         /\ \A s \in Caller \ {t} : call'[s] = call[s]
         /\ call'[t].at = to /\ call'[t].consent = c
         /\ call'[t].batch = <<>> /\ call'[t].seq = 0
<1>1. call \in [Caller -> CallState] /\ NoCall \in CallState
  BY NoneTyped DEF CallType
<1> DEFINE new == [[NoCall EXCEPT !.at = to] EXCEPT !.consent = c]
<1>2. new \in CallState BY <1>1 DEF CallState, AnyConsent
<1>3. new.at = to /\ new.consent = c /\ new.batch = <<>> /\ new.seq = 0
  BY DEF NoCall
<1>4. call' = [call EXCEPT ![t] = new] /\ up = "up" /\ call[t].at = "idle"
  BY DEF Begins, CallAt
<1> HIDE DEF new
<1>5. QED BY <1>1, <1>2, <1>3, <1>4 DEF CallType

(* What the shared steps of the threads do to the rows and to a thread. *)
LEMMA SameType ==
  ASSUME PlanType
  PROVE  /\ row' = row => RowType'
         /\ buffer' = buffer => BufferType'
         /\ consumed' = consumed /\ credit' = credit => CreditType'
         /\ log' = log => LogType'
         /\ direct' = direct /\ released' = released /\ segment' = segment => EffectType'
         /\ now' = now /\ faults' = faults /\ up' = up => ClockType'
         /\ mem' = mem => MemType'
         /\ signal' = signal => SignalType'
         /\ interp' = interp => InterpType'
         /\ call' = call => CallType'
         /\ sweep' = sweep => SweepType'
<1>1. /\ row' = row => RowType'
      /\ buffer' = buffer => BufferType'
      /\ consumed' = consumed /\ credit' = credit => CreditType'
      /\ log' = log => LogType'
  BY DEF PlanType, RowType, BufferType, CreditType, LogType
<1>2. /\ direct' = direct /\ released' = released /\ segment' = segment => EffectType'
      /\ now' = now /\ faults' = faults /\ up' = up => ClockType'
  BY DEF PlanType, EffectType, ClockType
<1>3. /\ mem' = mem => MemType'
      /\ signal' = signal => SignalType'
  BY DEF PlanType, MemType, SignalType
<1>4. /\ interp' = interp => InterpType'
      /\ call' = call => CallType'
      /\ sweep' = sweep => SweepType'
  BY DEF PlanType, InterpType, CallType, SweepType
<1>5. QED BY <1>1, <1>2, <1>3, <1>4

(* The handle's state is written only where there is a handle.             *)
LEMMA MemSet ==
  ASSUME MemType, NEW s \in RunState, SetMem(s)
  PROVE  /\ MemType'
         /\ mem.state = "none" => mem' = mem
         /\ mem.state # "none" => mem'.state = s /\ mem'.ttl_at = mem.ttl_at
BY DEF MemType, SetMem, RunState

(* A run that ends is done, and keeps its nonce.                           *)
LEMMA RunEnds ==
  ASSUME RowType, NEW o \in Outcome, Ended(o)
  PROVE  /\ RowType'
         /\ row'.state = "done" /\ row'.outcome = o /\ row'.nonce = row.nonce
<1>1. row' = [[row EXCEPT !.state = "done"] EXCEPT !.outcome = o] BY DEF Ended
<1>2. QED BY <1>1 DEF RowType, RunState

(* An interpreter that goes on keeps its place in the plan.                *)
LEMMA InterpGoes ==
  ASSUME InterpType, NEW to \in InterpPlace \ {"idle"}, IGoes(to)
  PROVE  /\ InterpType' /\ interp'.at = to
         /\ interp'.pos = interp.pos /\ interp'.last = interp.last
         /\ interp'.withheld = interp.withheld /\ interp'.outcome = interp.outcome
BY DEF InterpType, IGoes

(* An interpreter that fails goes to drop what is held.                    *)
LEMMA InterpFails ==
  ASSUME InterpType, NEW o \in Outcome, Fails(o)
  PROVE  /\ InterpType' /\ interp'.at = "drop" /\ interp'.outcome = o
         /\ interp'.pos = interp.pos /\ interp'.last = interp.last
         /\ interp'.withheld = interp.withheld
<1>1. interp' = [[interp EXCEPT !.at = "drop"] EXCEPT !.outcome = o] BY DEF Fails
<1>2. QED BY <1>1 DEF InterpType, InterpPlace

(* The buffer keeps its rows; none that was not held changes. *)
LEMMA HeldChange ==
  ASSUME BufferType, NEW s \in ItemState, HeldBecome(s)
  PROVE  /\ BufferType' /\ DOMAIN buffer' = DOMAIN buffer /\ Len(buffer') = Len(buffer)
         /\ \A k \in DOMAIN buffer : buffer'[k] = IF buffer[k] = "held" THEN s ELSE buffer[k]
         /\ s # "held" => HeldItems' = {}
<1>1. /\ buffer \in Seq(ItemState) /\ Len(buffer) \in Nat
      /\ DOMAIN buffer = 1 .. Len(buffer)
      /\ \A k \in DOMAIN buffer : buffer[k] \in ItemState
  BY DEF BufferType
<1>2. buffer' = [k \in 1 .. Len(buffer) |-> IF buffer[k] = "held" THEN s ELSE buffer[k]]
  BY <1>1 DEF HeldBecome
<1>3. buffer' \in Seq(ItemState) /\ Len(buffer') = Len(buffer)
  BY <1>1, <1>2
<1>4. DOMAIN buffer' = DOMAIN buffer BY <1>1, <1>2
<1>5. QED BY <1>1, <1>2, <1>3, <1>4 DEF BufferType, HeldItems

(* A segment that is kept or rolled back is not open any more.             *)
LEMMA Settles ==
  ASSUME EffectType, NEW s \in {"kept", "rolled_back"}, SegmentBecomes(s),
         UNCHANGED <<direct, released>>
  PROVE  EffectType' /\ segment' # "open"
BY DEF EffectType, SegmentBecomes

(* A mint adds to the credits of one consent.                              *)
LEMMA Mints ==
  ASSUME CreditType, NEW c \in Consent, NEW n \in Nat, Mint(c, n), consumed' = consumed
  PROVE  CreditType' /\ credit' = [credit EXCEPT ![c] = credit[c] + n]
BY DEF CreditType, Mint

(* A payment takes one credit of one consent that has some left.           *)
LEMMA Spends ==
  ASSUME CreditType, Paid, consumed' = consumed
  PROVE  CreditType' /\ \E c \in Consent : /\ credit[c] > 0
                                          /\ credit' = [credit EXCEPT ![c] = credit[c] - 1]
<1>1. PICK c \in Consent : credit[c] > 0 /\ credit' = [credit EXCEPT ![c] = credit[c] - 1]
  BY DEF Paid, Pays
<1>2. credit[c] \in Nat /\ credit[c] - 1 \in Nat BY <1>1 DEF CreditType
<1>3. CreditType' BY <1>1, <1>2 DEF CreditType
<1>4. QED BY <1>1, <1>3

(* The end of a process clears what its threads remember.                  *)
LEMMA Ends ==
  ASSUME Cleared
  PROVE  /\ MemType' /\ SignalType' /\ InterpType' /\ SweepType' /\ CallType'
         /\ mem' = NoHandle /\ signal' = NoSignal /\ interp' = NoInterp /\ sweep' = NoSweep
         /\ \A t \in Caller : call'[t] = NoCall
<1>1. \A t \in Caller : call'[t] = NoCall BY DEF Cleared
<1>2. CallType'
  <2>1. call' = [t \in Caller |-> NoCall] BY DEF Cleared
  <2>2. NoCall.at = "idle" BY DEF NoCall
  <2>3. QED BY <2>1, <2>2, NoneTyped DEF CallType, Midway
<1>3. MemType' BY NoneTyped DEF Cleared, MemType
<1>4. SignalType' BY NoneTyped DEF Cleared, SignalType, NoSignal, AnyConsent
<1>5. InterpType' BY NoneTyped DEF Cleared, InterpType, NoInterp, InterpPlace, Outcome
<1>6. SweepType' BY NoneTyped DEF Cleared, SweepType
<1>7. QED BY <1>1, <1>2, <1>3, <1>4, <1>5, <1>6 DEF Cleared

(* A finite set of integers that is not empty has a greatest element.      *)
LEMMA Greatest ==
  ASSUME NEW S \in SUBSET Int, IsFiniteSet(S), S # {}
  PROVE  \E m \in S : \A x \in S : x <= m
<1> DEFINE P == {T \in SUBSET S : T # {} => \E m \in T : \A x \in T : x <= m}
<1>1. {} \in P OBVIOUS
<1>2. ASSUME NEW T \in SUBSET S, NEW y \in S \ T, T \in P PROVE T \cup {y} \in P
  <2>1. CASE T = {} BY <2>1
  <2>2. CASE T # {}
    <3>1. PICK m \in T : \A x \in T : x <= m BY <1>2, <2>2
    <3>2. m \in Int /\ y \in Int /\ T \subseteq Int OBVIOUS
    <3>3. CASE y <= m
      <4>1. \A x \in T \cup {y} : x <= m BY <3>1, <3>3
      <4>2. QED BY <4>1
    <3>4. CASE m <= y
      <4>1. \A x \in T \cup {y} : x <= y BY <3>1, <3>2, <3>4
      <4>2. QED BY <4>1
    <3>5. QED BY <3>2, <3>3, <3>4
  <2>3. QED BY <2>1, <2>2
<1>3. S \in P
  <2> HIDE DEF P
  <2>1. QED BY <1>1, <1>2, FiniteGrows
<1>4. QED BY <1>3

(* It can be listed in its order, in one way, with nothing left out.       *)
Listed(S, b) ==
  /\ b \in [1 .. Cardinality(S) -> S]
  /\ \A i, j \in DOMAIN b : i < j => b[i] < b[j]

(* A finite set of integers has a listing in increasing order.             *)
LEMMA CanBeListed ==
  ASSUME NEW S \in SUBSET Int, IsFiniteSet(S)
  PROVE  \E b : Listed(S, b)
<1> DEFINE P == {T \in SUBSET S : \E b : Listed(T, b)}
<1>1. ASSUME NEW T \in SUBSET S, \A x \in T : T \ {x} \in P PROVE T \in P
  <2>1. CASE T = {}
    <3>1. Listed(T, <<>>) BY <2>1, FS_EmptySet DEF Listed
    <3>2. QED BY <3>1
  <2>2. CASE T # {}
    <3>1. IsFiniteSet(T) BY FS_Subset
    <3>2. PICK m \in T : \A x \in T : x <= m BY <2>2, <3>1, Greatest
    <3>3. PICK b : Listed(T \ {m}, b) BY <1>1
    <3> DEFINE n == Cardinality(T)
               c == [i \in 1 .. n |-> IF i = n THEN m ELSE b[i]]
    <3>4. n \in Nat \ {0} /\ Cardinality(T \ {m}) = n - 1
      BY <3>1, <3>2, FS_RemoveElement, FS_CardinalityType, FS_EmptySet
    <3>5. /\ b \in [1 .. n - 1 -> T \ {m}]
          /\ \A i, j \in 1 .. n - 1 : i < j => b[i] < b[j]
      BY <3>3, <3>4 DEF Listed
    <3>6. \A i \in 1 .. n - 1 : b[i] \in T /\ b[i] < m
      <4>1. \A x \in T \ {m} : x < m /\ x \in T BY <3>2
      <4>2. QED BY <3>5, <4>1
    <3> HIDE DEF n
    <3>7. c \in [1 .. n -> T] BY <3>2, <3>4, <3>6
    <3>8. ASSUME NEW i \in 1 .. n, NEW j \in 1 .. n, i < j PROVE c[i] < c[j]
      <4>1. i \in 1 .. n - 1 /\ c[i] = b[i] BY <3>4, <3>8
      <4>2. CASE j = n BY <3>6, <4>1, <4>2
      <4>3. CASE j # n
        <5>1. j \in 1 .. n - 1 /\ c[j] = b[j] BY <3>4, <4>3
        <5>2. QED BY <3>5, <3>8, <4>1, <5>1
      <4>4. QED BY <4>2, <4>3
    <3> HIDE DEF c
    <3>9. Listed(T, c) BY <3>7, <3>8 DEF Listed, n
    <3>10. QED BY <3>9
  <2>3. QED BY <2>1, <2>2
<1>2. S \in P
  <2> HIDE DEF P
  <2>1. QED BY <1>1, FiniteShrinks
<1>3. QED BY <1>2

(* The batch is a list of what is held. *)
LEMMA BatchIsHeldItems ==
  ASSUME BufferType
  PROVE  /\ Batch \in Seq(Nat \ {0}) /\ Len(Batch) = Cardinality(HeldItems)
         /\ \A i \in DOMAIN Batch : Batch[i] \in HeldItems
         /\ \A i, j \in DOMAIN Batch : i < j => Batch[i] < Batch[j]
         /\ \A k \in HeldItems : \E i \in DOMAIN Batch : Batch[i] = k
<1> DEFINE n == Cardinality(HeldItems)
<1>1. buffer \in Seq(ItemState) /\ Len(buffer) \in Nat /\ DOMAIN buffer = 1 .. Len(buffer)
  BY DEF BufferType
<1>2. HeldItems \in SUBSET (1 .. Len(buffer)) /\ IsFiniteSet(HeldItems)
  <2>1. HeldItems \in SUBSET (1 .. Len(buffer)) BY <1>1 DEF HeldItems
  <2>2. IsFiniteSet(1 .. Len(buffer)) BY <1>1, FS_Interval
  <2>3. QED BY <2>1, <2>2, FS_Subset
<1>3. Listed(HeldItems, Batch)
  <2>1. HeldItems \in SUBSET Int BY <1>1, <1>2
  <2>2. \E b : Listed(HeldItems, b) BY <1>2, <2>1, CanBeListed
  <2>3. QED BY <2>2 DEF Batch, Listed
<1>4. n \in Nat BY <1>2, FS_CardinalityType
<1>5. Batch \in [1 .. n -> HeldItems] /\ DOMAIN Batch = 1 .. n
  BY <1>3 DEF Listed
<1>6. HeldItems \subseteq Nat \ {0} BY <1>1, <1>2
<1>7. \A k \in HeldItems : \E i \in DOMAIN Batch : Batch[i] = k
  <2>1. Batch \in Injection(1 .. n, HeldItems)
    <3>1. ASSUME NEW i \in 1 .. n, NEW j \in 1 .. n, Batch[i] = Batch[j] PROVE i = j
      <4> Batch[i] \in HeldItems /\ Batch[j] \in HeldItems BY <1>5
      <4>1. Batch[i] \in Int /\ Batch[j] \in Int
        <5>1. \A k \in HeldItems : k \in Int BY <1>1, <1>2
        <5> HIDE DEF n
        <5>2. QED BY <5>1
      <4>2. ~ i < j BY <1>3, <1>5, <3>1, <4>1 DEF Listed
      <4>3. ~ j < i BY <1>3, <1>5, <3>1, <4>1 DEF Listed
      <4>4. QED BY <1>4, <4>2, <4>3
    <3>2. QED BY <1>5, <3>1 DEF Injection, IsInjective
  <2>2. Cardinality(1 .. n) = n BY <1>4, FS_Interval
  <2>3. Batch \in Surjection(1 .. n, HeldItems) BY <1>2, <2>1, <2>2, FS_Injection
  <2>4. QED BY <1>5, <2>3 DEF Surjection
<1>8. Batch \in Seq(Nat \ {0}) /\ Len(Batch) = n
  <2>1. \A i \in 1 .. n : Batch[i] \in Nat \ {0} BY <1>5, <1>6
  <2>2. Batch \in [1 .. n -> Nat \ {0}] BY <1>5, <2>1
  <2> HIDE DEF n
  <2>3. QED BY <1>4, <2>2
<1>9. QED BY <1>3, <1>5, <1>7, <1>8 DEF Listed

(* The steps of an approval that change more than its place. *)
LEMMA CallTakes ==
  ASSUME CallType, NEW t \in Caller, call[t].at # "idle",
         NEW new \in CallState, new.consent = call[t].consent, call' = [call EXCEPT ![t] = new],
         new.at \in Midway => new.batch # <<>>
  PROVE  CallType' /\ call'[t] = new /\ \A s \in Caller \ {t} : call'[s] = call[s]
BY DEF CallType

(* The batch is loaded whole, or refused because the consent is too small. *)
LEMMA Loads ==
  ASSUME CallType, BufferType, NEW t \in Caller, ApproveLoad(t)
  PROVE  /\ CallType' /\ \A s \in Caller \ {t} : call'[s] = call[s]
         /\ call[t].at = "approve_load"
         /\ \/ call'[t] = NoCall
            \/ /\ Len(Batch) <= Budget[call[t].consent]
               /\ call'[t].at = "approve_mint" /\ call'[t].batch = Batch
               /\ call'[t].consent = call[t].consent /\ call'[t].seq = call[t].seq
<1> DEFINE new == [[call[t] EXCEPT !.at = "approve_mint"] EXCEPT !.batch = Batch]
<1>1. call[t].at = "approve_load" BY DEF ApproveLoad, CallAt
<1>2. CASE Len(Batch) <= Budget[call[t].consent]
  <2>1. call' = [call EXCEPT ![t] = new]
    BY <1>2 DEF ApproveLoad, CallType
  <2>2. Batch \in Seq(Nat)
    <3>1. Batch \in Seq(Nat \ {0}) BY BatchIsHeldItems
    <3> HIDE DEF Batch
    <3>2. QED BY <3>1
  <2>3. /\ new \in CallState /\ new.consent = call[t].consent /\ new.seq = call[t].seq
        /\ new.at = "approve_mint" /\ new.batch = Batch
    BY <2>2, Named DEF CallType, CallState
  <2> HIDE DEF new
  <2>4. CallType' /\ call'[t] = new /\ \A s \in Caller \ {t} : call'[s] = call[s]
    BY <1>1, <2>1, <2>3, CallTakes DEF Midway
  <2>5. QED BY <1>1, <1>2, <2>3, <2>4
<1>3. CASE ~ Len(Batch) <= Budget[call[t].consent]
  BY <1>1, <1>3, CallGoes, Named DEF ApproveLoad, Midway
<1>4. QED BY <1>2, <1>3

(* The next sequence number is the length of the log.                      *)
LEMMA Counts ==
  ASSUME CallType, LogType, NEW t \in Caller, ApproveCount(t)
  PROVE  /\ CallType' /\ \A s \in Caller \ {t} : call'[s] = call[s]
         /\ call[t].at = "approve_count" /\ call'[t].at = "release"
         /\ call'[t].batch = call[t].batch /\ call'[t].consent = call[t].consent
         /\ call'[t].seq = Cardinality(log)
<1> DEFINE n == Cardinality(log)
           new == [[call[t] EXCEPT !.at = "release"] EXCEPT !.seq = n]
<1>1. call[t].at = "approve_count" BY DEF ApproveCount, CallAt
<1>2. n \in Nat BY FS_CardinalityType DEF LogType
<1>3. call' = [call EXCEPT ![t] = new] BY DEF ApproveCount, CallType
<1> HIDE DEF n
<1>4. /\ new \in CallState /\ new.consent = call[t].consent /\ new.seq = n
      /\ new.at = "release" /\ new.batch = call[t].batch
  BY <1>2, Named DEF CallType, CallState
<1> HIDE DEF new
<1>5. CallType' /\ call'[t] = new /\ \A s \in Caller \ {t} : call'[s] = call[s]
  BY <1>1, <1>3, <1>4, CallTakes DEF Midway
<1>6. QED BY <1>1, <1>4, <1>5 DEF n

(* An approval logs its effect under a number that is free, or gives up.   *)
LEMMA Logs ==
  ASSUME CallType, LogType, NEW t \in Caller, ReleaseLog(t)
  PROVE  /\ CallType' /\ LogType' /\ \A s \in Caller \ {t} : call'[s] = call[s]
         /\ call[t].at = "release_log"
         /\ \/ call[t].seq + 1 \in log /\ call'[t] = NoCall /\ log' = log
            \/ /\ call[t].seq + 1 \notin log /\ log' = log \cup {call[t].seq + 1}
               /\ call'[t].at = "release_mark" /\ call'[t].seq = call[t].seq + 1
               /\ call'[t].batch = call[t].batch /\ call'[t].consent = call[t].consent
<1> DEFINE n == call[t].seq + 1
           new == [[call[t] EXCEPT !.at = "release_mark"] EXCEPT !.seq = n]
<1>1. call[t].at = "release_log" BY DEF ReleaseLog, CallAt
<1>2. n \in Nat \ {0} BY DEF CallType, CallState
<1>3. CASE n \notin log
  <2>1. call' = [call EXCEPT ![t] = new] /\ log' = log \cup {n}
    BY <1>3 DEF ReleaseLog, CallType
  <2> HIDE DEF n
  <2>2. /\ new \in CallState /\ new.consent = call[t].consent /\ new.seq = n
        /\ new.at = "release_mark" /\ new.batch = call[t].batch
    BY <1>2, Named DEF CallType, CallState
  <2> HIDE DEF new
  <2>3. CallType' /\ call'[t] = new /\ \A s \in Caller \ {t} : call'[s] = call[s]
    <3>1. call[t].batch # <<>> BY <1>1 DEF CallType, Midway
    <3>2. QED BY <1>1, <2>1, <2>2, <3>1, CallTakes
  <2>4. LogType' BY <1>2, <2>1, FS_AddElement DEF LogType
  <2>5. QED BY <1>1, <1>3, <2>1, <2>2, <2>3, <2>4 DEF n
<1>4. CASE n \in log
  <2>1. Goes(t, "idle") /\ log' = log BY <1>4 DEF ReleaseLog
  <2>2. LogType' BY <2>1 DEF LogType
  <2>3. QED BY <1>1, <1>4, <2>1, <2>2, CallGoes, Named DEF Midway
<1>5. QED BY <1>3, <1>4

(* The first row of the batch is marked, and the batch is what is left.    *)
LEMMA Marks ==
  ASSUME CallType, BufferType, NEW t \in Caller, ReleaseMark(t)
  PROVE  /\ CallType' /\ BufferType' /\ \A s \in Caller \ {t} : call'[s] = call[s]
         /\ call[t].at = "release_mark" /\ call'[t].at = "release"
         /\ call'[t].batch = Tail(call[t].batch)
         /\ call'[t].seq = call[t].seq /\ call'[t].consent = call[t].consent
         /\ DOMAIN buffer' = DOMAIN buffer /\ Len(buffer') = Len(buffer)
         /\ \A k \in DOMAIN buffer :
              buffer'[k] = IF k = Head(call[t].batch) THEN "inserted" ELSE buffer[k]
<1> DEFINE rest == Tail(call[t].batch)
           new == [[call[t] EXCEPT !.at = "release"] EXCEPT !.batch = rest]
           k0 == Head(call[t].batch)
<1>1. call[t].at = "release_mark" BY DEF ReleaseMark, CallAt
<1>2. rest \in Seq(Nat)
  <2>1. call[t].batch # <<>> BY <1>1 DEF CallType, Midway
  <2>2. QED BY <1>1, <2>1, Asking
<1>3. call' = [call EXCEPT ![t] = new] BY DEF ReleaseMark, CallType
<1>4. buffer' = [buffer EXCEPT ![k0] = "inserted"] BY DEF ReleaseMark, Marked
<1> HIDE DEF rest, k0
<1>5. /\ new \in CallState /\ new.consent = call[t].consent /\ new.seq = call[t].seq
      /\ new.at = "release" /\ new.batch = rest
  BY <1>2, Named DEF CallType, CallState
<1> HIDE DEF new
<1>6. CallType' /\ call'[t] = new /\ \A s \in Caller \ {t} : call'[s] = call[s]
  BY <1>1, <1>3, <1>5, CallTakes DEF Midway
<1>7. /\ BufferType' /\ DOMAIN buffer' = DOMAIN buffer /\ Len(buffer') = Len(buffer)
      /\ \A k \in DOMAIN buffer : buffer'[k] = IF k = k0 THEN "inserted" ELSE buffer[k]
  <2>1. /\ buffer \in Seq(ItemState) /\ Len(buffer) \in Nat
        /\ DOMAIN buffer = 1 .. Len(buffer)
        /\ \A k \in DOMAIN buffer : buffer[k] \in ItemState
    BY DEF BufferType
  <2>2. buffer' = [k \in 1 .. Len(buffer) |-> IF k = k0 THEN "inserted" ELSE buffer[k]]
    BY <1>4, <2>1
  <2>3. buffer' \in Seq(ItemState) /\ Len(buffer') = Len(buffer)
    BY <2>1, <2>2, Named
  <2>4. DOMAIN buffer' = DOMAIN buffer BY <2>1, <2>2
  <2>5. QED BY <2>1, <2>2, <2>3, <2>4 DEF BufferType
<1>8. QED BY <1>1, <1>5, <1>6, <1>7 DEF rest, k0

(* The steps of an interpreter that change more than its place. *)
LEMMA Spawns ==
  ASSUME NEW s, s = [NoInterp EXCEPT !.at = "run"], interp' = s
  PROVE  /\ InterpType' /\ interp'.at = "run" /\ interp'.pos = 1 /\ interp'.last = 0
         /\ interp'.withheld = 0 /\ interp'.outcome = "none"
BY Given, Named DEF NoInterp, InterpType

(* A plan over its bound fails, parks, or goes on up to its end.           *)
LEMMA Bounds ==
  ASSUME InterpType, OverBound
  PROVE  /\ InterpType' /\ interp.at = "run" /\ interp'.at \in {"run", "park", "drop"}
         /\ interp'.pos = interp.pos /\ interp'.withheld = interp.withheld
<1>1. interp.at = "run" BY DEF OverBound, At
<1>2. CASE Fails("fail_stop") BY <1>1, <1>2, InterpFails, Named
<1>3. CASE interp' = [interp EXCEPT !.last = Admitted]
  <2>1. interp' \in [at : InterpPlace, pos : Nat \ {0}, last : 0 .. Len(Plan),
                     withheld : Nat, outcome : Outcome]
    BY <1>3, Given DEF InterpType
  <2>2. QED BY <1>1, <1>3, <2>1 DEF InterpType
<1>4. CASE interp' = [interp EXCEPT !.last = Len(Plan), !.at = "park"]
  <2> DEFINE n == Len(Plan)
  <2>1. interp' = [[interp EXCEPT !.last = n] EXCEPT !.at = "park"] BY <1>4
  <2>2. n \in 0 .. Len(Plan) BY Given
  <2> HIDE DEF n
  <2>3. interp' \in [at : InterpPlace, pos : Nat \ {0}, last : 0 .. Len(Plan),
                     withheld : Nat, outcome : Outcome]
    BY <2>1, <2>2, Named DEF InterpType
  <2>4. QED BY <1>1, <2>1, <2>3 DEF InterpType
<1>5. QED BY <1>2, <1>3, <1>4 DEF OverBound

(* A withheld effect is a new row of the buffer.                           *)
LEMMA Withholds ==
  ASSUME InterpType, BufferType, Withhold
  PROVE  /\ InterpType' /\ BufferType' /\ interp.at = "run" /\ interp'.at = "run"
         /\ interp'.pos = interp.pos + 1 /\ interp'.withheld = interp.withheld + 1
         /\ interp.pos <= Len(Plan) /\ interp.pos \in Nat /\ interp.withheld \in Nat
         /\ Len(buffer) \in Nat /\ Len(buffer') = Len(buffer) + 1
         /\ DOMAIN buffer = 1 .. Len(buffer) /\ DOMAIN buffer' = 1 .. (Len(buffer) + 1)
         /\ \A k \in DOMAIN buffer : buffer'[k] = buffer[k]
         /\ buffer'[Len(buffer) + 1] = "held"
<1>1. interp.at = "run" /\ interp.pos <= LastEffect /\ LastEffect <= Len(Plan)
  BY Given DEF Withhold, Statement, At, LastEffect, InterpType
<1>2. interp' = [[interp EXCEPT !.pos = interp.pos + 1]
                   EXCEPT !.withheld = interp.withheld + 1]
  BY DEF Withhold, InterpType
<1>3. /\ InterpType' /\ interp'.at = "run"
      /\ interp'.pos = interp.pos + 1 /\ interp'.withheld = interp.withheld + 1
  <2>1. interp.pos + 1 \in Nat \ {0} /\ interp.withheld + 1 \in Nat BY DEF InterpType
  <2>2. QED BY <1>1, <1>2, <2>1 DEF InterpType
<1>4. buffer' = Append(buffer, "held") /\ buffer \in Seq(ItemState) BY DEF Withhold, BufferType
<1>5. /\ BufferType' /\ Len(buffer) \in Nat /\ Len(buffer') = Len(buffer) + 1
      /\ DOMAIN buffer = 1 .. Len(buffer) /\ DOMAIN buffer' = 1 .. (Len(buffer) + 1)
      /\ \A k \in DOMAIN buffer : buffer'[k] = buffer[k]
      /\ buffer'[Len(buffer) + 1] = "held"
  BY <1>4, Named DEF BufferType
<1>6. interp.pos \in Nat /\ interp.withheld \in Nat /\ interp.pos <= Len(Plan)
  BY <1>1, Given DEF InterpType, LastEffect
<1>7. QED BY <1>1, <1>3, <1>5, <1>6

(* A direct emission takes the next number of the log.                     *)
LEMMA LogsEmit ==
  ASSUME InterpType, LogType, LogEmit
  PROVE  /\ InterpType' /\ LogType' /\ interp.at = "log" /\ interp'.at = "run"
         /\ interp'.pos = interp.pos + 1 /\ interp.pos \in Nat
         /\ interp'.withheld = interp.withheld
         /\ log' = log \cup {Cardinality(log) + 1}
<1>1. interp.at = "log" BY DEF LogEmit, At
<1>2. interp' = [[interp EXCEPT !.at = "run"] EXCEPT !.pos = interp.pos + 1]
  BY DEF LogEmit, InterpType
<1>3. /\ InterpType' /\ interp'.at = "run" /\ interp.pos \in Nat
      /\ interp'.pos = interp.pos + 1 /\ interp'.withheld = interp.withheld
  <2>1. interp.pos \in Nat /\ interp.pos + 1 \in Nat \ {0} BY DEF InterpType
  <2>2. QED BY <1>1, <1>2, <2>1, Named DEF InterpType
<1>4. log' = log \cup {Cardinality(log) + 1} BY DEF LogEmit, NextSeq
<1>5. LogType'
  <2>1. Cardinality(log) + 1 \in Nat \ {0} BY FS_CardinalityType DEF LogType
  <2>2. QED BY <1>4, <2>1, FS_AddElement DEF LogType
<1>6. QED BY <1>1, <1>3, <1>4, <1>5

(* A run that withheld nothing finishes as completed.                      *)
LEMMA Commits ==
  ASSUME InterpType, CommitRun
  PROVE  /\ InterpType' /\ interp.at = "run" /\ interp.withheld = 0 /\ interp'.at = "finish"
         /\ interp'.pos = interp.pos /\ interp'.withheld = interp.withheld
<1>1. interp' = [[interp EXCEPT !.at = "finish"] EXCEPT !.outcome = "completed"]
  BY DEF CommitRun
<1>2. interp.at = "run" /\ interp.withheld = 0 BY DEF CommitRun, AtEnd, At
<1>3. QED BY <1>1, <1>2, Named DEF InterpType

(* The thread that is done is no thread.                                   *)
LEMMA Rests ==
  ASSUME interp' = NoInterp
  PROVE  InterpType' /\ interp'.at = "idle"
BY NoneTyped, Given DEF InterpType, NoInterp, InterpPlace, Outcome

(* Every step keeps the types. *)
LEMMA TypeStep ==
  ASSUME PlanType, [Next]_vars
  PROVE  PlanType'
<1>0. PlanType OBVIOUS
<1>1. ASSUME NEW t \in Caller, NEW c \in Consent, StartBegin(t, c) PROVE PlanType'
  BY <1>0, <1>1, SameType, Named, Given, CallBegins
  DEF StartBegin, Midway, MemType, PlanType, durable, volatile
<1>2. ASSUME NEW t \in Caller, NEW c \in Consent, ResumeBegin(t, c) PROVE PlanType'
  BY <1>0, <1>2, SameType, Named, Given, CallBegins
  DEF ResumeBegin, Midway, CreditType, PlanType, durable, volatile
<1>3. ASSUME NEW t \in Caller, NEW c \in Consent, ApproveBegin(t, c) PROVE PlanType'
  BY <1>0, <1>3, SameType, Named, Given, CallBegins
  DEF ApproveBegin, Midway, PlanType, durable, volatile
<1>4. ASSUME NEW t \in Caller, StartConsume(t) PROVE PlanType'
  BY <1>0, <1>4, SameType, Named, Given, CallGoes, Asking
  DEF StartConsume, CallAt, Midway, CreditType, PlanType, durable, volatile
<1>5. ASSUME NEW t \in Caller, StartMint(t) PROVE PlanType'
  BY <1>0, <1>5, SameType, Named, Given, Mints, CallGoes, Asking
  DEF StartMint, CallAt, Midway, PlanType, durable, volatile
<1>6. ASSUME NEW t \in Caller, StartSpawn(t) PROVE PlanType'
  BY <1>0, <1>6, SameType, Named, Given, Spawns, CallGoes, Asking
  DEF StartSpawn, CallAt, Midway, RowType, AnyConsent, PlanType, durable, volatile
<1>7. ASSUME NEW t \in Caller, ResumeSignal(t) PROVE PlanType'
  BY <1>0, <1>7, SameType, Named, Given, CallGoes, Asking
  DEF ResumeSignal, Signalled, CallAt, Midway, SignalType, AnyConsent, PlanType, durable,
      volatile
<1>8. ASSUME NEW t \in Caller, ApproveConsume(t) PROVE PlanType'
  BY <1>0, <1>8, SameType, Named, Given, CallGoes, Asking
  DEF ApproveConsume, CallAt, Midway, CreditType, PlanType, durable, volatile
<1>9. ASSUME NEW t \in Caller, ApproveLoad(t) PROVE PlanType'
  BY <1>0, <1>9, SameType, Named, Given, Loads, Asking
  DEF ApproveLoad, CallAt, Midway, PlanType, durable, volatile
<1>10. ASSUME NEW t \in Caller, ApproveMint(t) PROVE PlanType'
  BY <1>0, <1>10, SameType, Named, Given, Mints, CallGoes, Asking
  DEF ApproveMint, CallAt, Midway, PlanType, durable, volatile
<1>11. ASSUME NEW t \in Caller, ApproveCount(t) PROVE PlanType'
  BY <1>0, <1>11, SameType, Named, Given, Counts, Asking
  DEF ApproveCount, CallAt, Midway, PlanType, durable, volatile
<1>12. ASSUME NEW t \in Caller, Release(t) PROVE PlanType'
  <2>1. CallType'
    BY <1>0, <1>12, Named, CallGoes DEF Release, CallAt, Midway, PlanType
  <2>2. CreditType' BY <1>0, <1>12, Spends DEF Release, PlanType
  <2>3. EffectType'
    <3> DEFINE k == Head(call[t].batch)
    <3>1. /\ direct' = direct /\ segment' = segment
          /\ released' = [released EXCEPT ![k] = @ + 1]
      BY <1>12 DEF Release
    <3> HIDE DEF k
    <3>2. direct \in Nat /\ released \in [Item -> Nat]
      BY <1>0 DEF EffectType, PlanType
    <3> DEFINE n == released[k] + 1
    <3>3. released' \in [Item -> Nat]
      <4>1. released' = [released EXCEPT ![k] = n] BY <3>1
      <4>2. k \in Item => n \in Nat BY <3>2
      <4> HIDE DEF n
      <4>3. QED BY <3>2, <4>1, <4>2
    <3>4. QED BY <1>0, <3>1, <3>2, <3>3 DEF EffectType, PlanType
  <2>4. /\ RowType' /\ BufferType' /\ LogType' /\ ClockType' /\ MemType' /\ SignalType'
        /\ InterpType' /\ SweepType'
    BY <1>0, <1>12, SameType DEF Release
  <2>5. QED BY <2>1, <2>2, <2>3, <2>4 DEF PlanType
<1>13. ASSUME NEW t \in Caller, ReleaseLog(t) PROVE PlanType'
  BY <1>0, <1>13, SameType, Named, Given, Logs, Asking
  DEF ReleaseLog, CallAt, Midway, PlanType, durable, volatile
<1>14. ASSUME NEW t \in Caller, ReleaseMark(t) PROVE PlanType'
  BY <1>0, <1>14, SameType, Named, Given, Marks, Asking
  DEF ReleaseMark, CallAt, Midway, PlanType, durable, volatile
<1>15. ASSUME NEW t \in Caller, ReleaseFails(t) PROVE PlanType'
  BY <1>0, <1>15, SameType, Named, Given, Spends, CallGoes, Asking
  DEF ReleaseFails, CallFails, CallAt, Midway, ClockType, PlanType, durable, volatile
<1>16. ASSUME NEW t \in Caller, ApproveDrop(t) PROVE PlanType'
  BY <1>0, <1>16, SameType, Named, Given, HeldChange, CallGoes, Asking
  DEF ApproveDrop, DropBuffer, CallAt, Midway, PlanType, durable, volatile
<1>17. ASSUME NEW t \in Caller, ApproveTeardown(t) PROVE PlanType'
  BY <1>0, <1>17, SameType, Named, Given, Settles, CallGoes, Asking
  DEF ApproveTeardown, Teardown, CallAt, Midway, PlanType, durable, volatile
<1>18. ASSUME NEW t \in Caller, ApproveCommit(t) PROVE PlanType'
  BY <1>0, <1>18, SameType, Named, Given, HeldChange, CallGoes, Asking
  DEF ApproveCommit, CallAt, Midway, PlanType, durable, volatile
<1>19. ASSUME NEW t \in Caller, ApproveKeep(t) PROVE PlanType'
  BY <1>0, <1>19, SameType, Named, Given, Settles, CallGoes, Asking
  DEF ApproveKeep, CallAt, Midway, PlanType, durable, volatile
<1>20. ASSUME NEW t \in Caller, ApproveFinish(t) PROVE PlanType'
  BY <1>0, <1>20, SameType, Named, Given, MemSet, RunEnds, CallGoes, Asking
  DEF ApproveFinish, FinishRun, CallAt, Midway, PlanType, durable, volatile
<1>21. ASSUME OverBound PROVE PlanType'
  BY <1>0, <1>21, SameType, Named, Given, Bounds
  DEF OverBound, At, PlanType, durable, volatile
<1>22. ASSUME Withhold PROVE PlanType'
  BY <1>0, <1>22, SameType, Named, Given, Withholds
  DEF Withhold, Statement, At, PlanType, durable, volatile
<1>23. ASSUME Emit PROVE PlanType'
  BY <1>0, <1>23, SameType, Named, Given, Spends, InterpGoes
  DEF Emit, Statement, At, EffectType, PlanType, durable, volatile
<1>24. ASSUME LogEmit PROVE PlanType'
  BY <1>0, <1>24, SameType, Named, Given, LogsEmit
  DEF LogEmit, At, PlanType, durable, volatile
<1>25. ASSUME Exhausted PROVE PlanType'
  BY <1>0, <1>25, SameType, Named, Given, InterpGoes, InterpFails
  DEF Exhausted, Statement, At, PlanType, durable, volatile
<1>26. ASSUME EmitFails PROVE PlanType'
  <2>1. CreditType' /\ ClockType'
    <3>1. CASE CallFails
      BY <1>0, <1>26, <3>1, Spends DEF EmitFails, CallFails, PlanType, ClockType, durable
    <3>2. CASE Refused
      BY <1>0, <1>26, <3>2, SameType DEF EmitFails, Refused, PlanType, durable
    <3>3. QED BY <1>26, <3>1, <3>2 DEF EmitFails
  <2>2. InterpType' BY <1>0, <1>26, InterpFails, Named DEF EmitFails, PlanType
  <2>3. QED BY <1>0, <1>26, <2>1, <2>2, SameType DEF EmitFails, PlanType
<1>27. ASSUME Stop PROVE PlanType'
  BY <1>0, <1>27, SameType, Named, Given, InterpFails
  DEF Stop, At, PlanType, durable, volatile
<1>28. ASSUME Park PROVE PlanType'
  BY <1>0, <1>28, SameType, Named, Given, MemSet, InterpGoes
  DEF Park, At, RowType, PlanType, durable, volatile
<1>29. ASSUME Wake PROVE PlanType'
  BY <1>0, <1>29, SameType, Named, Given, Mints, InterpGoes, InterpFails
  DEF Wake, At, SignalType, NoSignal, AnyConsent, PlanType, durable, volatile
<1>30. ASSUME Unpark PROVE PlanType'
  BY <1>0, <1>30, SameType, Named, Given, MemSet, InterpGoes
  DEF Unpark, At, RowType, PlanType, durable, volatile
<1>31. ASSUME CommitRun PROVE PlanType'
  BY <1>0, <1>31, SameType, Named, Given, Settles, Commits
  DEF CommitRun, AtEnd, At, EffectType, PlanType, durable, volatile
<1>32. ASSUME AwaitHandle PROVE PlanType'
  BY <1>0, <1>32, SameType, Named, Given, MemSet, InterpGoes
  DEF AwaitHandle, AtEnd, At, PlanType, durable, volatile
<1>33. ASSUME AwaitRow PROVE PlanType'
  BY <1>0, <1>33, SameType, Named, Given, Rests
  DEF AwaitRow, At, RowType, PlanType, durable, volatile
<1>34. ASSUME DropRun PROVE PlanType'
  BY <1>0, <1>34, SameType, Named, Given, HeldChange, InterpGoes
  DEF DropRun, DropBuffer, At, PlanType, durable, volatile
<1>35. ASSUME TeardownRun PROVE PlanType'
  BY <1>0, <1>35, SameType, Named, Given, Settles, InterpGoes
  DEF TeardownRun, Teardown, At, PlanType, durable, volatile
<1>36. ASSUME Finish PROVE PlanType'
  <2>1. interp.outcome \in Outcome BY <1>0 DEF PlanType, InterpType
  <2>2. QED
    BY <1>0, <1>36, <2>1, SameType, Named, MemSet, RunEnds, Rests
    DEF Finish, FinishRun, PlanType
<1>37. ASSUME ExpireCollect PROVE PlanType'
  BY <1>0, <1>37, SameType, Named, Given, PlanAssumption, NoneTyped
  DEF ExpireCollect, SweepType, Suspended, MemType, PlanType, durable, volatile
<1>38. ASSUME ExpireAbort PROVE PlanType'
  BY <1>0, <1>38, SameType, Named, Given, PlanAssumption, NoneTyped
  DEF ExpireAbort, Abort, SweepType, SignalType, AnyConsent, PlanType, durable, volatile
<1>39. ASSUME ExpireDrop PROVE PlanType'
  BY <1>0, <1>39, SameType, Named, Given, HeldChange, NoneTyped
  DEF ExpireDrop, DropBuffer, SweepType, PlanType, durable, volatile
<1>40. ASSUME ExpireTeardown PROVE PlanType'
  BY <1>0, <1>40, SameType, Named, Given, Settles, NoneTyped
  DEF ExpireTeardown, Teardown, SweepType, PlanType, durable, volatile
<1>41. ASSUME ExpireFinish PROVE PlanType'
  BY <1>0, <1>41, SameType, Named, Given, MemSet, RunEnds, NoneTyped
  DEF ExpireFinish, FinishRun, SweepType, PlanType, durable, volatile
<1>42. ASSUME Open PROVE PlanType'
  BY <1>0, <1>42, SameType, Named, Given, PlanAssumption
  DEF Open, ClockType, PlanType, durable, volatile
<1>43. ASSUME RecoverDrop PROVE PlanType'
  BY <1>0, <1>43, SameType, Named, Given, HeldChange
  DEF RecoverDrop, DropBuffer, ClockType, PlanType, durable, volatile
<1>44. ASSUME RecoverTeardown PROVE PlanType'
  BY <1>0, <1>44, SameType, Named, Given, Settles
  DEF RecoverTeardown, Teardown, ClockType, PlanType, durable, volatile
<1>45. ASSUME RecoverFinish PROVE PlanType'
  BY <1>0, <1>45, SameType, Named, Given, RunEnds
  DEF RecoverFinish, ClockType, PlanType, durable, volatile
<1>46. ASSUME Shutdown PROVE PlanType'
  BY <1>0, <1>46, SameType, Named, Given, PlanAssumption
  DEF Shutdown, Abort, ClockType, SignalType, AnyConsent, PlanType, durable, volatile
<1>47. ASSUME Exit PROVE PlanType'
  BY <1>0, <1>47, SameType, Named, Given, Ends
  DEF Exit, ClockType, PlanType, durable, volatile
<1>48. ASSUME Crash PROVE PlanType'
  BY <1>0, <1>48, SameType, Named, Given, Ends
  DEF Crash, ClockType, PlanType, durable, volatile
<1>49. ASSUME Tick PROVE PlanType'
  BY <1>0, <1>49, SameType, Named, Given, PlanAssumption
  DEF Tick, ClockType, PlanType, durable, volatile
<1>50. ASSUME UNCHANGED vars PROVE PlanType'
  BY <1>0, <1>50, SameType DEF vars, durable, volatile, PlanType
<1>51. QED
  BY <1>1, <1>2, <1>3, <1>4, <1>5, <1>6, <1>7, <1>8, <1>9, <1>10, <1>11, <1>12, <1>13,
     <1>14, <1>15, <1>16, <1>17, <1>18, <1>19, <1>20, <1>21, <1>22, <1>23, <1>24, <1>25,
     <1>26, <1>27, <1>28, <1>29, <1>30, <1>31, <1>32, <1>33, <1>34, <1>35, <1>36, <1>37,
     <1>38, <1>39, <1>40, <1>41, <1>42, <1>43, <1>44, <1>45, <1>46, <1>47, <1>48, <1>49,
     <1>50
  DEF Next, Asked, CallStep, InterpStep, SweepStep, OpenStep

----------------------------------------------------------------------------
(* Who is at work tells what the others are not doing. *)
LEMMA WhoWorks ==
  ASSUME PlanType, Control
  PROVE  /\ \A t \in Caller : call[t].at # "idle" => up = "up"
         /\ \A t \in Caller : call[t].at \in Starting =>
              /\ row.state = "admitted" /\ mem.state = "running" /\ interp = NoInterp
              /\ \A s \in Caller : call[s].at \in Starting => s = t
         /\ \A t \in Caller : call[t].at \in Approving =>
              row.state # "admitted" /\ interp = NoInterp
         /\ \A t \in Caller : call[t].at = "resume_signal" => row.state # "admitted"
         /\ interp.at # "idle" => row.state # "admitted" /\ up \in {"up", "stopping"}
         /\ interp.at # "idle" => row.state # "awaiting_approval"
         /\ sweep.at # "idle" => row.state # "admitted" /\ up = "up"
         /\ mem.state \in {"paused", "awaiting_approval", "done"} => row.state # "admitted"
<1>1. NoCall.at = "idle" /\ NoInterp.at = "idle" /\ NoSweep.at = "idle"
  BY DEF NoCall, NoInterp, NoSweep
<1>2. interp.at = "idle" => interp = NoInterp BY DEF PlanType, InterpType
<1>3. \A t \in Caller : call[t].at # "idle" => up = "up"
  BY <1>1 DEF Control, Alive
<1>4. \A t \in Caller : call[t].at \in Approving =>
        /\ call[t].at \notin {"idle"} \cup Starting
        /\ call[t].at \notin {"idle", "resume_signal"}
  BY DEF Approving, Releasing, Dropped, Kept, Starting
<1>5. \A t \in Caller : call[t].at \in Approving => row.state # "admitted" /\ interp = NoInterp
  BY <1>2, <1>4 DEF Control, Untouched, Working, Waiting
<1>6. interp.at # "idle" => row.state # "admitted" /\ up \in {"up", "stopping"}
  BY <1>1 DEF Control, Untouched, Alive
<1>7. interp.at # "idle" => row.state # "awaiting_approval"
  BY DEF Control, Working, Waiting
<1>8. sweep.at # "idle" => row.state # "admitted" /\ up = "up"
  BY <1>1 DEF Control, Untouched, Alive
<1>9. ASSUME NEW t \in Caller, call[t].at \in Starting
      PROVE  /\ row.state = "admitted" /\ mem.state = "running" /\ interp = NoInterp
             /\ \A s \in Caller : call[s].at \in Starting => s = t
  BY <1>9 DEF Control, Untouched, Started
<1>10. mem.state \in {"paused", "awaiting_approval", "done"} => row.state # "admitted"
  BY DEF Control, Untouched
<1>11. \A t \in Caller : call[t].at = "resume_signal" => row.state # "admitted"
  BY DEF Control, Untouched, Starting
<1>12. QED BY <1>3, <1>5, <1>6, <1>7, <1>8, <1>9, <1>10, <1>11

(* A step of an approval, of the sweeper or of a resume. *)
LEMMA OutsideKeeps ==
  ASSUME PlanType, Control, row.state # "admitted", up = "up",
         UNCHANGED <<interp, up>>, Len(buffer') = Len(buffer), DOMAIN buffer' = DOMAIN buffer,
         consumed \subseteq consumed', row'.nonce = row.nonce,
         \/ row'.state = row.state /\ row'.outcome = row.outcome
         \/ row'.state = "done" /\ interp.at \in {"idle", "await"},
         mem'.state = mem.state \/ (mem'.state = "done" /\ interp.at \in {"idle", "await"}),
         \A t \in Caller : \/ call'[t].at = call[t].at
                           \/ call'[t].at \in {"idle", "resume_signal"}
                           \/ call'[t].at \in Approving /\ interp.at = "idle",
         \/ sweep'.at \in {"idle", "abort"} /\ sweep'.saw # "awaiting_approval"
         \/ interp.at \in {"idle", "await"},
         interp.at \notin {"idle", "await"} => UNCHANGED buffer
  PROVE  Control'
<1>1. Buffered' BY DEF Control, Buffered
<1>2. row'.state # "admitted" OBVIOUS
<1>3. Untouched' BY <1>2 DEF Untouched
<1>4. "idle" \notin Starting /\ "resume_signal" \notin Starting /\ Approving \cap Starting = {}
  BY DEF Starting, Approving, Releasing, Dropped, Kept
<1>5. Started'
  <2>1. \A t \in Caller : call'[t].at \notin Starting
    BY <1>4 DEF Control, Started
  <2>2. row.nonce \in consumed /\ mem.state # "admitted" BY DEF Control, Started
  <2>3. QED BY <2>1, <2>2 DEF Started
<1>6. Working'
  <2>1. SUFFICES ASSUME interp.at \notin {"idle", "await"} PROVE Working'
    BY DEF Working
  <2>2. Working /\ interp.at # "idle" BY <2>1 DEF Control
  <2>3. \A t \in Caller : call'[t].at \in {"idle", "resume_signal"}
    BY <2>1, <2>2 DEF Working
  <2>4. QED BY <2>1, <2>2, <2>3 DEF Working
<1>7. Waiting'
  <2>1. SUFFICES ASSUME interp.at = "await" PROVE Waiting'
    BY DEF Waiting
  <2>2. Waiting BY DEF Control
  <2>3. \A t \in Caller : call'[t].at \in {"idle", "resume_signal"}
    BY <2>1, <2>2 DEF Waiting
  <2>4. QED BY <2>1, <2>2, <2>3 DEF Waiting
<1>8. Alive' BY DEF Alive
<1>9. QED BY <1>1, <1>3, <1>5, <1>6, <1>7, <1>8 DEF Control

(* A step of the interpreter after which it is still at work. *)
LEMMA InsideKeeps ==
  ASSUME PlanType, Control, interp.at \notin {"idle", "await"},
         interp'.at \notin {"idle", "await"},
         UNCHANGED <<call, sweep, up>>, consumed' = consumed,
         row'.nonce = row.nonce, row'.outcome = row.outcome,
         row'.state \in {"running", "paused"}, mem'.state \in {"running", "paused"},
         interp'.withheld = Len(buffer'), interp'.withheld < interp'.pos,
         Len(buffer') <= Len(Plan),
         interp'.at \notin {"teardown", "finish"} =>
           \A k \in DOMAIN buffer' : buffer'[k] = "held"
  PROVE  Control'
<1>1. Working /\ row.state # "admitted" /\ up \in {"up", "stopping"}
  BY WhoWorks DEF Control
<1>2. Buffered' BY DEF Buffered
<1>3. Untouched' BY DEF Untouched
<1>4. Started' BY <1>1 DEF Control, Started
<1>5. Working' BY <1>1 DEF Working
<1>6. Waiting' BY DEF Waiting
<1>7. Alive' BY <1>1 DEF Control, Alive
<1>8. QED BY <1>2, <1>3, <1>4, <1>5, <1>6, <1>7 DEF Control

(* The places of an approval.                                              *)
LEMMA Approves ==
  {"approve_consume", "approve_load", "approve_mint", "approve_count", "release", "release_log",
   "release_mark", "approve_drop", "approve_teardown", "approve_fail", "approve_keep",
   "approve_finish"} \subseteq Approving
BY DEF Approving, Releasing, Dropped, Kept

(* Of an approval, and of the sweeper. *)
LEMMA ApprovalKeeps ==
  ASSUME PlanType, Control, NEW t \in Caller, call[t].at \in Approving,
         \A s \in Caller \ {t} : call'[s] = call[s], call'[t].at \in {"idle"} \cup Approving,
         UNCHANGED <<interp, sweep, up>>,
         Len(buffer') = Len(buffer), DOMAIN buffer' = DOMAIN buffer,
         consumed \subseteq consumed', row'.nonce = row.nonce,
         (row'.state = row.state /\ row'.outcome = row.outcome) \/ row'.state = "done",
         mem'.state = mem.state \/ mem'.state = "done"
  PROVE  Control'
<1>1. row.state # "admitted" /\ interp = NoInterp /\ interp.at = "idle" /\ up = "up"
  <2>1. call[t].at # "idle" BY DEF Approving, Releasing, Dropped, Kept
  <2>2. QED BY <2>1, WhoWorks DEF NoInterp
<1>2. \A s \in Caller : \/ call'[s].at = call[s].at
                        \/ call'[s].at \in {"idle", "resume_signal"}
                        \/ call'[s].at \in Approving /\ interp.at = "idle"
  BY <1>1
<1>3. QED BY <1>1, <1>2, OutsideKeeps

(* What the sweep does to a run that it took is in order.                  *)
LEMMA SweepKeeps ==
  ASSUME PlanType, Control, sweep.at \in {"drop", "teardown", "finish"},
         UNCHANGED <<interp, call, up, consumed>>,
         Len(buffer') = Len(buffer), DOMAIN buffer' = DOMAIN buffer, row'.nonce = row.nonce,
         (row'.state = row.state /\ row'.outcome = row.outcome) \/ row'.state = "done",
         mem'.state = mem.state \/ mem'.state = "done"
  PROVE  Control'
<1>1. row.state # "admitted" /\ up = "up" BY WhoWorks
<1>2. interp.at \in {"idle", "await"}
  <2>1. Working BY DEF Control
  <2>2. QED BY <2>1 DEF Working
<1>3. \A t \in Caller : \/ call'[t].at = call[t].at
                        \/ call'[t].at \in {"idle", "resume_signal"}
                        \/ call'[t].at \in Approving /\ interp.at = "idle"
  OBVIOUS
<1>4. QED BY <1>1, <1>2, <1>3, OutsideKeeps

(* Of a process that is not open. *)
LEMMA ClosedKeeps ==
  ASSUME PlanType, Control, interp' = NoInterp, mem' = NoHandle, signal' = NoSignal,
         sweep' = NoSweep, \A t \in Caller : call'[t] = NoCall,
         UNCHANGED <<row, consumed>>, Len(buffer') = Len(buffer),
         row.state = "admitted" =>
           UNCHANGED <<buffer, segment, log, direct, released>> /\ up' \in {"down", "up"}
  PROVE  Control'
<1>1. NoCall.at = "idle" /\ NoInterp.at = "idle" /\ NoSweep.at = "idle" /\ NoHandle.state = "none"
  BY DEF NoCall, NoInterp, NoSweep, NoHandle
<1>2. "idle" \notin Starting BY DEF Starting
<1>3. Buffered' BY <1>1 DEF Control, Buffered
<1>4. Untouched' BY <1>1, <1>2 DEF Control, Untouched
<1>5. Started' BY <1>1, <1>2 DEF Control, Started
<1>6. Working' BY <1>1 DEF Working
<1>7. Waiting' BY <1>1 DEF Waiting
<1>8. Alive' BY DEF Alive
<1>9. QED BY <1>3, <1>4, <1>5, <1>6, <1>7, <1>8 DEF Control

(* A start that goes on to its next step, or gives up. *)
LEMMA StartGoesOn ==
  ASSUME PlanType, Control, NEW t \in Caller, call[t].at \in Starting,
         \A s \in Caller \ {t} : call'[s] = call[s], call'[t].at \in {"idle"} \cup Starting,
         UNCHANGED <<row, buffer, segment, log, direct, released, mem, interp, sweep, up, signal>>,
         consumed \subseteq consumed',
         call'[t].at \in {"start_mint", "start_spawn"} => call'[t].consent \in consumed'
  PROVE  Control'
<1>1. /\ row.state = "admitted" /\ mem.state = "running" /\ up = "up" /\ interp = NoInterp
      /\ \A s \in Caller : call[s].at \in Starting => s = t
  <2>1. call[t].at # "idle" BY DEF Starting
  <2>2. QED BY <2>1, WhoWorks
<1>2. Buffered' BY DEF Control, Buffered
<1>3. Untouched'
  <2>1. Untouched BY DEF Control
  <2>2. \A s \in Caller : call'[s].at \in {"idle"} \cup Starting BY <1>1, <2>1 DEF Untouched
  <2>3. \A s \in Caller : call'[s].at \in Starting => s = t BY <1>1
  <2>4. \A s \in Caller :
          call'[s].at \in {"start_mint", "start_spawn"} => call'[s].consent \in consumed'
    BY <1>1, <2>1 DEF Untouched
  <2>5. QED BY <1>1, <2>1, <2>2, <2>3, <2>4 DEF Untouched
<1>4. Started' /\ Working' /\ Waiting' /\ Alive'
  BY <1>1 DEF Started, Working, Waiting, Alive, NoInterp
<1>5. QED BY <1>2, <1>3, <1>4 DEF Control

(* The run is started: no other thread is at it. *)
LEMMA SpawnStarts ==
  ASSUME PlanType, Control, NEW t \in Caller, call[t].at = "start_spawn",
         \A s \in Caller \ {t} : call'[s] = call[s], call'[t].at = "idle",
         row' = [row EXCEPT !.state = "running", !.nonce = call[t].consent],
         interp' = [NoInterp EXCEPT !.at = "run"],
         UNCHANGED <<buffer, mem, sweep, up, consumed>>
  PROVE  Control'
<1>1. /\ row.state = "admitted" /\ mem.state = "running" /\ up = "up"
      /\ \A s \in Caller : call[s].at \in Starting => s = t
  BY WhoWorks DEF Starting
<1>2. /\ buffer = <<>> /\ sweep = NoSweep /\ row.outcome = "none" /\ call[t].consent \in consumed
      /\ \A s \in Caller : call[s].at \in {"idle"} \cup Starting
  BY <1>1 DEF Control, Untouched
<1>3. /\ interp'.at = "run" /\ interp'.pos = 1 /\ interp'.withheld = 0 BY Spawns
<1>4. row'.state = "running" /\ row'.nonce = call[t].consent /\ row'.outcome = "none"
  <2>1. row' = [[row EXCEPT !.state = "running"] EXCEPT !.nonce = call[t].consent] OBVIOUS
  <2>2. QED BY <1>2, <2>1 DEF PlanType, RowType
<1>5. \A s \in Caller : call'[s].at = "idle" BY <1>1, <1>2
<1>6. Buffered' BY <1>2, <1>3, Given DEF Buffered
<1>7. Untouched' BY <1>4 DEF Untouched
<1>8. Started' BY <1>1, <1>2, <1>4, <1>5 DEF Started, Starting
<1>9. Working' BY <1>1, <1>2, <1>3, <1>4, <1>5 DEF Working, NoSweep
<1>10. Waiting' BY <1>3 DEF Waiting
<1>11. Alive' BY <1>1 DEF Alive
<1>12. QED BY <1>6, <1>7, <1>8, <1>9, <1>10, <1>11 DEF Control

(* Every step keeps who does what. *)
LEMMA ControlStep ==
  ASSUME PlanType, Control, [Next]_vars
  PROVE  Control'
<1>0. PlanType /\ Control OBVIOUS
<1>1. ASSUME NEW t \in Caller, NEW c \in Consent, StartBegin(t, c) PROVE Control'
  BY <1>0, <1>1, CallBegins, WhoWorks, Named
  DEF StartBegin, Midway, MemType, Control, Buffered, Untouched, Started, Working, Waiting,
      Alive, Starting, PlanType, durable, volatile
<1>2. ASSUME NEW t \in Caller, NEW c \in Consent, ResumeBegin(t, c) PROVE Control'
  <2>1. CallType /\ "resume_signal" \in Place \ Midway BY <1>0, Named DEF PlanType, Midway
  <2>2. /\ up = "up" /\ mem.state = "paused" /\ row.state # "admitted"
        /\ consumed \subseteq consumed' /\ call'[t].at = "resume_signal"
        /\ \A s \in Caller \ {t} : call'[s] = call[s]
    BY <1>0, <1>2, <2>1, CallBegins, WhoWorks DEF ResumeBegin
  <2>3. \A s \in Caller : call'[s].at = call[s].at \/ call'[s].at \in {"idle", "resume_signal"}
    BY <2>2
  <2>4. \/ sweep.at \in {"idle", "abort"} /\ sweep.saw # "awaiting_approval"
        \/ interp.at \in {"idle", "await"}
    BY <1>0 DEF Control, Working
  <2>5. QED BY <1>0, <1>2, <2>2, <2>3, <2>4, OutsideKeeps DEF ResumeBegin
<1>3. ASSUME NEW t \in Caller, NEW c \in Consent, ApproveBegin(t, c) PROVE Control'
  <2>1. CallType /\ "approve_consume" \in Place \ Midway BY <1>0, Named DEF PlanType, Midway
  <2>2. /\ up = "up" /\ row.state = "awaiting_approval" /\ call'[t].at = "approve_consume"
        /\ \A s \in Caller \ {t} : call'[s] = call[s]
    BY <1>0, <1>3, <2>1, CallBegins DEF ApproveBegin
  <2>3. interp.at = "idle" BY <1>0, <2>2, WhoWorks
  <2>4. \A s \in Caller : call'[s].at = call[s].at \/ call'[s].at \in Approving
    BY <2>2, Approves
  <2>5. QED BY <1>0, <1>3, <2>2, <2>3, <2>4, OutsideKeeps DEF ApproveBegin, durable
<1>4. ASSUME NEW t \in Caller, StartConsume(t) PROVE Control'
  <2>1. /\ call[t].at = "start_consume" /\ call'[t].at \in {"start_mint", "idle"}
        /\ \A s \in Caller \ {t} : call'[s] = call[s]
    BY <1>0, <1>4, CallGoes, Named DEF StartConsume, CallAt, Midway, PlanType
  <2>2. /\ consumed \subseteq consumed'
        /\ call'[t].at = "start_mint" => call'[t].consent \in consumed'
    BY <1>0, <1>4, CallGoes, Named DEF StartConsume, CallAt, Midway, PlanType
  <2>3. call[t].at \in Starting /\ call'[t].at \in {"idle"} \cup Starting
    BY <2>1 DEF Starting
  <2>4. QED BY <1>0, <1>4, <2>1, <2>2, <2>3, StartGoesOn DEF StartConsume
<1>5. ASSUME NEW t \in Caller, StartMint(t) PROVE Control'
  <2>1. /\ call[t].at = "start_mint" /\ call'[t].at \in {"start_spawn", "idle"}
        /\ \A s \in Caller \ {t} : call'[s] = call[s]
    BY <1>0, <1>5, CallGoes, Named DEF StartMint, CallAt, Midway, PlanType
  <2>2. call'[t].at = "start_spawn" => call'[t].consent \in consumed'
    <3>1. call[t].consent \in consumed
      <4>1. row.state = "admitted" BY <1>0, <2>1, WhoWorks DEF Starting
      <4>2. QED BY <1>0, <2>1, <4>1 DEF Control, Untouched
    <3>2. call'[t].at = "start_spawn" => call'[t].consent = call[t].consent
      BY <1>0, <1>5, <2>1, CallGoes, Named DEF StartMint, Midway, PlanType
    <3>3. QED BY <1>5, <3>1, <3>2 DEF StartMint
  <2>3. call[t].at \in Starting /\ call'[t].at \in {"idle"} \cup Starting
    BY <2>1 DEF Starting
  <2>4. QED BY <1>0, <1>5, <2>1, <2>2, <2>3, StartGoesOn DEF StartMint
<1>6. ASSUME NEW t \in Caller, StartSpawn(t) PROVE Control'
  <2>1. /\ call[t].at = "start_spawn" /\ call'[t].at = "idle"
        /\ \A s \in Caller \ {t} : call'[s] = call[s]
    BY <1>0, <1>6, CallGoes, Named DEF StartSpawn, CallAt, Midway, PlanType
  <2>2. QED BY <1>0, <1>6, <2>1, SpawnStarts DEF StartSpawn
<1>7. ASSUME NEW t \in Caller, ResumeSignal(t) PROVE Control'
  <2>1. /\ call[t].at = "resume_signal" /\ call'[t].at = "idle"
        /\ \A s \in Caller \ {t} : call'[s] = call[s]
    BY <1>0, <1>7, CallGoes, Named DEF ResumeSignal, CallAt, Midway, PlanType
  <2>2. up = "up" /\ row.state # "admitted" BY <1>0, <2>1, WhoWorks
  <2>3. \A s \in Caller : call'[s].at = call[s].at \/ call'[s].at \in {"idle", "resume_signal"}
    BY <2>1
  <2>4. \/ sweep.at \in {"idle", "abort"} /\ sweep.saw # "awaiting_approval"
        \/ interp.at \in {"idle", "await"}
    BY <1>0 DEF Control, Working
  <2>5. QED BY <1>0, <1>7, <2>2, <2>3, <2>4, OutsideKeeps DEF ResumeSignal, durable
<1>8. ASSUME NEW t \in Caller, ApproveConsume(t) PROVE Control'
  BY <1>0, <1>8, ApprovalKeeps, Approves, CallGoes, Asking, Named
  DEF ApproveConsume, CallAt, Midway, CreditType, NoCall, PlanType, durable, volatile
<1>9. ASSUME NEW t \in Caller, ApproveLoad(t) PROVE Control'
  BY <1>0, <1>9, ApprovalKeeps, Approves, Loads, Asking, Named
  DEF ApproveLoad, CallAt, Midway, NoCall, PlanType, durable, volatile
<1>10. ASSUME NEW t \in Caller, ApproveMint(t) PROVE Control'
  <2>1. /\ call[t].at = "approve_mint" /\ call'[t].at \in {"approve_count"}
        /\ \A s \in Caller \ {t} : call'[s] = call[s]
    BY <1>0, <1>10, CallGoes, Named DEF ApproveMint, CallAt, Midway, PlanType
  <2>2. /\ UNCHANGED <<interp, sweep, up, row, mem, consumed>>
        /\ Len(buffer') = Len(buffer) /\ DOMAIN buffer' = DOMAIN buffer
    BY <1>0, <1>10 DEF ApproveMint, durable, volatile
  <2>3. QED BY <1>0, <2>1, <2>2, ApprovalKeeps, Approves
<1>11. ASSUME NEW t \in Caller, ApproveCount(t) PROVE Control'
  <2>1. /\ call[t].at = "approve_count" /\ call'[t].at \in {"release"}
        /\ \A s \in Caller \ {t} : call'[s] = call[s]
    BY <1>0, <1>11, Counts, Named DEF ApproveCount, CallAt, Midway, PlanType
  <2>2. /\ UNCHANGED <<interp, sweep, up, row, mem, consumed>>
        /\ Len(buffer') = Len(buffer) /\ DOMAIN buffer' = DOMAIN buffer
    BY <1>0, <1>11 DEF ApproveCount, durable, volatile
  <2>3. QED BY <1>0, <2>1, <2>2, ApprovalKeeps, Approves
<1>12. ASSUME NEW t \in Caller, Release(t) PROVE Control'
  <2>1. /\ call[t].at = "release" /\ call'[t].at \in {"release_log"}
        /\ \A s \in Caller \ {t} : call'[s] = call[s]
    BY <1>0, <1>12, CallGoes, Named DEF Release, CallAt, Midway, PlanType
  <2>2. /\ UNCHANGED <<interp, sweep, up, row, mem, consumed>>
        /\ Len(buffer') = Len(buffer) /\ DOMAIN buffer' = DOMAIN buffer
    BY <1>0, <1>12 DEF Release, durable, volatile
  <2>3. QED BY <1>0, <2>1, <2>2, ApprovalKeeps, Approves
<1>13. ASSUME NEW t \in Caller, ReleaseLog(t) PROVE Control'
  <2>1. /\ call[t].at = "release_log" /\ call'[t].at \in {"idle", "release_mark"}
        /\ \A s \in Caller \ {t} : call'[s] = call[s]
    BY <1>0, <1>13, Logs, Named DEF ReleaseLog, CallAt, Midway, NoCall, PlanType
  <2>2. /\ UNCHANGED <<interp, sweep, up, row, mem, consumed>>
        /\ Len(buffer') = Len(buffer) /\ DOMAIN buffer' = DOMAIN buffer
    BY <1>0, <1>13 DEF ReleaseLog, durable, volatile
  <2>3. QED BY <1>0, <2>1, <2>2, ApprovalKeeps, Approves
<1>14. ASSUME NEW t \in Caller, ReleaseMark(t) PROVE Control'
  <2>1. /\ call[t].at = "release_mark" /\ call'[t].at \in {"release"}
        /\ \A s \in Caller \ {t} : call'[s] = call[s]
    BY <1>0, <1>14, Marks, Named DEF ReleaseMark, CallAt, Midway, PlanType
  <2>2. /\ UNCHANGED <<interp, sweep, up, row, mem, consumed>>
        /\ Len(buffer') = Len(buffer) /\ DOMAIN buffer' = DOMAIN buffer
    BY <1>0, <1>14, Marks DEF ReleaseMark, PlanType, durable, volatile
  <2>3. QED BY <1>0, <2>1, <2>2, ApprovalKeeps, Approves
<1>15. ASSUME NEW t \in Caller, ReleaseFails(t) PROVE Control'
  <2>1. /\ call[t].at = "release" /\ call'[t].at \in {"approve_drop"}
        /\ \A s \in Caller \ {t} : call'[s] = call[s]
    BY <1>0, <1>15, CallGoes, Named DEF ReleaseFails, CallAt, Midway, PlanType
  <2>2. /\ UNCHANGED <<interp, sweep, up, row, mem, consumed>>
        /\ Len(buffer') = Len(buffer) /\ DOMAIN buffer' = DOMAIN buffer
    BY <1>0, <1>15 DEF ReleaseFails, durable, volatile
  <2>3. QED BY <1>0, <2>1, <2>2, ApprovalKeeps, Approves
<1>16. ASSUME NEW t \in Caller, ApproveDrop(t) PROVE Control'
  BY <1>0, <1>16, ApprovalKeeps, Approves, HeldChange, CallGoes, Asking, Named
  DEF ApproveDrop, DropBuffer, CallAt, Midway, NoCall, PlanType, durable, volatile
<1>17. ASSUME NEW t \in Caller, ApproveTeardown(t) PROVE Control'
  BY <1>0, <1>17, ApprovalKeeps, Approves, Settles, CallGoes, Asking, Named
  DEF ApproveTeardown, Teardown, CallAt, Midway, NoCall, PlanType, durable, volatile
<1>18. ASSUME NEW t \in Caller, ApproveCommit(t) PROVE Control'
  BY <1>0, <1>18, ApprovalKeeps, Approves, HeldChange, CallGoes, Asking, Named
  DEF ApproveCommit, CallAt, Midway, NoCall, PlanType, durable, volatile
<1>19. ASSUME NEW t \in Caller, ApproveKeep(t) PROVE Control'
  BY <1>0, <1>19, ApprovalKeeps, Approves, Settles, CallGoes, Asking, Named
  DEF ApproveKeep, CallAt, Midway, NoCall, PlanType, durable, volatile
<1>20. ASSUME NEW t \in Caller, ApproveFinish(t) PROVE Control'
  BY <1>0, <1>20, ApprovalKeeps, Approves, MemSet, RunEnds, CallGoes, Asking, Named
  DEF ApproveFinish, FinishRun, CallAt, Midway, NoCall, PlanType, durable, volatile
<1>21. ASSUME OverBound PROVE Control'
  BY <1>0, <1>21, InsideKeeps, WhoWorks, Bounds, Named
  DEF OverBound, At, Control, Buffered, Working, PlanType, durable, volatile
<1>22. ASSUME Withhold PROVE Control'
  BY <1>0, <1>22, InsideKeeps, WhoWorks, Withholds, Named
  DEF Withhold, Statement, At, Control, Buffered, Working, PlanType, durable, volatile
<1>23. ASSUME Emit PROVE Control'
  BY <1>0, <1>23, InsideKeeps, WhoWorks, Spends, InterpGoes, Named
  DEF Emit, Statement, At, EffectType, Control, Buffered, Working, PlanType, durable, volatile
<1>24. ASSUME LogEmit PROVE Control'
  BY <1>0, <1>24, InsideKeeps, WhoWorks, LogsEmit, Named
  DEF LogEmit, At, Control, Buffered, Working, PlanType, durable, volatile
<1>25. ASSUME Exhausted PROVE Control'
  BY <1>0, <1>25, InsideKeeps, WhoWorks, InterpGoes, InterpFails, Named
  DEF Exhausted, Statement, At, Control, Buffered, Working, PlanType, durable, volatile
<1>26. ASSUME EmitFails PROVE Control'
  BY <1>0, <1>26, InsideKeeps, WhoWorks, InterpFails, Named
  DEF EmitFails, Statement, At, ClockType, Control, Buffered, Working, PlanType, durable, volatile
<1>27. ASSUME Stop PROVE Control'
  BY <1>0, <1>27, InsideKeeps, WhoWorks, InterpFails, Named
  DEF Stop, At, Control, Buffered, Working, PlanType, durable, volatile
<1>28. ASSUME Park PROVE Control'
  BY <1>0, <1>28, InsideKeeps, WhoWorks, MemSet, InterpGoes, Named
  DEF Park, At, RowType, Control, Buffered, Working, PlanType, durable, volatile
<1>29. ASSUME Wake PROVE Control'
  BY <1>0, <1>29, InsideKeeps, WhoWorks, Mints, InterpGoes, InterpFails, Named
  DEF Wake, At, SignalType, NoSignal, AnyConsent, Control, Buffered, Working, PlanType, durable,
      volatile
<1>30. ASSUME Unpark PROVE Control'
  BY <1>0, <1>30, InsideKeeps, WhoWorks, MemSet, InterpGoes, Named
  DEF Unpark, At, RowType, Control, Buffered, Working, PlanType, durable, volatile
<1>31. ASSUME CommitRun PROVE Control'
  BY <1>0, <1>31, InsideKeeps, WhoWorks, Settles, Commits, Named
  DEF CommitRun, AtEnd, At, EffectType, Control, Buffered, Working, PlanType, durable, volatile
<1>32. ASSUME AwaitHandle PROVE Control'
  BY <1>0, <1>32, MemSet, InterpGoes, WhoWorks, Named
  DEF AwaitHandle, AtEnd, At, Control, Buffered, Untouched, Started, Working, Waiting, Alive,
      Starting, PlanType, durable, volatile
<1>33. ASSUME AwaitRow PROVE Control'
  BY <1>0, <1>33, Rests, WhoWorks, Named
  DEF AwaitRow, At, RowType, Control, Buffered, Untouched, Started, Working, Waiting, Alive,
      Starting, PlanType, durable, volatile
<1>34. ASSUME DropRun PROVE Control'
  BY <1>0, <1>34, InsideKeeps, WhoWorks, HeldChange, InterpGoes, Named
  DEF DropRun, DropBuffer, At, Control, Buffered, Working, PlanType, durable, volatile
<1>35. ASSUME TeardownRun PROVE Control'
  BY <1>0, <1>35, InsideKeeps, WhoWorks, Settles, InterpGoes, Named
  DEF TeardownRun, Teardown, At, Control, Buffered, Working, PlanType, durable, volatile
<1>36. ASSUME Finish PROVE Control'
  <2>1. MemType /\ RowType /\ interp.outcome \in Outcome BY <1>0 DEF PlanType, InterpType
  <2>2. interp.at = "finish" /\ interp' = NoInterp /\ interp'.at = "idle"
    BY <1>36, Rests DEF Finish, At
  <2>3. row'.state = "done" /\ row'.nonce = row.nonce
    BY <1>36, <2>1, RunEnds DEF Finish, FinishRun
  <2>4. mem'.state = "done" \/ (mem.state = "none" /\ mem' = mem)
    BY <1>36, <2>1, MemSet, Named DEF Finish, FinishRun
  <2>5. Buffered' /\ Untouched' /\ Working' /\ Waiting'
    BY <1>0, <1>36, <2>2, <2>3 DEF Finish, Control, Buffered, Untouched, Working, Waiting
  <2>6. Started'
    BY <1>0, <1>36, <2>2, <2>3, <2>4, WhoWorks DEF Finish, Control, Started
  <2>7. Alive'
    BY <1>0, <1>36, <2>2, <2>4, WhoWorks DEF Finish, Control, Alive, NoHandle
  <2>8. QED BY <2>5, <2>6, <2>7 DEF Control
<1>37. ASSUME ExpireCollect PROVE Control'
  <2>1. /\ up = "up" /\ mem.state \in {"paused", "awaiting_approval"}
        /\ sweep'.at = "abort" /\ sweep'.saw = mem.state
    BY <1>37 DEF ExpireCollect, Suspended
  <2>2. row.state # "admitted" BY <1>0, <2>1, WhoWorks
  <2>3. sweep'.saw # "awaiting_approval" \/ interp.at \in {"idle", "await"}
    BY <1>0, <2>1 DEF Control, Working
  <2>4. QED BY <1>0, <1>37, <2>1, <2>2, <2>3, OutsideKeeps DEF ExpireCollect, durable
<1>38. ASSUME ExpireAbort PROVE Control'
  <2>1. up = "up" /\ row.state # "admitted" /\ sweep.at = "abort" /\ sweep.saw # "none"
    BY <1>0, <1>38, WhoWorks DEF ExpireAbort, PlanType, SweepType
  <2>2. (sweep'.at = "idle" /\ sweep'.saw = "none") \/ sweep.saw = "awaiting_approval"
    BY <1>0, <1>38, <2>1 DEF ExpireAbort, NoSweep, PlanType, SweepType
  <2>3. sweep.saw # "awaiting_approval" \/ interp.at \in {"idle", "await"}
    BY <1>0 DEF Control, Working
  <2>4. QED BY <1>0, <1>38, <2>1, <2>2, <2>3, OutsideKeeps DEF ExpireAbort, durable
<1>39. ASSUME ExpireDrop PROVE Control'
  BY <1>0, <1>39, SweepKeeps, HeldChange, Named
  DEF ExpireDrop, DropBuffer, SweepType, PlanType, durable, volatile
<1>40. ASSUME ExpireTeardown PROVE Control'
  BY <1>0, <1>40, SweepKeeps, Settles, Named
  DEF ExpireTeardown, Teardown, SweepType, PlanType, durable, volatile
<1>41. ASSUME ExpireFinish PROVE Control'
  BY <1>0, <1>41, SweepKeeps, MemSet, RunEnds, Named
  DEF ExpireFinish, FinishRun, SweepType, PlanType, durable, volatile
<1>42. ASSUME Open PROVE Control'
  BY <1>0, <1>42, WhoWorks, Named
  DEF Open, ClockType, Control, Buffered, Untouched, Started, Working, Waiting, Alive, Starting,
      PlanType, durable, volatile
<1>43. ASSUME RecoverDrop PROVE Control'
  BY <1>0, <1>43, HeldChange, WhoWorks, Named
  DEF RecoverDrop, DropBuffer, ClockType, Control, Buffered, Untouched, Started, Working,
      Waiting, Alive, Starting, PlanType, durable, volatile
<1>44. ASSUME RecoverTeardown PROVE Control'
  BY <1>0, <1>44, Settles, WhoWorks, Named
  DEF RecoverTeardown, Teardown, ClockType, Control, Buffered, Untouched, Started, Working,
      Waiting, Alive, Starting, PlanType, durable, volatile
<1>45. ASSUME RecoverFinish PROVE Control'
  BY <1>0, <1>45, RunEnds, WhoWorks, Named
  DEF RecoverFinish, ClockType, Control, Buffered, Untouched, Started, Working, Waiting, Alive,
      Starting, PlanType, durable, volatile
<1>46. ASSUME Shutdown PROVE Control'
  BY <1>0, <1>46, WhoWorks, Named
  DEF Shutdown, Abort, ClockType, SignalType, AnyConsent, Control, Buffered, Untouched, Started,
      Working, Waiting, Alive, Starting, PlanType, durable, volatile
<1>47. ASSUME Exit PROVE Control'
  BY <1>0, <1>47, ClosedKeeps, Ends
  DEF Exit, ClockType, PlanType, durable, volatile
<1>48. ASSUME Crash PROVE Control'
  BY <1>0, <1>48, ClosedKeeps, Ends
  DEF Crash, ClockType, PlanType, durable, volatile
<1>49. ASSUME Tick PROVE Control'
  BY <1>0, <1>49, WhoWorks, Named
  DEF Tick, ClockType, Control, Buffered, Untouched, Started, Working, Waiting, Alive, Starting,
      PlanType, durable, volatile
<1>50. ASSUME UNCHANGED vars PROVE Control'
  BY <1>0, <1>50 DEF vars, durable, volatile, Control, Buffered, Untouched, Started, Working,
                     Waiting, Alive
<1>51. QED
  BY <1>1, <1>2, <1>3, <1>4, <1>5, <1>6, <1>7, <1>8, <1>9, <1>10, <1>11, <1>12, <1>13, <1>14,
     <1>15, <1>16, <1>17, <1>18, <1>19, <1>20, <1>21, <1>22, <1>23, <1>24, <1>25, <1>26, <1>27,
     <1>28, <1>29, <1>30, <1>31, <1>32, <1>33, <1>34, <1>35, <1>36, <1>37, <1>38, <1>39, <1>40,
     <1>41, <1>42, <1>43, <1>44, <1>45, <1>46, <1>47, <1>48, <1>49, <1>50
  DEF Next, Asked, CallStep, InterpStep, SweepStep, OpenStep

(* A run that was just submitted. *)
LEMMA Submitted ==
  ASSUME Init
  PROVE  PlanType /\ Control
<1>1. RowType
  BY Named DEF Init, RowType, AnyConsent
<1>2. BufferType /\ buffer = <<>> /\ Len(buffer) = 0 /\ DOMAIN buffer = {} BY DEF Init, BufferType
<1>3. CreditType BY DEF Init, CreditType
<1>4. LogType BY FS_EmptySet DEF Init, LogType
<1>5. EffectType BY DEF Init, EffectType
<1>6. ClockType BY DEF Init, ClockType
<1>7. MemType BY NoneTyped, Named DEF Init, MemType
<1>8. SignalType BY NoneTyped DEF Init, SignalType, NoSignal, AnyConsent
<1>9. InterpType BY NoneTyped, Given DEF Init, InterpType, NoInterp, InterpPlace, Outcome
<1>10. NoCall.at = "idle" /\ NoInterp.at = "idle" /\ NoHandle.state = "none"
  BY DEF NoCall, NoInterp, NoHandle
<1>11. CallType /\ \A t \in Caller : call[t] = NoCall
  BY <1>10, NoneTyped DEF Init, CallType, Midway
<1>12. SweepType BY NoneTyped DEF Init, SweepType
<1>13. PlanType
  BY <1>1, <1>2, <1>3, <1>4, <1>5, <1>6, <1>7, <1>8, <1>9, <1>11, <1>12 DEF PlanType
<1>14. Buffered BY <1>2, <1>10, Given DEF Init, Buffered
<1>15. Untouched BY <1>2, <1>10, <1>11 DEF Init, Untouched, Starting
<1>16. Started /\ Working /\ Waiting BY <1>10 DEF Init, Started, Working, Waiting
<1>17. Alive BY <1>11 DEF Init, Alive
<1>18. QED BY <1>13, <1>14, <1>15, <1>16, <1>17 DEF Control

(* Who is where, in every reachable state. *)
THEOREM Controlled == Spec => [](PlanType /\ Control)
<1>1. Init => PlanType /\ Control BY Submitted
<1>2. PlanType /\ Control /\ [Next]_vars => (PlanType /\ Control)' BY TypeStep, ControlStep
<1>3. QED BY <1>1, <1>2, PTL DEF Spec

(* From the step that drops the buffer on nothing is held, and from the    *)
(* one that settles the segment on it is not open.                         *)
NothingHeld ==
  /\ NothingHeldAtEnd
  /\ interp.at \in {"teardown", "finish"} => HeldItems = {}
  /\ interp.at = "finish" => segment # "open"
  /\ sweep.at \in {"teardown", "finish"} => HeldItems = {}
  /\ sweep.at = "finish" => segment # "open"
  /\ \A t \in Caller : call[t].at \in Dropped \cup Kept => HeldItems = {}
  /\ \A t \in Caller : call[t].at \in {"approve_fail", "approve_finish"} => segment # "open"
  /\ up \in {"recovering", "recovered"} => HeldItems = {}
  /\ up = "recovered" => segment # "open"

EndSet == Dropped \cup Kept

(* The places where nothing is held, and a buffer that stays.              *)
LEMMA SameHeld ==
  /\ EndSet = {"approve_teardown", "approve_fail", "approve_keep", "approve_finish"}
  /\ buffer' = buffer => HeldItems' = HeldItems
  /\ NoCall.at = "idle" /\ NoSweep.at = "idle" /\ NoInterp.at = "idle"
BY DEF EndSet, Dropped, Kept, HeldItems, NoCall, NoSweep, NoInterp

(* What was dropped or settled stays so, and whoever comes to a place that *)
(* needs it has just seen to it.                                           *)
LEMMA HeldKeeps ==
  ASSUME NothingHeld,
         HeldItems = {} => HeldItems' = {}, segment # "open" => segment' # "open",
         row'.outcome \in {"none", row.outcome} \/ (HeldItems' = {} /\ segment' # "open"),
         interp'.at \in {"teardown", "finish"} =>
           HeldItems' = {} \/ interp.at \in {"teardown", "finish"},
         interp'.at = "finish" => segment' # "open" \/ interp.at = "finish",
         sweep'.at \in {"teardown", "finish"} =>
           HeldItems' = {} \/ sweep.at \in {"teardown", "finish"},
         sweep'.at = "finish" => segment' # "open" \/ sweep.at = "finish",
         \A t \in Caller : call'[t].at \in EndSet => HeldItems' = {} \/ call[t].at \in EndSet,
         \A t \in Caller : call'[t].at \in {"approve_fail", "approve_finish"} =>
           segment' # "open" \/ call[t].at = call'[t].at,
         up' \in {"recovering", "recovered"} =>
           HeldItems' = {} \/ up \in {"recovering", "recovered"},
         up' = "recovered" => segment' # "open" \/ up = "recovered"
  PROVE  NothingHeld'
BY DEF NothingHeld, NothingHeldAtEnd, EndSet

(* Every step keeps it that a run that is over holds nothing.              *)
LEMMA HeldStep ==
  ASSUME PlanType, Control, NothingHeld, [Next]_vars
  PROVE  NothingHeld'
<1>0. PlanType /\ Control /\ NothingHeld OBVIOUS
<1>1. ASSUME NEW t \in Caller, NEW c \in Consent, StartBegin(t, c) PROVE NothingHeld'
  BY <1>0, <1>1, HeldKeeps, SameHeld, CallBegins, Named
  DEF StartBegin, Midway, EndSet, PlanType, durable, volatile
<1>2. ASSUME NEW t \in Caller, NEW c \in Consent, ResumeBegin(t, c) PROVE NothingHeld'
  BY <1>0, <1>2, HeldKeeps, SameHeld, CallBegins, Named
  DEF ResumeBegin, Midway, EndSet, PlanType, durable, volatile
<1>3. ASSUME NEW t \in Caller, NEW c \in Consent, ApproveBegin(t, c) PROVE NothingHeld'
  BY <1>0, <1>3, HeldKeeps, SameHeld, CallBegins, Named
  DEF ApproveBegin, Midway, EndSet, PlanType, durable, volatile
<1>4. ASSUME NEW t \in Caller, StartConsume(t) PROVE NothingHeld'
  BY <1>0, <1>4, HeldKeeps, SameHeld, CallGoes, Asking, Named
  DEF StartConsume, CallAt, Midway, EndSet, PlanType, durable, volatile
<1>5. ASSUME NEW t \in Caller, StartMint(t) PROVE NothingHeld'
  BY <1>0, <1>5, HeldKeeps, SameHeld, Mints, CallGoes, Asking, Named
  DEF StartMint, CallAt, Midway, EndSet, PlanType, durable, volatile
<1>6. ASSUME NEW t \in Caller, StartSpawn(t) PROVE NothingHeld'
  BY <1>0, <1>6, HeldKeeps, SameHeld, Spawns, CallGoes, Asking, Named
  DEF StartSpawn, CallAt, Midway, EndSet, PlanType, durable, volatile
<1>7. ASSUME NEW t \in Caller, ResumeSignal(t) PROVE NothingHeld'
  BY <1>0, <1>7, HeldKeeps, SameHeld, CallGoes, Asking, Named
  DEF ResumeSignal, Signalled, CallAt, Midway, EndSet, PlanType, durable, volatile
<1>8. ASSUME NEW t \in Caller, ApproveConsume(t) PROVE NothingHeld'
  BY <1>0, <1>8, HeldKeeps, SameHeld, CallGoes, Asking, Named
  DEF ApproveConsume, CallAt, Midway, EndSet, PlanType, durable, volatile
<1>9. ASSUME NEW t \in Caller, ApproveLoad(t) PROVE NothingHeld'
  <2>1. call'[t].at \in {"idle", "approve_mint"} /\ \A s \in Caller \ {t} : call'[s] = call[s]
    BY <1>0, <1>9, Loads, Named DEF ApproveLoad, CallAt, Midway, PlanType, NoCall
  <2>2. /\ UNCHANGED <<row, segment, interp, sweep, up>> /\ HeldItems' = HeldItems
    BY <1>9, SameHeld DEF ApproveLoad, durable, volatile
  <2>3. QED BY <1>0, <2>1, <2>2, HeldKeeps DEF EndSet, Dropped, Kept
<1>10. ASSUME NEW t \in Caller, ApproveMint(t) PROVE NothingHeld'
  <2>1. call'[t].at = "approve_count" /\ \A s \in Caller \ {t} : call'[s] = call[s]
    BY <1>0, <1>10, CallGoes, Named DEF ApproveMint, CallAt, Midway, PlanType
  <2>2. /\ UNCHANGED <<row, segment, interp, sweep, up>> /\ HeldItems' = HeldItems
    BY <1>10, SameHeld DEF ApproveMint
  <2>3. QED BY <1>0, <2>1, <2>2, HeldKeeps DEF EndSet, Dropped, Kept
<1>11. ASSUME NEW t \in Caller, ApproveCount(t) PROVE NothingHeld'
  <2>1. call'[t].at \in {"release"} /\ \A s \in Caller \ {t} : call'[s] = call[s]
    BY <1>0, <1>11, Counts, Named DEF ApproveCount, CallAt, Midway, PlanType
  <2>2. /\ UNCHANGED <<row, segment, interp, sweep, up>> /\ HeldItems' = HeldItems
    BY <1>11, SameHeld DEF ApproveCount, durable, volatile
  <2>3. QED BY <1>0, <2>1, <2>2, HeldKeeps DEF EndSet, Dropped, Kept
<1>12. ASSUME NEW t \in Caller, Release(t) PROVE NothingHeld'
  <2>1. call'[t].at \in {"release_log"} /\ \A s \in Caller \ {t} : call'[s] = call[s]
    BY <1>0, <1>12, CallGoes, Named DEF Release, CallAt, Midway, PlanType
  <2>2. /\ UNCHANGED <<row, segment, interp, sweep, up>> /\ HeldItems' = HeldItems
    BY <1>12, SameHeld DEF Release, durable, volatile
  <2>3. QED BY <1>0, <2>1, <2>2, HeldKeeps DEF EndSet, Dropped, Kept
<1>13. ASSUME NEW t \in Caller, ReleaseLog(t) PROVE NothingHeld'
  <2>1. call'[t].at \in {"idle", "release_mark"} /\ \A s \in Caller \ {t} : call'[s] = call[s]
    BY <1>0, <1>13, Logs, Named DEF ReleaseLog, CallAt, Midway, PlanType, NoCall
  <2>2. /\ UNCHANGED <<row, segment, interp, sweep, up>> /\ HeldItems' = HeldItems
    BY <1>13, SameHeld DEF ReleaseLog, durable, volatile
  <2>3. QED BY <1>0, <2>1, <2>2, HeldKeeps DEF EndSet, Dropped, Kept
<1>14. ASSUME NEW t \in Caller, ReleaseMark(t) PROVE NothingHeld'
  <2>1. HeldItems' \subseteq HeldItems BY <1>0, <1>14, Marks DEF PlanType, HeldItems
  <2>2. HeldItems = {} => HeldItems' = {} BY <2>1
  <2>3. call'[t].at = "release" /\ \A s \in Caller \ {t} : call'[s] = call[s]
    BY <1>0, <1>14, Marks DEF PlanType
  <2>4. UNCHANGED <<row, segment, interp, sweep, up>> BY <1>14 DEF ReleaseMark
  <2>5. QED BY <1>0, <2>2, <2>3, <2>4, HeldKeeps, SameHeld
<1>15. ASSUME NEW t \in Caller, ReleaseFails(t) PROVE NothingHeld'
  BY <1>0, <1>15, HeldKeeps, SameHeld, Spends, CallGoes, Asking, Named
  DEF ReleaseFails, CallFails, CallAt, Midway, ClockType, EndSet, PlanType, durable, volatile
<1>16. ASSUME NEW t \in Caller, ApproveDrop(t) PROVE NothingHeld'
  BY <1>0, <1>16, HeldKeeps, SameHeld, HeldChange, CallGoes, Asking, Named
  DEF ApproveDrop, DropBuffer, CallAt, Midway, EndSet, PlanType, durable, volatile
<1>17. ASSUME NEW t \in Caller, ApproveTeardown(t) PROVE NothingHeld'
  BY <1>0, <1>17, HeldKeeps, SameHeld, Settles, CallGoes, Asking, Named
  DEF ApproveTeardown, Teardown, CallAt, Midway, EndSet, PlanType, durable, volatile
<1>18. ASSUME NEW t \in Caller, ApproveCommit(t) PROVE NothingHeld'
  BY <1>0, <1>18, HeldKeeps, SameHeld, HeldChange, CallGoes, Asking, Named
  DEF ApproveCommit, CallAt, Midway, EndSet, PlanType, durable, volatile
<1>19. ASSUME NEW t \in Caller, ApproveKeep(t) PROVE NothingHeld'
  BY <1>0, <1>19, HeldKeeps, SameHeld, Settles, CallGoes, Asking, Named
  DEF ApproveKeep, CallAt, Midway, EndSet, PlanType, durable, volatile
<1>20. ASSUME NEW t \in Caller, ApproveFinish(t) PROVE NothingHeld'
  <2>1. /\ call[t].at \in {"approve_fail", "approve_finish"} /\ call'[t] = NoCall
        /\ \A s \in Caller \ {t} : call'[s] = call[s]
    BY <1>0, <1>20, CallGoes, Named DEF ApproveFinish, CallAt, Midway, PlanType
  <2>2. HeldItems = {} /\ segment # "open"
    BY <1>0, <2>1 DEF NothingHeld, Dropped, Kept
  <2>3. QED BY <1>0, <1>20, <2>1, <2>2, HeldKeeps, SameHeld DEF ApproveFinish
<1>21. ASSUME OverBound PROVE NothingHeld'
  BY <1>0, <1>21, HeldKeeps, SameHeld, Bounds, Named
  DEF OverBound, At, EndSet, PlanType, durable, volatile
<1>22. ASSUME Withhold PROVE NothingHeld'
  <2>1. interp.at = "run" /\ interp'.at = "run" BY <1>0, <1>22, Withholds DEF PlanType
  <2>2. /\ row.outcome = "none" /\ sweep.at \in {"idle", "abort"} /\ up \in {"up", "stopping"}
        /\ \A t \in Caller : call[t].at \in {"idle", "resume_signal"}
    BY <1>0, <2>1, WhoWorks DEF Control, Working
  <2>3. QED
    BY <1>22, <2>1, <2>2 DEF Withhold, NothingHeld, NothingHeldAtEnd, Dropped, Kept
<1>23. ASSUME Emit PROVE NothingHeld'
  BY <1>0, <1>23, HeldKeeps, SameHeld, Spends, InterpGoes, Named
  DEF Emit, Statement, At, EffectType, EndSet, PlanType, durable, volatile
<1>24. ASSUME LogEmit PROVE NothingHeld'
  BY <1>0, <1>24, HeldKeeps, SameHeld, LogsEmit, Named
  DEF LogEmit, At, EndSet, PlanType, durable, volatile
<1>25. ASSUME Exhausted PROVE NothingHeld'
  BY <1>0, <1>25, HeldKeeps, SameHeld, InterpGoes, InterpFails, Named
  DEF Exhausted, Statement, At, EndSet, PlanType, durable, volatile
<1>26. ASSUME EmitFails PROVE NothingHeld'
  BY <1>0, <1>26, HeldKeeps, SameHeld, Spends, InterpFails, Named
  DEF EmitFails, Statement, At, ClockType, EndSet, PlanType, durable, volatile
<1>27. ASSUME Stop PROVE NothingHeld'
  BY <1>0, <1>27, HeldKeeps, SameHeld, InterpFails, Named
  DEF Stop, At, EndSet, PlanType, durable, volatile
<1>28. ASSUME Park PROVE NothingHeld'
  BY <1>0, <1>28, HeldKeeps, SameHeld, MemSet, InterpGoes, Named
  DEF Park, At, EndSet, PlanType, durable, volatile
<1>29. ASSUME Wake PROVE NothingHeld'
  BY <1>0, <1>29, HeldKeeps, SameHeld, Mints, InterpGoes, InterpFails, Named
  DEF Wake, At, NoSignal, EndSet, PlanType, durable, volatile
<1>30. ASSUME Unpark PROVE NothingHeld'
  BY <1>0, <1>30, HeldKeeps, SameHeld, MemSet, InterpGoes, Named
  DEF Unpark, At, EndSet, PlanType, durable, volatile
<1>31. ASSUME CommitRun PROVE NothingHeld'
  <2>1. /\ interp.at = "run" /\ interp.withheld = 0 /\ interp'.at = "finish"
        /\ segment' # "open"
    BY <1>0, <1>31, Settles, Commits DEF CommitRun, PlanType
  <2>2. HeldItems = {} BY <1>0, <2>1 DEF Control, Buffered, HeldItems, PlanType, BufferType
  <2>3. QED BY <1>0, <1>31, <2>1, <2>2, HeldKeeps, SameHeld DEF CommitRun
<1>32. ASSUME AwaitHandle PROVE NothingHeld'
  BY <1>0, <1>32, HeldKeeps, SameHeld, MemSet, InterpGoes, Named
  DEF AwaitHandle, AtEnd, At, EndSet, PlanType, durable, volatile
<1>33. ASSUME AwaitRow PROVE NothingHeld'
  BY <1>0, <1>33, HeldKeeps, SameHeld, Rests, Named
  DEF AwaitRow, At, EndSet, PlanType, durable, volatile
<1>34. ASSUME DropRun PROVE NothingHeld'
  BY <1>0, <1>34, HeldKeeps, SameHeld, HeldChange, InterpGoes, Named
  DEF DropRun, DropBuffer, At, EndSet, PlanType, durable, volatile
<1>35. ASSUME TeardownRun PROVE NothingHeld'
  BY <1>0, <1>35, HeldKeeps, SameHeld, Settles, InterpGoes, Named
  DEF TeardownRun, Teardown, At, EndSet, PlanType, durable, volatile
<1>36. ASSUME Finish PROVE NothingHeld'
  <2>1. interp.at = "finish" /\ interp'.at = "idle" BY <1>36, SameHeld DEF Finish, At
  <2>2. HeldItems = {} /\ segment # "open" BY <1>0, <2>1 DEF NothingHeld
  <2>3. QED BY <1>0, <1>36, <2>1, <2>2, HeldKeeps, SameHeld DEF Finish
<1>37. ASSUME ExpireCollect PROVE NothingHeld'
  BY <1>0, <1>37, HeldKeeps, SameHeld, Named
  DEF ExpireCollect, Suspended, EndSet, PlanType, durable, volatile
<1>38. ASSUME ExpireAbort PROVE NothingHeld'
  <2>1. sweep'.at \in {"idle", "drop"}
    BY <1>0, <1>38, SameHeld DEF ExpireAbort, PlanType, SweepType
  <2>2. QED BY <1>0, <1>38, <2>1, HeldKeeps, SameHeld DEF ExpireAbort, durable
<1>39. ASSUME ExpireDrop PROVE NothingHeld'
  BY <1>0, <1>39, HeldKeeps, SameHeld, HeldChange, Named
  DEF ExpireDrop, DropBuffer, EndSet, PlanType, durable, volatile
<1>40. ASSUME ExpireTeardown PROVE NothingHeld'
  BY <1>0, <1>40, HeldKeeps, SameHeld, Settles, Named
  DEF ExpireTeardown, Teardown, EndSet, PlanType, durable, volatile
<1>41. ASSUME ExpireFinish PROVE NothingHeld'
  <2>1. sweep.at = "finish" /\ sweep'.at = "idle" BY <1>41, SameHeld DEF ExpireFinish
  <2>2. HeldItems = {} /\ segment # "open" BY <1>0, <2>1 DEF NothingHeld
  <2>3. QED BY <1>0, <1>41, <2>1, <2>2, HeldKeeps, SameHeld DEF ExpireFinish
<1>42. ASSUME Open PROVE NothingHeld'
  BY <1>0, <1>42, HeldKeeps, SameHeld, Named
  DEF Open, ClockType, EndSet, PlanType, durable, volatile
<1>43. ASSUME RecoverDrop PROVE NothingHeld'
  BY <1>0, <1>43, HeldKeeps, SameHeld, HeldChange, Named
  DEF RecoverDrop, DropBuffer, ClockType, EndSet, PlanType, durable, volatile
<1>44. ASSUME RecoverTeardown PROVE NothingHeld'
  BY <1>0, <1>44, HeldKeeps, SameHeld, Settles, Named
  DEF RecoverTeardown, Teardown, ClockType, EndSet, PlanType, durable, volatile
<1>45. ASSUME RecoverFinish PROVE NothingHeld'
  <2>1. HeldItems = {} /\ segment # "open" BY <1>0, <1>45 DEF RecoverFinish, NothingHeld
  <2>2. QED BY <1>0, <1>45, <2>1, HeldKeeps, SameHeld DEF RecoverFinish, volatile
<1>46. ASSUME Shutdown PROVE NothingHeld'
  BY <1>0, <1>46, HeldKeeps, SameHeld, Named
  DEF Shutdown, Abort, ClockType, EndSet, PlanType, durable, volatile
<1>47. ASSUME Exit PROVE NothingHeld'
  <2>1. /\ interp'.at = "idle" /\ sweep'.at = "idle" /\ up' = "down"
        /\ \A t \in Caller : call'[t].at = "idle"
    BY <1>47, Ends, SameHeld DEF Exit
  <2>2. QED BY <1>0, <1>47, <2>1, HeldKeeps, SameHeld DEF Exit, durable
<1>48. ASSUME Crash PROVE NothingHeld'
  <2>1. /\ interp'.at = "idle" /\ sweep'.at = "idle" /\ up' = "down"
        /\ \A t \in Caller : call'[t].at = "idle"
    BY <1>48, Ends, SameHeld DEF Crash
  <2>2. QED BY <1>0, <1>48, <2>1, HeldKeeps, SameHeld DEF Crash, durable
<1>49. ASSUME Tick PROVE NothingHeld'
  BY <1>0, <1>49, HeldKeeps, SameHeld, Named
  DEF Tick, ClockType, EndSet, PlanType, durable, volatile
<1>50. ASSUME UNCHANGED vars PROVE NothingHeld'
  BY <1>0, <1>50, HeldKeeps, SameHeld DEF vars, durable, volatile
<1>51. QED
  BY <1>1, <1>2, <1>3, <1>4, <1>5, <1>6, <1>7, <1>8, <1>9, <1>10, <1>11, <1>12, <1>13, <1>14,
      <1>15, <1>16, <1>17, <1>18, <1>19, <1>20, <1>21, <1>22, <1>23, <1>24, <1>25, <1>26, <1>27,
      <1>28, <1>29, <1>30, <1>31, <1>32, <1>33, <1>34, <1>35, <1>36, <1>37, <1>38, <1>39, <1>40,
      <1>41, <1>42, <1>43, <1>44, <1>45, <1>46, <1>47, <1>48, <1>49, <1>50
  DEF Next, Asked, CallStep, InterpStep, SweepStep, OpenStep

(* NothingHeldAtEnd, of every run: no end leaves a withheld effect to be   *)
(* approved or a segment that still has its holdings.                      *)
THEOREM NothingHeldSafe == Spec => []NothingHeldAtEnd
<1>1. Init => NothingHeld
  <2> SUFFICES ASSUME Init PROVE NothingHeld
    OBVIOUS
  <2>1. \A t \in Caller : call[t].at = "idle" BY DEF Init, NoCall
  <2>2. QED
    BY <2>1, SameHeld DEF Init, NothingHeld, NothingHeldAtEnd, Dropped, Kept
<1>2. PlanType /\ Control /\ NothingHeld /\ [Next]_vars => NothingHeld' BY HeldStep
<1>3. NothingHeld => NothingHeldAtEnd BY DEF NothingHeld
<1>4. QED BY <1>1, <1>2, <1>3, Controlled, PTL DEF Spec

(* AbortStands, of every step: a resume that comes late is dropped, and a  *)
(* second abort is the same one.                                           *)
LEMMA AbortStep ==
  ASSUME PlanType, Next, signal.kind = "abort", signal' # signal
  PROVE  interp'.at = "drop" \/ up' = "down"
<1>1. signal = [kind |-> "abort", consent |-> NoConsent]
  BY DEF PlanType, SignalType, AnyConsent
<1>2. ~ Abort BY <1>1 DEF Abort
<1>3. ASSUME NEW t \in Caller PROVE ~ (Asked(t) \/ CallStep(t))
  <2>1. ~ Asked(t) BY DEF Asked, StartBegin, ResumeBegin, ApproveBegin, durable
  <2>2. ~ ResumeSignal(t) BY DEF ResumeSignal, Signalled
  <2>3. ~ (StartConsume(t) \/ StartMint(t) \/ StartSpawn(t))
    BY DEF StartConsume, StartMint, StartSpawn
  <2>4. ~ (ApproveConsume(t) \/ ApproveLoad(t) \/ ApproveMint(t) \/ ApproveCount(t))
    BY DEF ApproveConsume, ApproveLoad, ApproveMint, ApproveCount
  <2>5. ~ (Release(t) \/ ReleaseLog(t) \/ ReleaseMark(t) \/ ReleaseFails(t))
    BY DEF Release, ReleaseLog, ReleaseMark, ReleaseFails
  <2>6. ~ (ApproveDrop(t) \/ ApproveTeardown(t) \/ ApproveCommit(t) \/ ApproveKeep(t)
           \/ ApproveFinish(t))
    BY DEF ApproveDrop, ApproveTeardown, ApproveCommit, ApproveKeep, ApproveFinish
  <2>7. QED BY <2>1, <2>2, <2>3, <2>4, <2>5, <2>6 DEF CallStep
<1>4. ASSUME InterpStep PROVE interp'.at = "drop"
  <2>1. ~ (OverBound \/ Withhold \/ Emit \/ LogEmit \/ Exhausted \/ EmitFails \/ Stop)
    BY DEF OverBound, Withhold, Emit, LogEmit, Exhausted, EmitFails, Stop
  <2>2. ~ (Park \/ Unpark \/ CommitRun \/ AwaitHandle \/ AwaitRow)
    BY DEF Park, Unpark, CommitRun, AwaitHandle, AwaitRow
  <2>3. ~ (DropRun \/ TeardownRun \/ Finish) BY DEF DropRun, TeardownRun, Finish
  <2>4. Wake BY <1>4, <2>1, <2>2, <2>3 DEF InterpStep
  <2>5. Fails("aborted") BY <2>4 DEF Wake
  <2>6. QED BY <2>5, InterpFails, Named DEF PlanType
<1>5. ~ SweepStep
  BY <1>2 DEF SweepStep, ExpireCollect, ExpireAbort, ExpireDrop, ExpireTeardown, ExpireFinish
<1>6. ~ (OpenStep \/ Tick)
  BY DEF OpenStep, Open, RecoverDrop, RecoverTeardown, RecoverFinish, Tick, volatile
<1>7. ~ Shutdown BY <1>2 DEF Shutdown
<1>8. Exit \/ Crash => up' = "down" BY DEF Exit, Crash
<1>9. QED BY <1>3, <1>4, <1>5, <1>6, <1>7, <1>8 DEF Next

(* AbortStands: a recorded abort is taken by the run, or its process ends. *)
THEOREM AbortStandsSafe == Spec => AbortStands
<1>1. PlanType /\ [Next]_vars =>
        [signal.kind = "abort" /\ signal' # signal => interp'.at = "drop" \/ up' = "down"]_vars
  BY AbortStep
<1>2. QED BY <1>1, Controlled, PTL DEF Spec, AbortStands

(* What is marked went out, and before a held effect all are held or out.  *)
MarkedIsOut == \A k \in DOMAIN buffer : buffer[k] = "inserted" => released[k] > 0
HeldComeLast ==
  \A j, k \in DOMAIN buffer : j < k /\ buffer[k] = "held" => buffer[j] # "aborted"
OutIsBuffered == \A k \in Item : released[k] > 0 => k \in DOMAIN buffer

(* The rest b of a batch is in order, everything before one of its effects *)
(* is out or in it, and so is everything that is still held.               *)
InBatch(b, k) == \E i \in DOMAIN b : b[i] = k
Fits(b, rows, out) ==
  /\ \A i \in DOMAIN b : b[i] \in DOMAIN rows
  /\ \A i, j \in DOMAIN b : i < j => b[i] < b[j]
  /\ \A k \in DOMAIN rows : rows[k] = "held" => out[k] > 0 \/ InBatch(b, k)
  /\ \A j, k \in Item : j < k /\ InBatch(b, k) => out[j] > 0 \/ InBatch(b, j)
BatchInOrder ==
  \A t \in Caller : call[t].at \in Releasing =>
    /\ Fits(call[t].batch, buffer, released)
    /\ call[t].at \in Midway => released[Head(call[t].batch)] > 0

InOrder == ReleasedInOrder /\ MarkedIsOut /\ HeldComeLast /\ BatchInOrder /\ OutIsBuffered

(* It stays so when effects go out and nothing new is held.                *)
LEMMA FitsLater ==
  ASSUME NEW b, NEW rows, NEW out, NEW rows2, NEW out2, Fits(b, rows, out),
         DOMAIN rows \subseteq Item, DOMAIN rows2 = DOMAIN rows,
         \A k \in DOMAIN rows : rows2[k] = "held" => rows[k] = "held",
         \A k \in Item : out[k] > 0 => out2[k] > 0
  PROVE  Fits(b, rows2, out2)
BY DEF Fits

(* It stays so of the tail when the head went out.                         *)
LEMMA FitsTail ==
  ASSUME NEW b \in Seq(Nat), b # <<>>, NEW rows, NEW out, NEW rows2, Fits(b, rows, out),
         out[Head(b)] > 0, DOMAIN rows2 = DOMAIN rows,
         \A k \in DOMAIN rows : rows2[k] = "held" => rows[k] = "held"
  PROVE  Fits(Tail(b), rows2, out)
<1> DEFINE d == Tail(b)
<1>1. /\ d \in Seq(Nat) /\ Len(b) \in Nat \ {0} /\ Len(d) = Len(b) - 1
      /\ DOMAIN b = 1 .. Len(b) /\ DOMAIN d = 1 .. Len(b) - 1
      /\ \A i \in 1 .. Len(b) - 1 : d[i] = b[i + 1]
      /\ Head(b) = b[1]
  BY SMTT(30)
<1> HIDE DEF d
<1>0. \A i \in DOMAIN d : i \in Int /\ i + 1 \in DOMAIN b /\ d[i] = b[i + 1] BY <1>1
<1>2. \A k : InBatch(d, k) => InBatch(b, k) BY <1>0 DEF InBatch
<1>3. \A k : InBatch(b, k) => k = Head(b) \/ InBatch(d, k)
  <2>1. SUFFICES ASSUME NEW k, NEW i \in DOMAIN b, b[i] = k, i # 1 PROVE InBatch(d, k)
    BY <1>1 DEF InBatch
  <2>2. i - 1 \in DOMAIN d /\ d[i - 1] = k BY <1>1, <2>1
  <2>3. QED BY <2>2 DEF InBatch
<1>4. \A i \in DOMAIN d : d[i] \in DOMAIN rows2 BY <1>0 DEF Fits
<1>5. ASSUME NEW i \in DOMAIN d, NEW j \in DOMAIN d, i < j PROVE d[i] < d[j]
  <2> DEFINE i1 == i + 1
             j1 == j + 1
  <2>1. i1 \in DOMAIN b /\ j1 \in DOMAIN b /\ i1 < j1 /\ d[i] = b[i1] /\ d[j] = b[j1]
    BY <1>0, <1>5
  <2> HIDE DEF i1, j1
  <2>2. QED BY <2>1 DEF Fits
<1>6. \A k \in DOMAIN rows2 : rows2[k] = "held" => out[k] > 0 \/ InBatch(d, k)
  BY <1>3 DEF Fits
<1>7. \A j, k \in Item : j < k /\ InBatch(d, k) => out[j] > 0 \/ InBatch(d, j)
  BY <1>2, <1>3 DEF Fits
<1>8. QED BY <1>4, <1>5, <1>6, <1>7 DEF Fits, d

(* Whatever is in a batch comes after its head.                            *)
LEMMA HeadIsFirst ==
  ASSUME NEW b \in Seq(Nat), b # <<>>, NEW rows, NEW out, Fits(b, rows, out)
  PROVE  /\ Head(b) \in Nat /\ InBatch(b, Head(b)) /\ Head(b) \in DOMAIN rows
         /\ \A k : InBatch(b, k) => k \in Nat /\ Head(b) <= k
<1>1. /\ Len(b) \in Nat \ {0} /\ DOMAIN b = 1 .. Len(b) /\ Head(b) = b[1] /\ 1 \in DOMAIN b
      /\ \A i \in DOMAIN b : b[i] \in Nat
  OBVIOUS
<1>2. \A i \in DOMAIN b : b[1] <= b[i] BY <1>1 DEF Fits
<1>3. QED BY <1>1, <1>2 DEF InBatch, Fits

(* The rows are of effects of the plan. *)
LEMMA RowsOfPlan ==
  ASSUME PlanType, Control
  PROVE  /\ Len(buffer) \in Nat /\ DOMAIN buffer = 1 .. Len(buffer) /\ DOMAIN buffer \subseteq Item
         /\ \A k \in DOMAIN buffer : buffer[k] \in ItemState
         /\ \A k \in Item : released[k] \in Nat
BY Given DEF PlanType, BufferType, EffectType, Control, Buffered, Item

(* A batch that was just loaded. *)
LEMMA LoadedFits ==
  ASSUME PlanType, Control, InOrder
  PROVE  Fits(Batch, buffer, released)
<1>1. /\ \A i \in DOMAIN Batch : Batch[i] \in HeldItems
      /\ \A i, j \in DOMAIN Batch : i < j => Batch[i] < Batch[j]
      /\ \A k \in HeldItems : \E i \in DOMAIN Batch : Batch[i] = k
  BY BatchIsHeldItems DEF PlanType
<1> HIDE DEF Batch
<1>2. \A k : InBatch(Batch, k) <=> k \in HeldItems BY <1>1 DEF InBatch
<1>3. \A k \in DOMAIN buffer : buffer[k] = "held" <=> k \in HeldItems BY DEF HeldItems
<1>4. ASSUME NEW j \in Item, NEW k \in Item, j < k, k \in HeldItems
      PROVE  released[j] > 0 \/ j \in HeldItems
  <2>1. k \in DOMAIN buffer /\ buffer[k] = "held" BY <1>4 DEF HeldItems
  <2>2. j \in DOMAIN buffer BY <1>4, <2>1, RowsOfPlan, Given DEF Item
  <2>3. buffer[j] \in {"held", "inserted"}
    BY <1>4, <2>1, <2>2, RowsOfPlan, Named DEF InOrder, HeldComeLast
  <2>4. QED BY <2>2, <2>3 DEF InOrder, MarkedIsOut, HeldItems
<1>5. HeldItems \subseteq DOMAIN buffer BY DEF HeldItems
<1>6. QED BY <1>1, <1>2, <1>3, <1>4, <1>5 DEF Fits

(* A step with which nothing goes out. *)
LEMMA OrderKeeps ==
  ASSUME PlanType, Control, InOrder, released' = released,
         DOMAIN buffer' = DOMAIN buffer,
         \A k \in DOMAIN buffer : buffer'[k] = "held" => buffer[k] = "held",
         \A k \in DOMAIN buffer :
           buffer'[k] = "inserted" => buffer[k] = "inserted" \/ released[k] > 0,
         \/ \A k \in DOMAIN buffer : buffer'[k] = "aborted" => buffer[k] = "aborted"
         \/ HeldItems' = {},
         \A t \in Caller : call'[t].at \in Releasing =>
           /\ call[t].at \in Releasing /\ call'[t].batch = call[t].batch
           /\ call'[t].at \in Midway => call[t].at \in Midway
  PROVE  InOrder'
<1>1. ReleasedInOrder' BY DEF InOrder, ReleasedInOrder, Item
<1>2. MarkedIsOut' BY DEF InOrder, MarkedIsOut
<1>3. HeldComeLast' BY DEF InOrder, HeldComeLast, HeldItems
<1>4. OutIsBuffered' BY DEF InOrder, OutIsBuffered
<1>5. BatchInOrder'
  <2>1. SUFFICES ASSUME NEW t \in Caller, call'[t].at \in Releasing
                 PROVE  /\ Fits(call'[t].batch, buffer', released')
                        /\ call'[t].at \in Midway => released'[Head(call'[t].batch)] > 0
    BY DEF BatchInOrder
  <2>2. Fits(call[t].batch, buffer, released) BY <2>1 DEF InOrder, BatchInOrder
  <2>3. Fits(call[t].batch, buffer', released')
    BY <2>2, RowsOfPlan, FitsLater
  <2>4. QED BY <2>1, <2>3 DEF InOrder, BatchInOrder
<1>6. QED BY <1>1, <1>2, <1>3, <1>4, <1>5 DEF InOrder

(* An effect goes out. *)
LEMMA ReleaseInOrder ==
  ASSUME PlanType, Control, InOrder, NEW t \in Caller, Release(t)
  PROVE  InOrder'
<1> DEFINE b == call[t].batch
           h == Head(b)
<1>1. /\ call[t].at = "release" /\ b \in Seq(Nat) /\ b # <<>>
  BY Asking DEF Release, CallAt, PlanType
<1>2. Fits(b, buffer, released) BY <1>1 DEF InOrder, BatchInOrder, Releasing
<1>3. /\ call'[t].at = "release_log" /\ call'[t].batch = b
      /\ \A s \in Caller \ {t} : call'[s] = call[s]
  BY <1>1, CallGoes, Named DEF Release, PlanType
<1> HIDE DEF b
<1>4. /\ h \in Nat /\ h \in DOMAIN buffer
      /\ \A k : InBatch(b, k) => k \in Nat /\ h <= k
      /\ InBatch(b, h)
  BY <1>1, <1>2, HeadIsFirst
<1>5. released' = [released EXCEPT ![h] = released[h] + 1] /\ UNCHANGED buffer
  BY DEF Release, PlanType, EffectType, b
<1> HIDE DEF h
<1>6. h \in Item /\ released[h] \in Nat BY <1>4, RowsOfPlan
<1>7. /\ released'[h] > 0
      /\ \A k \in Item : released[k] > 0 => released'[k] > 0
      /\ \A k \in Item : released'[k] > 0 => released[k] > 0 \/ k = h
  BY <1>5, <1>6, RowsOfPlan DEF PlanType, EffectType
<1>8. ReleasedInOrder'
  <2>1. SUFFICES ASSUME NEW j \in Item, NEW k \in Item, j < k, released'[k] > 0, ~ released'[j] > 0
                 PROVE  FALSE
    BY DEF ReleasedInOrder, Item
  <2>2. k = h
    <3>1. ~ released[j] > 0 BY <1>7, <2>1
    <3>2. ~ released[k] > 0 BY <2>1, <3>1 DEF InOrder, ReleasedInOrder
    <3>3. QED BY <1>7, <2>1, <3>2
  <2>3. released[j] > 0 \/ InBatch(b, j) BY <1>2, <1>4, <2>1, <2>2 DEF Fits
  <2>4. ~ InBatch(b, j) BY <1>4, <2>1, <2>2
  <2>5. QED BY <1>7, <2>1, <2>3, <2>4
<1>9. MarkedIsOut' BY <1>5, <1>7, RowsOfPlan DEF InOrder, MarkedIsOut
<1>10. HeldComeLast' BY <1>5 DEF InOrder, HeldComeLast
<1>11. OutIsBuffered' BY <1>4, <1>5, <1>7 DEF InOrder, OutIsBuffered, Item
<1>12. BatchInOrder'
  <2>1. SUFFICES ASSUME NEW s \in Caller, call'[s].at \in Releasing
                 PROVE  /\ Fits(call'[s].batch, buffer', released')
                        /\ call'[s].at \in Midway => released'[Head(call'[s].batch)] > 0
    BY DEF BatchInOrder
  <2>2. call[s].at \in Releasing /\ call'[s].batch = call[s].batch
    BY <1>1, <1>3, <2>1 DEF Releasing, b
  <2>3. Fits(call[s].batch, buffer, released) BY <2>2 DEF InOrder, BatchInOrder
  <2>4. Fits(call[s].batch, buffer', released') BY <1>5, <1>7, <2>3, RowsOfPlan, FitsLater
  <2>5. CASE s = t BY <1>3, <1>7, <2>2, <2>4, <2>5 DEF h, b
  <2>6. CASE s # t /\ call[s].at \in Midway
    <3>1. released[Head(call[s].batch)] > 0 BY <2>2, <2>6 DEF InOrder, BatchInOrder
    <3>2. call[s].batch \in Seq(Nat) /\ call[s].batch # <<>>
      BY <2>6, Asking DEF PlanType, CallType, Midway
    <3>3. Head(call[s].batch) \in Item BY <2>3, <3>2, HeadIsFirst, RowsOfPlan
    <3>4. QED BY <1>7, <2>2, <2>4, <3>1, <3>3
  <2>7. CASE s # t /\ call[s].at \notin Midway BY <1>3, <2>2, <2>4, <2>7
  <2>8. QED BY <2>5, <2>6, <2>7
<1>13. QED BY <1>8, <1>9, <1>10, <1>11, <1>12 DEF InOrder

(* An effect that went out is marked. *)
LEMMA MarkInOrder ==
  ASSUME PlanType, Control, InOrder, NEW t \in Caller, ReleaseMark(t)
  PROVE  InOrder'
<1> DEFINE b == call[t].batch
           h == Head(b)
<1>1. /\ call[t].at = "release_mark" /\ call'[t].at = "release" /\ call'[t].batch = Tail(b)
      /\ \A s \in Caller \ {t} : call'[s] = call[s]
      /\ DOMAIN buffer' = DOMAIN buffer
      /\ \A k \in DOMAIN buffer : buffer'[k] = IF k = h THEN "inserted" ELSE buffer[k]
  BY Marks DEF PlanType
<1>2. b \in Seq(Nat) /\ b # <<>> BY <1>1, Asking DEF PlanType, CallType, Midway
<1>3. Fits(b, buffer, released) /\ released[h] > 0
  BY <1>1 DEF InOrder, BatchInOrder, Releasing, Midway
<1>4. UNCHANGED released BY DEF ReleaseMark
<1> HIDE DEF b, h
<1>5. \A k \in DOMAIN buffer : buffer'[k] = "held" => buffer[k] = "held" BY <1>1
<1>6. Fits(Tail(b), buffer', released) BY <1>1, <1>2, <1>3, <1>5, FitsTail DEF h
<1>7. ReleasedInOrder' BY <1>4 DEF InOrder, ReleasedInOrder, Item
<1>8. MarkedIsOut' BY <1>1, <1>3, <1>4 DEF InOrder, MarkedIsOut
<1>9. HeldComeLast' BY <1>1, <1>5 DEF InOrder, HeldComeLast
<1>10. OutIsBuffered' BY <1>1, <1>4 DEF InOrder, OutIsBuffered
<1>11. BatchInOrder'
  <2>1. SUFFICES ASSUME NEW s \in Caller, call'[s].at \in Releasing
                 PROVE  /\ Fits(call'[s].batch, buffer', released')
                        /\ call'[s].at \in Midway => released'[Head(call'[s].batch)] > 0
    BY DEF BatchInOrder
  <2>2. CASE s = t BY <1>1, <1>4, <1>6, <2>2 DEF Midway
  <2>3. CASE s # t
    <3>1. call'[s] = call[s] BY <1>1, <2>3
    <3>2. Fits(call[s].batch, buffer, released) BY <2>1, <3>1 DEF InOrder, BatchInOrder
    <3>3. Fits(call[s].batch, buffer', released')
      BY <1>1, <1>4, <1>5, <3>2, RowsOfPlan, FitsLater
    <3>4. QED BY <1>4, <2>1, <3>1, <3>3 DEF InOrder, BatchInOrder
  <2>4. QED BY <2>2, <2>3
<1>12. QED BY <1>7, <1>8, <1>9, <1>10, <1>11 DEF InOrder

(* A batch is loaded. *)
LEMMA LoadInOrder ==
  ASSUME PlanType, Control, InOrder, NEW t \in Caller, ApproveLoad(t)
  PROVE  InOrder'
<1>1. UNCHANGED <<buffer, released>> BY DEF ApproveLoad, durable
<1>2. /\ \A s \in Caller \ {t} : call'[s] = call[s]
      /\ call'[t] = NoCall \/ (call'[t].at = "approve_mint" /\ call'[t].batch = Batch)
  BY Loads DEF PlanType
<1>3. Fits(Batch, buffer, released) BY LoadedFits
<1> HIDE DEF Batch
<1>4. BatchInOrder'
  <2>1. SUFFICES ASSUME NEW s \in Caller, call'[s].at \in Releasing
                 PROVE  /\ Fits(call'[s].batch, buffer', released')
                        /\ call'[s].at \in Midway => released'[Head(call'[s].batch)] > 0
    BY DEF BatchInOrder
  <2>2. CASE s = t BY <1>1, <1>2, <1>3, <2>1, <2>2 DEF NoCall, Releasing, Midway
  <2>3. CASE s # t BY <1>1, <1>2, <2>1, <2>3 DEF InOrder, BatchInOrder
  <2>4. QED BY <2>2, <2>3
<1>5. QED
  BY <1>1, <1>4 DEF InOrder, ReleasedInOrder, MarkedIsOut, HeldComeLast, OutIsBuffered, Item

(* An effect is withheld. *)
LEMMA WithholdInOrder ==
  ASSUME PlanType, Control, InOrder, Withhold
  PROVE  InOrder'
<1> DEFINE n == Len(buffer)
<1>1. /\ interp.at = "run" /\ n \in Nat
      /\ DOMAIN buffer = 1 .. n /\ DOMAIN buffer' = 1 .. (n + 1)
      /\ \A k \in DOMAIN buffer : buffer'[k] = buffer[k]
      /\ buffer'[n + 1] = "held"
  BY Withholds DEF PlanType
<1>2. UNCHANGED <<released, call>> BY DEF Withhold
<1>3. /\ \A k \in DOMAIN buffer : buffer[k] = "held"
      /\ \A t \in Caller : call[t].at \in {"idle", "resume_signal"}
  BY <1>1 DEF Control, Working
<1> HIDE DEF n
<1>4. ReleasedInOrder' BY <1>2 DEF InOrder, ReleasedInOrder, Item
<1>5. \A k \in DOMAIN buffer' : buffer'[k] = "held" BY <1>1, <1>3
<1>6. MarkedIsOut' /\ HeldComeLast' BY <1>5 DEF MarkedIsOut, HeldComeLast
<1>7. OutIsBuffered' BY <1>1, <1>2 DEF InOrder, OutIsBuffered, Item
<1>8. BatchInOrder' BY <1>2, <1>3 DEF BatchInOrder, Releasing
<1>9. QED BY <1>4, <1>6, <1>7, <1>8 DEF InOrder

(* What was not released of an approved batch was released before.         *)
LEMMA CommitInOrder ==
  ASSUME PlanType, Control, InOrder, NEW t \in Caller, ApproveCommit(t)
  PROVE  InOrder'
<1>1. call[t].at = "release" /\ call[t].batch = <<>> BY DEF ApproveCommit, CallAt
<1>2. /\ call'[t].at = "approve_keep" /\ \A s \in Caller \ {t} : call'[s] = call[s]
  BY <1>1, CallGoes, Named DEF ApproveCommit, PlanType, Midway
<1>3. /\ DOMAIN buffer' = DOMAIN buffer
      /\ \A k \in DOMAIN buffer : buffer'[k] = IF buffer[k] = "held" THEN "inserted" ELSE buffer[k]
  BY HeldChange, Named DEF ApproveCommit, PlanType
<1>4. \A k \in DOMAIN buffer : buffer[k] = "held" => released[k] > 0
  BY <1>1 DEF InOrder, BatchInOrder, Releasing, Fits, InBatch
<1>5. \A s \in Caller : call'[s].at \in Releasing => call'[s] = call[s]
  BY <1>2 DEF Releasing
<1>6. UNCHANGED released BY DEF ApproveCommit
<1>7. QED BY <1>3, <1>4, <1>5, <1>6, OrderKeeps

(* Every step keeps the order. *)
LEMMA OrderStep ==
  ASSUME PlanType, Control, InOrder, [Next]_vars
  PROVE  InOrder'
<1>0. PlanType /\ Control /\ InOrder OBVIOUS
<1>1. ASSUME NEW t \in Caller, NEW c \in Consent, StartBegin(t, c) PROVE InOrder'
  BY <1>0, <1>1, OrderKeeps, CallBegins, Named
  DEF StartBegin, Midway, Releasing, PlanType, durable, volatile
<1>2. ASSUME NEW t \in Caller, NEW c \in Consent, ResumeBegin(t, c) PROVE InOrder'
  BY <1>0, <1>2, OrderKeeps, CallBegins, Named
  DEF ResumeBegin, Midway, Releasing, PlanType, durable, volatile
<1>3. ASSUME NEW t \in Caller, NEW c \in Consent, ApproveBegin(t, c) PROVE InOrder'
  BY <1>0, <1>3, OrderKeeps, CallBegins, Named
  DEF ApproveBegin, Midway, Releasing, PlanType, durable, volatile
<1>4. ASSUME NEW t \in Caller, StartConsume(t) PROVE InOrder'
  BY <1>0, <1>4, OrderKeeps, CallGoes, Named
  DEF StartConsume, CallAt, Midway, Releasing, PlanType, durable, volatile, NoCall
<1>5. ASSUME NEW t \in Caller, StartMint(t) PROVE InOrder'
  BY <1>0, <1>5, OrderKeeps, CallGoes, Named
  DEF StartMint, CallAt, Midway, Releasing, PlanType, durable, volatile, NoCall
<1>6. ASSUME NEW t \in Caller, StartSpawn(t) PROVE InOrder'
  BY <1>0, <1>6, OrderKeeps, CallGoes, Named
  DEF StartSpawn, CallAt, Midway, Releasing, PlanType, durable, volatile, NoCall
<1>7. ASSUME NEW t \in Caller, ResumeSignal(t) PROVE InOrder'
  BY <1>0, <1>7, OrderKeeps, CallGoes, Named
  DEF ResumeSignal, Signalled, CallAt, Midway, Releasing, PlanType, durable, volatile, NoCall
<1>8. ASSUME NEW t \in Caller, ApproveConsume(t) PROVE InOrder'
  BY <1>0, <1>8, OrderKeeps, CallGoes, Named
  DEF ApproveConsume, CallAt, Midway, Releasing, PlanType, durable, volatile, NoCall
<1>9. ASSUME NEW t \in Caller, ApproveLoad(t) PROVE InOrder'
  BY <1>0, <1>9, LoadInOrder
<1>10. ASSUME NEW t \in Caller, ApproveMint(t) PROVE InOrder'
  <2>1. /\ call[t].at = "approve_mint" /\ call'[t].at = "approve_count"
        /\ call'[t].batch = call[t].batch /\ \A s \in Caller \ {t} : call'[s] = call[s]
    BY <1>0, <1>10, CallGoes, Named DEF ApproveMint, CallAt, PlanType, Midway
  <2>2. QED BY <1>0, <1>10, <2>1, OrderKeeps DEF ApproveMint, Releasing, Midway
<1>11. ASSUME NEW t \in Caller, ApproveCount(t) PROVE InOrder'
  <2>1. /\ \A s \in Caller \ {t} : call'[s] = call[s]
        /\ call'[t].at \in Releasing =>
             /\ call[t].at \in Releasing /\ call'[t].batch = call[t].batch
             /\ call'[t].at \in Midway => call[t].at \in Midway
    BY <1>0, <1>11, Counts DEF PlanType, Releasing, Midway, NoCall
  <2>2. UNCHANGED <<buffer, released>> BY <1>11 DEF ApproveCount, durable
  <2>3. QED BY <2>1, <2>2, <1>0, OrderKeeps
<1>12. ASSUME NEW t \in Caller, Release(t) PROVE InOrder'
  BY <1>0, <1>12, ReleaseInOrder
<1>13. ASSUME NEW t \in Caller, ReleaseLog(t) PROVE InOrder'
  <2>1. /\ \A s \in Caller \ {t} : call'[s] = call[s]
        /\ call'[t].at \in Releasing =>
             /\ call[t].at \in Releasing /\ call'[t].batch = call[t].batch
             /\ call'[t].at \in Midway => call[t].at \in Midway
    BY <1>0, <1>13, Logs DEF PlanType, Releasing, Midway, NoCall
  <2>2. UNCHANGED <<buffer, released>> BY <1>13 DEF ReleaseLog, durable
  <2>3. QED BY <2>1, <2>2, <1>0, OrderKeeps
<1>14. ASSUME NEW t \in Caller, ReleaseMark(t) PROVE InOrder'
  BY <1>0, <1>14, MarkInOrder
<1>15. ASSUME NEW t \in Caller, ReleaseFails(t) PROVE InOrder'
  BY <1>0, <1>15, OrderKeeps, CallGoes, Named
  DEF ReleaseFails, CallFails, CallAt, Midway, Releasing, PlanType, durable, volatile, NoCall
<1>16. ASSUME NEW t \in Caller, ApproveDrop(t) PROVE InOrder'
  BY <1>0, <1>16, OrderKeeps, HeldChange, CallGoes, Named
  DEF ApproveDrop, DropBuffer, CallAt, Midway, Releasing, PlanType, durable, volatile, NoCall
<1>17. ASSUME NEW t \in Caller, ApproveTeardown(t) PROVE InOrder'
  BY <1>0, <1>17, OrderKeeps, CallGoes, Named
  DEF ApproveTeardown, Teardown, CallAt, Midway, Releasing, PlanType, durable, volatile, NoCall
<1>18. ASSUME NEW t \in Caller, ApproveCommit(t) PROVE InOrder'
  BY <1>0, <1>18, CommitInOrder
<1>19. ASSUME NEW t \in Caller, ApproveKeep(t) PROVE InOrder'
  BY <1>0, <1>19, OrderKeeps, CallGoes, Named
  DEF ApproveKeep, CallAt, Midway, Releasing, PlanType, durable, volatile, NoCall
<1>20. ASSUME NEW t \in Caller, ApproveFinish(t) PROVE InOrder'
  BY <1>0, <1>20, OrderKeeps, CallGoes, Named
  DEF ApproveFinish, FinishRun, CallAt, Midway, Releasing, PlanType, durable, volatile, NoCall
<1>21. ASSUME OverBound PROVE InOrder'
  BY <1>0, <1>21, OrderKeeps, Named
  DEF OverBound, At, Releasing, PlanType, durable, volatile
<1>22. ASSUME Withhold PROVE InOrder'
  BY <1>0, <1>22, WithholdInOrder
<1>23. ASSUME Emit PROVE InOrder'
  BY <1>0, <1>23, OrderKeeps, Named
  DEF Emit, Statement, At, Releasing, PlanType, durable, volatile
<1>24. ASSUME LogEmit PROVE InOrder'
  BY <1>0, <1>24, OrderKeeps, Named
  DEF LogEmit, At, Releasing, PlanType, durable, volatile
<1>25. ASSUME Exhausted PROVE InOrder'
  BY <1>0, <1>25, OrderKeeps, Named
  DEF Exhausted, Statement, At, Releasing, PlanType, durable, volatile
<1>26. ASSUME EmitFails PROVE InOrder'
  BY <1>0, <1>26, OrderKeeps, Named
  DEF EmitFails, Statement, At, Releasing, PlanType, durable, volatile
<1>27. ASSUME Stop PROVE InOrder'
  BY <1>0, <1>27, OrderKeeps, Named
  DEF Stop, At, Releasing, PlanType, durable, volatile
<1>28. ASSUME Park PROVE InOrder'
  BY <1>0, <1>28, OrderKeeps, Named
  DEF Park, At, Releasing, PlanType, durable, volatile
<1>29. ASSUME Wake PROVE InOrder'
  BY <1>0, <1>29, OrderKeeps, Named
  DEF Wake, At, Releasing, PlanType, durable, volatile
<1>30. ASSUME Unpark PROVE InOrder'
  BY <1>0, <1>30, OrderKeeps, Named
  DEF Unpark, At, Releasing, PlanType, durable, volatile
<1>31. ASSUME CommitRun PROVE InOrder'
  BY <1>0, <1>31, OrderKeeps, Named
  DEF CommitRun, AtEnd, At, Releasing, PlanType, durable, volatile
<1>32. ASSUME AwaitHandle PROVE InOrder'
  BY <1>0, <1>32, OrderKeeps, Named
  DEF AwaitHandle, AtEnd, At, Releasing, PlanType, durable, volatile
<1>33. ASSUME AwaitRow PROVE InOrder'
  BY <1>0, <1>33, OrderKeeps, Named
  DEF AwaitRow, At, Releasing, PlanType, durable, volatile
<1>34. ASSUME DropRun PROVE InOrder'
  BY <1>0, <1>34, OrderKeeps, HeldChange, Named
  DEF DropRun, DropBuffer, At, Releasing, PlanType, durable, volatile
<1>35. ASSUME TeardownRun PROVE InOrder'
  BY <1>0, <1>35, OrderKeeps, Named
  DEF TeardownRun, Teardown, At, Releasing, PlanType, durable, volatile
<1>36. ASSUME Finish PROVE InOrder'
  BY <1>0, <1>36, OrderKeeps, Named
  DEF Finish, FinishRun, At, Releasing, PlanType, durable, volatile
<1>37. ASSUME ExpireCollect PROVE InOrder'
  BY <1>0, <1>37, OrderKeeps, Named
  DEF ExpireCollect, Releasing, PlanType, durable, volatile
<1>38. ASSUME ExpireAbort PROVE InOrder'
  BY <1>0, <1>38, OrderKeeps, Named
  DEF ExpireAbort, Abort, Releasing, PlanType, durable, volatile
<1>39. ASSUME ExpireDrop PROVE InOrder'
  BY <1>0, <1>39, OrderKeeps, HeldChange, Named
  DEF ExpireDrop, DropBuffer, Releasing, PlanType, durable, volatile
<1>40. ASSUME ExpireTeardown PROVE InOrder'
  BY <1>0, <1>40, OrderKeeps, Named
  DEF ExpireTeardown, Teardown, Releasing, PlanType, durable, volatile
<1>41. ASSUME ExpireFinish PROVE InOrder'
  BY <1>0, <1>41, OrderKeeps, Named
  DEF ExpireFinish, FinishRun, Releasing, PlanType, durable, volatile
<1>42. ASSUME Open PROVE InOrder'
  BY <1>0, <1>42, OrderKeeps, Named
  DEF Open, Releasing, PlanType, durable, volatile
<1>43. ASSUME RecoverDrop PROVE InOrder'
  BY <1>0, <1>43, OrderKeeps, HeldChange, Named
  DEF RecoverDrop, DropBuffer, Releasing, PlanType, durable, volatile
<1>44. ASSUME RecoverTeardown PROVE InOrder'
  BY <1>0, <1>44, OrderKeeps, Named
  DEF RecoverTeardown, Teardown, Releasing, PlanType, durable, volatile
<1>45. ASSUME RecoverFinish PROVE InOrder'
  BY <1>0, <1>45, OrderKeeps, Named
  DEF RecoverFinish, Releasing, PlanType, durable, volatile
<1>46. ASSUME Shutdown PROVE InOrder'
  BY <1>0, <1>46, OrderKeeps, Named
  DEF Shutdown, Abort, Releasing, PlanType, durable, volatile
<1>47. ASSUME Exit PROVE InOrder'
  <2>1. \A t \in Caller : call'[t].at = "idle" BY <1>47, Ends DEF Exit, NoCall
  <2>2. QED BY <1>0, <1>47, <2>1, OrderKeeps DEF Exit, Releasing, durable
<1>48. ASSUME Crash PROVE InOrder'
  <2>1. \A t \in Caller : call'[t].at = "idle" BY <1>48, Ends DEF Crash, NoCall
  <2>2. QED BY <1>0, <1>48, <2>1, OrderKeeps DEF Crash, Releasing, durable
<1>49. ASSUME Tick PROVE InOrder'
  BY <1>0, <1>49, OrderKeeps, Named
  DEF Tick, Releasing, PlanType, durable, volatile
<1>50. ASSUME UNCHANGED vars PROVE InOrder'
  BY <1>0, <1>50, OrderKeeps DEF vars, durable, volatile
<1>51. QED
  BY <1>1, <1>2, <1>3, <1>4, <1>5, <1>6, <1>7, <1>8, <1>9, <1>10, <1>11, <1>12, <1>13, <1>14,
      <1>15, <1>16, <1>17, <1>18, <1>19, <1>20, <1>21, <1>22, <1>23, <1>24, <1>25, <1>26, <1>27,
      <1>28, <1>29, <1>30, <1>31, <1>32, <1>33, <1>34, <1>35, <1>36, <1>37, <1>38, <1>39, <1>40,
      <1>41, <1>42, <1>43, <1>44, <1>45, <1>46, <1>47, <1>48, <1>49, <1>50
  DEF Next, Asked, CallStep, InterpStep, SweepStep, OpenStep

(* Marks, rows and batches are in order in every reachable state. *)
LEMMA Ordered == Spec => []InOrder
<1>1. Init => InOrder
  <2> SUFFICES ASSUME Init PROVE InOrder
    OBVIOUS
  <2>1. \A t \in Caller : call[t].at = "idle" BY DEF Init, NoCall
  <2>2. DOMAIN buffer = {} BY DEF Init
  <2>3. \A k \in Item : ~ released[k] > 0 BY DEF Init
  <2>4. QED
    BY <2>1, <2>2, <2>3 DEF InOrder, ReleasedInOrder, MarkedIsOut, HeldComeLast, BatchInOrder,
                            OutIsBuffered, Releasing
<1>2. PlanType /\ Control /\ InOrder /\ [Next]_vars => InOrder' BY OrderStep
<1>3. QED BY <1>1, <1>2, Controlled, PTL DEF Spec

(* ReleasedInOrder, of every run, for any number of overlapping approvals: *)
(* what an approval that was cut short leaves over is a tail of the plan.  *)
THEOREM ReleasedInOrderSafe == Spec => []ReleasedInOrder
<1>1. InOrder => ReleasedInOrder BY DEF InOrder
<1>2. QED BY <1>1, Ordered, PTL

----------------------------------------------------------------------------
(* A call that was paid for and whose consent nobody minted from yet.      *)
Holds(c) == c.at \in {"start_mint", "resume_signal", "approve_load"} \cup Releasing
Unpaid(c) == c.at \in {"start_mint", "resume_signal", "approve_load", "approve_mint"}
Pending ==
  {call[t].consent : t \in {s \in Caller : Unpaid(call[s])}} \cup ({signal.consent} \ {NoConsent})
Minted == consumed \ Pending

(* Nobody holds a consent that another has, or that started the run. *)
ConsentsDiffer ==
  /\ \A t \in Caller : Holds(call[t]) => call[t].consent \in consumed
  /\ \A t \in Caller : Holds(call[t]) =>
       call[t].consent # signal.consent /\ call[t].consent # row.nonce
  /\ \A s, t \in Caller :
       Holds(call[s]) /\ Holds(call[t]) /\ call[s].consent = call[t].consent => s = t
  /\ \A t \in Caller : call[t].at = "approve_mint" =>
       Len(call[t].batch) <= Budget[call[t].consent]
  /\ signal.consent \in consumed \cup {NoConsent}

(* The consents that were minted from pay for all that was or can be done. *)
BudgetOf(S) == SumFunctionOnSet(Budget, S)
MintedPays == direct + Released + Left <= BudgetOf(Minted)

(* Effect k went out under the consents that cannot release it any more.   *)
Rest(c) == IF c.at \in Midway THEN Tail(c.batch) ELSE c.batch
WillRelease(c, k) == c.at = "approve_load" \/ (c.at \in Releasing /\ InBatch(Rest(c), k))
SpentOn(k) ==
  consumed \ ({row.nonce} \cup {call[t].consent : t \in {s \in Caller : WillRelease(call[s], k)}})
OncePerConsent == \A k \in Item : released[k] <= Cardinality(SpentOn(k))

Paying == ConsentsDiffer /\ MintedPays /\ OncePerConsent

(* A call that has no more to do than before.                              *)
Less(d, c) ==
  /\ Holds(d) => Holds(c) /\ d.consent = c.consent
  /\ Unpaid(d) => Unpaid(c)
  /\ \A k \in Item : WillRelease(d, k) => WillRelease(c, k)
  /\ d.at = "approve_mint" => Len(d.batch) <= Budget[d.consent]

(* A call that has not been paid for holds its consent.                    *)
LEMMA Holders ==
  /\ \A c : Unpaid(c) => Holds(c)
  /\ \A c, k : WillRelease(c, k) => Holds(c)
  /\ \A c : Less(NoCall, c)
  /\ ~ Holds(NoCall)
BY DEF Unpaid, Holds, WillRelease, Less, Releasing, NoCall

(* A call at any other place waits for no credits and releases nothing.    *)
LEMMA Idles ==
  ASSUME NEW c, NEW d, d.at \notin {"start_mint", "resume_signal", "approve_load"} \cup Releasing
  PROVE  Less(d, c)
BY DEF Unpaid, Holds, WillRelease, Less, Releasing

(* The sums that are compared. *)
LEMMA Finite == IsFiniteSet(Item) /\ IsFiniteSet(Consent)
<1>1. IsFiniteSet(1 .. Len(Plan)) BY Given, FS_Interval
<1>2. QED BY <1>1, PlanAssumption DEF Item

(* A sum of natural numbers over a finite set is a natural number.         *)
LEMMA AmountOf ==
  ASSUME NEW S, IsFiniteSet(S), NEW f \in [S -> Nat]
  PROVE  SumFunction(f) = SumFunctionOnSet(f, S) /\ SumFunction(f) \in Nat
<1>1. SumFunction(f) = SumFunctionOnSet(f, S) BY DEF SumFunction
<1>2. \A x \in S : f[x] \in Nat OBVIOUS
<1>3. QED BY <1>1, <1>2, SumOfNaturals

(* The sums that are compared are natural numbers.                         *)
LEMMA Amounts ==
  /\ PlanType => direct \in Nat /\ Released \in Nat /\ Left \in Nat
  /\ PlanType' => direct' \in Nat /\ Released' \in Nat /\ Left' \in Nat
BY Finite, AmountOf DEF PlanType, EffectType, CreditType, Released, Left

(* The budget of a set of consents, of a part of it, and of one more.      *)
LEMMA Budgets ==
  ASSUME NEW T \in SUBSET Consent
  PROVE  /\ BudgetOf(T) \in Nat
         /\ \A S \in SUBSET T : BudgetOf(S) \in Nat /\ BudgetOf(S) <= BudgetOf(T)
         /\ \A c \in Consent \ T : BudgetOf(T \cup {c}) = BudgetOf(T) + Budget[c]
<1>1. \A S \in SUBSET Consent : IsFiniteSet(S) BY PlanAssumption, FS_Subset
<1>2. \A c \in Consent : Budget[c] \in Nat /\ Budget[c] \in Int BY Given
<1>3. \A S \in SUBSET Consent : BudgetOf(S) \in Nat
  <2>1. SUFFICES ASSUME NEW S \in SUBSET Consent PROVE BudgetOf(S) \in Nat
    OBVIOUS
  <2>2. IsFiniteSet(S) /\ \A x \in S : Budget[x] \in Nat BY <1>1, <1>2
  <2>3. QED BY <2>2, SumOfNaturals DEF BudgetOf
<1>4. ASSUME NEW S \in SUBSET T PROVE BudgetOf(S) <= BudgetOf(T)
  <2>1. IsFiniteSet(T) /\ \A x \in T : Budget[x] \in Nat BY <1>1, <1>2
  <2>2. QED BY <2>1, SumGrows DEF BudgetOf
<1>5. ASSUME NEW c \in Consent \ T PROVE BudgetOf(T \cup {c}) = BudgetOf(T) + Budget[c]
  <2> DEFINE U == T \cup {c}
  <2>1. IsFiniteSet(U) /\ (\A x \in U : Budget[x] \in Int) /\ c \in U /\ U \ {c} = T
    BY <1>1, <1>2
  <2> HIDE DEF U
  <2>2. SumFunctionOnSet(Budget, U) = Budget[c] + SumFunctionOnSet(Budget, U \ {c})
    BY <2>1, SumTerm
  <2>3. BudgetOf(U) = Budget[c] + BudgetOf(T) BY <2>1, <2>2 DEF BudgetOf
  <2>4. BudgetOf(T) \in Nat /\ Budget[c] \in Nat BY <1>2, <1>3
  <2>5. QED BY <2>3, <2>4 DEF U
<1>6. QED BY <1>3, <1>4, <1>5

(* What minting and paying do to what is left. *)
LEMMA LeftMints ==
  ASSUME PlanType, PlanType', NEW c \in Consent, NEW n \in Nat, Mint(c, n)
  PROVE  Left' = Left + n
<1>0. credit' = [credit EXCEPT ![c] = credit[c] + n]
  BY DEF PlanType, CreditType, Mint
<1>1. credit \in [Consent -> Nat] /\ credit' \in [Consent -> Nat] /\ IsFiniteSet(Consent)
  BY Finite DEF PlanType, CreditType
<1>2. \A d \in Consent : credit[d] \in Int /\ credit'[d] \in Int BY <1>1
<1>3. \A d \in Consent \ {c} : credit'[d] = credit[d] BY <1>0, <1>1
<1>4. SumFunctionOnSet(credit', Consent)
        = SumFunctionOnSet(credit, Consent) + (credit'[c] - credit[c])
  BY <1>1, <1>2, <1>3, SumChanges
<1>5. credit'[c] - credit[c] = n BY <1>0, <1>1
<1>6. /\ Left = SumFunctionOnSet(credit, Consent) /\ Left' = SumFunctionOnSet(credit', Consent)
  BY <1>1, AmountOf DEF Left
<1>7. QED BY <1>4, <1>5, <1>6

(* A payment takes one from the credits that are left.                     *)
LEMMA LeftSpends ==
  ASSUME PlanType, PlanType', Paid, consumed' = consumed
  PROVE  Left' = Left - 1
<1>1. PICK c \in Consent : credit' = [credit EXCEPT ![c] = credit[c] - 1]
  BY Spends DEF PlanType
<1>2. credit \in [Consent -> Nat] /\ credit' \in [Consent -> Nat] /\ IsFiniteSet(Consent)
  BY Finite DEF PlanType, CreditType
<1>3. \A d \in Consent : credit[d] \in Int /\ credit'[d] \in Int BY <1>2
<1>4. \A d \in Consent \ {c} : credit'[d] = credit[d] BY <1>1, <1>2
<1>5. SumFunctionOnSet(credit', Consent)
        = SumFunctionOnSet(credit, Consent) + (credit'[c] - credit[c])
  BY <1>2, <1>3, <1>4, SumChanges
<1>6. credit'[c] - credit[c] = -1 BY <1>1, <1>2
<1>7. /\ Left = SumFunctionOnSet(credit, Consent) /\ Left' = SumFunctionOnSet(credit', Consent)
      /\ Left \in Int
  BY <1>2, AmountOf, Amounts DEF Left
<1>8. QED BY <1>5, <1>6, <1>7

(* An effect that goes out once more. *)
LEMMA ReleasedOnce ==
  ASSUME PlanType, PlanType', NEW k \in Item,
         \A d \in Item : released'[d] = IF d = k THEN released[d] + 1 ELSE released[d]
  PROVE  Released' = Released + 1
<1>1. /\ released \in [Item -> Nat] /\ released' \in [Item -> Nat] /\ IsFiniteSet(Item)
  BY Finite DEF PlanType, EffectType
<1>2. \A d \in Item : released[d] \in Int /\ released'[d] \in Int BY <1>1
<1>3. \A d \in Item \ {k} : released'[d] = released[d] OBVIOUS
<1>4. SumFunctionOnSet(released', Item)
        = SumFunctionOnSet(released, Item) + (released'[k] - released[k])
  BY <1>1, <1>2, <1>3, SumChanges
<1>5. released'[k] - released[k] = 1 BY <1>1
<1>6. /\ Released = SumFunctionOnSet(released, Item)
      /\ Released' = SumFunctionOnSet(released', Item)
  BY <1>1, AmountOf DEF Released
<1>7. QED BY <1>4, <1>5, <1>6

(* What pays, and what an effect went out under, only grows. *)
LEMMA PaysStill ==
  ASSUME PlanType, PlanType', MintedPays, Minted \subseteq Minted',
         direct' + Released' + Left' <= direct + Released + Left
  PROVE  MintedPays'
<1>1. Minted' \subseteq Consent BY DEF Minted, PlanType, CreditType
<1>2. /\ BudgetOf(Minted) <= BudgetOf(Minted') /\ BudgetOf(Minted) \in Nat
      /\ BudgetOf(Minted') \in Nat
  BY <1>1, Budgets
<1>3. direct + Released + Left \in Int /\ direct' + Released' + Left' \in Int BY Amounts
<1>4. QED BY <1>2, <1>3 DEF MintedPays

(* A step that releases nothing keeps one release for each consent.        *)
LEMMA OnceStill ==
  ASSUME PlanType, PlanType', OncePerConsent, released' = released,
         \A k \in Item : SpentOn(k) \subseteq SpentOn(k)'
  PROVE  OncePerConsent'
<1>1. SUFFICES ASSUME NEW k \in Item PROVE released[k] <= Cardinality(SpentOn(k)')
  BY DEF OncePerConsent, Item
<1> DEFINE A == SpentOn(k)
           B == SpentOn(k)'
<1>2. A \subseteq Consent /\ B \subseteq Consent BY DEF SpentOn, PlanType, CreditType
<1>3. A \subseteq B /\ released[k] <= Cardinality(A) BY DEF OncePerConsent
<1> HIDE DEF A, B
<1>4. /\ IsFiniteSet(A) /\ IsFiniteSet(B) /\ Cardinality(A) <= Cardinality(B)
      /\ Cardinality(A) \in Nat /\ Cardinality(B) \in Nat
  BY <1>2, <1>3, Finite, FS_Subset, FS_CardinalityType
<1>5. released[k] \in Nat BY DEF PlanType, EffectType
<1>6. QED BY <1>3, <1>4, <1>5 DEF B

(* No consent of a call or a signal is there that was not there before. *)
LEMMA DifferKeeps ==
  ASSUME PlanType, ConsentsDiffer, consumed \subseteq consumed', row'.nonce = row.nonce,
         signal'.consent \in {signal.consent, NoConsent},
         \A s \in Caller : call'[s] = call[s] \/ Less(call'[s], call[s])
  PROVE  /\ ConsentsDiffer'
         /\ Pending' \subseteq Pending
         /\ \A k \in Item : SpentOn(k) \subseteq SpentOn(k)'
<1>1. \A t \in Caller : Holds(call[t]) => call[t].consent # NoConsent
  BY Asking DEF Holds, Releasing, PlanType
<1>2. \A s \in Caller : Holds(call'[s]) => Holds(call[s]) /\ call'[s].consent = call[s].consent
  BY DEF Less
<1>3. \A s \in Caller : Unpaid(call'[s]) => Unpaid(call[s]) BY DEF Less
<1>4. \A s \in Caller, k \in Item : WillRelease(call'[s], k) => WillRelease(call[s], k)
  BY DEF Less
<1>5. \A s \in Caller : call'[s].at = "approve_mint" =>
        Len(call'[s].batch) <= Budget[call'[s].consent]
  BY DEF Less, ConsentsDiffer
<1>6. ConsentsDiffer'
  BY <1>1, <1>2, <1>5 DEF ConsentsDiffer
<1>7. Pending' \subseteq Pending BY <1>2, <1>3, Holders DEF Pending
<1>8. ASSUME NEW k \in Item PROVE SpentOn(k) \subseteq SpentOn(k)'
  BY <1>2, <1>4, Holders DEF SpentOn
<1>9. QED BY <1>6, <1>7, <1>8

(* A step that uses no consent, mints nothing and emits nothing. *)
LEMMA PayKeeps ==
  ASSUME PlanType, PlanType', Paying, UNCHANGED <<consumed, direct, released>>,
         credit' = credit \/ Paid, row'.nonce = row.nonce,
         signal'.consent \in {signal.consent, NoConsent},
         \A s \in Caller : call'[s] = call[s] \/ Less(call'[s], call[s])
  PROVE  Paying'
<1>1. /\ ConsentsDiffer' /\ Pending' \subseteq Pending
      /\ \A k \in Item : SpentOn(k) \subseteq SpentOn(k)'
  BY DifferKeeps DEF Paying
<1>2. Minted \subseteq Minted' BY <1>1 DEF Minted
<1>3. direct' + Released' + Left' <= direct + Released + Left
  <2>1. Left' = Left \/ Left' = Left - 1 BY LeftSpends DEF Left
  <2>2. Released' = Released BY DEF Released
  <2>3. QED BY <2>1, <2>2, Amounts
<1>4. MintedPays' BY <1>2, <1>3, PaysStill DEF Paying
<1>5. OncePerConsent' BY <1>1, OnceStill DEF Paying
<1>6. QED BY <1>1, <1>4, <1>5 DEF Paying

(* Nobody can have used the consent before that is used now. *)
LEMMA PayConsumes ==
  ASSUME PlanType, PlanType', Control, Paying, NEW t \in Caller, NEW c \in Consent \ consumed,
         consumed' = consumed \cup {c}, UNCHANGED <<direct, released, credit, row, signal>>,
         \A s \in Caller \ {t} : call'[s] = call[s],
         call'[t].consent = c,
         call'[t].at \in {"start_mint", "resume_signal", "approve_load"}
  PROVE  Paying'
<1>1. row.nonce \in consumed \cup {NoConsent} BY DEF Control, Started, Untouched
<1>2. signal.consent \in consumed \cup {NoConsent} /\ c # NoConsent
  BY Given DEF Paying, ConsentsDiffer
<1>3. \A s \in Caller : Holds(call[s]) => call[s].consent \in consumed
  BY DEF Paying, ConsentsDiffer
<1>4. Holds(call'[t]) /\ call'[t].at # "approve_mint" BY DEF Holds
<1>5. ConsentsDiffer' BY <1>1, <1>2, <1>3, <1>4 DEF Paying, ConsentsDiffer
<1>6. Pending' \subseteq Pending \cup {c} BY <1>3, Holders DEF Pending
<1>7. Minted \subseteq Minted' BY <1>6 DEF Minted
<1>8. MintedPays' BY <1>7, PaysStill, Amounts DEF Paying, Released, Left
<1>9. ASSUME NEW k \in Item PROVE SpentOn(k) \subseteq SpentOn(k)'
  BY <1>3, Holders DEF SpentOn
<1>10. OncePerConsent' BY <1>9, OnceStill DEF Paying
<1>11. QED BY <1>5, <1>8, <1>10 DEF Paying

(* What is minted is what the consent that was pending pays for. *)
LEMMA PaysMint ==
  ASSUME PlanType, PlanType', MintedPays, NEW c \in Consent, NEW n \in Nat, n <= Budget[c],
         Mint(c, n), UNCHANGED <<consumed, direct, released>>,
         c \in consumed, c \in Pending, Pending' \subseteq Pending \ {c}
  PROVE  MintedPays'
<1>1. Left' = Left + n /\ Released' = Released BY LeftMints DEF Released
<1>2. c \notin Minted /\ Minted \cup {c} \subseteq Minted' BY DEF Minted
<1>3. Minted' \subseteq Consent /\ Minted \subseteq Consent BY DEF Minted, PlanType, CreditType
<1>4. BudgetOf(Minted \cup {c}) = BudgetOf(Minted) + Budget[c] BY <1>2, <1>3, Budgets
<1>5. BudgetOf(Minted \cup {c}) <= BudgetOf(Minted') /\ BudgetOf(Minted') \in Nat
  BY <1>2, <1>3, Budgets
<1>6. BudgetOf(Minted) \in Nat /\ Budget[c] \in Nat BY <1>3, Budgets, Given
<1>7. direct \in Nat /\ Released \in Nat /\ Left \in Nat BY Amounts
<1>8. direct + Released + Left <= BudgetOf(Minted) BY DEF MintedPays
<1>9. direct' + Released' + Left' <= BudgetOf(Minted')
  BY <1>1, <1>4, <1>5, <1>6, <1>7, <1>8
<1>10. QED BY <1>9 DEF MintedPays

(* A call that turns its consent into credits keeps what is paid for.      *)
LEMMA CallMints ==
  ASSUME PlanType, PlanType', Paying, NEW t \in Caller, Unpaid(call[t]), ~ Unpaid(call'[t]),
         Less(call'[t], call[t]), \A s \in Caller \ {t} : call'[s] = call[s],
         NEW n \in Nat, n <= Budget[call[t].consent], Mint(call[t].consent, n),
         UNCHANGED <<row, consumed, direct, released, signal>>
  PROVE  Paying'
<1>1. /\ ConsentsDiffer' /\ Pending' \subseteq Pending
      /\ \A k \in Item : SpentOn(k) \subseteq SpentOn(k)'
  BY DifferKeeps DEF Paying
<1> DEFINE c == call[t].consent
<1>2. Holds(call[t]) /\ c \in Consent /\ c # NoConsent
  <2>1. Holds(call[t]) BY Holders
  <2>2. call[t].at # "idle" BY <2>1 DEF Holds, Releasing
  <2>3. QED BY <2>1, <2>2, Asking DEF PlanType
<1>3. c \in consumed /\ c # signal.consent BY <1>2 DEF Paying, ConsentsDiffer
<1>4. c \in Pending BY DEF Pending
<1>5. c \notin Pending'
  <2>1. \A s \in Caller : Unpaid(call'[s]) => s # t /\ Holds(call[s]) /\ call'[s] = call[s]
    BY Holders
  <2>2. \A s \in Caller : Unpaid(call'[s]) => call'[s].consent # c
    BY <1>2, <2>1 DEF Paying, ConsentsDiffer
  <2>3. QED BY <1>3, <2>2 DEF Pending
<1>6. MintedPays' BY <1>1, <1>2, <1>3, <1>4, <1>5, PaysMint DEF Paying
<1>7. OncePerConsent' BY <1>1, OnceStill DEF Paying
<1>8. QED BY <1>1, <1>6, <1>7 DEF Paying

(* A waiting thread that turns its consent into credits does as well.      *)
LEMMA WakeMints ==
  ASSUME PlanType, PlanType', Paying, signal.consent # NoConsent, signal' = NoSignal,
         Mint(signal.consent, Budget[signal.consent]),
         UNCHANGED <<row, consumed, direct, released, call>>
  PROVE  Paying'
<1> DEFINE c == signal.consent
<1>1. signal'.consent = NoConsent BY DEF NoSignal
<1>2. /\ ConsentsDiffer' /\ Pending' \subseteq Pending
      /\ \A k \in Item : SpentOn(k) \subseteq SpentOn(k)'
  BY <1>1, DifferKeeps DEF Paying
<1>3. c \in consumed /\ c \in Consent BY DEF Paying, ConsentsDiffer, PlanType, CreditType
<1>4. Budget[c] \in Nat /\ Budget[c] <= Budget[c] BY <1>3, Given
<1>5. c \in Pending BY DEF Pending
<1>6. c \notin Pending'
  <2>1. \A s \in Caller : Unpaid(call[s]) => call[s].consent # c
    BY Holders DEF Paying, ConsentsDiffer
  <2>2. QED BY <1>1, <2>1 DEF Pending
<1>7. MintedPays' BY <1>2, <1>3, <1>4, <1>5, <1>6, PaysMint DEF Paying
<1>8. OncePerConsent' BY <1>2, OnceStill DEF Paying
<1>9. QED BY <1>2, <1>7, <1>8 DEF Paying

(* The consent of a resume becomes that of the signal. *)
LEMMA ResumePays ==
  ASSUME PlanType, PlanType', Paying, NEW t \in Caller, call[t].at = "resume_signal",
         call'[t] = NoCall, \A s \in Caller \ {t} : call'[s] = call[s],
         signal'.consent = call[t].consent,
         UNCHANGED <<row, consumed, direct, released, credit>>
  PROVE  Paying'
<1> DEFINE c == call[t].consent
<1>1. Holds(call[t]) /\ Unpaid(call[t]) BY DEF Holds, Unpaid
<1>2. c \in consumed /\ c # row.nonce BY <1>1 DEF Paying, ConsentsDiffer
<1>3. \A s \in Caller : Holds(call'[s]) => /\ s # t /\ call'[s] = call[s]
                                           /\ call'[s].consent # c
  BY <1>1, Holders DEF Paying, ConsentsDiffer
<1>4. ConsentsDiffer'
  <2>1. call'[t].at # "approve_mint" BY DEF NoCall
  <2>2. QED BY <1>2, <1>3, <2>1 DEF Paying, ConsentsDiffer
<1>5. Pending' \subseteq Pending BY <1>1, <1>3, Holders DEF Pending
<1>6. Minted \subseteq Minted' BY <1>5 DEF Minted
<1>7. MintedPays' BY <1>6, PaysStill, Amounts DEF Paying, Released, Left
<1>8. ASSUME NEW k \in Item PROVE SpentOn(k) \subseteq SpentOn(k)'
  BY <1>3, Holders DEF SpentOn
<1>9. OncePerConsent' BY <1>8, OnceStill DEF Paying
<1>10. QED BY <1>4, <1>7, <1>9 DEF Paying

(* A run that starts has released nothing. *)
LEMMA SpawnPays ==
  ASSUME PlanType, PlanType', Control, Paying, NEW t \in Caller, call[t].at = "start_spawn",
         call'[t] = NoCall, \A s \in Caller \ {t} : call'[s] = call[s],
         row'.nonce = call[t].consent,
         UNCHANGED <<signal, consumed, direct, released, credit>>
  PROVE  Paying'
<1>1. /\ row.state = "admitted" /\ \A s \in Caller : call[s].at \in Starting => s = t
  BY WhoWorks DEF Starting
<1>2. /\ \A s \in Caller : call[s].at \in {"idle"} \cup Starting
      /\ released = [k \in Item |-> 0] /\ call[t].consent \in consumed
  BY <1>1 DEF Control, Untouched
<1>3. \A s \in Caller : ~ Holds(call'[s])
  BY <1>1, <1>2, Holders DEF Holds, Releasing, Starting
<1>4. \A s \in Caller : call'[s].at # "approve_mint"
  BY <1>3 DEF Holds, Releasing
<1>5. ConsentsDiffer' BY <1>3, <1>4 DEF Paying, ConsentsDiffer
<1>6. Pending' \subseteq Pending BY <1>3, Holders DEF Pending
<1>7. Minted \subseteq Minted' BY <1>6 DEF Minted
<1>8. MintedPays' BY <1>7, PaysStill, Amounts DEF Paying, Released, Left
<1>9. ASSUME NEW k \in Item PROVE released'[k] <= Cardinality(SpentOn(k)')
  <2>1. SpentOn(k)' \subseteq Consent BY DEF SpentOn, PlanType, CreditType
  <2>2. Cardinality(SpentOn(k)') \in Nat BY <2>1, Finite, FS_Subset, FS_CardinalityType
  <2>3. QED BY <1>2, <2>2
<1>10. OncePerConsent' BY <1>9 DEF OncePerConsent, Item
<1>11. QED BY <1>5, <1>8, <1>10 DEF Paying

(* An effect that goes out is paid for; one that was withheld goes out     *)
(* under a consent it did not go out under before.                         *)
LEMMA EmitPays ==
  ASSUME PlanType, PlanType', Paying, Emit
  PROVE  Paying'
<1>1. /\ ConsentsDiffer' /\ Pending' \subseteq Pending
      /\ \A k \in Item : SpentOn(k) \subseteq SpentOn(k)'
  BY DifferKeeps DEF Paying, Emit
<1>2. Minted \subseteq Minted' BY <1>1 DEF Minted, Emit
<1>3. Left' = Left - 1 /\ Released' = Released /\ direct' = direct + 1
  BY LeftSpends DEF Emit, Released
<1>4. MintedPays' BY <1>2, <1>3, PaysStill, Amounts DEF Paying
<1>5. OncePerConsent' BY <1>1, OnceStill DEF Paying, Emit
<1>6. QED BY <1>1, <1>4, <1>5 DEF Paying

(* A release is paid for by a credit, and by a consent of its own.         *)
LEMMA ReleasePays ==
  ASSUME PlanType, PlanType', Control, InOrder, Paying, NEW t \in Caller, Release(t)
  PROVE  Paying'
<1> DEFINE b == call[t].batch
           c == call[t].consent
           h == Head(b)
<1>1. call[t].at = "release" /\ b \in Seq(Nat) /\ b # <<>>
  BY Asking DEF Release, CallAt, PlanType
<1>2. /\ call'[t].at = "release_log" /\ call'[t].batch = b /\ call'[t].consent = c
      /\ \A s \in Caller \ {t} : call'[s] = call[s]
  BY <1>1, CallGoes, Named DEF Release, PlanType
<1>3. Fits(b, buffer, released) BY <1>1 DEF InOrder, BatchInOrder, Releasing
<1>4. UNCHANGED <<row, consumed, signal, direct>> /\ Paid BY DEF Release
<1>5. released' = [released EXCEPT ![h] = released[h] + 1]
  BY DEF Release, PlanType, EffectType
<1> HIDE DEF b
<1>6. h \in Item BY <1>1, <1>3, HeadIsFirst, RowsOfPlan
<1> HIDE DEF h
<1>7. \A k : InBatch(Tail(b), k) => InBatch(b, k) /\ k # h
  <2> DEFINE d == Tail(b)
  <2>1. /\ \A i \in DOMAIN d : i \in Int /\ i + 1 \in DOMAIN b /\ d[i] = b[i + 1] /\ 1 < i + 1
        /\ 1 \in DOMAIN b /\ h = b[1] /\ \A i \in DOMAIN b : b[i] \in Nat
    BY <1>1 DEF h
  <2> HIDE DEF d
  <2>2. ASSUME NEW i \in DOMAIN d PROVE d[i] # h /\ \E j \in DOMAIN b : b[j] = d[i]
    <3> DEFINE j == i + 1
    <3>1. j \in DOMAIN b /\ d[i] = b[j] /\ 1 < j /\ 1 \in DOMAIN b /\ h = b[1] BY <2>1
    <3> HIDE DEF j
    <3>2. b[1] < b[j] /\ b[1] \in Nat BY <1>3, <2>1, <3>1 DEF Fits
    <3>3. QED BY <3>1, <3>2
  <2>3. QED BY <2>2 DEF InBatch, d
<1>8. /\ \A k : WillRelease(call'[t], k) <=> InBatch(Tail(b), k)
      /\ \A k : WillRelease(call[t], k) <=> InBatch(b, k)
      /\ Holds(call[t]) /\ ~ Unpaid(call'[t]) /\ call'[t].at # "approve_mint"
  BY <1>1, <1>2 DEF WillRelease, Rest, Midway, Releasing, Holds, Unpaid, b
<1>9. Less(call'[t], call[t])
  BY <1>2, <1>7, <1>8 DEF Less
<1>10. /\ ConsentsDiffer' /\ Pending' \subseteq Pending
       /\ \A k \in Item : SpentOn(k) \subseteq SpentOn(k)'
  BY <1>2, <1>4, <1>9, DifferKeeps DEF Paying
<1>11. Minted \subseteq Minted' BY <1>4, <1>10 DEF Minted
<1>12. MintedPays'
  <2>1. \A d \in Item : released'[d] = IF d = h THEN released[d] + 1 ELSE released[d]
    BY <1>5 DEF PlanType, EffectType
  <2>2. Released' = Released + 1 BY <1>6, <2>1, ReleasedOnce
  <2>3. Left' = Left - 1 BY <1>4, LeftSpends
  <2>4. QED BY <1>4, <1>11, <2>2, <2>3, PaysStill, Amounts DEF Paying
<1>13. ASSUME NEW k \in Item PROVE released'[k] <= Cardinality(SpentOn(k)')
  <2> DEFINE A == SpentOn(k)
             B == SpentOn(k)'
  <2>1. A \subseteq Consent /\ B \subseteq Consent BY DEF SpentOn, PlanType, CreditType
  <2>2. A \subseteq B /\ released[k] <= Cardinality(A) BY <1>10 DEF Paying, OncePerConsent
  <2>3. k = h => c \in B /\ c \notin A
    <3>1. SUFFICES ASSUME k = h PROVE c \in B /\ c \notin A
      OBVIOUS
    <3>2. c \notin A
      <4>1. InBatch(b, k) BY <1>1, <1>3, <3>1, HeadIsFirst DEF h
      <4>2. QED BY <1>8, <4>1 DEF SpentOn
    <3>3. c \in consumed /\ c # row.nonce BY <1>8 DEF Paying, ConsentsDiffer
    <3>4. ~ WillRelease(call'[t], k) BY <1>7, <1>8, <3>1
    <3>5. \A s \in Caller \ {t} : WillRelease(call'[s], k) => call'[s].consent # c
      BY <1>2, <1>8, Holders DEF Paying, ConsentsDiffer
    <3>6. QED BY <1>4, <3>2, <3>3, <3>4, <3>5 DEF SpentOn
  <2> HIDE DEF A, B
  <2>4. /\ IsFiniteSet(A) /\ IsFiniteSet(B) /\ Cardinality(A) <= Cardinality(B)
        /\ Cardinality(A) \in Nat /\ Cardinality(B) \in Nat
    BY <2>1, <2>2, Finite, FS_Subset, FS_CardinalityType
  <2>5. released[k] \in Nat BY DEF PlanType, EffectType
  <2>6. CASE k = h
    <3>1. A \cup {c} \subseteq B BY <2>2, <2>3, <2>6
    <3>2. Cardinality(A \cup {c}) = Cardinality(A) + 1 BY <2>3, <2>4, <2>6, FS_AddElement
    <3>3. Cardinality(A \cup {c}) <= Cardinality(B) BY <2>4, <3>1, FS_Subset
    <3>4. released'[k] = released[k] + 1 BY <1>5, <2>6 DEF PlanType, EffectType
    <3>5. QED BY <2>2, <2>4, <2>5, <3>2, <3>3, <3>4 DEF B
  <2>7. CASE k # h
    <3>1. released'[k] = released[k] BY <1>5, <2>7 DEF PlanType, EffectType
    <3>2. QED BY <2>2, <2>4, <2>5, <3>1 DEF B
  <2>8. QED BY <2>6, <2>7
<1>14. OncePerConsent' BY <1>13 DEF OncePerConsent, Item
<1>15. QED BY <1>10, <1>12, <1>14 DEF Paying

(* Every step keeps what was paid for and what it paid for. *)
LEMMA PayStep ==
  ASSUME PlanType, PlanType', Control, InOrder, Paying, [Next]_vars
  PROVE  Paying'
<1>0. PlanType /\ PlanType' /\ Control /\ InOrder /\ Paying OBVIOUS
<1>1. ASSUME NEW t \in Caller, NEW c \in Consent, StartBegin(t, c) PROVE Paying'
  <2>1. /\ \A s \in Caller \ {t} : call'[s] = call[s]
        /\ call'[t].at \notin {"start_mint", "resume_signal", "approve_load"} \cup Releasing
    BY <1>0, <1>1, CallBegins, Named DEF StartBegin, CallAt, PlanType, Midway, Releasing
  <2>2. \A s \in Caller : call'[s] = call[s] \/ Less(call'[s], call[s]) BY <2>1, Idles
  <2>3. QED BY <1>0, <1>1, <2>2, PayKeeps DEF StartBegin, durable
<1>2. ASSUME NEW t \in Caller, NEW c \in Consent, ResumeBegin(t, c) PROVE Paying'
  <2>1. /\ \A s \in Caller \ {t} : call'[s] = call[s]
        /\ call'[t].at = "resume_signal" /\ call'[t].consent = c
    BY <1>0, <1>2, CallBegins, Named DEF ResumeBegin, PlanType, Midway
  <2>2. c \in Consent \ consumed /\ consumed' = consumed \cup {c}
    BY <1>2 DEF ResumeBegin, Usable
  <2>3. QED BY <1>0, <1>2, <2>1, <2>2, PayConsumes DEF ResumeBegin
<1>3. ASSUME NEW t \in Caller, NEW c \in Consent, ApproveBegin(t, c) PROVE Paying'
  <2>1. /\ \A s \in Caller \ {t} : call'[s] = call[s]
        /\ call'[t].at \notin {"start_mint", "resume_signal", "approve_load"} \cup Releasing
    BY <1>0, <1>3, CallBegins, Named DEF ApproveBegin, CallAt, PlanType, Midway, Releasing
  <2>2. \A s \in Caller : call'[s] = call[s] \/ Less(call'[s], call[s]) BY <2>1, Idles
  <2>3. QED BY <1>0, <1>3, <2>2, PayKeeps DEF ApproveBegin, durable
<1>4. ASSUME NEW t \in Caller, StartConsume(t) PROVE Paying'
  <2>1. /\ call[t].at = "start_consume" /\ call[t].consent \in Consent
        /\ \A s \in Caller \ {t} : call'[s] = call[s]
    BY <1>0, <1>4, CallGoes, Asking, Named DEF StartConsume, CallAt, PlanType, Midway
  <2>2. CASE Usable(call[t].consent)
    <3>1. call'[t].at = "start_mint" /\ call'[t].consent = call[t].consent
      BY <1>0, <1>4, <2>1, <2>2, CallGoes, Named DEF StartConsume, PlanType, Midway
    <3>2. call[t].consent \notin consumed /\ consumed' = consumed \cup {call[t].consent}
      BY <1>4, <2>2 DEF StartConsume, Usable
    <3>3. QED BY <1>0, <1>4, <2>1, <3>1, <3>2, PayConsumes DEF StartConsume
  <2>3. CASE ~ Usable(call[t].consent)
    <3>1. call'[t] = NoCall
      BY <1>0, <1>4, <2>1, <2>3, CallGoes, Named DEF StartConsume, PlanType, Midway
    <3>2. QED BY <1>0, <1>4, <2>1, <2>3, <3>1, PayKeeps, Holders DEF StartConsume
  <2>4. QED BY <2>2, <2>3
<1>5. ASSUME NEW t \in Caller, StartMint(t) PROVE Paying'
  <2>1. /\ call[t].at = "start_mint" /\ call[t].consent \in Consent
        /\ \A s \in Caller \ {t} : call'[s] = call[s]
        /\ call'[t].at \in {"start_spawn", "idle"}
    BY <1>0, <1>5, CallGoes, Asking, Named DEF StartMint, CallAt, PlanType, Midway
  <2>2. Less(call'[t], call[t]) /\ Unpaid(call[t]) /\ ~ Unpaid(call'[t])
    BY <2>1, Idles DEF Releasing, Unpaid
  <2>3. Budget[call[t].consent] \in Nat BY <2>1, Given
  <2>4. CASE Budget[call[t].consent] >= Admitted
    BY <1>0, <1>5, <2>1, <2>2, <2>3, <2>4, CallMints DEF StartMint
  <2>5. CASE ~ Budget[call[t].consent] >= Admitted
    BY <1>0, <1>5, <2>1, <2>2, <2>5, PayKeeps DEF StartMint
  <2>6. QED BY <2>4, <2>5
<1>6. ASSUME NEW t \in Caller, StartSpawn(t) PROVE Paying'
  <2>1. /\ call[t].at = "start_spawn" /\ call'[t] = NoCall
        /\ \A s \in Caller \ {t} : call'[s] = call[s]
    BY <1>0, <1>6, CallGoes, Named DEF StartSpawn, CallAt, PlanType, Midway
  <2>2. row'.nonce = call[t].consent
    BY <1>0, <1>6 DEF StartSpawn, PlanType, RowType
  <2>3. QED BY <1>0, <1>6, <2>1, <2>2, SpawnPays DEF StartSpawn
<1>7. ASSUME NEW t \in Caller, ResumeSignal(t) PROVE Paying'
  <2>1. /\ call[t].at = "resume_signal" /\ call'[t] = NoCall
        /\ \A s \in Caller \ {t} : call'[s] = call[s]
    BY <1>0, <1>7, CallGoes, Named DEF ResumeSignal, CallAt, PlanType, Midway
  <2>2. UNCHANGED <<row, consumed, direct, released, credit>> BY <1>7 DEF ResumeSignal, durable
  <2>3. signal' = signal \/ signal'.consent = call[t].consent BY <1>7 DEF ResumeSignal, Signalled
  <2>4. CASE signal' = signal BY <1>0, <2>1, <2>2, <2>4, PayKeeps, Holders
  <2>5. CASE signal'.consent = call[t].consent BY <1>0, <2>1, <2>2, <2>5, ResumePays
  <2>6. QED BY <2>3, <2>4, <2>5
<1>8. ASSUME NEW t \in Caller, ApproveConsume(t) PROVE Paying'
  <2>1. /\ call[t].at = "approve_consume" /\ call[t].consent \in Consent
        /\ \A s \in Caller \ {t} : call'[s] = call[s]
    BY <1>0, <1>8, CallGoes, Asking, Named DEF ApproveConsume, CallAt, PlanType, Midway
  <2>2. CASE Usable(call[t].consent)
    <3>1. call'[t].at = "approve_load" /\ call'[t].consent = call[t].consent
      BY <1>0, <1>8, <2>1, <2>2, CallGoes, Named DEF ApproveConsume, PlanType, Midway
    <3>2. call[t].consent \notin consumed /\ consumed' = consumed \cup {call[t].consent}
      BY <1>8, <2>2 DEF ApproveConsume, Usable
    <3>3. QED BY <1>0, <1>8, <2>1, <3>1, <3>2, PayConsumes DEF ApproveConsume
  <2>3. CASE ~ Usable(call[t].consent)
    <3>1. call'[t] = NoCall
      BY <1>0, <1>8, <2>1, <2>3, CallGoes, Named DEF ApproveConsume, PlanType, Midway
    <3>2. QED BY <1>0, <1>8, <2>1, <2>3, <3>1, PayKeeps, Holders DEF ApproveConsume
  <2>4. QED BY <2>2, <2>3
<1>9. ASSUME NEW t \in Caller, ApproveLoad(t) PROVE Paying'
  <2>1. /\ call[t].at = "approve_load" /\ \A s \in Caller \ {t} : call'[s] = call[s]
        /\ \/ call'[t] = NoCall
           \/ /\ call'[t].at = "approve_mint" /\ call'[t].consent = call[t].consent
              /\ Len(call'[t].batch) <= Budget[call'[t].consent]
    BY <1>0, <1>9, Loads DEF PlanType
  <2>2. Less(call'[t], call[t])
    BY <2>1, Holders DEF Less, Holds, Unpaid, WillRelease, Releasing
  <2>3. QED BY <1>0, <1>9, <2>1, <2>2, PayKeeps DEF ApproveLoad, durable
<1>10. ASSUME NEW t \in Caller, ApproveMint(t) PROVE Paying'
  <2> DEFINE n == Len(call[t].batch)
  <2>1. /\ call[t].at = "approve_mint" /\ call[t].consent \in Consent /\ n \in Nat
        /\ \A s \in Caller \ {t} : call'[s] = call[s]
        /\ call'[t].at = "approve_count" /\ call'[t].consent = call[t].consent
        /\ call'[t].batch = call[t].batch
    BY <1>0, <1>10, CallGoes, Asking, Named DEF ApproveMint, CallAt, PlanType, Midway
  <2>2. Less(call'[t], call[t]) /\ Unpaid(call[t]) /\ ~ Unpaid(call'[t])
    BY <2>1 DEF Less, Holds, Unpaid, WillRelease, Rest, Midway, Releasing
  <2>3. n <= Budget[call[t].consent] BY <1>0, <2>1 DEF Paying, ConsentsDiffer
  <2>4. Mint(call[t].consent, n) BY <1>10 DEF ApproveMint
  <2> HIDE DEF n
  <2>5. QED BY <1>0, <1>10, <2>1, <2>2, <2>3, <2>4, CallMints DEF ApproveMint
<1>11. ASSUME NEW t \in Caller, ApproveCount(t) PROVE Paying'
  <2>1. /\ call[t].at = "approve_count" /\ \A s \in Caller \ {t} : call'[s] = call[s]
        /\ call'[t].at = "release" /\ call'[t].consent = call[t].consent
        /\ call'[t].batch = call[t].batch
    BY <1>0, <1>11, Counts DEF PlanType
  <2>2. Less(call'[t], call[t])
    BY <2>1 DEF Less, Holds, Unpaid, WillRelease, Rest, Midway, Releasing
  <2>3. QED BY <1>0, <1>11, <2>1, <2>2, PayKeeps DEF ApproveCount, durable
<1>12. ASSUME NEW t \in Caller, Release(t) PROVE Paying'
  BY <1>0, <1>12, ReleasePays
<1>13. ASSUME NEW t \in Caller, ReleaseLog(t) PROVE Paying'
  <2>1. /\ call[t].at = "release_log" /\ \A s \in Caller \ {t} : call'[s] = call[s]
        /\ \/ call'[t] = NoCall
           \/ /\ call'[t].at = "release_mark" /\ call'[t].consent = call[t].consent
              /\ call'[t].batch = call[t].batch
    BY <1>0, <1>13, Logs DEF PlanType
  <2>2. Less(call'[t], call[t])
    BY <2>1, Holders DEF Less, Holds, Unpaid, WillRelease, Rest, Midway, Releasing
  <2>3. QED BY <1>0, <1>13, <2>1, <2>2, PayKeeps DEF ReleaseLog
<1>14. ASSUME NEW t \in Caller, ReleaseMark(t) PROVE Paying'
  <2>1. /\ call[t].at = "release_mark" /\ \A s \in Caller \ {t} : call'[s] = call[s]
        /\ call'[t].at = "release" /\ call'[t].consent = call[t].consent
        /\ call'[t].batch = Tail(call[t].batch)
    BY <1>0, <1>14, Marks DEF PlanType
  <2>2. Less(call'[t], call[t])
    BY <2>1 DEF Less, Holds, Unpaid, WillRelease, Rest, Midway, Releasing
  <2>3. QED BY <1>0, <1>14, <2>1, <2>2, PayKeeps DEF ReleaseMark
<1>15. ASSUME NEW t \in Caller, ReleaseFails(t) PROVE Paying'
  <2>1. /\ \A s \in Caller \ {t} : call'[s] = call[s]
        /\ call'[t].at \notin {"start_mint", "resume_signal", "approve_load"} \cup Releasing
    BY <1>0, <1>15, CallGoes, Named DEF ReleaseFails, CallAt, PlanType, Midway, Releasing
  <2>2. \A s \in Caller : call'[s] = call[s] \/ Less(call'[s], call[s]) BY <2>1, Idles
  <2>3. QED BY <1>0, <1>15, <2>2, PayKeeps DEF ReleaseFails, durable, CallFails
<1>16. ASSUME NEW t \in Caller, ApproveDrop(t) PROVE Paying'
  <2>1. /\ \A s \in Caller \ {t} : call'[s] = call[s]
        /\ call'[t].at \notin {"start_mint", "resume_signal", "approve_load"} \cup Releasing
    BY <1>0, <1>16, CallGoes, Named DEF ApproveDrop, CallAt, PlanType, Midway, Releasing
  <2>2. \A s \in Caller : call'[s] = call[s] \/ Less(call'[s], call[s]) BY <2>1, Idles
  <2>3. QED BY <1>0, <1>16, <2>2, PayKeeps DEF ApproveDrop, durable
<1>17. ASSUME NEW t \in Caller, ApproveTeardown(t) PROVE Paying'
  <2>1. /\ \A s \in Caller \ {t} : call'[s] = call[s]
        /\ call'[t].at \notin {"start_mint", "resume_signal", "approve_load"} \cup Releasing
    BY <1>0, <1>17, CallGoes, Named DEF ApproveTeardown, CallAt, PlanType, Midway, Releasing
  <2>2. \A s \in Caller : call'[s] = call[s] \/ Less(call'[s], call[s]) BY <2>1, Idles
  <2>3. QED BY <1>0, <1>17, <2>2, PayKeeps DEF ApproveTeardown, durable
<1>18. ASSUME NEW t \in Caller, ApproveCommit(t) PROVE Paying'
  <2>1. /\ \A s \in Caller \ {t} : call'[s] = call[s]
        /\ call'[t].at \notin {"start_mint", "resume_signal", "approve_load"} \cup Releasing
    BY <1>0, <1>18, CallGoes, Named DEF ApproveCommit, CallAt, PlanType, Midway, Releasing
  <2>2. \A s \in Caller : call'[s] = call[s] \/ Less(call'[s], call[s]) BY <2>1, Idles
  <2>3. QED BY <1>0, <1>18, <2>2, PayKeeps DEF ApproveCommit, durable
<1>19. ASSUME NEW t \in Caller, ApproveKeep(t) PROVE Paying'
  <2>1. /\ \A s \in Caller \ {t} : call'[s] = call[s]
        /\ call'[t].at \notin {"start_mint", "resume_signal", "approve_load"} \cup Releasing
    BY <1>0, <1>19, CallGoes, Named DEF ApproveKeep, CallAt, PlanType, Midway, Releasing
  <2>2. \A s \in Caller : call'[s] = call[s] \/ Less(call'[s], call[s]) BY <2>1, Idles
  <2>3. QED BY <1>0, <1>19, <2>2, PayKeeps DEF ApproveKeep, durable
<1>20. ASSUME NEW t \in Caller, ApproveFinish(t) PROVE Paying'
  <2>1. call'[t] = NoCall /\ \A s \in Caller \ {t} : call'[s] = call[s]
    BY <1>0, <1>20, CallGoes, Named DEF ApproveFinish, CallAt, PlanType, Midway
  <2>2. row'.nonce = row.nonce
    BY <1>0, <1>20, RunEnds, Named DEF ApproveFinish, FinishRun, PlanType
  <2>3. QED BY <1>0, <1>20, <2>1, <2>2, PayKeeps, Holders DEF ApproveFinish
<1>21. ASSUME OverBound PROVE Paying'
  BY <1>0, <1>21, PayKeeps
  DEF OverBound, durable, volatile
<1>22. ASSUME Withhold PROVE Paying'
  BY <1>0, <1>22, PayKeeps
  DEF Withhold, durable, volatile
<1>23. ASSUME Emit PROVE Paying'
  BY <1>0, <1>23, EmitPays
<1>24. ASSUME LogEmit PROVE Paying'
  BY <1>0, <1>24, PayKeeps
  DEF LogEmit, durable, volatile
<1>25. ASSUME Exhausted PROVE Paying'
  BY <1>0, <1>25, PayKeeps
  DEF Exhausted, durable, volatile
<1>26. ASSUME EmitFails PROVE Paying'
  <2>1. credit' = credit \/ Paid BY <1>26 DEF EmitFails, CallFails, Refused
  <2>2. QED BY <1>0, <1>26, <2>1, PayKeeps DEF EmitFails
<1>27. ASSUME Stop PROVE Paying'
  BY <1>0, <1>27, PayKeeps
  DEF Stop, durable, volatile
<1>28. ASSUME Park PROVE Paying'
  BY <1>0, <1>28, PayKeeps
  DEF Park, durable, volatile, PlanType, RowType
<1>29. ASSUME Wake PROVE Paying'
  <2>1. CASE signal.kind = "abort"
    BY <1>0, <1>29, <2>1, PayKeeps DEF Wake, NoSignal
  <2>2. CASE signal.kind # "abort"
    <3>1. signal.consent # NoConsent
      BY <1>0, <1>29, <2>2 DEF Wake, PlanType, SignalType, NoSignal, AnyConsent
    <3>2. QED BY <1>0, <1>29, <2>2, <3>1, WakeMints DEF Wake
  <2>3. QED BY <2>1, <2>2
<1>30. ASSUME Unpark PROVE Paying'
  BY <1>0, <1>30, PayKeeps
  DEF Unpark, durable, volatile, PlanType, RowType
<1>31. ASSUME CommitRun PROVE Paying'
  BY <1>0, <1>31, PayKeeps
  DEF CommitRun, durable, volatile
<1>32. ASSUME AwaitHandle PROVE Paying'
  BY <1>0, <1>32, PayKeeps
  DEF AwaitHandle, durable, volatile
<1>33. ASSUME AwaitRow PROVE Paying'
  BY <1>0, <1>33, PayKeeps
  DEF AwaitRow, durable, volatile, PlanType, RowType
<1>34. ASSUME DropRun PROVE Paying'
  BY <1>0, <1>34, PayKeeps
  DEF DropRun, durable, volatile
<1>35. ASSUME TeardownRun PROVE Paying'
  BY <1>0, <1>35, PayKeeps
  DEF TeardownRun, durable, volatile
<1>36. ASSUME Finish PROVE Paying'
  <2>1. interp.outcome \in Outcome BY <1>0, Named DEF PlanType, InterpType
  <2>2. row'.nonce = row.nonce BY <1>0, <1>36, <2>1, RunEnds DEF Finish, FinishRun, PlanType
  <2>3. QED BY <1>0, <1>36, <2>2, PayKeeps DEF Finish, volatile
<1>37. ASSUME ExpireCollect PROVE Paying'
  BY <1>0, <1>37, PayKeeps
  DEF ExpireCollect, durable, volatile
<1>38. ASSUME ExpireAbort PROVE Paying'
  BY <1>0, <1>38, PayKeeps
  DEF ExpireAbort, Abort, durable, volatile
<1>39. ASSUME ExpireDrop PROVE Paying'
  BY <1>0, <1>39, PayKeeps
  DEF ExpireDrop, durable, volatile
<1>40. ASSUME ExpireTeardown PROVE Paying'
  BY <1>0, <1>40, PayKeeps
  DEF ExpireTeardown, durable, volatile
<1>41. ASSUME ExpireFinish PROVE Paying'
  <2>1. "aborted" \in Outcome BY <1>0, Named DEF PlanType, InterpType
  <2>2. row'.nonce = row.nonce BY <1>0, <1>41, <2>1, RunEnds DEF ExpireFinish, FinishRun, PlanType
  <2>3. QED BY <1>0, <1>41, <2>2, PayKeeps DEF ExpireFinish, volatile
<1>42. ASSUME Open PROVE Paying'
  BY <1>0, <1>42, PayKeeps
  DEF Open, durable, volatile
<1>43. ASSUME RecoverDrop PROVE Paying'
  BY <1>0, <1>43, PayKeeps
  DEF RecoverDrop, durable, volatile
<1>44. ASSUME RecoverTeardown PROVE Paying'
  BY <1>0, <1>44, PayKeeps
  DEF RecoverTeardown, durable, volatile
<1>45. ASSUME RecoverFinish PROVE Paying'
  <2>1. "aborted" \in Outcome BY <1>0, Named DEF PlanType, InterpType
  <2>2. row'.nonce = row.nonce BY <1>0, <1>45, <2>1, RunEnds DEF RecoverFinish, PlanType
  <2>3. QED BY <1>0, <1>45, <2>2, PayKeeps DEF RecoverFinish, volatile
<1>46. ASSUME Shutdown PROVE Paying'
  BY <1>0, <1>46, PayKeeps
  DEF Shutdown, Abort, durable, volatile
<1>47. ASSUME Exit PROVE Paying'
  <2>1. signal'.consent = NoConsent /\ \A s \in Caller : Less(call'[s], call[s])
    BY <1>47, Ends, Holders DEF Exit, NoSignal
  <2>2. QED BY <1>0, <1>47, <2>1, PayKeeps DEF Exit, durable
<1>48. ASSUME Crash PROVE Paying'
  <2>1. signal'.consent = NoConsent /\ \A s \in Caller : Less(call'[s], call[s])
    BY <1>48, Ends, Holders DEF Crash, NoSignal
  <2>2. QED BY <1>0, <1>48, <2>1, PayKeeps DEF Crash, durable
<1>49. ASSUME Tick PROVE Paying'
  BY <1>0, <1>49, PayKeeps
  DEF Tick, durable, volatile
<1>50. ASSUME UNCHANGED vars PROVE Paying'
  BY <1>0, <1>50, PayKeeps DEF vars, durable, volatile
<1>51. QED
  BY <1>1, <1>2, <1>3, <1>4, <1>5, <1>6, <1>7, <1>8, <1>9, <1>10, <1>11, <1>12, <1>13, <1>14,
      <1>15, <1>16, <1>17, <1>18, <1>19, <1>20, <1>21, <1>22, <1>23, <1>24, <1>25, <1>26, <1>27,
      <1>28, <1>29, <1>30, <1>31, <1>32, <1>33, <1>34, <1>35, <1>36, <1>37, <1>38, <1>39, <1>40,
      <1>41, <1>42, <1>43, <1>44, <1>45, <1>46, <1>47, <1>48, <1>49, <1>50
  DEF Next, Asked, CallStep, InterpStep, SweepStep, OpenStep

(* What was emitted is within what was consented to.                       *)
LEMMA PaidFor ==
  ASSUME PlanType, Control, Paying
  PROVE  WithinConsent
<1>1. consumed \subseteq Consent /\ IsFiniteSet(consumed)
  BY Finite, FS_Subset DEF PlanType, CreditType
<1>2. Consented = BudgetOf(consumed)
  <2> DEFINE f == [c \in consumed |-> Budget[c]]
  <2>1. Consented = SumFunctionOnSet(f, consumed) BY DEF Consented, SumFunction
  <2>2. \A c \in consumed : Budget[c] \in Int /\ f[c] = Budget[c] BY <1>1, Given
  <2> HIDE DEF f
  <2>3. QED BY <1>1, <2>1, <2>2, SumAgrees DEF BudgetOf
<1>3. direct + Released + Left <= Consented
  <2>1. Minted \subseteq consumed BY DEF Minted
  <2>2. /\ BudgetOf(Minted) <= BudgetOf(consumed) /\ BudgetOf(Minted) \in Nat
        /\ BudgetOf(consumed) \in Nat
    BY <1>1, <2>1, Budgets
  <2>3. direct + Released + Left <= BudgetOf(Minted) BY DEF Paying, MintedPays
  <2>4. direct + Released + Left \in Int BY Amounts
  <2>5. QED BY <1>2, <2>2, <2>3, <2>4
<1>4. ASSUME NEW k \in Item, released[k] > 0 PROVE released[k] < Cardinality(consumed)
  <2>1. row.nonce \in consumed
    <3>1. row.state # "admitted" BY <1>4 DEF Control, Untouched
    <3>2. QED BY <3>1 DEF Control, Started
  <2> DEFINE A == SpentOn(k)
             B == consumed \ {row.nonce}
  <2>2. A \subseteq B /\ released[k] <= Cardinality(A)
    BY DEF SpentOn, Paying, OncePerConsent
  <2>3. IsFiniteSet(B) /\ Cardinality(B) = Cardinality(consumed) - 1
    BY <1>1, <2>1, FS_RemoveElement
  <2> HIDE DEF A, B
  <2>4. Cardinality(A) <= Cardinality(B) /\ Cardinality(A) \in Nat
    BY <2>2, <2>3, FS_Subset, FS_CardinalityType
  <2>5. Cardinality(consumed) \in Nat /\ released[k] \in Nat
    BY <1>1, FS_CardinalityType DEF PlanType, EffectType
  <2>6. QED BY <2>2, <2>3, <2>4, <2>5
<1>5. QED BY <1>3, <1>4 DEF WithinConsent, Item

(* WithinConsent, of every run, for any number of overlapping starts,      *)
(* resumes and approvals: no crash and no race spends a consent twice, and *)
(* no withheld effect goes out twice under one.                            *)
THEOREM WithinConsentSafe == Spec => []WithinConsent
<1>1. Init => Paying
  <2> SUFFICES ASSUME Init PROVE Paying
    OBVIOUS
  <2>1. PlanType BY Submitted
  <2>2. \A t \in Caller : ~ Holds(call[t]) /\ call[t].at # "approve_mint"
    BY Holders DEF Init, NoCall
  <2>3. signal.consent = NoConsent BY DEF Init, NoSignal
  <2>4. ConsentsDiffer BY <2>2, <2>3 DEF ConsentsDiffer
  <2>5. Released = 0
    <3>1. released \in [Item -> Nat] /\ \A k \in Item : released[k] = 0 BY DEF Init
    <3>2. QED BY <3>1, Finite, AmountOf, SumOfNaturals DEF Released
  <2>6. Left = 0
    <3>1. credit \in [Consent -> Nat] /\ \A c \in Consent : credit[c] = 0 BY DEF Init
    <3>2. QED BY <3>1, Finite, AmountOf, SumOfNaturals DEF Left
  <2>7. MintedPays
    <3>1. Minted \subseteq Consent BY DEF Minted, Init
    <3>2. BudgetOf(Minted) \in Nat BY <3>1, Budgets
    <3>3. direct = 0 BY DEF Init
    <3>4. QED BY <2>5, <2>6, <3>2, <3>3 DEF MintedPays
  <2>8. OncePerConsent
    <3>1. SUFFICES ASSUME NEW k \in Item PROVE released[k] <= Cardinality(SpentOn(k))
      BY DEF OncePerConsent
    <3>2. SpentOn(k) \subseteq Consent BY DEF SpentOn, Init
    <3>3. Cardinality(SpentOn(k)) \in Nat BY <3>2, Finite, FS_Subset, FS_CardinalityType
    <3>4. released[k] = 0 BY DEF Init
    <3>5. QED BY <3>3, <3>4
  <2>9. QED BY <2>4, <2>7, <2>8 DEF Paying
<1>2. PlanType /\ Control /\ InOrder /\ Paying /\ [Next]_vars => Paying' BY TypeStep, PayStep
<1>3. PlanType /\ Control /\ Paying => WithinConsent BY PaidFor
<1>4. QED BY <1>1, <1>2, <1>3, Controlled, Ordered, PTL DEF Spec

----------------------------------------------------------------------------
(* The log has no gap, an approval counts from an entry that is there, and *)
(* for each effect that was emitted and waits to be logged an entry is     *)
(* still free.                                                             *)
Logging == {t \in Caller : call[t].at = "release_log"}
Unlogged == IF interp.at = "log" THEN 1 ELSE 0
Numbered == {"release"} \cup Midway

LogIsDense == log = 1 .. Cardinality(log)
SeqIsInLog == \A t \in Caller : call[t].at \in Numbered => call[t].seq \in 0 .. Cardinality(log)
LogIsBehind ==
  /\ IsFiniteSet(Logging)
  /\ Cardinality(log) + Cardinality(Logging) + Unlogged <= direct + Released

LogHolds == LogIsDense /\ SeqIsInLog /\ LogIsBehind

(* What is counted. *)
LEMMA Counted ==
  /\ PlanType => Cardinality(log) \in Nat /\ direct \in Nat /\ Released \in Nat /\ Unlogged \in Nat
  /\ PlanType' => /\ Cardinality(log') \in Nat /\ direct' \in Nat /\ Released' \in Nat
                  /\ Unlogged' \in Nat
  /\ LogIsBehind => Cardinality(Logging) \in Nat
BY Amounts, FS_CardinalityType DEF PlanType, LogType, Unlogged, LogIsBehind

(* A call that has nothing more to log, and a number the log has.          *)
Quiet(d, c) ==
  /\ d.at = "release_log" => c.at = "release_log"
  /\ d.at \in Numbered => \/ c.at \in Numbered /\ d.seq = c.seq
                          \/ d.seq \in 0 .. Cardinality(log)

(* A thread that counts nothing is quiet.                                  *)
LEMMA QuietPlaces ==
  ASSUME NEW d, NEW c, d.at \notin Numbered
  PROVE  Quiet(d, c)
BY DEF Quiet, Numbered, Midway

(* A step that emits nothing and logs nothing.                             *)
LEMMA LogKeeps ==
  ASSUME PlanType, PlanType', LogHolds, UNCHANGED <<log, direct, released>>,
         \A s \in Caller : call'[s] = call[s] \/ Quiet(call'[s], call[s]),
         interp'.at = "log" => interp.at = "log"
  PROVE  LogHolds'
<1>1. LogIsDense' BY DEF LogHolds, LogIsDense
<1>2. SeqIsInLog'
  <2>1. SUFFICES ASSUME NEW t \in Caller, call'[t].at \in Numbered
                 PROVE  call'[t].seq \in 0 .. Cardinality(log)
    BY DEF SeqIsInLog
  <2>2. QED BY <2>1 DEF Quiet, LogHolds, SeqIsInLog
<1>3. Logging' \subseteq Logging BY DEF Logging, Quiet
<1>4. IsFiniteSet(Logging') /\ Cardinality(Logging') <= Cardinality(Logging)
  BY <1>3, FS_Subset DEF LogHolds, LogIsBehind
<1>5. Unlogged' <= Unlogged BY DEF Unlogged
<1>6. Released' = Released BY DEF Released
<1>7. /\ Cardinality(Logging') \in Nat /\ Cardinality(Logging) \in Nat
      /\ Unlogged \in Nat /\ Unlogged' \in Nat /\ Cardinality(log) \in Nat
      /\ direct \in Nat /\ Released \in Nat
  BY <1>4, Counted, FS_CardinalityType DEF LogHolds
<1>8. Cardinality(log) + Cardinality(Logging) + Unlogged <= direct + Released
  BY DEF LogHolds, LogIsBehind
<1>9. Cardinality(log) + Cardinality(Logging') + Unlogged' <= direct + Released
  BY <1>4, <1>5, <1>7, <1>8
<1>10. LogIsBehind' BY <1>4, <1>6, <1>9 DEF LogIsBehind
<1>11. QED BY <1>1, <1>2, <1>10 DEF LogHolds

(* One more number in a log that is dense. *)
LEMMA DenseGrows ==
  ASSUME PlanType, LogIsDense
  PROVE  /\ Cardinality(log) \in Nat
         /\ Cardinality(log) + 1 \notin log
         /\ LET l == log \cup {Cardinality(log) + 1} IN
              /\ Cardinality(l) = Cardinality(log) + 1
              /\ l = 1 .. Cardinality(l)
<1> DEFINE n == Cardinality(log)
<1>1. n \in Nat /\ log = 1 .. n /\ IsFiniteSet(log)
  BY FS_CardinalityType DEF PlanType, LogType, LogIsDense
<1> HIDE DEF n
<1>2. n + 1 \notin log /\ log \cup {n + 1} = 1 .. (n + 1) BY <1>1
<1>3. Cardinality(log \cup {n + 1}) = n + 1 BY <1>1, <1>2, FS_AddElement DEF n
<1>4. QED BY <1>1, <1>2, <1>3 DEF n

(* The interpreter emits, and logs what it emitted.                        *)
LEMMA EmitLog ==
  ASSUME PlanType, PlanType', LogHolds, Emit
  PROVE  LogHolds'
<1>1. interp.at = "run" /\ interp'.at = "log"
  BY InterpGoes, Named DEF Emit, Statement, At, PlanType
<1>2. UNCHANGED <<log, call, released>> /\ direct' = direct + 1 BY DEF Emit
<1>3. Unlogged = 0 /\ Unlogged' = 1 BY <1>1 DEF Unlogged
<1>4. Logging' = Logging /\ Released' = Released BY <1>2 DEF Logging, Released
<1>5. LogIsDense' /\ SeqIsInLog' BY <1>2 DEF LogHolds, LogIsDense, SeqIsInLog
<1>6. /\ Cardinality(Logging) \in Nat /\ Cardinality(log) \in Nat
      /\ direct \in Nat /\ Released \in Nat
  BY Counted DEF LogHolds
<1>7. Cardinality(log) + Cardinality(Logging) + 0 <= direct + Released
  BY <1>3 DEF LogHolds, LogIsBehind
<1>8. Cardinality(log) + Cardinality(Logging) + 1 <= (direct + 1) + Released BY <1>6, <1>7
<1>9. LogIsBehind' BY <1>2, <1>3, <1>4, <1>8 DEF LogHolds, LogIsBehind
<1>10. QED BY <1>5, <1>9 DEF LogHolds

(* The interpreter logs what it has emitted, at the next free number.      *)
LEMMA LogEmitLog ==
  ASSUME PlanType, PlanType', LogHolds, LogEmit
  PROVE  LogHolds'
<1> DEFINE n == Cardinality(log)
<1>1. /\ interp.at = "log" /\ interp'.at = "run" /\ log' = log \cup {n + 1}
  BY LogsEmit DEF PlanType
<1>2. UNCHANGED <<call, released, direct>> BY DEF LogEmit
<1>3. Unlogged = 1 /\ Unlogged' = 0 BY <1>1 DEF Unlogged
<1>4. Logging' = Logging /\ Released' = Released BY <1>2 DEF Logging, Released
<1>5. n \in Nat /\ Cardinality(log') = n + 1 /\ log' = 1 .. Cardinality(log')
  BY <1>1, DenseGrows DEF LogHolds
<1> HIDE DEF n
<1>6. LogIsDense' BY <1>5 DEF LogIsDense
<1>7. SeqIsInLog'
  <2>1. \A t \in Caller : call[t].at \in Numbered => call[t].seq \in 0 .. n
    BY DEF LogHolds, SeqIsInLog, n
  <2>2. 0 .. n \subseteq 0 .. n + 1 BY <1>5
  <2>3. QED BY <1>2, <1>5, <2>1, <2>2 DEF SeqIsInLog
<1>8. /\ Cardinality(Logging) \in Nat /\ direct \in Nat /\ Released \in Nat
  BY Counted DEF LogHolds
<1>9. n + Cardinality(Logging) + 1 <= direct + Released
  BY <1>3 DEF LogHolds, LogIsBehind, n
<1>10. (n + 1) + Cardinality(Logging) + 0 <= direct + Released BY <1>5, <1>8, <1>9
<1>11. LogIsBehind' BY <1>2, <1>3, <1>4, <1>5, <1>10 DEF LogHolds, LogIsBehind
<1>12. QED BY <1>6, <1>7, <1>11 DEF LogHolds

(* An approval counts the log, releases and logs what it released.         *)
LEMMA CountLog ==
  ASSUME PlanType, PlanType', LogHolds, NEW t \in Caller, ApproveCount(t)
  PROVE  LogHolds'
<1>1. /\ \A s \in Caller \ {t} : call'[s] = call[s]
      /\ call'[t].at = "release" /\ call'[t].seq = Cardinality(log)
  BY Counts DEF PlanType
<1>2. Cardinality(log) \in Nat BY Counted
<1>3. Quiet(call'[t], call[t]) BY <1>1, <1>2 DEF Quiet
<1>4. UNCHANGED <<log, direct, released, interp>> BY DEF ApproveCount, durable
<1>5. QED BY <1>1, <1>3, <1>4, LogKeeps

(* An approval emits, and from then on waits to log it.                    *)
LEMMA ReleaseIsLogged ==
  ASSUME PlanType, PlanType', Control, InOrder, LogHolds, NEW t \in Caller, Release(t)
  PROVE  LogHolds'
<1> DEFINE b == call[t].batch
           h == Head(b)
<1>1. call[t].at = "release" /\ b \in Seq(Nat) /\ b # <<>>
  BY Asking DEF Release, CallAt, PlanType
<1>2. /\ call'[t].at = "release_log" /\ call'[t].seq = call[t].seq
      /\ \A s \in Caller \ {t} : call'[s] = call[s]
  BY <1>1, CallGoes, Named DEF Release, PlanType
<1>3. Fits(b, buffer, released) BY <1>1 DEF InOrder, BatchInOrder, Releasing
<1>4. UNCHANGED <<log, direct, interp>> BY DEF Release
<1>5. released' = [released EXCEPT ![h] = released[h] + 1]
  BY DEF Release, PlanType, EffectType
<1> HIDE DEF b
<1>6. h \in Item BY <1>1, <1>3, HeadIsFirst, RowsOfPlan
<1> HIDE DEF h
<1>7. Released' = Released + 1
  <2>1. \A d \in Item : released'[d] = IF d = h THEN released[d] + 1 ELSE released[d]
    BY <1>5, <1>6 DEF PlanType, EffectType
  <2>2. QED BY <1>6, <2>1, ReleasedOnce
<1>8. Logging' = Logging \cup {t} /\ t \notin Logging BY <1>1, <1>2 DEF Logging
<1>9. IsFiniteSet(Logging') /\ Cardinality(Logging') = Cardinality(Logging) + 1
  BY <1>8, FS_AddElement DEF LogHolds, LogIsBehind
<1>10. LogIsDense' BY <1>4 DEF LogHolds, LogIsDense
<1>11. SeqIsInLog'
  <2>1. call[t].at \in Numbered BY <1>1 DEF Numbered
  <2>2. QED BY <1>2, <1>4, <2>1 DEF LogHolds, SeqIsInLog
<1>12. Unlogged' = Unlogged BY <1>4 DEF Unlogged
<1>13. /\ Cardinality(Logging) \in Nat /\ Cardinality(log) \in Nat /\ Unlogged \in Nat
       /\ direct \in Nat /\ Released \in Nat
  BY Counted DEF LogHolds
<1>14. Cardinality(log) + Cardinality(Logging) + Unlogged <= direct + Released
  BY DEF LogHolds, LogIsBehind
<1>15. Cardinality(log) + (Cardinality(Logging) + 1) + Unlogged <= direct + (Released + 1)
  BY <1>13, <1>14
<1>16. LogIsBehind' BY <1>4, <1>7, <1>9, <1>12, <1>15 DEF LogIsBehind
<1>17. QED BY <1>10, <1>11, <1>16 DEF LogHolds

(* An approval logs the next number, unless another one took it.           *)
LEMMA ReleaseLogs ==
  ASSUME PlanType, PlanType', LogHolds, NEW t \in Caller, ReleaseLog(t)
  PROVE  LogHolds'
<1> DEFINE n == Cardinality(log)
<1>1. UNCHANGED <<direct, released, interp>> BY DEF ReleaseLog
<1>2. /\ \A s \in Caller \ {t} : call'[s] = call[s]
      /\ call[t].at = "release_log"
      /\ \/ call'[t] = NoCall /\ log' = log
         \/ /\ call[t].seq + 1 \notin log /\ log' = log \cup {call[t].seq + 1}
            /\ call'[t].at = "release_mark" /\ call'[t].seq = call[t].seq + 1
  BY Logs DEF PlanType
<1>3. n \in Nat /\ log = 1 .. n /\ call[t].seq \in 0 .. n
  BY <1>2, Counted DEF LogHolds, LogIsDense, SeqIsInLog, Numbered, Midway
<1>4. CASE call'[t] = NoCall /\ log' = log
  <2>1. Quiet(call'[t], call[t]) BY <1>4 DEF Quiet, NoCall, Numbered, Midway
  <2>2. QED BY <1>1, <1>2, <1>4, <2>1, LogKeeps
<1>5. CASE /\ call[t].seq + 1 \notin log /\ log' = log \cup {call[t].seq + 1}
           /\ call'[t].at = "release_mark" /\ call'[t].seq = call[t].seq + 1
  <2> HIDE DEF n
  <2>1. call[t].seq = n BY <1>3, <1>5
  <2>2. Cardinality(log') = n + 1 /\ log' = 1 .. Cardinality(log')
    BY <1>5, <2>1, DenseGrows DEF LogHolds, n
  <2>3. LogIsDense' BY <2>2 DEF LogIsDense
  <2>4. SeqIsInLog'
    <3>1. \A s \in Caller : call[s].at \in Numbered => call[s].seq \in 0 .. n
      BY DEF LogHolds, SeqIsInLog, n
    <3>2. 0 .. n \subseteq 0 .. n + 1 /\ n + 1 \in 0 .. n + 1 BY <1>3
    <3>3. QED BY <1>2, <1>5, <2>1, <2>2, <3>1, <3>2 DEF SeqIsInLog
  <2>5. Logging' = Logging \ {t} /\ t \in Logging BY <1>2, <1>5 DEF Logging
  <2>6. IsFiniteSet(Logging') /\ Cardinality(Logging') = Cardinality(Logging) - 1
    BY <2>5, FS_RemoveElement DEF LogHolds, LogIsBehind
  <2>7. Unlogged' = Unlogged /\ Released' = Released BY <1>1 DEF Unlogged, Released
  <2>8. /\ Cardinality(Logging) \in Nat /\ Unlogged \in Nat /\ direct \in Nat /\ Released \in Nat
    BY Counted DEF LogHolds
  <2>9. n + Cardinality(Logging) + Unlogged <= direct + Released
    BY DEF LogHolds, LogIsBehind, n
  <2>10. (n + 1) + (Cardinality(Logging) - 1) + Unlogged <= direct + Released
    BY <1>3, <2>8, <2>9
  <2>11. LogIsBehind' BY <1>1, <2>2, <2>6, <2>7, <2>10 DEF LogIsBehind
  <2>12. QED BY <2>3, <2>4, <2>11 DEF LogHolds
<1>6. QED BY <1>2, <1>4, <1>5

(* A mark leaves the log as it is.                                         *)
LEMMA MarkLog ==
  ASSUME PlanType, PlanType', LogHolds, NEW t \in Caller, ReleaseMark(t)
  PROVE  LogHolds'
<1>1. UNCHANGED <<log, direct, released, interp>> BY DEF ReleaseMark
<1>2. /\ \A s \in Caller \ {t} : call'[s] = call[s]
      /\ call[t].at = "release_mark" /\ call'[t].at = "release"
  BY Marks DEF PlanType
<1>3. call'[t].seq = call[t].seq
  <2> DEFINE d == Tail(call[t].batch)
  <2>1. call' = [call EXCEPT ![t] = [[call[t] EXCEPT !.at = "release"] EXCEPT !.batch = d]]
    BY DEF ReleaseMark, PlanType, CallType
  <2> HIDE DEF d
  <2>2. QED BY <2>1 DEF PlanType, CallType, CallState
<1>4. Quiet(call'[t], call[t]) BY <1>2, <1>3 DEF Quiet, Numbered, Midway
<1>5. QED BY <1>1, <1>2, <1>4, LogKeeps

(* No other step of the interpreter leaves it with an effect to log.       *)
LEMMA InterpQuiet ==
  ASSUME PlanType,
         \/ OverBound \/ Withhold \/ Exhausted \/ EmitFails \/ Stop \/ Park \/ Wake \/ Unpark
         \/ CommitRun \/ AwaitHandle \/ AwaitRow \/ DropRun \/ TeardownRun \/ Finish
  PROVE  interp'.at # "log" /\ UNCHANGED <<log, direct, released, call>>
<1>0. InterpType /\ BufferType BY DEF PlanType
<1>1. UNCHANGED <<log, direct, released, call>>
  BY DEF OverBound, Withhold, Exhausted, EmitFails, Stop, Park, Wake, Unpark, CommitRun,
         AwaitHandle, AwaitRow, DropRun, TeardownRun, Finish, durable
<1>2. ASSUME NEW to \in {"park", "wait", "unpark", "run", "await", "teardown", "finish"}, IGoes(to)
      PROVE  interp'.at # "log"
  BY <1>0, <1>2, InterpGoes, Named
<1>3. ASSUME NEW o \in Outcome, Fails(o) PROVE interp'.at # "log"
  BY <1>0, <1>3, InterpFails
<1>4. CASE OverBound BY <1>0, <1>1, <1>4, Bounds
<1>5. CASE Withhold BY <1>0, <1>1, <1>5, Withholds
<1>6. CASE Exhausted \/ EmitFails \/ Stop
  BY <1>1, <1>2, <1>3, <1>6, Named DEF Exhausted, EmitFails, Stop
<1>7. CASE Park \/ Wake \/ Unpark \/ AwaitHandle \/ DropRun \/ TeardownRun
  BY <1>1, <1>2, <1>3, <1>7, Named DEF Park, Wake, Unpark, AwaitHandle, DropRun, TeardownRun
<1>8. CASE CommitRun BY <1>0, <1>1, <1>8, Commits
<1>9. CASE AwaitRow \/ Finish BY <1>1, <1>9, Rests DEF AwaitRow, Finish
<1>10. QED BY <1>1, <1>4, <1>5, <1>6, <1>7, <1>8, <1>9

(* Every step keeps it, however many approvals overlap.                    *)
LEMMA LogStep ==
  ASSUME PlanType, PlanType', Control, InOrder, LogHolds, [Next]_vars
  PROVE  LogHolds'
<1>0. /\ PlanType /\ PlanType' /\ Control /\ InOrder /\ LogHolds
  OBVIOUS
<1>1. ASSUME NEW t \in Caller, NEW c \in Consent, StartBegin(t, c) PROVE LogHolds'
  <2>1. /\ call'[t].at \notin Numbered
        /\ \A s \in Caller \ {t} : call'[s] = call[s]
    BY <1>0, <1>1, CallBegins, Named DEF StartBegin, PlanType, Numbered, Midway
  <2>2. Quiet(call'[t], call[t]) BY <2>1, QuietPlaces
  <2>3. QED BY <1>0, <1>1, <2>1, <2>2, LogKeeps DEF StartBegin, durable
<1>2. ASSUME NEW t \in Caller, NEW c \in Consent, ResumeBegin(t, c) PROVE LogHolds'
  <2>1. /\ call'[t].at \notin Numbered
        /\ \A s \in Caller \ {t} : call'[s] = call[s]
    BY <1>0, <1>2, CallBegins, Named DEF ResumeBegin, PlanType, Numbered, Midway
  <2>2. Quiet(call'[t], call[t]) BY <2>1, QuietPlaces
  <2>3. QED BY <1>0, <1>2, <2>1, <2>2, LogKeeps DEF ResumeBegin, durable
<1>3. ASSUME NEW t \in Caller, NEW c \in Consent, ApproveBegin(t, c) PROVE LogHolds'
  <2>1. /\ call'[t].at \notin Numbered
        /\ \A s \in Caller \ {t} : call'[s] = call[s]
    BY <1>0, <1>3, CallBegins, Named DEF ApproveBegin, PlanType, Numbered, Midway
  <2>2. Quiet(call'[t], call[t]) BY <2>1, QuietPlaces
  <2>3. QED BY <1>0, <1>3, <2>1, <2>2, LogKeeps DEF ApproveBegin, durable
<1>4. ASSUME NEW t \in Caller, StartConsume(t) PROVE LogHolds'
  <2>1. /\ call'[t].at \notin Numbered
        /\ \A s \in Caller \ {t} : call'[s] = call[s]
    BY <1>0, <1>4, CallGoes, Named DEF StartConsume, CallAt, PlanType, Numbered, Midway
  <2>2. Quiet(call'[t], call[t]) BY <2>1, QuietPlaces
  <2>3. QED BY <1>0, <1>4, <2>1, <2>2, LogKeeps DEF StartConsume, durable
<1>5. ASSUME NEW t \in Caller, StartMint(t) PROVE LogHolds'
  <2>1. /\ call'[t].at \notin Numbered
        /\ \A s \in Caller \ {t} : call'[s] = call[s]
    BY <1>0, <1>5, CallGoes, Named DEF StartMint, CallAt, PlanType, Numbered, Midway
  <2>2. Quiet(call'[t], call[t]) BY <2>1, QuietPlaces
  <2>3. QED BY <1>0, <1>5, <2>1, <2>2, LogKeeps DEF StartMint, durable
<1>6. ASSUME NEW t \in Caller, StartSpawn(t) PROVE LogHolds'
  <2>1. /\ call'[t].at \notin Numbered
        /\ \A s \in Caller \ {t} : call'[s] = call[s]
    BY <1>0, <1>6, CallGoes, Named DEF StartSpawn, CallAt, PlanType, Numbered, Midway
  <2>2. Quiet(call'[t], call[t]) BY <2>1, QuietPlaces
  <2>3. interp'.at = "run" BY <1>6, Spawns DEF StartSpawn
  <2>4. QED BY <1>0, <1>6, <2>1, <2>2, <2>3, LogKeeps DEF StartSpawn, durable
<1>7. ASSUME NEW t \in Caller, ResumeSignal(t) PROVE LogHolds'
  <2>1. /\ call'[t].at \notin Numbered
        /\ \A s \in Caller \ {t} : call'[s] = call[s]
    BY <1>0, <1>7, CallGoes, Named DEF ResumeSignal, CallAt, PlanType, Numbered, Midway
  <2>2. Quiet(call'[t], call[t]) BY <2>1, QuietPlaces
  <2>3. QED BY <1>0, <1>7, <2>1, <2>2, LogKeeps DEF ResumeSignal, durable
<1>8. ASSUME NEW t \in Caller, ApproveConsume(t) PROVE LogHolds'
  <2>1. /\ call'[t].at \notin Numbered
        /\ \A s \in Caller \ {t} : call'[s] = call[s]
    BY <1>0, <1>8, CallGoes, Named DEF ApproveConsume, CallAt, PlanType, Numbered, Midway
  <2>2. Quiet(call'[t], call[t]) BY <2>1, QuietPlaces
  <2>3. QED BY <1>0, <1>8, <2>1, <2>2, LogKeeps DEF ApproveConsume, durable
<1>9. ASSUME NEW t \in Caller, ApproveMint(t) PROVE LogHolds'
  <2>1. /\ call'[t].at \notin Numbered
        /\ \A s \in Caller \ {t} : call'[s] = call[s]
    BY <1>0, <1>9, CallGoes, Named DEF ApproveMint, CallAt, PlanType, Numbered, Midway
  <2>2. Quiet(call'[t], call[t]) BY <2>1, QuietPlaces
  <2>3. QED BY <1>0, <1>9, <2>1, <2>2, LogKeeps DEF ApproveMint, durable
<1>10. ASSUME NEW t \in Caller, ReleaseFails(t) PROVE LogHolds'
  <2>1. /\ call'[t].at \notin Numbered
        /\ \A s \in Caller \ {t} : call'[s] = call[s]
    BY <1>0, <1>10, CallGoes, Named DEF ReleaseFails, CallAt, PlanType, Numbered, Midway
  <2>2. Quiet(call'[t], call[t]) BY <2>1, QuietPlaces
  <2>3. QED BY <1>0, <1>10, <2>1, <2>2, LogKeeps DEF ReleaseFails, durable
<1>11. ASSUME NEW t \in Caller, ApproveDrop(t) PROVE LogHolds'
  <2>1. /\ call'[t].at \notin Numbered
        /\ \A s \in Caller \ {t} : call'[s] = call[s]
    BY <1>0, <1>11, CallGoes, Named DEF ApproveDrop, CallAt, PlanType, Numbered, Midway
  <2>2. Quiet(call'[t], call[t]) BY <2>1, QuietPlaces
  <2>3. QED BY <1>0, <1>11, <2>1, <2>2, LogKeeps DEF ApproveDrop, durable
<1>12. ASSUME NEW t \in Caller, ApproveTeardown(t) PROVE LogHolds'
  <2>1. /\ call'[t].at \notin Numbered
        /\ \A s \in Caller \ {t} : call'[s] = call[s]
    BY <1>0, <1>12, CallGoes, Named DEF ApproveTeardown, CallAt, PlanType, Numbered, Midway
  <2>2. Quiet(call'[t], call[t]) BY <2>1, QuietPlaces
  <2>3. QED BY <1>0, <1>12, <2>1, <2>2, LogKeeps DEF ApproveTeardown, durable
<1>13. ASSUME NEW t \in Caller, ApproveCommit(t) PROVE LogHolds'
  <2>1. /\ call'[t].at \notin Numbered
        /\ \A s \in Caller \ {t} : call'[s] = call[s]
    BY <1>0, <1>13, CallGoes, Named DEF ApproveCommit, CallAt, PlanType, Numbered, Midway
  <2>2. Quiet(call'[t], call[t]) BY <2>1, QuietPlaces
  <2>3. QED BY <1>0, <1>13, <2>1, <2>2, LogKeeps DEF ApproveCommit, durable
<1>14. ASSUME NEW t \in Caller, ApproveKeep(t) PROVE LogHolds'
  <2>1. /\ call'[t].at \notin Numbered
        /\ \A s \in Caller \ {t} : call'[s] = call[s]
    BY <1>0, <1>14, CallGoes, Named DEF ApproveKeep, CallAt, PlanType, Numbered, Midway
  <2>2. Quiet(call'[t], call[t]) BY <2>1, QuietPlaces
  <2>3. QED BY <1>0, <1>14, <2>1, <2>2, LogKeeps DEF ApproveKeep, durable
<1>15. ASSUME NEW t \in Caller, ApproveFinish(t) PROVE LogHolds'
  <2>1. /\ call'[t].at \notin Numbered
        /\ \A s \in Caller \ {t} : call'[s] = call[s]
    BY <1>0, <1>15, CallGoes, Named DEF ApproveFinish, CallAt, PlanType, Numbered, Midway
  <2>2. Quiet(call'[t], call[t]) BY <2>1, QuietPlaces
  <2>3. QED BY <1>0, <1>15, <2>1, <2>2, LogKeeps DEF ApproveFinish, durable
<1>16. ASSUME NEW t \in Caller, ApproveLoad(t) PROVE LogHolds'
  <2>1. /\ call'[t].at \notin Numbered
        /\ \A s \in Caller \ {t} : call'[s] = call[s]
    BY <1>0, <1>16, Loads DEF PlanType, NoCall, Numbered, Midway
  <2>2. Quiet(call'[t], call[t]) BY <2>1, QuietPlaces
  <2>3. QED BY <1>0, <1>16, <2>1, <2>2, LogKeeps DEF ApproveLoad, durable
<1>17. ASSUME NEW t \in Caller, ApproveCount(t) PROVE LogHolds'
  BY <1>0, <1>17, CountLog
<1>18. ASSUME NEW t \in Caller, Release(t) PROVE LogHolds'
  BY <1>0, <1>18, ReleaseIsLogged
<1>19. ASSUME NEW t \in Caller, ReleaseLog(t) PROVE LogHolds'
  BY <1>0, <1>19, ReleaseLogs
<1>20. ASSUME NEW t \in Caller, ReleaseMark(t) PROVE LogHolds'
  BY <1>0, <1>20, MarkLog
<1>21. CASE Emit BY <1>0, <1>21, EmitLog
<1>22. CASE LogEmit BY <1>0, <1>22, LogEmitLog
<1>23. CASE \/ OverBound \/ Withhold \/ Exhausted \/ EmitFails \/ Stop \/ Park \/ Wake \/ Unpark
         \/ CommitRun \/ AwaitHandle \/ AwaitRow \/ DropRun \/ TeardownRun \/ Finish
  <2>1. interp'.at # "log" /\ UNCHANGED <<log, direct, released, call>>
    BY <1>0, <1>23, InterpQuiet
  <2>2. QED BY <1>0, <2>1, LogKeeps
<1>24. CASE SweepStep \/ OpenStep \/ Shutdown \/ Tick
  <2>1. UNCHANGED <<log, direct, released, call, interp>>
    BY <1>24 DEF SweepStep, ExpireCollect, ExpireAbort, ExpireDrop, ExpireTeardown, ExpireFinish,
                 OpenStep, Open, RecoverDrop, RecoverTeardown, RecoverFinish, Shutdown, Tick,
                 durable, volatile
  <2>2. QED BY <1>0, <2>1, LogKeeps
<1>25. CASE Exit \/ Crash
  <2>1. UNCHANGED <<log, direct, released>> /\ Cleared BY <1>25 DEF Exit, Crash, durable
  <2>2. \A s \in Caller : call'[s] = NoCall BY <2>1, Ends
  <2>3. \A s \in Caller : Quiet(call'[s], call[s])
    BY <2>2, QuietPlaces DEF NoCall, Numbered, Midway
  <2>4. interp'.at # "log" BY <2>1 DEF Cleared, NoInterp
  <2>5. QED BY <1>0, <2>1, <2>3, <2>4, LogKeeps
<1>26. CASE UNCHANGED vars
  BY <1>0, <1>26, LogKeeps DEF vars, durable, volatile
<1>27. QED
  BY <1>1, <1>2, <1>3, <1>4, <1>5, <1>6, <1>7, <1>8, <1>9, <1>10, <1>11, <1>12, <1>13, <1>14,
      <1>15, <1>16, <1>17, <1>18, <1>19, <1>20, <1>21, <1>22, <1>23, <1>24, <1>25, <1>26
  DEF Next, Asked, CallStep, InterpStep

(* JournalIsTrue, of every run, for any number of overlapping approvals    *)
(* and crashes: what the tables say went out did go out.                   *)
THEOREM JournalSafe == Spec => []JournalIsTrue
<1>1. Init => LogHolds
  <2> SUFFICES ASSUME Init PROVE LogHolds
    OBVIOUS
  <2>1. PlanType BY Submitted
  <2>2. log = {} /\ Cardinality(log) = 0 BY FS_EmptySet DEF Init
  <2>3. \A t \in Caller : call[t].at = "idle" BY DEF Init, NoCall
  <2>4. Logging = {} /\ Unlogged = 0
    BY <2>3 DEF Logging, Unlogged, Init, NoInterp
  <2>5. IsFiniteSet(Logging) /\ Cardinality(Logging) = 0 BY <2>4, FS_EmptySet
  <2>6. LogIsBehind
    <3>1. direct \in Nat /\ Released \in Nat BY <2>1, Counted
    <3>2. QED BY <2>2, <2>4, <2>5, <3>1 DEF LogIsBehind
  <2>7. LogIsDense BY <2>2 DEF LogIsDense
  <2>8. SeqIsInLog BY <2>3 DEF SeqIsInLog, Numbered, Midway
  <2>9. QED BY <2>6, <2>7, <2>8 DEF LogHolds
<1>2. PlanType /\ Control /\ InOrder /\ LogHolds /\ [Next]_vars => LogHolds'
  BY TypeStep, LogStep
<1>3. PlanType /\ InOrder /\ LogHolds => JournalIsTrue
  <2> SUFFICES ASSUME PlanType, InOrder, LogHolds PROVE JournalIsTrue
    OBVIOUS
  <2>1. /\ Cardinality(log) \in Nat /\ Cardinality(Logging) \in Nat /\ Unlogged \in Nat
        /\ direct \in Nat /\ Released \in Nat
    BY Counted DEF LogHolds
  <2>2. Cardinality(log) + Cardinality(Logging) + Unlogged <= direct + Released
    BY DEF LogHolds, LogIsBehind
  <2>3. Cardinality(log) <= direct + Released BY <2>1, <2>2
  <2>4. log = 1 .. Cardinality(log) BY DEF LogHolds, LogIsDense
  <2>5. MarkedIsOut BY DEF InOrder
  <2>6. QED BY <2>3, <2>4, <2>5 DEF JournalIsTrue, MarkedIsOut
<1>4. QED BY <1>1, <1>2, <1>3, Controlled, Ordered, PTL DEF Spec
=============================================================================
