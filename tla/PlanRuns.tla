------------------------------ MODULE PlanRuns ------------------------------
(***************************************************************************)
(* One plan run of crates/portos-kernel/src/plans: admitted, started under *)
(* a consent, interpreted, suspended when it lacks budget or when effects  *)
(* were withheld, approved or expired, and recovered after a crash.  Runs  *)
(* share only the table of consents and one is modelled, under consents    *)
(* that were all signed for its plan.                                      *)
(*                                                                         *)
(* Within a process four kinds of thread interleave between their database *)
(* statements: callers of the service, the interpreter, the sweeper, and   *)
(* the one that opens or drops the host.  One process at a time has the    *)
(* root open.  The evaluation of statements is data: a statement may fail. *)
(***************************************************************************)
EXTENDS Integers, FiniteSetsExt, SequencesExt

CONSTANTS
  Consent,     \* signed consents, by nonce
  NoConsent,
  Budget,      \* Budget[c]: the effects consent c pays for
  Expiry,      \* Expiry[c]: issued_at + ttl_secs, above 0
  Plan,        \* the effects of a whole run: "emit", or "withhold" by policy
  Loop,        \* the first that is in the loop
  Admitted,    \* how many the plan's bounds admit
  Mode,        \* the modes the loop may have
  Caller,      \* threads that call the service
  MaxTime,     \* the last second
  MaxFaults    \* crashes and failing calls altogether

ASSUME PlanAssumption ==
  /\ IsFiniteSet(Consent) /\ NoConsent \notin Consent
  /\ Budget \in [Consent -> Nat] /\ Expiry \in [Consent -> Nat \ {0}]
  /\ Plan \in Seq({"emit", "withhold"})
  /\ Loop \in 1 .. Len(Plan) /\ Admitted \in Loop - 1 .. Len(Plan) - 1
  /\ Mode \subseteq {"strict", "truncate", "escalate"}
  /\ MaxTime \in Nat /\ MaxFaults \in Nat

VARIABLES
  row,         \* plan_runs: state, nonce and outcome
  buffer,      \* suppression_buffer: the state of each withheld effect
  consumed,    \* consents: the nonces that were used
  credit,      \* what is left of the counted capabilities of each consent
  log,         \* emission_log: its sequence numbers
  segment,     \* the holdings of the run's segment
  direct,      \* effects the interpreter had emitted
  released,    \* how often each withheld effect was emitted
  now,
  up,          \* the process: down, in recovery, up or stopping
  mem,         \* its RunHandle: state and original_ttl_at
  signal,      \* its RunControl
  interp,      \* its interpreter: where, statement, last, withheld, outcome
  call,        \* its callers: where, consent, batch, sequence number
  sweep,       \* its sweeper: where, and the state it saw
  faults

durable == <<row, buffer, consumed, credit, log, segment, direct, released>>
volatile == <<mem, signal, interp, call, sweep>>
vars == <<durable, volatile, now, up, faults>>

Item == 1 .. Len(Plan)
NoHandle == [state |-> "none", ttl_at |-> 0]
NoSignal == [kind |-> "none", consent |-> NoConsent]
NoInterp == [at |-> "idle", pos |-> 1, last |-> 0, withheld |-> 0, outcome |-> "none"]
NoCall == [at |-> "idle", consent |-> NoConsent, batch |-> <<>>, seq |-> 0]
NoSweep == [at |-> "idle", saw |-> "none"]

Cleared ==
  /\ mem' = NoHandle /\ signal' = NoSignal /\ interp' = NoInterp /\ sweep' = NoSweep
  /\ call' = [t \in Caller |-> NoCall]

(* A run that was just submitted, in this process or in an earlier one. *)
Init ==
  /\ row = [state |-> "admitted", nonce |-> NoConsent, outcome |-> "none"]
  /\ buffer = <<>> /\ consumed = {} /\ credit = [c \in Consent |-> 0] /\ log = {}
  /\ segment = "open" /\ direct = 0 /\ released = [k \in Item |-> 0]
  /\ now = 0 /\ faults = 0
  /\ \/ up = "up" /\ mem = [state |-> "admitted", ttl_at |-> 0]
     \/ up = "down" /\ mem = NoHandle
  /\ signal = NoSignal /\ interp = NoInterp /\ sweep = NoSweep
  /\ call = [t \in Caller |-> NoCall]

----------------------------------------------------------------------------
(* What the threads have in common. *)
HeldBecome(s) == buffer' = [k \in DOMAIN buffer |-> IF buffer[k] = "held" THEN s ELSE buffer[k]]

(* transfer_all and teardown_segment, of holdings that are still there. *)
SegmentBecomes(s) == segment' = IF segment = "open" THEN s ELSE segment

(* Mutant: an aborted run keeps its batch. *)
MutDropBuffer == UNCHANGED buffer
DropBuffer == HeldBecome("aborted")
Teardown == SegmentBecomes("rolled_back")

Ended(outcome) == row' = [row EXCEPT !.state = "done", !.outcome = outcome]
SetMem(s) == mem' = IF mem.state = "none" THEN mem ELSE [mem EXCEPT !.state = s]
FinishRun(outcome) == SetMem("done") /\ Ended(outcome)

(* Mutant: a nonce may be used again. *)
MutUsable(c) == now <= Expiry[c]

(* check_and_consume_consent; the nonce is a primary key. *)
Usable(c) == now <= Expiry[c] /\ c \notin consumed

Mint(c, n) == credit' = [credit EXCEPT ![c] = @ + n]

(* find_and_exercise: an expired capability pays for nothing, and refuses  *)
(* until the ledger has retired it.                                        *)
Pays(c) == credit[c] > 0 /\ now <= Expiry[c]
Paid == \E c \in Consent : Pays(c) /\ credit' = [credit EXCEPT ![c] = @ - 1]
Broke == ~ \E c \in Consent : Pays(c)
Lapsed == \E c \in consumed : now > Expiry[c]

(* A call that fails beyond the gate has been paid for. *)
CallFails == faults < MaxFaults /\ faults' = faults + 1 /\ Paid
Refused == Broke /\ Lapsed /\ UNCHANGED <<credit, faults>>

CallAt(t, s) == call[t].at = s
Goes(t, to) ==
  call' = IF to = "idle" THEN [call EXCEPT ![t] = NoCall] ELSE [call EXCEPT ![t].at = to]
Begins(t, c, to) ==
  /\ up = "up"
  /\ CallAt(t, "idle")
  /\ call' = [call EXCEPT ![t] = [NoCall EXCEPT !.at = to, !.consent = c]]

----------------------------------------------------------------------------
(* start: the handle is claimed first, the consent is looked at then. *)
StartBegin(t, c) ==
  /\ Begins(t, c, "start_consume")
  /\ mem.state = "admitted" \/ (mem.state = "none" /\ row.state = "admitted")
  /\ mem' = [state |-> "running", ttl_at |-> Expiry[c]]
  /\ UNCHANGED <<durable, signal, interp, sweep, now, up, faults>>

StartConsume(t) ==
  LET c == call[t].consent IN
  /\ CallAt(t, "start_consume")
  /\ IF Usable(c)
       THEN Goes(t, "start_mint") /\ consumed' = consumed \cup {c}
       ELSE Goes(t, "idle") /\ UNCHANGED consumed
  /\ UNCHANGED <<row, buffer, credit, log, segment, direct, released, mem, signal, interp, sweep,
                 now, up, faults>>

(* The derived budget of the plan has to fit what was consented to. *)
StartMint(t) ==
  LET c == call[t].consent IN
  /\ CallAt(t, "start_mint")
  /\ IF Budget[c] >= Admitted
       THEN Goes(t, "start_spawn") /\ Mint(c, Budget[c])
       ELSE Goes(t, "idle") /\ UNCHANGED credit
  /\ UNCHANGED <<row, buffer, consumed, log, segment, direct, released, mem, signal, interp, sweep,
                 now, up, faults>>

StartSpawn(t) ==
  /\ CallAt(t, "start_spawn")
  /\ Goes(t, "idle")
  /\ row' = [row EXCEPT !.state = "running", !.nonce = call[t].consent]
  /\ interp' = [NoInterp EXCEPT !.at = "run"]
  /\ UNCHANGED <<buffer, consumed, credit, log, segment, direct, released, mem, signal, sweep,
                 now, up, faults>>

(* resume: the check and the consumption under the lock of the runs, the   *)
(* signal after it.                                                        *)
ResumeBegin(t, c) ==
  /\ Begins(t, c, "resume_signal")
  /\ mem.state = "paused"
  /\ now <= mem.ttl_at
  /\ Usable(c)
  /\ consumed' = consumed \cup {c}
  /\ UNCHANGED <<row, buffer, credit, log, segment, direct, released, mem, signal, interp, sweep,
                 now, up, faults>>

(* Mutant: the last signal wins. *)
MutSignalled(c) == [kind |-> "resume", consent |-> c]
Signalled(c) ==
  IF signal.kind = "abort" THEN signal ELSE [kind |-> "resume", consent |-> c]

ResumeSignal(t) ==
  /\ CallAt(t, "resume_signal")
  /\ Goes(t, "idle")
  /\ signal' = Signalled(call[t].consent)
  /\ UNCHANGED <<durable, mem, interp, sweep, now, up, faults>>

----------------------------------------------------------------------------
(* The interpreter.  A direct effect is invoked, then logged. *)
At(s) == interp.at = s
IGoes(to) == interp' = [interp EXCEPT !.at = to]
Fails(outcome) == interp' = [interp EXCEPT !.at = "drop", !.outcome = outcome]
LastEffect == IF interp.last = 0 THEN Loop - 1 ELSE interp.last
Statement(kind) == At("run") /\ interp.pos <= LastEffect /\ Plan[interp.pos] = kind

(* The list is longer than the bound of the loop. *)
OverBound ==
  /\ At("run")
  /\ interp.pos = Loop
  /\ interp.last = 0
  /\ \/ "strict" \in Mode /\ Fails("fail_stop")
     \/ "truncate" \in Mode /\ interp' = [interp EXCEPT !.last = Admitted]
     \/ "escalate" \in Mode /\ interp' = [interp EXCEPT !.last = Len(Plan), !.at = "park"]
  /\ UNCHANGED <<durable, mem, signal, call, sweep, now, up, faults>>

Withhold ==
  /\ Statement("withhold")
  /\ buffer' = Append(buffer, "held")
  /\ interp' = [interp EXCEPT !.pos = @ + 1, !.withheld = @ + 1]
  /\ UNCHANGED <<row, consumed, credit, log, segment, direct, released, mem, signal, call, sweep,
                 now, up, faults>>

Emit ==
  /\ Statement("emit")
  /\ Paid
  /\ direct' = direct + 1
  /\ IGoes("log")
  /\ UNCHANGED <<row, buffer, consumed, log, segment, released, mem, signal, call, sweep,
                 now, up, faults>>

NextSeq == Cardinality(log) + 1

LogEmit ==
  /\ At("log")
  /\ log' = log \cup {NextSeq}
  /\ interp' = [interp EXCEPT !.at = "run", !.pos = @ + 1]
  /\ UNCHANGED <<row, buffer, consumed, credit, segment, direct, released, mem, signal, call, sweep,
                 now, up, faults>>

(* What a loop's mode does when nothing is left to pay with. *)
Exhausted ==
  /\ Statement("emit")
  /\ Broke
  /\ \/ "strict" \in Mode /\ Fails("fail_stop")
     \/ "truncate" \in Mode /\ Fails("truncated")
     \/ "escalate" \in Mode /\ IGoes("park")
  /\ UNCHANGED <<durable, mem, signal, call, sweep, now, up, faults>>

EmitFails ==
  /\ Statement("emit")
  /\ CallFails \/ Refused
  /\ Fails("fail_stop")
  /\ UNCHANGED <<row, buffer, consumed, log, segment, direct, released, mem, signal, call, sweep,
                 now, up>>

(* A label that reaches a sink, an evaluation that fails. *)
Stop ==
  /\ At("run")
  /\ Fails("fail_stop")
  /\ UNCHANGED <<durable, mem, signal, call, sweep, now, up, faults>>

Park ==
  /\ At("park")
  /\ SetMem("paused")
  /\ row' = [row EXCEPT !.state = "paused"]
  /\ IGoes("wait")
  /\ UNCHANGED <<buffer, consumed, credit, log, segment, direct, released, signal, call, sweep,
                 now, up, faults>>

Wake ==
  /\ At("wait")
  /\ signal # NoSignal
  /\ signal' = NoSignal
  /\ IF signal.kind = "abort"
       THEN Fails("aborted") /\ UNCHANGED credit
       ELSE IGoes("unpark") /\ Mint(signal.consent, Budget[signal.consent])
  /\ UNCHANGED <<row, buffer, consumed, log, segment, direct, released, mem, call, sweep,
                 now, up, faults>>

Unpark ==
  /\ At("unpark")
  /\ SetMem("running")
  /\ row' = [row EXCEPT !.state = "running"]
  /\ IGoes("run")
  /\ UNCHANGED <<buffer, consumed, credit, log, segment, direct, released, signal, call, sweep,
                 now, up, faults>>

AtEnd == At("run") /\ interp.last # 0 /\ interp.pos > interp.last

CommitRun ==
  /\ AtEnd
  /\ interp.withheld = 0
  /\ SegmentBecomes("kept")
  /\ interp' = [interp EXCEPT !.at = "finish", !.outcome = "completed"]
  /\ UNCHANGED <<row, buffer, consumed, credit, log, direct, released, mem, signal, call, sweep,
                 now, up, faults>>

(* set_state writes the handle, then the row. *)
AwaitHandle ==
  /\ AtEnd
  /\ interp.withheld > 0
  /\ SetMem("awaiting_approval")
  /\ IGoes("await")
  /\ UNCHANGED <<durable, signal, call, sweep, now, up, faults>>

AwaitRow ==
  /\ At("await")
  /\ row' = [row EXCEPT !.state = "awaiting_approval"]
  /\ interp' = NoInterp
  /\ UNCHANGED <<buffer, consumed, credit, log, segment, direct, released, mem, signal, call, sweep,
                 now, up, faults>>

DropRun ==
  /\ At("drop")
  /\ DropBuffer
  /\ IGoes("teardown")
  /\ UNCHANGED <<row, consumed, credit, log, segment, direct, released, mem, signal, call, sweep,
                 now, up, faults>>

TeardownRun ==
  /\ At("teardown")
  /\ Teardown
  /\ IGoes("finish")
  /\ UNCHANGED <<row, buffer, consumed, credit, log, direct, released, mem, signal, call, sweep,
                 now, up, faults>>

Finish ==
  /\ At("finish")
  /\ FinishRun(interp.outcome)
  /\ interp' = NoInterp
  /\ UNCHANGED <<buffer, consumed, credit, log, segment, direct, released, signal, call, sweep,
                 now, up, faults>>

----------------------------------------------------------------------------
(* approve: everything it needs is read from the tables.  Each effect is   *)
(* invoked, then logged, then marked.                                      *)
ApproveBegin(t, c) ==
  /\ Begins(t, c, "approve_consume")
  /\ row.state = "awaiting_approval"
  /\ now <= Expiry[row.nonce]
  /\ UNCHANGED <<durable, mem, signal, interp, sweep, now, up, faults>>

ApproveConsume(t) ==
  LET c == call[t].consent IN
  /\ CallAt(t, "approve_consume")
  /\ IF Usable(c)
       THEN Goes(t, "approve_load") /\ consumed' = consumed \cup {c}
       ELSE Goes(t, "idle") /\ UNCHANGED consumed
  /\ UNCHANGED <<row, buffer, credit, log, segment, direct, released, mem, signal, interp, sweep,
                 now, up, faults>>

HeldItems == {k \in DOMAIN buffer : buffer[k] = "held"}

(* The held rows by seq.  Mutant: the one withheld last comes first. *)
MutBatch ==
  CHOOSE b \in [1 .. Cardinality(HeldItems) -> HeldItems] :
    \A i, j \in DOMAIN b : i < j => b[i] > b[j]
Batch ==
  CHOOSE b \in [1 .. Cardinality(HeldItems) -> HeldItems] :
    \A i, j \in DOMAIN b : i < j => b[i] < b[j]

ApproveLoad(t) ==
  /\ CallAt(t, "approve_load")
  /\ IF Len(Batch) <= Budget[call[t].consent]
       THEN call' = [call EXCEPT ![t].at = "approve_mint", ![t].batch = Batch]
       ELSE Goes(t, "idle")
  /\ UNCHANGED <<durable, mem, signal, interp, sweep, now, up, faults>>

ApproveMint(t) ==
  /\ CallAt(t, "approve_mint")
  /\ Goes(t, "approve_count")
  /\ Mint(call[t].consent, Len(call[t].batch))
  /\ UNCHANGED <<row, buffer, consumed, log, segment, direct, released, mem, signal, interp, sweep,
                 now, up, faults>>

ApproveCount(t) ==
  /\ CallAt(t, "approve_count")
  /\ call' = [call EXCEPT ![t].at = "release", ![t].seq = Cardinality(log)]
  /\ UNCHANGED <<durable, mem, signal, interp, sweep, now, up, faults>>

Release(t) ==
  /\ CallAt(t, "release")
  /\ call[t].batch # <<>>
  /\ Goes(t, "release_log")
  /\ Paid
  /\ released' = [released EXCEPT ![Head(call[t].batch)] = @ + 1]
  /\ UNCHANGED <<row, buffer, consumed, log, segment, direct, mem, signal, interp, sweep,
                 now, up, faults>>

(* A sequence number that was taken ends the call with an error. *)
ReleaseLog(t) ==
  /\ CallAt(t, "release_log")
  /\ IF call[t].seq + 1 \in log
       THEN Goes(t, "idle") /\ UNCHANGED log
       ELSE /\ log' = log \cup {call[t].seq + 1}
            /\ call' = [call EXCEPT ![t].at = "release_mark", ![t].seq = @ + 1]
  /\ UNCHANGED <<row, buffer, consumed, credit, segment, direct, released, mem, signal, interp,
                 sweep, now, up, faults>>

(* Mutant: the update of the row names the run and not the effect. *)
MutMarked(k) == [j \in DOMAIN buffer |-> "inserted"]
Marked(k) == [buffer EXCEPT ![k] = "inserted"]

ReleaseMark(t) ==
  /\ CallAt(t, "release_mark")
  /\ buffer' = Marked(Head(call[t].batch))
  /\ call' = [call EXCEPT ![t].at = "release", ![t].batch = Tail(@)]
  /\ UNCHANGED <<row, consumed, credit, log, segment, direct, released, mem, signal, interp, sweep,
                 now, up, faults>>

ReleaseFails(t) ==
  /\ CallAt(t, "release")
  /\ call[t].batch # <<>>
  /\ Goes(t, "approve_drop")
  /\ CallFails \/ (Broke /\ UNCHANGED <<credit, faults>>)
  /\ UNCHANGED <<row, buffer, consumed, log, segment, direct, released, mem, signal, interp, sweep,
                 now, up>>

ApproveDrop(t) ==
  /\ CallAt(t, "approve_drop")
  /\ Goes(t, "approve_teardown")
  /\ DropBuffer
  /\ UNCHANGED <<row, consumed, credit, log, segment, direct, released, mem, signal, interp, sweep,
                 now, up, faults>>

ApproveTeardown(t) ==
  /\ CallAt(t, "approve_teardown")
  /\ Goes(t, "approve_fail")
  /\ Teardown
  /\ UNCHANGED <<row, buffer, consumed, credit, log, direct, released, mem, signal, interp, sweep,
                 now, up, faults>>

ApproveCommit(t) ==
  /\ CallAt(t, "release")
  /\ call[t].batch = <<>>
  /\ Goes(t, "approve_keep")
  /\ HeldBecome("inserted")
  /\ UNCHANGED <<row, consumed, credit, log, segment, direct, released, mem, signal, interp, sweep,
                 now, up, faults>>

ApproveKeep(t) ==
  /\ CallAt(t, "approve_keep")
  /\ Goes(t, "approve_finish")
  /\ SegmentBecomes("kept")
  /\ UNCHANGED <<row, buffer, consumed, credit, log, direct, released, mem, signal, interp, sweep,
                 now, up, faults>>

ApproveFinish(t) ==
  /\ \/ CallAt(t, "approve_fail") /\ FinishRun("fail_stop")
     \/ CallAt(t, "approve_finish") /\ FinishRun("completed")
  /\ Goes(t, "idle")
  /\ UNCHANGED <<buffer, consumed, credit, log, segment, direct, released, signal, interp, sweep,
                 now, up, faults>>

----------------------------------------------------------------------------
(* expire, on the sweeper's thread.  Mutant: it forgets the paused runs. *)
MutSuspended == {"awaiting_approval"}
Suspended == {"awaiting_approval", "paused"}

ExpireCollect ==
  /\ up = "up"
  /\ sweep.at = "idle"
  /\ mem.state \in Suspended
  /\ mem.ttl_at > 0
  /\ now > mem.ttl_at
  /\ sweep' = [at |-> "abort", saw |-> mem.state]
  /\ UNCHANGED <<durable, mem, signal, interp, call, now, up, faults>>

(* Mutant: a pending resume is left to be taken first. *)
MutAbort ==
  signal' = IF signal.kind = "resume" THEN signal ELSE [kind |-> "abort", consent |-> NoConsent]
Abort == signal' = [kind |-> "abort", consent |-> NoConsent]

(* A paused interpreter settles itself, an awaiting run has no thread. *)
ExpireAbort ==
  /\ sweep.at = "abort"
  /\ Abort
  /\ sweep' = IF sweep.saw = "paused" THEN NoSweep ELSE [sweep EXCEPT !.at = "drop"]
  /\ UNCHANGED <<durable, mem, interp, call, now, up, faults>>

ExpireDrop ==
  /\ sweep.at = "drop"
  /\ DropBuffer
  /\ sweep' = [sweep EXCEPT !.at = "teardown"]
  /\ UNCHANGED <<row, consumed, credit, log, segment, direct, released, mem, signal, interp, call,
                 now, up, faults>>

ExpireTeardown ==
  /\ sweep.at = "teardown"
  /\ Teardown
  /\ sweep' = [sweep EXCEPT !.at = "finish"]
  /\ UNCHANGED <<row, buffer, consumed, credit, log, direct, released, mem, signal, interp, call,
                 now, up, faults>>

ExpireFinish ==
  /\ sweep.at = "finish"
  /\ FinishRun("aborted")
  /\ sweep' = NoSweep
  /\ UNCHANGED <<buffer, consumed, credit, log, segment, direct, released, signal, interp, call,
                 now, up, faults>>

----------------------------------------------------------------------------
(* Dropping the host stops the sweeper, aborts and joins the interpreter. *)
Shutdown ==
  /\ up = "up"
  /\ sweep = NoSweep
  /\ \A t \in Caller : call[t] = NoCall
  /\ up' = "stopping"
  /\ Abort
  /\ UNCHANGED <<durable, mem, interp, call, sweep, now, faults>>

Exit ==
  /\ up = "stopping"
  /\ interp = NoInterp
  /\ up' = "down"
  /\ Cleared
  /\ UNCHANGED <<durable, now, faults>>

Crash ==
  /\ faults < MaxFaults
  /\ up # "down"
  /\ up' = "down"
  /\ Cleared
  /\ faults' = faults + 1
  /\ UNCHANGED <<durable, now>>

(* A new process; recover settles the runs that an interpreter left behind. *)
Open ==
  /\ up = "down"
  /\ up' = IF row.state \in {"running", "paused"} THEN "recover" ELSE "up"
  /\ UNCHANGED <<durable, volatile, now, faults>>

RecoverDrop ==
  /\ up = "recover"
  /\ DropBuffer
  /\ up' = "recovering"
  /\ UNCHANGED <<row, consumed, credit, log, segment, direct, released, volatile, now, faults>>

RecoverTeardown ==
  /\ up = "recovering"
  /\ Teardown
  /\ up' = "recovered"
  /\ UNCHANGED <<row, buffer, consumed, credit, log, direct, released, volatile, now, faults>>

RecoverFinish ==
  /\ up = "recovered"
  /\ Ended("aborted")
  /\ up' = "up"
  /\ UNCHANGED <<buffer, consumed, credit, log, segment, direct, released, volatile, now, faults>>

Tick ==
  /\ now < MaxTime
  /\ now' = now + 1
  /\ UNCHANGED <<durable, volatile, up, faults>>

----------------------------------------------------------------------------
Asked(t) ==
  \E c \in Consent : StartBegin(t, c) \/ ResumeBegin(t, c) \/ ApproveBegin(t, c)

CallStep(t) ==
  \/ StartConsume(t) \/ StartMint(t) \/ StartSpawn(t)
  \/ ResumeSignal(t)
  \/ ApproveConsume(t) \/ ApproveLoad(t) \/ ApproveMint(t) \/ ApproveCount(t)
  \/ Release(t) \/ ReleaseLog(t) \/ ReleaseMark(t) \/ ReleaseFails(t)
  \/ ApproveDrop(t) \/ ApproveTeardown(t)
  \/ ApproveCommit(t) \/ ApproveKeep(t) \/ ApproveFinish(t)

InterpStep ==
  \/ OverBound \/ Withhold \/ Emit \/ LogEmit \/ Exhausted \/ EmitFails \/ Stop
  \/ Park \/ Wake \/ Unpark
  \/ CommitRun \/ AwaitHandle \/ AwaitRow
  \/ DropRun \/ TeardownRun \/ Finish

SweepStep == ExpireCollect \/ ExpireAbort \/ ExpireDrop \/ ExpireTeardown \/ ExpireFinish
OpenStep == Open \/ RecoverDrop \/ RecoverTeardown \/ RecoverFinish

Next ==
  \/ \E t \in Caller : Asked(t) \/ CallStep(t)
  \/ InterpStep
  \/ SweepStep
  \/ OpenStep
  \/ Shutdown \/ Exit \/ Crash
  \/ Tick

Spec == Init /\ [][Next]_vars

(* Threads run, a root is opened again, time passes; nobody has to consent. *)
FairSpec ==
  /\ Spec
  /\ \A t \in Caller : WF_vars(CallStep(t))
  /\ WF_vars(InterpStep) /\ WF_vars(SweepStep) /\ WF_vars(OpenStep) /\ WF_vars(Exit)
  /\ WF_vars(Tick)

----------------------------------------------------------------------------
Released == SumFunction(released)
Left == SumFunction(credit)
Consented == SumFunction([c \in consumed |-> Budget[c]])

(* Effects, and what could still be spent on effects, never exceed what    *)
(* was consented to, whatever is retried, resumed or approved again; and   *)
(* what the policy withholds never goes out under the consent that started *)
(* the run, and once at most under each other one.                         *)
WithinConsent ==
  /\ direct + Released + Left <= Consented
  /\ \A k \in Item : released[k] > 0 => released[k] < Cardinality(consumed)

(* The batch goes out in the order of the plan, over crashes and later     *)
(* approvals too.                                                          *)
ReleasedInOrder == \A j, k \in Item : j < k /\ released[k] > 0 => released[j] > 0

(* The journal never says more than what happened, however many approvals  *)
(* overlap or were cut short: an effect that is marked inserted, by itself *)
(* or with the batch, went out; the emission log has no gap, and no more   *)
(* entries than effects went out.                                          *)
JournalIsTrue ==
  /\ \A k \in DOMAIN buffer : buffer[k] = "inserted" => released[k] > 0
  /\ log = 1 .. Cardinality(log)
  /\ Cardinality(log) <= direct + Released

(* approval.rs:65: "a crash mid-batch leaves the rest held for a later     *)
(* approval, never a duplicate emission (exactly-once = at-least-once +    *)
(* per-item journal)".                                                     *)
ExactlyOnce == \A k \in Item : released[k] <= 1

(* Once a run has an outcome nothing of it is left to be approved, and the *)
(* holdings of its segment were handed over or torn down.                  *)
NothingHeldAtEnd == row.outcome # "none" => HeldItems = {} /\ segment # "open"

(* An abort that is pending cannot be replaced: it is taken by the         *)
(* interpreter, which drops the run, or goes with the process.             *)
AbortStands ==
  [][signal.kind = "abort" /\ signal' # signal => interp'.at = "drop" \/ up' = "down"]_vars

(* In a process that lives on, a run that is suspended when its first      *)
(* consent expires gets an outcome.                                        *)
SuspensionEnds ==
  (up = "up" /\ mem.state \in {"awaiting_approval", "paused"} /\ now > mem.ttl_at)
    ~> (row.outcome # "none" \/ up # "up")

(* Dropping the host never waits for ever: whatever a resume or an         *)
(* interpreter about to park were doing, its thread gets to be joined.     *)
ShutdownEnds == up = "stopping" ~> up = "down"

=============================================================================
