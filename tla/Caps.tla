-------------------------------- MODULE Caps --------------------------------
(***************************************************************************)
(* The capability table of crates/portos-kernel/src/caps.rs over the       *)
(* ledger: capabilities are minted, attenuated, exercised and revoked by   *)
(* threads that take the ledger's lock for one read or one transaction at  *)
(* a time, and interleave between those.                                   *)
(*                                                                         *)
(* The capabilities are those that grant one verb on one resource.  A      *)
(* capability's holding is alive or not: it accounts for itself only, and  *)
(* nothing but its death is asked of it.  The rows of its pool belong to   *)
(* no subject that is ever torn down (LedgerTxn::spend appends ":spent").  *)
(* A storage error ends a call early, and a crash ends all of them.        *)
(***************************************************************************)
EXTENDS Integers, Sequences

CONSTANTS
  Cap,         \* the capability identities that can be drawn
  NoCap,
  Subject,
  Thread,
  Constraint,  \* the [budget, until] pairs callers ask for
  MaxCount,    \* the largest counted budget
  MaxTime      \* the last second

Unlimited == MaxCount + 1    \* the verb is absent from constraints.counts
Never == MaxTime + 1         \* constraints.expires_at is None
Time == 0 .. MaxTime

ASSUME CapsAssumption ==
  /\ NoCap \notin Cap
  /\ MaxCount \in Nat /\ MaxTime \in Nat
  /\ Constraint \subseteq [budget : 0 .. Unlimited, until : 0 .. Never]

VARIABLES
  caps,        \* the caps table
  alive,       \* those whose kernel/cap holding is active
  capacity,    \* the capacity of each one's pool
  spent,       \* what the rows that occupy its pool add up to
  used,        \* history: the counted exercises ever granted
  call,        \* what each thread is doing
  now

vars == <<caps, alive, capacity, spent, used, call, now>>

NoRow == [subject |-> NoCap]
Row ==
  [subject : Subject, parent : Cap \cup {NoCap}, budget : 0 .. Unlimited,
   until : 0 .. Never, revoked : BOOLEAN]
Stored == {c \in Cap : caps[c] # NoRow}
Kids(c) == {k \in Stored : caps[k].parent = c}

(* A capability and everything attenuated from it. *)
Descendants(c) ==
  {d \in Stored :
     \A S \in SUBSET Stored : c \in S /\ (\A k \in Stored : caps[k].parent \in S => k \in S) => d \in S}

Counted(c) == caps[c].budget # Unlimited
Expired(c, at) == at > caps[c].until

(* What an exercise that takes no time would find. *)
Usable(c, at) ==
  c \in alive /\ ~ Expired(c, at) /\ (Counted(c) => spent[c] < capacity[c])

Idle == [op |-> "idle"]
Attenuating(row) == [op |-> "attenuate", row |-> row]
(* able is history: what was usable when the call began, and is still. *)
Exercising(live, at, cap, able) ==
  [op |-> "exercise", live |-> live, at |-> at, cap |-> cap, able |-> able]
(* due is history: the descendants when the call began. *)
Revoking(frontier, cascade, due) ==
  [op |-> "revoke", frontier |-> frontier, cascade |-> cascade, due |-> due]

Is(t, op) == call[t].op = op
Becomes(t, c) == call' = [call EXCEPT ![t] = c]
tables == <<caps, alive, capacity, spent, used>>

Init ==
  /\ caps = [c \in Cap |-> NoRow]
  /\ alive = {}
  /\ capacity = [c \in Cap |-> 0]
  /\ spent = [c \in Cap |-> 0]
  /\ used = [c \in Cap |-> 0]
  /\ call = [t \in Thread |-> Idle]
  /\ now = 0

----------------------------------------------------------------------------
(* register_capability: the pool, the holding and the row in one transaction. *)
StoreMinted(c, row) ==
  /\ caps[c] = NoRow
  /\ caps' = [caps EXCEPT ![c] = row]
  /\ alive' = alive \cup {c}
  /\ capacity' = [capacity EXCEPT ![c] = IF row.budget = Unlimited THEN 0 ELSE row.budget]
  /\ UNCHANGED <<spent, used, now>>

NewRow(s, p, k) ==
  [subject |-> s, parent |-> p, budget |-> k.budget, until |-> k.until, revoked |-> FALSE]

Mint(t, c, s, k) == Is(t, "idle") /\ StoreMinted(c, NewRow(s, NoCap, k)) /\ UNCHANGED call

(* is_valid_attenuation_of, for a verb that both grant: a count that is     *)
(* left out is not compared with the parent's.                              *)
Narrows(row, parent) ==
  /\ row.budget = Unlimited \/ row.budget <= parent.budget
  /\ row.until <= parent.until

(* attenuate, in two steps: the parent's holding is looked up first. *)
CheckParent(t, p, s, k) ==
  /\ Is(t, "idle")
  /\ p \in Stored \cap alive
  /\ Narrows(NewRow(s, p, k), caps[p])
  /\ Becomes(t, Attenuating(NewRow(s, p, k)))
  /\ UNCHANGED <<tables, now>>

StoreChild(t, c) ==
  /\ Is(t, "attenuate")
  /\ StoreMinted(c, call[t].row)
  /\ Becomes(t, Idle)

----------------------------------------------------------------------------
(* find_and_exercise lists what the subject holds and is not revoked, drops *)
(* the dead and exercises the others until one succeeds; an exercise by     *)
(* identity is the same with one candidate.  The caller takes the time.     *)
(* The dead are dropped one by one after the listing; one that dies before  *)
(* its turn is refused by Check just as well, so the two are one step.      *)
Candidates(s) == {c \in Stored : caps[c].subject = s /\ ~ caps[c].revoked}

Find(t, s) ==
  /\ Is(t, "idle")
  /\ Becomes(t, Exercising(Candidates(s) \cap alive, now, NoCap,
                         {c \in Candidates(s) : Usable(c, now)}))
  /\ UNCHANGED <<tables, now>>

(* Ok(()) ends the call, an error leaves it with the candidates after it. *)
Choosing(t) == Is(t, "exercise") /\ call[t].cap = NoCap
(* Mutant: the first error ends the search. *)
MutWithout(t, c) == [call[t] EXCEPT !.live = {}, !.cap = NoCap]
Without(t, c) ==
  [call[t] EXCEPT !.live = @ \ {c}, !.cap = NoCap,
                  !.able = {d \in @ : Usable(d, call[t].at)}]

(* The checks of exercise that come before the pool is touched. *)
Check(t, c) ==
  /\ Choosing(t)
  /\ c \in call[t].live
  /\ Becomes(t, IF c \notin alive \/ Expired(c, call[t].at) THEN Without(t, c)
                ELSE IF Counted(c) THEN [call[t] EXCEPT !.cap = c]
                ELSE Idle)
  /\ UNCHANGED <<tables, now>>

(* The issuer gate: one more unit has to fit. *)
Fits(c) == spent[c] + 1 <= capacity[c]

Spend(t) ==
  /\ Is(t, "exercise")
  /\ call[t].cap # NoCap
  /\ LET c == call[t].cap IN
       IF Fits(c)
         THEN /\ spent' = [spent EXCEPT ![c] = @ + 1]
              /\ used' = [used EXCEPT ![c] = @ + 1]
              /\ Becomes(t, Idle)
         ELSE Becomes(t, Without(t, c)) /\ UNCHANGED <<spent, used>>
  /\ UNCHANGED <<caps, alive, capacity, now>>

(* A transaction that cannot be committed is one more error to find_and_exercise. *)
SpendFails(t) ==
  /\ Is(t, "exercise")
  /\ call[t].cap # NoCap
  /\ Becomes(t, [Without(t, call[t].cap) EXCEPT !.able = @ \ {call[t].cap}])
  /\ UNCHANGED <<tables, now>>

Exhausted(t) == Choosing(t) /\ call[t].live = {}
Refuse(t) == Exhausted(t) /\ Becomes(t, Idle) /\ UNCHANGED <<tables, now>>

----------------------------------------------------------------------------
(* revoke: the derivation tree is walked one row at a time; then each      *)
(* capability of the cascade is retired in a transaction of its own.       *)
Revoke(t, c) ==
  /\ Is(t, "idle")
  /\ c \in Stored
  /\ Becomes(t, Revoking({c}, <<>>, Descendants(c)))
  /\ UNCHANGED <<tables, now>>

(* Mutant: only what was attenuated from the root itself is looked at. *)
MutReached(t, c) == IF call[t].cascade = <<>> THEN Kids(c) ELSE {}
Reached(t, c) == Kids(c)

Walk(t, c) ==
  /\ Is(t, "revoke")
  /\ c \in call[t].frontier
  /\ Becomes(t, [call[t] EXCEPT !.frontier = (@ \ {c}) \cup Reached(t, c),
                                !.cascade = Append(@, c)])
  /\ UNCHANGED <<tables, now>>

(* settle_and_zero_pool *)
(* Mutant: the pool is settled and stays open. *)
MutZeroed(c) == capacity
Zeroed(c) == [capacity EXCEPT ![c] = 0]

Walked(t) == Is(t, "revoke") /\ call[t].frontier = {}

RetireCapability(t) ==
  /\ Walked(t)
  /\ call[t].cascade # <<>>
  /\ LET c == Head(call[t].cascade) IN
       /\ spent' = [spent EXCEPT ![c] = 0]
       /\ capacity' = Zeroed(c)
       /\ alive' = alive \ {c}
       /\ caps' = [caps EXCEPT ![c].revoked = TRUE]
       /\ Becomes(t, [call[t] EXCEPT !.cascade = Tail(@)])
  /\ UNCHANGED <<used, now>>

Revoked(t) == Walked(t) /\ call[t].cascade = <<>>
ReturnRevoked(t) == Revoked(t) /\ Becomes(t, Idle) /\ UNCHANGED <<tables, now>>

----------------------------------------------------------------------------
(* A storage error, or the crash of the process. *)
Abort(t) == ~ Is(t, "idle") /\ Becomes(t, Idle) /\ UNCHANGED <<tables, now>>

(* The sweep and a teardown of a subject take holdings away, not rows. *)
(* Mutant: the rows of the pool go with their capability. *)
MutRowsKept(dead) == [c \in Cap |-> IF c \in dead THEN 0 ELSE spent[c]]
RowsKept(dead) == spent

Dies(dead) ==
  /\ alive' = alive \ dead
  /\ spent' = RowsKept(dead)
  /\ UNCHANGED <<caps, capacity, used, call, now>>
Sweep == Dies({c \in alive : caps[c].until <= now})
Teardown(s) == Dies({c \in alive : caps[c].subject = s})

Tick == now < MaxTime /\ now' = now + 1 /\ UNCHANGED <<tables, call>>

ThreadStep(t) ==
  \/ \E c \in Cap, s \in Subject, k \in Constraint : Mint(t, c, s, k)
  \/ \E p \in Cap, s \in Subject, k \in Constraint : CheckParent(t, p, s, k)
  \/ \E c \in Cap : StoreChild(t, c)
  \/ \E s \in Subject : Find(t, s)
  \/ \E c \in Cap : Check(t, c)
  \/ Spend(t)
  \/ SpendFails(t)
  \/ Refuse(t)
  \/ \E c \in Cap : Revoke(t, c)
  \/ \E c \in Cap : Walk(t, c)
  \/ RetireCapability(t)
  \/ ReturnRevoked(t)
  \/ Abort(t)

Next ==
  \/ \E t \in Thread : ThreadStep(t)
  \/ Sweep
  \/ \E s \in Subject : Teardown(s)
  \/ Tick

Spec == Init /\ [][Next]_vars

----------------------------------------------------------------------------
Call ==
  {Idle}
  \cup [op : {"attenuate"}, row : Row]
  \cup [op : {"exercise"}, live : SUBSET Cap, at : Time,
        cap : Cap \cup {NoCap}, able : SUBSET Cap]
  \cup [op : {"revoke"}, frontier : SUBSET Cap, cascade : Seq(Cap), due : SUBSET Cap]

(* Types; a call never holds a capability that is not in the table. *)
TypeOK ==
  /\ caps \in [Cap -> Row \cup {NoRow}]
  /\ alive \subseteq Stored
  /\ capacity \in [Cap -> 0 .. MaxCount]
  /\ spent \in [Cap -> 0 .. MaxCount]
  /\ used \in [Cap -> Nat]
  /\ call \in [Thread -> Call]
  /\ now \in Time
  /\ \A t \in Thread : Is(t, "exercise") => call[t].live \subseteq Stored

(* No more counted exercises are ever granted than the capability was      *)
(* minted with, whatever sweeps, teardowns and revocations come between a  *)
(* call's look at the holding and its transaction.                         *)
NeverOverspent == \A c \in Stored : Counted(c) => used[c] <= caps[c].budget

(* Once a revocation is committed the capability is dead and its pool is   *)
(* empty for good: not even a call that had seen it alive spends from it.  *)
RevokedIsClosed == \A c \in Stored : caps[c].revoked => c \notin alive /\ spent[c] = 0

(* A revoke that returns has reached everything that had been attenuated   *)
(* from its capability when it was called, however deep, and whatever was  *)
(* attenuated, swept or revoked meanwhile.                                 *)
RevokeReachesAll ==
  \A t \in Thread : Revoked(t) =>
    \A c \in call[t].due : caps[c].revoked /\ c \notin alive

(* find_and_exercise refuses only when every capability that would have    *)
(* served at its call has died or has been spent: a dead or exhausted one  *)
(* never shadows another.                                                  *)
FindsWhatIsThere ==
  \A t \in Thread : Exhausted(t) =>
    \A c \in call[t].able : ~ Usable(c, call[t].at)
=============================================================================
