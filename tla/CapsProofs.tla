----------------------------- MODULE CapsProofs -----------------------------
(***************************************************************************)
(* Of Caps, for any number of capabilities and threads: types, that no     *)
(* budget is overspent, that a revocation is final and reaches everything  *)
(* below, and that a search refuses only when nothing serves.              *)
(***************************************************************************)
EXTENDS Caps, TLAPS

(* A pool holds what was ever spent from it, up to its budget, until it is *)
(* settled; from then on it is empty and admits nothing.                   *)
PoolOK(c) ==
  /\ spent[c] <= capacity[c]
  /\ c \notin Stored => capacity[c] = 0 /\ spent[c] = 0 /\ used[c] = 0
  /\ c \in Stored =>
       /\ Counted(c) => used[c] <= caps[c].budget
       /\ ~ caps[c].revoked =>
            spent[c] = used[c] /\ (Counted(c) => capacity[c] = caps[c].budget)
       /\ caps[c].revoked => c \notin alive /\ capacity[c] = 0

(* What a call holds in its hands is in the table, and rows stay there. *)
CallOK(t) ==
  /\ Is(t, "attenuate") => ~ call[t].row.revoked
  /\ Is(t, "exercise") =>
       /\ call[t].live \subseteq Stored
       /\ call[t].cap \in Stored \cup {NoCap}
  /\ Is(t, "revoke") =>
       call[t].frontier \subseteq Stored /\ call[t].cascade \in Seq(Stored)

IInv ==
  /\ TypeOK
  /\ \A c \in Cap : PoolOK(c)
  /\ \A t \in Thread : CallOK(t)

----------------------------------------------------------------------------
LEMMA RowIsNotNoRow == \A row \in Row : row # NoRow
<1>1. "parent" \notin DOMAIN NoRow
  BY DEF NoRow
<1>2. ASSUME NEW row \in Row PROVE "parent" \in DOMAIN row
  BY <1>2 DEF Row
<1> QED
  BY <1>1, <1>2

LEMMA InitIInv == Init => IInv
<1> SUFFICES ASSUME Init PROVE IInv
  OBVIOUS
<1>1. Stored = {}
  BY DEF Init, Stored
<1>2. TypeOK
  BY <1>1, CapsAssumption DEF Init, TypeOK, Call, Idle, Is, Time
<1>3. ASSUME NEW c \in Cap PROVE PoolOK(c)
  BY <1>1 DEF Init, PoolOK
<1>4. ASSUME NEW t \in Thread PROVE CallOK(t)
  BY DEF Init, CallOK, Is, Idle
<1> QED
  BY <1>2, <1>3, <1>4 DEF IInv

----------------------------------------------------------------------------
(* A step that changes one call and no table. *)
LEMMA CallStep ==
  ASSUME IInv, NEW t \in Thread, NEW v \in Call, Becomes(t, v), UNCHANGED <<tables, now>>,
         v.op = "attenuate" => ~ v.row.revoked,
         v.op = "exercise" => v.live \subseteq Stored /\ v.cap \in Stored \cup {NoCap},
         v.op = "revoke" => v.frontier \subseteq Stored /\ v.cascade \in Seq(Stored)
  PROVE  IInv'
<1> USE DEF tables
<1>1. Stored' = Stored
  BY DEF Stored
<1>2. call' \in [Thread -> Call] /\ \A u \in Thread : call'[u] = IF u = t THEN v ELSE call[u]
  BY DEF IInv, TypeOK, Becomes
<1>3. \A u \in Thread : CallOK(u)'
  BY <1>1, <1>2 DEF IInv, CallOK, Is
<1>4. TypeOK'
  <2>1. \A u \in Thread : Is(u, "exercise")' => (call[u].live \subseteq Stored)'
    BY <1>3 DEF CallOK
  <2> QED
    BY <1>1, <1>2, <2>1 DEF IInv, TypeOK
<1>5. \A c \in Cap : PoolOK(c)'
  BY <1>1 DEF IInv, PoolOK, Counted
<1> QED
  BY <1>3, <1>4, <1>5 DEF IInv

(* What becomes of a thread that stops. *)
LEMMA IdleStep ==
  ASSUME IInv, NEW t \in Thread, Becomes(t, Idle), UNCHANGED <<tables, now>>
  PROVE  IInv'
<1>1. Idle \in Call /\ Idle.op = "idle"
  BY DEF Call, Idle
<1> QED
  BY <1>1, CallStep

LEMMA MintStep ==
  ASSUME IInv, NEW t \in Thread, NEW c \in Cap, NEW row \in Row, ~ row.revoked,
         StoreMinted(c, row), UNCHANGED call \/ Becomes(t, Idle)
  PROVE  IInv'
<1> USE DEF StoreMinted
<1>1. caps' \in [Cap -> Row \cup {NoRow}] /\ \A d \in Cap : caps'[d] = IF d = c THEN row ELSE caps[d]
  BY DEF IInv, TypeOK
<1>2. Stored' = Stored \cup {c} /\ c \notin Stored
  BY <1>1, RowIsNotNoRow DEF Stored
<1>3. /\ row.budget \in 0 .. Unlimited /\ MaxCount \in Nat
      /\ row.budget # Unlimited => row.budget \in 0 .. MaxCount
  BY CapsAssumption DEF Row, Unlimited
<1>4. call' \in [Thread -> Call] /\ \A u \in Thread : call'[u] \in {call[u], Idle}
  <2>1. Idle \in Call
    BY DEF Call
  <2> QED
    BY <2>1 DEF IInv, TypeOK, Becomes
<1>5. \A u \in Thread : CallOK(u)'
  <2> SUFFICES ASSUME NEW u \in Thread PROVE CallOK(u)'
    OBVIOUS
  <2>1. CASE call'[u] = Idle
    BY <2>1 DEF CallOK, Is, Idle
  <2>2. CASE call'[u] = call[u]
    <3>1. CallOK(u)
      BY DEF IInv
    <3>2. Is(u, "revoke") => call[u].cascade \in Seq(Stored \cup {c})
      BY <3>1 DEF CallOK
    <3> QED
      BY <2>2, <3>1, <3>2, <1>2 DEF CallOK, Is
  <2> QED
    BY <1>4, <2>1, <2>2
<1>6. TypeOK'
  <2>1. capacity' \in [Cap -> 0 .. MaxCount]
    BY <1>3 DEF IInv, TypeOK
  <2>2. \A u \in Thread : Is(u, "exercise")' => (call[u].live \subseteq Stored)'
    BY <1>5 DEF CallOK
  <2>3. alive' \subseteq Stored'
    BY <1>2 DEF IInv, TypeOK
  <2> QED
    BY <1>1, <1>4, <2>1, <2>2, <2>3 DEF IInv, TypeOK
<1>7. \A d \in Cap : PoolOK(d)'
  <2> SUFFICES ASSUME NEW d \in Cap PROVE PoolOK(d)'
    OBVIOUS
  <2>1. PoolOK(d) /\ spent[d] \in Nat /\ used[d] \in Nat /\ capacity \in [Cap -> 0 .. MaxCount]
    BY DEF IInv, TypeOK
  <2>2. CASE d = c
    BY <1>1, <1>2, <1>3, <2>1, <2>2 DEF PoolOK, Counted
  <2>3. CASE d # c
    BY <1>1, <1>2, <2>1, <2>3 DEF PoolOK, Counted
  <2> QED
    BY <2>2, <2>3
<1> QED
  BY <1>5, <1>6, <1>7 DEF IInv

LEMMA CheckParentStep ==
  ASSUME IInv, NEW t \in Thread, NEW p \in Cap, NEW s \in Subject, NEW k \in Constraint,
         CheckParent(t, p, s, k)
  PROVE  IInv'
<1> DEFINE row == NewRow(s, p, k)
<1>1. row \in Row /\ ~ row.revoked
  BY CapsAssumption DEF Row, NewRow
<1>2. Attenuating(row) \in Call /\ Attenuating(row).op = "attenuate" /\ Attenuating(row).row = row
  BY <1>1 DEF Attenuating, Call
<1> QED
  BY <1>1, <1>2, CallStep DEF CheckParent

LEMMA FindStep == ASSUME IInv, NEW t \in Thread, NEW s \in Subject, Find(t, s) PROVE IInv'
<1> DEFINE able == {c \in Candidates(s) : Usable(c, now)}
           v == Exercising(Candidates(s) \cap alive, now, NoCap, able)
<1>1. Candidates(s) \subseteq Stored /\ Stored \subseteq Cap /\ now \in Time
  BY DEF Candidates, Stored, IInv, TypeOK
<1>2. v \in Call /\ v.op = "exercise" /\ v.live \subseteq Stored /\ v.cap = NoCap
  BY <1>1 DEF Exercising, Call
<1> QED
  BY <1>2, CallStep DEF Find

(* A call that searches goes on with less. *)
LEMMA SearchStep ==
  ASSUME IInv, NEW t \in Thread, Is(t, "exercise"), NEW v,
         NEW live \in SUBSET call[t].live, NEW cap \in call[t].live \cup {NoCap},
         NEW able \in SUBSET call[t].able,
         v = [call[t] EXCEPT !.live = live, !.cap = cap, !.able = able],
         Becomes(t, v), UNCHANGED <<tables, now>>
  PROVE  IInv'
<1>1. call[t] \in [op : {"exercise"}, live : SUBSET Cap, at : Time,
                   cap : Cap \cup {NoCap}, able : SUBSET Cap]
  BY DEF IInv, TypeOK, Call, Is, Idle
<1>2. call[t].live \subseteq Stored
  BY DEF IInv, CallOK
<1>3. v \in Call /\ v.op = "exercise" /\ v.live = live /\ v.cap = cap
  BY <1>1 DEF Call
<1> QED
  BY <1>2, <1>3, CallStep

LEMMA WithoutStep ==
  ASSUME IInv, NEW t \in Thread, Is(t, "exercise"), NEW c, NEW able \in SUBSET call[t].able,
         Becomes(t, [Without(t, c) EXCEPT !.able = able]), UNCHANGED <<tables, now>>
  PROVE  IInv'
<1>1. call[t] \in [op : {"exercise"}, live : SUBSET Cap, at : Time,
                   cap : Cap \cup {NoCap}, able : SUBSET Cap]
  BY DEF IInv, TypeOK, Call, Is, Idle
<1>2. [Without(t, c) EXCEPT !.able = able]
        = [call[t] EXCEPT !.live = call[t].live \ {c}, !.cap = NoCap, !.able = able]
  BY <1>1 DEF Without
<1> QED
  BY <1>2, SearchStep

LEMMA SearchEnds ==
  ASSUME IInv, NEW t \in Thread, Is(t, "exercise"), NEW c, Becomes(t, Without(t, c)),
         UNCHANGED <<tables, now>>
  PROVE  IInv'
<1> DEFINE able == {d \in call[t].able : Usable(d, call[t].at)}
<1>1. call[t] \in [op : {"exercise"}, live : SUBSET Cap, at : Time,
                   cap : Cap \cup {NoCap}, able : SUBSET Cap]
  BY DEF IInv, TypeOK, Call, Is, Idle
<1>2. Without(t, c) = [Without(t, c) EXCEPT !.able = able]
  BY <1>1 DEF Without
<1>3. able \in SUBSET call[t].able
  OBVIOUS
<1> HIDE DEF able
<1>4. Becomes(t, [Without(t, c) EXCEPT !.able = able])
  BY <1>2
<1> QED
  BY <1>3, <1>4, WithoutStep

LEMMA CheckStep == ASSUME IInv, NEW t \in Thread, NEW c \in Cap, Check(t, c) PROVE IInv'
<1>1. Is(t, "exercise") /\ c \in call[t].live /\ UNCHANGED <<tables, now>>
  BY DEF Check, Choosing
<1>2. CASE c \notin alive \/ Expired(c, call[t].at)
  BY <1>1, <1>2, SearchEnds DEF Check
<1>3. CASE c \in alive /\ ~ Expired(c, call[t].at) /\ Counted(c)
  <2>1. call[t] \in [op : {"exercise"}, live : SUBSET Cap, at : Time,
                     cap : Cap \cup {NoCap}, able : SUBSET Cap]
    BY <1>1 DEF IInv, TypeOK, Call, Is, Idle
  <2>2. [call[t] EXCEPT !.cap = c]
          = [call[t] EXCEPT !.live = call[t].live, !.cap = c, !.able = call[t].able]
    BY <2>1
  <2>3. Becomes(t, [call[t] EXCEPT !.cap = c])
    BY <1>3 DEF Check
  <2> QED
    BY <1>1, <2>2, <2>3, SearchStep
<1>4. CASE c \in alive /\ ~ Expired(c, call[t].at) /\ ~ Counted(c)
  BY <1>1, <1>4, IdleStep DEF Check
<1> QED
  BY <1>2, <1>3, <1>4

LEMMA SpendStep == ASSUME IInv, NEW t \in Thread, Spend(t) PROVE IInv'
<1> DEFINE c == call[t].cap
<1>1. Is(t, "exercise") /\ c \in Stored /\ c \in Cap /\ Stored \subseteq Cap
  BY DEF Spend, IInv, CallOK, Stored
<1>2. CASE ~ Fits(c)
  BY <1>1, <1>2, SearchEnds DEF Spend, tables
<1>3. CASE Fits(c)
  <2>1. /\ spent' = [spent EXCEPT ![c] = @ + 1]
        /\ used' = [used EXCEPT ![c] = @ + 1]
        /\ Becomes(t, Idle)
        /\ UNCHANGED <<caps, alive, capacity, now>>
    BY <1>3 DEF Spend
  <2>2. Stored' = Stored
    BY <2>1 DEF Stored
  <2>3. call' \in [Thread -> Call] /\ \A u \in Thread : call'[u] \in {call[u], Idle}
    BY <2>1 DEF IInv, TypeOK, Becomes, Call
  <2>4. \A u \in Thread : CallOK(u)'
    BY <2>2, <2>3 DEF IInv, CallOK, Is, Idle
  <2>5. /\ spent[c] \in Nat /\ capacity[c] \in 0 .. MaxCount /\ used[c] \in Nat /\ MaxCount \in Nat
        /\ spent[c] + 1 <= capacity[c]
    BY <1>1, <1>3, CapsAssumption DEF IInv, TypeOK, Fits
  <2>6. TypeOK'
    <3>1. spent' \in [Cap -> 0 .. MaxCount] /\ used' \in [Cap -> Nat]
      <4>1. spent[c] + 1 \in 0 .. MaxCount /\ used[c] + 1 \in Nat
        BY <2>5
      <4>2. spent \in [Cap -> 0 .. MaxCount] /\ used \in [Cap -> Nat]
        BY DEF IInv, TypeOK
      <4> HIDE DEF c
      <4> QED
        BY <1>1, <2>1, <4>1, <4>2
    <3>2. \A u \in Thread : Is(u, "exercise")' => (call[u].live \subseteq Stored)'
      BY <2>4 DEF CallOK
    <3> QED
      BY <2>1, <2>2, <2>3, <3>1, <3>2 DEF IInv, TypeOK
  <2>7. \A d \in Cap : PoolOK(d)'
    <3> SUFFICES ASSUME NEW d \in Cap PROVE PoolOK(d)'
      OBVIOUS
    <3>1. PoolOK(d) /\ spent \in [Cap -> 0 .. MaxCount] /\ used \in [Cap -> Nat]
      BY DEF IInv, TypeOK
    <3>2. CASE d = c
      <4>1. ~ caps[c].revoked
        BY <1>1, <2>5, <3>1, <3>2 DEF PoolOK
      <4> QED
        BY <1>1, <2>1, <2>2, <2>5, <3>1, <3>2, <4>1 DEF PoolOK, Counted
    <3>3. CASE d # c
      BY <2>1, <2>2, <3>1, <3>3 DEF PoolOK, Counted
    <3> QED
      BY <3>2, <3>3
  <2> QED
    BY <2>4, <2>6, <2>7 DEF IInv
<1> QED
  BY <1>2, <1>3

LEMMA SpendFailsStep == ASSUME IInv, NEW t \in Thread, SpendFails(t) PROVE IInv'
<1> DEFINE c == call[t].cap
           able == Without(t, c).able \ {c}
<1>1. call[t] \in [op : {"exercise"}, live : SUBSET Cap, at : Time,
                   cap : Cap \cup {NoCap}, able : SUBSET Cap]
  BY DEF SpendFails, IInv, TypeOK, Call, Is, Idle
<1>2. able \in SUBSET call[t].able
  BY <1>1 DEF Without
<1>3. Is(t, "exercise") /\ Becomes(t, [Without(t, c) EXCEPT !.able = able])
      /\ UNCHANGED <<tables, now>>
  BY DEF SpendFails
<1> HIDE DEF able
<1> QED
  BY <1>2, <1>3, WithoutStep

LEMMA RevokeStep == ASSUME IInv, NEW t \in Thread, NEW c \in Cap, Revoke(t, c) PROVE IInv'
<1>1. Descendants(c) \subseteq Cap /\ c \in Stored
  BY DEF Descendants, Stored, Revoke
<1> DEFINE v == Revoking({c}, <<>>, Descendants(c))
<1>2. v \in Call /\ v.op = "revoke" /\ v.frontier = {c} /\ v.cascade = <<>>
  BY <1>1 DEF Revoking, Call
<1>3. Becomes(t, v) /\ UNCHANGED <<tables, now>>
  BY DEF Revoke
<1>4. {c} \subseteq Stored /\ <<>> \in Seq(Stored)
  BY <1>1
<1> HIDE DEF v
<1> QED
  BY <1>2, <1>3, <1>4, CallStep

LEMMA WalkStep == ASSUME IInv, NEW t \in Thread, NEW c \in Cap, Walk(t, c) PROVE IInv'
<1> DEFINE f == (call[t].frontier \ {c}) \cup Reached(t, c)
           q == Append(call[t].cascade, c)
           v == [call[t] EXCEPT !.frontier = f, !.cascade = q]
<1>1. call[t] \in [op : {"revoke"}, frontier : SUBSET Cap, cascade : Seq(Cap), due : SUBSET Cap]
  BY DEF Walk, IInv, TypeOK, Call, Is, Idle
<1>2. /\ call[t].frontier \subseteq Stored /\ call[t].cascade \in Seq(Stored)
      /\ c \in Stored /\ Stored \subseteq Cap
  BY DEF IInv, CallOK, Walk, Stored
<1>3. f \subseteq Stored /\ q \in Seq(Stored) /\ q \in Seq(Cap)
  BY <1>1, <1>2 DEF Reached, Kids
<1>4. v \in Call /\ v.op = "revoke" /\ v.frontier = f /\ v.cascade = q
  BY <1>1, <1>2, <1>3 DEF Call
<1>5. Becomes(t, v) /\ UNCHANGED <<tables, now>>
  BY DEF Walk
<1> HIDE DEF v
<1> QED
  BY <1>3, <1>4, <1>5, CallStep

LEMMA RetireStep == ASSUME IInv, NEW t \in Thread, RetireCapability(t) PROVE IInv'
<1> DEFINE c == Head(call[t].cascade)
           rest == Tail(call[t].cascade)
           v == [call[t] EXCEPT !.cascade = rest]
<1>1. call[t] \in [op : {"revoke"}, frontier : SUBSET Cap, cascade : Seq(Cap), due : SUBSET Cap]
  BY DEF RetireCapability, Walked, IInv, TypeOK, Call, Is, Idle
<1>2. /\ call[t].frontier \subseteq Stored /\ call[t].cascade \in Seq(Stored)
      /\ call[t].cascade # <<>> /\ Stored \subseteq Cap
  BY DEF RetireCapability, Walked, IInv, CallOK, Stored
<1>3. c \in Stored /\ rest \in Seq(Stored) /\ rest \in Seq(Cap)
  BY <1>1, <1>2
<1>4. v \in Call /\ v.op = "revoke" /\ v.frontier \subseteq Stored /\ v.cascade = rest
  BY <1>1, <1>2, <1>3 DEF Call
<1>5. /\ spent' = [spent EXCEPT ![c] = 0]
      /\ capacity' = [capacity EXCEPT ![c] = 0]
      /\ alive' = alive \ {c}
      /\ caps' = [caps EXCEPT ![c].revoked = TRUE]
      /\ Becomes(t, v)
      /\ UNCHANGED <<used, now>>
  BY DEF RetireCapability, Zeroed
<1> HIDE DEF c, v, rest
<1>6. caps[c] \in Row /\ c \in Cap /\ caps \in [Cap -> Row \cup {NoRow}]
  BY <1>2, <1>3 DEF IInv, TypeOK, Stored
<1> DEFINE row == [caps[c] EXCEPT !.revoked = TRUE]
<1>7. /\ row \in Row /\ row.revoked /\ row.budget = caps[c].budget
      /\ \A d \in Cap : caps'[d] = IF d = c THEN row ELSE caps[d]
  BY <1>5, <1>6 DEF Row
<1>8. caps' \in [Cap -> Row \cup {NoRow}]
  BY <1>5, <1>6, <1>7
<1> HIDE DEF row
<1>9. Stored' = Stored
  BY <1>3, <1>7, RowIsNotNoRow DEF Stored
<1>10. /\ call' \in [Thread -> Call]
       /\ \A u \in Thread : call'[u] = IF u = t THEN v ELSE call[u]
  BY <1>4, <1>5 DEF IInv, TypeOK, Becomes
<1>11. \A u \in Thread : CallOK(u)'
  BY <1>3, <1>4, <1>9, <1>10 DEF IInv, CallOK, Is
<1>12. TypeOK'
  <2>1. spent' \in [Cap -> 0 .. MaxCount] /\ capacity' \in [Cap -> 0 .. MaxCount]
    <3>1. 0 \in 0 .. MaxCount
      BY CapsAssumption
    <3>2. spent \in [Cap -> 0 .. MaxCount] /\ capacity \in [Cap -> 0 .. MaxCount]
      BY DEF IInv, TypeOK
    <3> QED
      BY <1>5, <3>1, <3>2
  <2>2. \A u \in Thread : Is(u, "exercise")' => (call[u].live \subseteq Stored)'
    BY <1>11 DEF CallOK
  <2> QED
    BY <1>5, <1>8, <1>9, <1>10, <2>1, <2>2 DEF IInv, TypeOK
<1>13. \A d \in Cap : PoolOK(d)'
  <2> SUFFICES ASSUME NEW d \in Cap PROVE PoolOK(d)'
    OBVIOUS
  <2>1. PoolOK(d) /\ spent \in [Cap -> 0 .. MaxCount] /\ capacity \in [Cap -> 0 .. MaxCount]
    BY DEF IInv, TypeOK
  <2>2. CASE d = c
    BY <1>3, <1>5, <1>7, <1>9, <2>1, <2>2 DEF PoolOK, Counted
  <2>3. CASE d # c
    BY <1>5, <1>7, <1>9, <2>1, <2>3 DEF PoolOK, Counted
  <2> QED
    BY <2>2, <2>3
<1> QED
  BY <1>11, <1>12, <1>13 DEF IInv

LEMMA DiesStep == ASSUME IInv, NEW dead, Dies(dead) PROVE IInv'
<1> USE DEF Dies, RowsKept
<1>1. Stored' = Stored
  BY DEF Stored
<1>2. \A u \in Thread : CallOK(u)'
  BY <1>1 DEF IInv, CallOK, Is
<1>3. TypeOK'
  BY <1>1, <1>2 DEF IInv, TypeOK, CallOK, Is
<1>4. \A c \in Cap : PoolOK(c)'
  BY <1>1 DEF IInv, PoolOK, Counted
<1> QED
  BY <1>2, <1>3, <1>4 DEF IInv

LEMMA TickStep == ASSUME IInv, Tick PROVE IInv'
<1> USE DEF Tick, tables
<1>1. Stored' = Stored
  BY DEF Stored
<1>2. \A u \in Thread : CallOK(u)'
  BY <1>1 DEF IInv, CallOK, Is
<1>3. TypeOK'
  <2>1. now' \in Time
    BY CapsAssumption DEF IInv, TypeOK, Time
  <2> QED
    BY <1>1, <1>2, <2>1 DEF IInv, TypeOK, CallOK, Is
<1>4. \A c \in Cap : PoolOK(c)'
  BY <1>1 DEF IInv, PoolOK, Counted
<1> QED
  BY <1>2, <1>3, <1>4 DEF IInv

----------------------------------------------------------------------------
LEMMA ThreadIInv == ASSUME IInv, NEW t \in Thread, ThreadStep(t) PROVE IInv'
<1>1. ASSUME NEW c \in Cap, NEW s \in Subject, NEW k \in Constraint, Mint(t, c, s, k)
      PROVE  IInv'
  <2>1. NewRow(s, NoCap, k) \in Row /\ ~ NewRow(s, NoCap, k).revoked
    BY CapsAssumption DEF Row, NewRow
  <2> QED
    BY <1>1, <2>1, MintStep DEF Mint
<1>2. ASSUME NEW c \in Cap, StoreChild(t, c) PROVE IInv'
  <2>1. call[t].row \in Row /\ ~ call[t].row.revoked
    <3>1. call[t] \in Call /\ call[t].op = "attenuate" /\ CallOK(t)
      BY <1>2 DEF StoreChild, IInv, TypeOK, Is
    <3>2. call[t] \in [op : {"attenuate"}, row : Row]
      BY <3>1 DEF Call, Idle
    <3> QED
      BY <3>1, <3>2 DEF CallOK, Is
  <2> QED
    BY <1>2, <2>1, MintStep DEF StoreChild
<1>3. CASE Refuse(t) \/ ReturnRevoked(t) \/ Abort(t)
  BY <1>3, IdleStep DEF Refuse, ReturnRevoked, Abort
<1> QED
  BY <1>1, <1>2, <1>3, CheckParentStep, FindStep, CheckStep, SpendStep, SpendFailsStep,
     RevokeStep, WalkStep, RetireStep
     DEF ThreadStep

LEMMA NextIInv == IInv /\ [Next]_vars => IInv'
<1> SUFFICES ASSUME IInv, [Next]_vars PROVE IInv'
  OBVIOUS
<1>1. ASSUME NEW t \in Thread, ThreadStep(t) PROVE IInv'
  BY <1>1, ThreadIInv
<1>2. CASE Sweep
  BY <1>2, DiesStep DEF Sweep
<1>3. ASSUME NEW s \in Subject, Teardown(s) PROVE IInv'
  BY <1>3, DiesStep DEF Teardown
<1>4. CASE Tick
  BY <1>4, TickStep
<1>5. CASE UNCHANGED vars
  <2> USE <1>5 DEF vars
  <2>1. Stored' = Stored
    BY DEF Stored
  <2> QED
    BY <2>1 DEF IInv, TypeOK, PoolOK, CallOK, Is, Counted
<1> QED
  BY <1>1, <1>2, <1>3, <1>4, <1>5 DEF Next

THEOREM Inductive == Spec => []IInv
<1> QED
  BY InitIInv, NextIInv, PTL DEF Spec

(* The capability table keeps its shape, and no call holds what is not in it. *)
THEOREM TypeCorrect == Spec => []TypeOK
<1>1. IInv => TypeOK
  BY DEF IInv
<1> QED
  BY <1>1, Inductive, PTL

(* However exercises, sweeps, teardowns and revocations interleave, a      *)
(* counted capability is exercised no more often than it was minted for.   *)
THEOREM NeverOverspentSafe == Spec => []NeverOverspent
<1>1. IInv => NeverOverspent
  BY DEF IInv, PoolOK, NeverOverspent, Stored
<1> QED
  BY <1>1, Inductive, PTL

(* A revocation that was committed is final: the capability stays dead and *)
(* nothing is ever spent from its pool again.                              *)
THEOREM RevokedSafe == Spec => []RevokedIsClosed
<1>1. IInv => RevokedIsClosed
  BY DEF IInv, TypeOK, PoolOK, RevokedIsClosed, Stored
<1> QED
  BY <1>1, Inductive, PTL

----------------------------------------------------------------------------
(* What every step leaves as it was: rows keep their terms and their       *)
(* place, and what cannot be used stays so.                                *)
Ages ==
  /\ Stored \subseteq Stored'
  /\ \A c \in Stored :
       /\ caps'[c].budget = caps[c].budget
       /\ caps'[c].until = caps[c].until
       /\ caps'[c].parent = caps[c].parent
       /\ caps[c].revoked => caps'[c].revoked
       /\ c \in alive' => c \in alive
       /\ spent'[c] < capacity'[c] => spent[c] < capacity[c]

LEMMA TablesKept == UNCHANGED tables => Ages
BY DEF tables, Ages, Stored

LEMMA MintAges ==
  ASSUME IInv, NEW c \in Cap, NEW row \in Row, StoreMinted(c, row)
  PROVE  Ages
<1>1. \A d \in Cap : caps'[d] = IF d = c THEN row ELSE caps[d]
  BY DEF IInv, TypeOK, StoreMinted
<1>2. c \notin Stored
  BY DEF StoreMinted, Stored
<1>3. \A d \in Stored : d # c /\ d \in Cap /\ caps'[d] = caps[d] /\ capacity'[d] = capacity[d]
  BY <1>1, <1>2 DEF Stored, StoreMinted, IInv, TypeOK
<1> QED
  BY <1>3 DEF Ages, StoreMinted, Stored

LEMMA RetireAges == ASSUME IInv, NEW t \in Thread, RetireCapability(t) PROVE Ages
<1> DEFINE c == Head(call[t].cascade)
<1>1. /\ spent' = [spent EXCEPT ![c] = 0]
      /\ capacity' = [capacity EXCEPT ![c] = 0]
      /\ alive' = alive \ {c}
      /\ caps' = [caps EXCEPT ![c].revoked = TRUE]
  BY DEF RetireCapability, Zeroed
<1>2. call[t].cascade \in Seq(Stored) /\ call[t].cascade # <<>>
  BY DEF RetireCapability, Walked, IInv, CallOK
<1>3. c \in Stored
  BY <1>2
<1> HIDE DEF c
<1>4. caps[c] \in Row /\ c \in Cap /\ caps \in [Cap -> Row \cup {NoRow}]
      /\ spent \in [Cap -> 0 .. MaxCount] /\ capacity \in [Cap -> 0 .. MaxCount]
  BY <1>3 DEF IInv, TypeOK, Stored
<1> DEFINE row == [caps[c] EXCEPT !.revoked = TRUE]
<1>5. /\ row \in Row /\ row.revoked /\ row.budget = caps[c].budget
      /\ row.until = caps[c].until /\ row.parent = caps[c].parent
      /\ \A d \in Cap : caps'[d] = IF d = c THEN row ELSE caps[d]
  BY <1>1, <1>4 DEF Row
<1> HIDE DEF row
<1>6. Stored' = Stored
  BY <1>3, <1>5, RowIsNotNoRow DEF Stored
<1>7. ~ (spent'[c] < capacity'[c])
  BY <1>1, <1>4
<1>8. \A d \in Stored : d \in Cap
  BY DEF Stored
<1> QED
  BY <1>1, <1>4, <1>5, <1>6, <1>7, <1>8 DEF Ages

LEMMA SpendAges == ASSUME IInv, NEW t \in Thread, Spend(t) PROVE Ages
<1> DEFINE c == call[t].cap
<1>1. caps' = caps /\ alive' = alive /\ capacity' = capacity /\ Stored' = Stored
  BY DEF Spend, Stored
<1>2. spent' = spent \/ spent' = [spent EXCEPT ![c] = @ + 1]
  BY DEF Spend
<1>3. spent \in [Cap -> Nat] /\ capacity \in [Cap -> Nat] /\ Stored \subseteq Cap
  BY DEF IInv, TypeOK, Stored
<1> HIDE DEF c
<1>4. \A d \in Stored : spent'[d] < capacity'[d] => spent[d] < capacity[d]
  BY <1>1, <1>2, <1>3
<1> QED
  BY <1>1, <1>4 DEF Ages

LEMMA ThreadAges == ASSUME IInv, NEW t \in Thread, ThreadStep(t) PROVE Ages
<1>1. ASSUME NEW c \in Cap, NEW s \in Subject, NEW k \in Constraint, Mint(t, c, s, k)
      PROVE  Ages
  <2>1. NewRow(s, NoCap, k) \in Row
    BY CapsAssumption DEF Row, NewRow
  <2> QED
    BY <1>1, <2>1, MintAges DEF Mint
<1>2. ASSUME NEW c \in Cap, StoreChild(t, c) PROVE Ages
  <2>1. call[t] \in Call /\ call[t].op = "attenuate"
    BY <1>2 DEF StoreChild, IInv, TypeOK, Is
  <2>2. call[t] \in [op : {"attenuate"}, row : Row]
    BY <2>1 DEF Call, Idle
  <2> QED
    BY <1>2, <2>2, MintAges DEF StoreChild
<1>3. Spend(t) \/ RetireCapability(t) => Ages
  BY SpendAges, RetireAges
<1>4. ASSUME ThreadStep(t), ~ Spend(t), ~ RetireCapability(t),
             \A c \in Cap : ~ StoreChild(t, c),
             \A c \in Cap, s \in Subject, k \in Constraint : ~ Mint(t, c, s, k)
      PROVE  UNCHANGED tables
  BY <1>4 DEF ThreadStep, CheckParent, Find, Check, SpendFails, Refuse, Revoke, Walk,
              ReturnRevoked, Abort
<1> QED
  BY <1>1, <1>2, <1>3, <1>4, TablesKept

LEMMA NextAges == IInv /\ [Next]_vars => Ages
<1> SUFFICES ASSUME IInv, [Next]_vars PROVE Ages
  OBVIOUS
<1>1. ASSUME NEW dead, Dies(dead) PROVE Ages
  BY <1>1 DEF Dies, RowsKept, Ages, Stored
<1>2. Tick \/ UNCHANGED vars => Ages
  BY TablesKept DEF Tick, vars, tables
<1> QED
  BY <1>1, <1>2, ThreadAges DEF Next, Sweep, Teardown

----------------------------------------------------------------------------
(* A search still holds everything that has been usable since it began, and *)
(* what it is about to spend from is counted.                               *)
FindOK(t) ==
  Is(t, "exercise") =>
    /\ call[t].able \subseteq Stored
    /\ \A c \in call[t].able : c \in call[t].live \/ ~ Usable(c, call[t].at)
    /\ call[t].cap # NoCap => Counted(call[t].cap)

LEMMA UsableAges ==
  ASSUME Ages, NEW c \in Stored, NEW at
  PROVE  Usable(c, at)' => Usable(c, at)
BY DEF Ages, Usable, Expired, Counted

LEMMA FindOKAges ==
  ASSUME Ages, NEW t \in Thread, call'[t] = call[t], FindOK(t), CallOK(t), NoCap \notin Stored
  PROVE  FindOK(t)'
<1> SUFFICES ASSUME Is(t, "exercise") PROVE FindOK(t)'
  BY DEF FindOK, Is
<1>1. call[t].able \subseteq Stored'
  BY DEF FindOK, Ages
<1>2. PICK at : at = call[t].at
  OBVIOUS
<1>3. ASSUME NEW c \in call[t].able PROVE c \in call[t].live \/ ~ Usable(c, at)'
  BY <1>2, UsableAges DEF FindOK
<1>4. call[t].cap # NoCap => Counted(call[t].cap)'
  BY DEF FindOK, CallOK, Ages, Counted
<1>5. /\ call'[t].able = call[t].able /\ call'[t].live = call[t].live
      /\ call'[t].cap = call[t].cap /\ call'[t].at = at
  BY <1>2
<1> QED
  BY <1>1, <1>3, <1>4, <1>5 DEF FindOK, Is, Usable, Expired, Counted

(* Dropping a candidate that cannot be used loses nothing. *)
LEMMA FindOKWithout ==
  ASSUME IInv, NEW t \in Thread, Is(t, "exercise"), FindOK(t), NEW c, NEW able,
         able \subseteq call[t].able, UNCHANGED tables,
         \A d \in able : d = c => ~ Usable(c, call[t].at),
         Becomes(t, [call[t] EXCEPT !.live = @ \ {c}, !.cap = NoCap, !.able = able])
  PROVE  FindOK(t)'
<1>1. call[t] \in [op : {"exercise"}, live : SUBSET Cap, at : Time,
                   cap : Cap \cup {NoCap}, able : SUBSET Cap]
  BY DEF IInv, TypeOK, Call, Is, Idle
<1>2. call'[t] = [call[t] EXCEPT !.live = @ \ {c}, !.cap = NoCap, !.able = able]
  BY DEF Becomes, IInv, TypeOK
<1>3. /\ call'[t].live = call[t].live \ {c} /\ call'[t].cap = NoCap
      /\ call'[t].able = able /\ call'[t].at = call[t].at
  BY <1>1, <1>2
<1>4. Stored' = Stored
  BY DEF tables, Stored
<1> QED
  BY <1>3, <1>4 DEF FindOK, Usable, Expired, Counted, tables

LEMMA OthersKept ==
  ASSUME IInv, NEW t \in Thread, ThreadStep(t), NEW u \in Thread, u # t
  PROVE  call'[u] = call[u]
<1>1. call \in [Thread -> Call]
  BY DEF IInv, TypeOK
<1>2. UNCHANGED call \/ \E v : Becomes(t, v)
  BY DEF ThreadStep, Mint, CheckParent, StoreChild, Find, Check, Spend, SpendFails, Refuse,
         Revoke, Walk, RetireCapability, ReturnRevoked, Abort
<1> QED
  BY <1>1, <1>2 DEF Becomes

LEMMA CheckFindOK ==
  ASSUME IInv, NEW t \in Thread, NEW c \in Cap, FindOK(t), Check(t, c)
  PROVE  FindOK(t)'
<1> DEFINE able == {d \in call[t].able : Usable(d, call[t].at)}
<1>1. Is(t, "exercise") /\ c \in call[t].live /\ UNCHANGED <<tables, now>>
  BY DEF Check, Choosing
<1>2. call[t] \in [op : {"exercise"}, live : SUBSET Cap, at : Time,
                   cap : Cap \cup {NoCap}, able : SUBSET Cap]
  BY <1>1 DEF IInv, TypeOK, Call, Is, Idle
<1>3. Stored' = Stored
  BY <1>1 DEF tables, Stored
<1>4. CASE c \notin alive \/ Expired(c, call[t].at)
  <2>1. Becomes(t, [call[t] EXCEPT !.live = @ \ {c}, !.cap = NoCap, !.able = able])
    BY <1>4 DEF Check, Without
  <2>2. able \subseteq call[t].able /\ \A d \in able : d = c => ~ Usable(c, call[t].at)
    BY <1>4 DEF Usable
  <2> HIDE DEF able
  <2> QED
    BY <1>1, <2>1, <2>2, FindOKWithout
<1>5. CASE c \in alive /\ ~ Expired(c, call[t].at) /\ Counted(c)
  <2>1. call'[t] = [call[t] EXCEPT !.cap = c]
    BY <1>5 DEF Check, Becomes, IInv, TypeOK
  <2>2. /\ call'[t].live = call[t].live /\ call'[t].cap = c
        /\ call'[t].able = call[t].able /\ call'[t].at = call[t].at
    BY <1>2, <2>1
  <2> QED
    BY <1>1, <1>3, <1>5, <2>2 DEF FindOK, Usable, Expired, Counted, tables
<1>6. CASE c \in alive /\ ~ Expired(c, call[t].at) /\ ~ Counted(c)
  BY <1>6 DEF Check, Becomes, IInv, TypeOK, FindOK, Is, Idle
<1> QED
  BY <1>4, <1>5, <1>6

LEMMA SpendFindOK ==
  ASSUME IInv, NEW t \in Thread, FindOK(t), Spend(t)
  PROVE  FindOK(t)'
<1> DEFINE c == call[t].cap
           able == {d \in call[t].able : Usable(d, call[t].at)}
<1>1. Is(t, "exercise") /\ c # NoCap /\ c \in Stored /\ Stored \subseteq Cap
  BY DEF Spend, IInv, CallOK, Stored
<1>2. CASE Fits(c)
  BY <1>2 DEF Spend, Becomes, IInv, TypeOK, FindOK, Is, Idle
<1>3. CASE ~ Fits(c)
  <2>1. Becomes(t, Without(t, c)) /\ UNCHANGED tables
    BY <1>3 DEF Spend, tables
  <2>2. Becomes(t, [call[t] EXCEPT !.live = @ \ {c}, !.cap = NoCap, !.able = able])
    BY <2>1 DEF Without
  <2>3. ~ Usable(c, call[t].at)
    <3>1. Counted(c)
      BY <1>1 DEF FindOK
    <3>2. spent[c] \in Nat /\ capacity[c] \in Nat
      BY <1>1 DEF IInv, TypeOK
    <3> QED
      BY <1>3, <3>1, <3>2 DEF Fits, Usable
  <2>4. able \subseteq call[t].able /\ \A d \in able : d = c => ~ Usable(c, call[t].at)
    BY <2>3
  <2> HIDE DEF able, c
  <2> QED
    BY <1>1, <2>1, <2>2, <2>4, FindOKWithout
<1> QED
  BY <1>2, <1>3

LEMMA SpendFailsFindOK ==
  ASSUME IInv, NEW t \in Thread, FindOK(t), SpendFails(t)
  PROVE  FindOK(t)'
<1> DEFINE c == call[t].cap
           able == Without(t, c).able \ {c}
<1>1. Is(t, "exercise") /\ UNCHANGED tables
  BY DEF SpendFails
<1>2. call[t] \in [op : {"exercise"}, live : SUBSET Cap, at : Time,
                   cap : Cap \cup {NoCap}, able : SUBSET Cap]
  BY <1>1 DEF IInv, TypeOK, Call, Is, Idle
<1>3. able \subseteq call[t].able /\ \A d \in able : d # c
  BY <1>2 DEF Without
<1>4. Becomes(t, [Without(t, c) EXCEPT !.able = able])
  BY DEF SpendFails
<1>5. [Without(t, c) EXCEPT !.able = able]
        = [call[t] EXCEPT !.live = @ \ {c}, !.cap = NoCap, !.able = able]
  BY <1>2 DEF Without
<1> HIDE DEF able, c
<1>6. Becomes(t, [call[t] EXCEPT !.live = @ \ {c}, !.cap = NoCap, !.able = able])
  BY <1>4, <1>5
<1>7. \A d \in able : d = c => ~ Usable(c, call[t].at)
  BY <1>3
<1> QED
  BY <1>1, <1>3, <1>6, <1>7, FindOKWithout

LEMMA FindFindOK ==
  ASSUME IInv, NEW t \in Thread, NEW s \in Subject, Find(t, s)
  PROVE  FindOK(t)'
<1> DEFINE able == {c \in Candidates(s) : Usable(c, now)}
           v == Exercising(Candidates(s) \cap alive, now, NoCap, able)
<1>1. call'[t] = v /\ UNCHANGED <<tables, now>>
  BY DEF Find, Becomes, IInv, TypeOK
<1>2. v.able = able /\ v.live = Candidates(s) \cap alive /\ v.cap = NoCap /\ v.at = now
  BY DEF Exercising
<1>3. able \subseteq Candidates(s) \cap alive /\ able \subseteq Stored /\ Stored' = Stored
  BY <1>1 DEF Usable, Candidates, tables, Stored
<1> HIDE DEF v, able
<1>4. /\ call'[t].able \subseteq Stored' /\ call'[t].able \subseteq call'[t].live
      /\ call'[t].cap = NoCap
  BY <1>1, <1>2, <1>3
<1> QED
  BY <1>4 DEF FindOK

LEMMA ThreadFindOK ==
  ASSUME IInv, NEW t \in Thread, FindOK(t), ThreadStep(t)
  PROVE  FindOK(t)'
<1>1. NoCap \notin Stored /\ CallOK(t)
  BY CapsAssumption DEF Stored, IInv
<1>2. CASE call'[t] = call[t]
  BY <1>1, <1>2, ThreadAges, FindOKAges
<1>3. CASE call'[t].op # "exercise"
  BY <1>3 DEF FindOK, Is
<1>4. ASSUME call'[t] # call[t], call'[t].op = "exercise"
      PROVE  \/ \E s \in Subject : Find(t, s)
             \/ \E c \in Cap : Check(t, c)
             \/ Spend(t)
             \/ SpendFails(t)
  <2>1. ASSUME NEW v, Becomes(t, v) PROVE call'[t] = v
    BY <2>1 DEF Becomes, IInv, TypeOK
  <2>2. ASSUME NEW p \in Cap, NEW s \in Subject, NEW k \in Constraint, CheckParent(t, p, s, k)
        PROVE  FALSE
    BY <1>4, <2>1, <2>2 DEF CheckParent, Attenuating
  <2>3. ASSUME Becomes(t, Idle) PROVE FALSE
    BY <1>4, <2>1, <2>3 DEF Idle
  <2>4. ASSUME NEW c \in Cap, Revoke(t, c) PROVE FALSE
    BY <1>4, <2>1, <2>4 DEF Revoke, Revoking
  <2>5. Is(t, "revoke") =>
          call[t] \in [op : {"revoke"}, frontier : SUBSET Cap, cascade : Seq(Cap), due : SUBSET Cap]
    BY DEF IInv, TypeOK, Call, Is, Idle
  <2>6. ASSUME NEW c \in Cap, Walk(t, c) PROVE FALSE
    <3> DEFINE x == (call[t].frontier \ {c}) \cup Reached(t, c)
               y == Append(call[t].cascade, c)
               v == [call[t] EXCEPT !.frontier = x, !.cascade = y]
    <3>1. call'[t] = v /\ Is(t, "revoke")
      BY <2>1, <2>6 DEF Walk
    <3>2. v.op = "revoke"
      <4> HIDE DEF x, y
      <4> QED
        BY <2>5, <3>1
    <3> HIDE DEF v
    <3> QED
      BY <1>4, <3>1, <3>2
  <2>7. ASSUME RetireCapability(t) PROVE FALSE
    <3> DEFINE y == Tail(call[t].cascade)
               v == [call[t] EXCEPT !.cascade = y]
    <3>1. call'[t] = v /\ Is(t, "revoke")
      BY <2>1, <2>7 DEF RetireCapability, Walked
    <3>2. v.op = "revoke"
      <4> HIDE DEF y
      <4> QED
        BY <2>5, <3>1
    <3> HIDE DEF v
    <3> QED
      BY <1>4, <3>1, <3>2
  <2>8. \A c \in Cap, s \in Subject, k \in Constraint : Mint(t, c, s, k) => call'[t] = call[t]
    BY DEF Mint
  <2> QED
    BY <1>4, <2>2, <2>3, <2>4, <2>6, <2>7, <2>8
       DEF ThreadStep, StoreChild, Refuse, ReturnRevoked, Abort
<1> QED
  BY <1>2, <1>3, <1>4, FindFindOK, CheckFindOK, SpendFindOK, SpendFailsFindOK

LEMMA NextFindOK ==
  IInv /\ (\A t \in Thread : FindOK(t)) /\ [Next]_vars => (\A t \in Thread : FindOK(t))'
<1> SUFFICES ASSUME IInv, \A u \in Thread : FindOK(u), [Next]_vars, NEW t \in Thread
             PROVE  FindOK(t)'
  OBVIOUS
<1>1. CallOK(t) /\ NoCap \notin Stored /\ FindOK(t) /\ Ages
  BY NextAges, CapsAssumption DEF IInv, Stored
<1>2. CASE call'[t] = call[t]
  BY <1>1, <1>2, FindOKAges
<1>3. CASE ThreadStep(t)
  BY <1>1, <1>3, ThreadFindOK
<1>4. ASSUME NEW u \in Thread, u # t, ThreadStep(u) PROVE call'[t] = call[t]
  BY <1>4, OthersKept
<1>5. Sweep \/ (\E s \in Subject : Teardown(s)) \/ Tick \/ UNCHANGED vars => call'[t] = call[t]
  BY DEF Sweep, Teardown, Dies, Tick, vars
<1> QED
  BY <1>2, <1>3, <1>4, <1>5 DEF Next

(* find_and_exercise refuses only when every capability that could have     *)
(* served since it was called has died, expired or been spent.              *)
THEOREM FindsSafe == Spec => []FindsWhatIsThere
<1>1. Init => IInv /\ \A t \in Thread : FindOK(t)
  <2>1. Init => \A t \in Thread : call[t] = Idle
    BY DEF Init
  <2> QED
    BY <2>1, InitIInv DEF FindOK, Is, Idle
<1>2. (IInv /\ \A t \in Thread : FindOK(t)) /\ [Next]_vars
        => (IInv /\ \A t \in Thread : FindOK(t))'
  BY NextIInv, NextFindOK
<1>3. (IInv /\ \A t \in Thread : FindOK(t)) => FindsWhatIsThere
  BY DEF FindOK, FindsWhatIsThere, Exhausted, Choosing
<1> QED
  BY <1>1, <1>2, <1>3, PTL DEF Spec

----------------------------------------------------------------------------
(* What is due to a revoke has been retired, awaits its turn, or lies below *)
(* what is still to be looked at.                                           *)
ReachOK(t) ==
  Is(t, "revoke") =>
    /\ call[t].due \subseteq Stored
    /\ \A d \in call[t].due :
         \/ caps[d].revoked
         \/ \E i \in 1 .. Len(call[t].cascade) : call[t].cascade[i] = d
         \/ \E f \in call[t].frontier : d \in Descendants(f)

(* Steps only add to what lies below a capability. *)
LEMMA DescendantsAges ==
  ASSUME Ages, NEW c \in Stored, NEW d \in Descendants(c)
  PROVE  d \in Descendants(c)'
<1>1. d \in Stored'
  BY DEF Descendants, Ages
<1>2. ASSUME NEW S \in SUBSET Stored', c \in S,
             \A k \in Stored' : caps'[k].parent \in S => k \in S
      PROVE  d \in S
  <2> DEFINE R == S \cap Stored
  <2>1. R \in SUBSET Stored /\ c \in R
    BY <1>2
  <2>2. \A k \in Stored : caps[k].parent \in R => k \in R
    BY <1>2 DEF Ages
  <2> HIDE DEF R
  <2>3. d \in R
    BY <2>1, <2>2 DEF Descendants
  <2> QED
    BY <2>3 DEF R
<1> QED
  BY <1>1, <1>2 DEF Descendants

(* What lies below a capability is itself, or lies below one of its kids. *)
LEMMA DescendantsOfKids ==
  ASSUME NEW c \in Stored, NEW d \in Descendants(c), d # c
  PROVE  \E k \in Kids(c) : d \in Descendants(k)
<1> DEFINE S == {x \in Stored : x = c \/ \E k \in Kids(c) : x \in Descendants(k)}
<1>1. S \in SUBSET Stored /\ c \in S
  OBVIOUS
<1>2. ASSUME NEW y \in Stored, caps[y].parent \in S PROVE y \in S
  <2> DEFINE x == caps[y].parent
  <2>1. CASE x = c
    BY <2>1 DEF Kids, Descendants
  <2>2. ASSUME NEW k \in Kids(c), x \in Descendants(k) PROVE y \in Descendants(k)
    BY <2>2 DEF Descendants
  <2> QED
    BY <1>2, <2>1, <2>2
<1> HIDE DEF S
<1>3. d \in S
  BY <1>1, <1>2 DEF Descendants
<1> QED
  BY <1>3 DEF S

LEMMA ReachOKAges ==
  ASSUME IInv, Ages, NEW t \in Thread, call'[t] = call[t], ReachOK(t)
  PROVE  ReachOK(t)'
<1> SUFFICES ASSUME Is(t, "revoke") PROVE ReachOK(t)'
  BY DEF ReachOK, Is
<1>1. call[t].frontier \subseteq Stored
  BY DEF IInv, CallOK
<1>2. ASSUME NEW f \in call[t].frontier, NEW d \in Descendants(f) PROVE d \in Descendants(f)'
  BY <1>1, <1>2, DescendantsAges
<1>3. PICK v : v = call[t]
  OBVIOUS
<1>4. v.due \subseteq Stored'
  BY <1>3 DEF ReachOK, Ages
<1>5. ASSUME NEW d \in v.due
      PROVE  \/ caps'[d].revoked
             \/ \E i \in 1 .. Len(v.cascade) : v.cascade[i] = d
             \/ \E f \in v.frontier : d \in Descendants(f)'
  BY <1>2, <1>3 DEF ReachOK, Ages
<1> QED
  BY <1>3, <1>4, <1>5 DEF ReachOK, Is, Descendants, Stored

LEMMA RevokeReachOK ==
  ASSUME IInv, NEW t \in Thread, NEW c \in Cap, Revoke(t, c)
  PROVE  ReachOK(t)'
<1>1. call'[t] = Revoking({c}, <<>>, Descendants(c)) /\ UNCHANGED tables
  BY DEF Revoke, Becomes, IInv, TypeOK
<1>2. call'[t].due = Descendants(c) /\ call'[t].frontier = {c}
  BY <1>1 DEF Revoking
<1>3. Stored' = Stored /\ Descendants(c)' = Descendants(c)
  BY <1>1 DEF tables, Stored, Descendants
<1>4. Descendants(c) \subseteq Stored
  BY DEF Descendants
<1> QED
  BY <1>2, <1>3, <1>4 DEF ReachOK

LEMMA WalkReachOK ==
  ASSUME IInv, NEW t \in Thread, NEW c \in Cap, Walk(t, c), ReachOK(t)
  PROVE  ReachOK(t)'
<1> DEFINE x == (call[t].frontier \ {c}) \cup Reached(t, c)
           y == Append(call[t].cascade, c)
<1>1. /\ Is(t, "revoke") /\ c \in call[t].frontier /\ UNCHANGED tables
      /\ call'[t] = [call[t] EXCEPT !.frontier = x, !.cascade = y]
  BY DEF Walk, Becomes, IInv, TypeOK
<1>2. /\ call[t] \in [op : {"revoke"}, frontier : SUBSET Cap, cascade : Seq(Cap), due : SUBSET Cap]
      /\ c \in Stored
  BY <1>1 DEF IInv, TypeOK, Call, CallOK, Is, Idle
<1>3. call'[t].frontier = x /\ call'[t].cascade = y /\ call'[t].due = call[t].due
  <2> HIDE DEF x, y
  <2> QED
    BY <1>1, <1>2
<1>4. /\ y[Len(y)] = c /\ Len(y) = Len(call[t].cascade) + 1 /\ Len(call[t].cascade) \in Nat
      /\ \A i \in 1 .. Len(call[t].cascade) : y[i] = call[t].cascade[i]
  BY <1>2
<1>5. Stored' = Stored /\ \A f : Descendants(f)' = Descendants(f)
  BY <1>1 DEF tables, Stored, Descendants
<1>6. x = (call[t].frontier \ {c}) \cup Kids(c)
  BY DEF Reached
<1> HIDE DEF x, y
<1>7. ASSUME NEW d \in call[t].due
      PROVE  \/ caps[d].revoked
             \/ \E i \in 1 .. Len(y) : y[i] = d
             \/ \E f \in x : d \in Descendants(f)
  <2>1. CASE \E i \in 1 .. Len(call[t].cascade) : call[t].cascade[i] = d
    BY <1>4, <2>1
  <2>2. CASE d \in Descendants(c) /\ d = c
    BY <1>4, <2>2
  <2>3. CASE d \in Descendants(c) /\ d # c
    BY <1>2, <1>6, <2>3, DescendantsOfKids
  <2>4. ASSUME NEW f \in call[t].frontier, f # c, d \in Descendants(f)
        PROVE  \E g \in x : d \in Descendants(g)
    BY <1>6, <2>4
  <2> QED
    BY <1>1, <2>1, <2>2, <2>3, <2>4 DEF ReachOK
<1> QED
  BY <1>1, <1>3, <1>5, <1>7 DEF ReachOK, tables

LEMMA RetireReachOK ==
  ASSUME IInv, NEW t \in Thread, RetireCapability(t), ReachOK(t)
  PROVE  ReachOK(t)'
<1> DEFINE s == call[t].cascade
           c == Head(s)
           rest == Tail(s)
<1>1. /\ Is(t, "revoke") /\ call[t].frontier = {} /\ s # <<>>
      /\ call'[t] = [call[t] EXCEPT !.cascade = rest]
      /\ caps' = [caps EXCEPT ![c].revoked = TRUE]
  BY DEF RetireCapability, Walked, Becomes, IInv, TypeOK
<1>2. /\ call[t] \in [op : {"revoke"}, frontier : SUBSET Cap, cascade : Seq(Cap), due : SUBSET Cap]
      /\ s \in Seq(Stored)
  BY <1>1 DEF IInv, TypeOK, Call, CallOK, Is, Idle
<1>3. /\ call'[t].frontier = {} /\ call'[t].due = call[t].due /\ call'[t].cascade = rest
  <2> HIDE DEF rest
  <2> QED
    BY <1>1, <1>2
<1>4. /\ c = s[1] /\ c \in Stored /\ Len(rest) = Len(s) - 1 /\ Len(s) \in Nat
      /\ \A i \in 1 .. Len(s) : i # 1 => i - 1 \in 1 .. Len(rest) /\ rest[i - 1] = s[i]
  BY <1>1, <1>2
<1> HIDE DEF c, rest
<1>5. caps'[c].revoked
  BY <1>1, <1>4 DEF IInv, TypeOK, Stored, Row
<1>6. Ages
  BY RetireAges
<1>7. ASSUME NEW d \in call[t].due
      PROVE  caps'[d].revoked \/ \E i \in 1 .. Len(rest) : rest[i] = d
  <2>1. CASE caps[d].revoked
    BY <1>1, <1>6, <2>1 DEF Ages, ReachOK
  <2>2. ASSUME NEW i \in 1 .. Len(s), s[i] = d
        PROVE  caps'[d].revoked \/ \E j \in 1 .. Len(rest) : rest[j] = d
    BY <1>4, <1>5, <2>2
  <2> QED
    BY <1>1, <2>1, <2>2 DEF ReachOK
<1> QED
  BY <1>1, <1>3, <1>6, <1>7 DEF ReachOK, Ages

LEMMA ThreadReachOK ==
  ASSUME IInv, NEW t \in Thread, ReachOK(t), ThreadStep(t)
  PROVE  ReachOK(t)'
<1>1. CASE call'[t] = call[t]
  BY <1>1, ThreadAges, ReachOKAges
<1>2. CASE call'[t].op # "revoke"
  BY <1>2 DEF ReachOK, Is
<1>3. ASSUME call'[t] # call[t], call'[t].op = "revoke"
      PROVE  \/ \E c \in Cap : Revoke(t, c)
             \/ \E c \in Cap : Walk(t, c)
             \/ RetireCapability(t)
  <2>1. ASSUME NEW v, Becomes(t, v) PROVE call'[t] = v
    BY <2>1 DEF Becomes, IInv, TypeOK
  <2>2. ASSUME NEW p \in Cap, NEW s \in Subject, NEW k \in Constraint, CheckParent(t, p, s, k)
        PROVE  FALSE
    BY <1>3, <2>1, <2>2 DEF CheckParent, Attenuating
  <2>3. ASSUME Becomes(t, Idle) PROVE FALSE
    BY <1>3, <2>1, <2>3 DEF Idle
  <2>4. ASSUME NEW s \in Subject, Find(t, s) PROVE FALSE
    BY <1>3, <2>1, <2>4 DEF Find, Exercising
  <2>5. ASSUME Is(t, "exercise"), Becomes(t, Idle) \/ \E v : Becomes(t, v) /\ v.op = "exercise"
        PROVE  FALSE
    BY <1>3, <2>1, <2>5 DEF Idle
  <2>6. ASSUME Is(t, "exercise")
        PROVE  /\ \A c : Without(t, c).op = "exercise"
               /\ \A c : [call[t] EXCEPT !.cap = c].op = "exercise"
               /\ \A c, able : [Without(t, c) EXCEPT !.able = able].op = "exercise"
    <3>1. call[t] \in [op : {"exercise"}, live : SUBSET Cap, at : Time,
                       cap : Cap \cup {NoCap}, able : SUBSET Cap]
      BY <2>6 DEF IInv, TypeOK, Call, Is, Idle
    <3> QED
      BY <3>1 DEF Without
  <2>7. ASSUME NEW c \in Cap, Check(t, c) PROVE FALSE
    BY <2>5, <2>6, <2>7 DEF Check, Choosing
  <2>8. ~ Spend(t)
    BY <2>5, <2>6 DEF Spend
  <2>9. ~ SpendFails(t)
    <3> DEFINE able == Without(t, call[t].cap).able \ {call[t].cap}
               v == [Without(t, call[t].cap) EXCEPT !.able = able]
    <3>1. SpendFails(t) => Is(t, "exercise") /\ Becomes(t, v)
      BY DEF SpendFails
    <3>2. Is(t, "exercise") => v.op = "exercise"
      <4> HIDE DEF able
      <4> QED
        BY <2>6
    <3> HIDE DEF v
    <3> QED
      BY <2>5, <3>1, <3>2
  <2>10. \A c \in Cap, s \in Subject, k \in Constraint : Mint(t, c, s, k) => call'[t] = call[t]
    BY DEF Mint
  <2> QED
    BY <1>3, <2>2, <2>3, <2>4, <2>7, <2>8, <2>9, <2>10
       DEF ThreadStep, StoreChild, Refuse, ReturnRevoked, Abort
<1> QED
  BY <1>1, <1>2, <1>3, RevokeReachOK, WalkReachOK, RetireReachOK

LEMMA NextReachOK ==
  IInv /\ (\A t \in Thread : ReachOK(t)) /\ [Next]_vars => (\A t \in Thread : ReachOK(t))'
<1> SUFFICES ASSUME IInv, \A u \in Thread : ReachOK(u), [Next]_vars, NEW t \in Thread
             PROVE  ReachOK(t)'
  OBVIOUS
<1>1. CASE call'[t] = call[t]
  BY <1>1, NextAges, ReachOKAges
<1>2. CASE ThreadStep(t)
  BY <1>2, ThreadReachOK
<1>3. ASSUME NEW u \in Thread, u # t, ThreadStep(u) PROVE call'[t] = call[t]
  BY <1>3, OthersKept
<1>4. Sweep \/ (\E s \in Subject : Teardown(s)) \/ Tick \/ UNCHANGED vars => call'[t] = call[t]
  BY DEF Sweep, Teardown, Dies, Tick, vars
<1> QED
  BY <1>1, <1>2, <1>3, <1>4 DEF Next

(* A revoke that returns has reached whatever had been attenuated from its  *)
(* capability when it was called, at any depth and under any interleaving.  *)
THEOREM RevokeReachesSafe == Spec => []RevokeReachesAll
<1>1. Init => IInv /\ \A t \in Thread : ReachOK(t)
  <2>1. Init => \A t \in Thread : call[t] = Idle
    BY DEF Init
  <2> QED
    BY <2>1, InitIInv DEF ReachOK, Is, Idle
<1>2. (IInv /\ \A t \in Thread : ReachOK(t)) /\ [Next]_vars
        => (IInv /\ \A t \in Thread : ReachOK(t))'
  BY NextIInv, NextReachOK
<1>3. (IInv /\ \A t \in Thread : ReachOK(t)) => RevokeReachesAll
  <2> SUFFICES ASSUME IInv, \A u \in Thread : ReachOK(u), NEW t \in Thread, Revoked(t),
                      NEW c \in call[t].due
               PROVE  caps[c].revoked /\ c \notin alive
    BY DEF RevokeReachesAll
  <2>1. Is(t, "revoke") /\ call[t].frontier = {} /\ call[t].cascade = <<>>
    BY DEF Revoked, Walked
  <2>2. caps[c].revoked /\ c \in Stored
    BY <2>1 DEF ReachOK
  <2> QED
    BY <2>2 DEF IInv, PoolOK, Stored
<1> QED
  BY <1>1, <1>2, <1>3, PTL DEF Spec
=============================================================================
