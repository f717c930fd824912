-------------------------- MODULE KernelRootProofs --------------------------
(***************************************************************************)
(* Proofs about one kernel root, for any processes, tables, writes and     *)
(* failures: LedgerStore's storage stays consistent and implements         *)
(* DurableLog, AuditLog's chain holds, and KernelRoot does to each of the  *)
(* two what that store's own module allows.                                *)
(***************************************************************************)
EXTENDS KernelRoot, SequenceTheorems, TLAPS

----------------------------------------------------------------------------
(* The ledger store: LedgerStore. *)

(* What a call in progress knows about the database. *)
StagedHolds(s) ==
  /\ s \in open /\ writable[s]
  /\ revision[s] = disk.revision
  /\ disk.revision < MaxRevision
  /\ memory[s] = Content
  /\ staged[s].write \in Write \ (acked \cup rejected \cup Written)
  /\ staged[s].log = Append(disk.log, staged[s].write)
  /\ staged[s].aux = disk.aux \cup ({staged[s].write} \cap Bookkeeping)

CommittedHolds(s) ==
  /\ s \in open /\ writable[s]
  /\ revision[s] + 1 <= disk.revision
  /\ revision[s] + 1 = disk.revision =>
       disk.log = staged[s].log /\ disk.rows = memory[s].rows
  /\ staged[s].write \in Written

CallHolds(s) ==
  /\ step[s] = "staged" <=> writer = s
  /\ step[s] = "staged" => StagedHolds(s)
  /\ step[s] = "committed" => CommittedHolds(s)

ReportsHold == acked \subseteq Written /\ rejected \cap Written = {}

IInv ==
  /\ StoreTypeOK
  /\ Consistent
  /\ ReportsHold
  /\ open # {} => disk.version = "current"
  /\ \A s \in Store : revision[s] <= disk.revision
  /\ \A s \in Store : CallHolds(s)

USE StoreAssumption

----------------------------------------------------------------------------
(* An appended write is one more that was written, and the rest is as before. *)
LEMMA WrittenAppend ==
  ASSUME NEW l \in Seq(Write), NEW w \in Write
  PROVE  /\ Append(l, w) \in Seq(Write)
         /\ {Append(l, w)[i] : i \in DOMAIN Append(l, w)} = {l[i] : i \in DOMAIN l} \cup {w}
<1>1. /\ Append(l, w) \in Seq(Write)
      /\ DOMAIN Append(l, w) = 1 .. Len(l) + 1
      /\ DOMAIN l = 1 .. Len(l)
      /\ Len(l) \in Nat
      /\ \A i \in 1 .. Len(l) : Append(l, w)[i] = l[i]
      /\ Append(l, w)[Len(l) + 1] = w
  BY AppendProperties, LenProperties
<1>2. {Append(l, w)[i] : i \in 1 .. Len(l) + 1} = {l[i] : i \in 1 .. Len(l)} \cup {w}
  BY <1>1
<1> QED
  BY <1>1, <1>2

LEMMA WrittenType == ASSUME disk.log \in Seq(Write) PROVE Written \subseteq Write
<1>1. \A i \in DOMAIN disk.log : disk.log[i] \in Write
  BY ElementOfSeq, LenProperties
<1> QED
  BY <1>1 DEF Written

LEMMA InitInv == ASSUME Init PROVE IInv
<1>1. StoreTypeOK
  BY DEF Init, StoreTypeOK, NoLedger, NoTxn, TxnType
<1>2. Written = {}
  BY DEF Init, Written
<1>3. Consistent /\ ReportsHold
  BY <1>2 DEF Init, Consistent, ViewIsCurrent, CanRead, AuxiliaryMatches, ReportsHold
<1>4. \A s \in Store : CallHolds(s) /\ revision[s] <= disk.revision
  BY DEF Init, CallHolds
<1> QED
  BY <1>1, <1>3, <1>4 DEF IInv, Init

LEMMA BeginInv ==
  ASSUME IInv, NEW s \in Store, NEW w \in Write, Begin(s, w)
  PROVE  IInv'
<1>1. StoreTypeOK'
  <2>1. disk.log \in Seq(Write) /\ memory[s].log = disk.log
    BY DEF IInv, StoreTypeOK, Consistent, ViewIsCurrent, CanRead, Begin, Ready, Current, Content
  <2>2. Append(memory[s].log, w) \in Seq(Write)
    BY <2>1, WrittenAppend
  <2>3. staged' \in [Store -> TxnType]
    BY <2>2 DEF IInv, StoreTypeOK, Begin, TxnType
  <2> QED
    BY <2>3 DEF IInv, StoreTypeOK, Begin, Ready
<1>2. Written' = Written
  BY DEF Written, Begin, Ready, Current, Submitted
<1>3. Consistent'
  BY <1>2 DEF IInv, Consistent, ViewIsCurrent, AuxiliaryMatches, CanRead, Current, Content,
     StoreTypeOK, Begin, Ready, Current, Submitted, CallHolds, StagedHolds, CommittedHolds
<1>4. ReportsHold'
  BY <1>2 DEF IInv, ReportsHold, Begin, Ready, Current, Submitted, CallHolds, StagedHolds, CommittedHolds
<1>5. ASSUME NEW t \in Store
      PROVE  CallHolds(t)' /\ revision'[t] <= disk'.revision
  <2>1. CASE t = s
    <3>1. memory[s] = Content
      BY DEF IInv, Consistent, ViewIsCurrent, CanRead, Begin, Ready
    <3>2. step'[s] = "staged" /\ writer' = s /\ s \in open
      BY DEF IInv, StoreTypeOK, Begin, Ready
    <3>3. staged'[s] = [log |-> Append(disk.log, w), aux |-> disk.aux \cup ({w} \cap Bookkeeping),
                        write |-> w]
      <4>1. memory[s].log = disk.log
        BY <3>1 DEF Content
      <4>2. s \in DOMAIN staged
        BY DEF IInv, StoreTypeOK
      <4> QED
        BY <4>1, <4>2 DEF Begin
    <3>4. /\ disk' = disk /\ memory' = memory /\ revision' = revision /\ writable' = writable
          /\ open' = open /\ acked' = acked /\ rejected' = rejected
          /\ writable[s] /\ revision[s] = disk.revision /\ disk.revision < MaxRevision
          /\ w \in Write \ (acked \cup rejected \cup Written)
      BY DEF Begin, Ready, Current, Submitted
    <3>5. StagedHolds(s)'
      BY <1>2, <3>1, <3>2, <3>3, <3>4 DEF StagedHolds, Content
    <3> QED
      BY <2>1, <3>2, <3>4, <3>5 DEF CallHolds, IInv
  <2>2. CASE t # s
    <3>1. step[t] # "staged" /\ step'[t] = step[t] /\ staged'[t] = staged[t]
      BY <2>2 DEF IInv, StoreTypeOK, CallHolds, Begin
    <3> QED
      BY <1>2, <2>2, <3>1 DEF IInv, CallHolds, CommittedHolds, Begin
  <2> QED
    BY <2>1, <2>2
<1> QED
  BY <1>1, <1>3, <1>4, <1>5 DEF IInv, Begin, Ready, Current, Submitted

LEMMA FencedInv ==
  ASSUME IInv, NEW s \in Store, Fenced(s)
  PROVE  IInv'
<1>1. StoreTypeOK'
  BY DEF IInv, StoreTypeOK, Fenced, Ready, Current, NoLedger, NoTxn, TxnType
<1>2. Written' = Written
  BY DEF Written, Fenced, Ready, Current
<1>3. Consistent'
  BY <1>2 DEF IInv, Consistent, ViewIsCurrent, AuxiliaryMatches, CanRead, Current, Content,
     StoreTypeOK, Fenced, Ready, Current, CallHolds, StagedHolds, CommittedHolds
<1>4. ReportsHold'
  BY <1>2 DEF IInv, ReportsHold, Fenced, Ready, Current, CallHolds, StagedHolds, CommittedHolds
<1>5. ASSUME NEW t \in Store
      PROVE  CallHolds(t)' /\ revision'[t] <= disk'.revision
  BY <1>2 DEF IInv, CallHolds, StagedHolds, CommittedHolds, Content, StoreTypeOK, Fenced, Ready, Current
<1> QED
  BY <1>1, <1>3, <1>4, <1>5 DEF IInv, Fenced, Ready, Current

LEMMA RefuseInv ==
  ASSUME IInv, NEW s \in Store, Refuse(s)
  PROVE  IInv'
<1>1. StoreTypeOK'
  <2>1. NoTxn \in TxnType
    BY DEF NoTxn, TxnType
  <2>2. staged' \in [Store -> TxnType]
    BY <2>1 DEF IInv, StoreTypeOK, Refuse, Leaves
  <2>3. staged[s].write \in Write
    BY DEF IInv, CallHolds, StagedHolds, Refuse
  <2> QED
    BY <2>2, <2>3 DEF IInv, StoreTypeOK, Refuse, Leaves
<1>2. Written' = Written
  BY DEF Written, Refuse, Leaves
<1>3. Consistent'
  BY <1>2 DEF IInv, Consistent, ViewIsCurrent, AuxiliaryMatches, CanRead, Current, Content,
     StoreTypeOK, Refuse, Leaves, CallHolds, StagedHolds, CommittedHolds
<1>4. ReportsHold'
  BY <1>2 DEF IInv, ReportsHold, Refuse, Leaves, CallHolds, StagedHolds, CommittedHolds
<1>5. ASSUME NEW t \in Store
      PROVE  CallHolds(t)' /\ revision'[t] <= disk'.revision
  BY <1>2 DEF IInv, CallHolds, StagedHolds, CommittedHolds, Content, StoreTypeOK, Refuse, Leaves
<1> QED
  BY <1>1, <1>3, <1>4, <1>5 DEF IInv, Refuse, Leaves

LEMMA PublishInv ==
  ASSUME IInv, NEW s \in Store, Publish(s)
  PROVE  IInv'
<1>1. StoreTypeOK'
  <2>1. NoTxn \in TxnType
    BY DEF NoTxn, TxnType
  <2>2. staged' \in [Store -> TxnType]
    BY <2>1 DEF IInv, StoreTypeOK, Publish
  <2>3. staged[s].write \in Write
    BY WrittenType DEF IInv, CallHolds, CommittedHolds, Publish, StoreTypeOK
  <2>4. memory' = [t \in Store |-> [rows |-> memory'[t].rows, log |-> memory'[t].log]]
    <3>1. memory = [t \in Store |-> [rows |-> memory[t].rows, log |-> memory[t].log]]
      BY DEF IInv, StoreTypeOK
    <3>2. memory' = [t \in Store |->
                       IF t = s THEN [rows |-> memory[s].rows, log |-> staged[s].log] ELSE memory[t]]
      BY <3>1 DEF Publish
    <3> QED
      BY <3>1, <3>2
  <2>5. revision' \in [Store -> Nat]
    BY DEF IInv, StoreTypeOK, Publish, NextRevision
  <2> QED
    BY <2>2, <2>3, <2>4, <2>5 DEF IInv, StoreTypeOK, Publish
<1>2. Written' = Written
  BY DEF Written, Publish, NextRevision
<1>3. Consistent'
  BY <1>2 DEF IInv, Consistent, ViewIsCurrent, AuxiliaryMatches, CanRead, Current, Content,
     StoreTypeOK, Publish, NextRevision, CallHolds, StagedHolds, CommittedHolds
<1>4. ReportsHold'
  BY <1>2 DEF IInv, ReportsHold, Publish, NextRevision, CallHolds, StagedHolds, CommittedHolds
<1>5. ASSUME NEW t \in Store
      PROVE  CallHolds(t)' /\ revision'[t] <= disk'.revision
  BY <1>2 DEF IInv, CallHolds, StagedHolds, CommittedHolds, Content, StoreTypeOK, Publish, NextRevision
<1> QED
  BY <1>1, <1>3, <1>4, <1>5 DEF IInv, Publish, NextRevision

LEMMA CloseInv ==
  ASSUME IInv, NEW s \in Store, Close(s)
  PROVE  IInv'
<1>1. StoreTypeOK'
  <2>1. memory' = [t \in Store |-> [rows |-> memory'[t].rows, log |-> memory'[t].log]]
    BY DEF IInv, StoreTypeOK, Close, NoLedger
  <2>2. NoTxn \in TxnType
    BY DEF NoTxn, TxnType
  <2>3. staged' \in [Store -> TxnType]
    BY <2>2 DEF IInv, StoreTypeOK, Close
  <2> QED
    BY <2>1, <2>3 DEF IInv, StoreTypeOK, Close
<1>2. Written' = Written
  BY DEF Written, Close
<1>3. Consistent'
  BY <1>2 DEF IInv, Consistent, ViewIsCurrent, AuxiliaryMatches, CanRead, Current, Content,
     StoreTypeOK, Close, CallHolds, StagedHolds, CommittedHolds
<1>4. ReportsHold'
  BY <1>2 DEF IInv, ReportsHold, Close, CallHolds, StagedHolds, CommittedHolds
<1>5. ASSUME NEW t \in Store
      PROVE  CallHolds(t)' /\ revision'[t] <= disk'.revision
  BY <1>2 DEF IInv, CallHolds, StagedHolds, CommittedHolds, Content, StoreTypeOK, Close
<1> QED
  BY <1>1, <1>3, <1>4, <1>5 DEF IInv, Close

----------------------------------------------------------------------------
(* An opening changes the rows at most, and only while nobody has the root *)
(* open: that the database is the current one is what an open store knows. *)
LEMMA LoadsKeeps ==
  ASSUME IInv, NEW d, NEW A, Loads(d, A)
  PROVE  /\ d = [version |-> d.version, rows |-> d.rows, log |-> d.log, aux |-> d.aux,
                 revision |-> d.revision]
         /\ d.version = "current"
         /\ d.log = disk.log /\ d.aux = disk.aux /\ d.revision = disk.revision
         /\ open # {} => d = disk
<1>1. disk = [version |-> disk.version, rows |-> disk.rows, log |-> disk.log, aux |-> disk.aux,
              revision |-> disk.revision]
  BY DEF IInv, StoreTypeOK
<1>2. CASE d = disk /\ disk.version = "current"
  BY <1>1, <1>2
<1>3. CASE disk.version = "none" /\ d = Upgraded(Migrated(disk.rows, A))
  BY <1>1, <1>3 DEF Upgraded, IInv
<1> QED
  BY <1>2, <1>3 DEF Loads

LEMMA OpenInv ==
  ASSUME IInv, NEW s \in Store, Open(s)
  PROVE  IInv'
<1>1. PICK A \in SUBSET Row : \E d \in {disk, Upgraded(Migrated(disk.rows, A))} :
        /\ Loads(d, A)
        /\ disk' = d
        /\ memory' = [memory EXCEPT ![s] = [rows |-> d.rows, log |-> d.log]]
  BY DEF Open
<1>2. /\ Loads(disk', A)
      /\ memory' = [memory EXCEPT ![s] = [rows |-> disk'.rows, log |-> disk'.log]]
  BY <1>1
<1>3. /\ disk' = [version |-> disk'.version, rows |-> disk'.rows, log |-> disk'.log,
                  aux |-> disk'.aux, revision |-> disk'.revision]
      /\ disk'.version = "current"
      /\ disk'.log = disk.log /\ disk'.aux = disk.aux /\ disk'.revision = disk.revision
      /\ open # {} => disk' = disk
  BY <1>2, LoadsKeeps
<1>4. Written' = Written
  BY <1>3 DEF Written
<1>5. /\ memory'[s] = Content'
      /\ \A t \in Store \ {s} : memory'[t] = memory[t]
      /\ memory' = [t \in Store |-> [rows |-> memory'[t].rows, log |-> memory'[t].log]]
  BY <1>2 DEF IInv, StoreTypeOK, Content
<1>6. /\ revision' \in [Store -> Nat] /\ revision'[s] = disk'.revision
      /\ \A t \in Store \ {s} : revision'[t] = revision[t] /\ writable'[t] = writable[t]
      /\ writable' \in [Store -> BOOLEAN]
  BY <1>3 DEF IInv, StoreTypeOK, Open
<1>7. StoreTypeOK'
  BY <1>3, <1>5, <1>6 DEF IInv, StoreTypeOK, Open
<1>8. step[s] # "staged" /\ step[s] # "committed"
  BY DEF IInv, CallHolds, StagedHolds, CommittedHolds, Open
<1>9. Consistent'
  <2>1. \A t \in Store : CanRead(t)' => memory'[t] = Content'
    <3> SUFFICES ASSUME NEW t \in Store, CanRead(t)', t # s PROVE memory'[t] = Content'
      BY <1>5
    <3>1. t \in open
      BY DEF CanRead, Open
    <3>2. disk' = disk
      BY <1>3, <3>1
    <3>3. CanRead(t)
      BY <1>6, <3>1, <3>2 DEF CanRead, Current, Open
    <3> QED
      BY <1>5, <3>2, <3>3 DEF IInv, Consistent, ViewIsCurrent, Content
  <2>2. AuxiliaryMatches'
    BY <1>3, <1>4 DEF IInv, Consistent, AuxiliaryMatches
  <2> QED
    BY <2>1, <2>2 DEF Consistent, ViewIsCurrent
<1>10. ReportsHold'
  BY <1>4 DEF IInv, ReportsHold, Open
<1>11. ASSUME NEW t \in Store
       PROVE  CallHolds(t)' /\ revision'[t] <= disk'.revision
  <2>1. CASE t = s
    BY <1>3, <1>6, <1>7, <1>8, <2>1 DEF IInv, CallHolds, StoreTypeOK, Open
  <2>2. CASE t # s /\ t \in open
    <3>1. disk' = disk
      BY <1>3, <2>2
    <3> QED
      BY <1>4, <1>5, <1>6, <2>2, <3>1
      DEF IInv, CallHolds, StagedHolds, CommittedHolds, Content, Open
  <2>3. CASE t # s /\ t \notin open
    BY <1>3, <1>6, <2>3 DEF IInv, CallHolds, StagedHolds, CommittedHolds, Open
  <2> QED
    BY <2>1, <2>2, <2>3
<1> QED
  BY <1>3, <1>7, <1>9, <1>10, <1>11 DEF IInv

LEMMA OpenFailsInv ==
  ASSUME IInv, NEW s \in Store, OpenFails(s)
  PROVE  IInv'
<1>1. PICK A \in SUBSET Row : Loads(disk', A)
  BY DEF OpenFails
<1>2. /\ disk' = [version |-> disk'.version, rows |-> disk'.rows, log |-> disk'.log,
                  aux |-> disk'.aux, revision |-> disk'.revision]
      /\ disk'.version = "current"
      /\ disk'.log = disk.log /\ disk'.aux = disk.aux /\ disk'.revision = disk.revision
      /\ open # {} => disk' = disk
  BY <1>1, LoadsKeeps
<1>3. Written' = Written
  BY <1>2 DEF Written
<1>4. StoreTypeOK'
  BY <1>2 DEF IInv, StoreTypeOK, OpenFails
<1>5. Consistent' /\ ReportsHold'
  BY <1>2, <1>3 DEF IInv, Consistent, ViewIsCurrent, AuxiliaryMatches, CanRead, Current, Content,
     ReportsHold, OpenFails
<1>6. ASSUME NEW t \in Store
      PROVE  CallHolds(t)' /\ revision'[t] <= disk'.revision
  BY <1>2, <1>3 DEF IInv, CallHolds, StagedHolds, CommittedHolds, Content, OpenFails
<1> QED
  BY <1>2, <1>4, <1>5, <1>6 DEF IInv

----------------------------------------------------------------------------
(* The database after a commit: one write more, the revision one up.       *)
LEMMA PersistedKeeps ==
  ASSUME IInv, NEW s \in Store, step[s] = "staged", disk' = Persisted(s)
  PROVE  /\ disk' = [version |-> disk.version, rows |-> disk.rows, log |-> staged[s].log,
                     aux |-> staged[s].aux, revision |-> disk.revision + 1]
         /\ disk'.log = Append(disk.log, staged[s].write)
         /\ disk'.log \in Seq(Write)
         /\ Written' = Written \cup {staged[s].write}
         /\ AuxiliaryMatches'
         /\ disk'.revision \in 0 .. MaxRevision
<1>1. StagedHolds(s)
  BY DEF IInv, CallHolds
<1>2. disk' = [version |-> disk.version, rows |-> disk.rows, log |-> staged[s].log,
               aux |-> staged[s].aux, revision |-> disk.revision + 1]
  BY DEF IInv, StoreTypeOK, Persisted
<1>3. disk'.log = Append(disk.log, staged[s].write) /\ disk'.revision = disk.revision + 1
      /\ disk'.aux = disk.aux \cup ({staged[s].write} \cap Bookkeeping)
  BY <1>1, <1>2 DEF StagedHolds
<1>4. disk'.log \in Seq(Write) /\ Written' = Written \cup {staged[s].write}
  <2>1. disk.log \in Seq(Write) /\ staged[s].write \in Write
    BY <1>1 DEF StagedHolds, IInv, StoreTypeOK
  <2> QED
    BY <1>3, <2>1, WrittenAppend DEF Written
<1>5. AuxiliaryMatches'
  BY <1>3, <1>4 DEF IInv, Consistent, AuxiliaryMatches
<1>6. disk'.revision \in 0 .. MaxRevision
  BY <1>1, <1>3 DEF StagedHolds, IInv, StoreTypeOK
<1> QED
  BY <1>2, <1>3, <1>4, <1>5, <1>6

(* Whoever is not the writer is left behind by the commit. *)
LEMMA OthersBehind ==
  ASSUME IInv, NEW s \in Store, step[s] = "staged", disk' = Persisted(s),
         revision' = revision, step' = [step EXCEPT ![s] = "idle"] \/ step' = [step EXCEPT ![s] = "committed"],
         staged' = [staged EXCEPT ![s] = NoTxn] \/ staged' = staged,
         writer' = NoStore, open' = open, memory' = memory, acked' = acked, rejected' = rejected,
         \A t \in Store \ {s} : writable'[t] = writable[t],
         NEW t \in Store, t # s
  PROVE  /\ ~ CanRead(t)'
         /\ CallHolds(t)'
         /\ revision'[t] < disk'.revision
<1>1. /\ disk'.revision = disk.revision + 1
      /\ Written' = Written \cup {staged[s].write}
  BY PersistedKeeps
<1>2. revision'[t] < disk'.revision
  BY <1>1 DEF IInv, StoreTypeOK
<1>3. ~ CanRead(t)'
  BY <1>2 DEF CanRead, Current, IInv, StoreTypeOK
<1>4. writer = s /\ step[t] # "staged"
  BY DEF IInv, CallHolds
<1>5. step'[t] = step[t] /\ staged'[t] = staged[t]
  BY DEF IInv, StoreTypeOK
<1>6. ASSUME step[t] = "committed" PROVE CommittedHolds(t)'
  <2>1. CommittedHolds(t)
    BY <1>6 DEF IInv, CallHolds
  <2>2. revision[t] \in Nat /\ disk.revision \in Nat
    BY DEF IInv, StoreTypeOK
  <2>3. revision'[t] + 1 <= disk'.revision /\ revision'[t] + 1 # disk'.revision
    BY <1>1, <2>1, <2>2 DEF CommittedHolds
  <2> QED
    BY <1>1, <1>5, <2>1, <2>3 DEF CommittedHolds
<1> QED
  BY <1>2, <1>3, <1>4, <1>5, <1>6 DEF CallHolds

LEMMA CommitInv ==
  ASSUME IInv, NEW s \in Store, Commit(s)
  PROVE  IInv'
<1>1. /\ step[s] = "staged" /\ disk' = Persisted(s)
      /\ StagedHolds(s)
  BY DEF Commit, IInv, CallHolds
<1>2. /\ disk' = [version |-> disk.version, rows |-> disk.rows, log |-> staged[s].log,
                  aux |-> staged[s].aux, revision |-> disk.revision + 1]
      /\ disk'.log \in Seq(Write)
      /\ Written' = Written \cup {staged[s].write}
      /\ AuxiliaryMatches'
      /\ disk'.revision \in 0 .. MaxRevision
  BY <1>1, PersistedKeeps
<1>3. step'[s] = "committed"
  BY DEF Commit, IInv, StoreTypeOK
<1>4. StoreTypeOK'
  <2>1. disk'.aux \subseteq Write
    BY <1>1, <1>2 DEF StagedHolds, IInv, StoreTypeOK
  <2> QED
    BY <1>2, <2>1 DEF IInv, StoreTypeOK, Commit
<1>5. \A t \in Store \ {s} : ~ CanRead(t)' /\ CallHolds(t)' /\ revision'[t] < disk'.revision
  BY <1>1, OthersBehind DEF Commit
<1>6. Consistent'
  BY <1>2, <1>3, <1>5 DEF Consistent, ViewIsCurrent, CanRead
<1>7. ReportsHold'
  BY <1>1, <1>2 DEF IInv, ReportsHold, StagedHolds, Commit
<1>8. CommittedHolds(s)'
  BY <1>1, <1>2 DEF CommittedHolds, StagedHolds, Commit, Content, IInv, StoreTypeOK
<1>9. CallHolds(s)' /\ revision'[s] <= disk'.revision
  BY <1>1, <1>2, <1>3, <1>8 DEF CallHolds, StagedHolds, Commit, IInv, StoreTypeOK
<1>10. ASSUME NEW t \in Store PROVE revision'[t] <= disk'.revision
  <2>1. revision'[t] \in Nat /\ disk'.revision \in Nat
    BY <1>2, <1>4 DEF StoreTypeOK
  <2> QED
    BY <1>5, <1>9, <2>1
<1> QED
  BY <1>2, <1>4, <1>5, <1>6, <1>7, <1>9, <1>10 DEF IInv, Commit

LEMMA CommitFailsInv ==
  ASSUME IInv, NEW s \in Store, CommitFails(s)
  PROVE  IInv'
<1>1. step[s] = "staged" /\ StagedHolds(s)
  BY DEF CommitFails, IInv, CallHolds
<1>2. step'[s] = "idle" /\ ~ writable'[s] /\ writer' = NoStore
  BY DEF CommitFails, Leaves, IInv, StoreTypeOK
<1>3. staged' \in [Store -> TxnType]
  <2>1. NoTxn \in TxnType
    BY DEF NoTxn, TxnType
  <2> QED
    BY <2>1 DEF CommitFails, Leaves, IInv, StoreTypeOK
<1>4. CASE disk' = disk
  <2>1. StoreTypeOK'
    BY <1>3, <1>4 DEF IInv, StoreTypeOK, CommitFails, Leaves
  <2>2. Written' = Written
    BY <1>4 DEF Written
  <2>3. Consistent' /\ ReportsHold'
    BY <1>4, <2>2 DEF IInv, Consistent, ViewIsCurrent, AuxiliaryMatches, CanRead, Current,
       Content, StoreTypeOK, CommitFails, Leaves, ReportsHold, CallHolds
  <2>4. \A t \in Store : CallHolds(t)' /\ revision'[t] <= disk'.revision
    BY <1>4, <2>2 DEF IInv, CallHolds, StagedHolds, CommittedHolds, Content, StoreTypeOK,
       CommitFails, Leaves
  <2> QED
    BY <1>4, <2>1, <2>3, <2>4 DEF IInv, CommitFails
<1>5. CASE disk' = Persisted(s)
  <2>1. /\ disk' = [version |-> disk.version, rows |-> disk.rows, log |-> staged[s].log,
                    aux |-> staged[s].aux, revision |-> disk.revision + 1]
        /\ disk'.log \in Seq(Write)
        /\ Written' = Written \cup {staged[s].write}
        /\ AuxiliaryMatches'
        /\ disk'.revision \in 0 .. MaxRevision
    BY <1>1, <1>5, PersistedKeeps
  <2>2. StoreTypeOK'
    <3>1. disk'.aux \subseteq Write
      BY <1>1, <2>1 DEF StagedHolds, IInv, StoreTypeOK
    <3> QED
      BY <1>3, <2>1, <3>1 DEF IInv, StoreTypeOK, CommitFails, Leaves
  <2>3. \A t \in Store \ {s} : ~ CanRead(t)' /\ CallHolds(t)' /\ revision'[t] < disk'.revision
    <3>1. \A t \in Store \ {s} : writable'[t] = writable[t]
      BY DEF CommitFails, IInv, StoreTypeOK
    <3> QED
      BY <1>1, <1>5, <3>1, OthersBehind DEF CommitFails, Leaves
  <2>4. Consistent'
    BY <1>2, <2>1, <2>3 DEF Consistent, ViewIsCurrent, CanRead
  <2>5. ReportsHold'
    BY <1>1, <2>1 DEF IInv, ReportsHold, StagedHolds, CommitFails
  <2>6. CallHolds(s)' /\ revision'[s] <= disk'.revision
    BY <1>1, <1>2, <2>1 DEF CallHolds, StagedHolds, CommitFails, IInv, StoreTypeOK
  <2>7. ASSUME NEW t \in Store PROVE revision'[t] <= disk'.revision
    <3>1. revision'[t] \in Nat /\ disk'.revision \in Nat
      BY <2>1, <2>2 DEF StoreTypeOK
    <3> QED
      BY <2>3, <2>6, <3>1
  <2> QED
    BY <2>1, <2>2, <2>3, <2>4, <2>5, <2>6, <2>7 DEF IInv, CommitFails
<1> QED
  BY <1>4, <1>5 DEF CommitFails

----------------------------------------------------------------------------
LEMMA StutterInv == ASSUME IInv, UNCHANGED storeVars PROVE IInv'
<1>1. Written' = Written
  BY DEF storeVars, Written
<1> QED
  BY <1>1 DEF IInv, storeVars, StoreTypeOK, Consistent, ViewIsCurrent, AuxiliaryMatches, CanRead,
     Current, Content, ReportsHold, CallHolds, StagedHolds, CommittedHolds

LEMMA StepInv == ASSUME IInv, [Next]_storeVars PROVE IInv'
<1>1. ASSUME NEW s \in Store, StoreStep(s) PROVE IInv'
  BY <1>1, OpenInv, OpenFailsInv, BeginInv, FencedInv, RefuseInv, CommitInv, CommitFailsInv,
     PublishInv DEF StoreStep
<1>2. ASSUME NEW s \in Store, Close(s) PROVE IInv'
  BY <1>2, CloseInv
<1> QED
  BY <1>1, <1>2, StutterInv DEF Next

(* The state of the storage at every step of every call: what a staged and *)
(* a committed transaction know of the database, and what the callers were *)
(* told (ledger.rs:148, transaction).                                      *)
THEOREM Inductive == Spec => []IInv
<1> QED
  BY InitInv, StepInv, PTL DEF Spec

(* The storage is well typed. *)
THEOREM StoreTypeCorrect == Spec => []StoreTypeOK
<1>1. IInv => StoreTypeOK
  BY DEF IInv
<1> QED
  BY <1>1, Inductive, PTL

(* However many processes have the root open, and wherever they fail: one  *)
(* that can still answer has in memory what the database holds, and the    *)
(* auxiliary tables are those of the ledger's writes.                      *)
THEOREM StoreConsistent == Spec => []Consistent
<1>1. IInv => Consistent
  BY DEF IInv
<1> QED
  BY <1>1, Inductive, PTL

(* Nobody was told that a write is there, or that it is not, and is wrong. *)
THEOREM ReportsTrue == Spec => []ReportsHold
<1>1. IInv => ReportsHold
  BY DEF IInv
<1> QED
  BY <1>1, Inductive, PTL

----------------------------------------------------------------------------
(* The refinement of DurableLog.                                           *)
View == [s \in Store |-> IF CanRead(s) THEN memory[s].log ELSE Unknown]

LEMMA DurableWritten == Durable!Written = Written
BY DEF Durable!Written, Written

(* A step of s that leaves the log alone, and every other store's view. *)
LEMMA OnlySeen ==
  ASSUME IInv, IInv', NEW s \in Store, disk'.log = disk.log,
         \A t \in Store \ {s} : CanRead(t)' = CanRead(t) /\ memory'[t] = memory[t]
  PROVE  Durable!Seen(s)
<1>1. View'[s] \in {disk.log, Unknown}
  BY DEF View, IInv, Consistent, ViewIsCurrent, Content
<1>2. View' = [View EXCEPT ![s] = View'[s]]
  BY DEF View
<1> QED
  BY <1>1, <1>2 DEF Durable!Seen, View

LEMMA BeginMaps ==
  ASSUME IInv, NEW s \in Store, NEW w \in Write, Begin(s, w)
  PROVE  UNCHANGED Durable!vars
<1>1. \A t \in Store : CanRead(t)' = CanRead(t) /\ memory'[t] = memory[t]
  BY DEF IInv, StoreTypeOK, CanRead, Current, Begin, Ready
<1>2. View' = View
  BY <1>1 DEF View
<1> QED
  BY <1>2 DEF Durable!vars, View, Begin

(* A commit: the log grows, and nobody's view is current any more. *)
LEMMA PersistedMaps ==
  ASSUME IInv, IInv', NEW s \in Store, step[s] = "staged", disk' = Persisted(s),
         Commit(s) \/ CommitFails(s)
  PROVE  Durable!Next
<1>1. StagedHolds(s)
  BY DEF IInv, CallHolds
<1>2. disk'.log = Append(disk.log, staged[s].write)
  BY PersistedKeeps
<1>3. ~ CanRead(s)'
  BY DEF CanRead, Commit, CommitFails, Leaves, IInv, StoreTypeOK
<1>4. ASSUME NEW t \in Store, t # s PROVE ~ CanRead(t)'
  <2>1. writable' = writable \/ writable' = [writable EXCEPT ![s] = FALSE]
    BY DEF Commit, CommitFails
  <2>2. \A u \in Store \ {s} : writable'[u] = writable[u]
    BY <2>1 DEF IInv, StoreTypeOK
  <2> QED
    BY <1>4, <2>2, OthersBehind DEF Commit, CommitFails, Leaves
<1>5. View' = [t \in Store |-> Unknown]
  BY <1>3, <1>4 DEF View
<1>6. staged[s].write \notin Durable!Written \cup rejected
  BY <1>1, DurableWritten DEF StagedHolds
<1>7. UNCHANGED <<acked, rejected>>
  BY DEF Commit, CommitFails
<1>8. PICK w \in Write : w = staged[s].write
  BY <1>1 DEF StagedHolds
<1>9. Durable!Grow(w)
  BY <1>2, <1>5, <1>6, <1>7, <1>8 DEF Durable!Grow, View
<1> QED
  BY <1>9 DEF Durable!Next

LEMMA RefuseMaps ==
  ASSUME IInv, IInv', NEW s \in Store, Refuse(s)
  PROVE  Durable!Next
<1>1. StagedHolds(s)
  BY DEF IInv, CallHolds, Refuse
<1>2. \A t \in Store \ {s} : CanRead(t)' = CanRead(t) /\ memory'[t] = memory[t]
  BY DEF IInv, StoreTypeOK, CanRead, Current, Refuse, Leaves
<1>3. Durable!Seen(s)
  BY <1>2, OnlySeen DEF Refuse
<1>4. staged[s].write \in Write /\ staged[s].write \notin Durable!Written
  BY <1>1, DurableWritten DEF StagedHolds
<1>5. Durable!Reject(staged[s].write)
  BY <1>3, <1>4 DEF Durable!Reject, Durable!SeenOrNot, Refuse
<1> QED
  BY <1>4, <1>5 DEF Durable!Next

LEMMA PublishMaps ==
  ASSUME IInv, IInv', NEW s \in Store, Publish(s)
  PROVE  Durable!Next
<1>1. staged[s].write \in Write /\ staged[s].write \in Durable!Written
  BY DurableWritten, WrittenType DEF IInv, StoreTypeOK, CallHolds, CommittedHolds, Publish
<1>2. \A t \in Store \ {s} : CanRead(t)' = CanRead(t) /\ memory'[t] = memory[t]
  BY DEF IInv, StoreTypeOK, CanRead, Current, Publish
<1>3. Durable!Seen(s)
  BY <1>2, OnlySeen DEF Publish
<1>4. Durable!Acknowledge(staged[s].write)
  BY <1>1, <1>3 DEF Durable!Acknowledge, Durable!SeenOrNot, Publish
<1> QED
  BY <1>1, <1>4 DEF Durable!Next

LEMMA LookMaps ==
  ASSUME IInv, IInv', NEW s \in Store, disk'.log = disk.log, UNCHANGED <<acked, rejected>>,
         \A t \in Store \ {s} : CanRead(t)' = CanRead(t) /\ memory'[t] = memory[t]
  PROVE  Durable!Next
<1>1. Durable!Look(s)
  BY OnlySeen DEF Durable!Look
<1> QED
  BY <1>1 DEF Durable!Next

LEMMA OpeningMaps ==
  ASSUME IInv, IInv', NEW s \in Store, Open(s) \/ OpenFails(s)
  PROVE  Durable!Next
<1>1. PICK A \in SUBSET Row : Loads(disk', A)
  BY DEF Open, OpenFails
<1>2. disk'.log = disk.log /\ disk'.revision = disk.revision
  BY <1>1, LoadsKeeps
<1>3. \A t \in Store \ {s} : CanRead(t)' = CanRead(t) /\ memory'[t] = memory[t]
  BY <1>2 DEF IInv, StoreTypeOK, CanRead, Current, Open, OpenFails
<1> QED
  BY <1>2, <1>3, LookMaps DEF Open, OpenFails

LEMMA StepMaps ==
  ASSUME IInv, IInv', NEW s \in Store, StoreStep(s) \/ Close(s)
  PROVE  [Durable!Next]_Durable!vars
<1>1. CASE Open(s) \/ OpenFails(s)
  BY <1>1, OpeningMaps
<1>2. CASE \E w \in Write : Begin(s, w)
  BY <1>2, BeginMaps
<1>3. CASE Fenced(s) \/ Close(s)
  <2>1. \A t \in Store \ {s} : CanRead(t)' = CanRead(t) /\ memory'[t] = memory[t]
    BY <1>3 DEF IInv, StoreTypeOK, CanRead, Current, Fenced, Close
  <2> QED
    BY <1>3, <2>1, LookMaps DEF Fenced, Close
<1>4. CASE Refuse(s)
  BY <1>4, RefuseMaps
<1>5. CASE Commit(s)
  BY <1>5, PersistedMaps DEF Commit
<1>6. CASE CommitFails(s)
  <2>1. CASE disk' = Persisted(s)
    BY <1>6, <2>1, PersistedMaps DEF CommitFails
  <2>2. CASE disk' = disk
    <3>1. \A t \in Store \ {s} : CanRead(t)' = CanRead(t) /\ memory'[t] = memory[t]
      BY <1>6, <2>2 DEF IInv, StoreTypeOK, CanRead, Current, CommitFails, Leaves
    <3> QED
      BY <1>6, <2>2, <3>1, LookMaps DEF CommitFails, Leaves
  <2> QED
    BY <1>6, <2>1, <2>2 DEF CommitFails
<1>7. CASE Publish(s)
  BY <1>7, PublishMaps
<1> QED
  BY <1>1, <1>2, <1>3, <1>4, <1>5, <1>6, <1>7 DEF StoreStep

LEMMA InitMaps == ASSUME Init PROVE Durable!Init
<1>1. View = [t \in Store |-> Unknown]
  BY DEF View, CanRead, Init
<1> QED
  BY <1>1 DEF Init, Durable!Init, View

(* The storage is one durable log, for any number of stores: what callers  *)
(* are told and what stores show is all that DurableLog allows.            *)
THEOREM LogRefinement == Spec => ImplementsLog
<1>1. ASSUME IInv, IInv', [Next]_storeVars PROVE [Durable!Next]_Durable!vars
  <2>1. CASE \E s \in Store : StoreStep(s) \/ Close(s)
    BY <1>1, <2>1, StepMaps
  <2>2. CASE UNCHANGED storeVars
    <3>1. View' = View
      BY <2>2 DEF View, CanRead, Current, storeVars
    <3> QED
      BY <2>2, <3>1 DEF Durable!vars, View, storeVars
  <2> QED
    BY <1>1, <2>1, <2>2 DEF Next
<1> QED
  BY <1>1, InitMaps, Inductive, PTL DEF Spec, ImplementsLog, Durable!Spec
----------------------------------------------------------------------------
(* The migration.  What it brings back is closed, and what it leaves is    *)
(* there for no other reason than the first loop.                          *)
BroughtBack(s) ==
  {i \in DOMAIN s : \A R \in SUBSET DOMAIN s : Closed(s, R) => i \in R}

RowType ==
  [key : Key, parent : Row \cup {NoRow}, bound : BOOLEAN, state : State, task : Task,
   resolved : BOOLEAN]
IsTable(s) == \A i \in DOMAIN s : s[i] \in RowType

(* A row brought back is retiring, and the others are as they were. *)
LEMMA BackRows ==
  ASSUME NEW s, IsTable(s), NEW R \in SUBSET DOMAIN s, NEW i \in DOMAIN s
  PROVE  /\ DOMAIN Back(s, R) = DOMAIN s
         /\ Back(s, R)[i].parent = s[i].parent
         /\ Back(s, R)[i].bound = s[i].bound
         /\ Back(s, R)[i].state = IF i \in R THEN "retiring" ELSE s[i].state
<1>1. DOMAIN Back(s, R) = DOMAIN s
  BY DEF Back
<1>2. s[i] \in RowType
  BY DEF IsTable
<1>3. CASE i \in R
  <2>1. Back(s, R)[i] = [s[i] EXCEPT !.state = "retiring", !.task = "pending"]
    BY <1>3 DEF Back
  <2> QED
    BY <1>1, <1>2, <1>3, <2>1 DEF RowType
<1>4. CASE i \notin R
  <2>1. Back(s, R)[i] = s[i]
    BY <1>4 DEF Back
  <2> QED
    BY <1>1, <1>4, <2>1
<1> QED
  BY <1>3, <1>4

(* More rows brought back bring back no fewer. *)
LEMMA RestoredMonotone ==
  ASSUME NEW s, IsTable(s), NEW R \in SUBSET DOMAIN s, NEW Q \in SUBSET R,
         NEW i \in DOMAIN s, Restored(Back(s, Q), i)
  PROVE  i \in R \/ Restored(Back(s, R), i)
<1> DEFINE q == Back(s, Q)
           r == Back(s, R)
<1>1. /\ DOMAIN q = DOMAIN s /\ DOMAIN r = DOMAIN s
      /\ \A j \in DOMAIN s : /\ r[j].parent = s[j].parent /\ q[j].parent = s[j].parent
                             /\ r[j].bound = s[j].bound /\ q[j].bound = s[j].bound
                             /\ r[j].state = IF j \in R THEN "retiring" ELSE s[j].state
                             /\ q[j].state = IF j \in Q THEN "retiring" ELSE s[j].state
  <2>1. Q \in SUBSET DOMAIN s
    OBVIOUS
  <2> QED
    BY <2>1, BackRows
<1>2. Restored(q, i)
  OBVIOUS
<1> HIDE DEF q, r
<1>3. \A j \in DOMAIN s : RowOccupies(q[j]) => RowOccupies(r[j])
  BY <1>1 DEF RowOccupies
<1>4. RetiringRows(q) \subseteq RetiringRows(r)
  BY <1>1 DEF RetiringRows
<1>5. ParentsOf(q) \subseteq ParentsOf(r)
  BY <1>1, <1>3 DEF ParentsOf, HasParent
<1>6. i \in R \/ (r[i].state = q[i].state /\ (RowOccupies(r[i]) <=> RowOccupies(q[i])))
  BY <1>1 DEF RowOccupies
<1>7. i \in R \/ Restored(r, i)
  BY <1>1, <1>2, <1>4, <1>5, <1>6 DEF Restored
<1> QED
  BY <1>7 DEF r

LEMMA SettledClosed ==
  ASSUME NEW s, IsTable(s)
  PROVE  Closed(s, BroughtBack(s))
<1> SUFFICES ASSUME NEW i \in DOMAIN s, Restored(Back(s, BroughtBack(s)), i),
                    NEW R \in SUBSET DOMAIN s, Closed(s, R)
             PROVE  i \in R
  BY DEF Closed, BroughtBack
<1>1. BroughtBack(s) \subseteq R
  BY DEF BroughtBack
<1> QED
  BY <1>1, RestoredMonotone DEF Closed

(* What the passes end with. *)
LEMMA SettledFacts ==
  ASSUME NEW s, IsTable(s)
  PROVE  /\ DOMAIN Settled(s) = DOMAIN s
         /\ \A i \in DOMAIN s : ~ Restored(Settled(s), i)
         /\ \A i \in DOMAIN s :
              \/ Settled(s)[i] = s[i]
              \/ Settled(s)[i] = [s[i] EXCEPT !.state = "retiring", !.task = "pending"]
<1>1. Settled(s) = Back(s, BroughtBack(s))
  BY DEF Settled, BroughtBack
<1>2. DOMAIN Settled(s) = DOMAIN s
  BY <1>1 DEF Back
<1>3. \A i \in DOMAIN s :
        IF i \in BroughtBack(s)
          THEN Settled(s)[i] = [s[i] EXCEPT !.state = "retiring", !.task = "pending"]
          ELSE Settled(s)[i] = s[i]
  BY <1>1 DEF Back
<1>4. ASSUME NEW i \in DOMAIN s, Restored(Settled(s), i) PROVE FALSE
  <2>1. i \in BroughtBack(s)
    BY <1>1, <1>4, SettledClosed DEF Closed
  <2>2. Settled(s)[i].state = "retiring"
    BY <1>3, <2>1 DEF IsTable, RowType
  <2> QED
    BY <1>4, <2>2 DEF Restored, RowOccupies
<1> QED
  BY <1>2, <1>3, <1>4

(* Reading a legacy table, and the first loop. *)
LEMMA DecodeFacts ==
  ASSUME original \in Legacy
  PROVE  /\ DOMAIN Decode(original) = DOMAIN original
         /\ DOMAIN original \subseteq Row
         /\ IsTable(Decode(original))
         /\ \A i \in DOMAIN original :
              /\ Decode(original)[i] = Decoded(original[i])
              /\ original[i] \in LegacyRow
              /\ original[i].parent \in DOMAIN original \cup {NoRow}
BY LegacyAssumption DEF Decode, IsTable, Decoded, RowType, LegacyRow, State, Task

(* The table after the migration, row by row. *)
LEMMA MigratedFacts ==
  ASSUME original \in Legacy, NEW A \in SUBSET Row
  PROVE  LET m == Migrated(Decode(original), A) IN
         /\ DOMAIN m = DOMAIN original
         /\ IsTable(m)
         /\ \A i \in DOMAIN m :
              /\ ~ Restored(m, i)
              /\ m[i].key = original[i].key /\ m[i].parent = original[i].parent
              /\ m[i].bound = Decoded(original[i]).bound
              /\ \/ m[i].state = "retiring" /\ m[i].task \in {"pending", "blocked"}
                 \/ /\ IsManagedKey(m[i].key) /\ i \in A
                    /\ m[i].state = "retired" /\ m[i].task = "already_absent"
                 \/ /\ ~ IsManagedKey(m[i].key)
                    /\ m[i].state = Decoded(original[i]).state
                    /\ m[i].task = "none" /\ m[i].resolved
<1> DEFINE s == Decode(original)
           r == Retirements(s, A)
           m == Migrated(s, A)
<1>1. /\ DOMAIN r = DOMAIN original
      /\ \A i \in DOMAIN original :
           r[i] = IF IsManagedKey(s[i].key) THEN Owed(s[i], i \in A) ELSE s[i]
  BY DecodeFacts DEF Retirements
<1>2. ASSUME NEW i \in DOMAIN original
      PROVE  /\ r[i] \in RowType
             /\ r[i].key = original[i].key /\ r[i].parent = original[i].parent
             /\ r[i].bound = Decoded(original[i]).bound
             /\ IsManagedKey(s[i].key) <=> IsManagedKey(original[i].key)
             /\ IF IsManagedKey(original[i].key)
                  THEN IF i \in A THEN r[i].state = "retired" /\ r[i].task = "already_absent"
                       ELSE r[i].state = "retiring" /\ r[i].task \in {"pending", "blocked"}
                  ELSE r[i] = Decoded(original[i])
  <2>1. s[i] \in RowType /\ s[i] = Decoded(original[i])
    BY DecodeFacts DEF IsTable
  <2>2. /\ s[i].key = original[i].key /\ s[i].parent = original[i].parent
        /\ s[i].bound = Decoded(original[i]).bound
    BY <2>1 DEF Decoded
  <2>3. CASE IsManagedKey(s[i].key)
    <3>1. r[i] = Owed(s[i], i \in A)
      BY <1>1, <2>3
    <3>2. /\ r[i] \in RowType
          /\ r[i].key = s[i].key /\ r[i].parent = s[i].parent /\ r[i].bound = s[i].bound
          /\ i \in A => r[i].state = "retired" /\ r[i].task = "already_absent"
          /\ i \notin A => r[i].state = "retiring" /\ r[i].task \in {"pending", "blocked"}
      <4>1. CASE i \in A
        BY ZenonT(60), <2>1, <3>1, <4>1 DEF Owed, RowType, State, Task
      <4>2. CASE i \notin A
        BY ZenonT(60), <2>1, <3>1, <4>2 DEF Owed, RowType, State, Task
      <4> QED
        BY <4>1, <4>2
    <3> QED
      BY <2>2, <2>3, <3>2
  <2>4. CASE ~ IsManagedKey(s[i].key)
    BY <1>1, <2>1, <2>2, <2>4
  <2> QED
    BY <2>3, <2>4
<1>3. IsTable(r)
  BY <1>1, <1>2 DEF IsTable
<1>4. /\ m = Settled(r)
      /\ DOMAIN m = DOMAIN r
      /\ \A i \in DOMAIN r : ~ Restored(m, i)
      /\ \A i \in DOMAIN r :
           m[i] = r[i] \/ m[i] = [r[i] EXCEPT !.state = "retiring", !.task = "pending"]
  BY <1>3, SettledFacts DEF Migrated
<1>5. ASSUME NEW i \in DOMAIN original
      PROVE  /\ m[i] \in RowType
             /\ m[i].key = original[i].key /\ m[i].parent = original[i].parent
             /\ m[i].bound = Decoded(original[i]).bound
             /\ \/ m[i].state = "retiring" /\ m[i].task \in {"pending", "blocked"}
                \/ m[i] = r[i]
  <2>1. CASE m[i] = r[i]
    BY <1>2, <2>1
  <2>2. CASE m[i] = [r[i] EXCEPT !.state = "retiring", !.task = "pending"]
    <3>1. r[i] \in RowType
      BY <1>2
    <3>2. /\ m[i] \in RowType /\ m[i].key = r[i].key /\ m[i].parent = r[i].parent
          /\ m[i].bound = r[i].bound /\ m[i].state = "retiring" /\ m[i].task = "pending"
      BY <2>2, <3>1 DEF RowType, State, Task
    <3> QED
      BY <1>2, <3>2
  <2> QED
    BY <1>1, <1>4, <2>1, <2>2
<1>6. \A i \in DOMAIN original : Decoded(original[i]).task = "none" /\ Decoded(original[i]).resolved
  BY DEF Decoded
<1>7. ASSUME NEW i \in DOMAIN original, m[i] = r[i]
      PROVE  \/ m[i].state = "retiring" /\ m[i].task \in {"pending", "blocked"}
             \/ /\ IsManagedKey(m[i].key) /\ i \in A
                /\ m[i].state = "retired" /\ m[i].task = "already_absent"
             \/ /\ ~ IsManagedKey(m[i].key)
                /\ m[i].state = Decoded(original[i]).state
                /\ m[i].task = "none" /\ m[i].resolved
  <2>1. CASE IsManagedKey(original[i].key)
    BY <1>2, <1>7, <2>1
  <2>2. CASE ~ IsManagedKey(original[i].key)
    BY <1>2, <1>6, <1>7, <2>2
  <2> QED
    BY <2>1, <2>2
<1>8. DOMAIN m = DOMAIN original /\ IsTable(m)
  BY <1>1, <1>4, <1>5 DEF IsTable
<1>9. ASSUME NEW i \in DOMAIN m
      PROVE  /\ ~ Restored(m, i)
             /\ m[i].key = original[i].key /\ m[i].parent = original[i].parent
             /\ m[i].bound = Decoded(original[i]).bound
             /\ \/ m[i].state = "retiring" /\ m[i].task \in {"pending", "blocked"}
                \/ /\ IsManagedKey(m[i].key) /\ i \in A
                   /\ m[i].state = "retired" /\ m[i].task = "already_absent"
                \/ /\ ~ IsManagedKey(m[i].key)
                   /\ m[i].state = Decoded(original[i]).state
                   /\ m[i].task = "none" /\ m[i].resolved
  BY <1>1, <1>4, <1>5, <1>7, <1>8, <1>9
<1> HIDE DEF m
<1> QED
  BY <1>8, <1>9 DEF m

(* A legal table comes out with its parents, leases and tasks in order.    *)
LEMMA MigratedLegal ==
  ASSUME original \in Legacy, OriginalValid(Decode(original)), NEW A \in SUBSET Row
  PROVE  LET m == Migrated(Decode(original), A)
         IN GraphHolds(m) /\ BoundHolds(m) /\ TasksHold(m)
<1> DEFINE s == Decode(original)
           m == Migrated(s, A)
<1>1. /\ DOMAIN m = DOMAIN original
      /\ \A i \in DOMAIN m : m[i] \in RowType
  BY MigratedFacts DEF IsTable
<1>2. \A i \in DOMAIN m : HasParent(m, i) => m[i].parent \in DOMAIN m
  BY <1>1, MigratedFacts, DecodeFacts DEF HasParent
<1>3. GraphHolds(m)
  BY <1>1, <1>2, MigratedFacts DEF GraphHolds, Restored, ParentsOf
<1>4. BoundHolds(m)
  <2> SUFFICES ASSUME NEW i \in DOMAIN m, m[i].state = "active", m[i].bound
               PROVE  m[m[i].parent].state = "active"
    BY DEF BoundHolds
  <2>1. s[i] = Decoded(original[i]) /\ s[i].state = "active" /\ s[i].bound /\ HasParent(m, i)
    <3>1. s[i] = Decoded(original[i])
      BY <1>1, DecodeFacts
    <3>2. /\ Decoded(original[i]).state = "active" /\ Decoded(original[i]).bound
          /\ m[i].parent = original[i].parent
      BY <1>1, MigratedFacts
    <3> QED
      BY <3>1, <3>2 DEF Decoded, HasParent
  <2>2. m[i].parent \in DOMAIN m /\ m[i].parent = s[i].parent
    BY <1>1, <1>2, <2>1, MigratedFacts DEF Decoded
  <2>3. RowOccupies(m[m[i].parent])
    BY <1>3, <2>1, <2>2 DEF GraphHolds, RowOccupies
  <2>4. m[m[i].parent].state # "retiring"
    BY <2>2, MigratedFacts DEF Restored, RetiringRows
  <2> QED
    BY <1>1, <2>2, <2>3, <2>4 DEF RowOccupies, RowType, State
<1>5. TasksHold(m)
  BY <1>1, MigratedFacts DEF TasksHold, Decoded
<1> QED
  BY <1>3, <1>4, <1>5

(* Until it is migrated the database has the table it was left with, and   *)
(* from then on what that migration made of it.                            *)
RowsHold ==
  /\ original \in Legacy
  /\ absent \subseteq Row
  /\ disk.version \in {"none", "current"}
  /\ disk.rows = IF disk.version = "none" THEN Decode(original)
                 ELSE Migrated(Decode(original), absent)

LEMMA RowsHoldStep == ASSUME IInv, RowsHold, [Next]_storeVars PROVE RowsHold'
<1> USE DEF RowsHold
<1>1. disk = [version |-> disk.version, rows |-> disk.rows, log |-> disk.log, aux |-> disk.aux,
              revision |-> disk.revision]
  BY DEF IInv, StoreTypeOK
<1>2. ASSUME NEW A \in SUBSET Row, NEW d, Loads(d, A),
             disk' = d, absent' = A, UNCHANGED original
      PROVE  RowsHold'
  BY <1>1, <1>2 DEF Loads, Upgraded
<1>3. ASSUME NEW s \in Store, Open(s) PROVE RowsHold'
  BY <1>2, <1>3 DEF Open
<1>4. ASSUME NEW s \in Store, OpenFails(s) PROVE RowsHold'
  BY <1>2, <1>4 DEF OpenFails
<1>5. ASSUME NEW s \in Store PROVE
        Persisted(s).version = disk.version /\ Persisted(s).rows = disk.rows
  BY <1>1 DEF Persisted
<1>6. ASSUME NEW s \in Store, Commit(s) \/ CommitFails(s) PROVE RowsHold'
  BY <1>5, <1>6 DEF Commit, CommitFails
<1>7. ASSUME UNCHANGED <<disk, original, absent>> PROVE RowsHold'
  BY <1>7
<1> QED
  BY <1>3, <1>4, <1>6, <1>7 DEF Next, StoreStep, Begin, Fenced, Refuse, Publish, Close, storeVars

(* Whatever table a root was left with and whatever was observed to be     *)
(* absent: a migration forgets nothing, and a legal table is refused only  *)
(* for two rows that would occupy one pool (recovery.rs:159).              *)
THEOREM MigrationSafe == Spec => []MigrationKeeps
<1>1. Init => RowsHold
  BY DEF Init, RowsHold
<1>2. RowsHold => NothingForgotten
  <2> SUFFICES ASSUME RowsHold, disk.version = "current", NEW i \in DOMAIN original
               PROVE  \/ RowOccupies(disk.rows[i])
                      \/ i \in absent
                      \/ original[i].released /\ ~ IsManagedKey(original[i].key)
    BY DEF NothingForgotten
  <2> QED
    BY MigratedFacts DEF RowsHold, RowOccupies, Decoded
<1>3. RowsHold => RefusedOnlyByContention
  <2> SUFFICES ASSUME RowsHold, disk.version = "none", OriginalValid(disk.rows),
                      NEW A \in Observations(disk.rows)
               PROVE  LET m == Migrated(disk.rows, A)
                      IN GraphHolds(m) /\ BoundHolds(m) /\ TasksHold(m)
    BY DEF RefusedOnlyByContention
  <2>1. A \subseteq Row
    BY DecodeFacts DEF RowsHold, Observations, Observable
  <2> QED
    BY <2>1, MigratedLegal DEF RowsHold
<1>4. IInv /\ RowsHold /\ [Next]_storeVars => RowsHold'
  BY RowsHoldStep
<1>5. Spec => []RowsHold
  BY <1>1, <1>4, Inductive, PTL DEF Spec
<1> QED
  BY <1>2, <1>3, <1>5, PTL DEF MigrationKeeps

----------------------------------------------------------------------------
(* The audit log and the root: AuditLog, KernelRoot. *)

Line == [id : Int, seq : Int, prev : Int]

AuditTypeOK ==
  /\ file \in Seq(Line)
  /\ ended \in BOOLEAN
  /\ opened \subseteq Writer
  /\ seq \in [Writer -> Int]
  /\ prev \in [Writer -> Int]
  /\ writing \in [Writer -> Line]
  /\ formed \in Nat
  /\ told \in Seq(Line)
  /\ cut \in BOOLEAN
  /\ shared \in BOOLEAN

(* The lines so far are whole, counted and chained, and nothing that was   *)
(* told of is missing.                                                     *)
LinesHold ==
  /\ \A i \in DOMAIN file :
       /\ file[i].id \in 1 .. formed
       /\ file[i].seq = i - 1
       /\ file[i].prev = IF i = 1 THEN Genesis ELSE file[i - 1].id
  /\ \A i \in DOMAIN told : Kept(told[i])

(* A writer between its two writes, and one that has the head of the chain. *)
Writes(w) ==
  /\ w \in opened /\ ~ ended
  /\ file # <<>> /\ LastEntry = writing[w]
  /\ seq[w] = Len(file) - 1
AtHead(w) == ended /\ seq[w] = Len(file) /\ prev[w] = LastEntry.id

ChainInv ==
  ~ shared /\ ~ cut =>
    /\ \A v, w \in opened : v = w
    /\ LinesHold
    /\ opened = {} => ended
    /\ \A w \in Writer : writing[w] # NoEntry => Writes(w)
    /\ \A w \in opened : writing[w] = NoEntry => AtHead(w)

AuditInv == AuditTypeOK /\ ChainInv

LEMMA LineFacts ==
  /\ Garbage \in Line /\ NoEntry \in Line /\ NoEntry.id = 0 /\ NoEntry # Garbage
BY DEF Garbage, NoEntry, Line, Genesis

LEMMA AuditInitInv == ASSUME AuditInit PROVE AuditInv
<1>1. AuditTypeOK
  <2>1. writing \in [Writer -> Line]
    BY LineFacts DEF AuditInit
  <2>2. file \in Seq(Line) /\ told \in Seq(Line)
    BY DEF AuditInit
  <2>3. ended \in BOOLEAN /\ cut \in BOOLEAN /\ shared \in BOOLEAN
    BY Zenon DEF AuditInit
  <2>4. formed \in Nat /\ seq \in [Writer -> Int] /\ prev \in [Writer -> Int]
    BY DEF AuditInit, Genesis
  <2>5. opened \subseteq Writer
    BY DEF AuditInit
  <2> QED
    BY <2>1, <2>2, <2>3, <2>4, <2>5 DEF AuditTypeOK
<1>2. ChainInv
  BY DEF AuditInit, ChainInv, LinesHold
<1> QED
  BY <1>1, <1>2 DEF AuditInv

LEMMA EntryFacts ==
  ASSUME AuditTypeOK, NEW w \in Writer
  PROVE  /\ Entry(w) \in Line /\ Entry(w) # NoEntry /\ Entry(w).id = formed + 1
         /\ Entry(w).seq = seq[w] /\ Entry(w).prev = prev[w]
BY DEF AuditTypeOK, Entry, NoEntry, Line

LEMMA LastFacts ==
  ASSUME AuditTypeOK
  PROVE  /\ LastEntry \in Line
         /\ file # <<>> => Len(file) \in DOMAIN file /\ LastEntry = file[Len(file)]
         /\ file = <<>> => LastEntry.id = Genesis /\ Len(file) = 0
         /\ Len(file) \in Nat /\ DOMAIN file = 1 .. Len(file)
<1>1. Len(file) \in Nat /\ DOMAIN file = 1 .. Len(file) /\ (file = <<>> <=> Len(file) = 0)
  BY DEF AuditTypeOK
<1>2. LastEntry \in Line
  BY <1>1, LineFacts DEF LastEntry, AuditTypeOK
<1> QED
  BY <1>1, <1>2 DEF LastEntry, NoEntry, Genesis

(* What one write makes of the lines. *)
LEMMA ExtendedFacts ==
  ASSUME AuditTypeOK, NEW l \in Line
  PROVE  /\ Extended(l) \in Seq(Line)
         /\ ended => /\ Extended(l) # <<>> /\ Len(Extended(l)) = Len(file) + 1
                     /\ DOMAIN Extended(l) = 1 .. Len(file) + 1
                     /\ \A i \in 1 .. Len(file) : Extended(l)[i] = file[i]
                     /\ Extended(l)[Len(file) + 1] = l
<1>1. file \in Seq(Line)
  BY DEF AuditTypeOK
<1>2. CASE ended
  <2>1. Extended(l) = Append(file, l)
    BY <1>2 DEF Extended
  <2> QED
    BY <1>1, <1>2, <2>1
<1>3. CASE ~ ended
  <2>1. Extended(l) = [file EXCEPT ![Len(file)] = Garbage]
    BY <1>3 DEF Extended
  <2>2. Garbage \in Line
    BY LineFacts
  <2>3. CASE Len(file) \in 1 .. Len(file)
    <3>1. [file EXCEPT ![Len(file)] = Garbage] \in Seq(Line)
      BY <1>1, <2>2, <2>3, ExceptSeq
    <3> QED
      BY <1>3, <2>1, <3>1
  <2>4. CASE Len(file) \notin 1 .. Len(file)
    <3>1. [file EXCEPT ![Len(file)] = Garbage] = file
      BY <1>1, <2>4
    <3> QED
      BY <1>1, <1>3, <2>1, <3>1
  <2> QED
    BY <2>3, <2>4
<1> QED
  BY <1>2, <1>3

LEMMA AuditTypeStep == ASSUME AuditTypeOK, [AuditNext]_auditVars PROVE AuditTypeOK'
<1>1. ASSUME NEW w \in Writer, OpenLog(w) PROVE AuditTypeOK'
  <2>1. NextSeq \in Int /\ LastEntry.id \in Int
    BY LastFacts DEF NextSeq, Line
  <2> QED
    BY <1>1, <2>1 DEF OpenLog, AuditTypeOK
<1>2. ASSUME NEW w \in Writer, WriteLine(w) PROVE AuditTypeOK'
  <2>1. Entry(w) \in Line /\ Extended(Entry(w)) \in Seq(Line)
    BY EntryFacts, ExtendedFacts
  <2>2. formed' \in Nat
    BY <1>2 DEF WriteLine, AuditTypeOK
  <2>3. ended' \in BOOLEAN /\ cut' \in BOOLEAN /\ shared' \in BOOLEAN
    BY <1>2, Zenon DEF WriteLine, AuditTypeOK
  <2>4. file' \in Seq(Line) /\ told' \in Seq(Line) /\ writing' \in [Writer -> Line]
    BY <1>2, <2>1 DEF WriteLine, AuditTypeOK
  <2> QED
    BY <1>2, <2>2, <2>3, <2>4 DEF WriteLine, AuditTypeOK
<1>3. ASSUME NEW w \in Writer, WriteTears(w) PROVE AuditTypeOK'
  <2>1. Extended(Garbage) \in Seq(Line)
    BY LineFacts, ExtendedFacts
  <2>2. formed' \in Nat
    BY <1>3 DEF WriteTears, AuditTypeOK
  <2>3. ended' \in BOOLEAN /\ cut' \in BOOLEAN /\ shared' \in BOOLEAN
    BY <1>3, Zenon DEF WriteTears, AuditTypeOK
  <2>4. file' \in Seq(Line) /\ told' \in Seq(Line)
    BY <1>3, <2>1 DEF WriteTears, AuditTypeOK
  <2> QED
    BY <1>3, <2>2, <2>3, <2>4 DEF WriteTears, AuditTypeOK
<1>4. ASSUME NEW w \in Writer, EndLine(w) PROVE AuditTypeOK'
  <2>1. writing[w] \in Line /\ writing[w].id \in Int /\ NoEntry \in Line
    BY LineFacts DEF AuditTypeOK, Line
  <2> QED
    BY <1>4, <2>1 DEF EndLine, Moved, AuditTypeOK
<1>5. ASSUME NEW w \in Writer, EndFails(w) PROVE AuditTypeOK'
  BY <1>5, LineFacts DEF EndFails, AuditTypeOK
<1>6. ASSUME NEW w \in Writer, CloseLog(w) PROVE AuditTypeOK'
  BY <1>6, LineFacts DEF CloseLog, AuditTypeOK, Genesis
<1>7. CASE UNCHANGED auditVars
  BY <1>7 DEF auditVars, AuditTypeOK
<1> QED
  BY <1>1, <1>2, <1>3, <1>4, <1>5, <1>6, <1>7 DEF AuditNext, AuditStep

(* A writer that opens a chain that is whole finds its head. *)
LEMMA OpenKeepsChain ==
  ASSUME AuditInv, NEW w \in Writer, OpenLog(w) PROVE ChainInv'
<1> SUFFICES ASSUME ~ shared', ~ cut' PROVE ChainInv'
  BY DEF ChainInv
<1>1. ~ shared /\ ~ cut /\ opened = {} /\ opened' = {w}
  BY DEF OpenLog, AuditInv, AuditTypeOK
<1>2. ended /\ LinesHold /\ \A v \in Writer : writing[v] = NoEntry
  BY <1>1 DEF AuditInv, ChainInv, Writes
<1>3. seq'[w] = Len(file) /\ prev'[w] = LastEntry.id
  <2>1. NextSeq = Len(file)
    <3>1. CASE file = <<>>
      BY <3>1, LastFacts DEF NextSeq, AuditInv
    <3>2. CASE file # <<>>
      <4>1. LastEntry.seq = Len(file) - 1
        BY <1>2, <3>2, LastFacts DEF LinesHold, AuditInv
      <4> QED
        BY <3>2, <4>1, LastFacts DEF NextSeq, AuditInv
    <3> QED
      BY <3>1, <3>2
  <2> QED
    BY <2>1 DEF OpenLog, AuditInv, AuditTypeOK
<1>4. LinesHold' /\ LastEntry' = LastEntry
  BY <1>2 DEF OpenLog, LinesHold, Kept, LastEntry
<1>5. AtHead(w)'
  BY <1>2, <1>3, <1>4 DEF AtHead, OpenLog
<1> QED
  BY <1>1, <1>2, <1>4, <1>5 DEF ChainInv, OpenLog

(* The line that the only writer begins continues the chain. *)
LEMMA WriteKeepsChain ==
  ASSUME AuditInv, NEW w \in Writer, WriteLine(w) PROVE ChainInv'
<1> SUFFICES ASSUME ~ shared', ~ cut' PROVE ChainInv'
  BY DEF ChainInv
<1>1. /\ ~ shared /\ ~ cut /\ w \in opened /\ writing[w] = NoEntry
      /\ opened' = opened /\ seq' = seq /\ told' = told
      /\ formed' = formed + 1 /\ formed \in Nat /\ ~ ended'
      /\ writing' = [writing EXCEPT ![w] = Entry(w)]
      /\ file' = Extended(Entry(w))
  BY DEF WriteLine, MayAppend, AuditInv, AuditTypeOK
<1>2. AtHead(w) /\ LinesHold /\ \A v \in opened : v = w
  BY <1>1 DEF AuditInv, ChainInv
<1>3. /\ Entry(w) \in Line /\ Entry(w) # NoEntry /\ Entry(w).id = formed + 1
      /\ Entry(w).seq = Len(file) /\ Entry(w).prev = LastEntry.id
  BY <1>2, EntryFacts DEF AtHead, AuditInv
<1>4. /\ Len(file) \in Nat /\ DOMAIN file = 1 .. Len(file)
      /\ file' # <<>> /\ Len(file') = Len(file) + 1 /\ DOMAIN file' = 1 .. Len(file) + 1
      /\ \A i \in 1 .. Len(file) : file'[i] = file[i]
      /\ file'[Len(file) + 1] = Entry(w)
  BY <1>1, <1>2, <1>3, ExtendedFacts, LastFacts DEF AtHead, AuditInv
<1>5. LastEntry.id = IF Len(file) = 0 THEN Genesis ELSE file[Len(file)].id
  BY LastFacts DEF AuditInv
<1>6. ASSUME NEW i \in DOMAIN file'
      PROVE  /\ file'[i].id \in 1 .. formed'
             /\ file'[i].seq = i - 1
             /\ file'[i].prev = IF i = 1 THEN Genesis ELSE file'[i - 1].id
  <2>1. CASE i \in 1 .. Len(file)
    BY <1>1, <1>2, <1>4, <2>1 DEF LinesHold
  <2>2. CASE i = Len(file) + 1
    BY <1>1, <1>3, <1>4, <1>5, <2>2
  <2> QED
    BY <1>4, <2>1, <2>2
<1>7. ASSUME NEW i \in DOMAIN told' PROVE \E k \in DOMAIN file' : file'[k] = told'[i]
  <2>1. PICK k \in DOMAIN file : file[k] = told[i]
    BY <1>1, <1>2 DEF LinesHold, Kept
  <2> QED
    BY <1>1, <1>4, <2>1
<1>8. Writes(w)'
  BY <1>1, <1>2, <1>4 DEF Writes, LastEntry, AtHead, AuditInv, AuditTypeOK
<1>9. \A v \in Writer : writing'[v] # NoEntry => v = w
  BY <1>1, <1>2 DEF AuditInv, ChainInv, Writes, AuditTypeOK
<1>10. writing'[w] # NoEntry
  BY <1>1, <1>3 DEF AuditInv, AuditTypeOK
<1> QED
  <2>1. LinesHold'
    BY <1>6, <1>7 DEF LinesHold, Kept
  <2> QED
    BY <1>1, <1>2, <2>1, <1>8, <1>9, <1>10 DEF ChainInv

(* The end of its line makes the writer the head, and its entry is there. *)
LEMMA EndKeepsChain ==
  ASSUME AuditInv, NEW w \in Writer, EndLine(w) PROVE ChainInv'
<1> SUFFICES ASSUME ~ shared', ~ cut' PROVE ChainInv'
  BY DEF ChainInv
<1>1. /\ ~ shared /\ ~ cut /\ writing[w] # NoEntry
      /\ opened' = opened /\ file' = file /\ formed' = formed /\ ended'
      /\ writing' = [writing EXCEPT ![w] = NoEntry]
      /\ seq' = [seq EXCEPT ![w] = @ + 1] /\ prev' = [prev EXCEPT ![w] = writing[w].id]
      /\ told' = Append(told, writing[w])
  BY DEF EndLine, Moved
<1>2. Writes(w) /\ LinesHold /\ \A v \in opened : v = w
  BY <1>1 DEF AuditInv, ChainInv, Writes
<1>3. LastEntry' = LastEntry
  BY <1>1 DEF LastEntry
<1>4. AtHead(w)'
  BY <1>1, <1>2, <1>3, LastFacts DEF AtHead, Writes, AuditInv, AuditTypeOK
<1>5. ASSUME NEW i \in DOMAIN told' PROVE \E k \in DOMAIN file' : file'[k] = told'[i]
  <2>1. /\ told \in Seq(Line) /\ writing[w] \in Line
    BY DEF AuditInv, AuditTypeOK
  <2>2. CASE i \in DOMAIN told
    <3>1. told'[i] = told[i]
      BY <1>1, <2>1, <2>2
    <3> QED
      BY <1>1, <1>2, <2>2, <3>1 DEF LinesHold, Kept
  <2>3. CASE i \notin DOMAIN told
    <3>1. told'[i] = writing[w]
      BY <1>1, <2>1, <2>3
    <3> QED
      BY <1>1, <1>2, <3>1, LastFacts DEF Writes, AuditInv
  <2> QED
    BY <2>2, <2>3
<1>6. LinesHold'
  BY <1>1, <1>2, <1>5 DEF LinesHold, Kept
<1>7. \A v \in Writer : writing'[v] = NoEntry
  BY <1>1, <1>2 DEF AuditInv, ChainInv, Writes, AuditTypeOK
<1> QED
  BY <1>1, <1>2, <1>4, <1>6, <1>7 DEF ChainInv, Writes

LEMMA CloseKeepsChain ==
  ASSUME AuditInv, NEW w \in Writer, CloseLog(w) PROVE ChainInv'
<1> SUFFICES ASSUME ~ shared', ~ cut' PROVE ChainInv'
  BY DEF ChainInv
<1>1. /\ ~ shared /\ ~ cut /\ writing[w] = NoEntry /\ w \in opened
      /\ opened' = opened \ {w} /\ file' = file /\ formed' = formed /\ ended' = ended
      /\ told' = told /\ writing' = [writing EXCEPT ![w] = NoEntry]
  BY DEF CloseLog, AuditInv, AuditTypeOK
<1>2. AtHead(w) /\ LinesHold /\ opened' = {}
  BY <1>1 DEF AuditInv, ChainInv
<1>3. LinesHold'
  BY <1>1, <1>2 DEF LinesHold, Kept
<1>4. \A v \in Writer : writing'[v] = NoEntry
  BY <1>1, <1>2 DEF AuditInv, ChainInv, Writes, AtHead, AuditTypeOK
<1> QED
  BY <1>1, <1>2, <1>3, <1>4 DEF ChainInv, AtHead

LEMMA AuditInvStep == ASSUME AuditInv, [AuditNext]_auditVars PROVE AuditInv'
<1>1. AuditTypeOK'
  BY AuditTypeStep DEF AuditInv
<1>2. ASSUME NEW w \in Writer, WriteTears(w) \/ EndFails(w) PROVE ChainInv'
  BY <1>2 DEF ChainInv, WriteTears, EndFails
<1>3. CASE UNCHANGED auditVars
  BY <1>1, <1>3 DEF auditVars, AuditInv, ChainInv, LinesHold, Kept, Writes, AtHead, LastEntry
<1> QED
  BY <1>1, <1>2, <1>3, OpenKeepsChain, WriteKeepsChain, EndKeepsChain, CloseKeepsChain
  DEF AuditInv, AuditNext, AuditStep

(* Of any number of writers that follow one another, whole lines give a    *)
(* chain that verifies, counts without a gap and has every acknowledged    *)
(* entry (audit.rs:63, 79, 131).                                           *)
THEOREM ChainSafe == AuditSpec => []ChainHolds
<1>1. AuditInv => ChainHolds
  <2> SUFFICES ASSUME AuditInv, ~ shared, ~ cut PROVE ChainHolds
    BY DEF ChainHolds
  <2>1. LinesHold
    BY DEF AuditInv, ChainInv
  <2>2. Garbage.id = -1 /\ formed \in Nat
    BY DEF Garbage, AuditInv, AuditTypeOK
  <2>3. Verifies
    BY <2>1, <2>2 DEF LinesHold, Verifies, IsEntry
  <2> QED
    BY <2>1, <2>3 DEF LinesHold, ChainHolds
<1> QED
  BY <1>1, AuditInitInv, AuditInvStep, PTL DEF AuditSpec
----------------------------------------------------------------------------
(* A step of the root is one of its ledger, one of its log, or the end of  *)
(* a process, which is one of each.                                        *)
THEOREM RootIsBoth == RootSpec => Spec /\ AuditSpec
<1>1. [RootNext]_rootVars => [Next]_storeVars /\ [AuditNext]_auditVars
  BY RootAssumption
  DEF RootNext, OnLedger, OpenAudit, OnAudit, End, Next, AuditNext, rootVars
<1> QED
  BY <1>1, PTL DEF RootSpec, RootInit, Spec, AuditSpec

(* Whatever processes open a root, and however their transactions, appends *)
(* and ends interleave: the ledger is consistent and forgets nothing, the  *)
(* chain of the audit log holds, and the storage is one durable log.       *)
THEOREM RootSafe ==
  RootSpec => [](Consistent /\ MigrationKeeps /\ ChainHolds) /\ ImplementsLog
BY RootIsBoth, StoreConsistent, MigrationSafe, ChainSafe, LogRefinement, PTL
=============================================================================
