---------------------------- MODULE LedgerStore ----------------------------
(***************************************************************************)
(* The storage of crates/portos-kernel/src/ledger.rs: every process that   *)
(* has a root open keeps the whole ledger in memory, stages each change on *)
(* a copy, commits the copy to the database and only then publishes it.  A *)
(* revision in the database tells a process that another one has written.  *)
(*                                                                         *)
(* A ledger is what a legacy table was migrated to and the writes since.   *)
(* The mutex of a store makes its calls one at a time; a call is its steps *)
(* between which another process, or a crash, can come.  BEGIN IMMEDIATE   *)
(* is the writer lock of the database: a call that finds it taken waits or *)
(* fails before it has changed anything, which is no step.                 *)
(***************************************************************************)
EXTENDS Migration, Sequences

CONSTANTS
  Store,        \* processes that may open the root
  Write,        \* transactions callers submit, each once
  Bookkeeping,  \* those that insert into the auxiliary tables too
  Legacy,       \* the tables the root may have been left with
  MaxRevision,  \* the last revision (i64::MAX)
  NoStore, NoWrite

ASSUME StoreAssumption ==
  /\ NoStore \notin Store
  /\ NoWrite \notin Write
  /\ Bookkeeping \subseteq Write
  /\ MaxRevision \in Nat

(* A parent is a row of the table. *)
ASSUME LegacyAssumption ==
  \A t \in Legacy :
    /\ DOMAIN t \subseteq Row
    /\ t \in [DOMAIN t -> LegacyRow]
    /\ \A i \in DOMAIN t : t[i].parent \in DOMAIN t \cup {NoRow}

VARIABLES
  disk,      \* the database: version, rows, writes, auxiliary rows, revision
  writer,    \* the store inside an immediate transaction
  open,      \* the stores that are open
  memory,    \* StoreState.ledger
  revision,  \* StoreState.revision
  writable,  \* StoreState.writable
  step,      \* where the call in a store is: idle, staged or committed
  staged,    \* its LedgerTxn and what it has written through it
  original,  \* the legacy table
  absent,    \* the rows that the migration observed to be absent
  acked,     \* writes whose transaction returned Ok
  rejected   \* writes whose closure refused or unwound

storeVars ==
  <<disk, writer, open, memory, revision, writable, step, staged, original, absent, acked,
    rejected>>

Written == {disk.log[i] : i \in DOMAIN disk.log}
Submitted == acked \cup rejected \cup Written \cup {staged[s].write : s \in Store}
NoLedger == [rows |-> <<>>, log |-> <<>>]
NoTxn == [log |-> <<>>, aux |-> {}, write |-> NoWrite]
Content == [rows |-> disk.rows, log |-> disk.log]

Init ==
  /\ original \in Legacy
  /\ disk = [version |-> "none", rows |-> Decode(original), log |-> <<>>, aux |-> {},
             revision |-> 0]
  /\ writer = NoStore
  /\ open = {}
  /\ memory = [s \in Store |-> NoLedger]
  /\ revision = [s \in Store |-> 0]
  /\ writable = [s \in Store |-> FALSE]
  /\ step = [s \in Store |-> "idle"]
  /\ staged = [s \in Store |-> NoTxn]
  /\ absent = {}
  /\ acked = {}
  /\ rejected = {}

----------------------------------------------------------------------------
(* LedgerStore::open: recovery::load in one immediate transaction.         *)
Upgraded(m) == [disk EXCEPT !.version = "current", !.rows = m]

(* What load leaves in the database, and whether it gets that far. *)
Loads(d, A) ==
  \/ /\ disk.version = "current" /\ Accepted(disk.rows)
     /\ d = disk /\ A = absent
  \/ /\ disk.version = "none" /\ OriginalValid(disk.rows)
     /\ A \in Observations(disk.rows)
     /\ Accepted(Migrated(disk.rows, A))
     /\ d = Upgraded(Migrated(disk.rows, A))

Open(s) ==
  /\ s \notin open
  /\ writer = NoStore
  /\ \E A \in SUBSET Row : \E d \in {disk, Upgraded(Migrated(disk.rows, A))} :
       /\ Loads(d, A)
       /\ disk' = d
       /\ absent' = A
       /\ memory' = [memory EXCEPT ![s] = [rows |-> d.rows, log |-> d.log]]
  /\ revision' = [revision EXCEPT ![s] = disk.revision]
  /\ writable' = [writable EXCEPT ![s] = TRUE]
  /\ open' = open \cup {s}
  /\ UNCHANGED <<writer, step, staged, original, acked, rejected>>

(* The commit of an opening reports a failure, whatever became of it. *)
OpenFails(s) ==
  /\ s \notin open
  /\ writer = NoStore
  /\ \E A \in SUBSET Row : \E d \in {Upgraded(Migrated(disk.rows, A))} :
       Loads(d, A) /\ disk' = d /\ absent' = A
  /\ UNCHANGED <<writer, open, memory, revision, writable, step, staged, original, acked,
                 rejected>>

----------------------------------------------------------------------------
Ready(s) == s \in open /\ step[s] = "idle" /\ writable[s]

(* Mutant: the database is taken to be as this store left it. *)
MutCurrent(s) == TRUE
Current(s) == revision[s] = disk.revision

(* transaction: the closure works on a copy, and on the auxiliary tables.  *)
Begin(s, w) ==
  /\ Ready(s)
  /\ writer = NoStore
  /\ Current(s)
  /\ disk.revision < MaxRevision
  /\ w \notin Submitted
  /\ writer' = s
  /\ step' = [step EXCEPT ![s] = "staged"]
  /\ staged' = [staged EXCEPT ![s] =
       [log |-> Append(memory[s].log, w), aux |-> disk.aux \cup ({w} \cap Bookkeeping), write |-> w]]
  /\ UNCHANGED <<disk, open, memory, revision, writable, original, absent, acked, rejected>>

(* A call of any kind finds that another store has written. *)
Fenced(s) ==
  /\ Ready(s)
  /\ ~ Current(s)
  /\ writable' = [writable EXCEPT ![s] = FALSE]
  /\ UNCHANGED <<disk, writer, open, memory, revision, step, staged, original, absent, acked,
                 rejected>>

Leaves(s) ==
  /\ writer' = NoStore
  /\ step' = [step EXCEPT ![s] = "idle"]
  /\ staged' = [staged EXCEPT ![s] = NoTxn]

(* The closure refuses or unwinds, or a statement fails: rollback.         *)
Refuse(s) ==
  /\ step[s] = "staged"
  /\ Leaves(s)
  /\ \E ok \in BOOLEAN : writable' = [writable EXCEPT ![s] = ok]
  /\ rejected' = rejected \cup {staged[s].write}
  /\ UNCHANGED <<disk, open, memory, revision, original, absent, acked>>

(* Mutant: persist leaves out what the closure wrote beside the ledger. *)
MutPersisted(s) ==
  [disk EXCEPT !.log = staged[s].log, !.revision = @ + 1]

(* persist writes the whole snapshot over what is there. *)
Persisted(s) ==
  [disk EXCEPT !.log = staged[s].log, !.aux = staged[s].aux, !.revision = @ + 1]

Commit(s) ==
  /\ step[s] = "staged"
  /\ disk' = Persisted(s)
  /\ writer' = NoStore
  /\ step' = [step EXCEPT ![s] = "committed"]
  /\ UNCHANGED <<open, memory, revision, writable, staged, original, absent, acked, rejected>>

(* The commit reports a failure: it may have happened all the same. *)
CommitFails(s) ==
  /\ step[s] = "staged"
  /\ disk' \in {disk, Persisted(s)}
  /\ Leaves(s)
  /\ writable' = [writable EXCEPT ![s] = FALSE]
  /\ UNCHANGED <<open, memory, revision, original, absent, acked, rejected>>

(* Mutant: the store goes by the revision it finds in the database. *)
MutNextRevision(s) == disk.revision
NextRevision(s) == revision[s] + 1

Publish(s) ==
  /\ step[s] = "committed"
  /\ memory' = [memory EXCEPT ![s] = [rows |-> memory[s].rows, log |-> staged[s].log]]
  /\ revision' = [revision EXCEPT ![s] = NextRevision(s)]
  /\ acked' = acked \cup {staged[s].write}
  /\ step' = [step EXCEPT ![s] = "idle"]
  /\ staged' = [staged EXCEPT ![s] = NoTxn]
  /\ UNCHANGED <<disk, writer, open, writable, original, absent, rejected>>

(* The process ends, wherever it is; the database rolls back what it had   *)
(* begun.                                                                  *)
Close(s) ==
  /\ s \in open
  /\ open' = open \ {s}
  /\ writer' = IF writer = s THEN NoStore ELSE writer
  /\ memory' = [memory EXCEPT ![s] = NoLedger]
  /\ revision' = [revision EXCEPT ![s] = 0]
  /\ writable' = [writable EXCEPT ![s] = FALSE]
  /\ step' = [step EXCEPT ![s] = "idle"]
  /\ staged' = [staged EXCEPT ![s] = NoTxn]
  /\ UNCHANGED <<disk, original, absent, acked, rejected>>

StoreStep(s) ==
  \/ Open(s) \/ OpenFails(s)
  \/ \E w \in Write : Begin(s, w)
  \/ Fenced(s) \/ Refuse(s) \/ Commit(s) \/ CommitFails(s) \/ Publish(s)

Next == \E s \in Store : StoreStep(s) \/ Close(s)
Spec == Init /\ [][Next]_storeVars

----------------------------------------------------------------------------
TxnType == [log : Seq(Write), aux : SUBSET Write, write : Write \cup {NoWrite}]

(* Rows are typed by nothing but their place: what they hold is Migration's. *)
StoreTypeOK ==
  /\ disk = [version |-> disk.version, rows |-> disk.rows, log |-> disk.log, aux |-> disk.aux,
             revision |-> disk.revision]
  /\ disk.version \in {"none", "current"}
  /\ disk.log \in Seq(Write)
  /\ disk.aux \subseteq Write
  /\ disk.revision \in 0 .. MaxRevision
  /\ writer \in Store \cup {NoStore}
  /\ open \subseteq Store
  /\ memory = [s \in Store |-> [rows |-> memory[s].rows, log |-> memory[s].log]]
  /\ revision \in [Store -> Nat]
  /\ writable \in [Store -> BOOLEAN]
  /\ step \in [Store -> {"idle", "staged", "committed"}]
  /\ staged \in [Store -> TxnType]
  /\ acked \subseteq Write
  /\ rejected \subseteq Write

(* A store that answers, or begins to write, has in memory exactly what    *)
(* the database holds (the staged copy is built on it, ledger.rs:187).     *)
CanRead(s) == s \in open /\ writable[s] /\ step[s] # "committed" /\ Current(s)
ViewIsCurrent == \A s \in Store : CanRead(s) => memory[s] = Content

(* The auxiliary tables and the ledger they refer to are committed, and    *)
(* rolled back, together (validate_auxiliary, recovery.rs:305).            *)
AuxiliaryMatches == disk.aux = Written \cap Bookkeeping

(* Memory, ledger tables and auxiliary tables agree whenever anybody may   *)
(* look, through refusals, unwinding, failed commits and a second process. *)
Consistent == ViewIsCurrent /\ AuxiliaryMatches

(* The whole is one log that only grows, keeps what it acknowledged, never *)
(* shows what it refused, and is seen as it is or not at all.              *)
Unknown == <<NoWrite>>
Durable ==
  INSTANCE DurableLog WITH
    log <- disk.log,
    view <- [s \in Store |-> IF CanRead(s) THEN memory[s].log ELSE Unknown]
ImplementsLog == Durable!Spec

(* A migration frees nothing that was held and nothing that it did not see *)
(* to be absent: a tombstone is no receipt (recovery.rs:157).              *)
NothingForgotten ==
  disk.version = "current" =>
    \A i \in DOMAIN original :
      \/ RowOccupies(disk.rows[i])
      \/ i \in absent
      \/ original[i].released /\ ~ IsManagedKey(original[i].key)

(* Whatever is observed, a legal table is only ever refused because two of *)
(* its rows would occupy one pool: parents, leases and tasks come out right. *)
RefusedOnlyByContention ==
  disk.version = "none" /\ OriginalValid(disk.rows) =>
    \A A \in Observations(disk.rows) :
      LET m == Migrated(disk.rows, A) IN GraphHolds(m) /\ BoundHolds(m) /\ TasksHold(m)

MigrationKeeps == NothingForgotten /\ RefusedOnlyByContention
=============================================================================
