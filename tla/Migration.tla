----------------------------- MODULE Migration -----------------------------
(***************************************************************************)
(* What crates/portos-kernel/src/ledger/recovery.rs makes of the rows of a *)
(* root that was written before cleanup was recorded: tombstones are not   *)
(* receipts, so every row with something in the world behind it is owed a  *)
(* cleanup again, unless that thing is observed to be absent, and what     *)
(* such a row hangs under has to come back with it.                        *)
(*                                                                         *)
(* Rows are those of an unversioned root (no schema row): no lease kind,   *)
(* no state, no target.  Each is the whole claim on an exclusive pool; the *)
(* counted rows have no target and are left out.  Every process row has    *)
(* its witness.                                                            *)
(***************************************************************************)
EXTENDS Integers, FiniteSets

CONSTANTS
  Row,       \* identities of the rows, in the order of the table
  Key,       \* exclusive pools: (class, instance)
  KindOf     \* KindOf[k]: the builtin_policy of the class of k

NoRow == -1
Kind == {"accounting", "file_lock", "process", "port", "plugin", "subscription", "provider"}

ASSUME RowAssumption == IsFiniteSet(Row) /\ NoRow \notin Row /\ KindOf \in [Key -> Kind]

(* What a legacy table holds, and what codec::decode reads from a row: its *)
(* lease is the parent's when it has a parent and no expiry.               *)
LegacyRow == [key : Key, parent : Row \cup {NoRow}, expires : BOOLEAN, released : BOOLEAN]

State == {"active", "retiring", "retired"}
Task == {"none", "pending", "blocked", "already_absent"}

Decoded(l) ==
  [key |-> l.key, parent |-> l.parent,
   bound |-> l.parent # NoRow /\ ~ l.expires,
   state |-> IF l.released THEN "retired" ELSE "active",
   task |-> "none", resolved |-> TRUE]
Decode(rows) == [i \in DOMAIN rows |-> Decoded(rows[i])]

IsManagedKey(k) == KindOf[k] # "accounting"
RowOccupies(r) == r.state # "retired"
HasParent(s, i) == s[i].parent # NoRow

----------------------------------------------------------------------------
(* LedgerBuilder::finish: Ledger::invariant over what was read.  A parent  *)
(* exists and there is no cycle, which the numbering of Legacy sees to.    *)
GraphHolds(s) ==
  \A i \in DOMAIN s : RowOccupies(s[i]) /\ HasParent(s, i) => RowOccupies(s[s[i].parent])
BoundHolds(s) ==
  \A i \in DOMAIN s :
    s[i].state = "active" /\ s[i].bound => s[s[i].parent].state = "active"
PoolsHold(s) ==
  \A i, j \in DOMAIN s :
    RowOccupies(s[i]) /\ RowOccupies(s[j]) /\ s[i].key = s[j].key => i = j
(* cleanup_invariant: targets and tasks against the state of their rows. *)
TasksHold(s) ==
  \A i \in DOMAIN s :
    /\ ~ s[i].resolved => s[i].state # "active"
    /\ s[i].state = "retiring" <=> s[i].task \in {"pending", "blocked"}
    /\ s[i].state = "retired" /\ IsManagedKey(s[i].key) => s[i].task = "already_absent"
    /\ s[i].task = "already_absent" => s[i].state = "retired"

OriginalValid(s) == GraphHolds(s) /\ BoundHolds(s) /\ PoolsHold(s)
Accepted(s) == OriginalValid(s) /\ TasksHold(s)

----------------------------------------------------------------------------
(* Only a lock file or a process can be observed to be absent.  A lock is  *)
(* looked for by its path, a process by its own pid and start.             *)
Observable(s) == {i \in DOMAIN s : KindOf[s[i].key] \in {"file_lock", "process"}}
Observations(s) ==
  {A \in SUBSET Observable(s) :
     \A i, j \in Observable(s) :
       s[i].key = s[j].key /\ KindOf[s[i].key] = "file_lock" => (i \in A <=> j \in A)}

(* Mutant: a tombstone is taken for a receipt. *)
MutOwed(r, absent) ==
  IF absent \/ r.state = "retired"
    THEN [r EXCEPT !.state = "retired", !.task = "already_absent", !.resolved = FALSE]
    ELSE [r EXCEPT !.state = "retiring", !.resolved = FALSE,
                   !.task = IF KindOf[r.key] = "port" THEN "pending" ELSE "blocked"]

(* The first loop of migrate_retirements. *)
Owed(r, absent) ==
  IF absent
    THEN [r EXCEPT !.state = "retired", !.task = "already_absent",
                   !.resolved = KindOf[r.key] = "port"]
    ELSE [r EXCEPT !.state = "retiring",
                   !.task = IF KindOf[r.key] = "port" THEN "pending" ELSE "blocked",
                   !.resolved = KindOf[r.key] = "port"]
Retirements(s, A) ==
  [i \in DOMAIN s |-> IF IsManagedKey(s[i].key) THEN Owed(s[i], i \in A) ELSE s[i]]

(* The second loop: what a pass over the rows brings back, and the rows    *)
(* with R brought back.                                                    *)
ParentsOf(s) == {s[i].parent : i \in {j \in DOMAIN s : RowOccupies(s[j]) /\ HasParent(s, j)}}
RetiringRows(s) == {i \in DOMAIN s : s[i].state = "retiring"}
Restored(s, i) ==
  \/ i \in ParentsOf(s) /\ ~ RowOccupies(s[i])
  \/ s[i].state = "active" /\ s[i].bound /\ s[i].parent \in RetiringRows(s)
Back(s, R) ==
  [i \in DOMAIN s |-> IF i \in R THEN [s[i] EXCEPT !.state = "retiring", !.task = "pending"]
                                 ELSE s[i]]

(* A pass only adds rows, and what it adds makes no other row stay away:   *)
(* passes until nothing changes bring back the least set that is closed.   *)
Closed(s, R) == \A i \in DOMAIN s : Restored(Back(s, R), i) => i \in R
(* Mutant: one pass. *)
MutSettled(s) == Back(s, {i \in DOMAIN s : Restored(s, i)})
Settled(s) ==
  Back(s, {i \in DOMAIN s : \A R \in SUBSET DOMAIN s : Closed(s, R) => i \in R})

Migrated(s, A) == Settled(Retirements(s, A))
=============================================================================
