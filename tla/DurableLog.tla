----------------------------- MODULE DurableLog -----------------------------
(***************************************************************************)
(* What the ledger's storage promises: one log of writes that only grows,  *)
(* views that show all of it or nothing, an acknowledged write that stays, *)
(* and a refused one that never appears.                                   *)
(***************************************************************************)
EXTENDS Sequences

CONSTANTS Store, Write, Unknown

VARIABLES
  log,       \* the committed writes, in order
  view,      \* what each store would answer from, or Unknown
  acked,     \* writes whose caller was told that they are there
  rejected   \* writes whose caller was told that they are not

vars == <<log, view, acked, rejected>>

Written == {log[i] : i \in DOMAIN log}

Init ==
  /\ log = <<>>
  /\ view = [s \in Store |-> Unknown]
  /\ acked = {}
  /\ rejected = {}

(* A write arrives; whoever had a view has to look again. *)
Grow(w) ==
  /\ w \notin Written \cup rejected
  /\ log' = Append(log, w)
  /\ view' = [s \in Store |-> Unknown]
  /\ UNCHANGED <<acked, rejected>>

(* A store comes to see all of the log, or nothing. *)
Seen(s) == \E v \in {log, Unknown} : view' = [view EXCEPT ![s] = v]
SeenOrNot == UNCHANGED view \/ \E s \in Store : Seen(s)

Look(s) == Seen(s) /\ UNCHANGED <<log, acked, rejected>>

Acknowledge(w) ==
  /\ w \in Written
  /\ acked' = acked \cup {w}
  /\ SeenOrNot
  /\ UNCHANGED <<log, rejected>>

Reject(w) ==
  /\ w \notin Written
  /\ rejected' = rejected \cup {w}
  /\ SeenOrNot
  /\ UNCHANGED <<log, acked>>

Next ==
  \/ \E w \in Write : Grow(w) \/ Acknowledge(w) \/ Reject(w)
  \/ \E s \in Store : Look(s)

Spec == Init /\ [][Next]_vars
=============================================================================
