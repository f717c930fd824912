--------------------------- MODULE MCKernelRoot ---------------------------
(***************************************************************************)
(* Two processes on one root, that was left with one of four tables of     *)
(* three rows.                                                             *)
(***************************************************************************)
EXTENDS KernelRoot, TLC

MCRow == 0 .. 2
MCKey == {"plugin", "lock", "cap"}
MCKindOf == [k \in MCKey |->
  CASE k = "plugin" -> "plugin" [] k = "lock" -> "file_lock" [] k = "cap" -> "accounting"]

MCRowOf(k, p, e, r) == [key |-> k, parent |-> p, expires |-> e, released |-> r]
MCTable(a, b, c) == [i \in MCRow |-> IF i = 0 THEN a ELSE IF i = 1 THEN b ELSE c]

(* A lock under a released capability under a plugin that has ended; a      *)
(* plugin bound to a capability bound to a lock, all held; a capability    *)
(* with a lease of its own and a plugin that has ended, under a lock; and  *)
(* a plugin of one name that was spawned twice.                            *)
MCLegacy ==
  {MCTable(MCRowOf("plugin", NoRow, FALSE, TRUE), MCRowOf("cap", 0, FALSE, TRUE),
           MCRowOf("lock", 1, FALSE, TRUE)),
   MCTable(MCRowOf("lock", NoRow, FALSE, FALSE), MCRowOf("cap", 0, FALSE, FALSE),
           MCRowOf("plugin", 1, FALSE, FALSE)),
   MCTable(MCRowOf("lock", NoRow, FALSE, FALSE), MCRowOf("cap", 0, TRUE, FALSE),
           MCRowOf("plugin", 0, FALSE, TRUE)),
   MCTable(MCRowOf("plugin", NoRow, FALSE, TRUE), MCRowOf("lock", 0, FALSE, TRUE),
           MCRowOf("plugin", NoRow, FALSE, FALSE))}
MCSymmetry == Permutations(Store)
=============================================================================
