----------------------------- MODULE KernelRoot -----------------------------
(***************************************************************************)
(* A root directory and the processes that open it: Kernel::open of        *)
(* crates/portos-kernel/src/lib.rs loads the ledger, which may migrate it, *)
(* and then the audit log; it fails when either does.  Transactions and    *)
(* audit appends interleave from then on, and a process ends with both.    *)
(***************************************************************************)
EXTENDS LedgerStore, AuditLog

ASSUME RootAssumption == Store \subseteq Writer

rootVars == <<storeVars, auditVars>>

RootInit == Init /\ AuditInit

(* The ledger may be written, to reconcile it, before the log is open. *)
OnLedger(s) ==
  /\ StoreStep(s)
  /\ UNCHANGED auditVars

OpenAudit(s) ==
  /\ s \in open
  /\ step[s] = "idle"
  /\ OpenLog(s)
  /\ UNCHANGED storeVars

OnAudit(s) ==
  /\ AuditStep(s)
  /\ UNCHANGED storeVars

(* The process ends, or its opening fails at a log that cannot be read. *)
End(s) ==
  /\ Close(s)
  /\ IF s \in opened THEN CloseLog(s) ELSE UNCHANGED auditVars

RootNext == \E s \in Store : OnLedger(s) \/ OpenAudit(s) \/ OnAudit(s) \/ End(s)
RootSpec == RootInit /\ [][RootNext]_rootVars
=============================================================================
