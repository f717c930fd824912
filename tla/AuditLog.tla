------------------------------ MODULE AuditLog ------------------------------
(***************************************************************************)
(* The audit log of crates/portos-kernel/src/audit.rs: a file of lines,    *)
(* each with the hash of the line before it.  A writer finds the head of   *)
(* the chain when it opens the file and keeps it in memory; it appends the *)
(* bytes of a line and then, in a second write, the end of the line.       *)
(*                                                                         *)
(* An entry stands for its body, and its identity for its hash, which      *)
(* covers the hash before it.  Two writes that end up on one line, and a   *)
(* line cut short, are no JSON.                                            *)
(***************************************************************************)
EXTENDS Integers, Sequences

CONSTANTS
  Writer,       \* processes that may have the log open
  MaxEntries,   \* how many entries are formed
  MaxTears      \* how many writes fail part of the way

VARIABLES
  file,     \* the lines; the last one may lack its end
  ended,    \* whether the last line has its end
  opened,   \* the writers that have the log open
  seq,      \* AuditLog.seq
  prev,     \* AuditLog.prev
  writing,  \* the entry whose line a writer has to end, or none
  formed,   \* entries formed so far
  told,     \* entries whose append returned Ok, in order
  tears,    \* writes that failed part of the way
  cut,      \* whether some line was left without its end
  shared    \* whether two writers ever had the log open

auditVars ==
  <<file, ended, opened, seq, prev, writing, formed, told, tears, cut, shared>>

Genesis == 0
Garbage == [id |-> -1, seq |-> -1, prev |-> -1]
IsEntry(l) == l # Garbage
NoEntry == [id |-> 0, seq |-> 0, prev |-> Genesis]

AuditInit ==
  /\ file = <<>>
  /\ ended = TRUE
  /\ opened = {}
  /\ seq = [w \in Writer |-> 0]
  /\ prev = [w \in Writer |-> Genesis]
  /\ writing = [w \in Writer |-> NoEntry]
  /\ formed = 0
  /\ told = <<>>
  /\ tears = 0
  /\ cut = FALSE
  /\ shared = FALSE

----------------------------------------------------------------------------
(* open: every line is read, the last one gives the head of the chain. *)
Readable == \A i \in DOMAIN file : IsEntry(file[i])
LastEntry == IF file = <<>> THEN NoEntry ELSE file[Len(file)]

(* Mutant: the number of the last entry is taken up again. *)
MutNextSeq == LastEntry.seq
NextSeq == IF file = <<>> THEN 0 ELSE LastEntry.seq + 1

OpenLog(w) ==
  /\ w \notin opened
  /\ Readable
  /\ opened' = opened \cup {w}
  /\ seq' = [seq EXCEPT ![w] = NextSeq]
  /\ prev' = [prev EXCEPT ![w] = LastEntry.id]
  /\ shared' = (shared \/ opened # {})
  /\ UNCHANGED <<file, ended, writing, formed, told, tears, cut>>

(* What one write of bytes makes of the file. *)
Extended(l) == IF ended THEN Append(file, l) ELSE [file EXCEPT ![Len(file)] = Garbage]

Entry(w) == [id |-> formed + 1, seq |-> seq[w], prev |-> prev[w]]
MayAppend(w) == w \in opened /\ writing[w] = NoEntry /\ formed < MaxEntries

(* append: the bytes of the line, *)
WriteLine(w) ==
  /\ MayAppend(w)
  /\ file' = Extended(Entry(w))
  /\ ended' = FALSE
  /\ writing' = [writing EXCEPT ![w] = Entry(w)]
  /\ formed' = formed + 1
  /\ UNCHANGED <<opened, seq, prev, told, tears, cut, shared>>

(* which may stop short of the last one; append returns the error, *)
WriteTears(w) ==
  /\ MayAppend(w)
  /\ tears < MaxTears
  /\ file' = Extended(Garbage)
  /\ ended' = FALSE
  /\ formed' = formed + 1
  /\ tears' = tears + 1
  /\ cut' = TRUE
  /\ UNCHANGED <<opened, seq, prev, writing, told, shared>>

(* Mutant: the head of the chain is not moved on. *)
MutMoved(w) == prev
Moved(w) == [prev EXCEPT ![w] = writing[w].id]

(* and the end of the line, after which the head is moved on. *)
EndLine(w) ==
  /\ writing[w] # NoEntry
  /\ ended' = TRUE
  /\ seq' = [seq EXCEPT ![w] = @ + 1]
  /\ prev' = Moved(w)
  /\ told' = Append(told, writing[w])
  /\ writing' = [writing EXCEPT ![w] = NoEntry]
  /\ UNCHANGED <<file, opened, formed, tears, cut, shared>>

EndFails(w) ==
  /\ writing[w] # NoEntry
  /\ tears < MaxTears
  /\ tears' = tears + 1
  /\ cut' = TRUE
  /\ writing' = [writing EXCEPT ![w] = NoEntry]
  /\ UNCHANGED <<file, ended, opened, seq, prev, formed, told, shared>>

(* The process ends, perhaps between the two writes of a line. *)
CloseLog(w) ==
  /\ w \in opened
  /\ opened' = opened \ {w}
  /\ cut' = (cut \/ writing[w] # NoEntry)
  /\ writing' = [writing EXCEPT ![w] = NoEntry]
  /\ seq' = [seq EXCEPT ![w] = 0]
  /\ prev' = [prev EXCEPT ![w] = Genesis]
  /\ UNCHANGED <<file, ended, formed, told, tears, shared>>

AuditStep(w) == WriteLine(w) \/ WriteTears(w) \/ EndLine(w) \/ EndFails(w)

AuditNext == \E w \in Writer : OpenLog(w) \/ AuditStep(w) \/ CloseLog(w)
AuditSpec == AuditInit /\ [][AuditNext]_auditVars

----------------------------------------------------------------------------
(* verify *)
Verifies ==
  \A i \in DOMAIN file :
    /\ IsEntry(file[i])
    /\ file[i].prev = IF i = 1 THEN Genesis ELSE file[i - 1].id

Kept(e) == \E i \in DOMAIN file : file[i] = e

(* While one process at a time has the log open and no line was cut short, *)
(* every acknowledged entry is in the file, in order, the chain verifies   *)
(* and its entries count without a gap, however often it is reopened       *)
(* (audit.rs:63, 79; audit.rs:131: reopen appends continue the chain).     *)
ChainHolds ==
  ~ shared /\ ~ cut =>
    /\ \A i \in DOMAIN told : Kept(told[i])
    /\ Verifies
    /\ \A i \in DOMAIN file : file[i].seq = i - 1
=============================================================================
