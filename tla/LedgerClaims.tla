---------------------------- MODULE LedgerClaims ----------------------------
(***************************************************************************)
(* The ledger implements Claims: a holding is a claim from the grant to    *)
(* the moment it is retired, whatever happens to its owner, its lease and  *)
(* its cleanup task in between.                                            *)
(***************************************************************************)
EXTENDS Ledger

CONSTANTS Free, Spent

(* The two marks are no claims. *)
ASSUME PhaseAssumption ==
  /\ Free # Spent
  /\ {Free, Spent} \cap [pool : Pool, frag : Frag, parent : Id \cup {NoParent}] = {}

ClaimOfHolding(i) ==
  [pool |-> holdings[i].pool, frag |-> holdings[i].frag, parent |-> holdings[i].parent]

claim ==
  [i \in Id |-> IF i \notin Issued THEN Free
                ELSE IF Occupies(i) THEN ClaimOfHolding(i) ELSE Spent]

Abstract == INSTANCE Claims WITH capacity <- capacities

(* Every behaviour of the ledger is one of Claims: an identity is granted  *)
(* once, under a parent that still occupies and within the pool's          *)
(* capacity, and is given up once, after everything under it.              *)
ImplementsClaims == Abstract!Spec
=============================================================================
