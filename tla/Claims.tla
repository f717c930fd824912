------------------------------- MODULE Claims -------------------------------
(***************************************************************************)
(* What a resource ledger promises to everyone who holds something of it,  *)
(* with nothing said about owners, leases, cleanup tasks or time.          *)
(*                                                                         *)
(* A claim is a fragment of one pool, granted under an identity that is    *)
(* used once.  Claims form a forest: a claim is taken under a claim that   *)
(* is held and is given up only when nothing is held under it.  At every   *)
(* moment the claims held of a pool compose to something its capacity      *)
(* admits.  Ledger implements this specification.                          *)
(***************************************************************************)
EXTENDS Integers

CONSTANTS
  Id,                \* identities, each issued once
  Pool,              \* (class, instance) keys
  Frag,              \* resource fragments of every algebra
  Zero,              \* the empty capacity of a counted pool
  NoPool,            \* the capacity of a pool that was never created
  NoParent,          \* the parent of a root claim
  Free, Spent,       \* an identity before and after its claim
  Admits(_, _)       \* Admits(c, f): the family f of fragments fits capacity c

Claim == [pool : Pool, frag : Frag, parent : Id \cup {NoParent}]

VARIABLES
  claim,             \* what each identity holds now
  capacity           \* of each pool

vars == <<claim, capacity>>

Held == {i \in Id : claim[i] \notin {Free, Spent}}
HeldOf(p) == {i \in Held : claim[i].pool = p}
Family(p) == [i \in HeldOf(p) |-> claim[i].frag]

Init ==
  /\ claim = [i \in Id |-> Free]
  /\ capacity = [p \in Pool |-> NoPool]

(* A fresh identity takes a claim under a held parent, if the pool fits it. *)
Take(i, c) ==
  /\ claim[i] = Free
  /\ c.parent # NoParent => c.parent \in Held
  /\ capacity[c.pool] # NoPool
  /\ Admits(capacity[c.pool],
            [j \in HeldOf(c.pool) \cup {i} |->
               IF j = i THEN c.frag ELSE claim[j].frag])
  /\ claim' = [claim EXCEPT ![i] = c]
  /\ UNCHANGED capacity

(* Nothing held outside S hangs under a member of S. *)
Removable(S) ==
  /\ S \subseteq Held
  /\ \A j \in Held \ S : claim[j].parent \notin S

Dropped(S) == [i \in Id |-> IF i \in S THEN Spent ELSE claim[i]]

Drop(S) ==
  /\ Removable(S)
  /\ claim' = Dropped(S)
  /\ UNCHANGED capacity

SetCapacity(p, c) ==
  /\ Admits(c, Family(p))
  /\ capacity' = [capacity EXCEPT ![p] = c]
  /\ UNCHANGED claim

(* The whole account is given up and its pool closed, in one step. *)
Settle(p) ==
  /\ capacity[p] # NoPool
  /\ Removable(HeldOf(p))
  /\ claim' = Dropped(HeldOf(p))
  /\ capacity' = [capacity EXCEPT ![p] = Zero]

Next ==
  \/ \E i \in Id, c \in Claim : Take(i, c)
  \/ \E S \in SUBSET Held : Drop(S)
  \/ \E p \in Pool : Settle(p) \/ \E c \in Frag : SetCapacity(p, c)

Spec == Init /\ [][Next]_vars
=============================================================================
