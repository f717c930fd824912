------------------------------- MODULE MCCaps -------------------------------
(***************************************************************************)
(* Three capabilities of one subject and two threads.  A capability is for *)
(* one exercise within the first second, or for any number for ever.       *)
(***************************************************************************)
EXTENDS Caps, TLC

CONSTANTS c1, c2, c3, t1, t2

MCConstraint ==
  {[budget |-> 1, until |-> 0], [budget |-> Unlimited, until |-> Never]}

Symmetry == Permutations({c1, c2, c3}) \cup Permutations({t1, t2})
=============================================================================
