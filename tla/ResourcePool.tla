---------------------------- MODULE ResourcePool ----------------------------
(***************************************************************************)
(* One pool under the capacity predicate, in any of the five algebras:     *)
(* what the gate admits, compared with what the resource itself allows.    *)
(* The ledger keeps its live fragments in the order of their identities,   *)
(* so the family is a sequence here and any member can leave it.           *)
(***************************************************************************)
EXTENDS ResourceAlgebra, FiniteSets, FiniteSetsExt

CONSTANTS
  Capacity,    \* the valid capacities a pool is created with
  Claim,       \* the claims that arrive, of any algebra
  Point,       \* what spans are spans of
  MaxLive      \* how many claims are outstanding at once

(* What Capacity::new and Claim::new let through: a valid fragment, and of *)
(* a range what Ranges::try_of returns, spans that are not empty, in order *)
(* and with a gap between one and the next.                                *)
InOrder(r) ==
  /\ r \in Seq(Int \X Int)
  /\ \A i \in DOMAIN r : r[i][1] < r[i][2]
  /\ \A i, j \in DOMAIN r : i < j => r[i][2] < r[j][1]

Fragment(f) ==
  /\ f = <<f[1], f[2]>>
  /\ \/ f[1] = "exclusive" /\ f[2] = "token"
     \/ f[1] = "counted" /\ f[2] \in 0 .. MaxCount
     \/ f[1] = "set"
     \/ f[1] = "range" /\ InOrder(f[2])
     \/ f[1] = "frac" /\ f[2] \in 1 .. MaxFrac

PointsOf(f) == {x \in Point : \E i \in DOMAIN f[2] : f[2][i][1] <= x /\ x < f[2][i][2]}

ASSUME FragmentAssumption ==
  /\ MaxCount \in Nat /\ MaxFrac \in Nat \ {0} /\ MaxLive \in Nat /\ Point \subseteq Int
  /\ \A f \in Claim \cup Capacity :
       /\ Fragment(f)
       /\ f[1] = "range" => \A i \in DOMAIN f[2] : f[2][i][1] .. f[2][i][2] - 1 \subseteq Point

(* Any amount, any share and any points may be claimed.                    *)
ASSUME AnyClaim ==
  /\ \A n \in 0 .. MaxCount : <<"counted", n>> \in Claim
  /\ \A n \in 1 .. MaxFrac : <<"frac", n>> \in Claim
  /\ \A X \in SUBSET Point : \E f \in Claim : f[1] = "range" /\ PointsOf(f) = X

VARIABLES
  cap,         \* the capacity of the pool
  live         \* the fragments outstanding, in the order of their rows

vars == <<cap, live>>

Init == cap \in Capacity /\ live = <<>>

Mint(f) ==
  /\ Len(live) < MaxLive
  /\ CanMint(cap, live, f)
  /\ live' = Append(live, f)
  /\ UNCHANGED cap

Drop(k) ==
  /\ live' = RemoveAt(live, k)
  /\ UNCHANGED cap

Resize(c) ==
  /\ AuthValid(c, live)
  /\ cap' = c
  /\ UNCHANGED live

Next ==
  \/ \E f \in Claim : Mint(f)
  \/ \E k \in DOMAIN live : Drop(k)
  \/ \E c \in Capacity : Resize(c)

Spec == Init /\ [][Next]_vars

----------------------------------------------------------------------------
(* What each kind of resource allows, said without fragments: one holder   *)
(* of a token, a sum within the counter, names within the set, points that *)
(* nobody shares, shares that make no more than the whole.                 *)
Amount(fs) == SumFunction([i \in DOMAIN fs |-> fs[i][2]])
Disjoint(fs) ==
  \A i, j \in DOMAIN fs : i # j => PointsOf(fs[i]) \cap PointsOf(fs[j]) = {}

Allowed(c, fs) ==
  /\ \A i \in DOMAIN fs : fs[i][1] = c[1]
  /\ c[1] = "exclusive" => Len(fs) <= 1
  /\ c[1] \in {"counted", "frac"} => Amount(fs) <= c[2]
  /\ c[1] = "set" => \A i \in DOMAIN fs : fs[i][2] \subseteq c[2]
  /\ c[1] = "range" =>
       Disjoint(fs) /\ \A i \in DOMAIN fs : PointsOf(fs[i]) \subseteq PointsOf(c)

(* What is outstanding is one valid fragment in normal form: its spans are *)
(* in order, and no two of them touch.                                     *)
NormalForm ==
  \A out \in {Compose(live)} \ {None} :
    /\ out[1] = cap[1] /\ Valid(out)
    /\ out[1] = "range" => \A i \in 1 .. Len(out[2]) - 1 : out[2][i][2] < out[2][i + 1][1]

(* The gate is exact.  Nothing is ever outstanding that the resource       *)
(* itself does not allow (no sum wraps around, no two claims hold one      *)
(* point or one token), and nothing the resource allows is refused,        *)
(* whatever the order of the claims and however their spans touch.         *)
GateIsExact ==
  /\ Allowed(cap, live)
  /\ \A f \in Claim : Allowed(cap, Append(live, f)) => CanMint(cap, live, f)

(* The composition does not depend on the order the claims came in, so the *)
(* ledger may fold its rows in the order of their identities.              *)
OrderDoesNotMatter ==
  \A i \in 1 .. Len(live) - 1 :
    Compose(live) = Compose([live EXCEPT ![i] = live[i + 1], ![i + 1] = live[i]])

(* A release never makes the rest inadmissible: what the ledger relies on  *)
(* when it lets one row go without looking at its pool again.              *)
PartsStayAdmissible ==
  \A T \in SUBSET DOMAIN live : AuthValid(cap, [i \in T |-> live[i]])

(* included_in is the extension order of op: the outstanding part is in a  *)
(* capacity exactly when there is a remainder that completes it.           *)
RemainderExists ==
  \A c \in {c \in Claim : c[1] = cap[1]} :
    OptionIncludedIn(Compose(live), c) <=>
      \E rest \in Claim \cup {None} : OptionOp(Compose(live), rest) = c

(* The core is what of a fragment can be shared freely: adding it changes  *)
(* nothing, and more fragment has more core.                               *)
CoreIsShared ==
  \A out \in {Compose(live)} \ {None} :
    /\ PCore(out) # None => Op(PCore(out), out) = out /\ PCore(PCore(out)) = PCore(out)
    /\ \A i \in DOMAIN live : PCore(live[i]) # None =>
         PCore(out) # None /\ OptionIncludedIn(PCore(live[i]), PCore(out))

(* The laws of a resource algebra that the ledger is built on hold for     *)
(* whatever a pool has handed out: it composes to one normal form in any   *)
(* order, any part of it is admissible, inclusion means a remainder, and   *)
(* cores are duplicable and grow.                                          *)
FragmentLaws ==
  /\ NormalForm /\ OrderDoesNotMatter /\ PartsStayAdmissible
  /\ RemainderExists /\ CoreIsShared
=============================================================================
