--------------------------- MODULE ResourceAlgebra ---------------------------
(***************************************************************************)
(* The five resource algebras of portos-rm and the capacity predicate the  *)
(* ledger grants by.  A fragment is a pair <<algebra, value>>:             *)
(*   exclusive  "token", or "bot" once two claims met                      *)
(*   counted    a number of width MaxCount, or -1 once a sum overflowed    *)
(*   set        a set of names                                             *)
(*   range      the sorted disjoint spans, or RangeBot once two overlapped *)
(*   frac       a number of shares, MaxFrac of them the whole; 0 is invalid*)
(* Rationals are exact in the code; shares of one common denominator are   *)
(* exact too.                                                              *)
(***************************************************************************)
EXTENDS Integers, Sequences, SequencesExt

CONSTANTS
  MaxCount,    \* u64::MAX
  MaxFrac      \* the shares that make 1/1

None == <<>>                      \* Option::None; Some(f) is f itself
RangeBot == <<<<0, 0>>>>          \* an empty span, which no valid range holds
Mismatch == <<"mismatch", 0>>     \* compose_frags' Err(AlgebraMismatch)

----------------------------------------------------------------------------
(* Mutant: the sum wraps around at the width of the counter. *)
MutCountOp(a, b) == (a + b) % (MaxCount + 1)
CountOp(a, b) == IF a = -1 \/ b = -1 \/ a + b > MaxCount THEN -1 ELSE a + b
CountIncluded(a, b) == b = -1 \/ (a # -1 /\ a <= b)

FracOp(a, b) == IF a = 0 \/ b = 0 \/ a + b > MaxFrac THEN 0 ELSE a + b
(* Mutant: any share is a part of any other. *)
MutFracIncluded(a, b) == a # 0 \/ b = 0
FracIncluded(a, b) == b = 0 \/ (a # 0 /\ a < b)

(* Ranges::normalize: sort, refuse an overlap, merge a span that begins    *)
(* where the last one ends.                                                *)
Before(x, y) == x[1] < y[1] \/ (x[1] = y[1] /\ x[2] < y[2])

(* Vec::sort_unstable: p[i] is the position of the span that becomes the i-th. *)
Sorts(spans, p) ==
  \A i, j \in DOMAIN spans :
    i < j => p[i] # p[j] /\ ~ Before(spans[p[j]], spans[p[i]])
Sorted(spans) ==
  LET D == DOMAIN spans
      order == CHOOSE p \in [D -> D] : Sorts(spans, p)
  IN [i \in D |-> spans[order[i]]]

(* Mutants: touching spans are kept apart; touching spans are an overlap. *)
MutAddSpan(out, s) ==
  IF out = RangeBot \/ (out # <<>> /\ s[1] < Last(out)[2]) THEN RangeBot ELSE Append(out, s)
MutTouching(out, s) ==
  IF out = RangeBot \/ (out # <<>> /\ s[1] <= Last(out)[2]) THEN RangeBot ELSE Append(out, s)

AddSpan(out, s) ==
  IF out = RangeBot \/ (out # <<>> /\ s[1] < Last(out)[2]) THEN RangeBot
  ELSE IF out # <<>> /\ s[1] = Last(out)[2]
    THEN [out EXCEPT ![Len(out)][2] = s[2]]
    ELSE Append(out, s)

(* Mutant: the spans are folded in the order they came. *)
MutNormalize(spans) == FoldLeft(AddSpan, <<>>, spans)
Normalize(spans) == FoldLeft(AddSpan, <<>>, Sorted(spans))

RangeOp(a, b) ==
  IF RangeBot \in {a, b} THEN RangeBot ELSE Normalize(a \o b)

(* Mutant: a span has to begin where the span that covers it begins. *)
MutCoveredBy(a, b) ==
  \A i \in DOMAIN a : \E j \in DOMAIN b : b[j][1] = a[i][1] /\ a[i][2] <= b[j][2]
CoveredBy(a, b) ==
  \A i \in DOMAIN a : \E j \in DOMAIN b : b[j][1] <= a[i][1] /\ a[i][2] <= b[j][2]
RangeIncluded(a, b) == b = RangeBot \/ (a # RangeBot /\ CoveredBy(a, b))

(* Ranges::try_of refuses an empty or reversed span and an overlap. *)
RangeOf(spans) ==
  IF \E i \in DOMAIN spans : spans[i][1] >= spans[i][2] THEN RangeBot
  ELSE Normalize(spans)

----------------------------------------------------------------------------
(* Ra::op, valid, pcore and included_in, by algebra. *)
Op(x, y) ==
  IF x[1] # y[1] \/ Mismatch \in {x, y} THEN Mismatch
  ELSE <<x[1], CASE x[1] = "exclusive" -> "bot"
                 [] x[1] = "counted" -> CountOp(x[2], y[2])
                 [] x[1] = "set" -> x[2] \cup y[2]
                 [] x[1] = "range" -> RangeOp(x[2], y[2])
                 [] x[1] = "frac" -> FracOp(x[2], y[2])>>

Valid(x) ==
  CASE x[1] = "exclusive" -> x[2] = "token"
    [] x[1] = "counted" -> x[2] # -1
    [] x[1] = "set" -> TRUE
    [] x[1] = "range" -> x[2] # RangeBot
    [] x[1] = "frac" -> x[2] # 0
    [] OTHER -> FALSE

(* Mutant: a counted fragment is its own core. *)
MutPCore(x) == IF x[1] \in {"exclusive", "frac"} THEN None ELSE x
PCore(x) ==
  CASE x[1] = "exclusive" -> IF Valid(x) THEN None ELSE x
    [] x[1] = "counted" -> <<"counted", 0>>
    [] x[1] = "set" -> x
    [] x[1] = "range" -> <<"range", <<>>>>
    [] x[1] = "frac" -> IF Valid(x) THEN None ELSE x

IncludedIn(x, y) ==
  /\ x[1] = y[1]
  /\ CASE x[1] = "exclusive" -> y[2] = "bot"
       [] x[1] = "counted" -> CountIncluded(x[2], y[2])
       [] x[1] = "set" -> x[2] \subseteq y[2]
       [] x[1] = "range" -> RangeIncluded(x[2], y[2])
       [] x[1] = "frac" -> FracIncluded(x[2], y[2])

(* The unit Option<A> adds. *)
OptionOp(x, y) == IF x = None THEN y ELSE IF y = None THEN x ELSE Op(x, y)
OptionIncludedIn(x, y) ==
  x # None => y # None /\ (x = y \/ IncludedIn(x, y))

(* compose_frags and frag_auth_valid over a family of live fragments. *)
Compose(family) == FoldFunction(OptionOp, None, family)

FragAuthValid(capacity, outstanding) ==
  /\ Valid(capacity)
  /\ outstanding # None => Valid(outstanding)
  /\ OptionIncludedIn(outstanding, capacity)

AuthValid(capacity, family) == FragAuthValid(capacity, Compose(family))

(* can_mint: the whole new composition has to fit. *)
CanMint(capacity, live, want) == FragAuthValid(capacity, Compose(Append(live, want)))
=============================================================================
