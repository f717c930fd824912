---------------------------- MODULE FiniteFolds ----------------------------
(***************************************************************************)
(* Sums over finite sets, and the largest and the smallest of one.  The    *)
(* library's induction theorems take an operator; what its theorem of the  *)
(* least element of a well-founded set says of a set of counterexamples    *)
(* does as well.                                                           *)
(***************************************************************************)
EXTENDS Integers, FiniteSetTheorems, FiniteSetsExt, TLAPS

(* A property that a set has as soon as it has it without any one of its  *)
(* elements is one of every finite set; P is the set of those that have it. *)
LEMMA FiniteShrinks ==
  ASSUME NEW S, IsFiniteSet(S), NEW P,
         \A T \in SUBSET S : (\A x \in T : T \ {x} \in P) => T \in P
  PROVE  \A T \in SUBSET S : T \in P
<1> DEFINE Bad == {T \in SUBSET S : T \notin P}
<1> SUFFICES ASSUME Bad # {} PROVE FALSE
  OBVIOUS
<1>1. Bad \subseteq FiniteSubsetsOf(S)
  BY FS_Subset DEF FiniteSubsetsOf
<1>2. PICK T \in Bad : \A U \in Bad : <<U, T>> \notin StrictSubsetOrdering(S)
  BY <1>1, FS_StrictSubsetOrderingWellFounded, WFMin
<1>3. ASSUME NEW x \in T PROVE T \ {x} \in P
  <2>1. <<T \ {x}, T>> \in StrictSubsetOrdering(S)
    BY <1>2, <1>3 DEF StrictSubsetOrdering
  <2>2. T \ {x} \in SUBSET S BY <1>2
  <2>3. QED BY <1>2, <2>1, <2>2
<1>4. QED BY <1>2, <1>3

(* A property that the empty set has, and a set with one element more, is  *)
(* one of every finite set.                                                *)
LEMMA FiniteGrows ==
  ASSUME NEW S, IsFiniteSet(S), NEW P, {} \in P,
         \A T \in SUBSET S : \A x \in S \ T : T \in P => T \cup {x} \in P
  PROVE  S \in P
<1>1. ASSUME NEW T \in SUBSET S, \A x \in T : T \ {x} \in P PROVE T \in P
  <2>1. CASE T = {} BY <2>1
  <2>2. ASSUME NEW x \in T PROVE T \in P
    <3>1. T \ {x} \in SUBSET S /\ x \in S \ (T \ {x}) BY <2>2
    <3>2. T = (T \ {x}) \cup {x} BY <2>2
    <3>3. T \ {x} \in P BY <1>1, <2>2
    <3>4. QED BY <3>1, <3>2, <3>3
  <2>3. QED BY <2>1, <2>2
<1>2. \A T \in SUBSET S : (\A x \in T : T \ {x} \in P) => T \in P BY <1>1
<1>3. \A T \in SUBSET S : T \in P BY <1>2, FiniteShrinks, Zenon
<1>4. QED BY <1>3

----------------------------------------------------------------------------
(* A finite set of numbers that is not empty has a largest one.            *)
LEMMA LargestExists ==
  ASSUME NEW S, IsFiniteSet(S), S \subseteq Int, S # {}
  PROVE  Max(S) \in S /\ \A y \in S : Max(S) >= y
<1> DEFINE P == {T \in SUBSET S : T # {} => \E x \in T : \A y \in T : x >= y}
<1>1. ASSUME NEW T \in SUBSET S, \A x \in T : T \ {x} \in P PROVE T \in P
  <2>1. SUFFICES ASSUME NEW x \in T PROVE \E m \in T : \A y \in T : m >= y
    OBVIOUS
  <2>2. CASE T = {x} BY <2>2
  <2>3. CASE T # {x}
    <3>1. PICK m \in T \ {x} : \A y \in T \ {x} : m >= y BY <1>1, <2>3
    <3>2. m \in Int /\ x \in Int /\ T \subseteq Int OBVIOUS
    <3>3. CASE m >= x BY <3>1, <3>3
    <3>4. CASE x >= m
      <4>1. \A y \in T \ {x} : x >= y BY <3>1, <3>2, <3>4
      <4>2. QED BY <3>2, <4>1
    <3>5. QED BY <3>2, <3>3, <3>4
  <2>4. QED BY <2>2, <2>3
<1>2. S \in P
  <2> HIDE DEF P
  <2>1. \A T \in SUBSET S : T \in P BY <1>1, FiniteShrinks
  <2>2. QED BY <2>1
<1>3. \E x \in S : \A y \in S : x >= y BY <1>2
<1>4. QED BY <1>3 DEF Max

(* A finite set of numbers that is not empty has a smallest one.           *)
LEMMA SmallestExists ==
  ASSUME NEW S, IsFiniteSet(S), S \subseteq Int, S # {}
  PROVE  \E x \in S : \A y \in S : x <= y
<1> DEFINE P == {T \in SUBSET S : T # {} => \E x \in T : \A y \in T : x <= y}
<1>1. ASSUME NEW T \in SUBSET S, \A x \in T : T \ {x} \in P PROVE T \in P
  <2>1. SUFFICES ASSUME NEW x \in T PROVE \E m \in T : \A y \in T : m <= y
    OBVIOUS
  <2>2. CASE T = {x} BY <2>2
  <2>3. CASE T # {x}
    <3>1. PICK m \in T \ {x} : \A y \in T \ {x} : m <= y BY <1>1, <2>3
    <3>2. m \in Int /\ x \in Int /\ T \subseteq Int OBVIOUS
    <3>3. CASE m <= x BY <3>1, <3>3
    <3>4. CASE x <= m
      <4>1. \A y \in T \ {x} : x <= y BY <3>1, <3>2, <3>4
      <4>2. QED BY <3>2, <4>1
    <3>5. QED BY <3>2, <3>3, <3>4
  <2>4. QED BY <2>2, <2>3
<1>2. S \in P
  <2> HIDE DEF P
  <2>1. \A T \in SUBSET S : T \in P BY <1>1, FiniteShrinks
  <2>2. QED BY <2>1
<1>3. QED BY <1>2

(* A sequence of positions that climbs is never behind.                    *)
LEMMA Climbs ==
  ASSUME NEW n \in Nat, NEW h, \A i \in 1 .. n : h[i] \in Nat \ {0},
         \A i, j \in 1 .. n : i < j => h[i] < h[j]
  PROVE  \A i \in 1 .. n : i <= h[i]
<1> DEFINE Bad == {i \in 1 .. n : h[i] < i}
<1>1. Bad = {}
  <2> SUFFICES ASSUME Bad # {} PROVE FALSE
    OBVIOUS
  <2>1. IsFiniteSet(Bad) /\ Bad \subseteq Int
    <3>1. IsFiniteSet(1 .. n) BY FS_Interval
    <3>2. Bad \subseteq 1 .. n OBVIOUS
    <3> HIDE DEF Bad
    <3>3. IsFiniteSet(Bad) BY <3>1, <3>2, FS_Subset
    <3>4. QED BY <3>2, <3>3
  <2>2. PICK i \in Bad : \A j \in Bad : i <= j
    <3> HIDE DEF Bad
    <3>1. QED BY <2>1, SmallestExists
  <2>3. i \in 1 .. n /\ h[i] < i /\ h[i] \in Nat \ {0} OBVIOUS
  <2>4. h[i] \in 1 .. n BY <2>3
  <2>5. h[h[i]] < h[i] BY <2>3, <2>4
  <2>6. h[i] \in Bad BY <2>4, <2>5
  <2>7. i <= h[i] BY <2>2, <2>6
  <2>8. QED BY <2>3, <2>7
<1>2. ASSUME NEW i \in 1 .. n PROVE i <= h[i]
  <2>1. ~ h[i] < i BY <1>1
  <2>2. h[i] \in Nat BY <1>2
  <2>3. QED BY <2>1, <2>2
<1>3. QED BY <1>2

----------------------------------------------------------------------------
(* A sum that does not depend on the order of its terms. *)
SumsOf(f, S, h) ==
  /\ h \in [SUBSET S -> Int]
  /\ h[{}] = 0
  /\ \A T \in SUBSET S : \A x \in T : h[T] = f[x] + h[T \ {x}]

(* Of every finite set and function there is such a sum.                   *)
LEMMA SumsExist ==
  ASSUME NEW S, IsFiniteSet(S), NEW f, \A x \in S : f[x] \in Int
  PROVE  \E h : SumsOf(f, S, h)
<1> DEFINE P == {T \in SUBSET S : \E h : SumsOf(f, T, h)}
<1>1. {} \in P
  <2>1. SumsOf(f, {}, [T \in SUBSET {} |-> 0]) BY DEF SumsOf
  <2>2. QED BY <2>1
<1>2. ASSUME NEW T \in SUBSET S, NEW x \in S \ T, T \in P PROVE T \cup {x} \in P
  <2>1. PICK h : SumsOf(f, T, h) BY <1>2
  <2> DEFINE R == T \cup {x}
             g == [U \in SUBSET R |-> IF x \in U THEN f[x] + h[U \ {x}] ELSE h[U]]
  <2>2. \A U \in SUBSET R : /\ U \ {x} \in SUBSET T
                            /\ x \in U => g[U] = f[x] + h[U \ {x}]
                            /\ x \notin U => U \in SUBSET T /\ g[U] = h[U]
    OBVIOUS
  <2>3. g \in [SUBSET R -> Int]
    BY <2>1, <2>2 DEF SumsOf
  <2>4. g[{}] = 0 BY <2>1 DEF SumsOf
  <2>5. ASSUME NEW U \in SUBSET R, NEW y \in U PROVE g[U] = f[y] + g[U \ {y}]
    <3>1. U \ {y} \in SUBSET R OBVIOUS
    <3>2. CASE x \notin U
      BY <2>1, <2>2, <3>1, <3>2 DEF SumsOf
    <3>3. CASE x \in U /\ y = x
      <4>1. x \notin U \ {y} BY <3>3
      <4>2. g[U \ {y}] = h[U \ {y}] BY <2>2, <3>1, <4>1
      <4>3. g[U] = f[x] + h[U \ {x}] BY <2>2, <3>3
      <4>4. QED BY <3>3, <4>2, <4>3
    <3>4. CASE x \in U /\ y # x
      <4>1. g[U] = f[x] + h[U \ {x}] BY <2>2, <3>4
      <4>2. g[U \ {y}] = f[x] + h[(U \ {y}) \ {x}] BY <2>2, <3>1, <3>4
      <4>3. (U \ {y}) \ {x} = (U \ {x}) \ {y} OBVIOUS
      <4>4. y \in U \ {x} /\ U \ {x} \in SUBSET T BY <2>2, <3>4
      <4>5. h[U \ {x}] = f[y] + h[(U \ {x}) \ {y}] BY <2>1, <4>4 DEF SumsOf
      <4>6. /\ f[x] \in Int /\ f[y] \in Int /\ h[(U \ {x}) \ {y}] \in Int
        BY <1>2, <2>1, <2>2, <4>4 DEF SumsOf
      <4> DEFINE a == f[x]
                 b == f[y]
                 c == h[(U \ {x}) \ {y}]
      <4>7. g[U] = a + (b + c) BY <4>1, <4>5
      <4>8. g[U \ {y}] = a + c BY <4>2, <4>3
      <4>9. a \in Int /\ b \in Int /\ c \in Int BY <4>6, <4>3
      <4>10. f[y] = b OBVIOUS
      <4> HIDE DEF a, b, c, g
      <4>11. a + (b + c) = b + (a + c) BY <4>9
      <4>12. QED BY <4>7, <4>8, <4>10, <4>11
    <3>5. QED BY <3>2, <3>3, <3>4
  <2>6. SumsOf(f, R, g)
    <3> HIDE DEF g
    <3>1. QED BY <2>3, <2>4, <2>5 DEF SumsOf
  <2>7. R \in SUBSET S BY <1>2
  <2>8. QED BY <2>6, <2>7
<1>3. S \in P
  <2> HIDE DEF P
  <2>1. QED BY <1>1, <1>2, FiniteGrows
<1>4. QED BY <1>3

(* The sum of the library is that sum. *)
LEMMA SumIsSum ==
  ASSUME NEW S, IsFiniteSet(S), NEW f, NEW h, SumsOf(f, S, h), \A x \in S : f[x] \in Int
  PROVE  SumFunctionOnSet(f, S) = h[S]
<1> DEFINE pick(s) == CHOOSE x \in s : TRUE
           Def(g) == g = [s \in SUBSET S |-> IF s = {} THEN 0
                                             ELSE f[pick(s)] + g[s \ {pick(s)}]]
           sum == CHOOSE g : Def(g)
<1>1. SumFunctionOnSet(f, S) = sum[S]
  BY DEF SumFunctionOnSet, FoldFunctionOnSet, MapThenFoldSet
<1> DEFINE P == {T \in SUBSET S : sum[T] = h[T]}
<1>2. Def(h)
  <2>1. ASSUME NEW s \in SUBSET S
        PROVE  h[s] = IF s = {} THEN 0 ELSE f[pick(s)] + h[s \ {pick(s)}]
    <3>1. s # {} => pick(s) \in s OBVIOUS
    <3> HIDE DEF pick
    <3>2. QED BY <3>1 DEF SumsOf
  <2>2. h = [s \in SUBSET S |-> h[s]] BY DEF SumsOf
  <2>3. QED BY <2>1, <2>2, Zenon
<1>3. Def(sum)
  <2> HIDE DEF Def
  <2>1. QED BY <1>2
<1>4. ASSUME NEW T \in SUBSET S, \A x \in T : T \ {x} \in P PROVE T \in P
  <2>1. T # {} => pick(T) \in T OBVIOUS
  <2> HIDE DEF sum, pick
  <2>2. sum[T] = IF T = {} THEN 0 ELSE f[pick(T)] + sum[T \ {pick(T)}] BY <1>3
  <2>3. CASE T = {} BY <2>2, <2>3 DEF SumsOf
  <2>4. CASE T # {}
    <3>1. h[T] = f[pick(T)] + h[T \ {pick(T)}] BY <2>1, <2>4 DEF SumsOf
    <3>2. sum[T \ {pick(T)}] = h[T \ {pick(T)}] BY <1>4, <2>1, <2>4
    <3>3. QED BY <2>2, <2>4, <3>1, <3>2
  <2>5. QED BY <2>3, <2>4
<1>5. \A T \in SUBSET S : T \in P
  <2> HIDE DEF P
  <2>1. QED BY <1>4, FiniteShrinks
<1>6. QED BY <1>1, <1>5

(* One of the terms taken out of a sum. *)
LEMMA SumTerm ==
  ASSUME NEW S, IsFiniteSet(S), NEW f, \A x \in S : f[x] \in Int
  PROVE  /\ SumFunctionOnSet(f, S) \in Int
         /\ \A x \in S : /\ SumFunctionOnSet(f, S \ {x}) \in Int
                         /\ SumFunctionOnSet(f, S) = f[x] + SumFunctionOnSet(f, S \ {x})
<1>1. PICK h : SumsOf(f, S, h) BY SumsExist
<1>2. SumFunctionOnSet(f, S) = h[S] BY <1>1, SumIsSum
<1>3. ASSUME NEW x \in S
      PROVE  SumFunctionOnSet(f, S \ {x}) = h[S \ {x}]
  <2> DEFINE T == S \ {x}
             g == [U \in SUBSET T |-> h[U]]
  <2>1. \A U \in SUBSET T : U \in SUBSET S /\ g[U] = h[U] OBVIOUS
  <2>2. SumsOf(f, T, g)
    <3>1. g \in [SUBSET T -> Int] BY <1>1, <2>1 DEF SumsOf
    <3>2. g[{}] = 0 BY <1>1, <2>1 DEF SumsOf
    <3>3. ASSUME NEW U \in SUBSET T, NEW y \in U PROVE g[U] = f[y] + g[U \ {y}]
      <4>1. U \in SUBSET S /\ U \ {y} \in SUBSET T OBVIOUS
      <4>2. h[U] = f[y] + h[U \ {y}] BY <1>1, <4>1 DEF SumsOf
      <4>3. QED BY <2>1, <4>1, <4>2
    <3> HIDE DEF g
    <3>4. QED BY <3>1, <3>2, <3>3 DEF SumsOf
  <2>3. IsFiniteSet(T) BY FS_RemoveElement
  <2>4. \A y \in T : f[y] \in Int OBVIOUS
  <2>5. g[T] = h[T] OBVIOUS
  <2> HIDE DEF T, g
  <2>6. SumFunctionOnSet(f, T) = h[T] BY <2>2, <2>3, <2>4, <2>5, SumIsSum
  <2>7. QED BY <2>6 DEF T
<1>4. h \in [SUBSET S -> Int] /\ \A x \in S : h[S] = f[x] + h[S \ {x}]
  BY <1>1 DEF SumsOf
<1>5. QED BY <1>2, <1>3, <1>4

(* A sum of no terms. *)
LEMMA SumNothing ==
  ASSUME NEW f
  PROVE  SumFunctionOnSet(f, {}) = 0
<1>1. SumsOf(f, {}, [T \in SUBSET {} |-> 0]) BY DEF SumsOf
<1>2. QED BY <1>1, FS_EmptySet, SumIsSum

(* Equal terms, equal sums. *)
LEMMA SumAgrees ==
  ASSUME NEW S, IsFiniteSet(S), NEW f, NEW g,
         \A x \in S : f[x] \in Int /\ g[x] = f[x]
  PROVE  SumFunctionOnSet(g, S) = SumFunctionOnSet(f, S)
<1>1. PICK h : SumsOf(f, S, h) BY SumsExist
<1>2. SumsOf(g, S, h)
  <2>1. \A T \in SUBSET S : \A x \in T : f[x] = g[x] OBVIOUS
  <2>2. QED BY <1>1, <2>1 DEF SumsOf
<1>3. QED BY <1>1, <1>2, SumIsSum

(* A sum when one of its terms changes. *)
LEMMA SumChanges ==
  ASSUME NEW S, IsFiniteSet(S), NEW f, NEW g, NEW x \in S,
         \A y \in S : f[y] \in Int /\ g[y] \in Int,
         \A y \in S \ {x} : g[y] = f[y]
  PROVE  SumFunctionOnSet(g, S) = SumFunctionOnSet(f, S) + (g[x] - f[x])
<1> DEFINE T == S \ {x}
           r == SumFunctionOnSet(f, T)
<1>1. IsFiniteSet(T) BY FS_RemoveElement
<1>2. \A y \in T : f[y] \in Int /\ g[y] = f[y] OBVIOUS
<1>3. SumFunctionOnSet(g, T) = r
  <2> HIDE DEF T
  <2>1. QED BY <1>1, <1>2, SumAgrees
<1>4. SumFunctionOnSet(f, S) = f[x] + r /\ r \in Int BY SumTerm
<1>5. SumFunctionOnSet(g, S) = g[x] + r BY <1>3, SumTerm
<1>6. f[x] \in Int /\ g[x] \in Int OBVIOUS
<1> HIDE DEF r
<1>7. QED BY <1>4, <1>5, <1>6

(* A sum of natural numbers bounds each of them, is above 0 only if one    *)
(* is, and grows with the set.                                             *)
LEMMA SumOfNaturals ==
  ASSUME NEW S, IsFiniteSet(S), NEW f, \A x \in S : f[x] \in Nat
  PROVE  /\ SumFunctionOnSet(f, S) \in Nat
         /\ \A x \in S : f[x] <= SumFunctionOnSet(f, S)
         /\ (\A x \in S : f[x] = 0) => SumFunctionOnSet(f, S) = 0
<1> DEFINE s(T) == SumFunctionOnSet(f, T)
           P == {T \in SUBSET S : s(T) \in Nat /\ ((\A x \in T : f[x] = 0) => s(T) = 0)}
<1>1. ASSUME NEW T \in SUBSET S, \A x \in T : T \ {x} \in P PROVE T \in P
  <2>1. CASE T = {}
    BY <2>1, SumNothing
  <2>2. ASSUME NEW x \in T PROVE T \in P
    <3>1. IsFiniteSet(T) BY FS_Subset
    <3>2. s(T) = f[x] + s(T \ {x}) BY <2>2, <3>1, SumTerm
    <3>3. T \ {x} \in P BY <1>1, <2>2
    <3>4. f[x] \in Nat /\ s(T \ {x}) \in Nat BY <2>2, <3>3
    <3>5. (\A y \in T : f[y] = 0) => f[x] = 0 /\ s(T \ {x}) = 0 BY <2>2, <3>3
    <3> HIDE DEF s
    <3>6. QED BY <3>2, <3>4, <3>5
  <2>3. QED BY <2>1, <2>2
<1>2. \A T \in SUBSET S : T \in P
  <2> HIDE DEF P
  <2>1. QED BY <1>1, FiniteShrinks
<1>3. \A x \in S : s(S \ {x}) \in Nat BY <1>2
<1>4. ASSUME NEW x \in S PROVE f[x] <= s(S)
  <2>1. s(S) = f[x] + s(S \ {x}) BY SumTerm
  <2>2. f[x] \in Nat /\ s(S \ {x}) \in Nat BY <1>3
  <2> HIDE DEF s
  <2>3. QED BY <2>1, <2>2
<1>5. QED BY <1>2, <1>4

(* Fewer terms, none of them negative, do not add up to more. *)
LEMMA SumGrows ==
  ASSUME NEW S, IsFiniteSet(S), NEW f, \A x \in S : f[x] \in Nat, NEW T \in SUBSET S
  PROVE  SumFunctionOnSet(f, T) <= SumFunctionOnSet(f, S)
<1> DEFINE s(U) == SumFunctionOnSet(f, U)
           P == {U \in SUBSET S : T \subseteq U => s(T) <= s(U)}
<1>1. ASSUME NEW U \in SUBSET S, \A x \in U : U \ {x} \in P PROVE U \in P
  <2>1. IsFiniteSet(T) /\ IsFiniteSet(U) BY FS_Subset
  <2>2. s(T) \in Nat /\ s(U) \in Nat BY <2>1, SumOfNaturals
  <2>3. CASE ~ T \subseteq U BY <2>3
  <2>4. CASE T = U
    <3> HIDE DEF s
    <3>1. QED BY <2>2, <2>4
  <2>5. CASE T \subseteq U /\ T # U
    <3>1. PICK x \in U : x \notin T BY <2>5
    <3>2. T \subseteq U \ {x} BY <2>5, <3>1
    <3>3. s(T) <= s(U \ {x}) BY <1>1, <3>1, <3>2
    <3>4. s(U) = f[x] + s(U \ {x}) /\ s(U \ {x}) \in Int /\ f[x] \in Nat
      BY <2>1, <3>1, SumTerm
    <3> HIDE DEF s
    <3>5. s(T) <= s(U) BY <2>2, <3>3, <3>4
    <3>6. QED BY <3>5
  <2>6. QED BY <2>3, <2>4, <2>5
<1>2. \A U \in SUBSET S : U \in P
  <2> HIDE DEF P
  <2>1. QED BY <1>1, FiniteShrinks
<1>3. QED BY <1>2
=============================================================================
