------------------------- MODULE ResourcePoolProofs -------------------------
(***************************************************************************)
(* The gate of the resource algebras admits exactly what the resource      *)
(* allows, for every width of the counter, every family of claims and any  *)
(* order of them.  First what sorting and normalising make of the spans of *)
(* a range, then what composing makes of a family, then what the gate says *)
(* of it, then the pool.                                                   *)
(***************************************************************************)
EXTENDS ResourcePool, FiniteFolds

----------------------------------------------------------------------------
(* The folds of the algebras, one step at a time.                          *)
Step(kind, x, v) ==
  IF kind = "span" THEN AddSpan(v, x) ELSE OptionOp(x, v)

IsFold(kind, base, f, pick, S, g) ==
  g = [s \in SUBSET S |-> IF s = {} THEN base ELSE Step(kind, f[pick[s]], g[s \ {pick[s]}])]

(* What a fold makes of a set does not depend on the set around it.        *)
LEMMA FoldsAgree ==
  ASSUME NEW kind, NEW base, NEW f, NEW pick, NEW S, NEW T, IsFiniteSet(T),
         \A s \in SUBSET S : s # {} => pick[s] \in s,
         T \subseteq S, NEW g, NEW h,
         IsFold(kind, base, f, pick, S, g), IsFold(kind, base, f, pick, T, h)
  PROVE  \A U \in SUBSET T : g[U] = h[U]
<1> DEFINE P == {U \in SUBSET T : g[U] = h[U]}
<1>1. ASSUME NEW U \in SUBSET T, \A x \in U : U \ {x} \in P PROVE U \in P
  <2>1. /\ g[U] = IF U = {} THEN base ELSE Step(kind, f[pick[U]], g[U \ {pick[U]}])
        /\ h[U] = IF U = {} THEN base ELSE Step(kind, f[pick[U]], h[U \ {pick[U]}])
    BY DEF IsFold
  <2>2. U # {} => g[U \ {pick[U]}] = h[U \ {pick[U]}] BY <1>1
  <2>3. QED BY <2>1, <2>2
<1>2. \A U \in SUBSET T : U \in P
  <2> HIDE DEF P
  <2>1. QED BY <1>1, FiniteShrinks
<1>3. QED BY <1>2

(* There is one.                                                           *)
LEMMA FoldExists ==
  ASSUME NEW kind, NEW base, NEW f, NEW pick, NEW S, IsFiniteSet(S),
         \A s \in SUBSET S : s # {} => pick[s] \in s
  PROVE  \E g : IsFold(kind, base, f, pick, S, g)
<1> DEFINE F(T, g) == IsFold(kind, base, f, pick, T, g)
           P == {T \in SUBSET S : \E g : F(T, g)}
           V(U) == (CHOOSE g : F(U, g))[U]
<1>1. ASSUME NEW T \in SUBSET S, \A x \in T : T \ {x} \in P PROVE T \in P
  <2>1. ASSUME NEW U \in SUBSET T, U # T
        PROVE  /\ V(U) = IF U = {} THEN base ELSE Step(kind, f[pick[U]], V(U \ {pick[U]}))
    <3>1. PICK x \in T : x \notin U BY <2>1
    <3>2. PICK g : F(T \ {x}, g) BY <1>1, <3>1
    <3>3. ASSUME NEW W \in SUBSET U PROVE V(W) = g[W]
      <4>1. W \in SUBSET (T \ {x}) /\ W \in SUBSET S /\ IsFiniteSet(W)
        BY <3>1, FS_Subset
      <4> DEFINE h == [s \in SUBSET W |-> g[s]]
      <4>2. F(W, h)
        <5>1. ASSUME NEW s \in SUBSET W
              PROVE  h[s] = IF s = {} THEN base ELSE Step(kind, f[pick[s]], h[s \ {pick[s]}])
          <6>1. s \in SUBSET (T \ {x}) /\ s \ {pick[s]} \in SUBSET W BY <4>1
          <6>2. g[s] = IF s = {} THEN base ELSE Step(kind, f[pick[s]], g[s \ {pick[s]}])
            BY <3>2, <6>1 DEF IsFold
          <6>3. QED BY <6>1, <6>2
        <5>2. h = [s \in SUBSET W |-> h[s]] OBVIOUS
        <5> HIDE DEF h
        <5>3. QED BY <5>1, <5>2, Zenon DEF IsFold
      <4> DEFINE c == CHOOSE e : F(W, e)
      <4>3. F(W, c)
        <5> HIDE DEF F, h
        <5>1. QED BY <4>2
      <4>4. \A s \in SUBSET (T \ {x}) : s # {} => pick[s] \in s OBVIOUS
      <4>5. g[W] = c[W]
        <5>1. IsFold(kind, base, f, pick, T \ {x}, g) BY <3>2
        <5>2. IsFold(kind, base, f, pick, W, c) BY <4>3
        <5> DEFINE R == T \ {x}
        <5>3. W \subseteq R /\ IsFiniteSet(W) /\ W \in SUBSET W BY <4>1
        <5>4. IsFold(kind, base, f, pick, R, g) /\ \A s \in SUBSET R : s # {} => pick[s] \in s
          BY <5>1, <4>4
        <5> HIDE DEF c, h, R
        <5>5. \A X \in SUBSET W : g[X] = c[X] BY <5>2, <5>3, <5>4, FoldsAgree
        <5>6. QED BY <5>3, <5>5
      <4>6. QED BY <4>5
    <3>4. U \ {pick[U]} \in SUBSET U /\ U \in SUBSET (T \ {x}) BY <3>1
    <3>5. g[U] = IF U = {} THEN base ELSE Step(kind, f[pick[U]], g[U \ {pick[U]}])
      BY <3>2, <3>4 DEF IsFold
    <3>6. V(U) = g[U] /\ V(U \ {pick[U]}) = g[U \ {pick[U]}] BY <3>3, <3>4
    <3> HIDE DEF V
    <3>7. QED BY <3>5, <3>6
  <2> DEFINE last == IF T = {} THEN base ELSE Step(kind, f[pick[T]], V(T \ {pick[T]}))
             G == [U \in SUBSET T |-> IF U = T THEN last ELSE V(U)]
  <2>2. ASSUME NEW U \in SUBSET T
        PROVE  G[U] = IF U = {} THEN base ELSE Step(kind, f[pick[U]], G[U \ {pick[U]}])
    <3>1. U # {} => U \ {pick[U]} # T /\ U \ {pick[U]} \in SUBSET T OBVIOUS
    <3> HIDE DEF V
    <3>2. U # {} => G[U \ {pick[U]}] = V(U \ {pick[U]}) BY <3>1
    <3>3. U = T => G[U] = last OBVIOUS
    <3>4. U # T => G[U] = V(U) OBVIOUS
    <3>5. U # T => G[U] = IF U = {} THEN base ELSE Step(kind, f[pick[U]], V(U \ {pick[U]}))
      BY <2>1, <3>4
    <3>6. U = T => G[U] = IF U = {} THEN base ELSE Step(kind, f[pick[U]], V(U \ {pick[U]}))
      BY <3>3
    <3> HIDE DEF G, last
    <3>7. QED BY <3>2, <3>5, <3>6
  <2>3. G = [U \in SUBSET T |-> G[U]] OBVIOUS
  <2>4. F(T, G)
    <3> HIDE DEF G
    <3>1. QED BY <2>2, <2>3, Zenon DEF IsFold
  <2>5. QED BY <2>4
<1>2. S \in P
  <2> HIDE DEF P
  <2>1. \A T \in SUBSET S : T \in P BY <1>1, FiniteShrinks
  <2>2. QED BY <2>1
<1>3. QED BY <1>2

(* normalize folds the spans in their order.                               *)
LEMMA SpanFold ==
  ASSUME NEW n \in Nat, NEW q, DOMAIN q = 1 .. n
  PROVE  \E g : /\ FoldLeft(AddSpan, <<>>, q) = g[1 .. n]
                /\ g[{}] = <<>>
                /\ \A s \in SUBSET (1 .. n) : s # {} =>
                     g[s] = AddSpan(g[s \ {Max(s)}], q[Max(s)])
<1> DEFINE D == 1 .. n
           pick == [s \in SUBSET D |-> Max(s)]
           Def(g) == g = [s \in SUBSET D |-> IF s = {} THEN <<>>
                                             ELSE AddSpan(g[s \ {Max(s)}], q[Max(s)])]
           fold == CHOOSE g : Def(g)
<1>1. FoldLeft(AddSpan, <<>>, q) = fold[D]
  BY DEF FoldLeft, MapThenFoldSet
<1>2. IsFiniteSet(D) /\ \A s \in SUBSET D : IsFiniteSet(s)
  <2>1. IsFiniteSet(D) BY FS_Interval
  <2> HIDE DEF D
  <2>2. QED BY <2>1, FS_Subset
<1>3. \A s \in SUBSET D : s # {} => pick[s] \in s
  <2>1. ASSUME NEW s \in SUBSET D, s # {} PROVE Max(s) \in s
    <3>1. s \subseteq Int OBVIOUS
    <3>2. IsFiniteSet(s) BY <1>2
    <3>3. QED BY <2>1, <3>1, <3>2, LargestExists
  <2>2. QED BY <2>1
<1>4. PICK g : IsFold("span", <<>>, q, pick, D, g)
  <2> HIDE DEF pick, D
  <2>1. QED BY <1>2, <1>3, FoldExists
<1>5. Def(g)
  <2>1. \A s \in SUBSET D : pick[s] = Max(s) OBVIOUS
  <2> HIDE DEF pick, D
  <2>2. g = [s \in SUBSET D |-> IF s = {} THEN <<>>
                                ELSE AddSpan(g[s \ {pick[s]}], q[pick[s]])]
    BY <1>4 DEF IsFold, Step
  <2>3. QED BY <2>1, <2>2
<1>6. Def(fold)
  <2> HIDE DEF Def
  <2>1. QED BY <1>5
<1>7. fold[{}] = <<>> BY <1>6
<1>8. \A s \in SUBSET D : s # {} => fold[s] = AddSpan(fold[s \ {Max(s)}], q[Max(s)])
  <2> HIDE DEF fold, D
  <2>1. QED BY <1>6
<1>9. QED
  <2> HIDE DEF fold
  <2>1. QED BY <1>1, <1>7, <1>8

(* compose_frags adds the fragments one after the other.                   *)
LEMMA ComposeFold ==
  ASSUME NEW fs, IsFiniteSet(DOMAIN fs)
  PROVE  \E g : \E pick :
           /\ Compose(fs) = g[DOMAIN fs]
           /\ g[{}] = None
           /\ \A s \in SUBSET DOMAIN fs : s # {} =>
                pick[s] \in s /\ g[s] = OptionOp(fs[pick[s]], g[s \ {pick[s]}])
<1> DEFINE D == DOMAIN fs
           any(s) == CHOOSE x \in s : TRUE
           pick == [s \in SUBSET D |-> any(s)]
           Def(g) == g = [s \in SUBSET D |-> IF s = {} THEN None
                                             ELSE OptionOp(fs[any(s)], g[s \ {any(s)}])]
           fold == CHOOSE g : Def(g)
<1>1. Compose(fs) = fold[D]
  BY DEF Compose, FoldFunction, FoldFunctionOnSet, MapThenFoldSet
<1>2. \A s \in SUBSET D : s # {} => pick[s] \in s /\ pick[s] = any(s)
  <2>1. ASSUME NEW s \in SUBSET D, s # {} PROVE any(s) \in s
    BY <2>1
  <2> HIDE DEF any
  <2>2. QED BY <2>1
<1>3. PICK g : IsFold("option", None, fs, pick, D, g)
  <2> HIDE DEF pick
  <2>1. QED BY <1>2, FoldExists
<1>4. Def(g)
  <2>1. \A s \in SUBSET D : pick[s] = any(s) OBVIOUS
  <2> HIDE DEF pick, any
  <2>2. g = [s \in SUBSET D |-> IF s = {} THEN None
                                ELSE OptionOp(fs[pick[s]], g[s \ {pick[s]}])]
    BY <1>3 DEF IsFold, Step
  <2>3. QED BY <2>1, <2>2
<1>5. Def(fold)
  <2> HIDE DEF Def
  <2>1. QED BY <1>4
<1>6. fold[{}] = None
  <2> HIDE DEF fold, any
  <2>1. QED BY <1>5
<1>7. \A s \in SUBSET D : s # {} => fold[s] = OptionOp(fs[any(s)], fold[s \ {any(s)}])
  <2> HIDE DEF fold, any
  <2>1. QED BY <1>5
<1>8. \A s \in SUBSET D : s # {} =>
        pick[s] \in s /\ fold[s] = OptionOp(fs[pick[s]], fold[s \ {pick[s]}])
  <2> HIDE DEF fold, any, pick
  <2>1. QED BY <1>2, <1>7
<1>9. QED
  <2> HIDE DEF fold, pick
  <2>1. /\ Compose(fs) = fold[DOMAIN fs]
        /\ fold[{}] = None
        /\ \A s \in SUBSET DOMAIN fs : s # {} =>
             pick[s] \in s /\ fold[s] = OptionOp(fs[pick[s]], fold[s \ {pick[s]}])
    BY <1>1, <1>6, <1>8
  <2>2. QED BY <2>1, ZenonT(60)

----------------------------------------------------------------------------
(* Spans in order.                                                         *)
SpanSeq(spans) == spans \in Seq(Int \X Int) /\ \A i \in DOMAIN spans : spans[i][1] < spans[i][2]

(* What a sequence of spans is made of.                                    *)
LEMMA SpanFacts ==
  ASSUME NEW spans, SpanSeq(spans)
  PROVE  /\ Len(spans) \in Nat /\ DOMAIN spans = 1 .. Len(spans)
         /\ \A i \in DOMAIN spans : /\ spans[i] \in Int \X Int
                                    /\ spans[i][1] \in Int /\ spans[i][2] \in Int
                                    /\ spans[i] = <<spans[i][1], spans[i][2]>>
                                    /\ spans[i][1] < spans[i][2]
<1>1. spans \in Seq(Int \X Int) BY DEF SpanSeq
<1>2. Len(spans) \in Nat /\ DOMAIN spans = 1 .. Len(spans) BY <1>1
<1>3. \A i \in DOMAIN spans : spans[i] \in Int \X Int BY <1>1, <1>2
<1>4. QED BY <1>2, <1>3 DEF SpanSeq

(* There is a way to sort.                                                 *)
LEMMA SortExists ==
  ASSUME NEW spans, SpanSeq(spans)
  PROVE  \E p \in [DOMAIN spans -> DOMAIN spans] : Sorts(spans, p)
<1> DEFINE D == DOMAIN spans
           n == Len(spans)
           Late(T, m) == m \in T /\ \A x \in T : ~ Before(spans[m], spans[x])
           Listed(T, k, p) == /\ p \in [1 .. k -> T]
                              /\ \A i, j \in 1 .. k :
                                   i < j => p[i] # p[j] /\ ~ Before(spans[p[j]], spans[p[i]])
           P == {T \in SUBSET D : T # {} => \E m : Late(T, m)}
           Q == {T \in SUBSET D : \E p : Listed(T, Cardinality(T), p)}
<1>0. \A i \in D : spans[i][1] \in Int /\ spans[i][2] \in Int BY SpanFacts
<1>a. IsFiniteSet(D) /\ D = 1 .. n /\ n \in Nat /\ Cardinality(D) = n
  <2>1. D = 1 .. n /\ n \in Nat BY SpanFacts
  <2> HIDE DEF D, n
  <2>2. IsFiniteSet(1 .. n) BY <2>1, FS_Interval
  <2>3. Cardinality(1 .. n) = n BY <2>1, FS_Interval
  <2>4. QED BY <2>1, <2>2, <2>3
<1>1. ASSUME NEW T \in SUBSET D, \A x \in T : T \ {x} \in P PROVE T \in P
  <2>1. SUFFICES ASSUME NEW x \in T PROVE \E m : Late(T, m)
    OBVIOUS
  <2>2. CASE T = {x} BY <1>0, <2>2 DEF Before
  <2>3. CASE T # {x}
    <3>1. PICK m : Late(T \ {x}, m) BY <1>1, <2>3
    <3>2. m \in D /\ x \in D /\ m \in T BY <3>1
    <3>3. CASE ~ Before(spans[m], spans[x])
      <4>1. Late(T, m) BY <3>1, <3>2, <3>3
      <4>2. QED BY <4>1
    <3>4. CASE Before(spans[m], spans[x])
      <4>1. ASSUME NEW y \in T PROVE ~ Before(spans[x], spans[y])
        <5>1. y = x \/ ~ Before(spans[m], spans[y]) BY <3>1
        <5>2. y \in D OBVIOUS
        <5>3. QED BY <1>0, <3>2, <3>4, <5>1, <5>2 DEF Before
      <4>2. QED BY <4>1
    <3>5. QED BY <3>3, <3>4
  <2>4. QED BY <2>2, <2>3
<1>2. \A T \in SUBSET D : T \in P
  <2> HIDE DEF P, D
  <2>1. QED BY <1>a, <1>1, FiniteShrinks
<1>3. ASSUME NEW T \in SUBSET D, \A x \in T : T \ {x} \in Q PROVE T \in Q
  <2>0. IsFiniteSet(T) BY <1>a, FS_Subset
  <2>1. CASE T = {}
    <3>1. Cardinality(T) = 0 BY <2>1, FS_EmptySet
    <3>2. Listed(T, 0, [i \in 1 .. 0 |-> i]) BY <2>1
    <3>3. QED BY <3>1, <3>2
  <2>2. CASE T # {}
    <3>1. PICK m : Late(T, m) BY <1>2, <2>2
    <3>2. m \in T BY <3>1
    <3> DEFINE k == Cardinality(T \ {m})
    <3>3. PICK p : Listed(T \ {m}, k, p) BY <1>3, <3>2
    <3>4. k \in Nat /\ Cardinality(T) = k + 1
      <4>1. IsFiniteSet(T \ {m}) BY <2>0, FS_RemoveElement
      <4>2. k \in Nat /\ Cardinality(T) \in Nat BY <2>0, <4>1, FS_CardinalityType
      <4>3. k = Cardinality(T) - 1 BY <2>0, <3>2, FS_RemoveElement
      <4> HIDE DEF k
      <4>4. QED BY <4>2, <4>3
    <3> HIDE DEF k
    <3> DEFINE r == [i \in 1 .. k + 1 |-> IF i = k + 1 THEN m ELSE p[i]]
    <3>5. \A i \in 1 .. k : p[i] \in T \ {m} /\ r[i] = p[i] BY <3>3, <3>4
    <3>6. r[k + 1] = m BY <3>4
    <3>7. r \in [1 .. k + 1 -> T]
      <4>1. \A i \in 1 .. k + 1 : i = k + 1 \/ i \in 1 .. k BY <3>4
      <4>2. \A i \in 1 .. k + 1 : r[i] \in T BY <3>2, <3>5, <3>6, <4>1
      <4>3. QED BY <4>2
    <3>8. ASSUME NEW i \in 1 .. k + 1, NEW j \in 1 .. k + 1, i < j
          PROVE  r[i] # r[j] /\ ~ Before(spans[r[j]], spans[r[i]])
      <4>1. i \in 1 .. k BY <3>4, <3>8
      <4>2. CASE j = k + 1 BY <3>1, <3>5, <3>6, <4>1, <4>2
      <4>3. CASE j \in 1 .. k BY <3>3, <3>5, <3>8, <4>1, <4>3
      <4>4. QED BY <3>4, <4>2, <4>3
    <3> HIDE DEF r
    <3>9. Listed(T, k + 1, r) BY <3>7, <3>8
    <3>10. QED BY <3>4, <3>9
  <2>3. QED BY <2>1, <2>2
<1>4. \A T \in SUBSET D : T \in Q
  <2> HIDE DEF Q, D
  <2>1. QED BY <1>a, <1>3, FiniteShrinks
<1>5. PICK p : Listed(D, n, p) BY <1>4, <1>a
<1>6. QED BY <1>5, <1>a DEF Sorts

(* Sorting moves every span to a place of its own, and puts them in order. *)
LEMMA SortedSpans ==
  ASSUME NEW spans, SpanSeq(spans)
  PROVE  LET q == Sorted(spans)
         IN  /\ SpanSeq(q) /\ DOMAIN q = DOMAIN spans
             /\ \A i, j \in DOMAIN q : i < j => q[i][1] <= q[j][1]
             /\ \E p \in [DOMAIN spans -> DOMAIN spans] :
                  /\ \A i \in DOMAIN q : q[i] = spans[p[i]]
                  /\ \A i, j \in DOMAIN q : i # j => p[i] # p[j]
                  /\ \A k \in DOMAIN q : \E i \in DOMAIN q : p[i] = k
<1> DEFINE D == DOMAIN spans
           p == CHOOSE p \in [D -> D] : Sorts(spans, p)
           q == Sorted(spans)
<1>1. p \in [D -> D] /\ Sorts(spans, p) BY SortExists
<1>2. q = [i \in D |-> spans[p[i]]] BY DEF Sorted
<1>3. D = 1 .. Len(spans) /\ Len(spans) \in Nat /\ IsFiniteSet(D) BY SpanFacts, FS_Interval
<1> HIDE DEF p, q
<1>4. \A i, j \in D : i # j => p[i] # p[j]
  <2>1. \A i, j \in D : i < j => p[i] # p[j] BY <1>1 DEF Sorts
  <2>2. QED BY <2>1, <1>3
<1>5. \A k \in D : \E i \in D : p[i] = k
  <2>1. p \in Injection(D, D) BY <1>1, <1>4 DEF Injection, IsInjective
  <2>2. p \in Surjection(D, D) BY <1>3, <2>1, FS_Injection
  <2>3. QED BY <2>2 DEF Surjection
<1>6. SpanSeq(q)
  <2>1. \A i \in D : p[i] \in D /\ q[i] = spans[p[i]] BY <1>1, <1>2
  <2>0. \A k \in D : spans[k] \in Int \X Int /\ spans[k][1] < spans[k][2] BY SpanFacts
  <2> HIDE DEF D
  <2>2. \A i \in D : q[i] \in Int \X Int /\ q[i][1] < q[i][2] BY <2>0, <2>1
  <2>3. q \in [1 .. Len(spans) -> Int \X Int] BY <1>2, <1>3, <2>2
  <2>4. q \in Seq(Int \X Int) BY <1>3, <2>3
  <2>5. QED BY <1>2, <2>2, <2>4 DEF SpanSeq
<1>7. ASSUME NEW i \in D, NEW j \in D, i < j PROVE q[i][1] <= q[j][1]
  <2>1. ~ Before(spans[p[j]], spans[p[i]]) BY <1>1, <1>7 DEF Sorts
  <2>2. p[i] \in D /\ p[j] \in D BY <1>1
  <2>3. spans[p[i]][1] \in Int /\ spans[p[j]][1] \in Int BY <2>2, SpanFacts
  <2>4. QED BY <1>2, <2>1, <2>3 DEF Before
<1>8. DOMAIN q = D BY <1>2
<1>9. \A i \in D : q[i] = spans[p[i]] BY <1>2
<1>10. \E r \in [D -> D] : /\ \A i \in D : q[i] = spans[r[i]]
                           /\ \A i, j \in D : i # j => r[i] # r[j]
                           /\ \A k \in D : \E i \in D : r[i] = k
  BY <1>1, <1>4, <1>5, <1>9
<1>11. \A i, j \in D : i < j => q[i][1] <= q[j][1] BY <1>7
<1>12. QED
  <2> HIDE DEF D
  <2>1. /\ SpanSeq(q) /\ DOMAIN q = D
        /\ \A i, j \in DOMAIN q : i < j => q[i][1] <= q[j][1]
        /\ \E r \in [D -> D] : /\ \A i \in DOMAIN q : q[i] = spans[r[i]]
                               /\ \A i, j \in DOMAIN q : i # j => r[i] # r[j]
                               /\ \A k \in DOMAIN q : \E i \in DOMAIN q : r[i] = k
    BY <1>6, <1>8, <1>10, <1>11
  <2>2. QED BY <2>1 DEF q, D

----------------------------------------------------------------------------
(* The numbers of one span, of a sequence of spans, and of some of them.   *)
In(s, x) == s[1] <= x /\ x < s[2]
CoverOn(q, T) == {x \in Int : \E i \in T : In(q[i], x)}
Cover(q) == CoverOn(q, DOMAIN q)
OverlapOn(q, T) == \E i, j \in T : i # j /\ \E x \in Int : In(q[i], x) /\ In(q[j], x)

(* A range that normalize returns.                                         *)
Normal(r) == SpanSeq(r) /\ \A i, j \in DOMAIN r : i < j => r[i][2] < r[j][1]

(* A range is not the mark of an overlap.                                  *)
LEMMA NormalIsNotBot ==
  ASSUME NEW r, Normal(r)
  PROVE  r # RangeBot
<1>1. \A i \in DOMAIN r : r[i][1] < r[i][2] BY DEF Normal, SpanSeq
<1>2. 1 \in DOMAIN RangeBot /\ RangeBot[1] = <<0, 0>> BY DEF RangeBot
<1>3. QED BY <1>1, <1>2

(* The range of nothing.                                                   *)
LEMMA EmptyIsNormal == Normal(<<>>) /\ Cover(<<>>) = {}
BY DEF Normal, SpanSeq, Cover, CoverOn

(* A span that begins where the last one ends or later.                    *)
LEMMA SpanAdded ==
  ASSUME NEW out, Normal(out), NEW s \in Int \X Int, s[1] < s[2],
         out # <<>> => out[Len(out)][2] <= s[1]
  PROVE  LET r == AddSpan(out, s)
         IN  /\ Normal(r) /\ r # <<>> /\ r[Len(r)][2] = s[2]
             /\ Cover(r) = Cover(out) \cup {x \in Int : In(s, x)}
<1> DEFINE n == Len(out)
           r == AddSpan(out, s)
           a == s[1]
           b == s[2]
<1>1. a \in Int /\ b \in Int /\ a < b /\ s = <<a, b>> OBVIOUS
<1>2. out \in Seq(Int \X Int) /\ n \in Nat /\ DOMAIN out = 1 .. n
  BY SpanFacts DEF Normal, SpanSeq
<1>3. \A i \in 1 .. n : /\ out[i] \in Int \X Int /\ out[i][1] \in Int /\ out[i][2] \in Int
                        /\ out[i] = <<out[i][1], out[i][2]>>
                        /\ out[i][1] < out[i][2]
  BY <1>2, SpanFacts DEF Normal
<1>4. \A i, j \in 1 .. n : i < j => out[i][2] < out[j][1] BY <1>2 DEF Normal
<1>5. out # <<>> <=> n # 0 BY <1>2
<1>6. out # RangeBot BY NormalIsNotBot
<1>7. n # 0 => n \in 1 .. n /\ out[n][2] <= a BY <1>2, <1>5
<1>d. \A i \in 1 .. n : i # n => i < n /\ n \in 1 .. n
  <2> HIDE DEF n
  <2>1. QED BY <1>2
<1>8. \A i \in 1 .. n : out[i][2] <= a
  <2>1. ASSUME NEW i \in 1 .. n PROVE out[i][2] <= a
    <3>1. n \in 1 .. n /\ out[n][2] <= a BY <1>2, <1>7
    <3>2. CASE i = n BY <3>1, <3>2
    <3>3. CASE i # n
      <4>1. i < n BY <3>3, <1>d
      <4>2. out[i][2] < out[n][1] BY <1>4, <3>1, <4>1
      <4>3. QED BY <1>1, <1>3, <3>1, <4>2
    <3>4. QED BY <3>2, <3>3
  <2>2. QED BY <2>1
<1> DEFINE touches == n # 0 /\ out[n][2] = a
<1>9. r = IF touches THEN [out EXCEPT ![n][2] = b] ELSE Append(out, s)
  <2>1. ~ (out # <<>> /\ a < out[n][2]) BY <1>1, <1>3, <1>5, <1>7
  <2>2. QED BY <1>5, <1>6, <2>1 DEF AddSpan, Last
<1>10. CASE touches
  <2>1. r = [out EXCEPT ![n][2] = b] BY <1>9, <1>10
  <2> HIDE DEF r
  <2>2. n \in 1 .. n BY <1>7, <1>10
  <2>3. r[n] = <<out[n][1], b>>
    <3>1. r[n] = [out[n] EXCEPT ![2] = b] BY <1>2, <2>1, <2>2
    <3>2. out[n] = <<out[n][1], out[n][2]>> BY <1>3, <2>2
    <3>3. \A y, z : [<<y, z>> EXCEPT ![2] = b] = <<y, b>> OBVIOUS
    <3>4. QED BY <3>1, <3>2, <3>3
  <2>4. DOMAIN r = 1 .. n /\ \A i \in 1 .. n : i # n => r[i] = out[i] BY <1>2, <2>1
  <2>5. r[n][1] = out[n][1] /\ r[n][2] = b BY <2>3
  <2>6. out[n][2] = a /\ out[n][1] < a BY <1>3, <1>10, <2>2
  <2>7. \A i \in 1 .. n : r[i] \in Int \X Int /\ r[i][1] < r[i][2]
    <3>1. r[n] \in Int \X Int /\ r[n][1] < r[n][2] BY <1>1, <1>3, <2>2, <2>3, <2>5, <2>6
    <3>2. QED BY <1>3, <2>4, <3>1
  <2>8. r \in Seq(Int \X Int) /\ Len(r) = n
    <3>1. r = [i \in 1 .. n |-> r[i]] BY <1>2, <2>1
    <3>2. r \in [1 .. n -> Int \X Int] BY <2>7, <3>1
    <3>3. \A N \in Nat : \A f \in [1 .. N -> Int \X Int] : f \in Seq(Int \X Int) /\ Len(f) = N
      OBVIOUS
    <3> HIDE DEF n
    <3>4. QED BY <1>2, <3>2, <3>3
  <2>9. SpanSeq(r) BY <2>4, <2>7, <2>8 DEF SpanSeq
  <2>10. ASSUME NEW i \in 1 .. n, NEW j \in 1 .. n, i < j PROVE r[i][2] < r[j][1]
    <3>1. i # n BY <1>2, <2>10
    <3>2. r[i] = out[i] BY <2>4, <3>1
    <3>3. r[j][1] = out[j][1] BY <2>4, <2>5
    <3>4. QED BY <1>4, <2>10, <3>2, <3>3
  <2>11. Normal(r) BY <2>4, <2>9, <2>10 DEF Normal
  <2>12. ASSUME NEW x \in Int
         PROVE  (\E i \in 1 .. n : In(r[i], x)) <=> (\E i \in 1 .. n : In(out[i], x)) \/ In(s, x)
    <3>1. In(r[n], x) <=> In(out[n], x) \/ In(s, x)
      <4>1. a \in Int /\ b \in Int /\ out[n][1] \in Int BY <1>1, <1>3, <2>2
      <4>2. s[1] = a /\ s[2] = b OBVIOUS
      <4> HIDE DEF a, b, n
      <4>3. In(out[n], x) <=> out[n][1] <= x /\ x < a BY <2>6 DEF In
      <4>4. In(r[n], x) <=> out[n][1] <= x /\ x < b BY <2>5 DEF In
      <4>5. In(s, x) <=> a <= x /\ x < b BY <4>2 DEF In
      <4>6. a < b /\ out[n][1] < a BY <1>1, <2>6
      <4>7. QED BY <4>1, <4>3, <4>4, <4>5, <4>6
    <3>2. \A i \in 1 .. n : i # n => (In(r[i], x) <=> In(out[i], x)) BY <2>4, Zenon
    <3>3. QED BY <2>2, <3>1, <3>2
  <2>13. Cover(r) = Cover(out) \cup {x \in Int : In(s, x)}
    BY <1>2, <2>4, <2>12 DEF Cover, CoverOn
  <2>14. r # <<>> /\ r[Len(r)][2] = s[2]
    <3>1. Len(r) # 0
      <4> HIDE DEF n
      <4>1. QED BY <2>2, <2>8
    <3>2. QED BY <2>5, <2>8, <3>1
  <2>15. QED BY <2>11, <2>13, <2>14 DEF r
<1>11. CASE ~ touches
  <2>1. r = Append(out, s) BY <1>9, <1>11
  <2> HIDE DEF r
  <2>2. /\ r \in Seq(Int \X Int) /\ Len(r) = n + 1 /\ DOMAIN r = 1 .. n + 1
        /\ r[n + 1] = s /\ \A i \in 1 .. n : r[i] = out[i]
    BY <1>2, <2>1
  <2>3. \A i \in 1 .. n + 1 : i = n + 1 \/ i \in 1 .. n BY <1>2
  <2>4. \A i \in 1 .. n + 1 : r[i][1] < r[i][2] BY <1>1, <1>3, <2>2, <2>3
  <2>5. SpanSeq(r) BY <2>2, <2>4 DEF SpanSeq
  <2>6. \A i \in 1 .. n : out[i][2] < a
    <3>1. n # 0 => out[n][2] < a BY <1>1, <1>3, <1>7, <1>11
    <3>2. ASSUME NEW i \in 1 .. n PROVE out[i][2] < a
      <4>1. n \in 1 .. n BY <1>2
      <4>2. out[n][2] < a BY <1>2, <3>1
      <4>3. CASE i = n BY <4>2, <4>3
      <4>4. CASE i # n
        <5>1. i < n BY <4>4, <1>d
        <5>2. out[i][2] < out[n][1] BY <1>4, <4>1, <5>1
        <5>3. QED BY <1>1, <1>3, <4>1, <4>2, <5>2
      <4>5. QED BY <4>3, <4>4
    <3>3. QED BY <3>2
  <2>7. ASSUME NEW i \in 1 .. n + 1, NEW j \in 1 .. n + 1, i < j PROVE r[i][2] < r[j][1]
    <3>1. i \in 1 .. n BY <1>2, <2>7
    <3>2. CASE j = n + 1
      <4>1. r[i] = out[i] /\ r[j] = s BY <2>2, <3>1, <3>2
      <4>2. QED BY <2>6, <3>1, <4>1
    <3>3. CASE j \in 1 .. n BY <1>4, <2>2, <2>7, <3>1, <3>3
    <3>4. QED BY <2>3, <3>2, <3>3
  <2>8. Normal(r) BY <2>2, <2>5, <2>7 DEF Normal
  <2>9. ASSUME NEW x \in Int
        PROVE  (\E i \in 1 .. n + 1 : In(r[i], x))
                  <=> (\E i \in 1 .. n : In(out[i], x)) \/ In(s, x)
    <3>1. \A i \in 1 .. n : i \in 1 .. n + 1 /\ (In(r[i], x) <=> In(out[i], x))
      <4>1. \A i \in 1 .. n : i \in 1 .. n + 1
        <5> HIDE DEF n
        <5>1. QED BY <1>2
      <4>2. \A i \in 1 .. n : In(r[i], x) <=> In(out[i], x) BY <2>2, ZenonT(60)
      <4>3. QED BY <4>1, <4>2
    <3>2. n + 1 \in 1 .. n + 1 /\ (In(r[n + 1], x) <=> In(s, x)) BY <1>2, <2>2
    <3>3. QED BY <2>3, <3>1, <3>2
  <2>10. Cover(r) = Cover(out) \cup {x \in Int : In(s, x)}
    BY <1>2, <2>2, <2>9 DEF Cover, CoverOn
  <2>11. r # <<>> /\ r[Len(r)][2] = s[2]
    <3>1. Len(r) # 0 BY <1>2, <2>2
    <3>2. QED BY <2>2, <3>1
  <2>12. QED BY <2>8, <2>10, <2>11 DEF r
<1>12. QED BY <1>10, <1>11

(* What the fold has made of the spans of T.                               *)
Folded(q, T, out) ==
  IF OverlapOn(q, T) THEN out = RangeBot
  ELSE /\ Normal(out) /\ Cover(out) = CoverOn(q, T)
       /\ T = {} <=> out = <<>>
       /\ T # {} => /\ \A i \in T : q[i][2] <= out[Len(out)][2]
                    /\ \E i \in T : q[i][2] = out[Len(out)][2]

(* One span of the fold, the latest of those it has taken.                 *)
LEMMA FoldStep ==
  ASSUME NEW q, SpanSeq(q), \A i, j \in DOMAIN q : i < j => q[i][1] <= q[j][1],
         NEW T \in SUBSET DOMAIN q, NEW m \in T, \A i \in T : m >= i,
         NEW out, Folded(q, T \ {m}, out)
  PROVE  Folded(q, T, AddSpan(out, q[m]))
<1> DEFINE s == q[m]
           R == T \ {m}
           r == AddSpan(out, s)
<1>1. /\ \A i \in T : q[i][1] \in Int /\ q[i][2] \in Int /\ q[i][1] < q[i][2]
      /\ s \in Int \X Int
      /\ \A i \in T : i \in DOMAIN q /\ i \in Int
  BY SpanFacts
<1>2. \A i \in R : i < m /\ i \in T BY <1>1
<1>3. \A i \in R : q[i][1] <= s[1] BY <1>1, <1>2
<1>4. CASE OverlapOn(q, R)
  <2>1. out = RangeBot BY <1>4 DEF Folded
  <2>2. OverlapOn(q, T) BY <1>4, <1>2 DEF OverlapOn
  <2>3. r = RangeBot BY <2>1 DEF AddSpan
  <2>4. QED BY <2>2, <2>3 DEF Folded
<1>5. CASE ~ OverlapOn(q, R)
  <2>1. Folded(q, R, out) OBVIOUS
  <2> HIDE DEF r
  <2>2. /\ Normal(out) /\ Cover(out) = CoverOn(q, R)
        /\ R = {} <=> out = <<>>
        /\ R # {} => /\ \A i \in R : q[i][2] <= out[Len(out)][2]
                     /\ \E i \in R : q[i][2] = out[Len(out)][2]
    BY <1>5, <2>1 DEF Folded
  <2> HIDE DEF R
  <2>3. CASE out # <<>> /\ s[1] < out[Len(out)][2]
    <3>1. PICK i \in R : q[i][2] = out[Len(out)][2] BY <2>2, <2>3
    <3>2. In(q[i], s[1]) /\ In(s, s[1]) BY <1>1, <1>2, <1>3, <2>3, <3>1 DEF In
    <3>3. i # m /\ i \in T /\ m \in T /\ s[1] \in Int BY <1>1, <1>2 DEF R
    <3>4. OverlapOn(q, T) BY <3>2, <3>3 DEF OverlapOn
    <3>5. r = RangeBot BY <2>3 DEF AddSpan, Last, r
    <3>6. QED BY <3>4, <3>5 DEF Folded, r
  <2>4. CASE ~ (out # <<>> /\ s[1] < out[Len(out)][2])
    <3>1. out # <<>> => out[Len(out)][2] <= s[1]
      <4>1. ASSUME out # <<>> PROVE out[Len(out)][2] <= s[1]
        <5>1. PICK i \in R : q[i][2] = out[Len(out)][2] BY <2>2, <4>1
        <5>2. q[i][2] \in Int /\ s[1] \in Int BY <1>1, <1>2
        <5>3. QED BY <2>4, <4>1, <5>1, <5>2
      <4>2. QED BY <4>1
    <3>2. s[1] < s[2] BY <1>1
    <3>3. /\ Normal(r) /\ r # <<>> /\ r[Len(r)][2] = s[2]
          /\ Cover(r) = Cover(out) \cup {x \in Int : In(s, x)}
      BY <1>1, <2>2, <3>1, <3>2, SpanAdded DEF r
    <3>4. \A i \in R : q[i][2] <= s[1]
      <4>1. ASSUME NEW i \in R PROVE q[i][2] <= s[1]
        <5>1. out # <<>> /\ q[i][2] <= out[Len(out)][2] BY <2>2
        <5>2. PICK j \in R : q[j][2] = out[Len(out)][2] BY <2>2
        <5>3. q[i][2] \in Int /\ q[j][2] \in Int /\ s[1] \in Int BY <1>1, <1>2
        <5>4. QED BY <3>1, <5>1, <5>2, <5>3
      <4>2. QED BY <4>1
    <3>5. ~ OverlapOn(q, T)
      <4>1. ASSUME NEW i \in T, NEW j \in T, NEW x \in Int, i # j, In(q[i], x), In(q[j], x)
            PROVE FALSE
        <5>1. CASE i \in R /\ j \in R BY <1>5, <4>1, <5>1 DEF OverlapOn, R
        <5>2. CASE i = m
          <6>1. j \in R BY <4>1, <5>2 DEF R
          <6>2. QED BY <1>1, <1>2, <3>4, <4>1, <5>2, <6>1 DEF In
        <5>3. CASE j = m
          <6>1. i \in R BY <4>1, <5>3 DEF R
          <6>2. QED BY <1>1, <1>2, <3>4, <4>1, <5>3, <6>1 DEF In
        <5>4. QED BY <5>1, <5>2, <5>3 DEF R
      <4>2. QED BY <4>1 DEF OverlapOn
    <3>6. Cover(r) = CoverOn(q, T)
      <4>1. CoverOn(q, T) = CoverOn(q, R) \cup {x \in Int : In(s, x)} BY DEF CoverOn, R
      <4>2. QED BY <2>2, <3>3, <4>1
    <3>7. \A i \in T : q[i][2] <= s[2]
      <4>1. \A i \in R : q[i][2] <= s[2] BY <1>1, <1>2, <3>2, <3>4
      <4>2. s[2] <= s[2] BY <1>1
      <4>3. QED BY <4>1, <4>2 DEF R
    <3>8. Folded(q, T, r) BY <3>3, <3>5, <3>6, <3>7 DEF Folded
    <3>9. QED BY <3>8 DEF r
  <2>5. QED BY <2>3, <2>4
<1>6. QED BY <1>4, <1>5

(* normalize refuses exactly the spans that share a number, and otherwise  *)
(* returns the range of all of them.                                       *)
LEMMA NormalizeIsExact ==
  ASSUME NEW spans, SpanSeq(spans)
  PROVE  IF OverlapOn(spans, DOMAIN spans) THEN Normalize(spans) = RangeBot
         ELSE Normal(Normalize(spans)) /\ Cover(Normalize(spans)) = Cover(spans)
<1> DEFINE q == Sorted(spans)
           D == DOMAIN spans
           n == Len(spans)
<1>0. D = 1 .. n /\ n \in Nat BY SpanFacts
<1>1. /\ SpanSeq(q) /\ DOMAIN q = D
      /\ \A i, j \in D : i < j => q[i][1] <= q[j][1]
      /\ \E p \in [D -> D] : /\ \A i \in D : q[i] = spans[p[i]]
                             /\ \A i, j \in D : i # j => p[i] # p[j]
                             /\ \A k \in D : \E i \in D : p[i] = k
  BY SortedSpans
<1>2. Normalize(spans) = FoldLeft(AddSpan, <<>>, q) BY DEF Normalize
<1> HIDE DEF q, n, D
<1>3. PICK g : /\ FoldLeft(AddSpan, <<>>, q) = g[D]
               /\ g[{}] = <<>>
               /\ \A s \in SUBSET D : s # {} => g[s] = AddSpan(g[s \ {Max(s)}], q[Max(s)])
  <2>1. DOMAIN q = 1 .. n BY <1>0, <1>1
  <2>2. \E g : /\ FoldLeft(AddSpan, <<>>, q) = g[1 .. n]
               /\ g[{}] = <<>>
               /\ \A s \in SUBSET (1 .. n) : s # {} =>
                    g[s] = AddSpan(g[s \ {Max(s)}], q[Max(s)])
    BY <1>0, <2>1, SpanFold
  <2>3. QED BY <1>0, <2>2, Zenon
<1> DEFINE P == {T \in SUBSET D : Folded(q, T, g[T])}
<1>4. IsFiniteSet(D) BY <1>0, FS_Interval
<1>5. ASSUME NEW T \in SUBSET D, \A x \in T : T \ {x} \in P PROVE T \in P
  <2>1. CASE T = {}
    <3>1. ~ OverlapOn(q, {}) /\ CoverOn(q, {}) = {} BY DEF OverlapOn, CoverOn
    <3>2. Folded(q, {}, <<>>) BY <3>1, EmptyIsNormal DEF Folded
    <3>3. QED BY <1>3, <2>1, <3>2
  <2>2. CASE T # {}
    <3> DEFINE m == Max(T)
    <3>1. m \in T /\ \A y \in T : m >= y
      <4>0. T \subseteq Int BY <1>0
      <4>1. T \subseteq Int /\ IsFiniteSet(T) BY <1>4, <4>0, FS_Subset
      <4>2. QED BY <2>2, <4>1, LargestExists
    <3>2. g[T] = AddSpan(g[T \ {m}], q[m]) BY <1>3, <2>2
    <3> HIDE DEF m
    <3>3. Folded(q, T \ {m}, g[T \ {m}]) BY <1>5, <3>1
    <3>4. Folded(q, T, AddSpan(g[T \ {m}], q[m])) BY <1>1, <3>1, <3>3, FoldStep
    <3>5. QED BY <3>2, <3>4
  <2>3. QED BY <2>1, <2>2
<1>6. Folded(q, D, g[D])
  <2> HIDE DEF P
  <2>1. \A T \in SUBSET D : T \in P BY <1>4, <1>5, FiniteShrinks
  <2>2. D \in P BY <2>1
  <2>3. QED BY <2>2 DEF P
<1>7. PICK p \in [D -> D] : /\ \A i \in D : q[i] = spans[p[i]]
                            /\ \A i, j \in D : i # j => p[i] # p[j]
                            /\ \A k \in D : \E i \in D : p[i] = k
  BY <1>1
<1>8. OverlapOn(q, D) <=> OverlapOn(spans, D)
  <2>1. ASSUME NEW i \in D, NEW j \in D, NEW x \in Int, i # j, In(q[i], x), In(q[j], x)
        PROVE OverlapOn(spans, D)
    <3>1. p[i] \in D /\ p[j] \in D /\ p[i] # p[j] BY <1>7, <2>1
    <3>2. In(spans[p[i]], x) /\ In(spans[p[j]], x) BY <1>7, <2>1
    <3>3. QED BY <3>1, <3>2 DEF OverlapOn
  <2>2. ASSUME NEW i \in D, NEW j \in D, NEW x \in Int, i # j,
               In(spans[i], x), In(spans[j], x)
        PROVE OverlapOn(q, D)
    <3>1. PICK k \in D : p[k] = i BY <1>7
    <3>2. PICK l \in D : p[l] = j BY <1>7
    <3>3. k # l /\ In(q[k], x) /\ In(q[l], x) BY <1>7, <2>2, <3>1, <3>2
    <3>4. QED BY <3>3 DEF OverlapOn
  <2>3. QED BY <2>1, <2>2 DEF OverlapOn
<1>9. CoverOn(q, D) = Cover(spans)
  <2>1. \A x \in Int : (\E i \in D : In(q[i], x)) <=> (\E i \in D : In(spans[i], x))
    BY <1>7
  <2>2. QED BY <2>1 DEF CoverOn, Cover, D
<1>10. QED BY <1>2, <1>3, <1>6, <1>8, <1>9 DEF Folded, D

----------------------------------------------------------------------------
(* What a range is made of.                                                *)
LEMMA NormalFacts ==
  ASSUME NEW r, Normal(r)
  PROVE  /\ SpanSeq(r) /\ Len(r) \in Nat /\ DOMAIN r = 1 .. Len(r) /\ DOMAIN r \subseteq Int
         /\ \A i \in DOMAIN r : /\ r[i] = <<r[i][1], r[i][2]>> /\ r[i][1] \in Int
                                /\ r[i][2] \in Int /\ r[i][1] < r[i][2]
         /\ \A i, j \in DOMAIN r : i < j => r[i][2] < r[j][1]
         /\ \A i, j \in DOMAIN r : i # j => r[i][2] < r[j][1] \/ r[j][2] < r[i][1]
<1>1. SpanSeq(r) BY DEF Normal
<1>2. Len(r) \in Nat /\ DOMAIN r = 1 .. Len(r) BY <1>1, SpanFacts
<1>3. DOMAIN r \subseteq Int BY <1>2
<1>4. \A i \in DOMAIN r : /\ r[i] = <<r[i][1], r[i][2]>> /\ r[i][1] \in Int
                          /\ r[i][2] \in Int /\ r[i][1] < r[i][2]
  BY <1>1, SpanFacts
<1>5. \A i, j \in DOMAIN r : i < j => r[i][2] < r[j][1] BY DEF Normal
<1>6. ASSUME NEW i \in DOMAIN r, NEW j \in DOMAIN r, i # j
      PROVE  r[i][2] < r[j][1] \/ r[j][2] < r[i][1]
  <2>1. i < j \/ j < i BY <1>3, <1>6
  <2>2. QED BY <1>5, <2>1
<1>7. QED BY <1>1, <1>2, <1>3, <1>4, <1>5, <1>6

(* A span whose numbers a range has lies in one of its spans.              *)
LEMMA SpanInOne ==
  ASSUME NEW r, Normal(r), NEW a \in Int, NEW b \in Int, a < b,
         \A x \in Int : a <= x /\ x < b => x \in Cover(r)
  PROVE  \E j \in DOMAIN r : r[j][1] <= a /\ b <= r[j][2]
<1>1. PICK j \in DOMAIN r : In(r[j], a) BY DEF Cover, CoverOn
<1>2. r[j][1] \in Int /\ r[j][2] \in Int /\ r[j][1] <= a /\ a < r[j][2]
  BY <1>1, NormalFacts DEF In
<1>3. ASSUME r[j][2] < b PROVE FALSE
  <2>1. r[j][2] \in Cover(r) BY <1>2, <1>3
  <2>2. PICK k \in DOMAIN r : In(r[k], r[j][2]) BY <2>1 DEF Cover, CoverOn
  <2>3. r[k][1] \in Int /\ r[k][2] \in Int /\ r[k][1] <= r[j][2] /\ r[j][2] < r[k][2]
    BY <2>2, NormalFacts DEF In
  <2>4. k # j BY <2>3
  <2>5. r[k][2] < r[j][1] \/ r[j][2] < r[k][1] BY <2>4, NormalFacts
  <2>6. r[j][1] < r[j][2] BY <1>2
  <2>7. QED BY <1>2, <2>3, <2>5, <2>6
<1>4. b <= r[j][2] BY <1>2, <1>3
<1>5. QED BY <1>2, <1>4

(* One range covers another exactly when it has all its numbers.           *)
LEMMA CoversIffHasAll ==
  ASSUME NEW a, NEW b, Normal(a), Normal(b)
  PROVE  CoveredBy(a, b) <=> Cover(a) \subseteq Cover(b)
<1>1. ASSUME CoveredBy(a, b), NEW x \in Cover(a) PROVE x \in Cover(b)
  <2>1. x \in Int BY DEF Cover, CoverOn
  <2>2. PICK i \in DOMAIN a : In(a[i], x) BY DEF Cover, CoverOn
  <2>3. PICK j \in DOMAIN b : b[j][1] <= a[i][1] /\ a[i][2] <= b[j][2]
    BY <1>1 DEF CoveredBy
  <2>4. a[i][1] \in Int /\ a[i][2] \in Int /\ b[j][1] \in Int /\ b[j][2] \in Int
    BY NormalFacts
  <2>5. In(b[j], x) BY <2>1, <2>2, <2>3, <2>4 DEF In
  <2>6. QED BY <2>1, <2>5 DEF Cover, CoverOn
<1>2. ASSUME Cover(a) \subseteq Cover(b), NEW i \in DOMAIN a
      PROVE  \E j \in DOMAIN b : b[j][1] <= a[i][1] /\ a[i][2] <= b[j][2]
  <2>1. a[i][1] \in Int /\ a[i][2] \in Int /\ a[i][1] < a[i][2] BY NormalFacts
  <2>2. ASSUME NEW x \in Int, a[i][1] <= x, x < a[i][2] PROVE x \in Cover(b)
    <3>1. In(a[i], x) BY <2>2 DEF In
    <3>2. x \in Cover(a) BY <3>1 DEF Cover, CoverOn
    <3>3. QED BY <1>2, <3>2
  <2>3. QED BY <2>1, <2>2, SpanInOne
<1>3. QED BY <1>1, <1>2 DEF CoveredBy

(* One span of each: where the same numbers are, the same span is.         *)
LEMMA SameSpan ==
  ASSUME NEW a, NEW b, Normal(a), Normal(b), Cover(a) = Cover(b), NEW i \in DOMAIN a
  PROVE  \E j \in DOMAIN b : a[i] = b[j]
<1>1. CoveredBy(a, b) /\ CoveredBy(b, a) BY CoversIffHasAll
<1>2. PICK j \in DOMAIN b : b[j][1] <= a[i][1] /\ a[i][2] <= b[j][2]
  BY <1>1 DEF CoveredBy
<1>3. PICK k \in DOMAIN a : a[k][1] <= b[j][1] /\ b[j][2] <= a[k][2]
  BY <1>1 DEF CoveredBy
<1>4. /\ a[i][1] \in Int /\ a[i][2] \in Int /\ a[i][1] < a[i][2] /\ a[i] = <<a[i][1], a[i][2]>>
      /\ a[k][1] \in Int /\ a[k][2] \in Int /\ a[k][1] < a[k][2]
      /\ b[j][1] \in Int /\ b[j][2] \in Int /\ b[j] = <<b[j][1], b[j][2]>>
  BY NormalFacts
<1>5. k = i
  <2>1. ~ (a[i][2] < a[k][1]) /\ ~ (a[k][2] < a[i][1]) BY <1>2, <1>3, <1>4
  <2>2. QED BY <2>1, NormalFacts
<1>6. a[i][1] = b[j][1] /\ a[i][2] = b[j][2] BY <1>2, <1>3, <1>4, <1>5
<1>7. QED BY <1>4, <1>6

(* There is one range of a set of numbers.                                 *)
LEMMA RangeIsUnique ==
  ASSUME NEW a, NEW b, Normal(a), Normal(b), Cover(a) = Cover(b)
  PROVE  a = b
<1> DEFINE h == [i \in DOMAIN a |-> CHOOSE j \in DOMAIN b : a[i] = b[j]]
           k == [j \in DOMAIN b |-> CHOOSE i \in DOMAIN a : b[j] = a[i]]
<1>1. \A i \in DOMAIN a : h[i] \in DOMAIN b /\ a[i] = b[h[i]]
  <2>1. \A i \in DOMAIN a : \E j \in DOMAIN b : a[i] = b[j] BY SameSpan
  <2>2. QED BY <2>1
<1>2. \A j \in DOMAIN b : k[j] \in DOMAIN a /\ b[j] = a[k[j]]
  <2>1. \A j \in DOMAIN b : \E i \in DOMAIN a : b[j] = a[i] BY SameSpan
  <2>2. QED BY <2>1
<1> HIDE DEF h, k
<1> DEFINE m == Len(a)
           n == Len(b)
<1>3. m \in Nat /\ n \in Nat /\ DOMAIN a = 1 .. m /\ DOMAIN b = 1 .. n BY NormalFacts
<1> HIDE DEF m, n
<1>4. ASSUME NEW i \in 1 .. m, NEW j \in 1 .. m, i < j PROVE h[i] < h[j]
  <2>1. a[i][1] < a[i][2] /\ a[i][2] < a[j][1] /\ a[j][1] < a[j][2]
        /\ a[i][1] \in Int /\ a[i][2] \in Int /\ a[j][1] \in Int /\ a[j][2] \in Int
    BY <1>3, <1>4, NormalFacts
  <2>2. h[i] \in 1 .. n /\ h[j] \in 1 .. n /\ a[i] = b[h[i]] /\ a[j] = b[h[j]] BY <1>1, <1>3
  <2>3. h[i] # h[j] BY <2>1, <2>2
  <2>4. h[j] < h[i] => b[h[j]][2] < b[h[i]][1] BY <1>3, <2>2, NormalFacts
  <2>5. ~ (a[j][2] < a[i][1]) BY <2>1
  <2>6. ~ h[j] < h[i] BY <2>2, <2>4, <2>5
  <2>7. QED BY <2>2, <2>3, <2>6
<1>5. ASSUME NEW i \in 1 .. n, NEW j \in 1 .. n, i < j PROVE k[i] < k[j]
  <2>1. b[i][1] < b[i][2] /\ b[i][2] < b[j][1] /\ b[j][1] < b[j][2]
        /\ b[i][1] \in Int /\ b[i][2] \in Int /\ b[j][1] \in Int /\ b[j][2] \in Int
    BY <1>3, <1>5, NormalFacts
  <2>2. k[i] \in 1 .. m /\ k[j] \in 1 .. m /\ b[i] = a[k[i]] /\ b[j] = a[k[j]] BY <1>2, <1>3
  <2>3. k[i] # k[j] BY <2>1, <2>2
  <2>4. k[j] < k[i] => a[k[j]][2] < a[k[i]][1] BY <1>3, <2>2, NormalFacts
  <2>5. ~ (b[j][2] < b[i][1]) BY <2>1
  <2>6. ~ k[j] < k[i] BY <2>2, <2>4, <2>5
  <2>7. QED BY <2>2, <2>3, <2>6
<1>6. \A i \in 1 .. m : i <= h[i]
  <2>1. \A i \in 1 .. m : h[i] \in Nat \ {0} BY <1>1, <1>3
  <2>2. QED BY <1>3, <1>4, <2>1, Climbs
<1>7. \A j \in 1 .. n : j <= k[j]
  <2>1. \A j \in 1 .. n : k[j] \in Nat \ {0} BY <1>2, <1>3
  <2>2. QED BY <1>3, <1>5, <2>1, Climbs
<1>8. ASSUME NEW i \in 1 .. m PROVE i \in 1 .. n /\ a[i] = b[i]
  <2>1. h[i] \in 1 .. n /\ a[i] = b[h[i]] BY <1>1, <1>3
  <2>2. k[h[i]] \in 1 .. m /\ a[k[h[i]]] = a[i] BY <1>2, <1>3, <2>1
  <2>3. k[h[i]] = i
    <3>1. a[i][1] < a[i][2] /\ a[i][1] \in Int /\ a[i][2] \in Int BY <1>3, NormalFacts
    <3>2. k[h[i]] # i => a[i][2] < a[i][1] BY <1>3, <2>2, NormalFacts
    <3>3. QED BY <3>1, <3>2
  <2>4. h[i] <= i BY <1>7, <2>1, <2>3
  <2>5. i <= h[i] BY <1>6
  <2>6. h[i] = i BY <2>1, <2>4, <2>5
  <2>7. QED BY <2>1, <2>6
<1>9. ASSUME NEW j \in 1 .. n PROVE j \in 1 .. m
  <2>1. k[j] \in 1 .. m /\ j <= k[j] BY <1>2, <1>3, <1>7
  <2>2. QED BY <1>3, <2>1
<1>10. m = n
  <2>1. m # 0 => m \in 1 .. n BY <1>3, <1>8
  <2>2. n # 0 => n \in 1 .. m BY <1>3, <1>9
  <2>3. QED BY <1>3, <2>1, <2>2
<1>11. a \in Seq(Int \X Int) /\ b \in Seq(Int \X Int) BY DEF Normal, SpanSeq
<1>12. QED BY <1>3, <1>8, <1>10, <1>11

(* op on ranges: the union, when they have no number in common.            *)
LEMMA RangeOpIsUnion ==
  ASSUME NEW a, NEW b, Normal(a), Normal(b)
  PROVE  IF Cover(a) \cap Cover(b) = {}
         THEN Normal(RangeOp(a, b)) /\ Cover(RangeOp(a, b)) = Cover(a) \cup Cover(b)
         ELSE RangeOp(a, b) = RangeBot
<1> DEFINE s == a \o b
           m == Len(a)
           n == Len(b)
<1>1. RangeOp(a, b) = Normalize(s) BY NormalIsNotBot DEF RangeOp
<1>2. /\ a \in Seq(Int \X Int) /\ b \in Seq(Int \X Int)
      /\ m \in Nat /\ n \in Nat /\ DOMAIN a = 1 .. m /\ DOMAIN b = 1 .. n
  BY NormalFacts DEF Normal, SpanSeq
<1>3. /\ s \in Seq(Int \X Int) /\ DOMAIN s = 1 .. m + n
      /\ \A i \in 1 .. m : s[i] = a[i]
      /\ \A i \in 1 .. n : s[m + i] = b[i]
  BY <1>2
<1> HIDE DEF s, m, n
<1>4. ASSUME NEW i \in 1 .. m + n
      PROVE  (i \in 1 .. m /\ s[i] = a[i]) \/ (i - m \in 1 .. n /\ s[i] = b[i - m] /\ i > m)
  <2>1. i \in 1 .. m \/ (i - m \in 1 .. n /\ i > m /\ m + (i - m) = i) BY <1>2
  <2>2. QED BY <1>3, <2>1
<1>5. SpanSeq(s)
  <2>1. ASSUME NEW i \in 1 .. m + n PROVE s[i][1] < s[i][2]
    <3>1. \A k \in 1 .. m : a[k][1] < a[k][2] BY <1>2, NormalFacts
    <3>2. \A k \in 1 .. n : b[k][1] < b[k][2] BY <1>2, NormalFacts
    <3>3. QED BY <1>4, <3>1, <3>2
  <2>2. QED BY <1>3, <2>1 DEF SpanSeq
<1>6. Cover(s) = Cover(a) \cup Cover(b)
  <2>1. ASSUME NEW x \in Int
        PROVE  (\E i \in 1 .. m + n : In(s[i], x))
                  <=> (\E i \in 1 .. m : In(a[i], x)) \/ (\E i \in 1 .. n : In(b[i], x))
    <3>1. (\E i \in 1 .. m + n : In(s[i], x))
            => (\E i \in 1 .. m : In(a[i], x)) \/ (\E i \in 1 .. n : In(b[i], x))
      BY <1>4
    <3>2. \A i \in 1 .. m : i \in 1 .. m + n /\ s[i] = a[i] BY <1>2, <1>3
    <3>3. \A i \in 1 .. n : m + i \in 1 .. m + n /\ s[m + i] = b[i] BY <1>2, <1>3
    <3>4. QED BY <3>1, <3>2, <3>3
  <2>2. QED BY <1>2, <1>3, <2>1 DEF Cover, CoverOn
<1>7. OverlapOn(s, DOMAIN s) <=> Cover(a) \cap Cover(b) # {}
  <2>1. ASSUME NEW x \in Cover(a) \cap Cover(b) PROVE OverlapOn(s, DOMAIN s)
    <3>1. PICK i \in 1 .. m : In(a[i], x) BY <1>2 DEF Cover, CoverOn
    <3>2. PICK j \in 1 .. n : In(b[j], x) BY <1>2 DEF Cover, CoverOn
    <3>3. i \in 1 .. m + n /\ m + j \in 1 .. m + n /\ i # m + j BY <1>2
    <3>4. In(s[i], x) /\ In(s[m + j], x) BY <1>3, <3>1, <3>2
    <3>5. x \in Int BY DEF Cover, CoverOn
    <3>6. QED BY <1>3, <3>3, <3>4, <3>5 DEF OverlapOn
  <2>2. ASSUME NEW i \in 1 .. m + n, NEW j \in 1 .. m + n, i # j, NEW x \in Int,
               In(s[i], x), In(s[j], x)
        PROVE  Cover(a) \cap Cover(b) # {}
    <3>1. CASE i \in 1 .. m /\ j \in 1 .. m
      <4>1. In(a[i], x) /\ In(a[j], x) BY <1>3, <2>2, <3>1
      <4>2. a[i][2] < a[j][1] \/ a[j][2] < a[i][1] BY <1>2, <2>2, <3>1, NormalFacts
      <4>3. a[i][1] \in Int /\ a[i][2] \in Int /\ a[j][1] \in Int /\ a[j][2] \in Int
        BY <1>2, <3>1, NormalFacts
      <4>4. QED BY <4>1, <4>2, <4>3 DEF In
    <3>2. CASE i \notin 1 .. m /\ j \notin 1 .. m
      <4>1. /\ i - m \in 1 .. n /\ j - m \in 1 .. n /\ i - m # j - m
            /\ In(b[i - m], x) /\ In(b[j - m], x)
        BY <1>2, <1>4, <2>2, <3>2
      <4> DEFINE k == i - m
                 l == j - m
      <4>2. k \in DOMAIN b /\ l \in DOMAIN b /\ k # l /\ In(b[k], x) /\ In(b[l], x)
        BY <1>2, <4>1
      <4> HIDE DEF k, l
      <4>3. b[k][2] < b[l][1] \/ b[l][2] < b[k][1] BY <4>2, NormalFacts
      <4>4. b[k][1] \in Int /\ b[k][2] \in Int /\ b[l][1] \in Int /\ b[l][2] \in Int
        BY <4>2, NormalFacts
      <4>5. QED BY <4>2, <4>3, <4>4 DEF In
    <3>3. CASE i \in 1 .. m /\ j \notin 1 .. m
      <4>0. s[i] = a[i] /\ j - m \in 1 .. n /\ s[j] = b[j - m]
        BY <1>3, <1>4, <3>3
      <4>1. In(a[i], x) /\ j - m \in 1 .. n /\ In(b[j - m], x) BY <2>2, <4>0, <3>3
      <4>2. x \in Cover(a) /\ x \in Cover(b) BY <1>2, <3>3, <4>1 DEF Cover, CoverOn
      <4>3. QED BY <4>2
    <3>4. CASE i \notin 1 .. m /\ j \in 1 .. m
      <4>0. s[j] = a[j] /\ i - m \in 1 .. n /\ s[i] = b[i - m]
        BY <1>3, <1>4, <3>4
      <4>1. In(a[j], x) /\ i - m \in 1 .. n /\ In(b[i - m], x) BY <2>2, <4>0, <3>4
      <4>2. x \in Cover(a) /\ x \in Cover(b) BY <1>2, <3>4, <4>1 DEF Cover, CoverOn
      <4>3. QED BY <4>2
    <3>5. QED BY <3>1, <3>2, <3>3, <3>4
  <2>3. QED BY <1>3, <2>1, <2>2 DEF OverlapOn
<1>8. QED BY <1>1, <1>5, <1>6, <1>7, NormalizeIsExact

----------------------------------------------------------------------------
(* The amounts of the fragments of T.                                      *)
Values(fs) == [i \in DOMAIN fs |-> fs[i][2]]
Total(fs, T) == SumFunctionOnSet(Values(fs), T)
Apart(fs, T) == \A i, j \in T : i # j => Cover(fs[i][2]) \cap Cover(fs[j][2]) = {}

(* What the composition of the fragments of T is, by algebra.              *)
Counted(fs, T, w) == w = IF Total(fs, T) <= MaxCount THEN Total(fs, T) ELSE -1
Shared(fs, T, w) == w = IF Total(fs, T) <= MaxFrac THEN Total(fs, T) ELSE 0
Token(T, w) == w = IF \A i, j \in T : i = j THEN "token" ELSE "bot"
Names(fs, T, w) == w = UNION {fs[i][2] : i \in T}
Spans(fs, T, w) ==
  IF Apart(fs, T) THEN Normal(w) /\ Cover(w) = UNION {Cover(fs[i][2]) : i \in T}
  ELSE w = RangeBot

Value(fs, T, kind, w) ==
  /\ kind = "exclusive" => Token(T, w)
  /\ kind = "counted" => Counted(fs, T, w)
  /\ kind = "set" => Names(fs, T, w)
  /\ kind = "range" => Spans(fs, T, w)
  /\ kind = "frac" => Shared(fs, T, w)

Mixed(fs, T) == \E i, j \in T : fs[i][1] # fs[j][1]

Composed(fs, T, v) ==
  /\ T = {} => v = None
  /\ T # {} /\ Mixed(fs, T) => v = Mismatch
  /\ T # {} /\ ~ Mixed(fs, T) =>
       /\ v = <<v[1], v[2]>> /\ \A i \in T : fs[i][1] = v[1]
       /\ Value(fs, T, v[1], v[2])

Kinds == {"exclusive", "counted", "set", "range", "frac"}

(* What a valid fragment is, by algebra.                                   *)
LEMMA FragmentFacts ==
  ASSUME NEW f, Fragment(f)
  PROVE  /\ f = <<f[1], f[2]>> /\ f # None /\ f # Mismatch /\ f[1] \in Kinds /\ Valid(f)
         /\ f[1] = "exclusive" => f[2] = "token"
         /\ f[1] = "counted" => f[2] \in Nat /\ f[2] <= MaxCount
         /\ f[1] = "range" => Normal(f[2])
         /\ f[1] = "frac" => f[2] \in Nat /\ f[2] # 0 /\ f[2] <= MaxFrac
<1>1. f = <<f[1], f[2]>> /\ f[1] \in Kinds BY DEF Fragment, Kinds
<1>2. f # None
  <2>1. DOMAIN f = 1 .. 2 BY <1>1
  <2>2. DOMAIN None = {} BY DEF None
  <2>3. 1 \in 1 .. 2 OBVIOUS
  <2>4. QED BY <2>1, <2>2, <2>3
<1>3. f # Mismatch
  <2>1. Mismatch[1] = "mismatch" BY DEF Mismatch
  <2>2. QED BY <1>1, <2>1 DEF Kinds
<1>4. f[1] = "exclusive" => f[2] = "token" BY DEF Fragment
<1>5. f[1] = "counted" => f[2] \in Nat /\ f[2] <= MaxCount /\ f[2] # -1
  BY FragmentAssumption DEF Fragment
<1>6. f[1] = "range" => Normal(f[2]) BY DEF Fragment, InOrder, Normal, SpanSeq
<1>7. f[1] = "frac" => f[2] \in Nat /\ f[2] # 0 /\ f[2] <= MaxFrac
  BY FragmentAssumption DEF Fragment
<1>8. f[1] = "range" => f[2] # RangeBot BY <1>6, NormalIsNotBot
<1>9. Valid(f) BY <1>1, <1>4, <1>5, <1>7, <1>8 DEF Valid, Kinds
<1>10. QED BY <1>1, <1>2, <1>3, <1>4, <1>5, <1>6, <1>7, <1>9

(* Ranges::try_of refuses an empty or reversed span and two that share a   *)
(* number, and nothing else; what it returns is a valid fragment, in order *)
(* and with gaps, that has just the numbers it was given.                  *)
THEOREM TryOfIsExact ==
  ASSUME NEW spans \in Seq(Int \X Int)
  PROVE  LET r == RangeOf(spans)
             refused == \/ \E i \in DOMAIN spans : spans[i][1] >= spans[i][2]
                        \/ OverlapOn(spans, DOMAIN spans)
         IN  /\ refused <=> r = RangeBot
             /\ ~ refused => Fragment(<<"range", r>>) /\ Cover(r) = Cover(spans)
<1> DEFINE r == RangeOf(spans)
<1>1. CASE \E i \in DOMAIN spans : spans[i][1] >= spans[i][2] BY <1>1 DEF RangeOf
<1>2. CASE ~ \E i \in DOMAIN spans : spans[i][1] >= spans[i][2]
  <2>1. \A i \in DOMAIN spans : spans[i] \in Int \X Int OBVIOUS
  <2>2. \A i \in DOMAIN spans : spans[i][1] \in Int /\ spans[i][2] \in Int BY <2>1
  <2>3. SpanSeq(spans) BY <1>2, <2>2 DEF SpanSeq
  <2>4. r = Normalize(spans) BY <1>2 DEF RangeOf
  <2>5. CASE OverlapOn(spans, DOMAIN spans)
    <3>1. r = RangeBot BY <2>3, <2>4, <2>5, NormalizeIsExact
    <3>2. QED BY <2>5, <3>1
  <2>6. CASE ~ OverlapOn(spans, DOMAIN spans)
    <3>1. Normal(r) /\ Cover(r) = Cover(spans) BY <2>3, <2>4, <2>6, NormalizeIsExact
    <3>2. r # RangeBot BY <3>1, NormalIsNotBot
    <3> HIDE DEF r
    <3>3. InOrder(r) BY <3>1 DEF InOrder, Normal, SpanSeq
    <3>4. Fragment(<<"range", r>>) BY <3>3 DEF Fragment
    <3>5. QED BY <1>2, <2>6, <3>1, <3>2, <3>4 DEF r
  <2>7. QED BY <2>5, <2>6
<1>3. QED BY <1>1, <1>2

(* A total with one of its amounts taken out.                              *)
LEMMA TotalStep ==
  ASSUME NEW fs, NEW T \in SUBSET DOMAIN fs, IsFiniteSet(T), NEW m \in T,
         \A i \in T : fs[i][2] \in Nat
  PROVE  /\ Total(fs, T \ {m}) \in Nat /\ fs[m][2] \in Nat
         /\ Total(fs, T) = fs[m][2] + Total(fs, T \ {m})
         /\ T = {m} => Total(fs, T) = fs[m][2]
<1>1. \A i \in T : Values(fs)[i] = fs[i][2] BY DEF Values
<1>2. \A i \in T : Values(fs)[i] \in Int /\ Values(fs)[i] \in Nat BY <1>1
<1>3. Total(fs, T) = fs[m][2] + Total(fs, T \ {m})
  <2>1. Total(fs, T) = Values(fs)[m] + Total(fs, T \ {m}) BY <1>2, SumTerm DEF Total
  <2>2. QED BY <1>1, <2>1
<1>4. Total(fs, T \ {m}) \in Nat
  <2>1. IsFiniteSet(T \ {m}) BY FS_RemoveElement
  <2>2. \A i \in T \ {m} : Values(fs)[i] \in Nat BY <1>2
  <2>3. QED BY <2>1, <2>2, SumOfNaturals DEF Total
<1>5. T = {m} => Total(fs, T \ {m}) = 0
  <2>1. T = {m} => T \ {m} = {} OBVIOUS
  <2>2. QED BY <2>1, SumNothing DEF Total
<1>6. QED BY <1>3, <1>4, <1>5

(* One fragment alone.                                                     *)
LEMMA OneComposed ==
  ASSUME NEW fs, NEW m \in DOMAIN fs, Fragment(fs[m])
  PROVE  Composed(fs, {m}, fs[m])
<1> DEFINE T == {m}
           f == fs[m]
<1>1. f = <<f[1], f[2]>> /\ f[1] \in Kinds BY FragmentFacts
<1>2. ~ Mixed(fs, T) BY DEF Mixed
<1>3. f[1] = "exclusive" => Token(T, f[2]) BY FragmentFacts DEF Token
<1>4. IsFiniteSet(T) BY FS_Singleton
<1>5. f[2] \in Nat => Total(fs, T) = f[2]
  <2>1. ASSUME f[2] \in Nat PROVE \A i \in T : fs[i][2] \in Nat BY <2>1
  <2>2. T \in SUBSET DOMAIN fs /\ m \in T OBVIOUS
  <2> HIDE DEF T
  <2>3. QED BY <1>4, <2>1, <2>2, TotalStep DEF T
<1>6. f[1] = "counted" => Counted(fs, T, f[2]) BY <1>5, FragmentFacts DEF Counted
<1>7. f[1] = "frac" => Shared(fs, T, f[2]) BY <1>5, FragmentFacts DEF Shared
<1>8. f[1] = "set" => Names(fs, T, f[2]) BY DEF Names
<1>9. f[1] = "range" => Spans(fs, T, f[2])
  <2>1. Apart(fs, T) BY DEF Apart
  <2>2. UNION {Cover(fs[i][2]) : i \in T} = Cover(f[2]) OBVIOUS
  <2>3. QED BY <2>1, <2>2, FragmentFacts DEF Spans
<1>10. Value(fs, T, f[1], f[2]) BY <1>3, <1>6, <1>7, <1>8, <1>9 DEF Value
<1>11. T # {} /\ \A i \in T : fs[i][1] = f[1] OBVIOUS
<1> HIDE DEF T
<1>12. QED BY <1>1, <1>2, <1>10, <1>11 DEF Composed, T

(* A fragment more.                                                        *)
LEMMA MoreComposed ==
  ASSUME NEW fs, NEW T \in SUBSET DOMAIN fs, IsFiniteSet(T), NEW m \in T,
         \A i \in T : Fragment(fs[i]), NEW kind, \A i \in T : fs[i][1] = kind,
         T \ {m} # {}, NEW w, Value(fs, T \ {m}, kind, w)
  PROVE  Value(fs, T, kind, Op(fs[m], <<kind, w>>)[2])
<1> DEFINE R == T \ {m}
           f == fs[m]
           a == f[2]
           r == Op(f, <<kind, w>>)[2]
<1>1. f[1] = kind /\ kind \in Kinds /\ f # Mismatch BY FragmentFacts
<1>2. <<kind, w>> # Mismatch BY <1>1 DEF Mismatch, Kinds
<1>3. r = CASE kind = "exclusive" -> "bot"
            [] kind = "counted" -> CountOp(a, w)
            [] kind = "set" -> a \cup w
            [] kind = "range" -> RangeOp(a, w)
            [] kind = "frac" -> FracOp(a, w)
  BY <1>1, <1>2 DEF Op
<1>4. T = R \cup {m} /\ m \notin R OBVIOUS
<1>5. PICK k \in R : TRUE OBVIOUS
<1> HIDE DEF r
<1>6. CASE kind = "exclusive"
  <2>1. r = "bot" BY <1>3, <1>6
  <2>2. ~ \A i, j \in T : i = j BY <1>4, <1>5
  <2>3. Token(T, r) BY <2>1, <2>2 DEF Token
  <2>4. QED BY <1>6, <2>3 DEF Value, r
<1>7. CASE kind = "counted"
  <2>1. \A i \in T : fs[i][2] \in Nat BY <1>7, FragmentFacts
  <2>2. Total(fs, R) \in Nat /\ a \in Nat /\ Total(fs, T) = a + Total(fs, R)
    <3>1. Total(fs, R) \in Nat /\ a \in Nat BY <2>1, TotalStep
    <3>2. Total(fs, T) = a + Total(fs, R) BY <2>1, TotalStep
    <3>3. QED BY <3>1, <3>2
  <2>3. w = IF Total(fs, R) <= MaxCount THEN Total(fs, R) ELSE -1
    BY <1>7 DEF Value, Counted
  <2>4. r = CountOp(a, w) BY <1>3, <1>7
  <2>5. MaxCount \in Nat BY FragmentAssumption
  <2> HIDE DEF R, a
  <2>6. Counted(fs, T, r) BY <2>2, <2>3, <2>4, <2>5 DEF Counted, CountOp
  <2>7. QED BY <1>7, <2>6 DEF Value, r
<1>8. CASE kind = "frac"
  <2>1. \A i \in T : fs[i][2] \in Nat /\ fs[i][2] # 0 BY <1>8, FragmentFacts
  <2>2. Total(fs, R) \in Nat /\ a \in Nat /\ a # 0 /\ Total(fs, T) = a + Total(fs, R)
    BY <2>1, TotalStep
  <2>3. w = IF Total(fs, R) <= MaxFrac THEN Total(fs, R) ELSE 0
    BY <1>8 DEF Value, Shared
  <2>4. Total(fs, R) # 0
    <3>1. IsFiniteSet(R) /\ R \in SUBSET DOMAIN fs BY FS_RemoveElement
    <3>2. \A i \in R : fs[i][2] \in Nat /\ fs[i][2] # 0 BY <2>1
    <3> HIDE DEF R
    <3>3. /\ Total(fs, R \ {k}) \in Nat /\ fs[k][2] \in Nat
          /\ Total(fs, R) = fs[k][2] + Total(fs, R \ {k})
      BY <1>5, <3>1, <3>2, TotalStep
    <3>4. fs[k][2] # 0 BY <1>5, <3>2
    <3>5. QED BY <3>3, <3>4
  <2>5. r = FracOp(a, w) BY <1>3, <1>8
  <2>6. MaxFrac \in Nat BY FragmentAssumption
  <2> HIDE DEF R, a
  <2>7. Shared(fs, T, r) BY <2>2, <2>3, <2>4, <2>5, <2>6 DEF Shared, FracOp
  <2>8. QED BY <1>8, <2>7 DEF Value, r
<1>9. CASE kind = "set"
  <2>1. r = a \cup w BY <1>3, <1>9
  <2>2. w = UNION {fs[i][2] : i \in R} BY <1>9 DEF Value, Names
  <2>3. r = UNION {fs[i][2] : i \in T} BY <1>4, <2>1, <2>2
  <2>4. Names(fs, T, r) BY <2>3 DEF Names
  <2>5. QED BY <1>9, <2>4 DEF Value, r
<1>10. CASE kind = "range"
  <2>1. r = RangeOp(a, w) BY <1>3, <1>10
  <2>2. Normal(a) BY <1>1, <1>10, FragmentFacts
  <2>3. Spans(fs, R, w) BY <1>10 DEF Value
  <2>4. CASE ~ Apart(fs, R)
    <3>1. w = RangeBot BY <2>3, <2>4 DEF Spans
    <3>2. r = RangeBot BY <2>1, <3>1 DEF RangeOp
    <3>3. ~ Apart(fs, T) BY <2>4 DEF Apart
    <3>4. Spans(fs, T, r) BY <3>2, <3>3 DEF Spans
    <3>5. QED BY <1>10, <3>4 DEF Value, r
  <2>5. CASE Apart(fs, R)
    <3>1. Normal(w) /\ Cover(w) = UNION {Cover(fs[i][2]) : i \in R} BY <2>3, <2>5 DEF Spans
    <3>2. IF Cover(a) \cap Cover(w) = {}
          THEN Normal(r) /\ Cover(r) = Cover(a) \cup Cover(w)
          ELSE r = RangeBot
      BY <2>1, <2>2, <3>1, RangeOpIsUnion
    <3>3. Cover(a) \cup Cover(w) = UNION {Cover(fs[i][2]) : i \in T} BY <1>4, <3>1
    <3>4. Apart(fs, T) <=> Cover(a) \cap Cover(w) = {}
      <4>1. Cover(a) \cap Cover(w) = {} <=> \A i \in R : Cover(a) \cap Cover(fs[i][2]) = {}
        BY <3>1
      <4>2. ASSUME Apart(fs, T), NEW i \in R PROVE Cover(a) \cap Cover(fs[i][2]) = {}
        <5>1. i # m /\ i \in T BY <1>4
        <5>2. QED BY <4>2, <5>1 DEF Apart
      <4>3. ASSUME \A i \in R : Cover(a) \cap Cover(fs[i][2]) = {},
                   NEW i \in T, NEW j \in T, i # j
            PROVE  Cover(fs[i][2]) \cap Cover(fs[j][2]) = {}
        <5>1. CASE i \in R /\ j \in R BY <2>5, <4>3, <5>1 DEF Apart
        <5>2. CASE i = m
          <6>1. j \in R BY <4>3, <5>2
          <6>2. QED BY <4>3, <5>2, <6>1
        <5>3. CASE j = m
          <6>1. i \in R BY <4>3, <5>3
          <6>2. Cover(a) \cap Cover(fs[i][2]) = {} BY <4>3, <6>1
          <6>3. QED BY <5>3, <6>2
        <5>4. QED BY <5>1, <5>2, <5>3
      <4>4. QED BY <4>1, <4>2, <4>3 DEF Apart
    <3>5. Spans(fs, T, r) BY <3>2, <3>3, <3>4 DEF Spans
    <3>6. QED BY <1>10, <3>5 DEF Value, r
  <2>6. QED BY <2>4, <2>5
<1>11. QED BY <1>1, <1>6, <1>7, <1>8, <1>9, <1>10 DEF Kinds

(* compose_frags takes one fragment more, of whatever algebra.             *)
LEMMA ComposedStep ==
  ASSUME NEW fs, NEW T \in SUBSET DOMAIN fs, IsFiniteSet(T), NEW m \in T,
         \A i \in T : Fragment(fs[i]), NEW v, Composed(fs, T \ {m}, v)
  PROVE  Composed(fs, T, OptionOp(fs[m], v))
<1> DEFINE R == T \ {m}
           f == fs[m]
           r == OptionOp(f, v)
<1>0. Fragment(f) /\ f = <<f[1], f[2]>> /\ f # None /\ f # Mismatch /\ f[1] \in Kinds
  BY FragmentFacts
<1>a. \A i \in T : fs[i][1] \in Kinds BY FragmentFacts
<1>1. CASE R = {}
  <2>1. v = None BY <1>1 DEF Composed
  <2>2. T = {m} BY <1>1
  <2>3. r = f BY <1>0, <2>1 DEF OptionOp
  <2>4. Composed(fs, {m}, f) BY <1>0, OneComposed
  <2>5. QED BY <2>2, <2>3, <2>4
<1>2. CASE R # {} /\ Mixed(fs, R)
  <2>1. v = Mismatch BY <1>2 DEF Composed
  <2>2. Mixed(fs, T) /\ T # {} BY <1>2 DEF Mixed
  <2>3. v # None BY <2>1 DEF None, Mismatch
  <2>4. r = Mismatch BY <1>0, <2>1, <2>3 DEF OptionOp, Op
  <2>5. QED BY <2>2, <2>4 DEF Composed
<1>3. CASE R # {} /\ ~ Mixed(fs, R)
  <2>1. /\ v = <<v[1], v[2]>> /\ \A i \in R : fs[i][1] = v[1]
        /\ Value(fs, R, v[1], v[2])
    BY <1>3 DEF Composed
  <2>2. PICK k \in R : TRUE BY <1>3
  <2>3. k \in T /\ fs[k][1] = v[1] /\ v[1] \in Kinds BY <1>a, <2>1, <2>2
  <2>4. v # None /\ v # Mismatch
    <3>1. DOMAIN v = 1 .. 2 BY <2>1
    <3>2. DOMAIN None = {} /\ 1 \in 1 .. 2 BY DEF None
    <3>3. Mismatch[1] = "mismatch" BY DEF Mismatch
    <3>4. v # None BY <3>1, <3>2
    <3>5. QED BY <2>3, <3>3, <3>4 DEF Kinds
  <2>5. r = Op(f, v) BY <1>0, <2>4 DEF OptionOp
  <2>6. CASE f[1] # v[1]
    <3>1. r = Mismatch BY <2>5, <2>6 DEF Op
    <3>2. Mixed(fs, T) /\ T # {} BY <2>3, <2>6 DEF Mixed
    <3>3. QED BY <3>1, <3>2 DEF Composed
  <2>7. CASE f[1] = v[1]
    <3> DEFINE kind == v[1]
               w == v[2]
    <3>1. v = <<kind, w>> BY <2>1
    <3>2. \A i \in T : fs[i][1] = kind BY <2>1, <2>7
    <3>3. ~ Mixed(fs, T) /\ T # {} BY <3>2 DEF Mixed
    <3>4. r[1] = kind /\ r = <<r[1], r[2]>>
      <4>1. \E y : Op(f, v) = <<f[1], y>> BY <1>0, <2>4, <2>7 DEF Op
      <4>2. PICK y : r = <<f[1], y>> BY <2>5, <4>1
      <4> HIDE DEF r
      <4>3. QED BY <2>7, <4>2
    <3>5. Value(fs, R, kind, w) BY <2>1
    <3> HIDE DEF kind, w
    <3>6. Value(fs, T, kind, Op(f, <<kind, w>>)[2]) BY <1>3, <3>2, <3>5, MoreComposed
    <3>7. Value(fs, T, kind, r[2]) BY <2>5, <3>1, <3>6
    <3> HIDE DEF r
    <3>8. Composed(fs, T, r) BY <3>2, <3>3, <3>4, <3>7 DEF Composed
    <3>9. QED BY <3>8 DEF r
  <2>8. QED BY <2>6, <2>7
<1>4. QED BY <1>1, <1>2, <1>3

(* compose_frags, whatever the order it takes the fragments in.            *)
LEMMA ComposeIs ==
  ASSUME NEW fs, IsFiniteSet(DOMAIN fs), \A i \in DOMAIN fs : Fragment(fs[i])
  PROVE  Composed(fs, DOMAIN fs, Compose(fs))
<1> DEFINE D == DOMAIN fs
<1>1. PICK g, pick :
           /\ Compose(fs) = g[D]
           /\ g[{}] = None
           /\ \A s \in SUBSET D : s # {} =>
                pick[s] \in s /\ g[s] = OptionOp(fs[pick[s]], g[s \ {pick[s]}])
  BY ComposeFold
<1> DEFINE P == {T \in SUBSET D : Composed(fs, T, g[T])}
<1>2. ASSUME NEW T \in SUBSET D, \A x \in T : T \ {x} \in P PROVE T \in P
  <2>1. CASE T = {} BY <1>1, <2>1 DEF Composed
  <2>2. CASE T # {}
    <3> DEFINE m == pick[T]
    <3>1. m \in T /\ g[T] = OptionOp(fs[m], g[T \ {m}]) BY <1>1, <2>2
    <3> HIDE DEF m
    <3>2. Composed(fs, T \ {m}, g[T \ {m}]) BY <1>2, <3>1
    <3>3. IsFiniteSet(T) BY FS_Subset
    <3>4. Composed(fs, T, OptionOp(fs[m], g[T \ {m}])) BY <3>1, <3>2, <3>3, ComposedStep
    <3>5. QED BY <3>1, <3>4
  <2>3. QED BY <2>1, <2>2
<1>3. D \in P
  <2> HIDE DEF P
  <2>1. \A T \in SUBSET D : T \in P BY <1>2, FiniteShrinks
  <2>2. QED BY <2>1
<1>4. QED BY <1>1, <1>3

----------------------------------------------------------------------------
(* What the gate admits, by algebra.                                       *)
Fits(c, fs) ==
  /\ \A i \in DOMAIN fs : fs[i][1] = c[1]
  /\ c[1] = "exclusive" => \A i, j \in DOMAIN fs : i = j
  /\ c[1] \in {"counted", "frac"} => Total(fs, DOMAIN fs) <= c[2]
  /\ c[1] = "set" => \A i \in DOMAIN fs : fs[i][2] \subseteq c[2]
  /\ c[1] = "range" => /\ Apart(fs, DOMAIN fs)
                       /\ \A i \in DOMAIN fs : Cover(fs[i][2]) \subseteq Cover(c[2])

(* Fragments of two algebras make nothing valid.                           *)
LEMMA MismatchIsInvalid == ~ Valid(Mismatch) /\ Mismatch # None
<1>1. Mismatch[1] = "mismatch" /\ Mismatch = <<"mismatch", 0>> BY DEF Mismatch
<1>2. ~ Valid(Mismatch) BY <1>1 DEF Valid
<1>3. DOMAIN Mismatch = 1 .. 2 BY <1>1
<1>4. DOMAIN None = {} /\ 1 \in 1 .. 2 BY DEF None
<1>5. Mismatch # None BY <1>3, <1>4
<1>6. QED BY <1>2, <1>5

(* A fragment is not the absence of one.                                   *)
LEMMA PairIsSome ==
  ASSUME NEW x, x = <<x[1], x[2]>>
  PROVE  x # None
<1>1. DOMAIN x = 1 .. 2 OBVIOUS
<1>2. DOMAIN None = {} /\ 1 \in 1 .. 2 BY DEF None
<1>3. QED BY <1>1, <1>2

(* frag_auth_valid of one kind of fragment.                                *)
LEMMA GateOfValue ==
  ASSUME NEW c, Fragment(c), NEW fs, IsFiniteSet(DOMAIN fs), DOMAIN fs # {},
         \A i \in DOMAIN fs : Fragment(fs[i]) /\ fs[i][1] = c[1],
         NEW v, v = <<c[1], v[2]>>, Value(fs, DOMAIN fs, c[1], v[2])
  PROVE  FragAuthValid(c, v) <=> Fits(c, fs)
<1> DEFINE D == DOMAIN fs
           kind == c[1]
           w == v[2]
<1>1. v[1] = kind /\ v = <<v[1], v[2]>> /\ v # None
  <2>1. v[1] = kind OBVIOUS
  <2>2. QED BY <2>1, PairIsSome
<1>2. c # None /\ Valid(c) /\ kind \in Kinds /\ c = <<kind, c[2]>> BY FragmentFacts
<1>3. FragAuthValid(c, v) <=> Valid(v) /\ (v = c \/ IncludedIn(v, c))
  BY <1>1, <1>2 DEF FragAuthValid, OptionIncludedIn
<1>4. v = c <=> w = c[2] BY <1>1, <1>2
<1>5. PICK k \in D : TRUE OBVIOUS
<1>6. CASE kind = "exclusive"
  <2>1. w = IF \A i, j \in D : i = j THEN "token" ELSE "bot" BY <1>6 DEF Value, Token
  <2>2. c[2] = "token" BY <1>6, FragmentFacts
  <2>3. Valid(v) <=> w = "token" BY <1>1, <1>6 DEF Valid
  <2>4. Fits(c, fs) <=> \A i, j \in D : i = j BY <1>6 DEF Fits
  <2>5. QED BY <1>3, <1>4, <2>1, <2>2, <2>3, <2>4
<1>7. CASE kind = "counted"
  <2>1. \A i \in D : fs[i][2] \in Nat BY <1>7, FragmentFacts
  <2>2. Total(fs, D) \in Nat
    <3>0. \A i \in D : fs[i][2] \in Nat BY <2>1
    <3>1. /\ Total(fs, D \ {k}) \in Nat /\ fs[k][2] \in Nat
          /\ Total(fs, D) = fs[k][2] + Total(fs, D \ {k})
      <4>1. k \in D /\ D \in SUBSET DOMAIN fs /\ IsFiniteSet(D) BY <1>5
      <4> HIDE DEF D
      <4>2. QED BY <3>0, <4>1, TotalStep
    <3>2. QED BY <3>1
  <2>3. w = IF Total(fs, D) <= MaxCount THEN Total(fs, D) ELSE -1 BY <1>7 DEF Value, Counted
  <2>4. c[2] \in Nat /\ c[2] <= MaxCount BY <1>7, FragmentFacts
  <2>5. Valid(v) <=> w # -1 BY <1>1, <1>7 DEF Valid
  <2>6. IncludedIn(v, c) <=> CountIncluded(w, c[2]) BY <1>1, <1>7 DEF IncludedIn
  <2>7. Fits(c, fs) <=> Total(fs, D) <= c[2] BY <1>7 DEF Fits
  <2>8. MaxCount \in Nat BY FragmentAssumption
  <2> HIDE DEF D, w, kind
  <2>9. (w # -1 /\ (w = c[2] \/ CountIncluded(w, c[2]))) <=> Total(fs, D) <= c[2]
    BY <2>2, <2>3, <2>4, <2>8 DEF CountIncluded
  <2>10. QED BY <1>3, <1>4, <2>5, <2>6, <2>7, <2>9
<1>8. CASE kind = "frac"
  <2>1. \A i \in D : fs[i][2] \in Nat /\ fs[i][2] # 0 BY <1>8, FragmentFacts
  <2>2. Total(fs, D) \in Nat /\ Total(fs, D) # 0
    <3>0. \A i \in D : fs[i][2] \in Nat BY <2>1
    <3>1. /\ Total(fs, D \ {k}) \in Nat /\ fs[k][2] \in Nat
          /\ Total(fs, D) = fs[k][2] + Total(fs, D \ {k})
      <4>1. k \in D /\ D \in SUBSET DOMAIN fs /\ IsFiniteSet(D) BY <1>5
      <4> HIDE DEF D
      <4>2. QED BY <3>0, <4>1, TotalStep
    <3>2. fs[k][2] # 0 BY <1>5, <2>1
    <3>3. QED BY <3>1, <3>2
  <2>3. w = IF Total(fs, D) <= MaxFrac THEN Total(fs, D) ELSE 0 BY <1>8 DEF Value, Shared
  <2>4. c[2] \in Nat /\ c[2] <= MaxFrac /\ c[2] # 0 BY <1>8, FragmentFacts
  <2>5. Valid(v) <=> w # 0 BY <1>1, <1>8 DEF Valid
  <2>6. IncludedIn(v, c) <=> FracIncluded(w, c[2]) BY <1>1, <1>8 DEF IncludedIn
  <2>7. Fits(c, fs) <=> Total(fs, D) <= c[2] BY <1>8 DEF Fits
  <2>8. MaxFrac \in Nat BY FragmentAssumption
  <2> HIDE DEF D, w, kind
  <2>9. (w # 0 /\ (w = c[2] \/ FracIncluded(w, c[2]))) <=> Total(fs, D) <= c[2]
    BY <2>2, <2>3, <2>4, <2>8 DEF FracIncluded
  <2>10. QED BY <1>3, <1>4, <2>5, <2>6, <2>7, <2>9
<1>9. CASE kind = "set"
  <2>1. w = UNION {fs[i][2] : i \in D} BY <1>9 DEF Value, Names
  <2>2. Valid(v) BY <1>1, <1>9 DEF Valid
  <2>3. IncludedIn(v, c) <=> w \subseteq c[2] BY <1>1, <1>9 DEF IncludedIn
  <2>4. Fits(c, fs) <=> \A i \in D : fs[i][2] \subseteq c[2] BY <1>9 DEF Fits
  <2>5. w \subseteq c[2] <=> \A i \in D : fs[i][2] \subseteq c[2] BY <2>1
  <2>6. w = c[2] => w \subseteq c[2] OBVIOUS
  <2> HIDE DEF D, w, kind
  <2>7. QED BY <1>3, <1>4, <2>2, <2>3, <2>4, <2>5, <2>6
<1>10. CASE kind = "range"
  <2>1. Spans(fs, D, w) BY <1>10 DEF Value
  <2>2. Normal(c[2]) BY <1>10, FragmentFacts
  <2>3. Valid(v) <=> w # RangeBot BY <1>1, <1>10 DEF Valid
  <2>4. IncludedIn(v, c) <=> RangeIncluded(w, c[2]) BY <1>1, <1>10 DEF IncludedIn
  <2>5. Fits(c, fs) <=> Apart(fs, D) /\ \A i \in D : Cover(fs[i][2]) \subseteq Cover(c[2])
    BY <1>10 DEF Fits
  <2>6. CASE ~ Apart(fs, D)
    <3>1. w = RangeBot BY <2>1, <2>6 DEF Spans
    <3>2. QED BY <1>3, <2>3, <2>5, <2>6, <3>1
  <2>7. CASE Apart(fs, D)
    <3>1. Normal(w) /\ Cover(w) = UNION {Cover(fs[i][2]) : i \in D}
      BY <2>1, <2>7 DEF Spans
    <3>2. w # RangeBot /\ c[2] # RangeBot BY <2>2, <3>1, NormalIsNotBot
    <3>3. RangeIncluded(w, c[2]) <=> Cover(w) \subseteq Cover(c[2])
      BY <2>2, <3>1, <3>2, CoversIffHasAll DEF RangeIncluded
    <3>4. Cover(w) \subseteq Cover(c[2]) <=> \A i \in D : Cover(fs[i][2]) \subseteq Cover(c[2])
      BY <3>1
    <3>5. w = c[2] => Cover(w) \subseteq Cover(c[2]) OBVIOUS
    <3> HIDE DEF D, w, kind
    <3>6. QED BY <1>3, <1>4, <2>3, <2>4, <2>5, <2>7, <3>2, <3>3, <3>4, <3>5
  <2>8. QED BY <2>6, <2>7
<1>11. QED BY <1>2, <1>6, <1>7, <1>8, <1>9, <1>10 DEF Kinds

(* The gate admits exactly what fits.                                      *)
LEMMA GateAdmitsWhatFits ==
  ASSUME NEW c, Fragment(c), NEW fs, IsFiniteSet(DOMAIN fs), \A i \in DOMAIN fs : Fragment(fs[i])
  PROVE  AuthValid(c, fs) <=> Fits(c, fs)
<1> DEFINE D == DOMAIN fs
           v == Compose(fs)
<1>1. Composed(fs, D, v) BY ComposeIs
<1>2. AuthValid(c, fs) <=> FragAuthValid(c, v) BY DEF AuthValid
<1>3. c # None /\ Valid(c) /\ c = <<c[1], c[2]>> BY FragmentFacts
<1> HIDE DEF v
<1>4. CASE D = {}
  <2>1. v = None BY <1>1, <1>4 DEF Composed
  <2>2. FragAuthValid(c, v) BY <1>3, <2>1 DEF FragAuthValid, OptionIncludedIn
  <2>3. Total(fs, D) = 0 BY <1>4, SumNothing DEF Total
  <2>4. c[1] \in {"counted", "frac"} => c[2] \in Nat BY FragmentFacts
  <2>5. Fits(c, fs) BY <1>4, <2>3, <2>4 DEF Fits, Apart
  <2>6. QED BY <1>2, <2>2, <2>5
<1>5. CASE D # {} /\ Mixed(fs, D)
  <2>1. v = Mismatch BY <1>1, <1>5 DEF Composed
  <2>2. ~ FragAuthValid(c, v) BY <2>1, MismatchIsInvalid DEF FragAuthValid
  <2>3. ~ Fits(c, fs) BY <1>5 DEF Fits, Mixed
  <2>4. QED BY <1>2, <2>2, <2>3
<1>6. CASE D # {} /\ ~ Mixed(fs, D)
  <2>1. v = <<v[1], v[2]>> /\ (\A i \in D : fs[i][1] = v[1]) /\ Value(fs, D, v[1], v[2])
    BY <1>1, <1>6 DEF Composed
  <2>2. v # None BY <2>1, PairIsSome
  <2>3. CASE v[1] # c[1]
    <3>1. ~ Fits(c, fs) BY <1>6, <2>1, <2>3 DEF Fits
    <3>2. v # c /\ ~ IncludedIn(v, c) BY <2>3 DEF IncludedIn
    <3>3. QED BY <1>2, <2>2, <3>1, <3>2 DEF FragAuthValid, OptionIncludedIn
  <2>4. CASE v[1] = c[1]
    <3>1. \A i \in D : Fragment(fs[i]) /\ fs[i][1] = c[1] BY <2>1, <2>4
    <3>2. v = <<c[1], v[2]>> /\ Value(fs, D, c[1], v[2]) BY <2>1, <2>4
    <3>3. FragAuthValid(c, v) <=> Fits(c, fs) BY <1>6, <3>1, <3>2, GateOfValue
    <3>4. QED BY <1>2, <3>3
  <2>5. QED BY <2>3, <2>4
<1>7. QED BY <1>4, <1>5, <1>6

----------------------------------------------------------------------------
(* Some of a family, under other indices.                                  *)
Picks(gs, fs, h) ==
  /\ \A i \in DOMAIN gs : h[i] \in DOMAIN fs /\ gs[i] = fs[h[i]]
  /\ \A i, j \in DOMAIN gs : i # j => h[i] # h[j]

(* Some of the amounts are no more than all of them.                       *)
LEMMA TotalOfPicked ==
  ASSUME NEW fs, NEW gs, NEW h, Picks(gs, fs, h), IsFiniteSet(DOMAIN fs), IsFiniteSet(DOMAIN gs),
         \A i \in DOMAIN fs : fs[i][2] \in Nat
  PROVE  /\ Total(gs, DOMAIN gs) <= Total(fs, DOMAIN fs)
         /\ (\A k \in DOMAIN fs : \E i \in DOMAIN gs : h[i] = k) =>
              Total(gs, DOMAIN gs) = Total(fs, DOMAIN fs)
<1> DEFINE G == DOMAIN gs
           F == DOMAIN fs
           img(T) == {h[i] : i \in T}
           P == {T \in SUBSET G : Total(gs, T) = Total(fs, img(T))}
<1>1. \A i \in G : h[i] \in F /\ gs[i] = fs[h[i]] /\ gs[i][2] \in Nat BY DEF Picks
<1>2. \A i, j \in G : i # j => h[i] # h[j] BY DEF Picks
<1>3. ASSUME NEW T \in SUBSET G, \A x \in T : T \ {x} \in P PROVE T \in P
  <2>1. CASE T = {}
    <3>1. img(T) = {} BY <2>1
    <3>2. QED BY <2>1, <3>1, SumNothing DEF Total
  <2>2. CASE T # {}
    <3>1. PICK x \in T : TRUE BY <2>2
    <3>2. x \in G /\ h[x] \in img(T) OBVIOUS
    <3>3. img(T \ {x}) = img(T) \ {h[x]} BY <1>2, <3>1
    <3>4. img(T) \in SUBSET F BY <1>1
    <3>5. Total(gs, T \ {x}) = Total(fs, img(T \ {x})) BY <1>3, <3>1
    <3> DEFINE I == img(T)
    <3> HIDE DEF img
    <3>6. IsFiniteSet(T) /\ IsFiniteSet(I) BY <3>4, FS_Subset
    <3>7. \A i \in T : gs[i][2] \in Nat BY <1>1
    <3>8. Total(gs, T) = gs[x][2] + Total(gs, T \ {x}) BY <3>1, <3>6, <3>7, TotalStep
    <3>9. Total(fs, I) = fs[h[x]][2] + Total(fs, I \ {h[x]})
      <4>1. \A i \in I : fs[i][2] \in Nat BY <3>4
      <4>2. h[x] \in I /\ I \in SUBSET F BY <3>2, <3>4
      <4> HIDE DEF I
      <4>3. QED BY <3>6, <4>1, <4>2, TotalStep
    <3>10. gs[x][2] = fs[h[x]][2] BY <1>1, <3>2
    <3>11. QED BY <3>3, <3>5, <3>8, <3>9, <3>10
  <2>3. QED BY <2>1, <2>2
<1>4. G \in P
  <2> HIDE DEF P
  <2>1. \A T \in SUBSET G : T \in P BY <1>3, FiniteShrinks
  <2>2. QED BY <2>1
<1>5. Total(gs, G) = Total(fs, img(G)) BY <1>4
<1>6. img(G) \in SUBSET F BY <1>1
<1>7. Total(fs, img(G)) <= Total(fs, F)
  <2>1. \A i \in F : Values(fs)[i] \in Nat BY DEF Values
  <2> HIDE DEF img
  <2>2. QED BY <1>6, <2>1, SumGrows DEF Total
<1>8. (\A k \in F : \E i \in G : h[i] = k) => img(G) = F BY <1>1
<1>9. QED BY <1>5, <1>7, <1>8

(* What fits goes on fitting when some of it is gone.                      *)
LEMMA PartFits ==
  ASSUME NEW c, NEW fs, NEW gs, NEW h, Picks(gs, fs, h),
         IsFiniteSet(DOMAIN fs), IsFiniteSet(DOMAIN gs),
         \A i \in DOMAIN fs : Fragment(fs[i]), Fragment(c), Fits(c, fs)
  PROVE  Fits(c, gs)
<1>1. \A i \in DOMAIN gs : h[i] \in DOMAIN fs /\ gs[i] = fs[h[i]] BY DEF Picks
<1>2. \A i, j \in DOMAIN gs : i # j => h[i] # h[j] BY DEF Picks
<1>3. \A i \in DOMAIN gs : gs[i][1] = c[1] BY <1>1 DEF Fits
<1>4. c[1] = "exclusive" => \A i, j \in DOMAIN gs : i = j BY <1>1, <1>2 DEF Fits
<1>5. c[1] \in {"counted", "frac"} => Total(gs, DOMAIN gs) <= c[2]
  <2> SUFFICES ASSUME c[1] \in {"counted", "frac"} PROVE Total(gs, DOMAIN gs) <= c[2]
    OBVIOUS
  <2>1. \A i \in DOMAIN fs : fs[i][1] = c[1] BY DEF Fits
  <2>2. \A i \in DOMAIN fs : fs[i][2] \in Nat BY <2>1, FragmentFacts
  <2>3. \A i \in DOMAIN gs : gs[i][2] \in Nat BY <1>1, <2>2
  <2>4. Total(gs, DOMAIN gs) <= Total(fs, DOMAIN fs) BY <2>2, TotalOfPicked
  <2>5. Total(fs, DOMAIN fs) <= c[2] BY DEF Fits
  <2>6. Total(fs, DOMAIN fs) \in Nat /\ Total(gs, DOMAIN gs) \in Nat /\ c[2] \in Nat
    <3>1. \A i \in DOMAIN fs : Values(fs)[i] \in Nat BY <2>2 DEF Values
    <3>2. \A i \in DOMAIN gs : Values(gs)[i] \in Nat BY <2>3 DEF Values
    <3>3. QED BY <3>1, <3>2, SumOfNaturals, FragmentFacts DEF Total
  <2>7. QED BY <2>4, <2>5, <2>6
<1>6. c[1] = "set" => \A i \in DOMAIN gs : gs[i][2] \subseteq c[2] BY <1>1 DEF Fits
<1>7. c[1] = "range" => /\ Apart(gs, DOMAIN gs)
                        /\ \A i \in DOMAIN gs : Cover(gs[i][2]) \subseteq Cover(c[2])
  <2> SUFFICES ASSUME c[1] = "range"
               PROVE  /\ Apart(gs, DOMAIN gs)
                      /\ \A i \in DOMAIN gs : Cover(gs[i][2]) \subseteq Cover(c[2])
    OBVIOUS
  <2>1. /\ Apart(fs, DOMAIN fs)
        /\ \A i \in DOMAIN fs : Cover(fs[i][2]) \subseteq Cover(c[2])
    BY DEF Fits
  <2>2. \A i \in DOMAIN gs : Cover(gs[i][2]) \subseteq Cover(c[2]) BY <1>1, <2>1
  <2>3. ASSUME NEW i \in DOMAIN gs, NEW j \in DOMAIN gs, i # j
        PROVE  Cover(gs[i][2]) \cap Cover(gs[j][2]) = {}
    <3>1. h[i] \in DOMAIN fs /\ h[j] \in DOMAIN fs /\ h[i] # h[j] BY <1>1, <1>2, <2>3
    <3>2. Cover(fs[h[i]][2]) \cap Cover(fs[h[j]][2]) = {} BY <2>1, <3>1 DEF Apart
    <3>3. QED BY <1>1, <3>2
  <2>4. QED BY <2>2, <2>3 DEF Apart
<1>8. QED BY <1>3, <1>4, <1>5, <1>6, <1>7 DEF Fits

(* The same fragments in another order.                                    *)
LEMMA ComposeAnyOrder ==
  ASSUME NEW fs, NEW gs, NEW h, Picks(gs, fs, h),
         \A k \in DOMAIN fs : \E i \in DOMAIN gs : h[i] = k,
         IsFiniteSet(DOMAIN fs), IsFiniteSet(DOMAIN gs), \A i \in DOMAIN fs : Fragment(fs[i])
  PROVE  Compose(gs) = Compose(fs)
<1> DEFINE F == DOMAIN fs
           G == DOMAIN gs
           v == Compose(fs)
           u == Compose(gs)
<1>1. \A i \in G : h[i] \in F /\ gs[i] = fs[h[i]] BY DEF Picks
<1>2. \A i, j \in G : i # j => h[i] # h[j] BY DEF Picks
<1>3. \A k \in F : \E i \in G : h[i] = k OBVIOUS
<1>4. Composed(fs, F, v) BY ComposeIs
<1>5. Composed(gs, G, u)
  <2>1. \A i \in G : Fragment(gs[i]) BY <1>1
  <2>2. QED BY <2>1, ComposeIs
<1> HIDE DEF u, v
<1>6. F = {} <=> G = {} BY <1>1, <1>3
<1>7. Mixed(fs, F) <=> Mixed(gs, G)
  <2>1. ASSUME NEW i \in F, NEW j \in F, fs[i][1] # fs[j][1] PROVE Mixed(gs, G)
    <3>1. PICK k \in G : h[k] = i BY <1>3
    <3>2. PICK l \in G : h[l] = j BY <1>3
    <3>3. QED BY <1>1, <2>1, <3>1, <3>2 DEF Mixed
  <2>2. ASSUME NEW i \in G, NEW j \in G, gs[i][1] # gs[j][1] PROVE Mixed(fs, F)
    BY <1>1, <2>2 DEF Mixed
  <2>3. QED BY <2>1, <2>2 DEF Mixed
<1>8. CASE F = {} BY <1>4, <1>5, <1>6, <1>8 DEF Composed, u, v
<1>9. CASE F # {} /\ Mixed(fs, F) BY <1>4, <1>5, <1>6, <1>7, <1>9 DEF Composed, u, v
<1>10. CASE F # {} /\ ~ Mixed(fs, F)
  <2>1. v = <<v[1], v[2]>> /\ (\A i \in F : fs[i][1] = v[1]) /\ Value(fs, F, v[1], v[2])
    BY <1>4, <1>10 DEF Composed
  <2>2. u = <<u[1], u[2]>> /\ (\A i \in G : gs[i][1] = u[1]) /\ Value(gs, G, u[1], u[2])
    BY <1>5, <1>6, <1>7, <1>10 DEF Composed
  <2>3. PICK k \in G : TRUE BY <1>6, <1>10
  <2>4. u[1] = v[1] /\ v[1] \in Kinds
    <3>1. gs[k][1] = u[1] /\ h[k] \in F /\ gs[k] = fs[h[k]] BY <1>1, <2>2, <2>3
    <3>2. fs[h[k]][1] = v[1] /\ fs[h[k]][1] \in Kinds BY <2>1, <3>1, FragmentFacts
    <3>3. QED BY <3>1, <3>2
  <2>5. CASE v[1] = "exclusive"
    <3>1. Token(F, v[2]) /\ Token(G, u[2]) BY <2>1, <2>2, <2>4, <2>5 DEF Value
    <3>2. (\A i, j \in F : i = j) <=> \A i, j \in G : i = j BY <1>1, <1>2, <1>3
    <3>3. u[2] = v[2] BY <3>1, <3>2 DEF Token
    <3>4. QED BY <2>1, <2>2, <2>4, <3>3 DEF u, v
  <2>6. CASE v[1] \in {"counted", "frac"}
    <3>1. \A i \in F : fs[i][2] \in Nat BY <2>1, <2>6, FragmentFacts
    <3>2. Total(gs, G) = Total(fs, F) BY <3>1, TotalOfPicked
    <3>3. u[2] = v[2]
      BY <2>1, <2>2, <2>4, <2>6, <3>2 DEF Value, Counted, Shared
    <3>4. QED BY <2>1, <2>2, <2>4, <3>3 DEF u, v
  <2>7. CASE v[1] = "set"
    <3>1. v[2] = UNION {fs[i][2] : i \in F} /\ u[2] = UNION {gs[i][2] : i \in G}
      BY <2>1, <2>2, <2>4, <2>7 DEF Value, Names
    <3>2. {fs[i][2] : i \in F} = {gs[i][2] : i \in G} BY <1>1, <1>3
    <3>3. u[2] = v[2] BY <3>1, <3>2
    <3>4. QED BY <2>1, <2>2, <2>4, <3>3 DEF u, v
  <2>8. CASE v[1] = "range"
    <3>1. Spans(fs, F, v[2]) /\ Spans(gs, G, u[2]) BY <2>1, <2>2, <2>4, <2>8 DEF Value
    <3>2. {Cover(fs[i][2]) : i \in F} = {Cover(gs[i][2]) : i \in G} BY <1>1, <1>3
    <3>3. Apart(fs, F) <=> Apart(gs, G)
      <4>1. ASSUME Apart(fs, F), NEW i \in G, NEW j \in G, i # j
            PROVE  Cover(gs[i][2]) \cap Cover(gs[j][2]) = {}
        BY <1>1, <1>2, <4>1 DEF Apart
      <4>2. ASSUME Apart(gs, G), NEW i \in F, NEW j \in F, i # j
            PROVE  Cover(fs[i][2]) \cap Cover(fs[j][2]) = {}
        <5>1. PICK m \in G : h[m] = i BY <1>3
        <5>2. PICK l \in G : h[l] = j BY <1>3
        <5>3. m # l /\ gs[m] = fs[i] /\ gs[l] = fs[j] BY <1>1, <4>2, <5>1, <5>2
        <5>4. Cover(gs[m][2]) \cap Cover(gs[l][2]) = {} BY <4>2, <5>3 DEF Apart
        <5>5. QED BY <5>3, <5>4
      <4>3. QED BY <4>1, <4>2 DEF Apart
    <3>4. u[2] = v[2]
      <4>1. CASE ~ Apart(fs, F) BY <3>1, <3>3, <4>1 DEF Spans
      <4>2. CASE Apart(fs, F)
        <5>1. Normal(v[2]) /\ Normal(u[2]) /\ Cover(v[2]) = Cover(u[2])
          BY <3>1, <3>2, <3>3, <4>2 DEF Spans
        <5>2. QED BY <5>1, RangeIsUnique
      <4>3. QED BY <4>1, <4>2
    <3>5. QED BY <2>1, <2>2, <2>4, <3>4 DEF u, v
  <2>9. QED BY <2>4, <2>5, <2>6, <2>7, <2>8 DEF Kinds
<1>11. QED BY <1>8, <1>9, <1>10

----------------------------------------------------------------------------
(* The law Ledger assumes of its constant Admits (AuthMonotone there) holds *)
(* of this gate, for any set of fragments and any finite set of identities. *)
THEOREM GateIsMonotone ==
  ASSUME NEW Frag, \A f \in Frag : Fragment(f), NEW Ids, IsFiniteSet(Ids)
  PROVE  \A c \in Frag, S \in SUBSET Ids : \A f \in [S -> Frag] : \A T \in SUBSET S :
           AuthValid(c, f) => AuthValid(c, [i \in T |-> f[i]])
<1> SUFFICES ASSUME NEW c \in Frag, NEW S \in SUBSET Ids, NEW f \in [S -> Frag],
                    NEW T \in SUBSET S, AuthValid(c, f)
             PROVE  AuthValid(c, [i \in T |-> f[i]])
  OBVIOUS
<1> DEFINE g == [i \in T |-> f[i]]
           h == [i \in T |-> i]
<1>1. IsFiniteSet(S) /\ IsFiniteSet(T)
  <2>1. IsFiniteSet(S) BY FS_Subset
  <2>2. QED BY <2>1, FS_Subset
<1>2. DOMAIN f = S /\ DOMAIN g = T /\ \A i \in T : g[i] = f[i] /\ h[i] = i OBVIOUS
<1>3. Fragment(c) /\ \A i \in DOMAIN f : Fragment(f[i]) BY <1>2
<1>4. Picks(g, f, h) BY <1>2 DEF Picks
<1> HIDE DEF g, h
<1>5. IsFiniteSet(DOMAIN f) /\ IsFiniteSet(DOMAIN g) /\ \A i \in DOMAIN g : Fragment(g[i])
  BY <1>1, <1>2, <1>3
<1>6. Fits(c, f) BY <1>3, <1>5, GateAdmitsWhatFits
<1>7. Fits(c, g) BY <1>3, <1>4, <1>5, <1>6, PartFits
<1>8. AuthValid(c, g) BY <1>3, <1>5, <1>7, GateAdmitsWhatFits
<1>9. QED BY <1>8 DEF g

(* So does the other: a valid capacity admits the empty family (AuthEmpty). *)
THEOREM EmptyIsAdmitted ==
  ASSUME NEW c, Fragment(c), NEW x
  PROVE  AuthValid(c, [i \in {} |-> x])
<1> DEFINE g == [i \in {} |-> x]
<1>1. DOMAIN g = {} OBVIOUS
<1> HIDE DEF g
<1>2. Total(g, DOMAIN g) = 0 BY <1>1, SumNothing DEF Total
<1>3. c[1] \in {"counted", "frac"} => c[2] \in Nat BY FragmentFacts
<1>4. Fits(c, g) BY <1>1, <1>2, <1>3 DEF Fits, Apart
<1>5. IsFiniteSet(DOMAIN g) BY <1>1, FS_EmptySet
<1>6. AuthValid(c, g) BY <1>1, <1>4, <1>5, GateAdmitsWhatFits
<1>7. QED BY <1>6 DEF g

----------------------------------------------------------------------------
(* The claims and the capacities as fragments, their points as numbers.    *)
LEMMA PointsAreCover ==
  ASSUME NEW f \in Claim \cup Capacity
  PROVE  /\ Fragment(f)
         /\ f[1] = "range" => PointsOf(f) = Cover(f[2]) /\ Cover(f[2]) \subseteq Point
<1>1. Fragment(f) BY FragmentAssumption
<1>2. ASSUME f[1] = "range" PROVE PointsOf(f) = Cover(f[2]) /\ Cover(f[2]) \subseteq Point
  <2>1. \A i \in DOMAIN f[2] : f[2][i][1] .. f[2][i][2] - 1 \subseteq Point
    BY <1>2, FragmentAssumption
  <2>2. \A i \in DOMAIN f[2] : f[2][i][1] \in Int /\ f[2][i][2] \in Int
    BY <1>1, <1>2, FragmentFacts, NormalFacts
  <2>3. ASSUME NEW x \in Cover(f[2]) PROVE x \in Point
    <3>1. x \in Int BY DEF Cover, CoverOn
    <3>2. PICK i \in DOMAIN f[2] : f[2][i][1] <= x /\ x < f[2][i][2]
      BY DEF Cover, CoverOn, In
    <3>3. x \in f[2][i][1] .. f[2][i][2] - 1 BY <2>2, <3>1, <3>2
    <3>4. QED BY <2>1, <3>3
  <2>4. Point \subseteq Int BY FragmentAssumption
  <2>5. QED BY <2>3, <2>4 DEF PointsOf, Cover, CoverOn, In
<1>3. QED BY <1>1, <1>2

(* The claims of a pool.                                                   *)
LEMMA SeqOfClaims ==
  ASSUME NEW fs \in Seq(Claim)
  PROVE  /\ Len(fs) \in Nat /\ DOMAIN fs = 1 .. Len(fs) /\ IsFiniteSet(DOMAIN fs)
         /\ \A i \in DOMAIN fs : fs[i] \in Claim /\ Fragment(fs[i])
<1>1. Len(fs) \in Nat /\ DOMAIN fs = 1 .. Len(fs) /\ \A i \in DOMAIN fs : fs[i] \in Claim
  OBVIOUS
<1>2. IsFiniteSet(DOMAIN fs) BY <1>1, FS_Interval
<1>3. QED BY <1>1, <1>2, PointsAreCover

(* What the resource itself allows is what fits.                           *)
LEMMA AllowedIsFits ==
  ASSUME NEW fs \in Seq(Claim), NEW c \in Capacity
  PROVE  Allowed(c, fs) <=> Fits(c, fs)
<1>1. /\ Len(fs) \in Nat /\ DOMAIN fs = 1 .. Len(fs)
      /\ \A i \in DOMAIN fs : fs[i] \in Claim
  BY SeqOfClaims
<1>2. Len(fs) <= 1 <=> \A i, j \in DOMAIN fs : i = j
  <2> DEFINE n == Len(fs)
  <2>1. n \in Nat BY <1>1
  <2> HIDE DEF n
  <2>2. n <= 1 => \A i, j \in 1 .. n : i = j BY <2>1
  <2>3. n > 1 => ~ \A i, j \in 1 .. n : i = j
    <3>1. n > 1 => 1 \in 1 .. n /\ 2 \in 1 .. n /\ 1 # 2 BY <2>1
    <3>2. QED BY <3>1
  <2>4. n <= 1 <=> \A i, j \in 1 .. n : i = j BY <2>1, <2>2, <2>3
  <2>5. QED BY <1>1, <2>4 DEF n
<1>3. Amount(fs) = Total(fs, DOMAIN fs)
  <2>1. DOMAIN Values(fs) = DOMAIN fs BY DEF Values
  <2>2. Amount(fs) = SumFunction(Values(fs)) BY DEF Amount, Values
  <2>3. QED BY <2>1, <2>2 DEF SumFunction, Total
<1>4. ASSUME c[1] = "range", \A i \in DOMAIN fs : fs[i][1] = c[1]
      PROVE  (Disjoint(fs) /\ \A i \in DOMAIN fs : PointsOf(fs[i]) \subseteq PointsOf(c))
               <=> (Apart(fs, DOMAIN fs)
                     /\ \A i \in DOMAIN fs : Cover(fs[i][2]) \subseteq Cover(c[2]))
  <2>1. \A i \in DOMAIN fs : PointsOf(fs[i]) = Cover(fs[i][2])
    BY <1>1, <1>4, PointsAreCover
  <2>2. PointsOf(c) = Cover(c[2]) BY <1>4, PointsAreCover
  <2>3. Disjoint(fs) <=> Apart(fs, DOMAIN fs) BY <2>1 DEF Disjoint, Apart
  <2>4. (\A i \in DOMAIN fs : PointsOf(fs[i]) \subseteq PointsOf(c))
          <=> \A i \in DOMAIN fs : Cover(fs[i][2]) \subseteq Cover(c[2])
    BY <2>1, <2>2
  <2>5. QED BY <2>3, <2>4
<1>5. QED BY <1>2, <1>3, <1>4 DEF Allowed, Fits

----------------------------------------------------------------------------
(* The inductive invariant: a pool holds claims that fit its capacity.     *)
IInv == cap \in Capacity /\ live \in Seq(Claim) /\ Fits(cap, live)

(* A new pool holds nothing.                                               *)
LEMMA InitFits == Init => IInv
<1> SUFFICES ASSUME Init PROVE IInv
  OBVIOUS
<1>1. cap \in Capacity /\ live = <<>> /\ live \in Seq(Claim) BY DEF Init
<1>2. Fragment(cap) BY <1>1, PointsAreCover
<1>3. DOMAIN live = {} BY <1>1
<1>4. Total(live, DOMAIN live) = 0 BY <1>3, SumNothing DEF Total
<1>5. cap[1] \in {"counted", "frac"} => cap[2] \in Nat BY <1>2, FragmentFacts
<1>6. Fits(cap, live) BY <1>3, <1>4, <1>5 DEF Fits, Apart
<1>7. QED BY <1>1, <1>6 DEF IInv

(* Removing one claim picks the others.                                    *)
LEMMA Removed ==
  ASSUME NEW fs \in Seq(Claim), NEW k \in DOMAIN fs
  PROVE  /\ RemoveAt(fs, k) \in Seq(Claim)
         /\ \E h : Picks(RemoveAt(fs, k), fs, h)
<1> DEFINE n == Len(fs)
           a == SubSeq(fs, 1, k - 1)
           b == SubSeq(fs, k + 1, n)
           gs == RemoveAt(fs, k)
           h == [i \in 1 .. n - 1 |-> IF i < k THEN i ELSE i + 1]
<1>1. n \in Nat /\ DOMAIN fs = 1 .. n /\ k \in 1 .. n /\ n >= 1 BY SeqOfClaims
<1>2. gs = a \o b BY DEF RemoveAt
<1>3. a \in Seq(Claim) /\ Len(a) = k - 1 /\ \A i \in 1 .. k - 1 : a[i] = fs[i]
  BY <1>1
<1>4. b \in Seq(Claim) /\ Len(b) = n - k /\ \A i \in 1 .. n - k : b[i] = fs[k + i]
  BY <1>1
<1> HIDE DEF a, b, n
<1>5. /\ a \o b \in Seq(Claim) /\ DOMAIN (a \o b) = 1 .. n - 1
      /\ \A i \in 1 .. n - 1 : (a \o b)[i] = IF i <= k - 1 THEN a[i] ELSE b[i - (k - 1)]
  <2>1. a \o b \in Seq(Claim) /\ Len(a \o b) = n - 1
    <3>0. \A x, y \in Seq(Claim) : x \o y \in Seq(Claim) /\ Len(x \o y) = Len(x) + Len(y)
      OBVIOUS
    <3>1. a \o b \in Seq(Claim) /\ Len(a \o b) = Len(a) + Len(b)
      <4>1. a \in Seq(Claim) /\ b \in Seq(Claim) BY <1>3, <1>4
      <4>2. QED BY <3>0, <4>1
    <3>2. (k - 1) + (n - k) = n - 1 BY <1>1
    <3>3. QED BY <1>3, <1>4, <3>1, <3>2
  <2>2. DOMAIN (a \o b) = 1 .. n - 1 BY <2>1
  <2>3. \A i \in 1 .. Len(a) + Len(b) :
          (a \o b)[i] = IF i <= Len(a) THEN a[i] ELSE b[i - Len(a)]
    BY <1>3, <1>4
  <2>4. Len(a) + Len(b) = n - 1 BY <1>1, <1>3, <1>4
  <2>5. QED BY <1>3, <2>1, <2>2, <2>3, <2>4
<1> HIDE DEF gs
<1>6. ASSUME NEW i \in 1 .. n - 1
      PROVE  h[i] \in 1 .. n /\ gs[i] = fs[h[i]]
  <2>1. CASE i < k
    <3>1. h[i] = i /\ i \in 1 .. k - 1 BY <1>1, <2>1
    <3>2. gs[i] = a[i] BY <1>1, <1>2, <1>5, <3>1
    <3>3. QED BY <1>1, <1>3, <3>1, <3>2
  <2>2. CASE ~ i < k
    <3>1. h[i] = i + 1 /\ i - (k - 1) \in 1 .. n - k BY <1>1, <2>2
    <3>2. gs[i] = b[i - (k - 1)] BY <1>1, <1>2, <1>5, <2>2
    <3>3. b[i - (k - 1)] = fs[k + (i - (k - 1))] BY <1>4, <3>1
    <3>4. k + (i - (k - 1)) = i + 1 /\ i + 1 \in 1 .. n BY <1>1
    <3>5. QED BY <3>1, <3>2, <3>3, <3>4
  <2>3. QED BY <2>1, <2>2
<1>7. \A i, j \in 1 .. n - 1 : i # j => h[i] # h[j] BY <1>1
<1> HIDE DEF h
<1>8. Picks(gs, fs, h) BY <1>1, <1>2, <1>5, <1>6, <1>7 DEF Picks
<1>9. QED BY <1>2, <1>5, <1>8 DEF gs

(* Every step keeps to what fits.                                          *)
LEMMA FitsStep == IInv /\ [Next]_vars => IInv'
<1> SUFFICES ASSUME IInv, [Next]_vars PROVE IInv'
  OBVIOUS
<1>1. cap \in Capacity /\ live \in Seq(Claim) /\ Fits(cap, live) /\ Fragment(cap)
  BY PointsAreCover DEF IInv
<1>2. ASSUME NEW f \in Claim, Mint(f) PROVE IInv'
  <2>1. /\ AuthValid(cap, Append(live, f)) /\ live' = Append(live, f) /\ cap' = cap
    BY <1>2 DEF Mint, CanMint, AuthValid
  <2>2. Append(live, f) \in Seq(Claim) BY <1>1
  <2>3. IsFiniteSet(DOMAIN Append(live, f)) /\
        \A i \in DOMAIN Append(live, f) : Fragment(Append(live, f)[i])
    BY <2>2, SeqOfClaims
  <2>4. Fits(cap, Append(live, f)) BY <1>1, <2>1, <2>3, GateAdmitsWhatFits
  <2>5. QED BY <1>1, <2>1, <2>2, <2>4 DEF IInv
<1>3. ASSUME NEW k \in DOMAIN live, Drop(k) PROVE IInv'
  <2> DEFINE gs == RemoveAt(live, k)
  <2>1. live' = gs /\ cap' = cap BY <1>3 DEF Drop
  <2>2. gs \in Seq(Claim) /\ \E h : Picks(gs, live, h) BY <1>1, Removed
  <2> HIDE DEF gs
  <2>3. PICK h : Picks(gs, live, h) BY <2>2
  <2>4. /\ IsFiniteSet(DOMAIN gs) /\ IsFiniteSet(DOMAIN live)
        /\ \A i \in DOMAIN live : Fragment(live[i])
    BY <1>1, <2>2, SeqOfClaims
  <2>5. Fits(cap, gs) BY <1>1, <2>3, <2>4, PartFits
  <2>6. QED BY <1>1, <2>1, <2>2, <2>5 DEF IInv
<1>4. ASSUME NEW c \in Capacity, Resize(c) PROVE IInv'
  <2>1. AuthValid(c, live) /\ cap' = c /\ live' = live BY <1>4 DEF Resize
  <2>2. Fragment(c) BY PointsAreCover
  <2>3. IsFiniteSet(DOMAIN live) /\ \A i \in DOMAIN live : Fragment(live[i])
    BY <1>1, SeqOfClaims
  <2>4. Fits(c, live) BY <2>1, <2>2, <2>3, GateAdmitsWhatFits
  <2>5. QED BY <1>1, <2>1, <2>4 DEF IInv
<1>5. CASE UNCHANGED vars BY <1>1, <1>5 DEF vars, IInv
<1>6. QED BY <1>2, <1>3, <1>4, <1>5 DEF Next

(* The invariant holds throughout.                                         *)
LEMMA AlwaysFits == Spec => []IInv
<1>1. QED BY InitFits, FitsStep, PTL DEF Spec

----------------------------------------------------------------------------
(* The invariant is what GateIsExact says without fragments.               *)
LEMMA ExactOf == IInv => GateIsExact
<1> SUFFICES ASSUME IInv PROVE GateIsExact
  OBVIOUS
<1>1. cap \in Capacity /\ live \in Seq(Claim) /\ Fits(cap, live) /\ Fragment(cap)
  BY PointsAreCover DEF IInv
<1>2. Allowed(cap, live) BY <1>1, AllowedIsFits
<1>3. ASSUME NEW f \in Claim, Allowed(cap, Append(live, f)) PROVE CanMint(cap, live, f)
  <2>1. Append(live, f) \in Seq(Claim) BY <1>1
  <2>2. IsFiniteSet(DOMAIN Append(live, f)) /\
        \A i \in DOMAIN Append(live, f) : Fragment(Append(live, f)[i])
    BY <2>1, SeqOfClaims
  <2>3. Fits(cap, Append(live, f)) BY <1>1, <1>3, <2>1, AllowedIsFits
  <2>4. AuthValid(cap, Append(live, f)) BY <1>1, <2>2, <2>3, GateAdmitsWhatFits
  <2>5. QED BY <2>4 DEF CanMint, AuthValid
<1>4. QED BY <1>2, <1>3 DEF GateIsExact

(* Nothing is ever outstanding that the resource itself does not allow, and *)
(* nothing the resource allows is refused: can_mint and frag_auth_valid, in *)
(* every algebra, for every family of claims that a pool gets to.          *)
THEOREM GateExact == Spec => []GateIsExact
<1>1. QED BY AlwaysFits, ExactOf, PTL

(* What is outstanding, when anything is. *)
LEMMA Outstanding ==
  ASSUME IInv, Compose(live) # None
  PROVE  LET out == Compose(live)
         IN  /\ Fragment(out) /\ out[1] = cap[1] /\ DOMAIN live # {}
             /\ \A i \in DOMAIN live : Fragment(live[i]) /\ live[i][1] = out[1]
             /\ out[1] = "set" => \A i \in DOMAIN live : live[i][2] \subseteq out[2]
             /\ out[1] = "range" => Cover(out[2]) \subseteq Point
<1> DEFINE D == DOMAIN live
           out == Compose(live)
<1>1. cap \in Capacity /\ live \in Seq(Claim) /\ Fits(cap, live) /\ Fragment(cap)
  BY PointsAreCover DEF IInv
<1>2. IsFiniteSet(D) /\ \A i \in D : Fragment(live[i]) BY <1>1, SeqOfClaims
<1>3. Composed(live, D, out) BY <1>2, ComposeIs
<1>4. \A i \in D : live[i][1] = cap[1] BY <1>1 DEF Fits
<1>5. out # None OBVIOUS
<1> HIDE DEF out
<1>6. D # {} /\ ~ Mixed(live, D) BY <1>3, <1>4, <1>5 DEF Composed, Mixed
<1>7. /\ out = <<out[1], out[2]>> /\ (\A i \in D : live[i][1] = out[1])
      /\ Value(live, D, out[1], out[2])
  BY <1>3, <1>6 DEF Composed
<1>8. out[1] = cap[1] BY <1>4, <1>6, <1>7
<1>9. AuthValid(cap, live) BY <1>1, <1>2, GateAdmitsWhatFits
<1>10. Valid(out) BY <1>5, <1>9 DEF AuthValid, FragAuthValid, out
<1>11. out[1] \in Kinds BY <1>1, <1>8, FragmentFacts
<1>12. out[1] = "set" => \A i \in D : live[i][2] \subseteq out[2] BY <1>7 DEF Value, Names
<1>13. ASSUME out[1] = "range"
       PROVE  Normal(out[2]) /\ Cover(out[2]) \subseteq Point
  <2>1. Spans(live, D, out[2]) BY <1>7, <1>13 DEF Value
  <2>2. out[2] # RangeBot BY <1>10, <1>13 DEF Valid
  <2>3. Normal(out[2]) /\ Cover(out[2]) = UNION {Cover(live[i][2]) : i \in D}
    BY <2>1, <2>2 DEF Spans
  <2>4. \A i \in D : Cover(live[i][2]) \subseteq Point
    <3>1. \A i \in D : live[i] \in Claim /\ live[i][1] = "range"
      BY <1>1, <1>7, <1>13, SeqOfClaims
    <3>2. QED BY <3>1, PointsAreCover
  <2>5. QED BY <2>3, <2>4
<1>14. ASSUME out[1] = "counted" PROVE out[2] \in 0 .. MaxCount
  <2>1. out[2] # -1 BY <1>10, <1>14 DEF Valid
  <2>2. Total(live, D) <= MaxCount /\ out[2] = Total(live, D)
    BY <1>7, <1>14, <2>1 DEF Value, Counted
  <2>3. Total(live, D) \in Nat
    <3>1. \A i \in D : live[i][2] \in Nat BY <1>2, <1>7, <1>14, FragmentFacts
    <3>2. \A i \in D : Values(live)[i] \in Nat BY <3>1 DEF Values
    <3>3. QED BY <1>2, <3>2, SumOfNaturals DEF Total
  <2>4. QED BY <2>2, <2>3, FragmentAssumption
<1>15. ASSUME out[1] = "frac" PROVE out[2] \in 1 .. MaxFrac
  <2>1. out[2] # 0 BY <1>10, <1>15 DEF Valid
  <2>2. Total(live, D) <= MaxFrac /\ out[2] = Total(live, D)
    BY <1>7, <1>15, <2>1 DEF Value, Shared
  <2>3. Total(live, D) \in Nat
    <3>1. \A i \in D : live[i][2] \in Nat BY <1>2, <1>7, <1>15, FragmentFacts
    <3>2. \A i \in D : Values(live)[i] \in Nat BY <3>1 DEF Values
    <3>3. QED BY <1>2, <3>2, SumOfNaturals DEF Total
  <2>4. QED BY <2>1, <2>2, <2>3, FragmentAssumption
<1>16. out[1] = "exclusive" => out[2] = "token" BY <1>10 DEF Valid
<1>17. out[1] = "range" => InOrder(out[2])
  BY <1>13 DEF InOrder, Normal, SpanSeq
<1>18. Fragment(out)
  BY <1>7, <1>11, <1>14, <1>15, <1>16, <1>17 DEF Fragment, Kinds
<1>19. QED BY <1>2, <1>6, <1>7, <1>8, <1>12, <1>13, <1>18 DEF out

(* What is outstanding is a valid fragment in normal form.                 *)
LEMMA NormalFormOf == IInv => NormalForm
<1> SUFFICES ASSUME IInv, NEW out \in {Compose(live)} \ {None}
             PROVE  /\ out[1] = cap[1] /\ Valid(out)
                    /\ out[1] = "range" =>
                         \A i \in 1 .. Len(out[2]) - 1 : out[2][i][2] < out[2][i + 1][1]
  BY DEF NormalForm
<1>1. out = Compose(live) /\ Compose(live) # None OBVIOUS
<1>2. Fragment(out) /\ out[1] = cap[1] BY <1>1, Outstanding
<1>3. Valid(out) /\ (out[1] = "range" => Normal(out[2])) BY <1>2, FragmentFacts
<1>4. ASSUME out[1] = "range", NEW i \in 1 .. Len(out[2]) - 1
      PROVE  out[2][i][2] < out[2][i + 1][1]
  <2> DEFINE r == out[2]
             n == Len(r)
  <2>1. Normal(r) /\ n \in Nat /\ DOMAIN r = 1 .. n BY <1>3, <1>4, NormalFacts
  <2>2. i \in 1 .. n - 1 OBVIOUS
  <2> HIDE DEF n
  <2>3. i \in 1 .. n /\ i + 1 \in 1 .. n /\ i < i + 1 BY <2>1, <2>2
  <2>4. \A j, k \in DOMAIN r : j < k => r[j][2] < r[k][1] BY <2>1, NormalFacts
  <2> HIDE DEF r
  <2>5. r[i][2] < r[i + 1][1] BY <2>1, <2>3, <2>4
  <2>6. QED BY <2>5 DEF r
<1>5. QED BY <1>2, <1>3, <1>4

(* Two neighbours change places.                                           *)
LEMMA OrderOf == IInv => OrderDoesNotMatter
<1> SUFFICES ASSUME IInv, NEW i \in 1 .. Len(live) - 1
             PROVE  Compose(live) = Compose([live EXCEPT ![i] = live[i + 1], ![i + 1] = live[i]])
  BY DEF OrderDoesNotMatter
<1> DEFINE n == Len(live)
           gs == [live EXCEPT ![i] = live[i + 1], ![i + 1] = live[i]]
           h == [k \in 1 .. n |-> IF k = i THEN i + 1 ELSE IF k = i + 1 THEN i ELSE k]
<1>1. live \in Seq(Claim) BY DEF IInv
<1>2. /\ n \in Nat /\ DOMAIN live = 1 .. n /\ IsFiniteSet(DOMAIN live)
      /\ \A k \in DOMAIN live : Fragment(live[k])
  BY <1>1, SeqOfClaims
<1>3. i \in 1 .. n - 1 OBVIOUS
<1> HIDE DEF n
<1>4. i \in 1 .. n /\ i + 1 \in 1 .. n /\ i # i + 1 BY <1>2, <1>3
<1>5. DOMAIN gs = 1 .. n /\ \A k \in 1 .. n : gs[k] = live[h[k]] BY <1>2, <1>4
<1>6. \A k \in 1 .. n : h[k] \in 1 .. n /\ h[h[k]] = k BY <1>4
<1>7. \A k, l \in 1 .. n : k # l => h[k] # h[l] BY <1>6
<1> HIDE DEF gs, h
<1>8. Picks(gs, live, h) BY <1>2, <1>5, <1>6, <1>7 DEF Picks
<1>9. \A k \in DOMAIN live : \E l \in DOMAIN gs : h[l] = k BY <1>2, <1>5, <1>6
<1>10. IsFiniteSet(DOMAIN gs) BY <1>2, <1>5
<1>11. Compose(gs) = Compose(live) BY <1>2, <1>8, <1>9, <1>10, ComposeAnyOrder
<1>12. QED BY <1>11 DEF gs

(* A release.                                                              *)
LEMMA PartsOf == IInv => PartsStayAdmissible
<1> SUFFICES ASSUME IInv, NEW T \in SUBSET DOMAIN live
             PROVE  AuthValid(cap, [i \in T |-> live[i]])
  BY DEF PartsStayAdmissible
<1> DEFINE gs == [i \in T |-> live[i]]
           h == [i \in T |-> i]
<1>1. cap \in Capacity /\ live \in Seq(Claim) /\ Fits(cap, live) /\ Fragment(cap)
  BY PointsAreCover DEF IInv
<1>2. IsFiniteSet(DOMAIN live) /\ \A i \in DOMAIN live : Fragment(live[i])
  BY <1>1, SeqOfClaims
<1>3. IsFiniteSet(T) BY <1>2, FS_Subset
<1>4. DOMAIN gs = T /\ \A i \in T : gs[i] = live[i] /\ h[i] = i OBVIOUS
<1>5. Picks(gs, live, h) BY <1>4 DEF Picks
<1> HIDE DEF gs, h
<1>6. IsFiniteSet(DOMAIN gs) /\ \A i \in DOMAIN gs : Fragment(gs[i]) BY <1>2, <1>3, <1>4
<1>7. Fits(cap, gs) BY <1>1, <1>2, <1>5, <1>6, PartFits
<1>8. AuthValid(cap, gs) BY <1>1, <1>6, <1>7, GateAdmitsWhatFits
<1>9. QED BY <1>8 DEF gs

(* What completes a fragment to a claim is a claim.                        *)
LEMMA RemainderOf ==
  ASSUME NEW out, Fragment(out), out[1] = "range" => Cover(out[2]) \subseteq Point,
         NEW c \in Claim
  PROVE  OptionIncludedIn(out, c) <=> \E rest \in Claim \cup {None} : OptionOp(out, rest) = c
<1>1. /\ out = <<out[1], out[2]>> /\ out # None /\ out # Mismatch /\ out[1] \in Kinds
      /\ c = <<c[1], c[2]>> /\ c # None /\ c # Mismatch /\ Fragment(c)
  BY FragmentFacts, PointsAreCover
<1>2. OptionIncludedIn(out, c) <=> (out = c \/ IncludedIn(out, c))
  BY <1>1 DEF OptionIncludedIn
<1>3. \A f \in Claim : /\ Fragment(f) /\ f # None /\ f # Mismatch
                       /\ f = <<f[1], f[2]>> /\ OptionOp(out, f) = Op(out, f)
  <2>1. ASSUME NEW f \in Claim
        PROVE  Fragment(f) /\ f # None /\ f # Mismatch /\ f = <<f[1], f[2]>>
    <3>1. Fragment(f) BY PointsAreCover
    <3>2. QED BY <3>1, FragmentFacts
  <2>2. QED BY <1>1, <2>1 DEF OptionOp
<1>4. OptionOp(out, None) = out BY <1>1 DEF OptionOp
<1>5. \A f \in Claim : f[1] = out[1] =>
        Op(out, f) = <<out[1], CASE out[1] = "exclusive" -> "bot"
                                 [] out[1] = "counted" -> CountOp(out[2], f[2])
                                 [] out[1] = "set" -> out[2] \cup f[2]
                                 [] out[1] = "range" -> RangeOp(out[2], f[2])
                                 [] out[1] = "frac" -> FracOp(out[2], f[2])>>
  BY <1>1, <1>3 DEF Op
<1>6. ASSUME out # c, IncludedIn(out, c)
      PROVE  \E f \in Claim : OptionOp(out, f) = c
  <2>1. c[1] = out[1] BY <1>6 DEF IncludedIn
  <2>2. CASE out[1] = "exclusive"
    <3>1. c[2] = "bot" BY <1>6, <2>2 DEF IncludedIn
    <3>2. c[2] = "token" BY <1>1, <2>1, <2>2, FragmentFacts
    <3>3. QED BY <3>1, <3>2
  <2>3. CASE out[1] = "counted"
    <3>1. CountIncluded(out[2], c[2]) BY <1>6, <2>3 DEF IncludedIn
    <3>2. /\ out[2] \in Nat /\ c[2] \in Nat /\ c[2] <= MaxCount /\ MaxCount \in Nat
      BY <1>1, <2>1, <2>3, FragmentFacts, FragmentAssumption
    <3> DEFINE a == out[2]
               b == c[2]
               f == <<"counted", b - a>>
    <3>3. a <= b BY <3>1, <3>2 DEF CountIncluded
    <3>4. b - a \in 0 .. MaxCount BY <3>2, <3>3
    <3>5. f \in Claim BY <3>4, AnyClaim
    <3>6. CountOp(a, b - a) = b BY <3>2, <3>3 DEF CountOp
    <3>7. Op(out, f) = <<"counted", CountOp(a, b - a)>> BY <1>5, <2>3, <3>5
    <3>8. c = <<"counted", b>> BY <1>1, <2>1, <2>3
    <3> HIDE DEF a, b, f
    <3>9. OptionOp(out, f) = c BY <1>3, <3>5, <3>6, <3>7, <3>8
    <3>10. QED BY <3>5, <3>9
  <2>4. CASE out[1] = "frac"
    <3>1. FracIncluded(out[2], c[2]) BY <1>6, <2>4 DEF IncludedIn
    <3>2. /\ out[2] \in Nat /\ out[2] # 0 /\ c[2] \in Nat /\ c[2] # 0
          /\ c[2] <= MaxFrac /\ MaxFrac \in Nat
      BY <1>1, <2>1, <2>4, FragmentFacts, FragmentAssumption
    <3> DEFINE a == out[2]
               b == c[2]
               f == <<"frac", b - a>>
    <3>3. a < b BY <3>1, <3>2 DEF FracIncluded
    <3>4. b - a \in 1 .. MaxFrac BY <3>2, <3>3
    <3>5. f \in Claim BY <3>4, AnyClaim
    <3>6. FracOp(a, b - a) = b BY <3>2, <3>3 DEF FracOp
    <3>7. Op(out, f) = <<"frac", FracOp(a, b - a)>> BY <1>5, <2>4, <3>5
    <3>8. c = <<"frac", b>> BY <1>1, <2>1, <2>4
    <3> HIDE DEF a, b, f
    <3>9. OptionOp(out, f) = c BY <1>3, <3>5, <3>6, <3>7, <3>8
    <3>10. QED BY <3>5, <3>9
  <2>5. CASE out[1] = "set"
    <3>1. out[2] \subseteq c[2] BY <1>6, <2>5 DEF IncludedIn
    <3>2. out[2] \cup c[2] = c[2] BY <3>1
    <3>3. Op(out, c) = <<"set", out[2] \cup c[2]>> BY <1>5, <2>1, <2>5
    <3>4. OptionOp(out, c) = c BY <1>1, <1>3, <2>1, <2>5, <3>2, <3>3
    <3>5. QED BY <3>4
  <2>6. CASE out[1] = "range"
    <3>1. Normal(out[2]) /\ Normal(c[2]) BY <1>1, <2>1, <2>6, FragmentFacts
    <3>2. RangeIncluded(out[2], c[2]) BY <1>6, <2>6 DEF IncludedIn
    <3>3. Cover(out[2]) \subseteq Cover(c[2])
      BY <3>1, <3>2, NormalIsNotBot, CoversIffHasAll DEF RangeIncluded
    <3>4. Cover(c[2]) \subseteq Point BY <2>1, <2>6, PointsAreCover
    <3>5. PICK f \in Claim : f[1] = "range" /\ PointsOf(f) = Cover(c[2]) \ Cover(out[2])
      BY <3>4, AnyClaim
    <3>6. Normal(f[2]) /\ Cover(f[2]) = Cover(c[2]) \ Cover(out[2])
      BY <1>3, <3>5, FragmentFacts, PointsAreCover
    <3> DEFINE r == RangeOp(out[2], f[2])
    <3>7. Normal(r) /\ Cover(r) = Cover(out[2]) \cup Cover(f[2])
      <4>1. Cover(out[2]) \cap Cover(f[2]) = {} BY <3>6
      <4>2. QED BY <3>1, <3>6, <4>1, RangeOpIsUnion
    <3>8. Cover(r) = Cover(c[2]) BY <3>3, <3>6, <3>7
    <3>9. r = c[2] BY <3>1, <3>7, <3>8, RangeIsUnique
    <3>10. Op(out, f) = <<"range", r>> BY <1>5, <2>6, <3>5
    <3> HIDE DEF r
    <3>11. OptionOp(out, f) = c BY <1>1, <1>3, <2>1, <2>6, <3>9, <3>10
    <3>12. QED BY <3>11
  <2>7. QED BY <1>1, <2>2, <2>3, <2>4, <2>5, <2>6 DEF Kinds
<1>7. ASSUME NEW f \in Claim, OptionOp(out, f) = c
      PROVE  IncludedIn(out, c)
  <2>1. Op(out, f) = c BY <1>3, <1>7
  <2>2. f[1] = out[1] BY <1>1, <2>1 DEF Op
  <2>3. c[1] = out[1] BY <1>1, <1>5, <2>1, <2>2
  <2>4. CASE out[1] = "exclusive"
    <3>1. c = <<"exclusive", "bot">> BY <1>5, <2>1, <2>2, <2>4
    <3>2. c[2] = "token" BY <1>1, <2>3, <2>4, FragmentFacts
    <3>3. QED BY <3>1, <3>2
  <2>5. CASE out[1] = "counted"
    <3>1. c = <<"counted", CountOp(out[2], f[2])>> BY <1>5, <2>1, <2>2, <2>5
    <3>2. out[2] \in Nat /\ c[2] \in Nat /\ f[2] \in Nat
      BY <1>1, <1>3, <2>2, <2>3, <2>5, FragmentFacts
    <3>3. c[2] = CountOp(out[2], f[2]) BY <3>1
    <3>4. CountIncluded(out[2], c[2]) BY <3>2, <3>3 DEF CountIncluded, CountOp
    <3>5. QED BY <2>3, <2>5, <3>4 DEF IncludedIn
  <2>6. CASE out[1] = "frac"
    <3>1. c = <<"frac", FracOp(out[2], f[2])>> BY <1>5, <2>1, <2>2, <2>6
    <3>2. out[2] \in Nat /\ c[2] \in Nat /\ f[2] \in Nat /\ f[2] # 0 /\ out[2] # 0 /\ c[2] # 0
      BY <1>1, <1>3, <2>2, <2>3, <2>6, FragmentFacts
    <3>3. c[2] = FracOp(out[2], f[2]) BY <3>1
    <3>4. FracIncluded(out[2], c[2]) BY <3>2, <3>3 DEF FracIncluded, FracOp
    <3>5. QED BY <2>3, <2>6, <3>4 DEF IncludedIn
  <2>7. CASE out[1] = "set"
    <3>1. c = <<"set", out[2] \cup f[2]>> BY <1>5, <2>1, <2>2, <2>7
    <3>2. c[2] = out[2] \cup f[2] BY <3>1
    <3>3. QED BY <2>3, <2>7, <3>2 DEF IncludedIn
  <2>8. CASE out[1] = "range"
    <3>1. c = <<"range", RangeOp(out[2], f[2])>> BY <1>5, <2>1, <2>2, <2>8
    <3>2. c[2] = RangeOp(out[2], f[2]) BY <3>1
    <3>3. Normal(out[2]) /\ Normal(f[2]) /\ Normal(c[2])
      BY <1>1, <1>3, <2>2, <2>3, <2>8, FragmentFacts
    <3>4. c[2] # RangeBot BY <3>3, NormalIsNotBot
    <3>5. Cover(c[2]) = Cover(out[2]) \cup Cover(f[2])
      BY <3>2, <3>3, <3>4, RangeOpIsUnion
    <3>6. CoveredBy(out[2], c[2])
      <4>1. Cover(out[2]) \subseteq Cover(c[2]) BY <3>5
      <4>2. QED BY <3>3, <4>1, CoversIffHasAll
    <3>7. RangeIncluded(out[2], c[2]) BY <3>3, <3>6, NormalIsNotBot DEF RangeIncluded
    <3>8. QED BY <2>3, <2>8, <3>7 DEF IncludedIn
  <2>9. QED BY <1>1, <2>4, <2>5, <2>6, <2>7, <2>8 DEF Kinds
<1>8. QED BY <1>2, <1>4, <1>6, <1>7

(* Inclusion means a remainder, for what is outstanding.                   *)
LEMMA RemainderExistsOf == IInv => RemainderExists
<1> SUFFICES ASSUME IInv, NEW c \in Claim, c[1] = cap[1]
             PROVE  OptionIncludedIn(Compose(live), c) <=>
                      \E rest \in Claim \cup {None} : OptionOp(Compose(live), rest) = c
  BY DEF RemainderExists
<1>1. CASE Compose(live) = None
  <2>1. OptionIncludedIn(None, c) BY DEF OptionIncludedIn
  <2>2. OptionOp(None, c) = c BY DEF OptionOp
  <2>3. QED BY <1>1, <2>1, <2>2
<1>2. CASE Compose(live) # None
  <2> DEFINE out == Compose(live)
  <2>1. Fragment(out) /\ (out[1] = "range" => Cover(out[2]) \subseteq Point)
    BY <1>2, Outstanding
  <2> HIDE DEF out
  <2>2. OptionIncludedIn(out, c) <=> \E rest \in Claim \cup {None} : OptionOp(out, rest) = c
    BY <2>1, RemainderOf
  <2>3. QED BY <2>2 DEF out
<1>3. QED BY <1>1, <1>2

(* The core of a fragment.                                                 *)
LEMMA CoreOf ==
  ASSUME NEW f, Fragment(f)
  PROVE  /\ f[1] \in {"exclusive", "frac"} => PCore(f) = None
         /\ f[1] = "counted" => PCore(f) = <<"counted", 0>>
         /\ f[1] = "set" => PCore(f) = f
         /\ f[1] = "range" => PCore(f) = <<"range", <<>>>>
         /\ PCore(f) # None => Op(PCore(f), f) = f /\ PCore(PCore(f)) = PCore(f)
<1>1. f = <<f[1], f[2]>> /\ f # Mismatch /\ f[1] \in Kinds /\ Valid(f) BY FragmentFacts
<1>2. f[1] \in {"exclusive", "frac"} => PCore(f) = None BY <1>1 DEF PCore
<1>3. f[1] = "counted" => PCore(f) = <<"counted", 0>> BY DEF PCore
<1>4. f[1] = "set" => PCore(f) = f BY DEF PCore
<1>5. f[1] = "range" => PCore(f) = <<"range", <<>>>> BY DEF PCore
<1>6. CASE f[1] = "counted"
  <2> DEFINE z == <<"counted", 0>>
  <2>1. f[2] \in Nat /\ f[2] <= MaxCount /\ MaxCount \in Nat
    BY <1>6, FragmentFacts, FragmentAssumption
  <2>2. z # Mismatch BY DEF Mismatch
  <2>3. Op(z, f) = <<"counted", CountOp(0, f[2])>> BY <1>1, <1>6, <2>2 DEF Op
  <2>4. CountOp(0, f[2]) = f[2] BY <2>1 DEF CountOp
  <2>5. Op(z, f) = f BY <1>1, <1>6, <2>3, <2>4
  <2>6. PCore(z) = z BY DEF PCore
  <2>7. QED BY <1>2, <1>3, <1>4, <1>5, <1>6, <2>5, <2>6
<1>7. CASE f[1] = "set"
  <2>1. Op(f, f) = <<"set", f[2] \cup f[2]>> BY <1>1, <1>7 DEF Op
  <2>2. f[2] \cup f[2] = f[2] OBVIOUS
  <2>3. Op(f, f) = f BY <1>1, <1>7, <2>1, <2>2
  <2>4. QED BY <1>2, <1>3, <1>4, <1>5, <1>7, <2>3
<1>8. CASE f[1] = "range"
  <2> DEFINE z == <<"range", <<>>>>
             r == RangeOp(<<>>, f[2])
  <2>1. z # Mismatch BY DEF Mismatch
  <2>2. Op(z, f) = <<"range", r>> BY <1>1, <1>8, <2>1 DEF Op
  <2>3. Normal(f[2]) BY <1>8, FragmentFacts
  <2>4. Normal(r) /\ Cover(r) = Cover(f[2])
    <3>1. Cover(<<>>) \cap Cover(f[2]) = {} /\ Cover(<<>>) \cup Cover(f[2]) = Cover(f[2])
      BY EmptyIsNormal
    <3>2. QED BY <2>3, <3>1, EmptyIsNormal, RangeOpIsUnion
  <2>5. r = f[2] BY <2>3, <2>4, RangeIsUnique
  <2> HIDE DEF r
  <2>6. Op(z, f) = f BY <1>1, <1>8, <2>2, <2>5
  <2>7. PCore(z) = z BY DEF PCore
  <2>8. QED BY <1>2, <1>3, <1>4, <1>5, <1>8, <2>6, <2>7
<1>9. CASE f[1] \in {"exclusive", "frac"} BY <1>2, <1>9
<1>10. QED BY <1>1, <1>6, <1>7, <1>8, <1>9 DEF Kinds

(* The core of what is outstanding.                                        *)
LEMMA CoreIsSharedOf == IInv => CoreIsShared
<1> SUFFICES ASSUME IInv, Compose(live) # None
             PROVE  LET out == Compose(live)
                    IN  /\ PCore(out) # None =>
                             Op(PCore(out), out) = out /\ PCore(PCore(out)) = PCore(out)
                        /\ \A i \in DOMAIN live : PCore(live[i]) # None =>
                             PCore(out) # None /\ OptionIncludedIn(PCore(live[i]), PCore(out))
  BY DEF CoreIsShared
<1> DEFINE out == Compose(live)
<1>1. /\ Fragment(out)
      /\ \A i \in DOMAIN live : Fragment(live[i]) /\ live[i][1] = out[1]
      /\ out[1] = "set" => \A i \in DOMAIN live : live[i][2] \subseteq out[2]
  BY Outstanding
<1> HIDE DEF out
<1>2. ASSUME NEW i \in DOMAIN live, PCore(live[i]) # None
      PROVE  PCore(out) # None /\ OptionIncludedIn(PCore(live[i]), PCore(out))
  <2> DEFINE f == live[i]
  <2>1. Fragment(f) /\ f[1] = out[1] BY <1>1
  <2>2. f[1] \in Kinds BY <2>1, FragmentFacts
  <2>3. f[1] \notin {"exclusive", "frac"} BY <1>2, <2>1, CoreOf
  <2>4. CASE f[1] \in {"counted", "range"}
    <3>1. PCore(f) = PCore(out) BY <1>1, <2>1, <2>4, CoreOf
    <3>2. PCore(out) # None BY <1>2, <3>1
    <3>3. QED BY <3>1, <3>2 DEF OptionIncludedIn
  <2>5. CASE f[1] = "set"
    <3>1. PCore(f) = f /\ PCore(out) = out BY <1>1, <2>1, <2>5, CoreOf
    <3>2. f[2] \subseteq out[2] BY <1>1, <2>1, <2>5
    <3>3. IncludedIn(f, out) BY <2>1, <2>5, <3>2 DEF IncludedIn
    <3>4. out # None BY <1>1, FragmentFacts
    <3>5. QED BY <3>1, <3>3, <3>4 DEF OptionIncludedIn
  <2>6. QED BY <2>2, <2>3, <2>4, <2>5 DEF Kinds
<1>3. PCore(out) # None => Op(PCore(out), out) = out /\ PCore(PCore(out)) = PCore(out)
  BY <1>1, CoreOf
<1>4. QED BY <1>2, <1>3 DEF out

(* What a pool has handed out keeps the laws the ledger is built on: one   *)
(* normal form in any order of the claims, any part of it admissible,      *)
(* inclusion exactly where there is a remainder, cores that are shared.    *)
THEOREM LawsHold == Spec => []FragmentLaws
<1>1. IInv => FragmentLaws
  BY NormalFormOf, OrderOf, PartsOf, RemainderExistsOf, CoreIsSharedOf DEF FragmentLaws
<1>2. QED BY <1>1, AlwaysFits, PTL
=============================================================================
