--------------------------- MODULE MCResourcePool ---------------------------
(* Every valid fragment of each algebra at the smallest width at which     *)
(* sums overflow, shares exceed the whole and three claims can overlap.    *)
EXTENDS ResourcePool

MCPoint == 0 .. 3
Names == {"a", "b"}

(* The range that has exactly these points: one span for each of their     *)
(* runs.                                                                   *)
SpansOf(X) ==
  {<<x, y>> \in X \X (1 .. 4) : x < y /\ x - 1 \notin X /\ y \notin X /\ x .. y - 1 \subseteq X}
RangeWith(X) == SetToSortSeq(SpansOf(X), Before)

MCClaim ==
  {<<"exclusive", "token">>}
    \cup {<<"counted", n>> : n \in 0 .. MaxCount}
    \cup {<<"set", s>> : s \in SUBSET Names}
    \cup {<<"range", RangeWith(X)>> : X \in SUBSET MCPoint}
    \cup {<<"frac", n>> : n \in 1 .. MaxFrac}

MCCapacity ==
  {<<"exclusive", "token">>, <<"set", Names>>, <<"set", {"a"}>>, <<"frac", MaxFrac>>,
   <<"range", RangeOf(<<<<0, 4>>>>)>>, <<"range", RangeOf(<<<<0, 1>>, <<2, 4>>>>)>>}
    \cup {<<"counted", n>> : n \in {0, 2, MaxCount}}
=============================================================================
