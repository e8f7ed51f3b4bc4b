------------------------------- MODULE Ranks --------------------------------
(***************************************************************************)
(* Facts about finite sets in an order, for the proofs about queries with  *)
(* ORDER BY ... LIMIT n, which the models write as the elements of the     *)
(* lowest ranks, and about the largest and smallest numbers of a set.      *)
(* They stand for the induction over the set: what has rank k exists       *)
(* because the ranks of n elements are n different numbers up to n.        *)
(***************************************************************************)
EXTENDS Integers, FiniteSets, FiniteSetsExt, FiniteSetTheorems, TLAPS

(* A rank that no two elements share takes every value up to their number. *)
LEMMA EveryRankIsTaken ==
  ASSUME NEW S, IsFiniteSet(S), NEW rank \in [S -> 1 .. Cardinality(S)],
         \A d, e \in S : rank[d] = rank[e] => d = e,
         NEW k \in 1 .. Cardinality(S)
  PROVE  \E d \in S : rank[d] = k
<1> DEFINE T == 1 .. Cardinality(S)
<1>1. Cardinality(S) \in Nat
  BY FS_CardinalityType
<1>2. IsFiniteSet(T) /\ Cardinality(T) = Cardinality(S)
  BY <1>1, FS_Interval
<1>3. rank \in Injection(S, T)
  BY DEF Injection, IsInjective
<1>4. rank \in Surjection(S, T)
  BY <1>2, <1>3, FS_Injection
<1> QED BY <1>4 DEF Surjection

(* A strict total order, as a set of pairs. *)
Sorts(L, S) ==
  /\ \A d \in S : <<d, d>> \notin L
  /\ \A d, e \in S : d = e \/ <<d, e>> \in L \/ <<e, d>> \in L
  /\ \A c, d, e \in S : <<c, d>> \in L /\ <<d, e>> \in L => <<c, e>> \in L

Below(L, S, d) == {e \in S : <<e, d>> \in L}

(* The number of smaller elements grows along the order. *)
LEMMA CountsBelow ==
  ASSUME NEW S, IsFiniteSet(S), NEW L, Sorts(L, S)
  PROVE  /\ \A d \in S : /\ Cardinality(Below(L, S, d)) \in Nat
                         /\ Cardinality(Below(L, S, d)) + 1 \in 1 .. Cardinality(S)
         /\ \A d, c \in S : <<c, d>> \in L =>
              Cardinality(Below(L, S, c)) < Cardinality(Below(L, S, d))
<1> DEFINE below(d) == Below(L, S, d)
<1>1. ASSUME NEW d \in S
      PROVE  IsFiniteSet(below(d)) /\ Cardinality(below(d)) \in Nat
  BY FS_Subset, FS_CardinalityType DEF Below
<1>2. ASSUME NEW d \in S PROVE Cardinality(below(d)) + 1 \in 1 .. Cardinality(S)
  <2>1. below(d) \subseteq S \ {d}
    BY DEF Sorts, Below
  <2>2. IsFiniteSet(S \ {d}) /\ Cardinality(S \ {d}) = Cardinality(S) - 1
    BY FS_RemoveElement
  <2>3. Cardinality(below(d)) <= Cardinality(S \ {d})
    BY <2>1, <2>2, FS_Subset
  <2>4. Cardinality(S) \in Nat
    BY FS_CardinalityType
  <2> QED BY <1>1, <2>2, <2>3, <2>4
<1>3. ASSUME NEW d \in S, NEW c \in S, <<c, d>> \in L
      PROVE  Cardinality(below(c)) < Cardinality(below(d))
  <2>1. below(c) \subseteq below(d) \ {c} /\ c \in below(d)
    BY <1>3 DEF Sorts, Below
  <2>2. IsFiniteSet(below(d) \ {c}) /\ Cardinality(below(d) \ {c}) = Cardinality(below(d)) - 1
    BY <1>1, <2>1, FS_RemoveElement
  <2>3. Cardinality(below(c)) <= Cardinality(below(d) \ {c})
    BY <2>1, <2>2, FS_Subset
  <2> QED BY <1>1, <2>2, <2>3
<1> QED BY <1>1, <1>2, <1>3

(* So each rank belongs to exactly one of them. *)
LEMMA RankInOrder ==
  ASSUME NEW S, IsFiniteSet(S), NEW L, Sorts(L, S), NEW k \in 1 .. Cardinality(S)
  PROVE  \E d \in S : Cardinality(Below(L, S, d)) = k - 1
<1> DEFINE rank == [d \in S |-> Cardinality(Below(L, S, d)) + 1]
<1>1. rank \in [S -> 1 .. Cardinality(S)]
  BY CountsBelow
<1> DEFINE n(d) == Cardinality(Below(L, S, d))
<1>2. \A d \in S : n(d) \in Nat /\ rank[d] = n(d) + 1
  BY CountsBelow
<1>3. \A d, c \in S : <<c, d>> \in L => n(c) < n(d)
  BY CountsBelow
<1> HIDE DEF rank, n
<1>4. \A d \in S, e \in S : rank[d] = rank[e] => d = e
  <2>1. \A d, c \in S : rank[c] = rank[d] => n(c) = n(d)
    BY <1>2
  <2>2. \A d, c \in S : <<c, d>> \in L => n(c) # n(d)
    BY <1>2, <1>3
  <2> QED BY <2>1, <2>2 DEF Sorts
<1>5. \E d \in S : rank[d] = k
  BY <1>1, <1>4, EveryRankIsTaken
<1>6. PICK d \in S : rank[d] = k
  BY <1>5
<1>7. n(d) = k - 1
  <2>1. k \in Int
    BY FS_CardinalityType
  <2> QED BY <1>2, <1>6, <2>1
<1> QED BY <1>7 DEF n

(* The same for integers and <. *)
LEMMA RankOfInteger ==
  ASSUME NEW S \in SUBSET Int, IsFiniteSet(S), NEW k \in 1 .. Cardinality(S)
  PROVE  \E d \in S : Cardinality({e \in S : e < d}) = k - 1
<1> DEFINE L == {p \in S \X S : p[1] < p[2]}
<1>1. \A d, e \in S : <<d, e>> \in L <=> d < e
  OBVIOUS
<1>2. Sorts(L, S)
  BY <1>1 DEF Sorts
<1>3. \A d \in S : Below(L, S, d) = {e \in S : e < d}
  BY <1>1 DEF Below
<1> HIDE DEF L
<1>4. \E d \in S : Cardinality(Below(L, S, d)) = k - 1
  <2>1. IsFiniteSet(S) /\ Sorts(L, S) /\ k \in 1 .. Cardinality(S)
    BY <1>2
  <2> QED BY ONLY <2>1, RankInOrder
<1> PICK d \in S : Cardinality(Below(L, S, d)) = k - 1
  BY <1>4
<1>5. Below(L, S, d) = {e \in S : e < d}
  BY <1>3
<1> QED BY <1>5

(* Max is the largest element of a finite set of integers. *)
LEMMA MaxFacts ==
  ASSUME NEW S \in SUBSET Int, IsFiniteSet(S), S # {}
  PROVE  Max(S) \in S /\ \A e \in S : e <= Max(S)
<1>1. Cardinality(S) \in Nat \ {0}
  BY FS_CardinalityType, FS_EmptySet
<1>2. PICK d \in S : Cardinality({e \in S : e < d}) = Cardinality(S) - 1
  BY <1>1, RankOfInteger
<1>3. {e \in S : e < d} = S \ {d}
  <2>1. IsFiniteSet(S \ {d}) /\ Cardinality(S \ {d}) = Cardinality(S) - 1
    BY FS_RemoveElement
  <2>2. {e \in S : e < d} \in SUBSET (S \ {d})
    OBVIOUS
  <2> QED BY <1>2, <2>1, <2>2, FS_Subset
<1>4. \A e \in S : d >= e
  BY <1>3
<1>5. Max(S) \in S /\ \A e \in S : Max(S) >= e
  BY <1>4 DEF Max
<1> QED BY <1>5

(* So has a bounded set of natural numbers. *)
LEMMA MaxOfNaturals ==
  ASSUME NEW S \in SUBSET Nat, S # {}, NEW b \in Nat, \A e \in S : e <= b
  PROVE  Max(S) \in S /\ \A e \in S : e <= Max(S)
<1>1. IsFiniteSet(S)
  BY FS_BoundedSetOfNaturals
<1> QED BY <1>1, MaxFacts

(* Of two numbers Min is the smaller one. *)
LEMMA MinOfTwo ==
  ASSUME NEW m \in Nat, NEW n \in Nat
  PROVE  Min({m, n}) = IF m <= n THEN m ELSE n
<1>1. CASE m <= n
  <2>1. \A y \in {m, n} : m =< y
    BY <1>1
  <2>2. Min({m, n}) \in {m, n} /\ \A y \in {m, n} : Min({m, n}) =< y
    BY <2>1 DEF Min
  <2> QED BY <1>1, <2>2
<1>2. CASE n < m
  <2>1. \A y \in {m, n} : n =< y
    BY <1>2
  <2>2. Min({m, n}) \in {m, n} /\ \A y \in {m, n} : Min({m, n}) =< y
    BY <2>1 DEF Min
  <2> QED BY <1>2, <2>2
<1> QED BY <1>1, <1>2
=============================================================================
