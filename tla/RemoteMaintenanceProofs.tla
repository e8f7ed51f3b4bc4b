----------------------- MODULE RemoteMaintenanceProofs -----------------------
(***************************************************************************)
(* Proofs about RemoteMaintenance, for any replicas, archives, arrivals,   *)
(* answers of the model, limits and failures: no evidence is analyzed      *)
(* twice, none that a watermark has passed is skipped, published groups    *)
(* are whole and published patches are based on the page as it was at the  *)
(* watermark.                                                              *)
(*                                                                         *)
(* Windows is the invariant the rest stands on: what a job still has to do *)
(* in a replica begins at the watermark of the newest run of that replica, *)
(* published or recorded, so the windows of two runs never overlap.        *)
(* Cover adds that a window leaves no evidence out, Patches that what is   *)
(* selected and published is newest at the watermark.  Bounded queries     *)
(* take the elements of lowest rank (Ranks).                               *)
(***************************************************************************)
EXTENDS RemoteMaintenance, Ranks

-----------------------------------------------------------------------------
(* THE ARCHIVE *)

(* What reads of the archive rely on: the types, and documents of events   *)
(* that have arrived.                                                      *)
Typed ==
  /\ TypeOK
  /\ arrived \in [Replicas -> Nat]
  /\ IsFiniteSet(docs)
  /\ \A d \in docs : d[2] \in Arrived(d[1])

Located == {d \in Replicas \X Places : d[2] \in Arrived(d[1])}

(* Events that have arrived are events. *)
LEMMA ArrivedEvents ==
  ASSUME Typed, NEW r \in Replicas
  PROVE  /\ arrived[r] \in Nat /\ IsFiniteSet(Arrived(r)) /\ Arrived(r) \subseteq Places
         /\ Len(stream[r]) \in Nat /\ arrived[r] <= Len(stream[r])
         /\ \A i \in Arrived(r) :
              /\ At(r, i) \in Event
              /\ At(r, i).seq \in Nat /\ At(r, i).seq > 0
              /\ At(r, i).path \in Nat
<1>1. stream[r] \in Seq(Event) /\ arrived[r] \in 0 .. Len(stream[r]) /\ arrived[r] \in Nat
  BY StreamAssumption DEF Typed, TypeOK
<1>2. IsFiniteSet(Arrived(r)) /\ Arrived(r) \subseteq Places
  <2>1. Arrived(r) \subseteq Places
    BY <1>1 DEF Arrived, Places
  <2>2. IsFiniteSet(1 .. arrived[r])
    BY <1>1, FS_Interval
  <2> QED BY <2>1, <2>2 DEF Arrived
<1>3. ASSUME NEW i \in Arrived(r)
      PROVE  /\ At(r, i) \in Event
             /\ At(r, i).seq \in Nat /\ At(r, i).seq > 0
             /\ At(r, i).path \in Nat
  <2>1. i \in 1 .. Len(stream[r])
    BY <1>1, <1>3 DEF Arrived
  <2>2. At(r, i) \in Event
    BY <1>1, <2>1 DEF At
  <2>3. At(r, i).seq \in Nat \ {0} /\ At(r, i).path \in Paths \cup {NoPath}
    BY <2>2 DEF Event
  <2>4. At(r, i).seq \in Nat /\ At(r, i).seq > 0
    BY <2>3
  <2>5. Paths \cup {NoPath} \subseteq Nat
    BY StreamAssumption DEF NoPath
  <2>6. At(r, i).path \in Nat
    BY <2>3, <2>5
  <2> QED BY <2>2, <2>4, <2>6
<1> QED BY <1>1, <1>2, <1>3

(* Before orders them: by sequence, then by replica, then by arrival. *)
LEMMA BeforeOrders ==
  ASSUME Typed, NEW S \in SUBSET Located
  PROVE  Sorts({p \in S \X S : Before(p[1], p[2])}, S)
<1> DEFINE L == {p \in S \X S : Before(p[1], p[2])}
           x(d) == At(d[1], d[2]).seq
<1>1. \A d, e \in S : <<d, e>> \in L <=> Before(d, e)
  OBVIOUS
<1>2. \A d \in S : /\ d = <<d[1], d[2]>>
                   /\ d[1] \in Int /\ d[2] \in Int /\ x(d) \in Int
  <2> SUFFICES ASSUME NEW d \in S
               PROVE  /\ d = <<d[1], d[2]>>
                      /\ d[1] \in Int /\ d[2] \in Int /\ x(d) \in Int
    OBVIOUS
  <2>1. /\ d \in Replicas \X Places /\ d[2] \in Arrived(d[1])
        /\ d[1] \in Replicas /\ d[2] \in Places
    BY DEF Located
  <2>2. At(d[1], d[2]).seq \in Nat
    BY <2>1, ArrivedEvents
  <2>3. d[1] \in Nat /\ d[2] \in Nat
    BY <2>1, StreamAssumption DEF Places
  <2>4. d = <<d[1], d[2]>>
    BY <2>1
  <2> QED BY <2>2, <2>3, <2>4
<1>3. \A d, e \in S : Before(d, e) <=>
        x(d) < x(e) \/ (x(d) = x(e) /\ (d[1] < e[1] \/ (d[1] = e[1] /\ d[2] < e[2])))
  BY DEF Before
<1> HIDE DEF L, x
<1>4. \A d \in S : ~Before(d, d)
  BY <1>2, <1>3
<1>5. \A d, e \in S : d = e \/ Before(d, e) \/ Before(e, d)
  <2> SUFFICES ASSUME NEW d \in S, NEW e \in S, ~Before(d, e), ~Before(e, d) PROVE d = e
    OBVIOUS
  <2>1. d[1] = e[1] /\ d[2] = e[2]
    BY <1>2, <1>3
  <2> QED BY <1>2, <2>1
<1>6. \A c, d, e \in S : Before(c, d) /\ Before(d, e) => Before(c, e)
  BY <1>2, <1>3
<1> QED BY <1>1, <1>4, <1>5, <1>6 DEF Sorts

(* ORDER BY ... LIMIT n returns n of them, or all, each with its rank.     *)
LEMMA InOrderFacts ==
  ASSUME Typed, NEW S \in SUBSET Located, IsFiniteSet(S), NEW n \in Nat
  PROVE  /\ InOrder(S, n) \in Seq(S)
         /\ Cardinality(S) \in Nat
         /\ Len(InOrder(S, n)) = IF n <= Cardinality(S) THEN n ELSE Cardinality(S)
         /\ \A k \in 1 .. Len(InOrder(S, n)) : /\ InOrder(S, n)[k] \in S
                                               /\ RankIn(S, InOrder(S, n)[k]) = k
<1> DEFINE L == {p \in S \X S : Before(p[1], p[2])}
           m == IF n <= Cardinality(S) THEN n ELSE Cardinality(S)
<1>1. Cardinality(S) \in Nat /\ m \in Nat /\ m <= Cardinality(S)
  BY FS_CardinalityType
<1>2. ASSUME NEW k \in 1 .. Cardinality(S) PROVE \E d \in S : RankIn(S, d) = k
  <2>1. Sorts(L, S)
    BY BeforeOrders
  <2>2. \A d \in S : Below(L, S, d) = {e \in S : Before(e, d)}
    BY DEF Below
  <2> HIDE DEF L
  <2>3. PICK d \in S : Cardinality(Below(L, S, d)) = k - 1
    BY <2>1, RankInOrder
  <2>4. Cardinality({e \in S : Before(e, d)}) = k - 1
    BY <2>2, <2>3
  <2>5. RankIn(S, d) = k
    BY <1>1, <2>4 DEF RankIn
  <2> QED BY <2>5
<1>3. InOrder(S, n) = [k \in 1 .. m |-> CHOOSE d \in S : RankIn(S, d) = k]
  BY <1>1, MinOfTwo DEF InOrder
<1> HIDE DEF m
<1>4. \A k \in 1 .. m : InOrder(S, n)[k] \in S /\ RankIn(S, InOrder(S, n)[k]) = k
  BY <1>1, <1>2, <1>3
<1>5. InOrder(S, n) \in Seq(S) /\ Len(InOrder(S, n)) = m
  BY <1>1, <1>3, <1>4
<1> QED BY <1>1, <1>4, <1>5 DEF m

(* Of two documents with different ranks the lower is before the other. *)
LEMMA RanksFollowOrder ==
  ASSUME Typed, NEW S \in SUBSET Located, IsFiniteSet(S), NEW c \in S, NEW d \in S
  PROVE  /\ RankIn(S, c) \in 1 .. Cardinality(S)
         /\ c # d <=> RankIn(S, c) # RankIn(S, d)
         /\ RankIn(S, c) < RankIn(S, d) <=> Before(c, d)
<1> DEFINE L == {p \in S \X S : Before(p[1], p[2])}
           n(x) == Cardinality(Below(L, S, x))
<1>1. Sorts(L, S)
  BY BeforeOrders
<1>2. \A x, e \in S : <<e, x>> \in L <=> Before(e, x)
  OBVIOUS
<1>3. \A x \in S : Below(L, S, x) = {e \in S : Before(e, x)}
  BY DEF Below
<1> HIDE DEF L
<1>4. \A x \in S : n(x) \in Nat /\ n(x) + 1 \in 1 .. Cardinality(S) /\ RankIn(S, x) = n(x) + 1
  <2>1. \A x \in S : n(x) \in Nat /\ n(x) + 1 \in 1 .. Cardinality(S)
    BY <1>1, CountsBelow
  <2>2. \A x \in S : RankIn(S, x) = n(x) + 1
    BY <1>3 DEF RankIn
  <2> QED BY <2>1, <2>2
<1>5. \A x, e \in S : <<e, x>> \in L => n(e) < n(x)
  BY <1>1, CountsBelow
<1> HIDE DEF n
<1>6. (Before(c, d) => n(c) < n(d)) /\ (Before(d, c) => n(d) < n(c))
  BY <1>2, <1>5
<1>7. c = d \/ Before(c, d) \/ Before(d, c)
  BY <1>1, <1>2 DEF Sorts
<1>8. n(c) \in Nat /\ n(d) \in Nat /\ RankIn(S, c) = n(c) + 1 /\ RankIn(S, d) = n(d) + 1
      /\ n(c) + 1 \in 1 .. Cardinality(S)
  BY <1>4
<1>9. c = d => n(c) = n(d)
  OBVIOUS
<1> QED BY <1>6, <1>7, <1>8, <1>9

-----------------------------------------------------------------------------
(* BATCHES *)

(* The limits are positive. *)
LEMMA Limits ==
  /\ MaxReplicas \in Nat /\ MaxReplicas > 0
  /\ MaxBatches \in Nat /\ MaxBatches > 0
  /\ MaxEvents \in Nat /\ MaxEvents > 0
  /\ MaxPages \in Nat /\ MaxFailures \in Nat
  /\ MaxEmbed \in Nat
<1>1. MaxReplicas \in Nat \ {0} /\ MaxBatches \in Nat \ {0} /\ MaxEvents \in Nat \ {0}
      /\ MaxPages \in Nat \ {0} /\ MaxFailures \in Nat
  BY LimitAssumption
<1>2. MaxEmbed \in Nat \ {0}
  BY PolicyAssumption
<1> QED BY <1>1, <1>2

(* Only events inside the window are read. *)
LEMMA RelevantInside ==
  ASSUME NEW r, NEW after, NEW through, NEW i \in Relevant(r, after, through)
  PROVE  i \in Arrived(r) /\ after < At(r, i).seq /\ At(r, i).seq <= through
BY DEF Relevant

(* A batch of evidence: the first of the relevant events, in their order.  *)
Batch(r, after, through, rows) ==
  /\ rows \in Seq(Arrived(r))
  /\ Len(rows) <= MaxEvents
  /\ \A k \in 1 .. Len(rows) : rows[k] \in Relevant(r, after, through)
  /\ \A i \in Relevant(r, after, through) :
       (\E k \in 1 .. Len(rows) : rows[k] = i) \/ Len(rows) = MaxEvents
  /\ \A k, n \in 1 .. Len(rows) : k <= n => At(r, rows[k]).seq <= At(r, rows[n]).seq
  /\ \A i \in Relevant(r, after, through) : \A n \in 1 .. Len(rows) :
       \/ \E k \in 1 .. n : rows[k] = i
       \/ At(r, rows[n]).seq < At(r, i).seq
       \/ At(r, rows[n]).seq = At(r, i).seq /\ rows[n] < i

(* The query of the evidence returns such a batch. *)
LEMMA RowsAreABatch ==
  ASSUME Typed, NEW r \in Replicas, NEW after \in Nat, NEW through \in Nat
  PROVE  Batch(r, after, through, Rows(r, after, through))
<1> DEFINE R == Relevant(r, after, through)
           S == {r} \X R
           order == InOrder(S, MaxEvents)
           rows == Rows(r, after, through)
<1>1. R \subseteq Arrived(r) /\ IsFiniteSet(R) /\ Arrived(r) \subseteq Places
  BY RelevantInside, ArrivedEvents, FS_Subset
<1>2. S \in SUBSET Located /\ IsFiniteSet(S)
  BY <1>1, FS_Singleton, FS_Product DEF Located
<1>3. \A i \in R : <<r, i>> \in S
  OBVIOUS
<1>4. \A d \in S : d[1] = r /\ d[2] \in R /\ d = <<r, d[2]>>
  OBVIOUS
<1>5. rows = [k \in DOMAIN order |-> order[k][2]]
  BY DEF Rows
<1> HIDE DEF R, S, order, rows
<1> DEFINE c == Cardinality(S)
<1>6. /\ order \in Seq(S) /\ c \in Nat
      /\ Len(order) = IF MaxEvents <= c THEN MaxEvents ELSE c
      /\ \A k \in 1 .. Len(order) : order[k] \in S /\ RankIn(S, order[k]) = k
  BY <1>2, Limits, InOrderFacts DEF order
<1>7. DOMAIN order = 1 .. Len(order) /\ Len(order) \in Nat
  BY <1>6
<1>8. \A k \in 1 .. Len(order) : rows[k] = order[k][2] /\ rows[k] \in R /\ order[k] = <<r, rows[k]>>
  BY <1>4, <1>5, <1>6, <1>7
<1>9. rows \in Seq(Arrived(r)) /\ Len(rows) = Len(order)
  BY <1>1, <1>5, <1>7, <1>8
<1>10. \A d, e \in S : /\ RankIn(S, d) \in 1 .. c
                       /\ RankIn(S, d) = RankIn(S, e) => d = e
                       /\ RankIn(S, d) < RankIn(S, e) => Before(d, e)
  BY <1>2, RanksFollowOrder
<1>11. \A i, j \in R : Before(<<r, i>>, <<r, j>>) <=>
         At(r, i).seq < At(r, j).seq \/ (At(r, i).seq = At(r, j).seq /\ i < j)
  <2>1. r \in Nat
    BY StreamAssumption
  <2> QED BY <2>1 DEF Before
<1>12. \A i \in R : At(r, i).seq \in Nat
  BY <1>1, ArrivedEvents
<1>13. ASSUME NEW i \in R, RankIn(S, <<r, i>>) \in 1 .. Len(order)
       PROVE  rows[RankIn(S, <<r, i>>)] = i
  <2> DEFINE k == RankIn(S, <<r, i>>)
  <2>1. order[k] \in S /\ RankIn(S, order[k]) = k /\ order[k] = <<r, rows[k]>>
    BY <1>6, <1>8, <1>13
  <2>2. order[k] = <<r, i>>
    BY <1>3, <1>10, <2>1
  <2> QED BY <2>1, <2>2
<1>14. ASSUME NEW i \in R
       PROVE  (\E k \in 1 .. Len(rows) : rows[k] = i) \/ Len(rows) = MaxEvents
  <2>1. RankIn(S, <<r, i>>) \in 1 .. c
    BY <1>3, <1>10
  <2>2. CASE RankIn(S, <<r, i>>) \in 1 .. Len(order)
    BY <1>9, <1>13, <2>2
  <2>3. CASE RankIn(S, <<r, i>>) \notin 1 .. Len(order)
    BY <1>6, <1>9, <2>1, <2>3
  <2> QED BY <2>2, <2>3
<1>15. ASSUME NEW k \in 1 .. Len(rows), NEW n \in 1 .. Len(rows), k <= n
       PROVE  At(r, rows[k]).seq <= At(r, rows[n]).seq
  <2>1. CASE k = n
    BY <1>8, <1>9, <1>12, <2>1
  <2>2. CASE k # n
    <3>1. k < n /\ rows[k] \in R /\ rows[n] \in R
      BY <1>7, <1>8, <1>9, <1>15, <2>2
    <3>2. RankIn(S, <<r, rows[k]>>) = k /\ RankIn(S, <<r, rows[n]>>) = n
      BY <1>6, <1>8, <1>9
    <3>3. Before(<<r, rows[k]>>, <<r, rows[n]>>)
      BY <1>3, <1>10, <3>1, <3>2
    <3> QED BY <1>11, <1>12, <3>1, <3>3
  <2> QED BY <2>1, <2>2
<1>16. ASSUME NEW i \in R, NEW n \in 1 .. Len(rows)
       PROVE  \/ \E k \in 1 .. n : rows[k] = i
              \/ At(r, rows[n]).seq < At(r, i).seq
              \/ At(r, rows[n]).seq = At(r, i).seq /\ rows[n] < i
  <2> DEFINE k == RankIn(S, <<r, i>>)
  <2>1. k \in 1 .. c
    BY <1>3, <1>10
  <2>2. n \in 1 .. Len(order) /\ rows[n] \in R /\ RankIn(S, <<r, rows[n]>>) = n
    BY <1>6, <1>8, <1>9
  <2>3. CASE k <= n
    <3>1. k \in 1 .. n /\ k \in 1 .. Len(order)
      BY <1>6, <1>7, <2>1, <2>2, <2>3
    <3>2. rows[k] = i
      BY <1>13, <3>1
    <3> QED BY <3>1, <3>2
  <2>4. CASE n < k
    <3>1. Before(<<r, rows[n]>>, <<r, i>>)
      BY <1>3, <1>10, <2>2, <2>4
    <3> QED BY <1>11, <2>2, <3>1
  <2> HIDE DEF k
  <2> QED BY <1>6, <2>1, <2>2, <2>3, <2>4
<1>17. Len(rows) <= MaxEvents
  BY <1>6, <1>9, Limits
<1>18. \A k \in 1 .. Len(rows) : rows[k] \in R
  BY <1>8, <1>9
<1> QED BY <1>9, <1>14, <1>15, <1>16, <1>17, <1>18 DEF Batch, R, rows

(* A batch that is not empty takes at least its first item. *)
LEMMA FittingTakesOne ==
  ASSUME NEW r, NEW rows, Len(rows) \in Nat
  PROVE  /\ Fitting(r, rows) \in 0 .. Len(rows)
         /\ Len(rows) > 0 => Fitting(r, rows) > 0
<1> DEFINE N == {n \in 1 .. Len(rows) :
                   \A k \in 2 .. n : ~Cut(r, rows[k]) /\ CostOf(r, rows, k) <= MaxInput}
           S == {0} \cup N
<1>1. N \subseteq 1 .. Len(rows)
  OBVIOUS
<1>2. Len(rows) > 0 => 1 \in N
  OBVIOUS
<1>3. Fitting(r, rows) = Max(S)
  BY DEF Fitting
<1> HIDE DEF N
<1>4. S \in SUBSET Nat /\ S # {} /\ \A e \in S : e <= Len(rows)
  BY <1>1
<1>5. Max(S) \in S /\ \A e \in S : e <= Max(S)
  BY <1>4, MaxOfNaturals
<1>6. Len(rows) > 0 => 1 <= Max(S)
  BY <1>2, <1>5
<1>7. Max(S) \in 0 .. Len(rows)
  <2>1. S \subseteq 0 .. Len(rows)
    BY <1>1
  <2> QED BY <1>5, <2>1
<1> QED BY <1>3, <1>6, <1>7

(* The watermark a batch reaches is past the start of its window, at most  *)
(* its end, and at least the sequence of what was taken.                   *)
LEMMA ReachedInWindow ==
  ASSUME Typed, NEW r \in Replicas, NEW after \in Nat, NEW through \in Nat, after < through,
         NEW rows, Batch(r, after, through, rows),
         NEW n \in 0 .. Len(rows), Len(rows) > 0 => n > 0
  PROVE  /\ Reached(r, rows, n, through) \in Nat
         /\ after < Reached(r, rows, n, through)
         /\ Reached(r, rows, n, through) <= through
         /\ \A k \in 1 .. n : At(r, rows[k]).seq <= Reached(r, rows, n, through)
         /\ \A i \in Relevant(r, after, through) :
              At(r, i).seq <= Reached(r, rows, n, through) =>
                \/ i \in {rows[k] : k \in 1 .. n}
                \/ \E j \in Arrived(r) : j < i /\ At(r, j).seq = At(r, i).seq
<1> DEFINE w == Reached(r, rows, n, through)
           m == Len(rows)
           s(k) == At(r, rows[k]).seq
           R == Relevant(r, after, through)
<1>1. /\ rows \in Seq(Arrived(r)) /\ m \in Nat
      /\ \A k \in 1 .. m : rows[k] \in R
      /\ \A i \in R : (\E k \in 1 .. m : rows[k] = i) \/ m = MaxEvents
      /\ \A k, l \in 1 .. m : k <= l => s(k) <= s(l)
      /\ \A i \in R : \A l \in 1 .. m :
           \/ \E k \in 1 .. l : rows[k] = i
           \/ s(l) < At(r, i).seq
           \/ s(l) = At(r, i).seq /\ rows[l] < i
  BY DEF Batch
<1>2. \A i \in R : i \in Arrived(r) /\ At(r, i).seq \in Nat /\ after < At(r, i).seq /\ At(r, i).seq <= through
  BY RelevantInside, ArrivedEvents
<1>3. \A k \in 1 .. m : s(k) \in Nat /\ after < s(k) /\ s(k) <= through
  BY <1>1, <1>2
<1> HIDE DEF R
(* The watermark is the sequence of the last item that was taken. *)
<1>4. ASSUME NEW l \in 1 .. m, n = l, w = s(l)
      PROVE  /\ w \in Nat /\ after < w /\ w <= through
             /\ \A k \in 1 .. n : s(k) <= w
             /\ \A i \in R : At(r, i).seq <= w =>
                  i \in {rows[k] : k \in 1 .. n}
                  \/ \E j \in Arrived(r) : j < i /\ At(r, j).seq = At(r, i).seq
  <2>1. w \in Nat /\ after < w /\ w <= through
    BY <1>3, <1>4
  <2>2. \A k \in 1 .. n : k \in 1 .. m /\ k <= l
    BY <1>1, <1>4
  <2>3. \A k \in 1 .. n : s(k) <= w
    BY <1>1, <1>4, <2>2
  <2>4. ASSUME NEW i \in R, At(r, i).seq <= w
        PROVE  i \in {rows[k] : k \in 1 .. n}
               \/ \E j \in Arrived(r) : j < i /\ At(r, j).seq = At(r, i).seq
    <3>1. CASE \E k \in 1 .. l : rows[k] = i
      BY <1>4, <3>1
    <3>2. CASE s(l) < At(r, i).seq
      BY <1>2, <1>3, <1>4, <2>4, <3>2
    <3>3. CASE s(l) = At(r, i).seq /\ rows[l] < i
      BY <1>1, <1>2, <3>3
    <3> QED BY <1>1, <3>1, <3>2, <3>3
  <2> QED BY <2>1, <2>3, <2>4
<1>5. CASE n < m
  <2>1. n \in 1 .. m /\ w = s(n)
    BY <1>1, <1>5 DEF Reached
  <2> HIDE DEF w, s
  <2> QED BY <1>4, <2>1 DEF w, s, R
<1>6. CASE n = m /\ m = MaxEvents
  <2>1. n \in 1 .. m
    BY <1>1, <1>6, Limits
  <2>2. Last(rows) = rows[m]
    BY DEF Last
  <2>3. w = s(n)
    BY <1>1, <1>6, <2>2 DEF Reached
  <2> HIDE DEF w, s
  <2> QED BY <1>4, <2>1, <2>3 DEF w, s, R
<1>7. CASE n = m /\ m # MaxEvents
  <2>1. w = through
    BY <1>1, <1>7 DEF Reached
  <2>2. \A i \in R : i \in {rows[k] : k \in 1 .. n}
    BY <1>1, <1>7
  <2> QED BY <1>3, <1>7, <2>1, <2>2 DEF R
<1> QED BY <1>1, <1>5, <1>6, <1>7

-----------------------------------------------------------------------------
(* THE WINDOWS OF THE JOB *)

(* A run analyzed events of its window, which is not empty and ends at or  *)
(* before some event that has arrived.                                     *)
Sane(q) ==
  /\ q.after < q.watermark
  /\ \A i \in q.evidence : /\ i \in Arrived(q.replica)
                           /\ q.after < At(q.replica, i).seq
                           /\ At(q.replica, i).seq <= q.watermark
  /\ \E j \in Arrived(q.replica) : q.watermark <= At(q.replica, j).seq

RunsSane == \A x \in manifests \cup records : Sane(x.request)

Active == job.pc \notin {"idle", "read"}
JobSane == Active => Sane(RequestOf) /\ job.watermark <= Work.through

(* An item of work starts where the runs of its replica end and goes up to *)
(* an event that has arrived; between publication and record the run of    *)
(* the current batch is the only one behind its start.                     *)
Open(u) ==
  /\ u.after < u.through
  /\ u.after = 0 \/ \E x \in Runs(u.replica) : x.request.watermark = u.after
  /\ \E j \in Arrived(u.replica) : At(u.replica, j).seq = u.through

Todo ==
  /\ \A k \in 1 .. Len(job.todo) : Open(job.todo[k])
  /\ \A k, l \in 1 .. Len(job.todo) : job.todo[k].replica = job.todo[l].replica => k = l
  /\ \A k \in 1 .. Len(job.todo) : \A x \in Runs(job.todo[k].replica) :
       x.request.watermark <= job.todo[k].after \/ (k = 1 /\ job.pc = "record" /\ x = RunOf)

(* The windows of one replica do not overlap. *)
Apart ==
  \A r \in Replicas : \A x, y \in Runs(r) :
    \/ x.request = y.request
    \/ x.request.watermark <= y.request.after
    \/ y.request.watermark <= x.request.after

Windows == Typed /\ RunsSane /\ JobSane /\ Todo /\ Apart /\ ~conflict

(* The elements of a sequence over T are in T. *)
LEMMA ElementOfSeq ==
  ASSUME NEW T, NEW s \in Seq(T), NEW k \in 1 .. Len(s)
  PROVE  s[k] \in T
OBVIOUS

(* What the types of the job and of the runs say. *)
LEMMA JobTypes ==
  ASSUME Typed
  PROVE  /\ job \in JobState
         /\ job.pc \in {"idle", "read", "project", "embed", "select", "ask", "publish", "record"}
         /\ job.todo \in Seq([replica : Replicas, after : Nat, through : Nat])
         /\ Len(job.todo) \in Nat
         /\ \A k \in 1 .. Len(job.todo) : /\ job.todo[k] \in [replica : Replicas, after : Nat, through : Nat]
                                          /\ job.todo[k].replica \in Replicas
                                          /\ job.todo[k].after \in Nat /\ job.todo[k].through \in Nat
         /\ job.batches \in Nat /\ job.watermark \in Nat
         /\ job.evidence \subseteq Places /\ job.pages \subseteq Places /\ job.patches \subseteq Patch
         /\ job.pc # "idle" => /\ Len(job.todo) > 0 /\ 1 \in 1 .. Len(job.todo)
                               /\ Work = job.todo[1] /\ Replica \in Replicas
                               /\ Work.after \in Nat /\ Work.through \in Nat
<1>1. job \in JobState /\ (job.pc # "idle" => job.todo # <<>>)
  BY DEF Typed, TypeOK
<1>2. /\ job.pc \in {"idle", "read", "project", "embed", "select", "ask", "publish", "record"}
      /\ job.todo \in Seq([replica : Replicas, after : Nat, through : Nat])
      /\ job.batches \in Nat /\ job.watermark \in Nat
      /\ job.evidence \subseteq Places /\ job.pages \subseteq Places /\ job.patches \subseteq Patch
  BY <1>1 DEF JobState
<1>3. \A k \in 1 .. Len(job.todo) : job.todo[k] \in [replica : Replicas, after : Nat, through : Nat]
  BY <1>2, ElementOfSeq
<1>4. job.pc # "idle" => Len(job.todo) > 0 /\ 1 \in 1 .. Len(job.todo) /\ Work = job.todo[1]
  BY <1>1, <1>2 DEF Work
<1> QED BY <1>1, <1>2, <1>3, <1>4 DEF Replica

(* The types of a run in the archive or in the records. *)
LEMMA RunTypes ==
  ASSUME Typed, NEW x \in manifests \cup records
  PROVE  /\ x \in Run /\ x.request \in Request /\ x.request.replica \in Replicas
         /\ x.request.after \in Nat /\ x.request.watermark \in Nat
         /\ x.patches \subseteq Patch
<1>1. x \in Run
  BY DEF Typed, TypeOK
<1>2. x.request \in Request /\ x.patches \subseteq Patch
  BY <1>1 DEF Run
<1>3. x.request.replica \in Replicas /\ x.request.after \in Nat /\ x.request.watermark \in Nat
  BY <1>2 DEF Request
<1> QED BY <1>1, <1>2, <1>3

(* The runs of a replica are among those runs. *)
LEMMA RunsOf ==
  ASSUME Typed, NEW r, NEW x \in Runs(r)
  PROVE  /\ x \in manifests \cup records /\ x.request.replica = r
         /\ x.request.after \in Nat /\ x.request.watermark \in Nat
<1>1. x \in manifests \cup records /\ x.request.replica = r
  BY DEF Runs
<1> QED BY <1>1, RunTypes

(* The last watermark of a replica is 0 or that of a run; the newest event *)
(* is 0 or has arrived.                                                    *)
LEMMA LastWatermarkFacts ==
  ASSUME Typed, RunsSane, NEW r \in Replicas
  PROVE  /\ LastWatermark(r) \in Nat
         /\ LastWatermark(r) = 0 \/ \E x \in Runs(r) : x.request.watermark = LastWatermark(r)
         /\ \A x \in Runs(r) : x.request.watermark <= LastWatermark(r)
         /\ Available(r) \in Nat
         /\ Available(r) = 0 \/ \E j \in Arrived(r) : At(r, j).seq = Available(r)
         /\ \A j \in Arrived(r) : At(r, j).seq <= Available(r)
<1> DEFINE A == {0} \cup {At(r, i).seq : i \in Arrived(r)}
           W == {0} \cup {x.request.watermark : x \in Runs(r)}
<1>1. IsFiniteSet(A)
  <2> DEFINE f == [i \in Arrived(r) |-> At(r, i).seq]
             B == {At(r, i).seq : i \in Arrived(r)}
  <2>1. f \in Surjection(Arrived(r), B)
    BY DEF Surjection
  <2>2. IsFiniteSet(B)
    BY <2>1, ArrivedEvents, FS_Surjection
  <2> QED BY <2>2, FS_AddElement
<1>2. A \in SUBSET Nat /\ A # {} /\ A \in SUBSET Int
  BY ArrivedEvents
<1>3. Available(r) = Max(A)
  BY DEF Available
<1>4. \A j \in Arrived(r) : At(r, j).seq \in A
  OBVIOUS
<1>5. \A a \in A : a = 0 \/ \E j \in Arrived(r) : At(r, j).seq = a
  OBVIOUS
<1>6. \A x \in Runs(r) : x.request.watermark \in W
  OBVIOUS
<1>7. \A w \in W : w = 0 \/ \E x \in Runs(r) : x.request.watermark = w
  OBVIOUS
<1>8. LastWatermark(r) = Max(W)
  BY DEF LastWatermark, Runs
<1> HIDE DEF A, W
<1>9. Max(A) \in A /\ \A a \in A : a <= Max(A)
  BY <1>1, <1>2, MaxFacts
<1>10. Available(r) \in Nat
  BY <1>2, <1>3, <1>9
<1>11. ASSUME NEW x \in Runs(r) PROVE x.request.watermark \in Nat /\ x.request.watermark <= Available(r)
  <2>1. Sane(x.request) /\ x.request.replica = r /\ x.request.watermark \in Nat
    BY RunsOf DEF RunsSane
  <2>2. PICK j \in Arrived(r) : x.request.watermark <= At(r, j).seq
    BY <2>1 DEF Sane
  <2>3. At(r, j).seq \in Nat /\ At(r, j).seq <= Available(r)
    BY <1>3, <1>4, <1>9, ArrivedEvents
  <2> QED BY <1>10, <2>1, <2>2, <2>3
<1>12. W \in SUBSET Nat /\ W # {} /\ \A w \in W : w <= Available(r)
  BY <1>7, <1>10, <1>11 DEF W
<1>13. Max(W) \in W /\ \A w \in W : w <= Max(W)
  BY <1>10, <1>12, MaxOfNaturals
<1> QED BY <1>3, <1>4, <1>5, <1>6, <1>7, <1>8, <1>9, <1>10, <1>12, <1>13

-----------------------------------------------------------------------------
(* THE TYPES ARE KEPT *)

JobOK(j) ==
  /\ j \in JobState
  /\ j.pc # "idle" => /\ j.todo # <<>> /\ j.batches < MaxBatches
                      /\ Head(j.todo).after < Head(j.todo).through

(* A step that leaves the archive alone keeps the types when the rest of   *)
(* the state has its own.                                                  *)
LEMMA TypedStep ==
  ASSUME Typed, UNCHANGED archiveVars,
         embedded' \subseteq docs', IsFiniteSet(docs'),
         \A d \in docs' : d \in Located,
         JobOK(job'), manifests' \subseteq Run, records' \subseteq Run,
         conflict' \in BOOLEAN, failures' \in 0 .. MaxFailures
  PROVE  Typed'
<1>1. stream' = stream /\ arrived' = arrived /\ extensions' = extensions
  BY DEF archiveVars
<1>2. docs' \subseteq Replicas \X Places /\ \A d \in docs' : d[2] \in Arrived(d[1])
  BY DEF Located
<1>3. (docs \subseteq Replicas \X Places)'
  BY <1>2
<1>4. (\A d \in docs : d[2] \in Arrived(d[1]))'
  BY <1>1, <1>2 DEF Arrived
<1>5. TypeOK'
  BY <1>1, <1>3 DEF JobOK, Typed, TypeOK
<1> QED BY <1>1, <1>4, <1>5 DEF Typed

(* The search documents are located events. *)
LEMMA TypedDocs ==
  ASSUME Typed
  PROVE  embedded \subseteq docs /\ IsFiniteSet(docs) /\ \A d \in docs : d \in Located
BY DEF Typed, TypeOK, Located

(* The types of runs, flags, counters and the job. *)
LEMMA TypedRest ==
  ASSUME Typed
  PROVE  /\ manifests \subseteq Run /\ records \subseteq Run
         /\ conflict \in BOOLEAN /\ failures \in 0 .. MaxFailures /\ JobOK(job)
BY DEF Typed, TypeOK, JobOK

(* The job between two runs is legal. *)
LEMMA IdleOK == JobOK(Idle)
<1>1. Idle \in JobState
  BY DEF Idle, JobState
<1> QED BY <1>1 DEF JobOK, Idle

(* The types hold initially. *)
LEMMA TypedInit ==
  ASSUME Init
  PROVE  Typed
<1>1. arrived = [r \in Replicas |-> 0] /\ stream \in [Replicas -> Seq(Event)]
  BY StreamAssumption DEF Init
<1>2. arrived \in [Replicas -> Nat]
  BY <1>1
<1>3. \A r \in Replicas : arrived[r] \in 0 .. Len(stream[r])
  BY <1>1
<1>4. JobOK(job)
  BY IdleOK DEF Init
<1>5. 0 \in 0 .. MaxFailures
  BY Limits
<1>6. TypeOK
  BY <1>3, <1>4, <1>5 DEF Init, TypeOK, JobOK
<1> QED BY <1>2, <1>6, FS_EmptySet DEF Typed, Init

(* An event that arrives keeps the types. *)
LEMMA TypedArrive ==
  ASSUME Typed, NEW r \in Replicas, Arrive(r)
  PROVE  Typed'
<1>1. arrived' = [arrived EXCEPT ![r] = @ + 1] /\ arrived[r] < Len(stream[r])
      /\ UNCHANGED <<stream, extensions, docs, embedded, manifests, records, job, conflict, failures>>
  BY DEF Arrive, searchVars
<1>2. \A q \in Replicas : arrived[q] \in Nat /\ Len(stream[q]) \in Nat /\ arrived[q] <= Len(stream[q])
  BY ArrivedEvents
<1>3. arrived' \in [Replicas -> Nat] /\ \A q \in Replicas : arrived'[q] \in 0 .. Len(stream[q])
  BY <1>1, <1>2 DEF Typed
<1>4. \A q \in Replicas : arrived[q] <= arrived'[q]
  BY <1>1, <1>2 DEF Typed
<1>5. \A d \in docs : d[2] \in 1 .. arrived'[d[1]]
  <2>1. ASSUME NEW d \in docs PROVE d[1] \in Replicas /\ d[2] \in 1 .. arrived[d[1]]
    BY DEF Typed, TypeOK, Arrived
  <2> QED BY <1>2, <1>3, <1>4, <2>1
<1>6. TypeOK'
  BY <1>1, <1>3 DEF Typed, TypeOK
<1>7. (\A d \in docs : d[2] \in Arrived(d[1]))'
  BY <1>1, <1>5 DEF Arrived
<1> QED BY <1>1, <1>3, <1>6, <1>7 DEF Typed

(* The candidates have something new, and each is chosen once. *)
LEMMA CandidatesFacts ==
  /\ Candidates \in Seq(Replicas)
  /\ \A k \in 1 .. Len(Candidates) : Available(Candidates[k]) > LastWatermark(Candidates[k])
  /\ \A k, l \in 1 .. Len(Candidates) : Candidates[k] = Candidates[l] => k = l
<1> DEFINE all == {r \in Replicas : Available(r) > LastWatermark(r)}
           c == Cardinality(all)
           m == Min({MaxReplicas, c})
           rank(r) == Cardinality({s \in all : s < r})
<1>1. all \in SUBSET Int /\ IsFiniteSet(all) /\ c \in Nat /\ all \subseteq Replicas
  <2>1. all \subseteq Replicas /\ Replicas \subseteq Int /\ IsFiniteSet(Replicas)
    BY StreamAssumption
  <2> HIDE DEF all
  <2>2. IsFiniteSet(all)
    BY <2>1, FS_Subset
  <2> QED BY <2>1, <2>2, FS_CardinalityType
<1>2. m \in Nat /\ m <= c
  BY <1>1, Limits, MinOfTwo
<1>3. Candidates = [k \in 1 .. m |-> CHOOSE r \in all : rank(r) = k - 1]
  BY DEF Candidates
<1>4. \A k \in 1 .. c : \E r \in all : rank(r) = k - 1
  BY <1>1, RankOfInteger
<1>5. \A r \in all : Available(r) > LastWatermark(r)
  OBVIOUS
<1> HIDE DEF all, c, m, rank
<1>6. \A k \in 1 .. m : Candidates[k] \in all /\ rank(Candidates[k]) = k - 1
  BY <1>1, <1>2, <1>3, <1>4
<1>7. Candidates \in Seq(Replicas) /\ Len(Candidates) = m
  <2>1. DOMAIN Candidates = 1 .. m /\ Candidates = [k \in 1 .. m |-> Candidates[k]]
    BY <1>3
  <2>2. \A k \in 1 .. m : Candidates[k] \in Replicas
    BY <1>1, <1>6
  <2> QED BY <1>2, <2>1, <2>2
<1>8. \A k, l \in 1 .. m : Candidates[k] = Candidates[l] => k = l
  BY <1>2, <1>6
<1> QED BY <1>5, <1>6, <1>7, <1>8

(* Pages that are shown are versions up to the watermark. *)
LEMMA PagesArrived ==
  ASSUME Typed, NEW r \in Replicas, NEW w, NEW paths, NEW n
  PROVE  /\ CurrentPages(r, w) \subseteq PagesUpTo(r, w)
         /\ PagesUpTo(r, w) \subseteq Arrived(r) /\ Arrived(r) \subseteq Places
         /\ FirstPaths(r, CurrentPages(r, w), n) \subseteq CurrentPages(r, w)
         /\ PagesAt(r, w, paths) \subseteq CurrentPages(r, w)
<1>1. CurrentPages(r, w) \subseteq PagesUpTo(r, w)
  BY DEF CurrentPages, NewestOf
<1>2. PagesUpTo(r, w) \subseteq Arrived(r)
  BY DEF PagesUpTo
<1>3. FirstPaths(r, CurrentPages(r, w), n) \subseteq CurrentPages(r, w)
  BY DEF FirstPaths
<1>4. PagesAt(r, w, paths) \subseteq CurrentPages(r, w)
  BY DEF PagesAt
<1> QED BY <1>1, <1>2, <1>3, <1>4, ArrivedEvents

(* What is projected is finitely many events that have arrived. *)
LEMMA ProjectedFacts ==
  ASSUME Typed, NEW r \in Replicas, NEW w, NEW evidence, evidence \subseteq Arrived(r)
  PROVE  /\ IsFiniteSet(Projected(r, w, evidence))
         /\ \A d \in Projected(r, w, evidence) : d \in Located
<1> DEFINE X == {j \in evidence : ~Cut(r, j)} \cup FirstPaths(r, CurrentPages(r, w), MaxIndexPages)
<1>1. X \subseteq Arrived(r) /\ Arrived(r) \subseteq Places /\ IsFiniteSet(Arrived(r))
  BY PagesArrived, ArrivedEvents
<1>2. Projected(r, w, evidence) = {<<r, i>> : i \in X}
  BY DEF Projected
<1> HIDE DEF X
<1>3. Projected(r, w, evidence) \subseteq {r} \X Arrived(r)
  BY <1>1, <1>2
<1>4. IsFiniteSet({r} \X Arrived(r))
  BY <1>1, FS_Singleton, FS_Product
<1>5. \A d \in {r} \X Arrived(r) : d \in Located
  BY <1>1 DEF Located
<1> QED BY <1>3, <1>4, <1>5, FS_Subset

(* Missing lists documents without an embedding. *)
LEMMA MissingFacts ==
  ASSUME Typed
  PROVE  /\ Len(Missing) \in Nat /\ DOMAIN Missing = 1 .. Len(Missing)
         /\ \A k \in 1 .. Len(Missing) : Missing[k] \in docs
<1>1. docs \ embedded \in SUBSET Located /\ IsFiniteSet(docs \ embedded)
  BY TypedDocs, FS_Subset
<1>2. Missing \in Seq(docs \ embedded)
  BY <1>1, Limits, InOrderFacts DEF Missing
<1>3. \A k \in 1 .. Len(Missing) : Missing[k] \in docs \ embedded
  BY <1>2, ElementOfSeq
<1> QED BY <1>2, <1>3

(* What a proposal of a kept group is checked for. *)
LEMMA KeptFacts ==
  ASSUME Typed, NEW g \in SUBSET Proposal, NEW p \in KeptOf(g)
  PROVE  /\ KeptOf(g) = g /\ p \in Proposal /\ Accepted(p)
         /\ p.op \in {"create_page", "update_page", "supersede_page"}
         /\ p.op # "create_page" =>
              \E i \in job.pages : At(Replica, i).path = p.path
<1>1. KeptOf(g) = g /\ Accepted(p) /\ p \in Proposal
  BY DEF KeptOf
<1>2. p.op \in {"create_page", "update_page", "supersede_page"}
  BY <1>1 DEF Proposal
<1>3. p.op # "create_page" => p.path \in Shown
  BY <1>1, <1>2 DEF Accepted
<1> QED BY <1>1, <1>2, <1>3 DEF Shown

(* A patch for an existing page is based on a version that was shown. *)
LEMMA BaseFacts ==
  ASSUME Typed, NEW g \in SUBSET Proposal, NEW p \in KeptOf(g)
  PROVE  \/ BaseOf(p) = 0
         \/ BaseOf(p) \in job.pages /\ At(Replica, BaseOf(p)).path = p.path
<1>1. CASE p.op = "create_page"
  BY <1>1 DEF BaseOf
<1>2. CASE p.op # "create_page"
  <2>1. \E i \in job.pages : At(Replica, i).path = p.path
    BY <1>2, KeptFacts
  <2>2. BaseOf(p) = CHOOSE i \in job.pages : At(Replica, i).path = p.path
    BY <1>2 DEF BaseOf
  <2> QED BY <2>1, <2>2
<1> QED BY <1>1, <1>2

(* The patches of an answer are patches. *)
LEMMA PatchesTyped ==
  ASSUME Typed, NEW answer \in SUBSET (SUBSET Proposal)
  PROVE  PatchesFor(answer) \subseteq Patch
<1> SUFFICES ASSUME NEW patch \in PatchesFor(answer) PROVE patch \in Patch
  OBVIOUS
<1>1. PICK g \in answer : \E p \in KeptOf(g) : patch = [proposal |-> p, base |-> BaseOf(p), group |-> g]
  BY DEF PatchesFor
<1>2. PICK p \in KeptOf(g) : patch = [proposal |-> p, base |-> BaseOf(p), group |-> g]
  BY <1>1
<1>3. g \in SUBSET Proposal /\ p \in Proposal
  BY KeptFacts
<1>4. BaseOf(p) \in Nat
  BY <1>3, BaseFacts, JobTypes DEF Places
<1> QED BY <1>2, <1>3, <1>4 DEF Patch

(* A job that keeps its work keeps its bounds. *)
LEMMA StillWorking ==
  ASSUME Typed, job.pc # "idle", NEW j \in JobState, j.todo = job.todo, j.batches = job.batches
  PROVE  JobOK(j)
BY DEF JobOK, Typed, TypeOK

(* The request and the run of the current batch have their types. *)
LEMMA RunTyped ==
  ASSUME Typed, job.pc # "idle"
  PROVE  RequestOf \in Request /\ RunOf \in Run
<1>1. RequestOf \in Request
  BY JobTypes DEF RequestOf, Request
<1>2. RunOf \in Run
  BY <1>1, JobTypes DEF RunOf, Run
<1> QED BY <1>1, <1>2

-----------------------------------------------------------------------------
(* THE STEPS OF THE JOB *)

(* A run starts with one item of work per candidate. *)
LEMMA StartFacts ==
  ASSUME Windows, Start
  PROVE  /\ JobOK(job') /\ job'.pc = "read" /\ job'.patches = {} /\ Len(job'.todo) \in Nat
         /\ \A k \in 1 .. Len(job'.todo) :
              /\ job'.todo[k].replica \in Replicas
              /\ job'.todo[k].after = LastWatermark(job'.todo[k].replica)
              /\ job'.todo[k].through = Available(job'.todo[k].replica)
              /\ job'.todo[k].after < job'.todo[k].through
         /\ \A k, l \in 1 .. Len(job'.todo) : job'.todo[k].replica = job'.todo[l].replica => k = l
<1> DEFINE C == Candidates
           T == [k \in 1 .. Len(C) |-> [replica |-> C[k], after |-> LastWatermark(C[k]),
                                        through |-> Available(C[k])]]
<1>1. /\ C \in Seq(Replicas) /\ Len(C) \in Nat /\ C # <<>>
      /\ \A k \in 1 .. Len(C) : C[k] \in Replicas /\ Available(C[k]) > LastWatermark(C[k])
      /\ \A k, l \in 1 .. Len(C) : C[k] = C[l] => k = l
  BY CandidatesFacts DEF Start
<1>2. \A k \in 1 .. Len(C) : LastWatermark(C[k]) \in Nat /\ Available(C[k]) \in Nat
  BY <1>1, LastWatermarkFacts DEF Windows
<1>3. job' = [Idle EXCEPT !.pc = "read", !.todo = T]
  BY DEF Start
<1> HIDE DEF C
<1>4. T \in Seq([replica : Replicas, after : Nat, through : Nat]) /\ Len(T) = Len(C)
  BY <1>1, <1>2
<1>5. \A k \in 1 .. Len(T) : /\ T[k].replica = C[k]
                             /\ T[k].after = LastWatermark(C[k]) /\ T[k].through = Available(C[k])
  BY <1>4
<1>6. \A k \in 1 .. Len(T) : T[k].after < T[k].through
  BY <1>1, <1>2, <1>4, <1>5
<1>a. Len(C) \in Nat /\ Len(C) > 0 /\ 1 \in 1 .. Len(C)
  BY <1>1
<1> HIDE DEF T
<1>b. T # <<>>
  BY <1>a, <1>4
<1>7. Head(T) = T[1] /\ 1 \in 1 .. Len(T)
  BY <1>a, <1>b, <1>4
<1>8. job' = [pc |-> "read", todo |-> T, batches |-> 0, started |-> FALSE,
              watermark |-> 0, evidence |-> {}, pages |-> {}, patches |-> {}]
  BY <1>3 DEF Idle
<1>9. job' \in JobState /\ job'.todo = T /\ job'.pc = "read" /\ job'.patches = {} /\ job'.batches = 0
  BY <1>4, <1>8 DEF JobState
<1>10. JobOK(job')
  BY <1>6, <1>7, <1>9, Limits DEF JobOK
<1> QED BY <1>1, <1>4, <1>5, <1>6, <1>9, <1>10

(* A read takes the evidence of its window up to the watermark it reaches, *)
(* except events that share a sequence with an earlier one.                *)
LEMMA ReadFacts ==
  ASSUME Windows, ReadBatch
  PROVE  /\ job' \in JobState /\ job'.todo = job.todo /\ job'.batches = job.batches
         /\ job'.patches = job.patches /\ job'.pc \in {"project", "ask"}
         /\ job'.watermark \in Nat
         /\ Work.after < job'.watermark /\ job'.watermark <= Work.through
         /\ \A i \in job'.evidence : /\ i \in Relevant(Replica, Work.after, Work.through)
                                     /\ At(Replica, i).seq <= job'.watermark
         /\ \A i \in Relevant(Replica, Work.after, Work.through) :
              At(Replica, i).seq <= job'.watermark =>
                \/ i \in job'.evidence
                \/ \E j \in Arrived(Replica) : j < i /\ At(Replica, j).seq = At(Replica, i).seq
         /\ job'.pages \subseteq CurrentPages(Replica, job'.watermark)
<1> DEFINE rows == Rows(Replica, Work.after, Work.through)
           n == Fitting(Replica, rows)
           w == Reached(Replica, rows, n, Work.through)
           E == {rows[k] : k \in 1 .. n}
           P == FirstPaths(Replica, CurrentPages(Replica, w), MaxPages)
<1>1. /\ Typed /\ job.pc # "idle" /\ job \in JobState
      /\ Replica \in Replicas /\ Work.after \in Nat /\ Work.through \in Nat
      /\ Work.after < Work.through
  <2>1. Typed /\ job.pc # "idle"
    BY DEF Windows, ReadBatch
  <2> QED BY <2>1, JobTypes DEF Typed, TypeOK, Work
<1>2. job' = [job EXCEPT !.pc = IF extensions THEN "project" ELSE "ask",
                         !.watermark = w, !.evidence = E, !.pages = P]
  BY DEF ReadBatch
<1>3. Batch(Replica, Work.after, Work.through, rows)
  BY <1>1, RowsAreABatch
<1> HIDE DEF rows
<1>4. Len(rows) \in Nat /\ \A k \in 1 .. Len(rows) : rows[k] \in Relevant(Replica, Work.after, Work.through)
  BY <1>3 DEF Batch
<1>5. n \in 0 .. Len(rows) /\ (Len(rows) > 0 => n > 0)
  BY <1>4, FittingTakesOne
<1> HIDE DEF n
<1>6. /\ w \in Nat /\ Work.after < w /\ w <= Work.through
      /\ \A k \in 1 .. n : At(Replica, rows[k]).seq <= w
      /\ \A i \in Relevant(Replica, Work.after, Work.through) :
           At(Replica, i).seq <= w =>
             i \in E \/ \E j \in Arrived(Replica) : j < i /\ At(Replica, j).seq = At(Replica, i).seq
  BY <1>1, <1>3, <1>5, ReachedInWindow
<1>7. \A k \in 1 .. n : k \in 1 .. Len(rows)
  BY <1>4, <1>5
<1>8. \A i \in E : /\ i \in Relevant(Replica, Work.after, Work.through)
                   /\ At(Replica, i).seq <= w
  BY <1>4, <1>6, <1>7
<1> HIDE DEF w, E
<1>9. P \subseteq CurrentPages(Replica, w) /\ P \subseteq Places
  BY <1>1, PagesArrived
<1>10. E \subseteq Places
  BY <1>1, <1>8, RelevantInside, ArrivedEvents
<1> HIDE DEF P
<1>11. /\ job'.todo = job.todo /\ job'.batches = job.batches /\ job'.patches = job.patches
       /\ job'.pc \in {"project", "ask"}
       /\ job'.watermark = w /\ job'.evidence = E /\ job'.pages = P
  BY <1>1, <1>2 DEF JobState
<1>12. job' \in JobState
  BY <1>1, <1>2, <1>6, <1>9, <1>10 DEF JobState
<1> QED BY <1>6, <1>8, <1>9, <1>11, <1>12

(* After the record come the next batch of the replica, the next replica   *)
(* or the end.                                                             *)
LEMMA NextWorkFacts ==
  ASSUME Windows, job.pc = "record"
  PROVE  /\ JobOK(NextWork) /\ NextWork.pc \in {"idle", "read"} /\ NextWork.patches = {}
         /\ \/ /\ Len(NextWork.todo) = Len(job.todo) /\ job.watermark < Work.through
               /\ NextWork.todo[1] = [replica |-> Replica, after |-> job.watermark,
                                      through |-> Work.through]
               /\ \A k \in 2 .. Len(job.todo) : NextWork.todo[k] = job.todo[k]
            \/ /\ Len(NextWork.todo) = Len(job.todo) - 1
               /\ \A k \in 1 .. Len(job.todo) - 1 : NextWork.todo[k] = job.todo[k + 1]
            \/ Len(NextWork.todo) = 0
<1> DEFINE Item == [replica : Replicas, after : Nat, through : Nat]
           todo == job.todo
           first == [replica |-> Replica, after |-> job.watermark, through |-> Work.through]
<1>1. /\ Typed /\ job.pc # "idle" /\ todo \in Seq(Item) /\ Len(todo) \in Nat /\ Len(todo) > 0
      /\ Work = todo[1] /\ Work \in Item /\ Replica = Work.replica /\ Replica \in Replicas
      /\ job.watermark \in Nat /\ job.batches \in Nat /\ job.batches < MaxBatches
      /\ Work.through \in Nat
  <2>1. Typed /\ job.pc # "idle"
    BY DEF Windows
  <2>2. job.batches < MaxBatches
    BY <2>1 DEF Typed, TypeOK
  <2>3. /\ todo \in Seq(Item) /\ Len(todo) \in Nat /\ Len(todo) > 0 /\ Work = todo[1]
        /\ Replica \in Replicas /\ 1 \in 1 .. Len(todo)
        /\ job.watermark \in Nat /\ job.batches \in Nat /\ Work.through \in Nat
    BY <2>1, JobTypes
  <2>4. Work \in Item
    BY <2>3, ElementOfSeq
  <2> QED BY <2>1, <2>2, <2>3, <2>4 DEF Replica
<1>2. first \in Item
  BY <1>1
<1>3. [Work EXCEPT !.after = job.watermark] = first
  <2>1. Work = [replica |-> Work.replica, after |-> Work.after, through |-> Work.through]
    BY <1>1
  <2> QED BY <1>1, <2>1
<1> HIDE DEF Item, todo
<1>4. /\ Tail(todo) \in Seq(Item) /\ Len(Tail(todo)) = Len(todo) - 1
      /\ \A k \in 1 .. Len(todo) - 1 : Tail(todo)[k] = todo[k + 1]
  BY <1>1
<1>5. CASE More
  <2> DEFINE next == <<first>> \o Tail(todo)
  <2>1. job.watermark < Work.through /\ job.batches + 1 < MaxBatches
    BY <1>5 DEF More
  <2>2. first.after < first.through
    BY <2>1
  <2> HIDE DEF first
  <2>3. /\ next \in Seq(Item) /\ Len(next) = Len(todo) /\ next[1] = first
        /\ Head(next) = first /\ next # <<>>
        /\ \A k \in 2 .. Len(todo) : next[k] = todo[k]
    BY <1>1, <1>2, <1>4
  <2> HIDE DEF next
  <2>4. NextWork = [Idle EXCEPT !.pc = "read", !.started = TRUE, !.batches = job.batches + 1,
                                !.todo = next]
    BY <1>3, <1>5 DEF NextWork, next, todo, first
  <2>5. NextWork = [pc |-> "read", todo |-> next, batches |-> job.batches + 1, started |-> TRUE,
                    watermark |-> 0, evidence |-> {}, pages |-> {}, patches |-> {}]
    BY <2>4 DEF Idle
  <2>6. NextWork \in JobState
    BY <1>1, <2>3, <2>5 DEF JobState, Item
  <2>7. NextWork.pc = "read" /\ NextWork.todo = next /\ NextWork.batches = job.batches + 1
        /\ NextWork.patches = {}
    BY <2>5
  <2> QED BY <2>1, <2>2, <2>3, <2>6, <2>7 DEF JobOK, first, todo
<1>6. CASE ~More /\ Len(todo) > 1
  <2> DEFINE next == Tail(todo)
  <2>a. 1 \in 1 .. Len(todo) - 1 /\ 2 \in 1 .. Len(todo)
    BY <1>1, <1>6
  <2>b. next \in Seq(Item) /\ Len(next) > 0 /\ next[1] = todo[2]
    BY <1>1, <1>4, <1>6, <2>a
  <2> HIDE DEF next
  <2>1. next # <<>> /\ Head(next) = todo[2] /\ 2 \in 1 .. Len(todo)
    BY <2>a, <2>b
  <2>2. todo[2].after < todo[2].through
    BY <2>1 DEF Windows, Todo, Open, todo
  <2>3. NextWork = [Idle EXCEPT !.pc = "read", !.started = TRUE, !.todo = next]
    BY <1>6 DEF NextWork, next, todo
  <2>4. NextWork = [pc |-> "read", todo |-> next, batches |-> 0, started |-> TRUE,
                    watermark |-> 0, evidence |-> {}, pages |-> {}, patches |-> {}]
    BY <2>3 DEF Idle
  <2>5. NextWork \in JobState
    BY <1>4, <2>4 DEF JobState, Item, next
  <2>6. NextWork.pc = "read" /\ NextWork.todo = next /\ NextWork.batches = 0 /\ NextWork.patches = {}
    BY <2>4
  <2>7. JobOK(NextWork)
    BY <2>1, <2>2, <2>5, <2>6, Limits DEF JobOK
  <2>8. /\ Len(NextWork.todo) = Len(job.todo) - 1
        /\ \A k \in 1 .. Len(job.todo) - 1 : NextWork.todo[k] = job.todo[k + 1]
    BY <1>4, <2>6 DEF next, todo
  <2> QED BY <2>6, <2>7, <2>8
<1>7. CASE ~More /\ ~(Len(todo) > 1)
  <2>1. NextWork = Idle
    BY <1>7 DEF NextWork, todo
  <2>2. Idle.pc = "idle" /\ Idle.patches = {} /\ Len(Idle.todo) = 0
    BY DEF Idle
  <2> QED BY <2>1, <2>2, IdleOK
<1> QED BY <1>5, <1>6, <1>7

(* What is between a read and its record has the window of the read. *)
LEMMA ActiveFacts ==
  ASSUME Windows, Active
  PROVE  /\ Typed /\ job.pc # "idle" /\ job \in JobState /\ Replica \in Replicas
         /\ job.evidence \subseteq Arrived(Replica)
         /\ Work.after \in Nat /\ Work.through \in Nat /\ job.watermark \in Nat
         /\ Work.after < job.watermark /\ job.watermark <= Work.through
<1>1. Typed /\ job.pc # "idle" /\ Sane(RequestOf) /\ job.watermark <= Work.through
  BY DEF Windows, JobSane, Active
<1>2. /\ RequestOf.after = Work.after /\ RequestOf.watermark = job.watermark
      /\ RequestOf.evidence = job.evidence /\ RequestOf.replica = Replica
  BY DEF RequestOf
<1> QED BY <1>1, <1>2, JobTypes DEF Sane

(* Steps of a run that keep its window: projecting, embedding, choosing    *)
(* the pages, asking.                                                      *)
Inner ==
  /\ UNCHANGED <<archiveVars, manifests, records, conflict>>
  /\ job.pc \in {"project", "embed", "select", "ask"}
  /\ job' \in JobState /\ job'.pc \in {"embed", "select", "ask", "publish", "record"}
  /\ job'.todo = job.todo /\ job'.batches = job.batches
  /\ job'.watermark = job.watermark /\ job'.evidence = job.evidence

(* Steps that end a run. *)
Reset == UNCHANGED <<archiveVars, manifests, records, conflict>> /\ job' = Idle

(* Projecting keeps the window, the pages and the patches of the run. *)
LEMMA ProjectStep ==
  ASSUME Windows, Project
  PROVE  Typed' /\ Inner /\ job'.pages = job.pages /\ job'.patches = job.patches
<1>1. job.pc = "project" /\ UNCHANGED <<archiveVars, embedded, manifests, records, conflict, failures>>
      /\ docs' = docs \cup Projected(Replica, job.watermark, job.evidence)
      /\ job' = [job EXCEPT !.pc = "embed"]
  BY DEF Project
<1>2. Active
  BY <1>1 DEF Active
<1>3. /\ IsFiniteSet(Projected(Replica, job.watermark, job.evidence))
      /\ \A d \in Projected(Replica, job.watermark, job.evidence) : d \in Located
  BY <1>2, ActiveFacts, ProjectedFacts
<1>4. IsFiniteSet(docs') /\ embedded' \subseteq docs' /\ \A d \in docs' : d \in Located
  BY <1>1, <1>2, <1>3, ActiveFacts, TypedDocs, FS_Union
<1>5. job' \in JobState /\ Inner /\ job'.pages = job.pages /\ job'.patches = job.patches
  BY <1>1, <1>2, ActiveFacts DEF Inner, JobState
<1>6. JobOK(job')
  BY <1>1, <1>2, <1>5, ActiveFacts, StillWorking DEF Inner
<1>7. Typed'
  BY <1>1, <1>2, <1>4, <1>6, ActiveFacts, TypedRest, TypedStep
<1> QED BY <1>5, <1>7

(* Embedding keeps the window, the pages and the patches of the run. *)
LEMMA EmbedStep ==
  ASSUME Windows, Embed
  PROVE  Typed' /\ Inner /\ job'.pages = job.pages /\ job'.patches = job.patches
<1>1. job.pc = "embed" /\ UNCHANGED <<archiveVars, docs, manifests, records, conflict, failures>>
      /\ embedded' = embedded \cup Range(Missing)
      /\ job' = [job EXCEPT !.pc = "select"]
  BY DEF Embed
<1>2. Active
  BY <1>1 DEF Active
<1>3. Range(Missing) \subseteq docs
  BY <1>2, ActiveFacts, MissingFacts DEF Range
<1>4. IsFiniteSet(docs') /\ embedded' \subseteq docs' /\ \A d \in docs' : d \in Located
  BY <1>1, <1>2, <1>3, ActiveFacts, TypedDocs
<1>5. job' \in JobState /\ Inner /\ job'.pages = job.pages /\ job'.patches = job.patches
  BY <1>1, <1>2, ActiveFacts DEF Inner, JobState
<1>6. JobOK(job')
  BY <1>1, <1>2, <1>5, ActiveFacts, StillWorking DEF Inner
<1>7. Typed'
  BY <1>1, <1>2, <1>4, <1>6, ActiveFacts, TypedRest, TypedStep
<1> QED BY <1>5, <1>7

(* Selecting keeps the window and shows newest versions only. *)
LEMMA SelectStep ==
  ASSUME Windows, Select
  PROVE  /\ Typed' /\ Inner /\ job'.patches = job.patches
         /\ job'.pages \subseteq CurrentPages(Replica, job.watermark)
<1>1. job.pc = "select" /\ UNCHANGED <<archiveVars, searchVars, manifests, records, conflict, failures>>
  BY DEF Select
<1>2. PICK paths : job' = [job EXCEPT !.pc = "ask", !.pages = PagesAt(Replica, job.watermark, paths)]
  BY DEF Select
<1>3. Active
  BY <1>1 DEF Active
<1> DEFINE P == PagesAt(Replica, job.watermark, paths)
<1>4. P \subseteq CurrentPages(Replica, job.watermark) /\ P \subseteq Places
  BY <1>3, ActiveFacts, PagesArrived
<1> HIDE DEF P
<1>5. job' \in JobState /\ Inner /\ job'.pages = P /\ job'.patches = job.patches
  BY <1>1, <1>2, <1>3, <1>4, ActiveFacts DEF Inner, JobState, P
<1>6. JobOK(job')
  BY <1>1, <1>3, <1>5, ActiveFacts, StillWorking DEF Inner
<1>7. Typed'
  BY <1>1, <1>3, <1>6, ActiveFacts, TypedDocs, TypedRest, TypedStep DEF searchVars
<1> QED BY <1>4, <1>5, <1>7

(* Asking keeps the window and the pages; the patches are those of an      *)
(* answer.                                                                 *)
LEMMA AskStep ==
  ASSUME Windows, Ask
  PROVE  /\ Typed' /\ Inner /\ job'.pages = job.pages
         /\ \E answer \in SUBSET (SUBSET Proposal) : job'.patches = PatchesFor(answer)
<1>1. job.pc = "ask" /\ UNCHANGED <<archiveVars, searchVars, manifests, records, conflict, failures>>
  BY DEF Ask
<1>2. PICK answer \in IF job.evidence = {} THEN {{}} ELSE Answers :
        job' = [job EXCEPT !.patches = PatchesFor(answer),
                           !.pc = IF PatchesFor(answer) = {} THEN "record" ELSE "publish"]
  BY DEF Ask
<1>3. answer \in SUBSET (SUBSET Proposal)
  BY <1>2, AnswerAssumption
<1>4. Active
  BY <1>1 DEF Active
<1>5. PatchesFor(answer) \subseteq Patch
  BY <1>3, <1>4, ActiveFacts, PatchesTyped
<1>6. job' \in JobState /\ Inner /\ job'.pages = job.pages /\ job'.patches = PatchesFor(answer)
  BY <1>1, <1>2, <1>4, <1>5, ActiveFacts DEF Inner, JobState
<1>7. JobOK(job')
  BY <1>1, <1>4, <1>6, ActiveFacts, StillWorking DEF Inner
<1>8. Typed'
  BY <1>1, <1>4, <1>7, ActiveFacts, TypedDocs, TypedRest, TypedStep DEF searchVars
<1> QED BY <1>3, <1>6, <1>8

(* Errors and the deadline end the run and leave no trace in archive and   *)
(* records.                                                                *)
LEMMA ResetStep ==
  ASSUME Windows, ProjectRaises \/ EmbedFails \/ Deadline \/ FailRun
  PROVE  Typed' /\ Reset
<1>1. Typed /\ Reset /\ docs' = docs
  BY DEF Windows, ProjectRaises, EmbedFails, Deadline, FailRun, Reset, searchVars
<1>2. embedded' \subseteq docs
  <2>1. CASE UNCHANGED embedded
    BY <1>1, <2>1, TypedDocs
  <2>2. CASE EmbedFails
    <3>1. PICK n \in 0 .. Len(Missing) - 1 : embedded' = embedded \cup {Missing[k] : k \in 1 .. n}
      BY <2>2 DEF EmbedFails
    <3>2. \A k \in 1 .. n : Missing[k] \in docs
      BY <1>1, MissingFacts
    <3> QED BY <1>1, <3>1, <3>2, TypedDocs
  <2> QED BY <2>1, <2>2 DEF ProjectRaises, Deadline, FailRun, searchVars
<1>3. failures' \in 0 .. MaxFailures
  <2>1. failures \in 0 .. MaxFailures /\ MaxFailures \in Nat
    BY <1>1, TypedRest, Limits
  <2>2. failures' = failures \/ (failures < MaxFailures /\ failures' = failures + 1)
    BY DEF ProjectRaises, EmbedFails, Deadline, FailRun
  <2> QED BY <2>1, <2>2
<1>4. Typed'
  BY <1>1, <1>2, <1>3, TypedDocs, TypedRest, IdleOK, TypedStep DEF Reset
<1> QED BY <1>1, <1>4

(* No run of the replica is ahead of a job that has not recorded, so       *)
(* neither publication nor record meets another run.                       *)
LEMMA NoClash ==
  ASSUME Windows, Active
  PROVE  \A x \in Runs(Replica) : \/ x.request.watermark <= Work.after
                                  \/ job.pc = "record" /\ x = RunOf
BY ActiveFacts, JobTypes DEF Windows, Todo, Active, Replica

(* Publication adds the run's manifest and meets no other run. *)
LEMMA PublishStep ==
  ASSUME Windows, Publish
  PROVE  /\ Typed' /\ job.pc = "publish" /\ UNCHANGED <<archiveVars, records, conflict>>
         /\ manifests' = manifests \cup {RunOf} /\ job' = [job EXCEPT !.pc = "record"]
         /\ job' \in JobState
<1>1. job.pc = "publish" /\ UNCHANGED <<archiveVars, searchVars, records, failures>>
  BY DEF Publish
<1>2. Active
  BY <1>1 DEF Active
<1>3. ~\E m \in manifests : m.request = RequestOf /\ m.patches # job.patches
  <2> SUFFICES ASSUME NEW m \in manifests, m.request = RequestOf PROVE FALSE
    OBVIOUS
  <2>1. m.request.replica = Replica /\ m.request.watermark = job.watermark
    BY DEF RequestOf
  <2>2. m \in Runs(Replica)
    BY <2>1 DEF Runs
  <2> QED BY <1>1, <1>2, <2>1, <2>2, NoClash, ActiveFacts
<1>4. /\ manifests' = manifests \cup {RunOf} /\ conflict' = conflict
      /\ job' = [job EXCEPT !.pc = "record"]
  BY <1>2, <1>3, ActiveFacts, TypedRest DEF Publish
<1>5. job' \in JobState /\ job'.todo = job.todo /\ job'.batches = job.batches
  BY <1>2, <1>4, ActiveFacts DEF JobState
<1>6. JobOK(job') /\ RunOf \in Run
  BY <1>2, <1>5, ActiveFacts, StillWorking, RunTyped
<1>7. Typed'
  BY <1>1, <1>2, <1>4, <1>6, ActiveFacts, TypedDocs, TypedRest, TypedStep DEF searchVars
<1> QED BY <1>1, <1>4, <1>5, <1>7

(* The record adds the run and meets no other run. *)
LEMMA RecordStep ==
  ASSUME Windows, Record
  PROVE  /\ Typed' /\ job.pc = "record" /\ UNCHANGED <<archiveVars, manifests, conflict>>
         /\ records' = records \cup {RunOf} /\ job' = NextWork
<1>1. job.pc = "record" /\ UNCHANGED <<archiveVars, searchVars, manifests, failures>>
  BY DEF Record
<1>2. Active
  BY <1>1 DEF Active
<1>3. ~\E x \in records : /\ x.request.replica = Replica
                          /\ x.request.watermark = job.watermark
                          /\ x # RunOf
  <2> SUFFICES ASSUME NEW x \in records, x.request.replica = Replica,
                      x.request.watermark = job.watermark, x # RunOf
               PROVE  FALSE
    OBVIOUS
  <2>1. x \in Runs(Replica)
    BY DEF Runs
  <2> QED BY <1>2, <2>1, NoClash, ActiveFacts
<1>4. /\ records' = records \cup {RunOf} /\ conflict' = conflict /\ job' = NextWork
  BY <1>2, <1>3, ActiveFacts, TypedRest DEF Record, Recorded
<1>5. JobOK(job') /\ RunOf \in Run
  BY <1>1, <1>2, <1>4, NextWorkFacts, ActiveFacts, RunTyped
<1>6. Typed'
  BY <1>1, <1>2, <1>4, <1>5, ActiveFacts, TypedDocs, TypedRest, TypedStep DEF searchVars
<1> QED BY <1>1, <1>4, <1>6

(* Reading a batch keeps the types and changes the job only. *)
LEMMA ReadStep ==
  ASSUME Windows, ReadBatch
  PROVE  /\ Typed' /\ job.pc = "read" /\ job.pc # "idle"
         /\ UNCHANGED <<archiveVars, manifests, records, conflict>>
<1>1. Typed /\ job.pc = "read" /\ UNCHANGED <<archiveVars, searchVars, manifests, records, conflict, failures>>
  BY DEF Windows, ReadBatch
<1>2. JobOK(job')
  BY <1>1, ReadFacts, StillWorking
<1> QED BY <1>1, <1>2, TypedDocs, TypedRest, TypedStep DEF searchVars

(* Starting keeps the types and changes the job only. *)
LEMMA StartStep ==
  ASSUME Windows, Start
  PROVE  Typed' /\ UNCHANGED <<archiveVars, manifests, records, conflict>>
<1>1. Typed /\ UNCHANGED <<archiveVars, searchVars, manifests, records, conflict, failures>>
  BY DEF Windows, Start
<1> QED BY <1>1, StartFacts, TypedDocs, TypedRest, TypedStep DEF searchVars

-----------------------------------------------------------------------------
(* THE WINDOWS ARE KEPT *)

(* Windows stay sane while events arrive. *)
LEMMA SaneKept ==
  ASSUME stream' = stream, NEW q, Arrived(q.replica) \subseteq Arrived(q.replica)', Sane(q)
  PROVE  Sane(q)'
BY DEF Sane, At

(* Runs stay sane while events arrive. *)
LEMMA RunsKept ==
  ASSUME stream' = stream, \A r \in Replicas : Arrived(r) \subseteq Arrived(r)',
         Typed, RunsSane, UNCHANGED <<manifests, records>>
  PROVE  RunsSane'
<1>1. ASSUME NEW x \in manifests \cup records PROVE Sane(x.request)'
  <2>1. x.request.replica \in Replicas /\ Sane(x.request)
    BY RunTypes DEF RunsSane
  <2> QED BY <2>1, SaneKept
<1> QED BY <1>1 DEF RunsSane

(* A window that the job keeps stays sane. *)
LEMMA JobKept ==
  ASSUME stream' = stream, \A r \in Replicas : Arrived(r) \subseteq Arrived(r)',
         Replica \in Replicas, Sane(RequestOf), job.watermark <= Work.through,
         job'.todo = job.todo, job'.watermark = job.watermark, job'.evidence = job.evidence
  PROVE  JobSane'
<1>1. Work' = Work /\ Replica' = Replica
  BY DEF Work, Replica
<1>2. PICK q : q = RequestOf'
  OBVIOUS
<1>3. q = [replica |-> Replica, after |-> Work.after, watermark |-> job.watermark,
           evidence |-> job.evidence, pages |-> job'.pages]
  BY <1>1, <1>2 DEF RequestOf
<1>4. Sane(q) /\ q.replica = Replica
  BY <1>3 DEF Sane, RequestOf
<1>5. PICK r : r = Replica
  OBVIOUS
<1>6. Arrived(r) \subseteq Arrived(r)'
  BY <1>5
<1>7. Sane(q)'
  BY <1>4, <1>5, <1>6, SaneKept
<1>8. Sane(RequestOf)'
  BY <1>2, <1>7 DEF Sane
<1> QED BY <1>1, <1>8 DEF JobSane

(* Nothing of the job or of the runs changes in what Open reads. *)
LEMMA OpenKept ==
  ASSUME stream' = stream, NEW u, Arrived(u.replica) \subseteq Arrived(u.replica)',
         Runs(u.replica) \subseteq Runs(u.replica)', Open(u)
  PROVE  Open(u)'
BY DEF Open, At

(* The work still to do stays open while events arrive. *)
LEMMA TodoKept ==
  ASSUME stream' = stream, \A r \in Replicas : Arrived(r) \subseteq Arrived(r)',
         Typed, Todo, job.pc # "record", UNCHANGED <<manifests, records>>, job'.todo = job.todo
  PROVE  Todo'
<1>1. ASSUME NEW k \in 1 .. Len(job.todo) PROVE Open(job.todo[k])'
  <2>1. PICK u : u = job.todo[k]
    OBVIOUS
  <2>2. u.replica \in Replicas /\ Open(u)
    BY <2>1, JobTypes DEF Todo
  <2>3. Runs(u.replica)' = Runs(u.replica)
    BY DEF Runs
  <2>4. Open(u)'
    BY <2>2, <2>3, OpenKept
  <2>5. u = job'.todo[k]
    BY <2>1
  <2> QED BY <2>4, <2>5 DEF Open
<1>2. ASSUME NEW k \in 1 .. Len(job.todo), NEW x \in Runs(job.todo[k].replica)'
      PROVE  x.request.watermark <= job.todo[k].after
  BY <1>2 DEF Todo, Runs
<1>3. \A k \in 1 .. Len(job'.todo) : Open(job.todo[k])'
  BY <1>1
<1>4. (\A k \in 1 .. Len(job.todo) : \A x \in Runs(job.todo[k].replica) :
         x.request.watermark <= job.todo[k].after)'
  BY <1>2 DEF Runs
<1> QED BY <1>3, <1>4 DEF Todo

(* A step that adds no run keeps the windows apart. *)
LEMMA ApartKept ==
  ASSUME Apart, UNCHANGED <<manifests, records>>
  PROVE  Apart'
BY DEF Apart, Runs

(* The archive of a step that leaves it alone. *)
LEMMA ArchiveStill ==
  ASSUME UNCHANGED archiveVars
  PROVE  stream' = stream /\ \A r : Arrived(r)' = Arrived(r)
BY DEF archiveVars, Arrived

(* Windows holds initially. *)
LEMMA WindowsInit ==
  ASSUME Init
  PROVE  Windows
<1>1. manifests = {} /\ records = {} /\ job = Idle /\ conflict = FALSE
  BY DEF Init
<1>2. RunsSane /\ Apart /\ ~conflict
  BY <1>1 DEF RunsSane, Apart, Runs
<1>3. JobSane /\ Todo
  BY <1>1 DEF JobSane, Active, Todo, Idle
<1> QED BY <1>2, <1>3, TypedInit DEF Windows

(* An event that arrives keeps Windows. *)
LEMMA WindowsArrive ==
  ASSUME Windows, NEW r \in Replicas, Arrive(r)
  PROVE  Windows'
<1>1. arrived' = [arrived EXCEPT ![r] = @ + 1]
      /\ UNCHANGED <<stream, manifests, records, job, conflict>>
  BY DEF Arrive
<1>2. Typed /\ RunsSane /\ JobSane /\ Todo /\ Apart /\ ~conflict /\ Typed'
  BY TypedArrive DEF Windows
<1>3. \A q \in Replicas : Arrived(q) \subseteq Arrived(q)'
  <2>1. \A q \in Replicas : arrived[q] \in Nat /\ arrived'[q] \in Nat /\ arrived[q] <= arrived'[q]
    BY <1>1, <1>2 DEF Typed
  <2> QED BY <2>1 DEF Arrived
<1>4. RunsSane'
  BY <1>1, <1>2, <1>3, RunsKept
<1>5. JobSane'
  <2>1. CASE Active
    BY <1>1, <1>2, <1>3, <2>1, ActiveFacts, JobKept DEF JobSane
  <2>2. CASE ~Active
    BY <1>1, <2>2 DEF JobSane, Active
  <2> QED BY <2>1, <2>2
<1>6. Todo'
  <2>1. ASSUME NEW k \in 1 .. Len(job.todo) PROVE Open(job.todo[k])'
    <3>1. PICK u : u = job.todo[k]
      OBVIOUS
    <3>2. u.replica \in Replicas /\ Open(u)
      BY <1>2, <3>1, JobTypes DEF Todo
    <3>3. Runs(u.replica)' = Runs(u.replica)
      BY <1>1 DEF Runs
    <3>4. Open(u)'
      BY <1>1, <1>3, <3>2, <3>3, OpenKept
    <3>5. u = job'.todo[k]
      BY <1>1, <3>1
    <3> QED BY <3>4, <3>5 DEF Open
  <2>2. (\A k \in 1 .. Len(job.todo) : \A x \in Runs(job.todo[k].replica) :
           x.request.watermark <= job.todo[k].after \/ (k = 1 /\ job.pc = "record" /\ x = RunOf))'
    BY <1>1, <1>2 DEF Todo, Runs, RunOf, RequestOf, Work, Replica
  <2>3. \A k \in 1 .. Len(job'.todo) : Open(job.todo[k])'
    BY <1>1, <2>1
  <2> QED BY <1>1, <1>2, <2>2, <2>3 DEF Todo
<1>7. Apart'
  BY <1>1, <1>2, ApartKept
<1> QED BY <1>1, <1>2, <1>4, <1>5, <1>6, <1>7 DEF Windows

(* A step inside a run keeps Windows. *)
LEMMA WindowsInner ==
  ASSUME Windows, Inner, Typed'
  PROVE  Windows'
<1>1. Typed /\ RunsSane /\ JobSane /\ Todo /\ Apart /\ ~conflict /\ ~conflict'
  BY DEF Windows, Inner
<1>2. stream' = stream /\ \A r \in Replicas : Arrived(r) \subseteq Arrived(r)'
  BY ArchiveStill DEF Inner
<1>3. Active /\ Replica \in Replicas
  BY ActiveFacts DEF Inner, Active
<1>4. RunsSane' /\ Apart'
  BY <1>1, <1>2, RunsKept, ApartKept DEF Inner
<1>5. JobSane'
  BY <1>1, <1>2, <1>3, JobKept DEF Inner, JobSane
<1>6. Todo'
  BY <1>1, <1>2, TodoKept DEF Inner
<1> QED BY <1>1, <1>4, <1>5, <1>6 DEF Windows

(* A run that fails keeps Windows. *)
LEMMA WindowsReset ==
  ASSUME Windows, Reset, Typed'
  PROVE  Windows'
<1>1. Typed /\ RunsSane /\ Apart /\ ~conflict'
  BY DEF Windows, Reset
<1>2. stream' = stream /\ \A r \in Replicas : Arrived(r) \subseteq Arrived(r)'
  BY ArchiveStill DEF Reset
<1>3. RunsSane' /\ Apart'
  BY <1>1, <1>2, RunsKept, ApartKept DEF Reset
<1>4. JobSane' /\ Todo'
  BY DEF Reset, JobSane, Active, Todo, Idle
<1> QED BY <1>1, <1>3, <1>4 DEF Windows

(* A run that starts opens windows where the earlier runs of its replicas  *)
(* end.                                                                    *)
LEMMA WindowsStart ==
  ASSUME Windows, Start
  PROVE  Windows'
<1>1. Typed /\ RunsSane /\ Apart /\ ~conflict /\ Typed'
      /\ UNCHANGED <<archiveVars, manifests, records, conflict>>
  BY StartStep DEF Windows
<1>2. stream' = stream /\ \A r : Arrived(r)' = Arrived(r)
  BY <1>1, ArchiveStill
<1>3. RunsSane' /\ Apart'
  BY <1>1, <1>2, RunsKept, ApartKept
<1>4. JobSane'
  BY StartFacts DEF JobSane, Active
<1>5. ASSUME NEW k \in 1 .. Len(job'.todo)
      PROVE  /\ Open(job.todo[k])'
             /\ \A x \in Runs(job.todo[k].replica)' : x.request.watermark <= job'.todo[k].after
  <2>1. PICK u : u = job'.todo[k]
    OBVIOUS
  <2>2. /\ u.replica \in Replicas /\ u.after < u.through
        /\ u.after = LastWatermark(u.replica) /\ u.through = Available(u.replica)
    BY <2>1, StartFacts
  <2>3. /\ u.after = 0 \/ \E x \in Runs(u.replica) : x.request.watermark = u.after
        /\ \A x \in Runs(u.replica) : x.request.watermark <= u.after
        /\ u.through # 0 => \E j \in Arrived(u.replica) : At(u.replica, j).seq = u.through
        /\ u.through \in Nat /\ u.after \in Nat
    BY <1>1, <2>2, LastWatermarkFacts
  <2>4. Open(u)
    BY <2>2, <2>3 DEF Open
  <2>5. Runs(u.replica)' = Runs(u.replica)
    BY <1>1 DEF Runs
  <2>6. Open(u)'
    BY <1>2, <2>4, <2>5, OpenKept
  <2>7. Open(job.todo[k])'
    BY <2>1, <2>6 DEF Open
  <2>8. \A x \in Runs(job.todo[k].replica)' : x.request.watermark <= job'.todo[k].after
    BY <1>1, <2>1, <2>3 DEF Runs
  <2> QED BY <2>7, <2>8
<1>6. Todo'
  BY <1>5, StartFacts DEF Todo
<1> QED BY <1>1, <1>3, <1>4, <1>6 DEF Windows

(* A read closes its window inside the work it does. *)
LEMMA WindowsRead ==
  ASSUME Windows, ReadBatch
  PROVE  Windows'
<1>1. Typed /\ RunsSane /\ Apart /\ ~conflict /\ Todo /\ Typed'
      /\ job.pc = "read" /\ job.pc # "idle" /\ UNCHANGED <<archiveVars, manifests, records, conflict>>
  BY ReadStep DEF Windows
<1>2. stream' = stream /\ \A r : Arrived(r)' = Arrived(r)
  BY <1>1, ArchiveStill
<1>3. RunsSane' /\ Apart'
  BY <1>1, <1>2, RunsKept, ApartKept
<1>4. /\ job'.todo = job.todo /\ job'.watermark \in Nat
      /\ Work.after < job'.watermark /\ job'.watermark <= Work.through
      /\ \A i \in job'.evidence : /\ i \in Relevant(Replica, Work.after, Work.through)
                                  /\ At(Replica, i).seq <= job'.watermark
  BY ReadFacts
<1>5. Todo'
  BY <1>1, <1>2, <1>4, TodoKept
<1>6. JobSane'
  <2>1. Work' = Work /\ Replica' = Replica
    BY <1>4 DEF Work, Replica
  <2>2. PICK q : q = RequestOf'
    OBVIOUS
  <2>3. q.replica = Replica /\ q.after = Work.after /\ q.watermark = job'.watermark
        /\ q.evidence = job'.evidence
    BY <2>1, <2>2 DEF RequestOf
  <2>4. \A i \in q.evidence : /\ i \in Arrived(q.replica)
                              /\ q.after < At(q.replica, i).seq
                              /\ At(q.replica, i).seq <= q.watermark
    BY <1>4, <2>3, RelevantInside
  <2>5. \E j \in Arrived(q.replica) : q.watermark <= At(q.replica, j).seq
    <3>1. Work = job.todo[1] /\ 1 \in 1 .. Len(job.todo)
      BY <1>1, JobTypes
    <3>2. \E j \in Arrived(Replica) : At(Replica, j).seq = Work.through
      BY <1>1, <3>1 DEF Todo, Open, Replica
    <3> QED BY <1>4, <2>3, <3>2
  <2>6. Sane(q)
    BY <1>4, <2>3, <2>4, <2>5 DEF Sane
  <2>7. Sane(q)'
    BY <1>2, <2>6, SaneKept
  <2>8. Sane(RequestOf)'
    BY <2>2, <2>7 DEF Sane
  <2> QED BY <1>4, <2>1, <2>8 DEF JobSane
<1> QED BY <1>1, <1>3, <1>5, <1>6 DEF Windows

(* A run that is added is that of the job. *)
LEMMA RunsGrow ==
  ASSUME Windows, Active, UNCHANGED archiveVars,
         manifests' \cup records' = manifests \cup records \cup {RunOf}
  PROVE  /\ RunsSane' /\ Apart'
         /\ \A r : Runs(r) \subseteq Runs(r)'
         /\ \A r : \A x \in Runs(r)' : x \in Runs(r) \/ (x = RunOf /\ r = Replica)
<1>1. Typed /\ RunsSane /\ Apart /\ Sane(RequestOf) /\ Replica \in Replicas
  BY ActiveFacts DEF Windows, JobSane
<1>2. stream' = stream /\ \A r : Arrived(r)' = Arrived(r)
  BY ArchiveStill
<1>3. RunOf.request = RequestOf /\ RequestOf.replica = Replica
      /\ RequestOf.after = Work.after /\ RequestOf.watermark = job.watermark
  BY DEF RunOf, RequestOf
<1>4. \A r : Runs(r) \subseteq Runs(r)'
  BY DEF Runs
<1>5. \A r : \A x \in Runs(r)' : x \in Runs(r) \/ (x = RunOf /\ r = Replica)
  BY <1>3 DEF Runs
<1>6. RunsSane'
  <2>1. ASSUME NEW x \in manifests \cup records \cup {RunOf} PROVE Sane(x.request)'
    <3>1. Sane(x.request)
      BY <1>1, <1>3 DEF RunsSane
    <3> QED BY <1>2, <3>1, SaneKept
  <2> QED BY <2>1 DEF RunsSane
<1>7. \A x \in Runs(Replica) : x.request.watermark <= RequestOf.after \/ x.request = RequestOf
  BY <1>3, NoClash
<1>8. Apart'
  <2>1. ASSUME NEW r \in Replicas, NEW x \in Runs(r)', NEW y \in Runs(r)'
        PROVE  \/ x.request = y.request
               \/ x.request.watermark <= y.request.after
               \/ y.request.watermark <= x.request.after
    <3>1. CASE x \in Runs(r) /\ y \in Runs(r)
      BY <1>1, <3>1 DEF Apart
    <3>2. CASE x = RunOf /\ r = Replica
      BY <1>3, <1>5, <1>7, <3>2
    <3>3. CASE y = RunOf /\ r = Replica
      BY <1>3, <1>5, <1>7, <3>3
    <3> QED BY <1>5, <3>1, <3>2, <3>3
  <2> QED BY <2>1 DEF Apart
<1> QED BY <1>4, <1>5, <1>6, <1>8

(* Publication keeps Windows. *)
LEMMA WindowsPublish ==
  ASSUME Windows, Publish
  PROVE  Windows'
<1>1. /\ Typed /\ Typed' /\ Todo /\ JobSane /\ ~conflict'
      /\ job.pc = "publish" /\ UNCHANGED <<archiveVars, records, conflict>>
      /\ manifests' = manifests \cup {RunOf} /\ job' = [job EXCEPT !.pc = "record"]
      /\ job' \in JobState
  BY PublishStep DEF Windows
<1>2. Active
  BY <1>1 DEF Active
<1>3. /\ RunsSane' /\ Apart'
      /\ \A r : Runs(r) \subseteq Runs(r)'
      /\ \A r : \A x \in Runs(r)' : x \in Runs(r) \/ (x = RunOf /\ r = Replica)
  BY <1>1, <1>2, RunsGrow
<1>4. /\ job'.todo = job.todo /\ job'.watermark = job.watermark /\ job'.evidence = job.evidence
      /\ job'.pages = job.pages /\ job'.patches = job.patches /\ job'.pc = "record"
  BY <1>1, <1>2, ActiveFacts DEF JobState
<1>5. RunOf' = RunOf /\ Replica' = Replica
  BY <1>4 DEF RunOf, RequestOf, Work, Replica
<1>6. stream' = stream /\ \A r : Arrived(r)' = Arrived(r)
  BY <1>1, ArchiveStill
<1>7. JobSane'
  BY <1>1, <1>2, <1>4, <1>6, ActiveFacts, JobKept DEF JobSane
<1>8. ASSUME NEW k \in 1 .. Len(job.todo), NEW u, u = job.todo[k]
      PROVE  /\ Open(u)'
             /\ \A x \in Runs(u.replica)' : x.request.watermark <= u.after \/ (k = 1 /\ x = RunOf)
  <2>1. Open(u)'
    BY <1>1, <1>3, <1>6, <1>8, OpenKept DEF Todo
  <2>2. \A x \in Runs(u.replica) : x.request.watermark <= u.after
    BY <1>1, <1>8 DEF Todo
  <2>3. u.replica = Replica => k = 1
    <3>1. Replica = job.todo[1].replica /\ 1 \in 1 .. Len(job.todo)
      BY <1>1, JobTypes DEF Replica
    <3> QED BY <1>1, <1>8, <3>1 DEF Todo
  <2> QED BY <1>3, <2>1, <2>2, <2>3
<1>9. Todo'
  <2>1. \A k, l \in 1 .. Len(job'.todo) : job'.todo[k].replica = job'.todo[l].replica => k = l
    BY <1>1, <1>4 DEF Todo
  <2>2. ASSUME NEW k \in 1 .. Len(job'.todo)
        PROVE  /\ Open(job.todo[k])'
               /\ \A x \in Runs(job.todo[k].replica)' :
                    x.request.watermark <= job'.todo[k].after \/ (k = 1 /\ x = RunOf)
    <3>1. PICK u : u = job.todo[k]
      OBVIOUS
    <3>2. u = job'.todo[k]
      BY <1>4, <3>1
    <3>3. /\ Open(u)'
          /\ \A x \in Runs(u.replica)' : x.request.watermark <= u.after \/ (k = 1 /\ x = RunOf)
      BY <1>4, <1>8, <3>1
    <3> QED BY <3>2, <3>3 DEF Open, Runs
  <2> QED BY <1>4, <1>5, <2>1, <2>2 DEF Todo
<1> QED BY <1>1, <1>3, <1>7, <1>9 DEF Windows

(* The record keeps Windows, and the next batch starts where this one      *)
(* ends.                                                                   *)
LEMMA WindowsRecord ==
  ASSUME Windows, Record
  PROVE  Windows'
<1>1. /\ Typed /\ Typed' /\ Todo /\ JobSane /\ ~conflict'
      /\ job.pc = "record" /\ UNCHANGED <<archiveVars, manifests, conflict>>
      /\ records' = records \cup {RunOf} /\ job' = NextWork
  BY RecordStep DEF Windows
<1>2. Active
  BY <1>1 DEF Active
<1>3. /\ RunsSane' /\ Apart'
      /\ \A r : Runs(r) \subseteq Runs(r)'
      /\ \A r : \A x \in Runs(r)' : x \in Runs(r) \/ (x = RunOf /\ r = Replica)
  BY <1>1, <1>2, RunsGrow
<1>4. stream' = stream /\ \A r : Arrived(r)' = Arrived(r)
  BY <1>1, ArchiveStill
<1>5. job'.pc \in {"idle", "read"}
  BY <1>1, NextWorkFacts
<1>6. JobSane'
  BY <1>5 DEF JobSane, Active
<1>7. /\ Work = job.todo[1] /\ Replica = job.todo[1].replica /\ 1 \in 1 .. Len(job.todo)
      /\ Len(job.todo) \in Nat
      /\ Work.after < job.watermark /\ Work.after \in Nat /\ job.watermark \in Nat
  BY <1>1, <1>2, JobTypes, ActiveFacts DEF Replica
<1>8. RunOf.request.watermark = job.watermark /\ RunOf.request.replica = Replica
  BY DEF RunOf, RequestOf
<1> DEFINE Kept(u) == Open(u)' /\ \A x \in Runs(u.replica)' : x.request.watermark <= u.after
(* Items of work that stay. *)
<1>10. ASSUME NEW k \in 2 .. Len(job.todo), NEW u, u = job.todo[k] PROVE Kept(u)
  <2>1. k \in 1 .. Len(job.todo) /\ k # 1
    BY <1>7
  <2>2. u.replica # Replica /\ Open(u)
    BY <1>1, <1>7, <1>10, <2>1 DEF Todo
  <2>3. Open(u)'
    BY <1>3, <1>4, <2>2, OpenKept
  <2>4. \A x \in Runs(u.replica) : x.request.watermark <= u.after
    BY <1>1, <1>10, <2>1 DEF Todo
  <2>5. \A x \in Runs(u.replica)' : x.request.watermark <= u.after
    BY <1>3, <2>2, <2>4
  <2> QED BY <2>3, <2>5
(* The next batch of the same replica. *)
<1>11. ASSUME NEW u, u = [replica |-> Replica, after |-> job.watermark, through |-> Work.through],
              job.watermark < Work.through
       PROVE  Kept(u)
  <2>1. u.replica = Replica /\ u.after = job.watermark /\ u.through = Work.through
    BY <1>11
  <2>2. \E j \in Arrived(u.replica) : At(u.replica, j).seq = u.through
    BY <1>1, <1>7, <2>1 DEF Todo, Open
  <2>3. RunOf \in Runs(u.replica)'
    BY <1>1, <1>8, <2>1 DEF Runs
  <2>4. Open(u)'
    BY <1>4, <1>8, <1>11, <2>1, <2>2, <2>3 DEF Open, At
  <2>5. ASSUME NEW x \in Runs(u.replica)' PROVE x.request.watermark <= u.after
    <3>1. CASE x = RunOf
      BY <1>7, <1>8, <2>1, <3>1
    <3>2. CASE x \in Runs(Replica) /\ x # RunOf
      <4>1. x.request.watermark <= Work.after /\ x.request.watermark \in Nat
        BY <1>1, <1>2, <3>2, NoClash, RunsOf
      <4> QED BY <1>7, <2>1, <4>1
    <3> QED BY <1>3, <2>1, <3>1, <3>2
  <2> QED BY <2>4, <2>5
<1> HIDE DEF Kept
<1>9. PICK next : next = job'.todo
  OBVIOUS
<1>12. /\ Len(next) \in Nat
       /\ \A k \in 1 .. Len(next) : Kept(next[k])
       /\ \A k, l \in 1 .. Len(next) : next[k].replica = next[l].replica => k = l
  <2>1. \A k, l \in 1 .. Len(job.todo) : job.todo[k].replica = job.todo[l].replica => k = l
    BY <1>1 DEF Todo
  <2>2. CASE /\ Len(next) = Len(job.todo) /\ job.watermark < Work.through
             /\ next[1] = [replica |-> Replica, after |-> job.watermark, through |-> Work.through]
             /\ \A k \in 2 .. Len(job.todo) : next[k] = job.todo[k]
    <3>1. Kept(next[1]) /\ \A k \in 2 .. Len(next) : Kept(next[k])
      BY <1>10, <1>11, <2>2
    <3>2. \A k \in 1 .. Len(next) : k = 1 \/ k \in 2 .. Len(next)
      BY <1>7, <2>2
    <3>3. \A k \in 1 .. Len(next) : next[k].replica = job.todo[k].replica
      BY <1>7, <2>2, <3>2
    <3> QED BY <1>7, <2>1, <2>2, <3>1, <3>2, <3>3
  <2>3. CASE /\ Len(next) = Len(job.todo) - 1
             /\ \A k \in 1 .. Len(job.todo) - 1 : next[k] = job.todo[k + 1]
    <3>1. \A k \in 1 .. Len(next) : /\ k + 1 \in 2 .. Len(job.todo) /\ k + 1 \in 1 .. Len(job.todo)
                                    /\ next[k] = job.todo[k + 1]
      BY <1>7, <2>3
    <3>2. \A k \in 1 .. Len(next) : Kept(next[k])
      BY <1>10, <3>1
    <3>3. ASSUME NEW k \in 1 .. Len(next), NEW l \in 1 .. Len(next), next[k].replica = next[l].replica
          PROVE  k = l
      <4>1. k + 1 = l + 1
        BY <2>1, <3>1, <3>3
      <4> QED BY <4>1
    <3> QED BY <1>7, <2>3, <3>2, <3>3
  <2>4. CASE Len(next) = 0
    BY <2>4
  <2> QED BY <1>1, <1>9, <2>2, <2>3, <2>4, NextWorkFacts
<1>13. \A k \in 1 .. Len(job'.todo) :
         /\ Open(job.todo[k])'
         /\ \A x \in Runs(job.todo[k].replica)' : x.request.watermark <= job'.todo[k].after
  <2> SUFFICES ASSUME NEW k \in 1 .. Len(job'.todo)
               PROVE  /\ Open(job.todo[k])'
                      /\ \A x \in Runs(job.todo[k].replica)' : x.request.watermark <= job'.todo[k].after
    OBVIOUS
  <2>1. PICK u : u = job'.todo[k]
    OBVIOUS
  <2>2. Kept(u)
    BY <1>9, <1>12, <2>1
  <2> QED BY <2>1, <2>2 DEF Kept, Open, Runs
<1>14. Todo'
  BY <1>9, <1>12, <1>13 DEF Todo
<1> QED BY <1>1, <1>3, <1>6, <1>14 DEF Windows

(* Every step keeps the windows. *)
LEMMA WindowsNext ==
  ASSUME Windows, [Next]_vars
  PROVE  Windows'
<1>1. ASSUME NEW r \in Replicas, Arrive(r) PROVE Windows'
  BY <1>1, WindowsArrive
<1>2. CASE Start
  BY <1>2, WindowsStart
<1>3. CASE ReadBatch
  BY <1>3, WindowsRead
<1>4. CASE Project
  BY <1>4, ProjectStep, WindowsInner
<1>5. CASE Embed
  BY <1>5, EmbedStep, WindowsInner
<1>6. CASE Select
  BY <1>6, SelectStep, WindowsInner
<1>7. CASE Ask
  BY <1>7, AskStep, WindowsInner
<1>8. CASE Publish
  BY <1>8, WindowsPublish
<1>9. CASE Record
  BY <1>9, WindowsRecord
<1>10. CASE ProjectRaises \/ EmbedFails \/ Deadline \/ FailRun
  BY <1>10, ResetStep, WindowsReset
<1>11. CASE UNCHANGED vars
  <2>1. UNCHANGED <<stream, arrived, extensions, docs, embedded, manifests, records, job, conflict, failures>>
    BY <1>11 DEF vars, archiveVars, searchVars
  <2>2. Typed /\ RunsSane /\ JobSane /\ Todo /\ Apart /\ ~conflict
    BY DEF Windows
  <2>3. Typed'
    BY <2>1, <2>2 DEF Typed, TypeOK, Arrived, At
  <2>4. RunsSane' /\ Apart' /\ ~conflict'
    BY <2>1, <2>2 DEF RunsSane, Sane, Apart, Runs, Arrived, At
  <2>5. JobSane'
    BY <2>1, <2>2 DEF JobSane, Active, Sane, RequestOf, Work, Replica, Arrived, At
  <2>6. Todo'
    BY <2>1, <2>2 DEF Todo, Open, Runs, RunOf, RequestOf, Work, Replica, Arrived, At
  <2> QED BY <2>3, <2>4, <2>5, <2>6 DEF Windows
<1> QED BY <1>1, <1>2, <1>3, <1>4, <1>5, <1>6, <1>7, <1>8, <1>9, <1>10, <1>11 DEF Next, JobStep

(* Windows always holds. *)
LEMMA WindowsInvariant == Spec => []Windows
<1>1. Init => Windows
  BY WindowsInit
<1>2. Windows /\ [Next]_vars => Windows'
  BY WindowsNext
<1> QED BY <1>1, <1>2, PTL DEF Spec

(* The variables of the job, the archive, the documents and the runs keep  *)
(* their types: a batch count below its limit, a base that is a version of *)
(* the archive, embeddings only of documents.                              *)
THEOREM MaintenanceTypeCorrect == Spec => []TypeOK
<1>1. Windows => TypeOK
  BY DEF Windows, Typed
<1> QED BY <1>1, WindowsInvariant, PTL

(* No evidence is analyzed by two runs, whatever crashes, restarts and     *)
(* different answers come between publication and record, and no run meets *)
(* another one with its id or its watermark (maintenance.py, publish and   *)
(* _record_run).                                                           *)
THEOREM EvidenceAnalyzedOnce == Spec => []AnalyzedOnce
<1>1. Windows => AnalyzedOnce
  <2> SUFFICES ASSUME Windows PROVE AnalyzedOnce
    OBVIOUS
  <2>1. ASSUME NEW r \in Replicas, NEW x \in Runs(r), NEW y \in Runs(r), x.request # y.request
        PROVE  x.request.evidence \cap y.request.evidence = {}
    <3>1. Typed /\ Sane(x.request) /\ Sane(y.request)
          /\ x.request.replica = r /\ y.request.replica = r
          /\ x.request.after \in Nat /\ x.request.watermark \in Nat
          /\ y.request.after \in Nat /\ y.request.watermark \in Nat
      BY RunsOf DEF Windows, RunsSane
    <3>2. \/ x.request.watermark <= y.request.after
          \/ y.request.watermark <= x.request.after
      BY <2>1 DEF Windows, Apart
    <3>3. ASSUME NEW i \in x.request.evidence \cap y.request.evidence PROVE FALSE
      <4>1. /\ At(r, i).seq \in Nat
            /\ x.request.after < At(r, i).seq /\ At(r, i).seq <= x.request.watermark
            /\ y.request.after < At(r, i).seq /\ At(r, i).seq <= y.request.watermark
        BY <3>1, ArrivedEvents DEF Sane
      <4> QED BY <3>1, <3>2, <4>1
    <3> QED BY <3>3
  <2> QED BY <2>1 DEF AnalyzedOnce, Windows
<1> QED BY <1>1, WindowsInvariant, PTL

-----------------------------------------------------------------------------
(* WHAT THE WATERMARK HAS PASSED *)

(* What must be shown to the model: messages, and page versions that are   *)
(* the newest of their page, unless they arrived late.                     *)
Due(r, i) ==
  /\ i \in Arrived(r) \ Late(r)
  /\ \/ At(r, i).kind = "message"
     \/ /\ At(r, i).kind = "page"
        /\ ~\E j \in Arrived(r) : /\ At(r, j).kind = "page" /\ At(r, j).path = At(r, i).path
                                  /\ At(r, j).seq > At(r, i).seq

JobCovers ==
  Active => \A i : (/\ Due(Replica, i) /\ Work.after < At(Replica, i).seq
                    /\ At(Replica, i).seq <= job.watermark) => i \in job.evidence

Covered ==
  \A r \in Replicas : \A x \in Runs(r) : \A i :
    Due(r, i) /\ At(r, i).seq <= x.request.watermark => i \in Analyzed(r)

Cover == JobCovers /\ Covered

(* The events of a stream have sequence numbers. *)
LEMMA StreamEvents ==
  ASSUME Typed, NEW r \in Replicas, NEW i \in 1 .. Len(stream[r])
  PROVE  At(r, i).seq \in Nat
<1>1. stream[r] \in Seq(Event)
  BY StreamAssumption DEF Typed, TypeOK
<1>2. At(r, i) \in Event
  BY <1>1, ElementOfSeq DEF At
<1>3. At(r, i).seq \in Nat \ {0}
  BY <1>2 DEF Event
<1> QED BY <1>3

(* Due events of a window are relevant in it. *)
LEMMA DueIsRelevant ==
  ASSUME NEW r, NEW i, NEW after, NEW through,
         Due(r, i), after < At(r, i).seq, At(r, i).seq <= through
  PROVE  i \in Relevant(r, after, through)
BY DEF Due, Relevant, PagesUpTo

(* An event that arrives was not due before, but then its sequence is      *)
(* larger than all before it; the others were due.                         *)
LEMMA DueBefore ==
  ASSUME Typed, stream' = stream, NEW r \in Replicas,
         arrived'[r] \in Nat, arrived[r] <= arrived'[r], arrived'[r] <= Len(stream[r]),
         NEW i, Due(r, i)'
  PROVE  /\ At(r, i)' = At(r, i) /\ At(r, i).seq \in Nat
         /\ \/ Due(r, i)
            \/ \A j \in Arrived(r) : At(r, j).seq < At(r, i).seq
<1>1. arrived[r] \in Nat /\ Arrived(r) = 1 .. arrived[r] /\ Arrived(r)' = 1 .. arrived'[r]
  BY ArrivedEvents DEF Arrived
<1>2. \A j : At(r, j)' = At(r, j)
  BY DEF At
<1>3. i \in Arrived(r)' /\ \A j \in 1 .. i - 1 : ~(At(r, j).seq >= At(r, i).seq)
  BY <1>2 DEF Due, Late
<1> At(r, i).seq \in Nat
  <2>1. i \in 1 .. Len(stream[r])
    BY <1>1, <1>3, ArrivedEvents
  <2> QED BY <2>1, StreamEvents
<1>4. CASE i \in Arrived(r)
  <2>1. i \notin Late(r)
    BY <1>3 DEF Late
  <2>2. Arrived(r) \subseteq Arrived(r)'
    BY <1>1
  <2>3. Due(r, i)
    BY <1>2, <1>4, <2>1, <2>2 DEF Due
  <2> QED BY <1>2, <2>3
<1>5. CASE i \notin Arrived(r)
  <2>1. \A j \in Arrived(r) : j \in 1 .. i - 1 /\ At(r, j).seq \in Nat
    BY <1>1, <1>3, <1>5, ArrivedEvents
  <2>3. \A j \in Arrived(r) : At(r, j).seq < At(r, i).seq
    BY <1>3, <2>1
  <2> QED BY <1>2, <2>3
<1> QED BY <1>4, <1>5

(* A step that leaves the archive alone changes nothing that is due. *)
LEMMA DueStill ==
  ASSUME UNCHANGED archiveVars, NEW r, NEW i
  PROVE  (Due(r, i)' <=> Due(r, i)) /\ At(r, i)' = At(r, i)
BY DEF archiveVars, Due, Late, Arrived, At

(* A step that leaves archive and runs alone keeps Covered. *)
LEMMA CoveredStill ==
  ASSUME Covered, UNCHANGED <<archiveVars, manifests, records>>
  PROVE  Covered'
<1>1. \A r : Runs(r)' = Runs(r) /\ Analyzed(r)' = Analyzed(r)
  BY DEF Runs, Analyzed
<1> QED BY <1>1, DueStill DEF Covered

(* Cover holds initially. *)
LEMMA CoverInit ==
  ASSUME Init
  PROVE  Cover
BY DEF Init, Cover, JobCovers, Active, Idle, Covered, Runs

(* An event that arrives is past every watermark or late, so Cover stays. *)
LEMMA CoverArrive ==
  ASSUME Windows, Cover, Windows', NEW r \in Replicas, Arrive(r)
  PROVE  Cover'
<1>1. arrived' = [arrived EXCEPT ![r] = @ + 1]
      /\ UNCHANGED <<stream, manifests, records, job>>
  BY DEF Arrive
<1>2. Typed /\ RunsSane /\ Typed'
  BY DEF Windows
<1>3. \A q \in Replicas : /\ arrived[q] \in Nat /\ arrived'[q] \in Nat /\ arrived[q] <= arrived'[q]
                          /\ arrived'[q] <= Len(stream[q])
  <2>1. \A q \in Replicas : arrived'[q] \in 0 .. Len(stream[q]) /\ Len(stream[q]) \in Nat
    BY <1>1, <1>2, ArrivedEvents DEF Typed, TypeOK
  <2> QED BY <1>1, <1>2, <2>1 DEF Typed
(* What is due at or before a window was due before the step. *)
<1>4. ASSUME NEW q \in Replicas, NEW w \in Nat, NEW i, Due(q, i)', At(q, i)'.seq <= w,
             \E j \in Arrived(q) : w <= At(q, j).seq
      PROVE  Due(q, i) /\ At(q, i)' = At(q, i)
  <2>1. /\ At(q, i)' = At(q, i) /\ At(q, i).seq \in Nat
        /\ Due(q, i) \/ \A j \in Arrived(q) : At(q, j).seq < At(q, i).seq
    BY <1>1, <1>2, <1>3, <1>4, DueBefore
  <2>2. PICK j \in Arrived(q) : w <= At(q, j).seq
    BY <1>4
  <2>3. At(q, j).seq \in Nat
    BY <1>2, ArrivedEvents
  <2>4. ~(At(q, j).seq < At(q, i).seq)
    BY <1>4, <2>1, <2>2, <2>3
  <2> QED BY <2>1, <2>4
<1>5. JobCovers'
  <2>1. Work' = Work /\ Replica' = Replica /\ (Active' <=> Active)
    BY <1>1 DEF Work, Replica, Active
  <2> SUFFICES ASSUME Active, NEW i, Due(Replica, i)', Work.after < At(Replica, i)'.seq,
                      At(Replica, i)'.seq <= job.watermark
               PROVE  i \in job.evidence
    BY <1>1, <2>1 DEF JobCovers
  <2>2. PICK q : q = Replica
    OBVIOUS
  <2>3. q \in Replicas /\ job.watermark \in Nat
    BY <2>2, ActiveFacts
  <2>4. \E j \in Arrived(q) : job.watermark <= At(q, j).seq
    BY <2>2 DEF Windows, JobSane, Sane, RequestOf
  <2>5. Due(q, i)' /\ At(q, i)'.seq <= job.watermark /\ At(Replica, i)' = At(q, i)'
    BY <2>1, <2>2 DEF Due, Late, Arrived, At
  <2>6. Due(q, i) /\ At(q, i)' = At(q, i)
    BY <1>4, <2>3, <2>4, <2>5
  <2> QED BY <2>2, <2>5, <2>6 DEF Cover, JobCovers
<1>6. Covered'
  <2>1. \A q : Runs(q)' = Runs(q) /\ Analyzed(q)' = Analyzed(q)
    BY <1>1 DEF Runs, Analyzed
  <2>2. ASSUME NEW q \in Replicas, NEW x \in Runs(q), NEW i, Due(q, i)',
               At(q, i)'.seq <= x.request.watermark
        PROVE  i \in Analyzed(q)
    <3>1. x.request.watermark \in Nat /\ \E j \in Arrived(q) : x.request.watermark <= At(q, j).seq
      BY <1>2, RunsOf DEF RunsSane, Sane
    <3>2. Due(q, i) /\ At(q, i)' = At(q, i)
      BY <1>4, <2>2, <3>1
    <3> QED BY <2>2, <3>2 DEF Cover, Covered
  <2> QED BY <2>1, <2>2 DEF Covered
<1> QED BY <1>5, <1>6 DEF Cover

(* A read takes everything that is due in the window it closes. *)
LEMMA CoverRead ==
  ASSUME Windows, Cover, ReadBatch
  PROVE  Cover'
<1>1. UNCHANGED <<archiveVars, manifests, records>> /\ Typed /\ job.pc # "idle"
  BY ReadStep DEF Windows
<1>2. Covered'
  BY <1>1, CoveredStill DEF Cover
<1>3. job'.todo = job.todo
      /\ job'.watermark <= Work.through /\ job'.watermark \in Nat
      /\ \A i \in Relevant(Replica, Work.after, Work.through) :
           At(Replica, i).seq <= job'.watermark =>
             \/ i \in job'.evidence
             \/ \E j \in Arrived(Replica) : j < i /\ At(Replica, j).seq = At(Replica, i).seq
  BY ReadFacts
<1>4. Work' = Work /\ Replica' = Replica
  BY <1>3 DEF Work, Replica
<1>5. PICK q : q = Replica
  OBVIOUS
<1>6. q \in Replicas /\ Work.through \in Nat
  BY <1>1, <1>5, JobTypes
<1>7. ASSUME NEW i, Due(q, i), Work.after < At(q, i).seq, At(q, i).seq <= job'.watermark
      PROVE  i \in job'.evidence
  <2>1. i \in Arrived(q) /\ i \notin Late(q) /\ At(q, i).seq \in Nat
    BY <1>1, <1>6, <1>7, ArrivedEvents DEF Due
  <2>2. i \in Relevant(q, Work.after, Work.through)
    BY <1>3, <1>6, <1>7, <2>1, DueIsRelevant
  <2>3. ASSUME NEW j \in Arrived(q), j < i, At(q, j).seq = At(q, i).seq PROVE FALSE
    <3>1. j \in 1 .. i - 1 /\ At(q, j).seq >= At(q, i).seq
      BY <2>1, <2>3, <1>1, <1>6, ArrivedEvents DEF Arrived
    <3> QED BY <2>1, <3>1 DEF Late
  <2> QED BY <1>3, <1>5, <1>7, <2>2, <2>3
<1>8. \A i : (Due(q, i)' <=> Due(q, i)) /\ At(q, i)' = At(q, i)
  BY <1>1, DueStill
<1>9. JobCovers'
  BY <1>4, <1>5, <1>7, <1>8 DEF JobCovers, Due, Late, Arrived, At
<1> QED BY <1>2, <1>9 DEF Cover

(* A step inside a run keeps Cover. *)
LEMMA CoverInner ==
  ASSUME Cover, Inner
  PROVE  Cover'
<1>1. UNCHANGED <<archiveVars, manifests, records>> /\ Active
      /\ job'.todo = job.todo /\ job'.watermark = job.watermark /\ job'.evidence = job.evidence
  BY DEF Inner, Active
<1>2. Work' = Work /\ Replica' = Replica
  BY <1>1 DEF Work, Replica
<1>3. PICK q : q = Replica
  OBVIOUS
<1>4. \A i : (Due(q, i)' <=> Due(q, i)) /\ At(q, i)' = At(q, i)
  BY <1>1, DueStill
<1>5. \A i : Due(q, i) /\ Work.after < At(q, i).seq /\ At(q, i).seq <= job.watermark => i \in job.evidence
  BY <1>1, <1>3 DEF Cover, JobCovers
<1>6. JobCovers'
  BY <1>1, <1>2, <1>3, <1>4, <1>5 DEF JobCovers, Due, Late, Arrived, At
<1> QED BY <1>1, <1>6, CoveredStill DEF Cover

(* A run that is added covers its window, and an earlier one what is       *)
(* before it.                                                              *)
LEMMA CoveredGrows ==
  ASSUME Windows, Cover, Active, UNCHANGED archiveVars,
         manifests' \cup records' = manifests \cup records \cup {RunOf}
  PROVE  Covered'
<1>1. Typed /\ Replica \in Replicas /\ Work.after \in Nat /\ job.watermark \in Nat
  BY ActiveFacts
<1>2. \A r : \A x \in Runs(r)' : x \in Runs(r) \/ (x = RunOf /\ r = Replica)
  BY RunsGrow
<1>3. \A r : Analyzed(r) \subseteq Analyzed(r)'
  <2>1. \A r : Runs(r) \subseteq Runs(r)'
    BY RunsGrow
  <2> QED BY <2>1 DEF Analyzed
<1>5. ASSUME NEW r, r = Replica PROVE job.evidence \subseteq Analyzed(r)'
  <2>1. RunOf.request.evidence = job.evidence /\ RunOf.request.replica = r
    BY <1>5 DEF RunOf, RequestOf
  <2>2. RunOf \in Runs(r)'
    BY <2>1 DEF Runs
  <2> QED BY <2>1, <2>2 DEF Analyzed
<1>6. ASSUME NEW r \in Replicas, NEW x \in Runs(r)', NEW i, Due(r, i), At(r, i).seq <= x.request.watermark
      PROVE  i \in Analyzed(r)'
  <2>1. CASE x \in Runs(r)
    BY <1>3, <1>6, <2>1 DEF Cover, Covered
  <2>2. CASE x = RunOf /\ r = Replica
    <3>1. At(r, i).seq <= job.watermark
      BY <1>6, <2>2 DEF RunOf, RequestOf
    <3>2. At(r, i).seq \in Nat /\ At(r, i).seq > 0
      BY <1>1, <1>6, ArrivedEvents DEF Due
    <3>3. CASE Work.after < At(r, i).seq
      BY <1>5, <1>6, <2>2, <3>1, <3>3 DEF Cover, JobCovers
    <3>4. CASE At(r, i).seq <= Work.after
      <4>1. Work = job.todo[1] /\ 1 \in 1 .. Len(job.todo)
        BY ActiveFacts, JobTypes
      <4>2. Open(Work) /\ Work.replica = r
        BY <2>2, <4>1 DEF Windows, Todo, Replica
      <4>3. PICK y \in Runs(r) : y.request.watermark = Work.after
        BY <1>1, <3>2, <3>4, <4>2 DEF Open
      <4> QED BY <1>3, <1>6, <3>4, <4>3 DEF Cover, Covered
    <3> QED BY <1>1, <3>2, <3>3, <3>4
  <2> QED BY <1>2, <2>1, <2>2
<1>7. \A r, i : (Due(r, i)' <=> Due(r, i)) /\ At(r, i)' = At(r, i)
  BY DueStill
<1> QED BY <1>6, <1>7 DEF Covered

(* Publication keeps Cover. *)
LEMMA CoverPublish ==
  ASSUME Windows, Cover, Publish
  PROVE  Cover'
<1>1. /\ job.pc = "publish" /\ UNCHANGED <<archiveVars, records>>
      /\ manifests' = manifests \cup {RunOf} /\ job' = [job EXCEPT !.pc = "record"]
  BY PublishStep
<1>2. Active
  BY <1>1 DEF Active
<1>3. job'.todo = job.todo /\ job'.watermark = job.watermark /\ job'.evidence = job.evidence
  BY <1>1, <1>2, ActiveFacts DEF JobState
<1>4. Work' = Work /\ Replica' = Replica
  BY <1>3 DEF Work, Replica
<1>5. PICK q : q = Replica
  OBVIOUS
<1>6. \A i : (Due(q, i)' <=> Due(q, i)) /\ At(q, i)' = At(q, i)
  BY <1>1, DueStill
<1>7. \A i : Due(q, i) /\ Work.after < At(q, i).seq /\ At(q, i).seq <= job.watermark => i \in job.evidence
  BY <1>2, <1>5 DEF Cover, JobCovers
<1>8. JobCovers'
  BY <1>3, <1>4, <1>5, <1>6, <1>7 DEF JobCovers, Due, Late, Arrived, At
<1> QED BY <1>1, <1>2, <1>8, CoveredGrows DEF Cover

(* Every step keeps Cover. *)
LEMMA CoverNext ==
  ASSUME Windows, Cover, Windows', [Next]_vars
  PROVE  Cover'
<1>1. ASSUME NEW r \in Replicas, Arrive(r) PROVE Cover'
  BY <1>1, CoverArrive
<1>2. CASE Start
  <2>1. JobCovers'
    BY <1>2, StartFacts DEF JobCovers, Active
  <2> QED BY <1>2, <2>1, StartStep, CoveredStill DEF Cover
<1>3. CASE ReadBatch
  BY <1>3, CoverRead
<1>4. CASE Project \/ Embed \/ Select \/ Ask
  BY <1>4, ProjectStep, EmbedStep, SelectStep, AskStep, CoverInner
<1>5. CASE Publish
  BY <1>5, CoverPublish
<1>6. CASE Record
  <2>1. /\ job.pc = "record" /\ UNCHANGED <<archiveVars, manifests>>
        /\ records' = records \cup {RunOf} /\ job' = NextWork
    BY <1>6, RecordStep
  <2>2. job'.pc \in {"idle", "read"} /\ Active
    BY <2>1, NextWorkFacts DEF Active
  <2> QED BY <2>1, <2>2, CoveredGrows DEF Cover, JobCovers, Active
<1>7. CASE ProjectRaises \/ EmbedFails \/ Deadline \/ FailRun
  <2>1. Reset
    BY <1>7, ResetStep
  <2> QED BY <2>1, CoveredStill DEF Reset, Cover, JobCovers, Active, Idle
<1>8. CASE UNCHANGED vars
  <2>1. UNCHANGED <<archiveVars, manifests, records, job>>
    BY <1>8 DEF vars
  <2>2. JobCovers'
    BY <2>1 DEF archiveVars, Cover, JobCovers, Active, Due, Late, Arrived, At, Replica, Work
  <2> QED BY <2>1, <2>2, CoveredStill DEF Cover
<1> QED BY <1>1, <1>2, <1>3, <1>4, <1>5, <1>6, <1>7, <1>8 DEF Next, JobStep

(* Nothing that the watermark of a replica has passed was withheld from    *)
(* the model, however often a run failed on the way: batches that were     *)
(* full, ends that were fixed at the start, deadlines and crashes leave no *)
(* gap between windows (_bounded_evidence, run_maintenance).               *)
THEOREM PassedWasAnalyzed == Spec => []EvidenceCovered
<1>1. Init => Windows /\ Cover
  BY WindowsInit, CoverInit
<1>2. Windows /\ Cover /\ [Next]_vars => (Windows /\ Cover)'
  BY WindowsNext, CoverNext
<1>3. Windows /\ Cover => EvidenceCovered
  <2> SUFFICES ASSUME Windows, Cover, NEW r \in Replicas, NEW i \in Arrived(r) \ Late(r),
                      At(r, i).seq <= LastWatermark(r), i \in Relevant(r, 0, Available(r))
               PROVE  i \in Analyzed(r)
    BY DEF EvidenceCovered
  <2>1. /\ Typed /\ LastWatermark(r) \in Nat
        /\ LastWatermark(r) = 0 \/ \E x \in Runs(r) : x.request.watermark = LastWatermark(r)
        /\ \A j \in Arrived(r) : At(r, j).seq <= Available(r)
    BY LastWatermarkFacts DEF Windows
  <2>2. At(r, i).seq \in Nat /\ At(r, i).seq > 0
    BY <2>1, ArrivedEvents
  <2>3. PICK x \in Runs(r) : x.request.watermark = LastWatermark(r)
    BY <2>1, <2>2
  <2>4. Due(r, i)
    BY <2>1 DEF Due, Relevant, PagesUpTo
  <2> QED BY <2>3, <2>4 DEF Cover, Covered
<1> QED BY <1>1, <1>2, <1>3, PTL DEF Spec

-----------------------------------------------------------------------------
(* PATCHES *)

(* A version that was the newest of its page at a watermark.  A page with  *)
(* late events can have got an older one since.                            *)
Newest(r, w, i) ==
  /\ i \in PagesUpTo(r, w)
  /\ \/ \E l \in Late(r) : At(r, l).path = At(r, i).path
     \/ \A j \in PagesUpTo(r, w) :
          At(r, j).path = At(r, i).path =>
            At(r, j).seq < At(r, i).seq \/ (At(r, j).seq = At(r, i).seq /\ j <= i)

Sound(r, w, patch) ==
  patch.base = 0 \/ (Newest(r, w, patch.base) /\ At(r, patch.base).path = patch.proposal.path)

Whole(patches) == \A patch \in patches : patch.group \subseteq {other.proposal : other \in patches}

JobPatches ==
  /\ Active => /\ \A i \in job.pages : Newest(Replica, job.watermark, i)
               /\ \A patch \in job.patches : Sound(Replica, job.watermark, patch)
               /\ Whole(job.patches)
  /\ job.pc = "read" => job.patches = {}

Published ==
  \A m \in manifests : /\ \A patch \in m.patches : Sound(m.request.replica, m.request.watermark, patch)
                       /\ Whole(m.patches)

Patches == JobPatches /\ Published

(* A read or a selection shows newest versions. *)
LEMMA CurrentIsNewest ==
  ASSUME NEW r, NEW w, NEW i \in CurrentPages(r, w)
  PROVE  Newest(r, w, i)
BY DEF CurrentPages, NewestOf, Newest

(* What arrives later is past the watermark or late. *)
LEMMA NewestGrows ==
  ASSUME Typed, stream' = stream, NEW r \in Replicas,
         arrived'[r] \in Nat, arrived[r] <= arrived'[r], arrived'[r] <= Len(stream[r]),
         NEW w \in Nat, \E j \in Arrived(r) : w <= At(r, j).seq,
         NEW i, Newest(r, w, i)
  PROVE  Newest(r, w, i)'
<1>1. arrived[r] \in Nat /\ Arrived(r) = 1 .. arrived[r] /\ Arrived(r)' = 1 .. arrived'[r]
      /\ Len(stream[r]) \in Nat
  BY ArrivedEvents DEF Arrived
<1>2. Arrived(r) \subseteq Arrived(r)' /\ \A j : At(r, j)' = At(r, j)
  BY <1>1 DEF At
<1>3. Late(r) \subseteq Late(r)'
  BY <1>2 DEF Late
<1>4. i \in PagesUpTo(r, w)'
  BY <1>2 DEF Newest, PagesUpTo
<1>5. ASSUME NEW j \in PagesUpTo(r, w)', j \notin PagesUpTo(r, w) PROVE j \in Late(r)'
  <2>1. j \in Arrived(r)' /\ j \notin Arrived(r) /\ At(r, j).seq <= w
    BY <1>2, <1>5 DEF PagesUpTo
  <2>2. PICK k \in Arrived(r) : w <= At(r, k).seq
    OBVIOUS
  <2>3. j \in 1 .. Len(stream[r]) /\ k \in 1 .. j - 1
    BY <1>1, <2>1
  <2>4. At(r, j).seq \in Nat /\ At(r, k).seq \in Nat
    BY <2>3, StreamEvents, ArrivedEvents
  <2>5. At(r, k).seq >= At(r, j).seq
    BY <2>1, <2>2, <2>4
  <2> QED BY <1>2, <2>1, <2>3, <2>5 DEF Late
<1> QED BY <1>2, <1>3, <1>4, <1>5 DEF Newest

(* A sound patch stays sound while events arrive. *)
LEMMA SoundGrows ==
  ASSUME Typed, stream' = stream, NEW r \in Replicas,
         arrived'[r] \in Nat, arrived[r] <= arrived'[r], arrived'[r] <= Len(stream[r]),
         NEW w \in Nat, \E j \in Arrived(r) : w <= At(r, j).seq,
         NEW patch, Sound(r, w, patch)
  PROVE  Sound(r, w, patch)'
<1>1. CASE patch.base = 0
  BY <1>1 DEF Sound
<1>2. CASE Newest(r, w, patch.base) /\ At(r, patch.base).path = patch.proposal.path
  <2>1. PICK i : i = patch.base
    OBVIOUS
  <2>2. Newest(r, w, i)'
    BY <1>2, <2>1, NewestGrows
  <2> QED BY <1>2, <2>1, <2>2 DEF Sound, Newest, At
<1> QED BY <1>1, <1>2 DEF Sound

(* The archive that a step leaves alone leaves newest versions newest. *)
LEMMA NewestStill ==
  ASSUME UNCHANGED archiveVars, NEW r, NEW w
  PROVE  /\ \A i : Newest(r, w, i)' <=> Newest(r, w, i)
         /\ \A patch : Sound(r, w, patch)' <=> Sound(r, w, patch)
<1>1. \A i : Newest(r, w, i)' <=> Newest(r, w, i)
  BY DEF archiveVars, Newest, Late, PagesUpTo, Arrived, At
<1>2. \A i : At(r, i)' = At(r, i)
  BY DEF archiveVars, At
<1> QED BY <1>1, <1>2 DEF Sound, Newest, Late, PagesUpTo, Arrived, At

(* A step that leaves archive and manifests alone keeps Published. *)
LEMMA PublishedStill ==
  ASSUME Published, UNCHANGED <<archiveVars, manifests>>
  PROVE  Published'
<1>1. ASSUME NEW m \in manifests, NEW patch \in m.patches
      PROVE  Sound(m.request.replica, m.request.watermark, patch)'
  BY NewestStill DEF Published
<1> QED BY <1>1 DEF Published, Whole

(* The patches of an answer are whole groups, on versions that were shown. *)
LEMMA AnswerIsWhole ==
  ASSUME Typed, NEW answer \in SUBSET (SUBSET Proposal)
  PROVE  Whole(PatchesFor(answer))
<1> SUFFICES ASSUME NEW patch \in PatchesFor(answer), NEW p \in patch.group
             PROVE  \E other \in PatchesFor(answer) : other.proposal = p
  BY DEF Whole
<1>1. PICK g \in answer : \E d \in KeptOf(g) : patch = [proposal |-> d, base |-> BaseOf(d), group |-> g]
  BY DEF PatchesFor
<1>2. PICK d \in KeptOf(g) : patch = [proposal |-> d, base |-> BaseOf(d), group |-> g]
  BY <1>1
<1>3. p \in KeptOf(g)
  BY <1>2, KeptFacts
<1>4. [proposal |-> p, base |-> BaseOf(p), group |-> g] \in PatchesFor(answer)
  BY <1>3 DEF PatchesFor
<1> QED BY <1>4

(* The patches of an answer to newest pages are sound. *)
LEMMA AnswerIsSound ==
  ASSUME Typed, NEW answer \in SUBSET (SUBSET Proposal),
         \A i \in job.pages : Newest(Replica, job.watermark, i)
  PROVE  \A patch \in PatchesFor(answer) : Sound(Replica, job.watermark, patch)
<1> SUFFICES ASSUME NEW patch \in PatchesFor(answer) PROVE Sound(Replica, job.watermark, patch)
  OBVIOUS
<1>1. PICK g \in answer : \E d \in KeptOf(g) : patch = [proposal |-> d, base |-> BaseOf(d), group |-> g]
  BY DEF PatchesFor
<1>2. PICK d \in KeptOf(g) : patch = [proposal |-> d, base |-> BaseOf(d), group |-> g]
  BY <1>1
<1>3. BaseOf(d) = 0 \/ (BaseOf(d) \in job.pages /\ At(Replica, BaseOf(d)).path = d.path)
  BY BaseFacts
<1>4. patch.base = BaseOf(d) /\ patch.proposal = d
  BY <1>2
<1> QED BY <1>3, <1>4 DEF Sound

(* Patches holds initially. *)
LEMMA PatchesInit ==
  ASSUME Init
  PROVE  Patches
BY DEF Init, Patches, JobPatches, Published, Active, Idle

(* An event that arrives keeps Patches. *)
LEMMA PatchesArrive ==
  ASSUME Windows, Patches, NEW r \in Replicas, Arrive(r)
  PROVE  Patches'
<1>1. arrived' = [arrived EXCEPT ![r] = @ + 1]
      /\ UNCHANGED <<stream, manifests, records, job>>
  BY DEF Arrive
<1>2. Typed /\ RunsSane /\ Typed'
  BY TypedArrive DEF Windows
<1>3. \A q \in Replicas : /\ arrived[q] \in Nat /\ arrived'[q] \in Nat /\ arrived[q] <= arrived'[q]
                          /\ arrived'[q] <= Len(stream[q])
  <2>1. \A q \in Replicas : arrived'[q] \in 0 .. Len(stream[q]) /\ Len(stream[q]) \in Nat
    BY <1>1, <1>2, ArrivedEvents DEF Typed, TypeOK
  <2> QED BY <1>1, <1>2, <2>1 DEF Typed
<1>4. JobPatches'
  <2>1. Work' = Work /\ Replica' = Replica /\ (Active' <=> Active)
    BY <1>1 DEF Work, Replica, Active
  <2>2. CASE Active
    <3>1. PICK q : q = Replica
      OBVIOUS
    <3>2. PICK w : w = job.watermark
      OBVIOUS
    <3>3. q \in Replicas /\ w \in Nat
      BY <2>2, <3>1, <3>2, ActiveFacts
    <3>4. \E j \in Arrived(q) : w <= At(q, j).seq
      BY <2>2, <3>1, <3>2 DEF Windows, JobSane, Sane, RequestOf
    <3>5. \A i \in job.pages : Newest(q, w, i)'
      BY <1>1, <1>2, <1>3, <2>2, <3>1, <3>2, <3>3, <3>4, NewestGrows DEF Patches, JobPatches
    <3>6. \A patch \in job.patches : Sound(q, w, patch)'
      BY <1>1, <1>2, <1>3, <2>2, <3>1, <3>2, <3>3, <3>4, SoundGrows DEF Patches, JobPatches
    <3>7. (\A i \in job.pages : Newest(Replica, job.watermark, i))'
      BY <1>1, <2>1, <3>1, <3>2, <3>5 DEF Newest, Late, PagesUpTo, Arrived, At
    <3>8. (\A patch \in job.patches : Sound(Replica, job.watermark, patch))'
      BY <1>1, <2>1, <3>1, <3>2, <3>6 DEF Sound, Newest, Late, PagesUpTo, Arrived, At
    <3> QED BY <1>1, <2>2, <3>7, <3>8 DEF Patches, JobPatches, Active, Whole
  <2>3. CASE ~Active
    BY <1>1, <2>1, <2>3 DEF Patches, JobPatches
  <2> QED BY <2>2, <2>3
<1>5. Published'
  <2>1. ASSUME NEW m \in manifests, NEW patch \in m.patches
        PROVE  Sound(m.request.replica, m.request.watermark, patch)'
    <3>1. /\ m.request.replica \in Replicas /\ m.request.watermark \in Nat
          /\ \E j \in Arrived(m.request.replica) : m.request.watermark <= At(m.request.replica, j).seq
      BY <1>2, RunTypes DEF RunsSane, Sane
    <3> QED BY <1>1, <1>2, <1>3, <3>1, SoundGrows DEF Patches, Published
  <2> QED BY <1>1, <2>1 DEF Patches, Published, Whole
<1> QED BY <1>4, <1>5 DEF Patches

(* A read shows newest versions and has no patches yet. *)
LEMMA PatchesRead ==
  ASSUME Windows, Patches, ReadBatch
  PROVE  Patches'
<1>1. UNCHANGED <<archiveVars, manifests>> /\ job.pc = "read"
  BY ReadStep
<1>2. /\ job'.todo = job.todo /\ job'.patches = {} /\ job'.pc \in {"project", "ask"}
      /\ job'.pages \subseteq CurrentPages(Replica, job'.watermark)
  BY <1>1, ReadFacts DEF Patches, JobPatches
<1>3. PICK q, w : q = Replica /\ w = job'.watermark
  OBVIOUS
<1>4. Replica' = Replica
  BY <1>2 DEF Work, Replica
<1>5. \A i \in job'.pages : Newest(q, w, i)'
  BY <1>1, <1>2, <1>3, CurrentIsNewest, NewestStill
<1>6. (\A i \in job.pages : Newest(Replica, job.watermark, i))'
  BY <1>3, <1>4, <1>5 DEF Newest, Late, PagesUpTo, Arrived, At
<1>7. JobPatches'
  BY <1>2, <1>6 DEF JobPatches, Whole
<1> QED BY <1>1, <1>7, PublishedStill DEF Patches

(* Inside a run, what is shown and proposed stays on the newest versions.  *)
LEMMA PatchesInner ==
  ASSUME Windows, Patches, Inner,
         \A i \in job'.pages : Newest(Replica, job.watermark, i),
         \A patch \in job'.patches : Sound(Replica, job.watermark, patch),
         Whole(job'.patches)
  PROVE  Patches'
<1>1. UNCHANGED <<archiveVars, manifests>> /\ job'.todo = job.todo /\ job'.watermark = job.watermark
      /\ job'.pc \in {"embed", "select", "ask", "publish", "record"}
  BY DEF Inner
<1>2. Replica' = Replica
  BY <1>1 DEF Work, Replica
<1>3. PICK q, w : q = Replica /\ w = job.watermark
  OBVIOUS
<1>4. /\ \A i \in job'.pages : Newest(q, w, i)'
      /\ \A patch \in job'.patches : Sound(q, w, patch)'
  BY <1>1, <1>3, NewestStill
<1>5. (\A i \in job.pages : Newest(Replica, job.watermark, i))'
  BY <1>1, <1>2, <1>3, <1>4 DEF Newest, Late, PagesUpTo, Arrived, At
<1>6. (\A patch \in job.patches : Sound(Replica, job.watermark, patch))'
  BY <1>1, <1>2, <1>3, <1>4 DEF Sound, Newest, Late, PagesUpTo, Arrived, At
<1>7. JobPatches'
  BY <1>1, <1>5, <1>6 DEF JobPatches, Whole
<1> QED BY <1>1, <1>7, PublishedStill DEF Patches

(* Publication keeps Patches. *)
LEMMA PatchesPublish ==
  ASSUME Windows, Patches, Publish
  PROVE  Patches'
<1>1. /\ job.pc = "publish" /\ UNCHANGED archiveVars
      /\ manifests' = manifests \cup {RunOf} /\ job' = [job EXCEPT !.pc = "record"]
  BY PublishStep
<1>2. Active
  BY <1>1 DEF Active
<1>3. /\ job'.todo = job.todo /\ job'.watermark = job.watermark /\ job'.pages = job.pages
      /\ job'.patches = job.patches /\ job'.pc = "record"
  BY <1>1, <1>2, ActiveFacts DEF JobState
<1>4. /\ \A i \in job.pages : Newest(Replica, job.watermark, i)
      /\ \A patch \in job.patches : Sound(Replica, job.watermark, patch)
      /\ Whole(job.patches)
  BY <1>2 DEF Patches, JobPatches
<1>5. PICK q, w : q = Replica /\ w = job.watermark
  OBVIOUS
<1>6. /\ \A i \in job.pages : Newest(q, w, i)'
      /\ \A patch \in job.patches : Sound(q, w, patch)'
  BY <1>1, <1>4, <1>5, NewestStill
<1>7. Replica' = Replica
  BY <1>3 DEF Work, Replica
<1>8. JobPatches'
  BY <1>3, <1>4, <1>5, <1>6, <1>7 DEF JobPatches, Whole, Sound, Newest, Late, PagesUpTo, Arrived, At
<1>9. RunOf.patches = job.patches /\ RunOf.request.replica = q /\ RunOf.request.watermark = w
  BY <1>5 DEF RunOf, RequestOf
<1>10. PICK m : m = RunOf
  OBVIOUS
<1>11. \A patch \in m.patches : Sound(m.request.replica, m.request.watermark, patch)'
  BY <1>6, <1>9, <1>10
<1>12. \A x \in manifests : \A patch \in x.patches : Sound(x.request.replica, x.request.watermark, patch)'
  BY <1>1, NewestStill DEF Patches, Published
<1>13. \A x \in manifests' : /\ \A patch \in x.patches : Sound(x.request.replica, x.request.watermark, patch)'
                             /\ Whole(x.patches)
  BY <1>1, <1>4, <1>9, <1>10, <1>11, <1>12 DEF Patches, Published
<1>14. Published'
  BY <1>13 DEF Published, Whole
<1> QED BY <1>8, <1>14 DEF Patches

(* Every step keeps Patches. *)
LEMMA PatchesNext ==
  ASSUME Windows, Patches, [Next]_vars
  PROVE  Patches'
<1>1. ASSUME NEW r \in Replicas, Arrive(r) PROVE Patches'
  BY <1>1, PatchesArrive
<1>2. CASE Start
  BY <1>2, StartFacts, StartStep, PublishedStill DEF Patches, JobPatches, Active
<1>3. CASE ReadBatch
  BY <1>3, PatchesRead
<1>4. ASSUME Inner
      PROVE  /\ \A i \in job.pages : Newest(Replica, job.watermark, i)
             /\ \A patch \in job.patches : Sound(Replica, job.watermark, patch)
             /\ Whole(job.patches) /\ Typed
  BY <1>4 DEF Inner, Active, Patches, JobPatches, Windows
<1>5. CASE Project
  BY <1>4, <1>5, ProjectStep, PatchesInner
<1>6. CASE Embed
  BY <1>4, <1>6, EmbedStep, PatchesInner
<1>7. CASE Select
  BY <1>4, <1>7, SelectStep, CurrentIsNewest, PatchesInner
<1>8. CASE Ask
  <2>1. Inner /\ job'.pages = job.pages
    BY <1>8, AskStep
  <2>2. PICK answer \in SUBSET (SUBSET Proposal) : job'.patches = PatchesFor(answer)
    BY <1>8, AskStep
  <2>3. Whole(PatchesFor(answer)) /\ \A patch \in PatchesFor(answer) : Sound(Replica, job.watermark, patch)
    BY <1>4, <2>1, AnswerIsWhole, AnswerIsSound
  <2>4. Whole(job'.patches)
    BY <2>2, <2>3 DEF Whole
  <2> QED BY <1>4, <2>1, <2>2, <2>3, <2>4, PatchesInner
<1>9. CASE Publish
  BY <1>9, PatchesPublish
<1>10. CASE Record
  <2>1. UNCHANGED <<archiveVars, manifests>> /\ job.pc = "record" /\ job' = NextWork
    BY <1>10, RecordStep
  <2>2. job'.pc \in {"idle", "read"} /\ job'.patches = {}
    BY <2>1, NextWorkFacts
  <2> QED BY <2>1, <2>2, PublishedStill DEF Patches, JobPatches, Active
<1>11. CASE ProjectRaises \/ EmbedFails \/ Deadline \/ FailRun
  <2>1. Reset
    BY <1>11, ResetStep
  <2> QED BY <2>1, PublishedStill DEF Reset, Patches, JobPatches, Active, Idle
<1>12. CASE UNCHANGED vars
  <2>1. UNCHANGED <<archiveVars, manifests, job>>
    BY <1>12 DEF vars
  <2>2. PICK q, w : q = Replica /\ w = job.watermark
    OBVIOUS
  <2>3. /\ \A i : Newest(q, w, i)' <=> Newest(q, w, i)
        /\ \A patch : Sound(q, w, patch)' <=> Sound(q, w, patch)
    BY <2>1, NewestStill
  <2>4. Replica' = Replica
    BY <2>1 DEF Work, Replica
  <2>5. Active => (\A i \in job.pages : Newest(Replica, job.watermark, i))'
    BY <2>1, <2>2, <2>3, <2>4 DEF Patches, JobPatches, Newest, Late, PagesUpTo, Arrived, At
  <2>6. Active => (\A patch \in job.patches : Sound(Replica, job.watermark, patch))'
    BY <2>1, <2>2, <2>3, <2>4 DEF Patches, JobPatches, Sound, Newest, Late, PagesUpTo, Arrived, At
  <2>7. JobPatches'
    BY <2>1, <2>5, <2>6 DEF Patches, JobPatches, Active, Whole
  <2> QED BY <2>1, <2>7, PublishedStill DEF Patches
<1> QED BY <1>1, <1>2, <1>3, <1>5, <1>6, <1>7, <1>8, <1>9, <1>10, <1>11, <1>12 DEF Next, JobStep

(* Windows and Patches always hold. *)
LEMMA PatchesInvariant == Spec => [](Windows /\ Patches)
<1>1. Init => Windows /\ Patches
  BY WindowsInit, PatchesInit
<1>2. Windows /\ Patches /\ [Next]_vars => (Windows /\ Patches)'
  BY WindowsNext, PatchesNext
<1> QED BY <1>1, <1>2, PTL DEF Spec

(* No manifest has a part of a group, so a merge the model proposed is     *)
(* published with all its steps or not at all (drop_invalid_groups).       *)
THEOREM PublishedGroupsWhole == Spec => []GroupsWhole
<1>1. Patches => GroupsWhole
  BY DEF Patches, Published, Whole, GroupsWhole
<1> QED BY <1>1, PatchesInvariant, PTL

(* Every patch is based on the version that its page had at the manifest's *)
(* watermark, whatever has arrived since and however old the document was  *)
(* through which search found the page (build_patches, current_pages).     *)
THEOREM PublishedBasesAtWatermark == Spec => []BasesAtWatermark
<1>1. Windows /\ Patches => BasesAtWatermark
  <2> SUFFICES ASSUME Windows, Patches, NEW m \in manifests, NEW patch \in m.patches, patch.base # 0,
                      ~\E i \in Late(m.request.replica) :
                         At(m.request.replica, i).path = patch.proposal.path
               PROVE  PagesAt(m.request.replica, m.request.watermark, {patch.proposal.path}) = {patch.base}
    BY DEF BasesAtWatermark
  <2> DEFINE r == m.request.replica
             w == m.request.watermark
             b == patch.base
             P == PagesUpTo(r, w)
             above(j, i) == At(r, j).path = At(r, i).path =>
                              At(r, j).seq < At(r, i).seq \/ (At(r, j).seq = At(r, i).seq /\ j <= i)
  <2>1. /\ At(r, b).path = patch.proposal.path /\ b \in P
        /\ \A j \in P : above(j, b)
    BY DEF Patches, Published, Sound, Newest
  <2>2. Typed /\ r \in Replicas
    BY RunTypes DEF Windows
  <2>3. \A j \in P : j \in Nat /\ At(r, j).seq \in Nat
    <3>1. P \subseteq Arrived(r)
      BY DEF PagesUpTo
    <3> QED BY <2>2, <3>1, ArrivedEvents DEF Places
  <2>4. PagesAt(r, w, {patch.proposal.path}) =
          {i \in P : (\A j \in P : above(j, i)) /\ At(r, i).path = patch.proposal.path}
    BY DEF PagesAt, CurrentPages, NewestOf
  <2>5. ASSUME NEW i \in P, above(b, i), At(r, i).path = patch.proposal.path PROVE i = b
    BY <2>1, <2>3, <2>5
  <2> HIDE DEF P, above
  <2>6. {i \in P : (\A j \in P : above(j, i)) /\ At(r, i).path = patch.proposal.path} = {b}
    BY <2>1, <2>5
  <2>7. PagesAt(r, w, {patch.proposal.path}) = {b}
    BY <2>4, <2>6
  <2> QED BY <2>7
<1> QED BY <1>1, PatchesInvariant, PTL

=============================================================================
