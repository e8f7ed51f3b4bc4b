---------------------------- MODULE SearchProofs ----------------------------
(***************************************************************************)
(* Proofs about the search index of SessionStore, under the imports of     *)
(* SessionImport, for every set of sessions, texts and byte ceilings: what *)
(* is indexed is the whole text, what a session shows can be found, and no *)
(* repair inserts a chunk twice.                                           *)
(*                                                                         *)
(* Chunks is defined by recursion over the text.  That the recursion has a *)
(* solution (CutsExist) and what the solution covers (CutsCover) are shown *)
(* without induction: by the smallest set that is closed under taking the  *)
(* end of a piece, and by the largest place where the claim would fail.    *)
(*                                                                         *)
(* The properties are about the events a session shows.  SearchInv is      *)
(* about every version in the database: it has all the pieces of its text  *)
(* or none, and none only if a backup holds it and was restored.           *)
(***************************************************************************)
EXTENDS SessionImportProofs, Ranks
-----------------------------------------------------------------------------
(* CHUNKS OF A TEXT *)

(* A longer piece has no fewer bytes. *)
LEMMA BytesGrow ==
  ASSUME NEW t \in Seq(Characters), NEW i \in 0 .. Len(t), NEW j \in 0 .. Len(t), NEW k \in 0 .. Len(t),
         j <= k
  PROVE  Bytes(t, i, j) <= Bytes(t, i, k) /\ Bytes(t, i, j) \in Nat /\ Bytes(t, i, k) \in Nat
<1> DEFINE places(m) == UNION {{n} \X (1 .. Width(t[n])) : n \in i + 1 .. m}
<1>1. ASSUME NEW m \in 0 .. Len(t)
      PROVE  IsFiniteSet(places(m)) /\ Cardinality(places(m)) \in Nat
  <2>1. \A n \in i + 1 .. m : t[n] \in Characters
    BY DEF Characters
  <2>2. \A n \in i + 1 .. m : Width(t[n]) \in 1 .. 4
    BY <2>1 DEF Characters, Width, Newline
  <2>3. places(m) \subseteq (i + 1 .. m) \X (1 .. 4)
    BY <2>2
  <2>4. IsFiniteSet((i + 1 .. m) \X (1 .. 4))
    <3>1. PICK a \in Int : a = i + 1
      OBVIOUS
    <3>2. m \in Int /\ 1 \in Int /\ 4 \in Int
      OBVIOUS
    <3>3. IsFiniteSet(a .. m)
      BY <3>2, FS_Interval
    <3>4. IsFiniteSet(1 .. 4)
      BY <3>2, FS_Interval
    <3> QED BY <3>1, <3>3, <3>4, FS_Product
  <2> QED BY <2>3, <2>4, FS_Subset, FS_CardinalityType
<1>2. i + 1 .. j \subseteq i + 1 .. k
  OBVIOUS
<1>3. places(j) \subseteq places(k)
  BY <1>2
<1>4. Cardinality(places(j)) <= Cardinality(places(k))
  <2> HIDE DEF places
  <2> QED BY <1>1, <1>3, FS_Subset
<1> QED BY <1>1, <1>4 DEF Bytes

(* The binary search ends within the text and under the ceiling, or after  *)
(* one character.                                                          *)
LEMMA LongestFacts ==
  ASSUME NEW t \in Seq(Characters), NEW i \in 0 .. Len(t), i < Len(t)
  PROVE  /\ Longest(t, i) \in i + 1 .. Len(t)
         /\ Longest(t, i) > i + 1 => Bytes(t, i, Longest(t, i)) <= ChunkBytes
<1> DEFINE S == {e \in i + 1 .. Smaller(i + ChunkBytes, Len(t)) : Bytes(t, i, e) <= ChunkBytes}
           T == {i + 1} \cup S
<1>1. Len(t) \in Nat /\ ChunkBytes \in Nat
  BY ChunkAssumption
<1>2. S \subseteq i + 1 .. Len(t)
  BY <1>1 DEF Smaller
<1>3. T \subseteq i + 1 .. Len(t) /\ i + 1 \in T
  BY <1>1, <1>2
<1>4. \A e \in T : e = i + 1 \/ Bytes(t, i, e) <= ChunkBytes
  OBVIOUS
<1>5. Longest(t, i) = Max(T)
  BY DEF Longest
<1> HIDE DEF T
<1>6. T \in SUBSET Nat /\ T # {} /\ \A e \in T : e <= Len(t)
  BY <1>1, <1>3
<1>7. PICK e \in T : e = Longest(t, i)
  BY <1>1, <1>5, <1>6, MaxOfNaturals
<1>8. e \in i + 1 .. Len(t) /\ (e = i + 1 \/ Bytes(t, i, e) <= ChunkBytes)
  BY <1>3, <1>4
<1>9. e > i + 1 => Bytes(t, i, e) <= ChunkBytes
  BY <1>8
<1> QED BY <1>7, <1>8, <1>9

(* So does a chunk. *)
LEMMA EndFacts ==
  ASSUME NEW t \in Seq(Characters), NEW i \in 0 .. Len(t), i < Len(t)
  PROVE  /\ ChunkEnd(t, i) \in i + 1 .. Len(t)
         /\ ChunkEnd(t, i) > i + 1 => Bytes(t, i, ChunkEnd(t, i)) <= ChunkBytes
<1> DEFINE end == Longest(t, i)
           S == BlankLines(t, i, end) \cup {i}
           last == Max(S)
<1>1. Len(t) \in Nat /\ ChunkBytes \in Nat
  BY ChunkAssumption
<1>2. end \in i + 1 .. Len(t) /\ (end > i + 1 => Bytes(t, i, end) <= ChunkBytes)
  BY LongestFacts
<1> HIDE DEF end
<1>3. S \subseteq i .. Len(t) /\ i \in S /\ \A e \in S : e = i \/ e \in i .. end - 2
  BY <1>1, <1>2 DEF BlankLines
<1> HIDE DEF S
<1>4. S \in SUBSET Nat /\ S # {} /\ \A e \in S : e <= Len(t)
  BY <1>1, <1>3
<1>5. last \in S
  BY <1>1, <1>4, MaxOfNaturals
<1>6. ChunkEnd(t, i) = IF end < Len(t) /\ last > i THEN last + 2 ELSE end
  BY DEF ChunkEnd, end, S
<1> HIDE DEF last
<1>7. CASE end < Len(t) /\ last > i
  <2>1. last \in i .. end - 2 /\ ChunkEnd(t, i) = last + 2
    BY <1>1, <1>3, <1>5, <1>6, <1>7
  <2>2. last + 2 \in i + 1 .. Len(t) /\ last + 2 <= end /\ end > i + 1
    BY <1>1, <1>2, <1>7, <2>1
  <2>3. Bytes(t, i, last + 2) <= Bytes(t, i, end) /\ Bytes(t, i, last + 2) \in Nat /\ Bytes(t, i, end) \in Nat
    <3>1. last + 2 \in 0 .. Len(t) /\ end \in 0 .. Len(t)
      BY <1>1, <1>2, <2>2
    <3> QED BY <2>2, <3>1, BytesGrow
  <2>4. Bytes(t, i, last + 2) <= ChunkBytes
    BY <1>1, <1>2, <2>2, <2>3
  <2> QED BY <2>1, <2>2, <2>4
<1>8. CASE ~ (end < Len(t) /\ last > i)
  BY <1>2, <1>6, <1>8
<1> QED BY <1>7, <1>8

(* The pieces of a text of n characters, if a piece from i ends at E[i].   *)
Cuts(f, E, n) == f = [i \in 0 .. n |-> IF i = n THEN {} ELSE {<<i, E[i]>>} \cup f[E[i]]]

(* There are such pieces: those that start where a piece before ended.     *)
LEMMA CutsExist ==
  ASSUME NEW n \in Nat, NEW E \in [0 .. n - 1 -> 0 .. n]
  PROVE  \E f : Cuts(f, E, n)
<1> DEFINE Closed(S) == \A i \in S : i # n => E[i] \in S
           after(i) == {j \in 0 .. n : \A S \in SUBSET (0 .. n) : i \in S /\ Closed(S) => j \in S}
           f == [i \in 0 .. n |-> {<<j, E[j]>> : j \in after(i) \ {n}}]
<1>1. ASSUME NEW i \in 0 .. n PROVE i \in after(i) /\ after(i) \in SUBSET (0 .. n)
  OBVIOUS
<1>2. ASSUME NEW i \in 0 .. n PROVE Closed(after(i))
  <2> SUFFICES ASSUME NEW j \in after(i), j # n PROVE E[j] \in after(i)
    OBVIOUS
  <2>1. E[j] \in 0 .. n
    OBVIOUS
  <2>2. ASSUME NEW S \in SUBSET (0 .. n), i \in S, Closed(S) PROVE E[j] \in S
    <3>1. j \in S
      BY <2>2
    <3> QED BY <2>2, <3>1
  <2> QED BY <2>1, <2>2
<1>3. after(n) = {n}
  <2>1. Closed({n}) /\ n \in {n} /\ {n} \in SUBSET (0 .. n)
    OBVIOUS
  <2> QED BY <1>1, <2>1
<1>4. ASSUME NEW i \in 0 .. n - 1 PROVE after(i) = {i} \cup after(E[i])
  <2>1. i \in 0 .. n /\ E[i] \in 0 .. n /\ i # n
    OBVIOUS
  <2>2. after(E[i]) \subseteq after(i)
    <3> SUFFICES ASSUME NEW j \in after(E[i]), NEW S \in SUBSET (0 .. n), i \in S, Closed(S)
                 PROVE  j \in S
      OBVIOUS
    <3>1. E[i] \in S
      BY <2>1
    <3> QED BY <3>1
  <2>3. Closed(after(E[i])) /\ E[i] \in after(E[i]) /\ after(E[i]) \in SUBSET (0 .. n)
    BY <1>1, <1>2, <2>1
  <2>4. i \in after(i)
    BY <1>1, <2>1
  <2> DEFINE T == {i} \cup after(E[i])
  <2>5. Closed(T) /\ i \in T /\ T \in SUBSET (0 .. n)
    <3> HIDE DEF after
    <3> QED BY <2>1, <2>3
  <2>6. after(i) \subseteq T
    <3> HIDE DEF T, Closed
    <3> QED BY <2>5
  <2> HIDE DEF after
  <2> QED BY <2>2, <2>4, <2>6
<1>5. ASSUME NEW i \in 0 .. n
      PROVE  f[i] = IF i = n THEN {} ELSE {<<i, E[i]>>} \cup f[E[i]]
  <2> HIDE DEF after
  <2>1. CASE i = n
    BY <1>3, <2>1
  <2>2. CASE i # n
    <3>1. i \in 0 .. n - 1 /\ E[i] \in 0 .. n
      BY <2>2
    <3>2. f[i] = {<<j, E[j]>> : j \in after(i) \ {n}} /\ f[E[i]] = {<<j, E[j]>> : j \in after(E[i]) \ {n}}
      BY <3>1
    <3>3. after(i) \ {n} = {i} \cup (after(E[i]) \ {n})
      BY <1>4, <2>2, <3>1
    <3> HIDE DEF f
    <3> QED BY <2>2, <3>2, <3>3
  <2> QED BY <2>1, <2>2
<1> HIDE DEF after
<1>6. f = [i \in 0 .. n |-> f[i]]
  OBVIOUS
<1> HIDE DEF f
<1> QED BY <1>5, <1>6 DEF Cuts

(* And the pieces of the text from i cover it from i on, each once.        *)
LEMMA CutsCover ==
  ASSUME NEW n \in Nat, NEW E \in [0 .. n - 1 -> 0 .. n], \A i \in 0 .. n - 1 : E[i] > i,
         NEW f, Cuts(f, E, n), NEW i \in 0 .. n
  PROVE  /\ \A p \in f[i] : \E j \in i .. n - 1 : p = <<j, E[j]>>
         /\ \A m \in i .. n - 1 : \E p \in f[i] :
              /\ p[1] <= m /\ m < p[2]
              /\ \A q \in f[i] : q[1] <= m /\ m < q[2] => q = p
<1> DEFINE Good(k) == /\ \A p \in f[k] : \E j \in k .. n - 1 : p = <<j, E[j]>>
                      /\ \A m \in k .. n - 1 : \E p \in f[k] :
                           /\ p[1] <= m /\ m < p[2]
                           /\ \A q \in f[k] : q[1] <= m /\ m < q[2] => q = p
           bad == {k \in 0 .. n : ~ Good(k)}
<1>1. f[n] = {}
  BY DEF Cuts
<1>2. ASSUME NEW k \in 0 .. n - 1
      PROVE  E[k] \in k + 1 .. n /\ f[k] = {<<k, E[k]>>} \cup f[E[k]]
  BY DEF Cuts
<1>3. ASSUME NEW k \in 0 .. n - 1, Good(E[k]) PROVE Good(k)
  <2>1. PICK e \in k + 1 .. n : e = E[k]
    BY <1>2
  <2>2. f[k] = {<<k, e>>} \cup f[e] /\ Good(e)
    BY <1>2, <1>3, <2>1
  <2>3. \A p \in f[e] : \E j \in e .. n - 1 : p = <<j, E[j]>>
    BY <2>2
  <2>4. \A p \in f[e] : p[1] >= e
    BY <2>1, <2>3
  <2>5. ASSUME NEW p \in f[k] PROVE \E j \in k .. n - 1 : p = <<j, E[j]>>
    <3>1. CASE p = <<k, e>>
      BY <2>1, <3>1
    <3>2. CASE p \in f[e]
      <4>1. PICK j \in e .. n - 1 : p = <<j, E[j]>>
        BY <2>3, <3>2
      <4>2. j \in k .. n - 1
        BY <2>1
      <4> QED BY <4>1, <4>2
    <3> QED BY <2>2, <3>1, <3>2
  <2>6. ASSUME NEW m \in k .. n - 1
        PROVE  \E p \in f[k] : /\ p[1] <= m /\ m < p[2]
                               /\ \A q \in f[k] : q[1] <= m /\ m < q[2] => q = p
    <3>1. CASE m < e
      <4>1. PICK p : p = <<k, e>>
        OBVIOUS
      <4>2. p \in f[k] /\ p[1] <= m /\ m < p[2]
        BY <2>2, <3>1, <4>1
      <4>3. ASSUME NEW q \in f[k], q[1] <= m, q # p PROVE FALSE
        <5>1. q \in f[e]
          BY <2>2, <4>1, <4>3
        <5>2. PICK j \in e .. n - 1 : q = <<j, E[j]>>
          BY <2>3, <5>1
        <5>3. q[1] = j /\ j \in Int /\ m \in Int /\ e \in Int /\ e <= j
          BY <5>2
        <5> QED BY <3>1, <4>3, <5>3
      <4> QED BY <4>2, <4>3
    <3>2. CASE ~ (m < e)
      <4>1. m \in e .. n - 1
        BY <2>1, <3>2
      <4>2. PICK p \in f[e] : /\ p[1] <= m /\ m < p[2]
                             /\ \A q \in f[e] : q[1] <= m /\ m < q[2] => q = p
        BY <2>2, <4>1
      <4>3. ASSUME NEW q \in f[k], m < q[2] PROVE q \in f[e]
        <5>1. q # <<k, e>>
          BY <3>2, <4>3
        <5> QED BY <2>2, <5>1
      <4> HIDE DEF Good
      <4> QED BY <2>2, <4>2, <4>3
    <3> QED BY <3>1, <3>2
  <2> QED BY <2>5, <2>6
<1>4. bad = {}
  <2> SUFFICES ASSUME bad # {} PROVE FALSE
    OBVIOUS
  <2>1. Good(n)
    BY <1>1
  <2> HIDE DEF Good
  <2>2. bad \in SUBSET Nat /\ \A k \in bad : k <= n
    OBVIOUS
  <2>3. PICK k \in bad : \A j \in bad : j <= k
    <3> HIDE DEF bad
    <3>1. Max(bad) \in bad /\ \A j \in bad : j <= Max(bad)
      BY <2>2, MaxOfNaturals
    <3> QED BY <3>1
  <2>4. k \in 0 .. n - 1
    BY <2>1
  <2>5. E[k] \in k + 1 .. n /\ E[k] \notin bad
    BY <1>2, <2>3, <2>4
  <2>6. Good(E[k])
    BY <2>4, <2>5
  <2> QED BY <1>3, <2>3, <2>4, <2>6
<1> HIDE DEF Good
<1>5. Good(i)
  BY <1>4
<1> QED BY <1>5 DEF Good

(* A text is cut into pieces that do not overlap, leave nothing out and    *)
(* keep to the ceiling; an empty text has a piece too.                     *)
LEMMA ChunksFacts ==
  ASSUME NEW t \in Seq(Characters)
  PROVE  /\ Chunks(t) # {}
         /\ \A p \in Chunks(t) : p \in Nat \X Nat
         /\ \A m \in 0 .. Len(t) - 1 : \E p \in Chunks(t) :
              /\ p[1] <= m /\ m < p[2]
              /\ \A q \in Chunks(t) : q[1] <= m /\ m < q[2] => q = p
         /\ \A p \in Chunks(t) : p[2] > p[1] + 1 => Bytes(t, p[1], p[2]) <= ChunkBytes
<1>1. CASE t = <<>>
  <2>1. Chunks(t) = {<<0, 0>>} /\ Len(t) = 0
    BY <1>1 DEF Chunks
  <2> QED BY <2>1
<1>2. CASE t # <<>>
  <2>1. PICK n \in Nat \ {0} : n = Len(t)
    BY <1>2, EmptySeq
  <2> DEFINE E == [i \in 0 .. n - 1 |-> ChunkEnd(t, i)]
             from == CHOOSE f : f = [i \in 0 .. n |-> IF i = n THEN {}
                                                      ELSE {<<i, ChunkEnd(t, i)>>} \cup f[ChunkEnd(t, i)]]
  <2>2. Chunks(t) = from[0]
    BY <1>2, <2>1 DEF Chunks
  <2>3. ASSUME NEW i \in 0 .. n - 1
        PROVE  /\ E[i] = ChunkEnd(t, i) /\ E[i] \in i + 1 .. n
               /\ E[i] > i + 1 => Bytes(t, i, E[i]) <= ChunkBytes
    BY <2>1, EndFacts
  <2>4. E \in [0 .. n - 1 -> 0 .. n] /\ \A i \in 0 .. n - 1 : E[i] > i
    <3> HIDE DEF E
    <3>1. \A i \in 0 .. n - 1 : E[i] \in 0 .. n /\ E[i] > i
      BY <2>3
    <3> QED BY <3>1 DEF E
  <2>5. \A f : Cuts(f, E, n) <=>
                f = [i \in 0 .. n |-> IF i = n THEN {}
                                      ELSE {<<i, ChunkEnd(t, i)>>} \cup f[ChunkEnd(t, i)]]
    <3> SUFFICES ASSUME NEW f
                 PROVE  [i \in 0 .. n |-> IF i = n THEN {} ELSE {<<i, E[i]>>} \cup f[E[i]]]
                         = [i \in 0 .. n |-> IF i = n THEN {}
                                             ELSE {<<i, ChunkEnd(t, i)>>} \cup f[ChunkEnd(t, i)]]
      BY DEF Cuts
    <3> DEFINE left(i)  == IF i = n THEN {} ELSE {<<i, E[i]>>} \cup f[E[i]]
               right(i) == IF i = n THEN {} ELSE {<<i, ChunkEnd(t, i)>>} \cup f[ChunkEnd(t, i)]
    <3> HIDE DEF E
    <3>1. ASSUME NEW i \in 0 .. n PROVE left(i) = right(i)
      <4>1. CASE i = n
        BY <4>1
      <4>2. CASE i # n
        <5>1. i \in 0 .. n - 1
          BY <4>2
        <5>2. E[i] = ChunkEnd(t, i)
          BY <2>3, <5>1
        <5> QED BY <5>2
      <4> QED BY <4>1, <4>2
    <3> HIDE DEF left, right
    <3>2. [i \in 0 .. n |-> left(i)] = [i \in 0 .. n |-> right(i)]
      BY <3>1
    <3> QED BY <3>2 DEF left, right
  <2>6. Cuts(from, E, n)
    <3>1. \E f : Cuts(f, E, n)
      <4> HIDE DEF E
      <4> QED BY <2>4, CutsExist
    <3> HIDE DEF E
    <3> QED BY <2>5, <3>1
  <2> HIDE DEF E, from
  <2>7. 0 \in 0 .. n /\ 0 \in 0 .. n - 1
    BY <2>1
  <2>8. PICK S : S = from[0]
    OBVIOUS
  <2>9. /\ \A p \in S : \E j \in 0 .. n - 1 : p = <<j, E[j]>>
        /\ \A m \in 0 .. n - 1 : \E p \in S :
             /\ p[1] <= m /\ m < p[2]
             /\ \A q \in S : q[1] <= m /\ m < q[2] => q = p
    BY <2>4, <2>6, <2>7, <2>8, CutsCover
  <2>10. S # {}
    BY <2>7, <2>9
  <2>11. ASSUME NEW p \in S
         PROVE  p \in Nat \X Nat /\ (p[2] > p[1] + 1 => Bytes(t, p[1], p[2]) <= ChunkBytes)
    <3>1. PICK j \in 0 .. n - 1 : p = <<j, E[j]>>
      BY <2>9
    <3> QED BY <2>3, <3>1
  <2> QED BY <2>1, <2>2, <2>8, <2>9, <2>10, <2>11
<1> QED BY <1>1, <1>2
-----------------------------------------------------------------------------
(* THE INDEX *)

Pieces(d, v) == {p \in Nat \X Nat : <<v, p>> \in d.chunks}

(* A version has all the pieces of its text or none. *)
Indexed(d) ==
  /\ d.chunks \subseteq VersionIds \X (Nat \X Nat)
  /\ \A v \in VersionIds :
       Pieces(d, v) # {} => Has(d, v) /\ Pieces(d, v) = Chunks(TextOf(d, v))

(* Only what a backup holds, and was restored, has none. *)
SearchInv ==
  /\ Indexed(db) /\ backup.chunks = {}
  /\ restores \in Nat
  /\ \A v \in VersionIds : Has(db, v) /\ Pieces(db, v) = {} => restores > 0 /\ Has(backup, v)
  /\ ~repairError

LEMMA ChunkedFacts ==
  ASSUME NEW d, Indexed(d)
  PROVE  \A v : v \in Chunked(d) <=> v \in VersionIds /\ Pieces(d, v) # {}
<1>1. ASSUME NEW v \in Chunked(d) PROVE v \in VersionIds /\ Pieces(d, v) # {}
  <2>1. PICK c \in d.chunks : v = c[1]
    BY DEF Chunked
  <2>2. PICK u \in VersionIds, p \in Nat \X Nat : c = <<u, p>>
    BY DEF Indexed
  <2>3. v \in VersionIds /\ p \in Pieces(d, v)
    BY <2>1, <2>2 DEF Pieces
  <2> QED BY <2>3
<1>2. ASSUME NEW v \in VersionIds, Pieces(d, v) # {} PROVE v \in Chunked(d)
  <2>1. PICK p \in Nat \X Nat : <<v, p>> \in d.chunks
    BY <1>2 DEF Pieces
  <2>2. <<v, p>>[1] = v
    OBVIOUS
  <2> QED BY <2>1, <2>2 DEF Chunked
<1> QED BY <1>1, <1>2

LEMMA VisibleFacts ==
  ASSUME NEW d, Shaped(d), Says(d)
  PROVE  \A v \in Visible(d) : v \in VersionIds /\ Has(d, v)
<1> SUFFICES ASSUME NEW v \in Visible(d) PROVE v \in VersionIds /\ Has(d, v)
  OBVIOUS
<1>0. PICK s \in Sessions : \E e \in d.active[s] : v = <<s, e, Len(d.versions[s][e])>>
  BY DEF Visible, CurrentId
<1>1. PICK e \in d.active[s] : v = <<s, e, Len(d.versions[s][e])>>
  BY <1>0
<1>2. d.active[s] \in SUBSET Events /\ e \in Events /\ d.versions[s][e] \in Seq(Contents)
  BY DEF Shaped
<1>3. d.versions[s][e] # <<>>
  BY DEF Says
<1>4. Len(d.versions[s][e]) \in Nat /\ Len(d.versions[s][e]) # 0
  BY <1>2, <1>3, EmptySeq
<1> QED BY <1>1, <1>2, <1>4 DEF VersionIds, Has

(* The texts that are cut are texts. *)
LEMMA TextFacts ==
  ASSUME NEW d, Shaped(d), NEW v \in VersionIds, Has(d, v)
  PROVE  TextOf(d, v) \in Contents
<1>1. PICK s \in Sessions, e \in Events, n \in Nat : v = <<s, e, n>>
  BY DEF VersionIds
<1>2. d.versions[s][e] \in Seq(Contents) /\ n \in 1 .. Len(d.versions[s][e])
  BY <1>1 DEF Shaped, Has
<1>3. d.versions[s][e][n] \in Contents
  BY <1>2, ElementOfSeq
<1> QED BY <1>1, <1>3 DEF TextOf

(* Chunks of whole texts are added for versions that had none. *)
LEMMA IndexGrows ==
  ASSUME NEW d, Indexed(d), NEW x, Shaped(x), NEW new \in SUBSET VersionIds,
         x.chunks = d.chunks \cup ChunksOf(x, new),
         \A v \in new : Has(x, v) /\ Pieces(d, v) = {},
         \A v \in VersionIds : Has(d, v) => Has(x, v) /\ TextOf(x, v) = TextOf(d, v)
  PROVE  /\ Indexed(x)
         /\ \A v \in VersionIds : Pieces(x, v) = {} => v \notin new /\ Pieces(d, v) = {}
<1>1. ASSUME NEW v \in new
      PROVE  /\ TextOf(x, v) \in Contents /\ TextChunks[TextOf(x, v)] = Chunks(TextOf(x, v))
             /\ Chunks(TextOf(x, v)) # {} /\ Chunks(TextOf(x, v)) \subseteq Nat \X Nat
  <2>1. v \in VersionIds /\ Has(x, v)
    OBVIOUS
  <2>2. PICK t \in Contents : t = TextOf(x, v)
    BY <2>1, TextFacts
  <2>3. t \in Seq(Characters)
    BY SourceAssumption
  <2>4. TextChunks[t] = Chunks(t)
    BY DEF TextChunks
  <2>5. Chunks(t) # {} /\ \A p \in Chunks(t) : p \in Nat \X Nat
    BY <2>3, ChunksFacts
  <2> QED BY <2>2, <2>4, <2>5
<1>2. \A c : c \in ChunksOf(x, new) <=> \E v \in new : \E p \in Chunks(TextOf(x, v)) : c = <<v, p>>
  BY <1>1 DEF ChunksOf
<1>3. x.chunks \subseteq VersionIds \X (Nat \X Nat)
  BY <1>1, <1>2 DEF Indexed
<1>4. ASSUME NEW v \in new PROVE Pieces(x, v) = Chunks(TextOf(x, v))
  <2>1. \A p \in Nat \X Nat : <<v, p>> \in d.chunks => p \in Pieces(d, v)
    BY DEF Pieces
  <2>2. \A p \in Nat \X Nat : <<v, p>> \notin d.chunks
    BY <2>1
  <2>3. \A p \in Nat \X Nat : <<v, p>> \in x.chunks <=> p \in Chunks(TextOf(x, v))
    BY <1>2, <2>2
  <2> QED BY <1>1, <2>3 DEF Pieces
<1>5. ASSUME NEW v \in VersionIds, v \notin new PROVE Pieces(x, v) = Pieces(d, v)
  <2>1. \A p \in Nat \X Nat : <<v, p>> \in x.chunks <=> <<v, p>> \in d.chunks
    BY <1>2, <1>5
  <2> QED BY <2>1 DEF Pieces
<1>6. ASSUME NEW v \in VersionIds, Pieces(x, v) # {}
      PROVE  Has(x, v) /\ Pieces(x, v) = Chunks(TextOf(x, v))
  <2>1. CASE v \in new
    BY <1>4, <2>1
  <2>2. CASE v \notin new
    <3>1. Pieces(x, v) = Pieces(d, v) /\ Has(d, v) /\ Pieces(d, v) = Chunks(TextOf(d, v))
      BY <1>5, <1>6, <2>2 DEF Indexed
    <3> QED BY <3>1
  <2> QED BY <2>1, <2>2
<1>7. \A v \in VersionIds : Pieces(x, v) = {} => v \notin new /\ Pieces(d, v) = {}
  BY <1>1, <1>4, <1>5
<1> QED BY <1>3, <1>6, <1>7 DEF Indexed

LEMMA SearchGrows ==
  ASSUME SearchInv, NEW x, Shaped(x), NEW new \in SUBSET VersionIds,
         db' = x, UNCHANGED <<backup, restores, repairError>>,
         x.chunks = db.chunks \cup ChunksOf(x, new),
         \A v \in new : Has(x, v) /\ Pieces(db, v) = {},
         \A v \in VersionIds : Has(db, v) => Has(x, v) /\ TextOf(x, v) = TextOf(db, v),
         \A v \in VersionIds : Has(x, v) => Has(db, v) \/ v \in new
  PROVE  SearchInv'
<1>1. Indexed(db)
  BY DEF SearchInv
<1>2. /\ Indexed(x)
      /\ \A v \in VersionIds : Pieces(x, v) = {} => v \notin new /\ Pieces(db, v) = {}
  BY <1>1, IndexGrows
<1>3. ASSUME NEW v \in VersionIds, Has(x, v), Pieces(x, v) = {}
      PROVE  restores > 0 /\ Has(backup, v)
  BY <1>2, <1>3 DEF SearchInv
<1>4. Indexed(db)' /\ \A v \in VersionIds : Has(db, v)' /\ Pieces(db, v)' = {}
                                           => restores' > 0 /\ Has(backup, v)'
  BY <1>2, <1>3
<1> QED BY <1>4 DEF SearchInv

(* An ingest adds the versions it chunks and no other. *)
LEMMA IngestIndexed ==
  ASSUME NEW d, Shaped(d), NEW s \in Sessions, NEW r \in Revisions(s), d.revision[s] # r,
         NEW x, x = Ingested(d, s, r)
  PROVE  /\ x.chunks = d.chunks \cup ChunksOf(x, NewIds(d, s, r))
         /\ \A v \in NewIds(d, s, r) : v \in VersionIds /\ ~ Has(d, v) /\ Has(x, v)
         /\ \A v \in VersionIds : Has(d, v) => Has(x, v) /\ TextOf(x, v) = TextOf(d, v)
         /\ \A v \in VersionIds : Has(x, v) => Has(d, v) \/ v \in NewIds(d, s, r)
<1>1. PICK y : y = [d EXCEPT !.versions[s] = Appended(d, s, r)]
  OBVIOUS
<1>2. /\ x.versions = [d.versions EXCEPT ![s] = Appended(d, s, r)]
      /\ y.versions = [d.versions EXCEPT ![s] = Appended(d, s, r)]
      /\ x.chunks = d.chunks \cup ChunksOf(y, NewIds(d, s, r))
  BY <1>1 DEF Ingested, Shaped, DatabaseFields, ToChunk
<1>3. x.chunks = d.chunks \cup ChunksOf(x, NewIds(d, s, r))
  <2>1. \A v : TextOf(y, v) = TextOf(x, v)
    BY <1>2 DEF TextOf
  <2>2. ChunksOf(y, NewIds(d, s, r)) = ChunksOf(x, NewIds(d, s, r))
    BY <2>1 DEF ChunksOf
  <2> QED BY <1>2, <2>2
<1>4. /\ s \in Sessions /\ x.versions[s] = Appended(d, s, r)
      /\ \A t \in Sessions \ {s} : x.versions[t] = d.versions[t]
  BY <1>2 DEF Shaped
<1>5. ASSUME NEW v \in NewIds(d, s, r) PROVE v \in VersionIds /\ ~ Has(d, v) /\ Has(x, v)
  BY <1>4, IngestAdds DEF Has
<1>6. ASSUME NEW v \in VersionIds
      PROVE  /\ Has(d, v) => Has(x, v) /\ TextOf(x, v) = TextOf(d, v)
             /\ Has(x, v) => Has(d, v) \/ v \in NewIds(d, s, r)
  <2>1. PICK t \in Sessions, e \in Events, n \in Nat : v = <<t, e, n>>
    BY DEF VersionIds
  <2>2. d.versions[t][e] \in Seq(Contents) /\ Len(d.versions[t][e]) \in Nat
    BY DEF Shaped
  <2>3. CASE t # s
    BY <1>4, <2>1, <2>3 DEF Has, TextOf
  <2>4. CASE t = s
    <3>1. \A k \in 1 .. Len(d.versions[t][e]) :
            k \in 1 .. Len(Appended(d, s, r)[e]) /\ Appended(d, s, r)[e][k] = d.versions[t][e][k]
      BY <2>2, <2>4, IngestAdds
    <3>2. Has(d, v) => Has(x, v) /\ TextOf(x, v) = TextOf(d, v)
      BY <1>4, <2>1, <2>4, <3>1 DEF Has, TextOf
    <3>3. ASSUME Has(x, v), ~ Has(d, v) PROVE v \in NewIds(d, s, r)
      <4>1. n \in 1 .. Len(Appended(d, s, r)[e]) /\ n \notin 1 .. Len(d.versions[s][e])
        BY <1>4, <2>1, <2>4, <3>3 DEF Has
      <4>2. Appended(d, s, r)[e] = IF e \in Changed(d, s, r)
                                   THEN Append(d.versions[s][e], Record[s][r][e])
                                   ELSE d.versions[s][e]
        BY DEF Appended
      <4>3. e \in Changed(d, s, r)
        BY <4>1, <4>2
      <4>4. e \in InRecord(s, r) /\ Record[s][r] \in [Events -> Contents \cup {Absent}]
        BY <4>3, SourceAssumption DEF Changed, Revisions
      <4>5. Record[s][r][e] \in Contents
        BY <4>4 DEF InRecord
      <4>6. Len(Appended(d, s, r)[e]) = Len(d.versions[s][e]) + 1
        BY <2>2, <2>4, <4>2, <4>3, <4>5, AppendProperties
      <4>7. n = Len(d.versions[s][e]) + 1
        BY <2>2, <2>4, <4>1, <4>6
      <4> QED BY <2>1, <2>4, <4>3, <4>7 DEF NewIds
    <3> QED BY <3>2, <3>3
  <2> QED BY <2>3, <2>4
<1> QED BY <1>3, <1>5, <1>6

LEMMA SearchIngest ==
  ASSUME ImportInv, SearchInv, NEW s \in Sessions, NEW r \in Revisions(s),
         db' = Ingested(db, s, r), UNCHANGED <<backup, restores, repairError>>
  PROVE  SearchInv'
<1>1. Shaped(db) /\ Sound(db, archive)
  BY DEF ImportInv, StoreInv, Sound
<1>2. PICK x : x = Ingested(db, s, r)
  OBVIOUS
<1>3. Shaped(x)
  BY <1>1, <1>2, IngestSound DEF Sound
<1>4. CASE db.revision[s] = r
  <2>1. x.versions = db.versions /\ x.chunks = db.chunks
    BY <1>1, <1>2, <1>4 DEF Ingested, Shaped, DatabaseFields
  <2>2. \A v : (Has(x, v) <=> Has(db, v)) /\ TextOf(x, v) = TextOf(db, v)
    BY <2>1 DEF Has, TextOf
  <2>3. x.chunks = db.chunks \cup ChunksOf(x, {})
    BY <2>1 DEF ChunksOf
  <2>4. {} \in SUBSET VersionIds
    OBVIOUS
  <2> QED BY <1>2, <1>3, <2>2, <2>3, <2>4, SearchGrows
<1>5. CASE db.revision[s] # r
  <2>1. PICK new : new = NewIds(db, s, r)
    OBVIOUS
  <2>2. /\ x.chunks = db.chunks \cup ChunksOf(x, new)
        /\ \A v \in new : v \in VersionIds /\ ~ Has(db, v) /\ Has(x, v)
        /\ \A v \in VersionIds : Has(db, v) => Has(x, v) /\ TextOf(x, v) = TextOf(db, v)
        /\ \A v \in VersionIds : Has(x, v) => Has(db, v) \/ v \in new
    BY <1>1, <1>2, <1>5, <2>1, IngestIndexed
  <2>3. new \in SUBSET VersionIds
    BY <2>2
  <2>4. \A v \in new : Has(x, v) /\ Pieces(db, v) = {}
    BY <2>2 DEF SearchInv, Indexed
  <2> QED BY <1>2, <1>3, <2>2, <2>3, <2>4, SearchGrows
<1> QED BY <1>4, <1>5

(* Cursor and history are no business of the index. *)
LEMMA SearchSame ==
  ASSUME SearchInv, db'.versions = db.versions, db'.chunks = db.chunks,
         UNCHANGED <<backup, restores, repairError>>
  PROVE  SearchInv'
<1>1. PICK x : x = db'
  OBVIOUS
<1>2. x.versions = db.versions /\ x.chunks = db.chunks
  BY <1>1
<1>3. \A v : (Has(x, v) <=> Has(db, v)) /\ TextOf(x, v) = TextOf(db, v) /\ Pieces(x, v) = Pieces(db, v)
  BY <1>2 DEF Has, TextOf, Pieces
<1>4. Indexed(x)
  BY <1>2, <1>3 DEF SearchInv, Indexed
<1>5. \A v \in VersionIds : Has(x, v) /\ Pieces(x, v) = {} => restores > 0 /\ Has(backup, v)
  BY <1>3 DEF SearchInv
<1> QED BY <1>1, <1>4, <1>5 DEF SearchInv

(* Retention takes the chunks of the versions it takes. *)
LEMMA SearchPrune ==
  ASSUME SearchInv, Shaped(db), NEW gone \in SUBSET Sessions,
         db' = Without(db, gone), UNCHANGED <<backup, restores, repairError>>
  PROVE  SearchInv'
<1>1. PICK x : x = Without(db, gone)
  OBVIOUS
<1>2. PICK ids : ids = UNION {IdsOf(db, s) : s \in gone}
  OBVIOUS
<1>3. /\ x.versions = [s \in Sessions |-> IF s \in gone THEN [e \in Events |-> <<>>] ELSE db.versions[s]]
      /\ x.chunks = {c \in db.chunks : c[1] \notin ids}
  BY <1>1, <1>2 DEF Without, Shaped, DatabaseFields
<1>4. ASSUME NEW v \in VersionIds
      PROVE  v \in ids <=> v[1] \in gone /\ Has(db, v)
  <2>1. PICK s \in Sessions, e \in Events, n \in Nat : v = <<s, e, n>>
    BY DEF VersionIds
  <2>2. ASSUME v \in ids PROVE v[1] \in gone /\ Has(db, v)
    <3>1. PICK t \in gone : v \in IdsOf(db, t)
      BY <1>2, <2>2
    <3>2. PICK f \in Events : \E k \in 1 .. Len(db.versions[t][f]) : v = <<t, f, k>>
      BY <3>1, IdFacts
    <3>3. v[1] = t /\ v[2] = f /\ v[3] \in 1 .. Len(db.versions[t][f])
      BY <3>2
    <3> QED BY <3>3 DEF Has
  <2>3. ASSUME v[1] \in gone, Has(db, v) PROVE v \in ids
    <3>1. v \in IdsOf(db, s) /\ s \in gone
      BY <2>1, <2>3, IdFacts DEF Has
    <3> QED BY <1>2, <3>1
  <2> QED BY <2>2, <2>3
<1>5. ASSUME NEW v \in VersionIds, v[1] \in gone PROVE ~ Has(x, v)
  <2>1. PICK s \in Sessions, e \in Events, n \in Nat : v = <<s, e, n>>
    BY DEF VersionIds
  <2>2. x.versions[s][e] = <<>>
    BY <1>3, <1>5, <2>1
  <2>3. Len(x.versions[s][e]) = 0
    BY <2>2
  <2> QED BY <2>1, <2>3 DEF Has
<1>6. ASSUME NEW v \in VersionIds, v[1] \notin gone
      PROVE  (Has(x, v) <=> Has(db, v)) /\ TextOf(x, v) = TextOf(db, v)
  BY <1>3, <1>6 DEF VersionIds, Has, TextOf
<1>7. ASSUME NEW v \in VersionIds
      PROVE  Pieces(x, v) = IF v \in ids THEN {} ELSE Pieces(db, v)
  <2>1. \A p : <<v, p>> \in x.chunks <=> <<v, p>> \in db.chunks /\ v \notin ids
    BY <1>3
  <2> QED BY <2>1 DEF Pieces
<1>8. Indexed(x)
  <2>1. x.chunks \subseteq VersionIds \X (Nat \X Nat)
    BY <1>3 DEF SearchInv, Indexed
  <2>2. ASSUME NEW v \in VersionIds, Pieces(x, v) # {}
        PROVE  Has(x, v) /\ Pieces(x, v) = Chunks(TextOf(x, v))
    <3>1. v \notin ids /\ Pieces(x, v) = Pieces(db, v)
      BY <1>7, <2>2
    <3>2. Has(db, v) /\ Pieces(db, v) = Chunks(TextOf(db, v))
      BY <2>2, <3>1 DEF SearchInv, Indexed
    <3>3. v[1] \notin gone
      BY <1>4, <3>1, <3>2
    <3> QED BY <1>6, <3>1, <3>2, <3>3
  <2> QED BY <2>1, <2>2 DEF Indexed
<1>9. ASSUME NEW v \in VersionIds, Has(x, v), Pieces(x, v) = {}
      PROVE  restores > 0 /\ Has(backup, v)
  <2>1. v[1] \notin gone
    BY <1>5, <1>9
  <2>2. Has(db, v) /\ v \notin ids
    BY <1>4, <1>6, <1>9, <2>1
  <2>3. Pieces(db, v) = {}
    BY <1>7, <1>9, <2>2
  <2> QED BY <2>2, <2>3 DEF SearchInv
<1>10. db' = x
  BY <1>1
<1> QED BY <1>8, <1>9, <1>10 DEF SearchInv

(* The repair's scan and insert are one transaction. *)
LEMMA SearchRepairs ==
  ASSUME ImportInv, SearchInv, NEW w \in Repairers, RepairWrite(w)
  PROVE  SearchInv'
<1>1. Shaped(db) /\ Says(db) /\ Indexed(db)
  BY DEF ImportInv, StoreInv, Sound, SearchInv
<1>2. PICK new : new = Missing(db)
  OBVIOUS
<1>3. \A v \in new : v \in VersionIds /\ Has(db, v) /\ v \notin Chunked(db)
  BY <1>1, <1>2, VisibleFacts DEF Missing
<1>4. new \cap Chunked(db) = {}
  BY <1>3
<1>5. PICK x : x = [db EXCEPT !.chunks = @ \cup ChunksOf(db, new)]
  OBVIOUS
<1>6. db' = x /\ repairError' = repairError /\ UNCHANGED <<backup, restores>>
  <2>1. repairError' = (repairError \/ FALSE)
    BY <1>2, <1>4 DEF RepairWrite, ToRepair
  <2>2. repairError = FALSE
    BY DEF SearchInv
  <2> QED BY <1>2, <1>4, <1>5, <2>1, <2>2 DEF RepairWrite, ToRepair
<1>7. /\ x = [field \in DatabaseFields |-> x[field]]
      /\ x.revision = db.revision /\ x.versions = db.versions /\ x.active = db.active
      /\ x.queued = db.queued /\ x.acked = db.acked
      /\ x.chunks = db.chunks \cup ChunksOf(db, new)
  BY <1>1, <1>5 DEF Shaped, DatabaseFields
<1>8. Shaped(x)
  BY <1>1, <1>7 DEF Shaped
<1>9. \A v : (Has(x, v) <=> Has(db, v)) /\ TextOf(x, v) = TextOf(db, v)
  BY <1>7 DEF Has, TextOf
<1>10. x.chunks = db.chunks \cup ChunksOf(x, new)
  <2>1. ChunksOf(x, new) = ChunksOf(db, new)
    BY <1>9 DEF ChunksOf
  <2> QED BY <1>7, <2>1
<1>11. \A v \in new : Has(x, v) /\ Pieces(db, v) = {}
  BY <1>1, <1>3, <1>9, ChunkedFacts
<1>12. new \in SUBSET VersionIds
  BY <1>3
<1> QED BY <1>6, <1>8, <1>9, <1>10, <1>11, <1>12, SearchGrows

LEMMA SearchSteps == ASSUME ImportInv, SearchInv, Next PROVE SearchInv'
<1>0. Shaped(db) /\ Shaped(backup) /\ Sourced
  BY DEF ImportInv, StoreInv, Sound
<1>1. CASE UNCHANGED <<db, backup, restores, repairError>>
  BY <1>1, SearchSame
<1>2. ASSUME NEW s \in Sessions, NEW r \in 1 .. source[s].revision, Capture(s, r) PROVE SearchInv'
  <2>1. r \in Revisions(s)
    <3>1. source[s].revision \in Revisions(s) /\ Len(Record[s]) \in Nat
      BY <1>0, SourceAssumption, LenProperties DEF Sourced
    <3> QED BY <3>1 DEF Revisions
  <2>2. db' = Ingested(db, s, r) /\ UNCHANGED <<backup, restores, repairError>>
    BY <1>2 DEF Capture, Commit
  <2> QED BY <2>1, <2>2, SearchIngest
<1>3. CASE Store
  <2>1. import.pc = "rows" /\ Rows(import.rows) /\ import.rows # <<>>
    BY <1>0, <1>3 DEF Store, Ready, Sourced
  <2>2. PICK row : row = Head(import.rows)
    OBVIOUS
  <2>3. row \in Row /\ row.revision \in {0} \cup Revisions(row.session)
    BY <2>1, <2>2, TailRows
  <2>4. row.revision # 0
    <3>1. /\ import.rows \in Seq(Row) /\ 1 \in 1 .. Len(import.rows) /\ row = import.rows[1]
      BY <2>1, <2>2, HeadTailProperties, EmptySeq DEF Rows
    <3>2. 1 \notin Unread
      BY <1>3 DEF Store, Ready
    <3> QED BY <3>1, <3>2 DEF Unread
  <2>5. PICK s \in Sessions : \E r \in Revisions(s) : row.session = s /\ row.revision = r
    BY <2>3, <2>4 DEF Row
  <2>6. PICK r \in Revisions(s) : row.session = s /\ row.revision = r
    BY <2>5
  <2>7. db' = Imported(row) /\ UNCHANGED <<backup, restores, repairError>>
    BY <1>3, <2>2 DEF Store, Commit
  <2>8. CASE <<s, r>> \in Unsyncable
    <3>1. db' = [db EXCEPT !.handled[s] = r]
      BY <2>6, <2>7, <2>8 DEF Imported
    <3>2. db'.versions = db.versions /\ db'.chunks = db.chunks
      BY <1>0, <3>1 DEF Shaped, DatabaseFields
    <3> QED BY <2>7, <3>2, SearchSame
  <2>9. CASE <<s, r>> \notin Unsyncable
    <3>1. db' = Ingested(db, s, r)
      BY <2>6, <2>7, <2>9 DEF Imported
    <3> QED BY <2>7, <3>1, SearchIngest
  <2> QED BY <2>8, <2>9
<1>4. CASE SaveCursor
  <2>1. db' = [db EXCEPT !.cursor = import.last] /\ UNCHANGED <<backup, restores, repairError>>
    BY <1>4 DEF SaveCursor, Commit
  <2>2. db'.versions = db.versions /\ db'.chunks = db.chunks
    BY <1>0, <2>1 DEF Shaped, DatabaseFields
  <2> QED BY <2>1, <2>2, SearchSame
<1>5. CASE Deliver
  <2>1. db' = [db EXCEPT !.queued = Tail(@), !.acked = @ \cup {Head(db.queued)}]
        /\ UNCHANGED <<backup, restores, repairError>>
    BY <1>5 DEF Deliver
  <2>2. db'.versions = db.versions /\ db'.chunks = db.chunks
    BY <1>0, <2>1 DEF Shaped, DatabaseFields
  <2> QED BY <2>1, <2>2, SearchSame
<1>6. CASE Backup
  <2>1. PICK x : x = [db EXCEPT !.chunks = {}]
    OBVIOUS
  <2>2. backup' = x /\ UNCHANGED <<db, restores, repairError>>
    BY <1>6, <2>1 DEF Backup, BackupOf
  <2>3. x.versions = db.versions /\ x.chunks = {}
    BY <1>0, <2>1 DEF Shaped, DatabaseFields
  <2>4. \A v : Has(x, v) <=> Has(db, v)
    BY <2>3 DEF Has
  <2>5. \A v \in VersionIds : Has(db, v) /\ Pieces(db, v) = {} => restores > 0 /\ Has(x, v)
    BY <2>4 DEF SearchInv
  <2> QED BY <2>2, <2>3, <2>5 DEF SearchInv
<1>7. CASE Restore
  <2>1. db' = backup /\ backup' = backup /\ repairError' = repairError /\ restores' = restores + 1
    BY <1>7 DEF Restore
  <2>2. restores' \in Nat /\ restores' > 0
    BY <2>1 DEF SearchInv
  <2>3. \A v : Pieces(backup, v) = {}
    BY DEF SearchInv, Pieces
  <2>4. Indexed(backup)
    BY <2>3 DEF SearchInv, Indexed
  <2> QED BY <2>1, <2>2, <2>4 DEF SearchInv
<1>8. ASSUME NEW gone \in SUBSET Sessions, Prune(gone) PROVE SearchInv'
  <2>1. db' = Without(db, gone) /\ UNCHANGED <<backup, restores, repairError>>
    BY <1>8 DEF Prune
  <2> QED BY <1>0, <2>1, SearchPrune
<1>9. ASSUME NEW w \in Repairers, RepairCheck(w) \/ StopRepair(w) PROVE SearchInv'
  BY <1>1, <1>9 DEF RepairCheck, StopRepair
<1>10. CASE Tick \/ Listing \/ Read \/ Fail \/ StopImport
  BY <1>1, <1>10 DEF Tick, Listing, Begin, ListAgain, Page, LastPage, Start, Read, Fail, StopImport,
                     storeVars
<1>11. ASSUME NEW s \in Sessions, Change(s) PROVE SearchInv'
  BY <1>1, <1>11 DEF Change, storeVars
<1>12. ASSUME NEW w \in Repairers, RepairWrite(w) PROVE SearchInv'
  BY <1>12, SearchRepairs
<1> QED
  BY <1>2, <1>3, <1>4, <1>5, <1>6, <1>7, <1>8, <1>9, <1>10, <1>11, <1>12 DEF Next, StoreNext, RestoreIdle

LEMMA InitSearch == Init => SearchInv
<1> SUFFICES ASSUME Init PROVE SearchInv
  OBVIOUS
<1>1. db.chunks = {} /\ backup.chunks = {} /\ restores = 0 /\ repairError = FALSE
  BY DEF Init, StoreInit, EmptyDatabase
<1>2. db.versions = [s \in Sessions |-> [e \in Events |-> <<>>]]
  BY DEF Init, StoreInit, EmptyDatabase
<1>3. ASSUME NEW v \in VersionIds PROVE ~ Has(db, v)
  <2>1. PICK s \in Sessions, e \in Events, n \in Nat : v = <<s, e, n>>
    BY DEF VersionIds
  <2>2. db.versions[s][e] = <<>>
    BY <1>2
  <2>3. Len(db.versions[s][e]) = 0
    BY <2>2
  <2> QED BY <2>1, <2>3 DEF Has
<1>4. Indexed(db)
  BY <1>1 DEF Indexed, Pieces
<1> QED BY <1>1, <1>3, <1>4 DEF SearchInv

LEMMA NextSearch == ImportInv /\ SearchInv /\ [Next]_vars => SearchInv'
<1> SUFFICES ASSUME ImportInv, SearchInv, [Next]_vars PROVE SearchInv'
  OBVIOUS
<1>1. CASE Next
  BY <1>1, SearchSteps
<1>2. CASE UNCHANGED vars
  BY <1>2, SearchSame DEF vars, storeVars
<1> QED BY <1>1, <1>2

LEMMA SearchInvariant == Spec => [](ImportInv /\ SearchInv)
  BY InitImport, NextImport, InitSearch, NextSearch, PTL DEF Spec
-----------------------------------------------------------------------------
(* THEOREMS *)

(* The text of an indexed version is covered by pieces that do not overlap *)
(* and keep to the byte ceiling, whatever ingest, repair and retention did. *)
THEOREM ChunksCoverAlways == Spec => []ChunksCoverText
<1>1. ASSUME ImportInv, SearchInv PROVE ChunksCoverText
  <2> SUFFICES ASSUME NEW v \in Chunked(db)
               PROVE  LET text   == TextOf(db, v)
                          pieces == {c[2] : c \in {k \in db.chunks : k[1] = v}} IN
                        /\ \A i \in 0 .. Len(text) - 1 :
                             Cardinality({p \in pieces : p[1] <= i /\ i < p[2]}) = 1
                        /\ \A p \in pieces : p[2] > p[1] + 1 => Bytes(text, p[1], p[2]) <= ChunkBytes
    BY DEF ChunksCoverText
  <2>1. Indexed(db) /\ Shaped(db)
    BY <1>1 DEF ImportInv, StoreInv, Sound, SearchInv
  <2>2. v \in VersionIds /\ Pieces(db, v) # {}
    BY <2>1, ChunkedFacts
  <2>3. Has(db, v) /\ Pieces(db, v) = Chunks(TextOf(db, v))
    BY <2>1, <2>2 DEF Indexed
  <2>4. PICK t \in Seq(Characters) : t = TextOf(db, v)
    BY <2>1, <2>2, <2>3, TextFacts, SourceAssumption
  <2>5. PICK S : S = {c[2] : c \in {k \in db.chunks : k[1] = v}}
    OBVIOUS
  <2>6. S = Chunks(t)
    <3>1. \A p : p \in S <=> p \in Nat \X Nat /\ <<v, p>> \in db.chunks
      BY <2>1, <2>5 DEF Indexed
    <3>2. S = Pieces(db, v)
      BY <3>1 DEF Pieces
    <3> QED BY <2>3, <2>4, <3>2
  <2>7. /\ \A m \in 0 .. Len(t) - 1 : \E p \in S :
             /\ p[1] <= m /\ m < p[2]
             /\ \A q \in S : q[1] <= m /\ m < q[2] => q = p
        /\ \A p \in S : p[2] > p[1] + 1 => Bytes(t, p[1], p[2]) <= ChunkBytes
    BY <2>6, ChunksFacts
  <2>8. ASSUME NEW i \in 0 .. Len(t) - 1
        PROVE  Cardinality({p \in S : p[1] <= i /\ i < p[2]}) = 1
    <3>1. PICK p \in S : /\ p[1] <= i /\ i < p[2]
                         /\ \A q \in S : q[1] <= i /\ i < q[2] => q = p
      BY <2>7
    <3>2. {q \in S : q[1] <= i /\ i < q[2]} = {p}
      BY <3>1
    <3> QED BY <3>2, FS_Singleton
  <2>9. /\ \A i \in 0 .. Len(t) - 1 : Cardinality({p \in S : p[1] <= i /\ i < p[2]}) = 1
        /\ \A p \in S : p[2] > p[1] + 1 => Bytes(t, p[1], p[2]) <= ChunkBytes
    BY <2>7, <2>8
  <2> QED BY <2>4, <2>5, <2>9
<1> QED BY <1>1, SearchInvariant, PTL

(* A visible event can be found by search; only after a restore may one    *)
(* that the backup brought back wait for a repair.                         *)
THEOREM SearchableAlways == Spec => []SearchableUnlessRestored
<1>1. ASSUME ImportInv, SearchInv PROVE SearchableUnlessRestored
  <2>1. Indexed(db) /\ Shaped(db) /\ Says(db) /\ Shaped(backup)
    BY <1>1 DEF ImportInv, StoreInv, Sound, SearchInv
  <2>2. ASSUME NEW v \in Visible(db) \ Findable(db)
        PROVE  restores > 0 /\ v \in UNION {IdsOf(backup, s) : s \in Sessions}
    <3>1. v \in VersionIds /\ Has(db, v) /\ v \notin Chunked(db)
      BY <2>1, VisibleFacts DEF Findable
    <3>2. Pieces(db, v) = {}
      BY <2>1, <3>1, ChunkedFacts
    <3>3. restores > 0 /\ Has(backup, v)
      BY <1>1, <3>1, <3>2 DEF SearchInv
    <3>4. PICK s \in Sessions, e \in Events, n \in Nat : v = <<s, e, n>>
      BY <3>1 DEF VersionIds
    <3>5. v \in IdsOf(backup, s)
      BY <3>3, <3>4, IdFacts DEF Has
    <3> QED BY <3>3, <3>5
  <2> QED BY <2>2 DEF SearchableUnlessRestored
<1> QED BY <1>1, SearchInvariant, PTL

(* No repair raises: what it inserts is not there, whatever was committed  *)
(* between its look at the index and its transaction.                      *)
THEOREM RepairNeverRaisesAlways == Spec => []RepairNeverRaises
<1>1. SearchInv => RepairNeverRaises
  BY DEF SearchInv, RepairNeverRaises
<1> QED BY <1>1, SearchInvariant, PTL

(* A result has no empty place while a hit is left out, and each kind of   *)
(* hit keeps its half.                                                     *)
THEOREM ResultFilledAlways == Spec => []ResultFilled
<1>1. ASSUME ImportInv, SearchInv PROVE ResultFilled
  <2>1. Shaped(db) /\ Says(db)
    BY <1>1 DEF ImportInv, StoreInv, Sound
  <2>2. {v[1] : v \in Findable(db)} \subseteq Sessions
    <3>1. \A v \in Findable(db) : v \in VersionIds
      BY <2>1, VisibleFacts DEF Findable
    <3> QED BY <3>1 DEF VersionIds
  <2>3. PICK sessions \in Nat : sessions = Cardinality({v[1] : v \in Findable(db)})
    BY <2>2, SourceAssumption, FS_Subset, FS_CardinalityType
  <2>4. MaxHits \in Nat
    BY StoreBoundAssumption
  <2>5. ASSUME NEW pages \in 0 .. MaxHits, NEW n \in 0 .. MaxHits
        PROVE  LET p == PageSlots(pages, sessions, n)
                   s == SessionSlots(pages, sessions, n) IN
                 /\ p + s = Smaller(pages + sessions, n)
                 /\ p >= Smaller(pages, n - n \div 2)
                 /\ s >= Smaller(sessions, n \div 2)
    <3>1. PICK h \in Nat : h = n \div 2 /\ h <= n
      BY <2>4
    <3> QED BY <2>4, <3>1 DEF PageSlots, SessionSlots, Smaller
  <2> QED BY <2>3, <2>5 DEF ResultFilled
<1> QED BY <1>1, SearchInvariant, PTL
=============================================================================
