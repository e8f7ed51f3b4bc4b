-------------------------- MODULE SessionImportProofs --------------------------
(***************************************************************************)
(* Proofs about SessionImport, for every set of sessions, revisions and    *)
(* events and without any of the bounds: retention deletes nothing that    *)
(* the archive does not hold, and reading a session gives the record that  *)
(* was ingested last.                                                      *)
(*                                                                         *)
(* NothingLost is not inductive: retention looks at acknowledgements, not  *)
(* at the archive.  Sound ties the two together, for the database and for  *)
(* its backup: an acknowledged row is archived, a row waits or is          *)
(* acknowledged but never both, and rows name versions that exist.         *)
(***************************************************************************)
EXTENDS SessionImport, FiniteSetTheorems, SequenceTheorems, TLAPS

DatabaseFields ==
  {"revision", "versions", "active", "chunks", "queued", "acked", "cursor", "handled"}

Shaped(d) ==
  /\ d = [field \in DatabaseFields |-> d[field]]
  /\ d.revision \in [Sessions -> Nat]
  /\ d.versions \in [Sessions -> [Events -> Seq(Contents)]]
  /\ d.active \in [Sessions -> SUBSET Events]
  /\ d.queued \in Seq(VersionIds)
  /\ d.acked \subseteq VersionIds

Has(d, v) == v[3] \in 1 .. Len(d.versions[v[1]][v[2]])

Delivered(d, store) == \A v \in d.acked : Has(d, v) /\ PayloadOf(d, v) \in store

Waiting(d) ==
  /\ \A i \in 1 .. Len(d.queued) : Has(d, d.queued[i]) /\ d.queued[i] \notin d.acked
  /\ \A i, j \in 1 .. Len(d.queued) : i # j => d.queued[i] # d.queued[j]

(* A session says what its revision says. *)
Says(d) ==
  \A s \in Sessions :
    /\ \A e \in d.active[s] : d.versions[s][e] # <<>>
    /\ d.revision[s] # 0 => /\ d.revision[s] \in 1 .. Len(Record[s])
                            /\ ReadEvents(d, s) = Record[s][d.revision[s]]

Sound(d, store) == Shaped(d) /\ Delivered(d, store) /\ Waiting(d) /\ Says(d)

(* What an import still holds is a revision of a session. *)
Revisions(s) == 1 .. Len(Record[s])
Rows(q) ==
  /\ q \in Seq(Row)
  /\ \A i \in 1 .. Len(q) : q[i].revision \in {0} \cup Revisions(q[i].session)
ImportFields == {"pc", "kind", "found", "moved", "rows", "last"}

(* What a list shows: rows that are not read yet.                          *)
Fresh(S) == S \subseteq {r \in Row : r.revision = 0} /\ IsFiniteSet(S)

Sourced ==
  /\ source \in [Sessions -> [revision : Nat, updated_at : Nat]] /\ clock \in Nat
  /\ \A s \in Sessions : source[s].revision \in Revisions(s)
  /\ import = [field \in ImportFields |-> import[field]]
  /\ Rows(import.rows)
  /\ import.pc = "rows" => import.rows # <<>>
  /\ Fresh(import.found)

StoreInv == Sound(db, archive) /\ Sound(backup, archive) /\ NothingLost
-----------------------------------------------------------------------------
(* VERSIONS *)

LEMMA IdFacts ==
  ASSUME NEW d, NEW s \in Sessions
  PROVE  \A v : v \in IdsOf(d, s) <=>
                  \E e \in Events : \E n \in 1 .. Len(d.versions[s][e]) : v = <<s, e, n>>
  BY DEF IdsOf

LEMMA PayloadFacts ==
  ASSUME NEW d, Shaped(d)
  PROVE  /\ \A v \in VersionIds : Has(d, v) => PayloadOf(d, v) \in Payloads(d)
         /\ \A x \in Payloads(d) : \E v \in VersionIds : Has(d, v) /\ x = PayloadOf(d, v)
<1>1. ASSUME NEW s \in Sessions, NEW e \in Events PROVE Len(d.versions[s][e]) \in Nat
  BY DEF Shaped
<1>2. ASSUME NEW v \in VersionIds, Has(d, v) PROVE PayloadOf(d, v) \in Payloads(d)
  <2>1. PICK s \in Sessions, e \in Events, n \in Nat : v = <<s, e, n>>
    BY DEF VersionIds
  <2>2. v \in IdsOf(d, s)
    BY <1>2, <2>1, IdFacts DEF Has
  <2> QED
    BY <2>2 DEF Payloads
<1>3. ASSUME NEW x \in Payloads(d)
      PROVE  \E v \in VersionIds : Has(d, v) /\ x = PayloadOf(d, v)
  <2>1. PICK s \in Sessions : \E v \in IdsOf(d, s) : x = PayloadOf(d, v)
    BY DEF Payloads
  <2>2. PICK v \in IdsOf(d, s) : x = PayloadOf(d, v)
    BY <2>1
  <2>3. PICK e \in Events : \E n \in 1 .. Len(d.versions[s][e]) : v = <<s, e, n>>
    BY <2>2, IdFacts
  <2>4. v \in VersionIds /\ Has(d, v)
    BY <1>1, <2>3 DEF VersionIds, Has
  <2> QED
    BY <2>2, <2>4
<1> QED
  BY <1>2, <1>3

(* SetToSeq lists every element of a finite set once. *)
LEMMA ListsOnce ==
  ASSUME NEW S, IsFiniteSet(S)
  PROVE  /\ SetToSeq(S) \in Seq(S)
         /\ \A i, j \in 1 .. Len(SetToSeq(S)) : i # j => SetToSeq(S)[i] # SetToSeq(S)[j]
<1>1. Cardinality(S) \in Nat /\ ExistsBijection(1 .. Cardinality(S), S)
  BY FS_CardinalityType
<1>2. PICK f \in [1 .. Cardinality(S) -> S] : IsInjective(f)
  BY <1>1 DEF ExistsBijection, Bijection, Injection, IsInjective
<1>3. SetToSeq(S) \in [1 .. Cardinality(S) -> S] /\ IsInjective(SetToSeq(S))
  BY <1>2 DEF SetToSeq
<1> QED
  BY <1>1, <1>3 DEF IsInjective
-----------------------------------------------------------------------------
(* A database with the same sessions and outbox is as sound. *)
LEMMA SameSound ==
  ASSUME NEW d, NEW x, NEW store, Sound(d, store), x = [field \in DatabaseFields |-> x[field]],
         x.revision = d.revision, x.versions = d.versions, x.active = d.active,
         x.queued = d.queued, x.acked = d.acked
  PROVE  Sound(x, store) /\ Payloads(x) = Payloads(d)
<1>1. Shaped(x)
  BY DEF Sound, Shaped
<1>2. Delivered(x, store) /\ Waiting(x)
  BY DEF Sound, Delivered, Waiting, Has, PayloadOf, TextOf
<1>3. \A s \in Sessions : ReadEvents(x, s) = ReadEvents(d, s)
  BY DEF ReadEvents
<1>4. Says(x)
  BY <1>3 DEF Sound, Says
<1>5. Payloads(x) = Payloads(d)
  <2>1. \A s \in Sessions : IdsOf(x, s) = IdsOf(d, s)
    BY DEF IdsOf
  <2>2. \A v : PayloadOf(x, v) = PayloadOf(d, v)
    BY DEF PayloadOf, TextOf
  <2> QED
    BY <2>1, <2>2 DEF Payloads
<1> QED
  BY <1>1, <1>2, <1>4, <1>5 DEF Sound

LEMMA AppendFacts ==
  ASSUME NEW S, NEW q \in Seq(S), NEW c \in S
  PROVE  /\ Append(q, c) \in Seq(S) /\ Len(Append(q, c)) = Len(q) + 1
         /\ \A n \in 1 .. Len(q) : Append(q, c)[n] = q[n]
         /\ Last(Append(q, c)) = c
<1>1. /\ Append(q, c) \in Seq(S) /\ Len(Append(q, c)) = Len(q) + 1
      /\ \A n \in 1 .. Len(q) : Append(q, c)[n] = q[n]
      /\ Append(q, c)[Len(q) + 1] = c
  BY AppendProperties
<1> QED
  BY <1>1 DEF Last

(* What an ingest of a new revision adds. *)
LEMMA IngestAdds ==
  ASSUME NEW d, Shaped(d), NEW s \in Sessions, NEW r \in Revisions(s)
  PROVE  /\ Appended(d, s, r) \in [Events -> Seq(Contents)]
         /\ \A e \in Events :
              /\ Len(Appended(d, s, r)[e]) \in Nat
              /\ Len(Appended(d, s, r)[e]) >= Len(d.versions[s][e])
              /\ \A n \in 1 .. Len(d.versions[s][e]) : Appended(d, s, r)[e][n] = d.versions[s][e][n]
         /\ \A e \in InRecord(s, r) : /\ Appended(d, s, r)[e] # <<>>
                                      /\ Last(Appended(d, s, r)[e]) = Record[s][r][e]
         /\ IsFiniteSet(NewIds(d, s, r))
         /\ \A v \in NewIds(d, s, r) :
              /\ v \in VersionIds /\ v[1] = s /\ ~ Has(d, v)
              /\ v[3] \in 1 .. Len(Appended(d, s, r)[v[2]])
<1>1. Record[s][r] \in [Events -> Contents \cup {Absent}]
  BY SourceAssumption DEF Revisions
<1>2. \A e \in InRecord(s, r) : Record[s][r][e] \in Contents
  BY <1>1 DEF InRecord
<1>3. Changed(d, s, r) \subseteq InRecord(s, r) /\ InRecord(s, r) \subseteq Events
  BY DEF Changed, InRecord
<1>4. ASSUME NEW e \in Events
      PROVE  /\ d.versions[s][e] \in Seq(Contents) /\ Len(d.versions[s][e]) \in Nat
             /\ Appended(d, s, r)[e] = IF e \in Changed(d, s, r)
                                       THEN Append(d.versions[s][e], Record[s][r][e])
                                       ELSE d.versions[s][e]
  BY DEF Shaped, Appended
<1>5. ASSUME NEW e \in Changed(d, s, r)
      PROVE  /\ Appended(d, s, r)[e] \in Seq(Contents)
             /\ Len(Appended(d, s, r)[e]) = Len(d.versions[s][e]) + 1
             /\ \A n \in 1 .. Len(d.versions[s][e]) : Appended(d, s, r)[e][n] = d.versions[s][e][n]
             /\ Last(Appended(d, s, r)[e]) = Record[s][r][e]
  <2>1. Appended(d, s, r)[e] = Append(d.versions[s][e], Record[s][r][e])
    BY <1>3, <1>4
  <2>2. d.versions[s][e] \in Seq(Contents) /\ Record[s][r][e] \in Contents
    BY <1>2, <1>3, <1>4
  <2> QED
    BY <2>1, <2>2, AppendFacts
<1>6. Appended(d, s, r) \in [Events -> Seq(Contents)]
  <2>1. \A e \in Events : Appended(d, s, r)[e] \in Seq(Contents)
    BY <1>4, <1>5
  <2> QED
    BY <2>1 DEF Appended
<1>7. ASSUME NEW e \in Events
      PROVE  /\ Len(Appended(d, s, r)[e]) \in Nat
             /\ Len(Appended(d, s, r)[e]) >= Len(d.versions[s][e])
             /\ \A n \in 1 .. Len(d.versions[s][e]) : Appended(d, s, r)[e][n] = d.versions[s][e][n]
  BY <1>4, <1>5
<1>8. ASSUME NEW e \in InRecord(s, r)
      PROVE  Appended(d, s, r)[e] # <<>> /\ Last(Appended(d, s, r)[e]) = Record[s][r][e]
  <2>1. CASE e \in Changed(d, s, r)
    BY <1>3, <1>4, <1>5, <2>1
  <2>2. CASE e \notin Changed(d, s, r)
    BY <1>3, <1>4, <1>8, <2>2 DEF Changed
  <2> QED
    BY <2>1, <2>2
<1>9. IsFiniteSet(NewIds(d, s, r))
  <2> DEFINE id == [e \in Changed(d, s, r) |-> <<s, e, Len(d.versions[s][e]) + 1>>]
  <2>1. id \in Surjection(Changed(d, s, r), NewIds(d, s, r))
    BY DEF Surjection, NewIds
  <2>2. IsFiniteSet(Changed(d, s, r))
    BY <1>3, SourceAssumption, FS_Subset
  <2> QED
    BY <2>1, <2>2, FS_Surjection
<1>10. ASSUME NEW v \in NewIds(d, s, r)
       PROVE  /\ v \in VersionIds /\ v[1] = s /\ ~ Has(d, v)
              /\ v[3] \in 1 .. Len(Appended(d, s, r)[v[2]])
  <2>1. PICK e \in Changed(d, s, r) : v = <<s, e, Len(d.versions[s][e]) + 1>>
    BY DEF NewIds
  <2>2. v[1] = s /\ v[2] = e /\ v[3] = Len(d.versions[s][e]) + 1
    BY <2>1
  <2>3. Len(d.versions[s][e]) \in Nat /\ Len(Appended(d, s, r)[e]) = Len(d.versions[s][e]) + 1
    BY <1>3, <1>4, <1>5
  <2>4. v \in VersionIds
    BY <1>3, <2>1, <2>3 DEF VersionIds
  <2> QED
    BY <2>2, <2>3, <2>4 DEF Has
<1> QED
  BY <1>6, <1>7, <1>8, <1>9, <1>10

(* The outbox and the acknowledgements stay sound while versions are only  *)
(* added and the rows of new versions join at the end.                     *)
LEMMA QueueGrows ==
  ASSUME NEW d, NEW x, NEW store, Sound(d, store), Shaped(x), x.acked = d.acked,
         \A v \in VersionIds : Has(d, v) => Has(x, v) /\ PayloadOf(x, v) = PayloadOf(d, v),
         NEW new, IsFiniteSet(new), \A v \in new : v \in VersionIds /\ ~ Has(d, v) /\ Has(x, v),
         x.queued = d.queued \o SetToSeq(new)
  PROVE  Delivered(x, store) /\ Waiting(x)
<1> DEFINE n == Len(d.queued)
           m == Len(SetToSeq(new))
<1>1. d.queued \in Seq(VersionIds) /\ d.acked \subseteq VersionIds
  BY DEF Sound, Shaped
<1>2. /\ SetToSeq(new) \in Seq(new)
      /\ \A i, j \in 1 .. m : i # j => SetToSeq(new)[i] # SetToSeq(new)[j]
  BY ListsOnce
<1>3. n \in Nat /\ m \in Nat /\ SetToSeq(new) \in Seq(VersionIds)
      /\ \A i \in 1 .. m : SetToSeq(new)[i] \in new
  BY <1>1, <1>2, SeqMonotonic
<1>4. /\ Len(x.queued) = n + m
      /\ \A i \in 1 .. n + m : x.queued[i] = IF i <= n THEN d.queued[i] ELSE SetToSeq(new)[i - n]
  BY <1>1, <1>3, ConcatProperties
<1>5. ASSUME NEW i \in 1 .. n + m
      PROVE  IF i <= n THEN i \in 1 .. n /\ x.queued[i] = d.queued[i] /\ d.queued[i] \in VersionIds
             ELSE i - n \in 1 .. m /\ x.queued[i] = SetToSeq(new)[i - n] /\ x.queued[i] \in new
  BY <1>1, <1>3, <1>4
<1>6. Delivered(x, store)
  BY <1>1 DEF Sound, Delivered
<1> HIDE DEF n, m
<1>7. ASSUME NEW i \in 1 .. n + m
      PROVE  Has(x, x.queued[i]) /\ x.queued[i] \notin x.acked
  <2>1. CASE i <= n
    BY <1>5, <2>1 DEF Sound, Waiting, n
  <2>2. CASE ~ (i <= n)
    BY <1>5, <2>2 DEF Sound, Delivered
  <2> QED
    BY <2>1, <2>2
<1>8. ASSUME NEW i \in 1 .. n + m
      PROVE  i <= n <=> Has(d, x.queued[i])
  <2>1. CASE i <= n
    BY <1>5, <2>1 DEF Sound, Waiting, n
  <2>2. CASE ~ (i <= n)
    BY <1>5, <2>2
  <2> QED
    BY <2>1, <2>2
<1>9. ASSUME NEW i \in 1 .. n + m, NEW j \in 1 .. n + m, i # j
      PROVE  x.queued[i] # x.queued[j]
  <2>1. CASE i <= n /\ j <= n
    <3>1. i \in 1 .. n /\ j \in 1 .. n /\ x.queued[i] = d.queued[i] /\ x.queued[j] = d.queued[j]
      BY <1>5, <2>1
    <3> QED
      BY <1>9, <3>1 DEF Sound, Waiting, n
  <2>2. CASE ~ (i <= n) /\ ~ (j <= n)
    <3>1. i - n # j - n
      BY <1>3, <1>9
    <3>2. /\ i - n \in 1 .. m /\ x.queued[i] = SetToSeq(new)[i - n]
          /\ j - n \in 1 .. m /\ x.queued[j] = SetToSeq(new)[j - n]
      BY <1>5, <2>2
    <3> QED
      BY <1>2, <3>1, <3>2
  <2>3. CASE ~ ((i <= n) <=> (j <= n))
    BY <1>8, <2>3
  <2> QED
    BY <2>1, <2>2, <2>3
<1> QED
  BY <1>4, <1>6, <1>7, <1>9 DEF Waiting

LEMMA IngestSound ==
  ASSUME NEW d, NEW store, Sound(d, store), NEW s \in Sessions, NEW r \in Revisions(s)
  PROVE  Sound(Ingested(d, s, r), store) /\ Payloads(d) \subseteq Payloads(Ingested(d, s, r))
<1> DEFINE x == Ingested(d, s, r)
<1>0. Shaped(d)
  BY DEF Sound
<1>1. CASE d.revision[s] = r
  <2>1. /\ x = [field \in DatabaseFields |-> x[field]]
        /\ x.revision = d.revision /\ x.versions = d.versions /\ x.active = d.active
        /\ x.queued = d.queued /\ x.acked = d.acked
    BY <1>0, <1>1 DEF Ingested, Shaped, DatabaseFields
  <2> HIDE DEF x
  <2> QED
    BY <2>1, SameSound DEF x
<1>2. CASE d.revision[s] # r
  <2>1. /\ x = [field \in DatabaseFields |-> x[field]]
        /\ x.revision = [d.revision EXCEPT ![s] = r]
        /\ x.versions = [d.versions EXCEPT ![s] = Appended(d, s, r)]
        /\ x.active = [d.active EXCEPT ![s] = ActiveAfter(d, s, r)]
        /\ x.queued = d.queued \o SetToSeq(NewIds(d, s, r)) /\ x.acked = d.acked
    BY <1>0, <1>2 DEF Ingested, Shaped, DatabaseFields
  <2>2. s \in Sessions /\ x.versions[s] = Appended(d, s, r) /\ x.active[s] = InRecord(s, r)
        /\ x.revision[s] = r
    BY <1>0, <2>1 DEF Shaped, ActiveAfter
  <2>3. \A t \in Sessions \ {s} : /\ x.versions[t] = d.versions[t] /\ x.active[t] = d.active[t]
                                  /\ x.revision[t] = d.revision[t]
    BY <1>0, <2>1 DEF Shaped
  <2> HIDE DEF x
  <2>4. Shaped(x)
    <3>1. InRecord(s, r) \subseteq Events /\ r \in Nat
      BY DEF InRecord, Revisions
    <3>2. \A v \in NewIds(d, s, r) : v \in VersionIds
      BY <1>0, IngestAdds
    <3>3. SetToSeq(NewIds(d, s, r)) \in Seq(VersionIds)
      BY <1>0, <3>2, IngestAdds, ListsOnce, SeqMonotonic
    <3>4. d.queued \in Seq(VersionIds) /\ d.versions \in [Sessions -> [Events -> Seq(Contents)]]
      BY <1>0 DEF Shaped
    <3>5. Appended(d, s, r) \in [Events -> Seq(Contents)]
      BY <1>0, IngestAdds
    <3>6. x.queued \in Seq(VersionIds)
      <4>1. x.queued = d.queued \o SetToSeq(NewIds(d, s, r))
        BY <2>1
      <4> QED
        BY <3>3, <3>4, <4>1, ConcatProperties
    <3>7. x.versions \in [Sessions -> [Events -> Seq(Contents)]]
      <4>1. x.versions = [d.versions EXCEPT ![s] = Appended(d, s, r)]
        BY <2>1
      <4> QED
        BY <3>4, <3>5, <4>1
    <3>8. x.revision \in [Sessions -> Nat] /\ x.active \in [Sessions -> SUBSET Events]
      BY <1>0, <2>1, <3>1 DEF Shaped, ActiveAfter
    <3> QED
      BY <1>0, <2>1, <3>6, <3>7, <3>8 DEF Shaped
  <2>5. ASSUME NEW v \in VersionIds, Has(d, v)
        PROVE  Has(x, v) /\ PayloadOf(x, v) = PayloadOf(d, v)
    <3>1. PICK t \in Sessions, e \in Events, n \in Nat : v = <<t, e, n>>
      BY DEF VersionIds
    <3>2. n \in 1 .. Len(d.versions[t][e])
      BY <2>5, <3>1 DEF Has
    <3>3. n \in 1 .. Len(x.versions[t][e]) /\ x.versions[t][e][n] = d.versions[t][e][n]
      <4>1. CASE t = s
        BY <1>0, <2>2, <3>2, <4>1, IngestAdds
      <4>2. CASE t # s
        BY <2>3, <3>2, <4>2
      <4> QED
        BY <4>1, <4>2
    <3> QED
      BY <3>1, <3>3 DEF Has, PayloadOf, TextOf
  <2>6. ASSUME NEW v \in NewIds(d, s, r)
        PROVE  v \in VersionIds /\ ~ Has(d, v) /\ Has(x, v)
    BY <1>0, <2>2, IngestAdds DEF Has
  <2>7. Delivered(x, store) /\ Waiting(x)
    <3>1. IsFiniteSet(NewIds(d, s, r))
      BY <1>0, IngestAdds
    <3>2. x.acked = d.acked /\ x.queued = d.queued \o SetToSeq(NewIds(d, s, r))
      BY <2>1
    <3> QED
      BY <2>4, <2>5, <2>6, <3>1, <3>2, QueueGrows
  <2>8. Says(x)
    <3>1. ASSUME NEW t \in Sessions \ {s}
          PROVE  /\ \A e \in x.active[t] : x.versions[t][e] # <<>>
                 /\ x.revision[t] # 0 => /\ x.revision[t] \in Revisions(t)
                                         /\ ReadEvents(x, t) = Record[t][x.revision[t]]
      BY <2>3 DEF Sound, Says, ReadEvents, Revisions
    <3>2. \A e \in x.active[s] : x.versions[s][e] # <<>>
      BY <1>0, <2>2, IngestAdds
    <3>3. ReadEvents(x, s) = Record[s][r]
      <4>1. Record[s][r] \in [Events -> Contents \cup {Absent}]
        BY SourceAssumption DEF Revisions
      <4>2. \A e \in Events :
              (IF e \in x.active[s] THEN Last(x.versions[s][e]) ELSE Absent) = Record[s][r][e]
        BY <1>0, <2>2, IngestAdds DEF InRecord
      <4> QED
        BY <4>1, <4>2 DEF ReadEvents
    <3> QED
      BY <2>2, <3>1, <3>2, <3>3 DEF Says, Revisions
  <2>9. Payloads(d) \subseteq Payloads(x)
    BY <1>0, <2>4, <2>5, PayloadFacts
  <2> QED
    BY <2>4, <2>7, <2>8, <2>9 DEF Sound, x
<1> QED
  BY <1>1, <1>2
-----------------------------------------------------------------------------
(* ARCHIVE AND RETENTION *)

LEMMA ArchiveGrows ==
  ASSUME NEW d, NEW store, NEW more, Sound(d, store), store \subseteq more
  PROVE  Sound(d, more)
  BY DEF Sound, Delivered

(* The oldest row is delivered and acknowledged. *)
LEMMA DeliverSound ==
  ASSUME NEW d, NEW store, Sound(d, store), d.queued # <<>>,
         NEW x, x = [d EXCEPT !.queued = Tail(@), !.acked = @ \cup {Head(d.queued)}]
  PROVE  /\ Sound(x, store \cup {PayloadOf(d, Head(d.queued))})
         /\ Payloads(x) = Payloads(d)
<1> DEFINE v == Head(d.queued)
           more == store \cup {PayloadOf(d, v)}
<1>1. Shaped(d)
  BY DEF Sound
<1>2. /\ d.queued \in Seq(VersionIds) /\ v \in VersionIds /\ Tail(d.queued) \in Seq(VersionIds)
      /\ v = d.queued[1] /\ 1 \in 1 .. Len(d.queued)
      /\ Len(Tail(d.queued)) \in Nat /\ Len(d.queued) = Len(Tail(d.queued)) + 1
      /\ \A i \in 1 .. Len(Tail(d.queued)) : Tail(d.queued)[i] = d.queued[i + 1]
  BY <1>1, HeadTailProperties DEF Shaped
<1>3. /\ x = [field \in DatabaseFields |-> x[field]]
      /\ x.revision = d.revision /\ x.versions = d.versions /\ x.active = d.active
      /\ x.queued = Tail(d.queued) /\ x.acked = d.acked \cup {v}
  BY <1>1 DEF Shaped, DatabaseFields
<1>4. \A u : (Has(x, u) <=> Has(d, u)) /\ PayloadOf(x, u) = PayloadOf(d, u)
  BY <1>3 DEF Has, PayloadOf, TextOf
<1> HIDE DEF v
<1>5. Shaped(x)
  BY <1>1, <1>2, <1>3 DEF Shaped
<1>6. Delivered(x, more)
  BY <1>2, <1>3, <1>4 DEF Sound, Delivered, Waiting
<1>7. Waiting(x)
  <2>1. ASSUME NEW i \in 1 .. Len(x.queued)
        PROVE  i + 1 \in 1 .. Len(d.queued) /\ x.queued[i] = d.queued[i + 1] /\ i + 1 # 1
    BY <1>2, <1>3
  <2>2. ASSUME NEW i \in 1 .. Len(x.queued)
        PROVE  Has(x, x.queued[i]) /\ x.queued[i] \notin x.acked
    BY <1>2, <1>3, <1>4, <2>1 DEF Sound, Waiting
  <2>3. ASSUME NEW i \in 1 .. Len(x.queued), NEW j \in 1 .. Len(x.queued), i # j
        PROVE  x.queued[i] # x.queued[j]
    <3>1. i + 1 # j + 1
      BY <1>2, <1>3, <2>3
    <3> QED
      BY <2>1, <3>1 DEF Sound, Waiting
  <2> QED
    BY <2>2, <2>3 DEF Waiting
<1>8. Says(x)
  <2>1. \A s \in Sessions : ReadEvents(x, s) = ReadEvents(d, s)
    BY <1>3 DEF ReadEvents
  <2> QED
    BY <1>3, <2>1 DEF Sound, Says
<1>9. Payloads(x) = Payloads(d)
  <2>1. \A s \in Sessions : IdsOf(x, s) = IdsOf(d, s)
    BY <1>3 DEF IdsOf
  <2> QED
    BY <1>4, <2>1 DEF Payloads
<1> QED
  BY <1>5, <1>6, <1>7, <1>8, <1>9 DEF Sound, v

(* Retention: what goes is archived, and none of its rows still waits. *)
LEMMA PruneSound ==
  ASSUME NEW d, NEW store, Sound(d, store), NEW gone \in SUBSET Sessions,
         \A s \in gone : Retired(d, s)
  PROVE  /\ Sound(Without(d, gone), store)
         /\ Payloads(d) \subseteq Payloads(Without(d, gone)) \cup store
<1> DEFINE x == Without(d, gone)
           ids == UNION {IdsOf(d, s) : s \in gone}
<1>1. Shaped(d)
  BY DEF Sound
<1>2. /\ x = [field \in DatabaseFields |-> x[field]]
      /\ x.revision = [s \in Sessions |-> IF s \in gone THEN 0 ELSE d.revision[s]]
      /\ x.versions = [s \in Sessions |-> IF s \in gone THEN [e \in Events |-> <<>>] ELSE d.versions[s]]
      /\ x.active = [s \in Sessions |-> IF s \in gone THEN {} ELSE d.active[s]]
      /\ x.queued = d.queued /\ x.acked = d.acked \ ids
  BY <1>1 DEF Without, Shaped, DatabaseFields
<1> HIDE DEF x
<1>3. Shaped(x)
  <2>1. [e \in Events |-> <<>>] \in [Events -> Seq(Contents)]
    BY EmptySeq
  <2>2. /\ d.versions \in [Sessions -> [Events -> Seq(Contents)]] /\ d.revision \in [Sessions -> Nat]
        /\ d.active \in [Sessions -> SUBSET Events] /\ d.queued \in Seq(VersionIds)
        /\ d.acked \subseteq VersionIds
    BY <1>1 DEF Shaped
  <2>3. x.versions \in [Sessions -> [Events -> Seq(Contents)]]
    <3>1. x.versions = [s \in Sessions |-> IF s \in gone THEN [e \in Events |-> <<>>] ELSE d.versions[s]]
      BY <1>2
    <3> QED
      BY <2>1, <2>2, <3>1
  <2>4. x.revision \in [Sessions -> Nat] /\ x.active \in [Sessions -> SUBSET Events]
    <3>1. /\ x.revision = [s \in Sessions |-> IF s \in gone THEN 0 ELSE d.revision[s]]
          /\ x.active = [s \in Sessions |-> IF s \in gone THEN {} ELSE d.active[s]]
      BY <1>2
    <3> QED
      BY <2>2, <3>1
  <2> QED
    BY <1>2, <2>2, <2>3, <2>4 DEF Shaped
<1>4. ASSUME NEW v \in VersionIds, v[1] \in gone, Has(d, v)
      PROVE  v \in ids /\ v \in d.acked
  <2>1. PICK s \in Sessions, e \in Events, n \in Nat : v = <<s, e, n>>
    BY DEF VersionIds
  <2>2. v \in IdsOf(d, s) /\ s \in gone
    BY <1>4, <2>1, IdFacts DEF Has
  <2> QED
    BY <2>2 DEF Retired
<1>5. ASSUME NEW v \in VersionIds, v[1] \notin gone
      PROVE  (Has(d, v) => Has(x, v)) /\ PayloadOf(x, v) = PayloadOf(d, v)
  BY <1>2, <1>5 DEF VersionIds, Has, PayloadOf, TextOf
<1>6. Delivered(x, store)
  BY <1>1, <1>2, <1>4, <1>5 DEF Sound, Delivered, Shaped
<1>7. Waiting(x)
  <2>1. ASSUME NEW i \in 1 .. Len(x.queued)
        PROVE  Has(x, x.queued[i]) /\ x.queued[i] \notin x.acked
    <3>1. /\ d.queued[i] \in VersionIds /\ Has(d, d.queued[i]) /\ d.queued[i] \notin d.acked
          /\ x.queued[i] = d.queued[i]
      <4>1. d.queued \in Seq(VersionIds) /\ i \in 1 .. Len(d.queued)
        BY <1>1, <1>2, <2>1 DEF Shaped
      <4>2. d.queued[i] \in VersionIds
        BY <4>1, ElementOfSeq
      <4> QED
        BY <1>2, <4>1, <4>2 DEF Sound, Waiting
    <3> QED
      BY <1>2, <1>4, <1>5, <3>1
  <2> QED
    BY <1>2, <2>1 DEF Sound, Waiting
<1>8. Says(x)
  <2> SUFFICES ASSUME NEW s \in Sessions
               PROVE  /\ \A e \in x.active[s] : x.versions[s][e] # <<>>
                      /\ x.revision[s] # 0 => /\ x.revision[s] \in 1 .. Len(Record[s])
                                              /\ ReadEvents(x, s) = Record[s][x.revision[s]]
    BY DEF Says
  <2>1. CASE s \in gone
    BY <1>2, <2>1
  <2>2. CASE s \notin gone
    <3>1. /\ x.active[s] = d.active[s] /\ x.versions[s] = d.versions[s]
          /\ x.revision[s] = d.revision[s] /\ ReadEvents(x, s) = ReadEvents(d, s)
      BY <1>2, <2>2 DEF ReadEvents
    <3> QED
      BY <3>1 DEF Sound, Says
  <2> QED
    BY <2>1, <2>2
<1>9. Payloads(d) \subseteq Payloads(x) \cup store
  <2> SUFFICES ASSUME NEW p \in Payloads(d) PROVE p \in Payloads(x) \cup store
    OBVIOUS
  <2>1. PICK v \in VersionIds : Has(d, v) /\ p = PayloadOf(d, v)
    BY <1>1, PayloadFacts
  <2>2. CASE v[1] \in gone
    BY <1>4, <2>1, <2>2 DEF Sound, Delivered
  <2>3. CASE v[1] \notin gone
    BY <1>3, <1>5, <2>1, <2>3, PayloadFacts
  <2> QED
    BY <2>2, <2>3
<1> QED
  BY <1>3, <1>6, <1>7, <1>8, <1>9 DEF Sound, x
-----------------------------------------------------------------------------
(* STEPS *)

(* The database becomes one that is as sound and keeps every payload. *)
LEMMA CommitKeeps ==
  ASSUME StoreInv, NEW x, Sound(x, archive), Payloads(db) \subseteq Payloads(x),
         Commit(x), UNCHANGED <<backup, archive>>
  PROVE  StoreInv'
<1>1. db' = x /\ written' = written \cup Payloads(x)
  BY DEF Commit
<1>2. Sound(db, archive)' /\ Sound(backup, archive)'
  BY <1>1 DEF StoreInv
<1>3. NothingLost'
  BY <1>1 DEF StoreInv, NothingLost
<1> QED
  BY <1>2, <1>3 DEF StoreInv

LEMMA CommitIngest ==
  ASSUME StoreInv, NEW s \in Sessions, NEW r \in Revisions(s),
         Commit(Ingested(db, s, r)), UNCHANGED <<backup, archive>>
  PROVE  StoreInv'
  BY IngestSound, CommitKeeps DEF StoreInv

LEMMA Quiet == ASSUME StoreInv, UNCHANGED <<db, backup, archive, written>> PROVE StoreInv'
<1>1. Sound(db, archive)' /\ Sound(backup, archive)'
  BY DEF StoreInv
<1>2. NothingLost'
  BY DEF StoreInv, NothingLost
<1> QED
  BY <1>1, <1>2 DEF StoreInv

(* Repair, delivery, backup, retention and restore. *)
LEMMA StoreSteps == ASSUME StoreInv, StoreNext \/ Restore PROVE StoreInv'
<1>0. Shaped(db) /\ Sound(db, archive) /\ Sound(backup, archive)
  BY DEF StoreInv, Sound
<1>1. ASSUME NEW w \in Repairers, RepairCheck(w) \/ StopRepair(w) PROVE StoreInv'
  BY <1>1, Quiet DEF RepairCheck, StopRepair
<1>2. ASSUME NEW w \in Repairers, RepairWrite(w) PROVE StoreInv'
  <2>1. CASE db' = db
    BY <1>2, <2>1, Quiet DEF RepairWrite
  <2>2. CASE db' # db
    <3>1. PICK chunks : db' = [db EXCEPT !.chunks = chunks]
      BY <1>2, <2>2 DEF RepairWrite
    <3>2. PICK x : x = [db EXCEPT !.chunks = chunks]
      OBVIOUS
    <3>3. /\ x = [field \in DatabaseFields |-> x[field]]
          /\ x.revision = db.revision /\ x.versions = db.versions /\ x.active = db.active
          /\ x.queued = db.queued /\ x.acked = db.acked
      BY <1>0, <3>2 DEF Shaped, DatabaseFields
    <3>4. Sound(x, archive) /\ Payloads(x) = Payloads(db)
      BY <1>0, <3>3, SameSound
    <3>5. UNCHANGED <<backup, archive, written>>
      BY <1>2 DEF RepairWrite
    <3>6. Sound(db, archive)' /\ Sound(backup, archive)'
      BY <1>0, <3>1, <3>2, <3>4, <3>5
    <3>7. NothingLost'
      BY <3>1, <3>2, <3>4, <3>5 DEF StoreInv, NothingLost
    <3> QED
      BY <3>6, <3>7 DEF StoreInv
  <2> QED
    BY <2>1, <2>2
<1>3. CASE Deliver
  <2>1. PICK x : x = [db EXCEPT !.queued = Tail(@), !.acked = @ \cup {Head(db.queued)}]
    OBVIOUS
  <2>2. PICK more : more = archive \cup {PayloadOf(db, Head(db.queued))}
    OBVIOUS
  <2>3. db' = x /\ archive' = more /\ UNCHANGED <<backup, written>> /\ db.queued # <<>>
    BY <1>3, <2>1, <2>2 DEF Deliver
  <2>4. Sound(x, more) /\ Payloads(x) = Payloads(db)
    BY <1>0, <2>1, <2>2, <2>3, DeliverSound
  <2>5. Sound(backup, more)
    BY <1>0, <2>2, ArchiveGrows
  <2>6. NothingLost'
    BY <2>2, <2>3, <2>4 DEF StoreInv, NothingLost
  <2> QED
    BY <2>3, <2>4, <2>5, <2>6 DEF StoreInv
<1>4. CASE Backup
  <2>1. PICK x : x = [db EXCEPT !.chunks = {}]
    OBVIOUS
  <2>2. /\ x = [field \in DatabaseFields |-> x[field]]
        /\ x.revision = db.revision /\ x.versions = db.versions /\ x.active = db.active
        /\ x.queued = db.queued /\ x.acked = db.acked
    BY <1>0, <2>1 DEF Shaped, DatabaseFields
  <2>3. Sound(x, archive)
    BY <1>0, <2>2, SameSound
  <2>4. backup' = x /\ UNCHANGED <<db, archive, written>>
    BY <1>4, <2>1 DEF Backup, BackupOf
  <2>5. NothingLost'
    BY <2>4 DEF StoreInv, NothingLost
  <2> QED
    BY <1>0, <2>3, <2>4, <2>5 DEF StoreInv
<1>5. ASSUME NEW gone \in SUBSET Sessions, Prune(gone) PROVE StoreInv'
  <2>1. db' = Without(db, gone) /\ UNCHANGED <<backup, archive, written>>
    BY <1>5 DEF Prune
  <2>2. /\ Sound(Without(db, gone), archive)
        /\ Payloads(db) \subseteq Payloads(Without(db, gone)) \cup archive
    BY <1>0, <1>5, PruneSound DEF Prune
  <2>3. NothingLost'
    BY <2>1, <2>2 DEF StoreInv, NothingLost
  <2> QED
    BY <1>0, <2>1, <2>2, <2>3 DEF StoreInv
<1>6. CASE Restore
  <2>1. /\ db' = backup /\ UNCHANGED <<backup, archive>>
        /\ written' = Payloads(backup) \cup archive
    BY <1>6 DEF Restore
  <2>2. NothingLost'
    BY <2>1 DEF NothingLost
  <2> QED
    BY <1>0, <2>1, <2>2 DEF StoreInv
<1> QED
  BY <1>1, <1>2, <1>3, <1>4, <1>5, <1>6 DEF StoreNext
-----------------------------------------------------------------------------
(* THE IMPORTS *)

(* What is shown of some conversations is fresh. *)
LEMMA ShownFresh ==
  ASSUME Sourced, NEW page \in SUBSET Sessions, NEW rows, rows = {RowOf(s) : s \in page}
  PROVE  Fresh(rows)
<1>1. \A s \in page : RowOf(s) \in {r \in Row : r.revision = 0}
  BY DEF Sourced, RowOf, Row
<1>2. IsFiniteSet(page)
  BY SourceAssumption, FS_Subset
<1>3. PICK f : f = [s \in page |-> RowOf(s)]
  OBVIOUS
<1>4. f \in Surjection(page, rows)
  BY <1>3 DEF Surjection
<1>5. IsFiniteSet(rows)
  BY <1>2, <1>4, FS_Surjection
<1> QED
  BY <1>1, <1>5 DEF Fresh

LEMMA FoundFresh ==
  ASSUME Sourced, NEW page \in SUBSET Sessions PROVE Fresh(Found(page))
<1>1. PICK rows : rows = {RowOf(s) : s \in page}
  OBVIOUS
<1>2. Fresh(rows) /\ Fresh(import.found)
  BY <1>1, ShownFresh DEF Sourced
<1>3. Found(page) = import.found \cup rows
  BY <1>1 DEF Found
<1>4. IsFiniteSet(import.found \cup rows)
  BY <1>2, FS_Union DEF Fresh
<1> QED
  BY <1>2, <1>3, <1>4 DEF Fresh

LEMMA SelectedFresh ==
  ASSUME NEW rows, Fresh(rows), NEW kind, NEW cursor, NEW since
  PROVE  Fresh(Selected(rows, kind, cursor, since))
<1>1. Selected(rows, kind, cursor, since) \subseteq rows
  BY DEF Selected
<1> QED
  BY <1>1, FS_Subset DEF Fresh

(* The first rows of a selection are a prefix of it. *)
LEMMA LimitedIsPrefix ==
  ASSUME NEW S, IsFiniteSet(S), NEW order \in [1 .. Cardinality(S) -> S],
         NEW limit \in Limits, NEW q, q = Limited(order, limit)
  PROVE  /\ q \in Seq(S) /\ Len(q) \in 0 .. Cardinality(S)
         /\ \A i \in 1 .. Len(q) : q[i] = order[i] /\ q[i] \in S
         /\ order # <<>> => q # <<>>
<1>1. Cardinality(S) \in Nat
  BY FS_CardinalityType
<1>2. order \in Seq(S) /\ Len(order) = Cardinality(S)
  BY <1>1
<1>3. CASE limit = 0
  <2>1. q = order
    BY <1>3 DEF Limited
  <2> QED
    BY <1>1, <1>2, <2>1
<1>4. CASE limit # 0
  <2>1. limit \in Nat
    BY ImportBoundAssumption
  <2>2. PICK m : m = (IF limit < Len(order) THEN limit ELSE Len(order))
    OBVIOUS
  <2>3. m \in 0 .. Len(order) /\ (Len(order) # 0 => m # 0)
    BY <1>1, <1>2, <1>4, <2>1, <2>2
  <2>4. q = SubSeq(order, 1, m)
    BY <1>4, <2>2 DEF Limited
  <2>5. /\ q \in Seq(S) /\ Len(q) = m
        /\ \A i \in 1 .. m : q[i] = order[i] /\ i \in 1 .. Cardinality(S)
    BY <1>1, <1>2, <2>3, <2>4
  <2>6. order # <<>> => Len(order) # 0
    BY <1>2, EmptySeq
  <2> QED
    BY <1>1, <1>2, <2>5, <2>6, <2>3, EmptySeq
<1> QED
  BY <1>3, <1>4

LEMMA ListedRows ==
  ASSUME NEW S, Fresh(S), NEW order \in [1 .. Cardinality(S) -> S],
         NEW limit \in Limits, NEW q, q = Limited(order, limit)
  PROVE  Rows(q)
<1>1. IsFiniteSet(S) /\ \A r \in S : r \in Row /\ r.revision = 0
  BY DEF Fresh
<1>2. q \in Seq(S) /\ Len(q) \in Nat /\ \A i \in 1 .. Len(q) : q[i] \in S
  BY <1>1, LimitedIsPrefix, FS_CardinalityType
<1>3. q \in Seq(Row)
  BY <1>1, <1>2
<1> QED
  BY <1>1, <1>2, <1>3 DEF Rows

(* A conversation is read: its revision joins the row. *)
LEMMA ReadRow ==
  ASSUME Sourced, NEW i, NEW q,
         q = [import.rows EXCEPT ![i].revision = source[import.rows[i].session].revision]
  PROVE  Rows(q) /\ Len(q) = Len(import.rows)
<1>1. Rows(import.rows) /\ import.rows \in Seq(Row) /\ Len(import.rows) \in Nat
  BY DEF Sourced, Rows
<1>2. PICK row : row = [import.rows[i] EXCEPT !.revision = source[import.rows[i].session].revision]
  OBVIOUS
<1>3. q = [import.rows EXCEPT ![i] = row]
  BY <1>2
<1>4. CASE i \in 1 .. Len(import.rows)
  <2>1. import.rows[i] \in Row
    BY <1>1, <1>4, ElementOfSeq
  <2>2. /\ source[import.rows[i].session].revision \in Revisions(import.rows[i].session)
        /\ source[import.rows[i].session].revision \in Nat
    BY <2>1 DEF Sourced, Row
  <2>3. row \in Row /\ row.session = import.rows[i].session /\ row.revision \in Revisions(row.session)
    BY <1>2, <2>1, <2>2 DEF Row
  <2>4. q \in Seq(Row) /\ Len(q) = Len(import.rows)
    BY <1>1, <1>3, <1>4, <2>3, ExceptSeq
  <2>5. \A j \in 1 .. Len(q) : q[j] = IF j = i THEN row ELSE import.rows[j]
    BY <1>1, <1>3, <2>4, LenProperties
  <2>6. \A j \in 1 .. Len(q) : q[j].revision \in {0} \cup Revisions(q[j].session)
    <3>1. ASSUME NEW j \in 1 .. Len(q), j # i
          PROVE  import.rows[j].revision \in {0} \cup Revisions(import.rows[j].session)
      BY <1>1, <2>4 DEF Rows
    <3> QED
      BY <2>3, <2>5, <3>1
  <2> QED
    BY <2>4, <2>6 DEF Rows
<1>5. CASE i \notin 1 .. Len(import.rows)
  <2>1. DOMAIN import.rows = 1 .. Len(import.rows)
        /\ import.rows \in [1 .. Len(import.rows) -> Row]
    BY <1>1, LenProperties
  <2>2. q = import.rows
    BY <1>3, <1>5, <2>1
  <2> QED
    BY <1>1, <2>2
<1> QED
  BY <1>4, <1>5

LEMMA TailRows ==
  ASSUME NEW q, Rows(q), q # <<>>
  PROVE  /\ Rows(Tail(q)) /\ (Len(q) > 1 => Tail(q) # <<>>)
         /\ Head(q) \in Row /\ Head(q).revision \in {0} \cup Revisions(Head(q).session)
<1>1. q \in Seq(Row) /\ 1 \in 1 .. Len(q) /\ Head(q) = q[1]
  BY HeadTailProperties, EmptySeq DEF Rows
<1>2. /\ Tail(q) \in Seq(Row) /\ Len(Tail(q)) = Len(q) - 1
      /\ \A i \in 1 .. Len(Tail(q)) : Tail(q)[i] = q[i + 1]
  BY HeadTailProperties DEF Rows
<1>3. \A i \in 1 .. Len(Tail(q)) : i + 1 \in 1 .. Len(q)
  BY <1>1, <1>2
<1>4. Rows(Tail(q))
  BY <1>2, <1>3 DEF Rows
<1>5. Head(q) \in Row /\ Head(q).revision \in {0} \cup Revisions(Head(q).session)
  BY <1>1, ElementOfSeq DEF Rows
<1>6. Len(q) > 1 => Tail(q) # <<>>
  <2>1. Len(q) \in Nat
    BY <1>1, LenProperties
  <2>2. Len(q) > 1 => Len(Tail(q)) # 0
    BY <1>2, <2>1
  <2> QED
    BY <2>2
<1> QED
  BY <1>4, <1>5, <1>6

(* Every action that touches the import or the source. *)
LEMMA SourceSteps == ASSUME Sourced, Next PROVE Sourced'
<1>0. /\ source \in [Sessions -> [revision : Nat, updated_at : Nat]] /\ clock \in Nat
      /\ \A s \in Sessions : source[s].revision \in Revisions(s)
      /\ import = [field \in ImportFields |-> import[field]] /\ Rows(import.rows)
      /\ import.pc = "rows" => import.rows # <<>>
      /\ Fresh(import.found) /\ Fresh({})
  BY FS_EmptySet DEF Sourced, Fresh
<1>1. CASE UNCHANGED <<source, clock, import>>
  BY <1>1 DEF Sourced
<1>2. ASSUME UNCHANGED <<source, clock>>, NEW x, import' = x,
             x = [field \in ImportFields |-> x[field]], Rows(x.rows),
             x.pc = "rows" => x.rows # <<>>, Fresh(x.found)
      PROVE  Sourced'
  BY <1>0, <1>2 DEF Sourced
<1>3. ASSUME NEW kind, UNCHANGED <<source, clock>>, import' = NoImport(kind)
      PROVE  Sourced'
  <2>1. PICK x : x = NoImport(kind)
    OBVIOUS
  <2>2. x = [field \in ImportFields |-> x[field]] /\ x.rows = <<>> /\ x.pc = "idle" /\ x.found = {}
    BY <2>1 DEF NoImport, ImportFields
  <2>3. Rows(<<>>)
    BY EmptySeq DEF Rows
  <2> QED
    BY <1>0, <1>2, <1>3, <2>1, <2>2, <2>3
<1>4. CASE Tick
  <2>1. clock' \in Nat
    BY <1>0, <1>4 DEF Tick
  <2>2. UNCHANGED <<source, import>>
    BY <1>4 DEF Tick, storeVars
  <2> QED
    BY <1>0, <2>1, <2>2 DEF Sourced
<1>5. ASSUME NEW s \in Sessions, Change(s) PROVE Sourced'
  <2>1. source' = [source EXCEPT ![s] = [revision |-> source[s].revision + 1, updated_at |-> clock]]
    BY <1>5 DEF Change
  <2>2. /\ source[s].revision \in Revisions(s) /\ source[s].revision \in Nat
        /\ source[s].revision < Len(Record[s]) /\ Len(Record[s]) \in Nat
    BY <1>0, <1>5, SourceAssumption, LenProperties DEF Change
  <2>3. source[s].revision + 1 \in Revisions(s) /\ source[s].revision + 1 \in Nat
    BY <2>2 DEF Revisions
  <2>4. source' \in [Sessions -> [revision : Nat, updated_at : Nat]]
    BY <1>0, <2>1, <2>3
  <2>5. \A t \in Sessions : source'[t].revision \in Revisions(t)
    BY <1>0, <2>1, <2>3
  <2>6. PICK moved : import' = import \/ import' = [import EXCEPT !.moved = moved]
    BY <1>5 DEF Change
  <2>7. PICK x : x = import'
    OBVIOUS
  <2>8. /\ x = [field \in ImportFields |-> x[field]] /\ x.rows = import.rows
        /\ x.pc = import.pc /\ x.found = import.found
    BY <1>0, <2>6, <2>7 DEF ImportFields
  <2>9. clock' = clock
    BY <1>5 DEF Change
  <2> QED
    BY <1>0, <2>4, <2>5, <2>7, <2>8, <2>9 DEF Sourced
<1>6. ASSUME NEW S, Fresh(S), NEW order \in [1 .. Cardinality(S) -> S], NEW limit \in Limits,
             Limited(order, limit) # <<>>, NEW kind, NEW cursor,
             import' = ToImport(kind, Limited(order, limit), cursor), UNCHANGED <<source, clock>>
      PROVE  Sourced'
  <2>1. PICK q : q = Limited(order, limit)
    OBVIOUS
  <2>2. Rows(q) /\ q # <<>>
    BY <1>6, <2>1, ListedRows
  <2>3. PICK x : x = ToImport(kind, q, cursor)
    OBVIOUS
  <2>4. x = [field \in ImportFields |-> x[field]] /\ x.rows = q /\ x.found = {}
    BY <2>3 DEF ImportFields, ToImport
  <2>5. import' = x
    BY <1>6, <2>1, <2>3
  <2> QED
    BY <1>0, <1>2, <1>6, <2>2, <2>4, <2>5
<1>7. CASE Read
  <2>1. PICK i : i = Min(Unread)
    OBVIOUS
  <2>2. PICK q : q = [import.rows EXCEPT ![i].revision = source[import.rows[i].session].revision]
    OBVIOUS
  <2>3. PICK x : x = [import EXCEPT !.rows = q]
    OBVIOUS
  <2>4. import' = x /\ UNCHANGED <<source, clock>> /\ import.rows # <<>>
    BY <1>0, <1>7, <2>1, <2>2, <2>3 DEF Read
  <2>5. Rows(q) /\ Len(q) = Len(import.rows)
    BY <2>2, ReadRow
  <2>6. q # <<>>
    BY <1>0, <2>4, <2>5, EmptySeq DEF Rows
  <2>7. x = [field \in ImportFields |-> x[field]] /\ x.rows = q /\ x.found = import.found
    BY <1>0, <2>3 DEF ImportFields
  <2> QED
    BY <1>0, <1>2, <2>4, <2>5, <2>6, <2>7
<1>8. CASE Store
  <2>1. Rows(Tail(import.rows)) /\ (Len(import.rows) > 1 => Tail(import.rows) # <<>>)
    BY <1>0, <1>8, TailRows DEF Store, Ready
  <2>2. PICK q : q = Tail(import.rows)
    OBVIOUS
  <2>3. PICK more : more = (Len(import.rows) > 1)
    OBVIOUS
  <2>4. PICK later : later = Less(import.last, RowKey(Head(import.rows)))
    OBVIOUS
  <2>5. PICK last : last = IF import.kind = "server" THEN Later(import.last, RowKey(Head(import.rows)))
                           ELSE RowKey(Head(import.rows))
    OBVIOUS
  <2>6. PICK pc : pc = IF import.kind = "server"
                       THEN IF later THEN "save" ELSE IF more THEN "rows" ELSE "idle"
                       ELSE IF more THEN "rows" ELSE "save"
    OBVIOUS
  <2>7. import' = [import EXCEPT !.rows = q, !.last = last, !.pc = pc] /\ UNCHANGED <<source, clock>>
    BY <1>8, <2>2, <2>3, <2>4, <2>5, <2>6 DEF Store
  <2>8. PICK x : x = [import EXCEPT !.rows = q, !.last = last, !.pc = pc]
    OBVIOUS
  <2>9. x = [field \in ImportFields |-> x[field]] /\ x.rows = q /\ x.pc = pc /\ x.found = import.found
    BY <1>0, <2>8 DEF ImportFields
  <2>10. pc = "rows" => more
    BY <2>6
  <2> QED
    BY <1>0, <1>2, <2>1, <2>2, <2>3, <2>7, <2>8, <2>9, <2>10
<1>9. CASE Fail
  <2>1. CASE import.kind = "server"
    BY <1>3, <1>9, <2>1 DEF Fail
  <2>2. CASE import.kind # "server"
    <3>1. PICK x : x = [import EXCEPT !.rows = <<>>, !.pc = "save"]
      OBVIOUS
    <3>2. x = [field \in ImportFields |-> x[field]] /\ x.rows = <<>> /\ x.pc = "save" /\ x.found = import.found
      BY <1>0, <3>1 DEF ImportFields
    <3>3. Rows(<<>>)
      BY EmptySeq DEF Rows
    <3> QED
      BY <1>0, <1>2, <1>9, <2>2, <3>1, <3>2, <3>3 DEF Fail
  <2> QED
    BY <2>1, <2>2
<1>10. CASE SaveCursor
  <2>1. CASE import.rows = <<>>
    BY <1>3, <1>10, <2>1 DEF SaveCursor
  <2>2. CASE import.rows # <<>>
    <3>1. PICK x : x = [import EXCEPT !.pc = "rows"]
      OBVIOUS
    <3>2. x = [field \in ImportFields |-> x[field]] /\ x.rows = import.rows /\ x.found = import.found
      BY <1>0, <3>1 DEF ImportFields
    <3> QED
      BY <1>0, <1>2, <1>10, <2>2, <3>1, <3>2 DEF SaveCursor
  <2> QED
    BY <2>1, <2>2
<1>11. CASE StopImport
  BY <1>3, <1>11 DEF StopImport
<1>12. ASSUME NEW s \in Sessions, NEW r \in 1 .. source[s].revision, Capture(s, r) PROVE Sourced'
  BY <1>1, <1>12 DEF Capture
<1>13. CASE UNCHANGED importVars
  BY <1>1, <1>13 DEF importVars
<1>14. ASSUME NEW since, NEW limit \in Limits, Start(since, limit) PROVE Sourced'
  <2>1. PICK rows : rows = {RowOf(s) : s \in Sessions}
    OBVIOUS
  <2>2. PICK S : S = Selected(rows, "database", db.cursor, since)
    OBVIOUS
  <2>3. Fresh(S)
    BY <2>1, <2>2, ShownFresh, SelectedFresh
  <2>4. PICK order \in Orders(S) :
          /\ Limited(order, limit) # <<>>
          /\ import' = ToImport("database", Limited(order, limit), db.cursor)
          /\ UNCHANGED <<source, clock>>
    BY <1>14, <2>1, <2>2 DEF Start
  <2>5. order \in [1 .. Cardinality(S) -> S]
    BY <2>4 DEF Orders
  <2> QED
    BY <1>6, <2>3, <2>4, <2>5
<1>15. ASSUME NEW page \in SUBSET Sessions, NEW since, NEW limit \in Limits,
              LastPage(page, since, limit)
       PROVE  Sourced'
  <2>1. PICK S : S = Selected(Found(page), "server", import.last, since)
    OBVIOUS
  <2>2. Fresh(S)
    BY <2>1, FoundFresh, SelectedFresh
  <2>3. PICK order \in Orders(S) :
          /\ order = <<>> => import' = NoImport("server")
          /\ order # <<>> => import' = ToImport("server", Limited(order, limit), import.last)
          /\ UNCHANGED <<source, clock>>
    BY <1>15, <2>1 DEF LastPage
  <2>4. order \in [1 .. Cardinality(S) -> S] /\ IsFiniteSet(S)
    BY <2>2, <2>3 DEF Orders, Fresh
  <2>5. CASE order = <<>>
    BY <1>3, <2>3, <2>5
  <2>6. CASE order # <<>>
    <3>1. Limited(order, limit) # <<>>
      BY <2>4, <2>6, LimitedIsPrefix
    <3> QED
      BY <1>6, <2>2, <2>3, <2>4, <2>6, <3>1
  <2> QED
    BY <2>5, <2>6
<1>16. CASE Begin
  <2>1. PICK y, last : y = NoImport("server") /\ last = db.cursor
    OBVIOUS
  <2>2. PICK x : x = [y EXCEPT !.pc = "list", !.last = last] /\ import' = x
    BY <1>16, <2>1 DEF Begin
  <2>3. /\ x = [field \in ImportFields |-> x[field]] /\ x.rows = <<>> /\ x.pc = "list"
        /\ x.found = {}
    BY <2>2, <2>1 DEF NoImport, ImportFields
  <2>4. Rows(<<>>)
    BY EmptySeq DEF Rows
  <2>5. UNCHANGED <<source, clock>>
    BY <1>16 DEF Begin
  <2> QED
    BY <1>0, <1>2, <2>2, <2>3, <2>4, <2>5
<1>17. ASSUME NEW found, Fresh(found), NEW moved,
              \/ import' = [import EXCEPT !.found = found]
              \/ import' = [import EXCEPT !.found = found, !.moved = moved],
              UNCHANGED <<source, clock>>
       PROVE  Sourced'
  <2>1. PICK x : x = import'
    OBVIOUS
  <2>2. /\ x = [field \in ImportFields |-> x[field]] /\ x.rows = import.rows
        /\ x.pc = import.pc /\ x.found = found
    BY <1>0, <1>17, <2>1 DEF ImportFields
  <2> QED
    BY <1>0, <1>2, <1>17, <2>1, <2>2
<1>18. CASE ListAgain
  BY <1>0, <1>17, <1>18 DEF ListAgain
<1>19. ASSUME NEW page \in SUBSET Sessions, Page(page) PROVE Sourced'
  BY <1>17, <1>19, FoundFresh DEF Page
<1>20. CASE Listing
  BY <1>20, <1>14, <1>15, <1>16, <1>18, <1>19 DEF Listing
<1> QED
  BY <1>4, <1>5, <1>7, <1>8, <1>9, <1>10, <1>11, <1>12, <1>13, <1>20 DEF Next
-----------------------------------------------------------------------------
(* THE INVARIANT *)

ImportInv == StoreInv /\ Sourced

(* What an import commits is a revision it has read. *)
LEMMA ImportSteps == ASSUME ImportInv, Next PROVE StoreInv'
<1>0. Shaped(db) /\ Sound(db, archive) /\ StoreInv /\ Sourced
  BY DEF ImportInv, StoreInv, Sound
(* Bookkeeping in the database leaves sessions and outbox alone. *)
<1>1. ASSUME NEW x, x = [field \in DatabaseFields |-> x[field]],
             x.revision = db.revision, x.versions = db.versions, x.active = db.active,
             x.queued = db.queued, x.acked = db.acked,
             Commit(x), UNCHANGED <<backup, archive>>
      PROVE  StoreInv'
  <2>1. Sound(x, archive) /\ Payloads(x) = Payloads(db)
    BY <1>0, <1>1, SameSound
  <2> QED
    BY <1>0, <1>1, <2>1, CommitKeeps
<1>2. ASSUME NEW s \in Sessions, NEW r \in 1 .. source[s].revision, Capture(s, r) PROVE StoreInv'
  <2>1. source[s].revision \in Revisions(s) /\ Len(Record[s]) \in Nat
    BY <1>0, SourceAssumption, LenProperties DEF Sourced
  <2>2. r \in Revisions(s)
    BY <2>1 DEF Revisions
  <2>3. Commit(Ingested(db, s, r)) /\ UNCHANGED <<backup, archive>>
    BY <1>2 DEF Capture
  <2> QED
    BY <1>0, <2>2, <2>3, CommitIngest
<1>3. CASE Store
  <2>1. import.pc = "rows" /\ Rows(import.rows) /\ import.rows # <<>>
    BY <1>0, <1>3 DEF Store, Ready, Sourced
  <2>2. PICK row : row = Head(import.rows)
    OBVIOUS
  <2>3. row \in Row /\ row.revision \in {0} \cup Revisions(row.session)
    BY <2>1, <2>2, TailRows
  <2>4. row.revision # 0
    <3>1. /\ import.rows \in Seq(Row) /\ 1 \in 1 .. Len(import.rows) /\ row = import.rows[1]
      BY <2>1, <2>2, HeadTailProperties, EmptySeq DEF Rows
    <3>2. 1 \notin Unread
      BY <1>3 DEF Store, Ready
    <3> QED
      BY <3>1, <3>2 DEF Unread
  <2>5. PICK s \in Sessions : \E r \in Revisions(s) : row.session = s /\ row.revision = r
    BY <2>3, <2>4 DEF Row
  <2>6. PICK r \in Revisions(s) : row.session = s /\ row.revision = r
    BY <2>5
  <2>7. Commit(Imported(row)) /\ UNCHANGED <<backup, archive>>
    BY <1>3, <2>2 DEF Store
  <2>8. CASE <<s, r>> \in Unsyncable
    <3>1. PICK x : x = [db EXCEPT !.handled[s] = r]
      OBVIOUS
    <3>2. /\ x = [field \in DatabaseFields |-> x[field]]
          /\ x.revision = db.revision /\ x.versions = db.versions /\ x.active = db.active
          /\ x.queued = db.queued /\ x.acked = db.acked
      BY <1>0, <3>1 DEF Shaped, DatabaseFields
    <3>3. Commit(x)
      BY <2>6, <2>7, <2>8, <3>1 DEF Imported
    <3> QED
      BY <1>1, <2>7, <3>2, <3>3
  <2>9. CASE <<s, r>> \notin Unsyncable
    <3>1. Commit(Ingested(db, s, r))
      BY <2>6, <2>7, <2>9 DEF Imported
    <3> QED
      BY <1>0, <2>7, <3>1, CommitIngest
  <2> QED
    BY <2>8, <2>9
<1>4. CASE SaveCursor
  <2>1. PICK x : x = [db EXCEPT !.cursor = import.last]
    OBVIOUS
  <2>2. /\ x = [field \in DatabaseFields |-> x[field]]
        /\ x.revision = db.revision /\ x.versions = db.versions /\ x.active = db.active
        /\ x.queued = db.queued /\ x.acked = db.acked
    BY <1>0, <2>1 DEF Shaped, DatabaseFields
  <2>3. Commit(x) /\ UNCHANGED <<backup, archive>>
    BY <1>4, <2>1 DEF SaveCursor
  <2> QED
    BY <1>1, <2>2, <2>3
<1>5. CASE Tick \/ Listing \/ Read \/ Fail \/ StopImport
  BY <1>0, <1>5, Quiet DEF Tick, Listing, Begin, ListAgain, Page, LastPage, Start, Read, Fail,
                           StopImport, storeVars
<1>6. ASSUME NEW s \in Sessions, Change(s) PROVE StoreInv'
  BY <1>0, <1>6, Quiet DEF Change, storeVars
<1>7. CASE StoreNext \/ RestoreIdle
  BY <1>0, <1>7, StoreSteps DEF RestoreIdle
<1> QED
  BY <1>2, <1>3, <1>4, <1>5, <1>6, <1>7 DEF Next

LEMMA InitImport == Init => ImportInv
<1> SUFFICES ASSUME Init PROVE ImportInv
  OBVIOUS
<1>1. PICK d : d = EmptyDatabase
  OBVIOUS
<1>2. /\ d = [field \in DatabaseFields |-> d[field]]
      /\ d.revision = [s \in Sessions |-> 0] /\ d.versions = [s \in Sessions |-> [e \in Events |-> <<>>]]
      /\ d.active = [s \in Sessions |-> {}] /\ d.queued = <<>> /\ d.acked = {}
  BY <1>1 DEF EmptyDatabase, DatabaseFields
<1>3. Shaped(d)
  <2>1. [e \in Events |-> <<>>] \in [Events -> Seq(Contents)]
    BY EmptySeq
  <2>2. d.versions \in [Sessions -> [Events -> Seq(Contents)]] /\ d.queued \in Seq(VersionIds)
    BY <1>2, <2>1, EmptySeq
  <2> QED
    BY <1>2, <2>2 DEF Shaped
<1>4. Delivered(d, {}) /\ Waiting(d)
  BY <1>2, EmptySeq DEF Delivered, Waiting
<1>5. Says(d)
  BY <1>2 DEF Says
<1>6. StoreInv
  BY <1>1, <1>3, <1>4, <1>5 DEF Init, StoreInit, StoreInv, Sound, NothingLost
<1>7. Sourced
  <2>1. \A s \in Sessions : 1 \in Revisions(s)
    <3>1. ASSUME NEW s \in Sessions PROVE Len(Record[s]) \in Nat /\ Len(Record[s]) # 0
      BY SourceAssumption, EmptySeq, LenProperties
    <3> QED
      BY <3>1 DEF Revisions
  <2>2. PICK kind : import = NoImport(kind)
    BY DEF Init
  <2>3. /\ import = [field \in ImportFields |-> import[field]] /\ import.rows = <<>>
        /\ import.pc = "idle" /\ import.found = {}
    BY <2>2 DEF NoImport, ImportFields
  <2>4. Rows(<<>>) /\ Fresh({})
    BY EmptySeq, FS_EmptySet DEF Rows, Fresh
  <2>5. /\ source \in [Sessions -> [revision : Nat, updated_at : Nat]] /\ clock \in Nat
        /\ \A s \in Sessions : source[s].revision = 1
    BY ImportBoundAssumption DEF Init
  <2> QED
    BY <2>1, <2>3, <2>4, <2>5 DEF Sourced
<1> QED
  BY <1>6, <1>7 DEF ImportInv

LEMMA NextImport == ImportInv /\ [Next]_vars => ImportInv'
<1> SUFFICES ASSUME ImportInv, [Next]_vars PROVE ImportInv'
  OBVIOUS
<1>1. CASE Next
  BY <1>1, ImportSteps, SourceSteps DEF ImportInv
<1>2. CASE UNCHANGED vars
  <2>1. StoreInv'
    BY <1>2, Quiet DEF ImportInv, vars, storeVars
  <2>2. Sourced'
    BY <1>2 DEF ImportInv, Sourced, vars, importVars
  <2> QED
    BY <2>1, <2>2 DEF ImportInv
<1> QED
  BY <1>1, <1>2

THEOREM ImportInvariant == Spec => []ImportInv
  BY InitImport, NextImport, PTL DEF Spec

(* Retention deletes only what the archive holds: whatever was ever        *)
(* committed is in the store or in the archive, in every interleaving of   *)
(* imports, capture, delivery, retention, backup and restore.              *)
THEOREM NothingLostAlways == Spec => []NothingLost
<1>1. ImportInv => NothingLost
  BY DEF ImportInv, StoreInv
<1> QED
  BY <1>1, ImportInvariant, PTL

(* Reading a session gives the record that was ingested last.              *)
THEOREM ReadsBackAlways == Spec => []ReadsBackRecord
<1>1. ImportInv => ReadsBackRecord
  BY DEF ImportInv, StoreInv, Sound, Says, ReadsBackRecord
<1> QED
  BY <1>1, ImportInvariant, PTL
=============================================================================
