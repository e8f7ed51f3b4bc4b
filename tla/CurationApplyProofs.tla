------------------------- MODULE CurationApplyProofs -------------------------
(***************************************************************************)
(* Proofs about CurationApply, for any pages, manifests, agents, workers,  *)
(* operators and stops: a group is applied as a whole or not at all, the   *)
(* bookkeeping agrees, everything is queued for the archive, a patch       *)
(* writes once and on its base, superseded pages lead to active ones, and  *)
(* CurationApply implements GroupDecisions.                                *)
(*                                                                         *)
(* A write transaction is open over several steps, in which the committed  *)
(* database does not change but everything else may.  So the inductive     *)
(* invariants speak about db and work together: Shape (who holds the lock, *)
(* what a worker in a cycle still knows of its runs) and InProgress (how   *)
(* far the open group is) carry everything else.  Each step is first       *)
(* reduced to what it does to the database (WorkerStep): nothing, a        *)
(* rollback, a begin, one patch, a commit, or one short transaction.  Each *)
(* property is then an invariant over these kinds of step.                 *)
(***************************************************************************)
EXTENDS CurationApply, SequenceTheorems, FiniteSetTheorems, WellFoundedInduction, TLAPS

(* The operations on a database value change the fields they name.         *)
LEMMA DatabaseFields ==
  ASSUME NEW d \in Database
  PROVE  /\ d.versions \in [Paths -> Seq(Version)]
         /\ d.status \in [Paths -> {"active", "superseded"}]
         /\ d.canonical \in [Paths -> Paths \cup {NoPath}]
         /\ d.links \in SUBSET (Paths \X Paths)
         /\ d.alias \in [Paths -> Paths \cup {NoPath}]
         /\ d.receipt \in [Patches -> Decisions \cup {"none"}]
         /\ d.conflict \in [Groups -> {"none", "pending", "keep_local", "merged", "accept_remote"}]
         /\ d.applied \in SUBSET Runs
         /\ d.outbox \in SUBSET ([kind : {"page_version"}, path : Paths, number : Nat]
                                 \cup [kind : {"curation_receipt"}, patch : Patches])
         /\ d = [versions |-> d.versions, status |-> d.status, canonical |-> d.canonical,
                 links |-> d.links, alias |-> d.alias, receipt |-> d.receipt,
                 conflict |-> d.conflict, applied |-> d.applied, outbox |-> d.outbox]
  BY DEF Database

PageRow(p, n) == [kind |-> "page_version", path |-> p, number |-> n]
ReceiptRow(x) == [kind |-> "curation_receipt", patch |-> x]

SameButVersions(d, e) ==
  /\ e.status = d.status /\ e.canonical = d.canonical /\ e.links = d.links
  /\ e.alias = d.alias /\ e.receipt = d.receipt /\ e.conflict = d.conflict
  /\ e.applied = d.applied

(* Writing a page adds one version and its outbox row, or changes nothing  *)
(* when the content is already the latest.                                 *)
LEMMA WriteContentFacts ==
  ASSUME NEW d \in Database, NEW p \in Paths, NEW c \in Contents,
         NEW a \in Patches \cup {Agent}, NEW e, e = WriteContent(d, p, c, a)
  PROVE  /\ e \in Database
         /\ SameButVersions(d, e)
         /\ \/ e = d /\ Exists(d, p) /\ Content(d, p) = c
            \/ /\ Exists(d, p) => Content(d, p) # c
               /\ e.versions = [d.versions EXCEPT ![p] = Append(@, [content |-> c, by |-> a])]
               /\ e.outbox = d.outbox \cup {PageRow(p, Number(d, p) + 1)}
<1>1. CASE Exists(d, p) /\ Content(d, p) = c
  BY <1>1 DEF WriteContent, SameButVersions
<1>2. CASE ~ (Exists(d, p) /\ Content(d, p) = c)
  <2>1. e = [d EXCEPT !.versions = [d.versions EXCEPT ![p] = Append(@, [content |-> c, by |-> a])],
                      !.outbox = @ \cup {PageRow(p, Number(d, p) + 1)}]
    BY <1>2, DatabaseFields DEF WriteContent, PageRow
  <2> DEFINE vs == [d.versions EXCEPT ![p] = Append(@, [content |-> c, by |-> a])]
             ob == d.outbox \cup {PageRow(p, Number(d, p) + 1)}
  <2>2. vs \in [Paths -> Seq(Version)]
    <3>1. d.versions[p] \in Seq(Version) /\ [content |-> c, by |-> a] \in Version
      BY DatabaseFields DEF Version
    <3>2. Append(d.versions[p], [content |-> c, by |-> a]) \in Seq(Version)
      BY <3>1, AppendProperties
    <3> QED BY <3>2, DatabaseFields
  <2>3. PageRow(p, Number(d, p) + 1) \in [kind : {"page_version"}, path : Paths, number : Nat]
    <3>1. d.versions[p] \in Seq(Version)
      BY DatabaseFields
    <3>2. Number(d, p) \in Nat
      BY <3>1, LenProperties DEF Number
    <3> QED BY <3>2 DEF PageRow
  <2>4. ob \in SUBSET ([kind : {"page_version"}, path : Paths, number : Nat]
                                 \cup [kind : {"curation_receipt"}, patch : Patches])
    BY <2>3, DatabaseFields
  <2> HIDE DEF vs, ob
  <2>5. e = [d EXCEPT !.versions = vs, !.outbox = ob]
    BY <2>1 DEF vs, ob
  <2>6. e \in Database /\ SameButVersions(d, e) /\ e.versions = vs /\ e.outbox = ob
    BY <2>2, <2>4, <2>5 DEF Database, SameButVersions
  <2> QED BY <1>2, <2>6 DEF vs, ob
<1> QED BY <1>1, <1>2

ReceiptWritten(d, x, s, e) ==
  /\ e \in Database
  /\ e.versions = d.versions /\ e.status = d.status /\ e.canonical = d.canonical
  /\ e.conflict = d.conflict /\ e.applied = d.applied
  /\ e.receipt = [d.receipt EXCEPT ![x] = s]
  /\ e.outbox = d.outbox \cup {ReceiptRow(x)}

(* Recording a decision writes one receipt and its outbox row. *)
LEMMA WithReceiptFacts ==
  ASSUME NEW d \in Database, NEW x \in Patches, NEW s \in Decisions,
         d.receipt[x] = "none", NEW e, e = WithReceipt(d, x, s)
  PROVE  ReceiptWritten(d, x, s, e)
<1>1. e = [d EXCEPT !.receipt = [d.receipt EXCEPT ![x] = s],
                    !.outbox = d.outbox \cup {ReceiptRow(x)}]
  BY DatabaseFields DEF WithReceipt, ReceiptRow
<1> DEFINE rs == [d.receipt EXCEPT ![x] = s]
           ob == d.outbox \cup {ReceiptRow(x)}
<1>2. rs \in [Patches -> Decisions \cup {"none"}]
  BY DatabaseFields
<1>3. ob \in SUBSET ([kind : {"page_version"}, path : Paths, number : Nat]
                       \cup [kind : {"curation_receipt"}, patch : Patches])
  BY DatabaseFields DEF ReceiptRow
<1> HIDE DEF rs, ob
<1>4. e = [d EXCEPT !.receipt = rs, !.outbox = ob]
  BY <1>1 DEF rs, ob
<1>5. /\ e.versions = d.versions /\ e.status = d.status /\ e.canonical = d.canonical
      /\ e.links = d.links /\ e.alias = d.alias /\ e.conflict = d.conflict
      /\ e.applied = d.applied /\ e.receipt = rs /\ e.outbox = ob
  BY <1>4 DEF Database
<1>6. e = [versions |-> e.versions, status |-> e.status, canonical |-> e.canonical,
           links |-> e.links, alias |-> e.alias, receipt |-> e.receipt,
           conflict |-> e.conflict, applied |-> e.applied, outbox |-> e.outbox]
  BY <1>4 DEF Database
<1>7. e \in Database
  BY <1>2, <1>3, <1>5, <1>6, DatabaseFields DEF Database
<1> QED BY <1>5, <1>7 DEF rs, ob, ReceiptWritten

ReceiptsWritten(d, xs, s, e) ==
  /\ e \in Database
  /\ e.versions = d.versions /\ e.status = d.status /\ e.canonical = d.canonical
  /\ e.conflict = d.conflict /\ e.applied = d.applied
  /\ e.receipt = [x \in Patches |-> IF x \in xs /\ d.receipt[x] = "none" THEN s
                                    ELSE d.receipt[x]]
  /\ e.outbox = d.outbox \cup {ReceiptRow(x) : x \in {y \in xs : d.receipt[y] = "none"}}

(* Recording the same decision for several patches leaves the receipts     *)
(* that exist alone.                                                       *)
LEMMA WithReceiptsFacts ==
  ASSUME NEW d \in Database, NEW xs \in SUBSET Patches, NEW s \in Decisions,
         NEW e, e = WithReceipts(d, xs, s)
  PROVE  ReceiptsWritten(d, xs, s, e)
<1> DEFINE rs == [x \in Patches |-> IF x \in xs /\ d.receipt[x] = "none" THEN s
                                   ELSE d.receipt[x]]
           ob == d.outbox \cup {ReceiptRow(x) : x \in {y \in xs : d.receipt[y] = "none"}}
<1>1. e = [d EXCEPT !.receipt = rs, !.outbox = ob]
  BY DatabaseFields DEF WithReceipts, ReceiptRow
<1>2. rs \in [Patches -> Decisions \cup {"none"}]
  BY DatabaseFields
<1>3. ob \in SUBSET ([kind : {"page_version"}, path : Paths, number : Nat]
                       \cup [kind : {"curation_receipt"}, patch : Patches])
  BY DatabaseFields DEF ReceiptRow
<1> HIDE DEF rs, ob
<1>5. /\ e.versions = d.versions /\ e.status = d.status /\ e.canonical = d.canonical
      /\ e.links = d.links /\ e.alias = d.alias /\ e.conflict = d.conflict
      /\ e.applied = d.applied /\ e.receipt = rs /\ e.outbox = ob
  BY <1>1 DEF Database
<1>6. e = [versions |-> e.versions, status |-> e.status, canonical |-> e.canonical,
           links |-> e.links, alias |-> e.alias, receipt |-> e.receipt,
           conflict |-> e.conflict, applied |-> e.applied, outbox |-> e.outbox]
  BY <1>1 DEF Database
<1>7. e \in Database
  BY <1>2, <1>3, <1>5, <1>6, DatabaseFields DEF Database
<1> QED BY <1>5, <1>7 DEF rs, ob, ReceiptsWritten

WithConflict(d, g, s) == [d EXCEPT !.conflict[g] = s]

ConflictWritten(d, g, s, e) ==
  /\ e \in Database
  /\ e.versions = d.versions /\ e.status = d.status /\ e.canonical = d.canonical
  /\ e.receipt = d.receipt /\ e.applied = d.applied /\ e.outbox = d.outbox
  /\ e.conflict = [d.conflict EXCEPT ![g] = s]

(* Reporting or resolving a conflict changes only its row. *)
LEMMA WithConflictFacts ==
  ASSUME NEW d \in Database, NEW g \in Groups,
         NEW s \in {"none", "pending", "keep_local", "merged", "accept_remote"},
         NEW e, e = WithConflict(d, g, s)
  PROVE  ConflictWritten(d, g, s, e)
<1> DEFINE cs == [d.conflict EXCEPT ![g] = s]
<1>1. cs \in [Groups -> {"none", "pending", "keep_local", "merged", "accept_remote"}]
  BY DatabaseFields
<1>2. e = [d EXCEPT !.conflict = cs]
  BY DEF WithConflict
<1> HIDE DEF cs
<1>3. /\ e \in Database
      /\ e.versions = d.versions /\ e.status = d.status /\ e.canonical = d.canonical
      /\ e.receipt = d.receipt /\ e.applied = d.applied /\ e.outbox = d.outbox
      /\ e.conflict = cs
  BY <1>1, <1>2 DEF Database
<1> QED BY <1>3 DEF cs, ConflictWritten

MarkWritten(d, r, e) ==
  /\ e \in Database
  /\ e.versions = d.versions /\ e.status = d.status /\ e.canonical = d.canonical
  /\ e.receipt = d.receipt /\ e.conflict = d.conflict /\ e.outbox = d.outbox
  /\ e.applied = IF RunDone(d, r) THEN d.applied \cup {r} ELSE d.applied

(* Marking a run changes only the set of applied runs, and only once every *)
(* patch of the run is decided.                                            *)
LEMMA MarkedFacts ==
  ASSUME NEW d \in Database, NEW r \in Runs, NEW e, e = Marked(d, r)
  PROVE  MarkWritten(d, r, e)
<1>1. CASE RunDone(d, r)
  <2>1. e = [d EXCEPT !.applied = d.applied \cup {r}]
    BY <1>1 DEF Marked
  <2>2. d.applied \cup {r} \in SUBSET Runs
    BY DatabaseFields
  <2> QED BY <1>1, <2>1, <2>2 DEF Database, MarkWritten
<1>2. CASE ~ RunDone(d, r)
  BY <1>2 DEF Marked, MarkWritten
<1> QED BY <1>1, <1>2

(* The fields of a patch have the values its operation needs. *)
LEMMA PatchShape ==
  ASSUME NEW x \in Patches
  PROVE  /\ Patch[x].op \in Operations /\ Patch[x].path \in Paths
         /\ Patch[x].content \in Contents
         /\ Patch[x].op \in TargetOperations => Patch[x].target \in Paths
         /\ Patch[x].op \notin TargetOperations => Patch[x].op \in {"create_page", "update_page"}
<1>1. Patch[x] \in PatchRecord
  BY ManifestAssumption DEF ValidManifests
<1>2. (Patch[x].op \in TargetOperations) = (Patch[x].target # NoPath)
  BY ManifestAssumption DEF ValidManifests
<1> QED BY <1>1, <1>2 DEF PatchRecord, Operations

EffectSeen(d, x, e) ==
  /\ e \in Database
  /\ e.receipt = d.receipt /\ e.conflict = d.conflict /\ e.applied = d.applied
  /\ Patch[x].op \in {"create_page", "update_page"}
       => e = WriteContent(d, Patch[x].path, Patch[x].content, x)
  /\ Patch[x].op \notin {"create_page", "update_page"}
       => e.versions = d.versions /\ e.outbox = d.outbox
  /\ \/ e.status = d.status /\ e.canonical = d.canonical
     \/ /\ Patch[x].op = "supersede_page"
        /\ e.status = [d.status EXCEPT ![Patch[x].path] = "superseded"]
        /\ e.canonical = [d.canonical EXCEPT ![Patch[x].path] = Patch[x].target]

(* A change of the links leaves everything else alone. *)
LEMMA LinksChanged ==
  ASSUME NEW d \in Database, NEW l \in SUBSET (Paths \X Paths), NEW e, e = [d EXCEPT !.links = l]
  PROVE  /\ e \in Database /\ e.versions = d.versions
         /\ e.status = d.status /\ e.canonical = d.canonical /\ e.receipt = d.receipt
         /\ e.conflict = d.conflict /\ e.applied = d.applied /\ e.outbox = d.outbox
<1>1. e = [versions |-> d.versions, status |-> d.status, canonical |-> d.canonical,
           links |-> l, alias |-> d.alias, receipt |-> d.receipt,
           conflict |-> d.conflict, applied |-> d.applied, outbox |-> d.outbox]
  BY DEF Database
<1>2. e \in Database
  BY <1>1, DatabaseFields DEF Database
<1> QED BY <1>1, <1>2

(* What each operation does to the database. *)
LEMMA EffectFacts ==
  ASSUME NEW d \in Database, NEW x \in Patches, NEW e, e = Effect(d, x)
  PROVE  EffectSeen(d, x, e)
<1> DEFINE p == Patch[x].path
           t == Patch[x].target
<1>p. p \in Paths /\ Patch[x].op \in Operations
  BY PatchShape
<1>1. CASE Patch[x].op \in {"create_page", "update_page"}
  <2>1. e = WriteContent(d, p, Patch[x].content, x)
    BY <1>1 DEF Effect
  <2>2. /\ e \in Database /\ SameButVersions(d, e)
    <3>1. Patch[x].content \in Contents /\ x \in Patches \cup {Agent}
      BY PatchShape
    <3> HIDE DEF p
    <3> QED BY <1>p, <2>1, <3>1, WriteContentFacts
  <2> QED BY <1>1, <2>1, <2>2 DEF SameButVersions, EffectSeen
<1>2. CASE Patch[x].op = "add_link"
  <2>0. t \in Paths
    BY <1>2, PatchShape DEF TargetOperations
  <2> DEFINE l == d.links \cup {<<p, t>>}
  <2>1. e = [d EXCEPT !.links = l]
    BY <1>2 DEF Effect
  <2>2. l \in SUBSET (Paths \X Paths)
    BY <2>0, <1>p, DatabaseFields
  <2> HIDE DEF l
  <2>3. /\ e \in Database /\ e.versions = d.versions
        /\ e.status = d.status /\ e.canonical = d.canonical /\ e.receipt = d.receipt
        /\ e.conflict = d.conflict /\ e.applied = d.applied /\ e.outbox = d.outbox
    BY <2>1, <2>2, LinksChanged
  <2> QED BY <1>2, <2>3 DEF EffectSeen
<1>3. CASE Patch[x].op = "retarget_links"
  <2>0. t \in Paths
    BY <1>3, PatchShape DEF TargetOperations, CleanupOperations
  <2> DEFINE l == Retargeted(d.links, p, t)
  <2>1. e = [d EXCEPT !.links = l]
    BY <1>3 DEF Effect
  <2>2. l \in SUBSET (Paths \X Paths)
    <3>1. d.links \in SUBSET (Paths \X Paths)
      BY DatabaseFields
    <3> QED BY <2>0, <1>p, <3>1 DEF Retargeted
  <2> HIDE DEF l
  <2>3. /\ e \in Database /\ e.versions = d.versions
        /\ e.status = d.status /\ e.canonical = d.canonical /\ e.receipt = d.receipt
        /\ e.conflict = d.conflict /\ e.applied = d.applied /\ e.outbox = d.outbox
    BY <2>1, <2>2, LinksChanged
  <2> QED BY <1>3, <2>3 DEF EffectSeen
<1>4. CASE Patch[x].op = "add_alias"
  <2>0. t \in Paths
    BY <1>4, PatchShape DEF TargetOperations, CleanupOperations
  <2> DEFINE al == [d.alias EXCEPT ![p] = IF @ = NoPath THEN t ELSE @]
  <2>1. e = [d EXCEPT !.alias = al]
    BY <1>4 DEF Effect
  <2>2. al \in [Paths -> Paths \cup {NoPath}]
    BY <2>0, <1>p, DatabaseFields
  <2> HIDE DEF al
  <2> QED BY <1>4, <2>1, <2>2 DEF Database, EffectSeen
<1>5. CASE Patch[x].op = "supersede_page"
  <2>0. t \in Paths
    BY <1>5, PatchShape DEF TargetOperations, CleanupOperations
  <2> DEFINE st == [d.status EXCEPT ![p] = "superseded"]
             ca == [d.canonical EXCEPT ![p] = t]
  <2>1. e = [d EXCEPT !.status = st, !.canonical = ca]
    BY <1>5 DEF Effect
  <2>2. st \in [Paths -> {"active", "superseded"}] /\ ca \in [Paths -> Paths \cup {NoPath}]
    BY <2>0, <1>p, DatabaseFields
  <2> HIDE DEF st, ca
  <2>3. /\ e \in Database /\ e.receipt = d.receipt /\ e.conflict = d.conflict
        /\ e.applied = d.applied /\ e.versions = d.versions /\ e.outbox = d.outbox
        /\ e.status = st /\ e.canonical = ca
    BY <2>1, <2>2 DEF Database
  <2> QED BY <1>5, <2>3 DEF st, ca, EffectSeen
<1> QED BY <1>p, <1>1, <1>2, <1>3, <1>4, <1>5 DEF Operations, TargetOperations, CleanupOperations
-----------------------------------------------------------------------------
(* Every nonempty set of numbers has a least element. *)
LEMMA Least ==
  ASSUME NEW T \in SUBSET Nat, T # {}
  PROVE  \E n \in T : \A m \in T : n <= m
<1> DEFINE R == OpToRel(<, Nat)
<1>1. IsWellFoundedOn(R, Nat)
  BY NatLessThanWellFounded
<1> HIDE DEF R
<1>2. PICK n \in T : \A m \in T : ~ (<<m, n>> \in R)
  BY <1>1, WFMin
<1>3. \A m \in T : ~ (m < n)
  BY <1>2 DEF R, OpToRel
<1> QED BY <1>3

(* The run a worker takes next is one of its runs: some run has the least  *)
(* rank.                                                                   *)
LEMMA FirstRunIsIn ==
  ASSUME NEW runs \in SUBSET Runs, runs # {}
  PROVE  FirstRun(runs) \in runs
<1> DEFINE T == {i \in DOMAIN RunOrder : RunOrder[i] \in runs}
<1>1. RunOrder \in Seq(Runs)
  BY ManifestAssumption DEF ValidManifests
<1>2. DOMAIN RunOrder = 1 .. Len(RunOrder) /\ Len(RunOrder) \in Nat
  BY <1>1, LenProperties
<1>3. PICK r \in runs : TRUE
  OBVIOUS
<1>4. PICK i \in DOMAIN RunOrder : RunOrder[i] = r
  BY <1>3 DEF Runs, Range
<1>5. T # {} /\ T \in SUBSET Nat
  BY <1>2, <1>4
<1> HIDE DEF T
<1>6. PICK n \in T : \A m \in T : n <= m
  BY <1>5, Least
<1>7. RunOrder[n] \in runs /\ n \in DOMAIN RunOrder /\ \A j \in 1 .. n - 1 : RunOrder[j] \notin runs
  BY <1>2, <1>6 DEF T
<1> QED BY <1>7 DEF FirstRun

(* The plan of a run lists groups of that run. *)
LEMMA PlanFacts ==
  ASSUME NEW r \in Runs
  PROVE  /\ Plan[r] \in Seq(Groups) /\ Plan[r] # <<>>
         /\ Range(Plan[r]) \in SUBSET Groups
         /\ \A g \in Range(Plan[r]) : RunOf(g) = r
<1>1. Plan[r] \in Seq(Groups) /\ Plan[r] # <<>>
  BY ManifestAssumption DEF ValidManifests
<1>2. Range(Plan[r]) \in SUBSET Groups
  BY <1>1, RangeOfSeq
<1>3. ASSUME NEW g \in Range(Plan[r]) PROVE RunOf(g) = r
  <2>1. \A q \in Runs : g \in Range(Plan[q]) => q = r
    BY <1>3, ManifestAssumption DEF ValidManifests
  <2> QED BY <1>3, <2>1 DEF RunOf
<1> QED BY <1>1, <1>2, <1>3

(* Every group belongs to the run whose plan lists it. *)
LEMMA RunOfFacts ==
  ASSUME NEW g \in Groups
  PROVE  RunOf(g) \in Runs /\ g \in Range(Plan[RunOf(g)])
<1>1. \E r \in Runs : g \in Range(Plan[r])
  BY ManifestAssumption DEF ValidManifests
<1> QED BY <1>1 DEF RunOf

(* The members of a group are its patches, and there is at least one. *)
LEMMA MembersFacts ==
  ASSUME NEW g \in Groups
  PROVE  /\ Members[g] \in Seq(Patches) /\ Members[g] # <<>>
         /\ Len(Members[g]) \in Nat \ {0}
         /\ \A i \in 1 .. Len(Members[g]) : Members[g][i] \in PatchesOf(g)
         /\ \A x \in PatchesOf(g) : \E i \in 1 .. Len(Members[g]) : x = Members[g][i]
         /\ PatchesOf(g) \in SUBSET Patches /\ PatchesOf(g) # {}
<1>1. Members[g] \in Seq(Patches) /\ Members[g] # <<>>
  BY ManifestAssumption DEF ValidManifests
<1>2. Len(Members[g]) \in Nat \ {0}
  BY <1>1, EmptySeq
<1>3. \A i \in 1 .. Len(Members[g]) : Members[g][i] \in Patches
  BY <1>1, ElementOfSeq
<1>4. PatchesOf(g) = {Members[g][i] : i \in 1 .. Len(Members[g])}
  BY <1>1, RangeEquality DEF PatchesOf
<1>5. Members[g][1] \in PatchesOf(g)
  BY <1>2, <1>4
<1> QED BY <1>1, <1>2, <1>3, <1>4, <1>5

(* No patch belongs to two groups. *)
LEMMA GroupsAreDisjoint ==
  ASSUME NEW g \in Groups, NEW h \in Groups, NEW x \in PatchesOf(g), x \in PatchesOf(h)
  PROVE  g = h
<1>1. PICK i \in 1 .. Len(Members[g]) : x = Members[g][i]
  BY MembersFacts
<1>2. PICK j \in 1 .. Len(Members[h]) : x = Members[h][j]
  BY MembersFacts
<1>3. \A i1 \in 1 .. Len(Members[g]), j1 \in 1 .. Len(Members[h]) :
        Members[g][i1] = Members[h][j1] => g = h /\ i1 = j1
  BY ManifestAssumption DEF ValidManifests
<1> QED BY <1>1, <1>2, <1>3

-----------------------------------------------------------------------------
AtWork(me) ==
  /\ me.pc \in {"groups", "writing"} => me.groups # <<>>
  /\ me.pc = "resolving" => me.conflicts # <<>> /\ me.groups = <<>>
  /\ (me.pc \in {"groups", "writing"} /\ ~ me.force) =>
       me.runs # {} /\ Range(me.groups) \subseteq Range(Plan[FirstRun(me.runs)])
  /\ me.force => me.pc = "writing" /\ Len(me.groups) = 1 /\ me.conflicts = <<>> /\ me.runs = {}

(* The runs a worker knows, and the groups it works on, were received. *)
Informed(me, received) ==
  /\ me.runs \subseteq received
  /\ \A g \in Range(me.groups) : RunOf(g) \in received

Received == {r \in Runs : inbox[r] = "received"}

WorkersOK ==
  /\ worker \in [Workers -> WorkerState]
  /\ \A w \in Workers : AtWork(worker[w]) /\ Informed(worker[w], Received)

(* The job between two runs is legal. *)
LEMMA IdleOK == IdleWorker \in WorkerState /\ AtWork(IdleWorker)
<1>1. <<>> \in Seq(Groups)
  BY EmptySeq
<1> QED BY <1>1 DEF IdleWorker, WorkerState, AtWork

(* The fields of a worker's state have their types. *)
LEMMA WorkerFields ==
  ASSUME NEW me \in WorkerState
  PROVE  /\ me.pc \in {"idle", "groups", "writing", "resolving"}
         /\ me.auto \in BOOLEAN /\ me.policy \in {"safe", "all"}
         /\ me.runs \in SUBSET Runs /\ me.groups \in Seq(Groups)
         /\ me.conflicts \in Seq(Groups) /\ me.force \in BOOLEAN
  BY DEF WorkerState

(* A worker at the start of a run. *)
LEMMA PlanOfFirst ==
  ASSUME NEW runs \in SUBSET Runs, runs # {}
  PROVE  /\ FirstRun(runs) \in Runs /\ FirstRun(runs) \in runs
         /\ Plan[FirstRun(runs)] \in Seq(Groups) /\ Plan[FirstRun(runs)] # <<>>
<1>1. FirstRun(runs) \in runs
  BY FirstRunIsIn
<1>2. FirstRun(runs) \in Runs
  BY <1>1
<1> QED BY <1>1, <1>2, PlanFacts

(* Going on to the next run, or to the conflicts, leads to a legal state   *)
(* that starts with the whole plan of its run.                             *)
LEMMA AdvanceOK ==
  ASSUME NEW me \in WorkerState,
         ~ me.force /\ me.groups # <<>> =>
           me.runs # {} /\ Range(me.groups) \subseteq Range(Plan[FirstRun(me.runs)]),
         me.force => me.groups = <<>> /\ me.conflicts = <<>> /\ me.runs = {},
         NEW m, m = Advance(me)
  PROVE  /\ m \in WorkerState /\ AtWork(m) /\ m.pc # "writing"
         /\ m.runs \subseteq me.runs
         /\ \/ m.groups = <<>> \/ m.groups = me.groups
            \/ m.runs # {} /\ m.groups = Plan[FirstRun(m.runs)]
<1> DEFINE rest == {r \in me.runs : r # FirstRun(me.runs)}
<1>0. rest \subseteq me.runs /\ rest \in SUBSET Runs
  BY WorkerFields
<1>1. CASE me.groups # <<>>
  <2>1. m = [me EXCEPT !.pc = "groups"]
    BY <1>1 DEF Advance
  <2>2. m \in WorkerState /\ m.pc = "groups" /\ m.groups = me.groups /\ m.runs = me.runs
        /\ m.force = me.force
    BY <2>1 DEF WorkerState
  <2> QED BY <1>1, <2>2 DEF AtWork
<1>2. CASE me.groups = <<>> /\ me.conflicts # <<>>
  <2>1. m = [me EXCEPT !.pc = "resolving"]
    BY <1>2 DEF Advance
  <2>2. m \in WorkerState /\ m.pc = "resolving" /\ m.groups = me.groups /\ m.runs = me.runs
        /\ m.conflicts = me.conflicts /\ m.force = me.force
    BY <2>1 DEF WorkerState
  <2> QED BY <1>2, <2>2 DEF AtWork
<1>3. CASE me.groups = <<>> /\ me.conflicts = <<>> /\ rest # {}
  <2>1. m = [me EXCEPT !.pc = "groups", !.runs = rest, !.groups = Plan[FirstRun(rest)]]
    BY <1>3 DEF Advance
  <2>2. ~ me.force
    BY <1>3
  <2> HIDE DEF rest
  <2>3. Plan[FirstRun(rest)] \in Seq(Groups) /\ Plan[FirstRun(rest)] # <<>>
    BY <1>0, <1>3, PlanOfFirst
  <2>4. /\ m \in WorkerState /\ m.pc = "groups" /\ m.groups = Plan[FirstRun(rest)]
        /\ m.runs = rest /\ m.force = me.force
    BY <1>0, <2>1, <2>3 DEF WorkerState
  <2> QED BY <1>0, <1>3, <2>2, <2>3, <2>4 DEF AtWork
<1>4. CASE me.groups = <<>> /\ me.conflicts = <<>> /\ rest = {}
  <2>1. m = IdleWorker
    BY <1>4 DEF Advance
  <2> QED BY <2>1, IdleOK DEF IdleWorker
<1> QED BY <1>1, <1>2, <1>3, <1>4

(* The groups of a plan whose run was received belong to received runs. *)
LEMMA InformedPlan ==
  ASSUME NEW m \in WorkerState, NEW received \in SUBSET Runs, m.runs \subseteq received,
         m.runs # {}, m.groups = Plan[FirstRun(m.runs)]
  PROVE  Informed(m, received)
<1>1. FirstRun(m.runs) \in Runs /\ FirstRun(m.runs) \in received
  BY FirstRunIsIn
<1>2. \A g \in Range(Plan[FirstRun(m.runs)]) : RunOf(g) = FirstRun(m.runs)
  BY <1>1, PlanFacts
<1> QED BY <1>1, <1>2 DEF Informed

(* An empty sequence has no elements. *)
LEMMA EmptyRange == Range(<<>>) = {}
<1>1. <<>> \in Seq({})
  BY EmptySeq
<1>2. Range(<<>>) \in SUBSET {}
  BY <1>1, RangeOfSeq
<1> QED BY <1>2

(* A worker that goes on still knows received runs only. *)
LEMMA AdvanceInformed ==
  ASSUME NEW me \in WorkerState, NEW received \in SUBSET Runs, Informed(me, received),
         ~ me.force /\ me.groups # <<>> =>
           me.runs # {} /\ Range(me.groups) \subseteq Range(Plan[FirstRun(me.runs)]),
         me.force => me.groups = <<>> /\ me.conflicts = <<>> /\ me.runs = {},
         NEW m, m = Advance(me)
  PROVE  m \in WorkerState /\ AtWork(m) /\ m.pc # "writing" /\ Informed(m, received)
<1>1. /\ m \in WorkerState /\ AtWork(m) /\ m.pc # "writing"
      /\ m.runs \subseteq me.runs
      /\ \/ m.groups = <<>> \/ m.groups = me.groups
         \/ m.runs # {} /\ m.groups = Plan[FirstRun(m.runs)]
  BY AdvanceOK
<1>2. CASE m.groups = <<>> \/ m.groups = me.groups
  BY <1>1, <1>2, EmptyRange DEF Informed
<1>3. CASE m.runs # {} /\ m.groups = Plan[FirstRun(m.runs)]
  <2>1. m.runs \subseteq received
    BY <1>1 DEF Informed
  <2> QED BY <1>1, <1>3, <2>1, InformedPlan
<1> QED BY <1>1, <1>2, <1>3

(* The rest of a worker's groups are among its groups. *)
LEMMA TailOfGroups ==
  ASSUME NEW gs \in Seq(Groups), gs # <<>>
  PROVE  /\ Head(gs) \in Groups /\ Head(gs) \in Range(gs)
         /\ Tail(gs) \in Seq(Groups) /\ Range(Tail(gs)) \subseteq Range(gs)
         /\ Len(gs) = 1 => Tail(gs) = <<>>
<1>1. /\ Head(gs) \in Groups /\ Tail(gs) \in Seq(Groups)
      /\ Len(Tail(gs)) = Len(gs) - 1
      /\ \A i \in 1 .. Len(Tail(gs)) : Tail(gs)[i] = gs[i + 1]
  BY HeadTailProperties
<1>2. Len(gs) \in Nat \ {0} /\ Len(Tail(gs)) \in Nat
  BY <1>1, EmptySeq, LenProperties
<1>3. Range(gs) = {gs[i] : i \in 1 .. Len(gs)} /\ Range(Tail(gs)) = {Tail(gs)[i] : i \in 1 .. Len(Tail(gs))}
  BY <1>1, RangeEquality
<1>4. Head(gs) = gs[1]
  OBVIOUS
<1>5. \A i \in 1 .. Len(Tail(gs)) : i + 1 \in 1 .. Len(gs)
  BY <1>1, <1>2
<1>6. Len(Tail(gs)) = 0 => Tail(gs) = <<>>
  BY <1>1, EmptySeq
<1> QED BY <1>1, <1>2, <1>3, <1>4, <1>5, <1>6

(* After its group a worker goes on in a legal state. *)
LEMMA NextGroupOK ==
  ASSUME NEW me \in WorkerState, AtWork(me), NEW received \in SUBSET Runs,
         Informed(me, received), me.pc \in {"groups", "writing"},
         NEW cs \in Seq(Groups), me.force => cs = <<>>,
         NEW n, n = [me EXCEPT !.conflicts = cs],
         NEW m, m = NextGroup(n)
  PROVE  m \in WorkerState /\ AtWork(m) /\ m.pc # "writing" /\ Informed(m, received)
<1> DEFINE k == [n EXCEPT !.groups = Tail(me.groups)]
<1>1. /\ Tail(me.groups) \in Seq(Groups) /\ Range(Tail(me.groups)) \subseteq Range(me.groups)
      /\ Len(me.groups) = 1 => Tail(me.groups) = <<>>
  BY WorkerFields, TailOfGroups DEF AtWork
<1>2. n.groups = me.groups /\ n \in WorkerState
  BY DEF WorkerState
<1>3. /\ k \in WorkerState /\ k.groups = Tail(me.groups) /\ k.runs = me.runs
      /\ k.conflicts = cs /\ k.force = me.force
  BY <1>1 DEF WorkerState
<1>4. m = Advance(k)
  BY <1>2 DEF NextGroup
<1> HIDE DEF k
<1>5. Informed(k, received)
  BY <1>1, <1>3 DEF Informed
<1>6. ~ k.force /\ k.groups # <<>> =>
           k.runs # {} /\ Range(k.groups) \subseteq Range(Plan[FirstRun(k.runs)])
  BY <1>1, <1>3 DEF AtWork
<1>7. k.force => k.groups = <<>> /\ k.conflicts = <<>> /\ k.runs = {}
  BY <1>1, <1>3 DEF AtWork
<1> QED BY <1>3, <1>4, <1>5, <1>6, <1>7, AdvanceInformed
-----------------------------------------------------------------------------
Shape ==
  /\ TypeOK
  /\ lock = Free => work = db /\ todo = <<>>
  /\ \A w \in Workers : (worker[w].pc = "writing") = (lock = w)
  /\ WorkersOK
  /\ \A g \in Groups : db.conflict[g] # "none" => RunOf(g) \in Received

(* What the steps do to the database, whoever takes them. *)
LeavesDatabase ==
  /\ UNCHANGED <<db, work, lock, todo>>
  /\ lock \in Workers => worker'[lock] = worker[lock]
  /\ Received \subseteq Received'

RolledBack ==
  lock \in Workers /\ db' = db /\ work' = db /\ lock' = Free /\ todo' = <<>> /\ UNCHANGED manifestVars

Committed ==
  /\ lock = Free /\ db' \in Database /\ work' = db'
  /\ UNCHANGED <<lock, todo, manifestVars>>

PageWritten ==
  /\ Committed
  /\ \E p \in Paths, c \in Contents :
       /\ SameButVersions(db, db')
       /\ db'.versions = [db.versions EXCEPT ![p] = Append(@, [content |-> c, by |-> Agent])]
       /\ db'.outbox = db.outbox \cup {PageRow(p, Number(db, p) + 1)}

SamePages(d, e) == e.versions = d.versions /\ e.status = d.status /\ e.canonical = d.canonical

(* Links, marks of applied runs, and conflict rows. *)
BooksKept ==
  /\ Committed /\ SamePages(db, db') /\ db'.receipt = db.receipt /\ db'.outbox = db.outbox
  /\ \/ db'.applied = db.applied
     \/ \E r \in Runs : RunDone(db, r) /\ db'.applied = db.applied \cup {r}
  /\ \/ db'.conflict = db.conflict
     \/ \E g \in Groups : /\ db.conflict[g] = "none" /\ RunOf(g) \in Received
                          /\ db'.conflict = [db.conflict EXCEPT ![g] = "pending"]
     \/ \E g \in Groups : /\ db.conflict[g] = "pending" /\ Processed(db, g)
                          /\ db'.conflict = [db.conflict EXCEPT ![g] = "accept_remote"]

Declined ==
  /\ Committed /\ SamePages(db, db')
  /\ \E g \in Groups, action \in {"keep_local", "merged"} :
       /\ db.conflict[g] = "pending"
       /\ db'.receipt = [x \in Patches |->
            IF x \in PatchesOf(g) /\ db.receipt[x] = "none" THEN ReceiptStatus(action)
            ELSE db.receipt[x]]
       /\ db'.outbox = db.outbox \cup
            {ReceiptRow(x) : x \in {y \in PatchesOf(g) : db.receipt[y] = "none"}}
       /\ db'.conflict = [db.conflict EXCEPT ![g] = action]
       /\ db'.applied = IF RunDone(db', RunOf(g)) THEN db.applied \cup {RunOf(g)} ELSE db.applied

Begun ==
  \E w \in Workers, g \in Groups :
    /\ lock = Free /\ lock' = w /\ db' = db /\ work' = work /\ UNCHANGED manifestVars
    /\ todo' = Preflighted(db, g) /\ Decided(db, g) = {}
    /\ worker'[w].groups # <<>> /\ g = Head(worker'[w].groups)
    /\ ~ worker'[w].force => ~ GroupConflicts(db, g, FALSE)

PatchDone ==
  \E w \in Workers :
    /\ ApplyPatch(w) /\ work' \in Database
    /\ todo' \in Seq([patch : Patches, already : BOOLEAN])

GroupDone ==
  \E w \in Workers, g \in Groups :
    /\ lock = w /\ todo = <<>> /\ lock' = Free /\ todo' = <<>> /\ db' \in Database /\ work' = db'
    /\ g = Head(worker[w].groups) /\ SamePages(work, db') /\ UNCHANGED manifestVars
    /\ db'.receipt = work.receipt /\ db'.outbox = work.outbox
    /\ db'.conflict = IF worker[w].force THEN [work.conflict EXCEPT ![g] = "accept_remote"]
                      ELSE work.conflict
    /\ db'.applied = IF RunDone(db', RunOf(g)) THEN work.applied \cup {RunOf(g)}
                     ELSE work.applied

DatabaseStep ==
  LeavesDatabase \/ RolledBack \/ PageWritten \/ BooksKept \/ Declined \/ Begun \/ PatchDone \/ GroupDone

WorkerStep ==
  /\ WorkersOK'
  /\ \A w \in Workers : (worker'[w].pc = "writing") = (lock' = w)

(* A step that leaves workers, lock and inbox alone leaves the workers     *)
(* legal.                                                                  *)
LEMMA WorkerStays ==
  ASSUME Shape, worker' = worker, lock' = lock, inbox' = inbox
  PROVE  WorkerStep
<1>1. Received' = Received
  BY DEF Received
<1> QED BY <1>1 DEF WorkerStep, Shape, WorkersOK

(* A worker that takes a legal state consistent with the lock leaves all   *)
(* workers legal.                                                          *)
LEMMA WorkerBecomes ==
  ASSUME Shape, NEW w \in Workers, NEW m \in WorkerState, AtWork(m), Informed(m, Received),
         Become(w, m), inbox' = inbox,
         \/ lock' = lock /\ lock # w /\ m.pc # "writing"
         \/ lock = Free /\ lock' = w /\ m.pc = "writing"
         \/ lock = w /\ lock' = Free /\ m.pc # "writing"
  PROVE  WorkerStep /\ worker'[w] = m /\ \A v \in Workers : v # w => worker'[v] = worker[v]
<1>1. Received' = Received
  BY DEF Received
<1>2. worker \in [Workers -> WorkerState] /\ \A v \in Workers : AtWork(worker[v]) /\ Informed(worker[v], Received)
  BY DEF Shape, WorkersOK
<1>3. /\ worker' \in [Workers -> WorkerState] /\ worker'[w] = m
      /\ \A v \in Workers : v # w => worker'[v] = worker[v]
  BY <1>2 DEF Become
<1>4. \A v \in Workers : AtWork(worker'[v]) /\ Informed(worker'[v], Received')
  BY <1>1, <1>2, <1>3
<1>5. \A v \in Workers : (worker[v].pc = "writing") = (lock = v)
  BY DEF Shape
<1>6. \A v \in Workers : (worker'[v].pc = "writing") = (lock' = v)
  BY <1>3, <1>5, WorkerAssumption
<1> QED BY <1>3, <1>4, <1>6 DEF WorkerStep, WorkersOK

(* The parts of Shape, with the types they give. *)
LEMMA ShapeFacts ==
  ASSUME Shape
  PROVE  /\ db \in Database /\ work \in Database /\ lock \in Workers \cup {Free}
         /\ lock = Free => work = db /\ todo = <<>>
         /\ worker \in [Workers -> WorkerState]
         /\ \A w \in Workers : AtWork(worker[w]) /\ Informed(worker[w], Received)
         /\ \A w \in Workers : (worker[w].pc = "writing") = (lock = w)
         /\ Received \in SUBSET Runs
  BY DEF Shape, TypeOK, WorkersOK, Received

(* The page write of an agent is a PageWritten step. *)
LEMMA AgentWriteStep ==
  ASSUME Shape, NEW p \in Paths, NEW c \in Contents, AgentWrite(p, c)
  PROVE  DatabaseStep /\ WorkerStep
<1>1. db \in Database
  BY ShapeFacts
<1>2. lock = Free /\ db' = WriteContent(db, p, c, Agent) /\ work' = db' /\ UNCHANGED <<lock, todo, manifestVars>>
  BY DEF AgentWrite, Commit
<1>3. ~ (Exists(db, p) /\ Content(db, p) = c)
  BY DEF AgentWrite
<1>4. /\ db' \in Database /\ SameButVersions(db, db')
      /\ db'.versions = [db.versions EXCEPT ![p] = Append(@, [content |-> c, by |-> Agent])]
      /\ db'.outbox = db.outbox \cup {PageRow(p, Number(db, p) + 1)}
  BY <1>1, <1>2, <1>3, WriteContentFacts
<1>5. PageWritten
  BY <1>2, <1>4 DEF PageWritten, Committed
<1>6. WorkerStep
  BY <1>2, WorkerStays DEF AgentWrite, manifestVars
<1> QED BY <1>5, <1>6 DEF DatabaseStep

(* The link change of an agent keeps the books. *)
LEMMA AgentLinkStep ==
  ASSUME Shape, NEW p \in Paths, NEW q \in Paths, AgentLink(p, q)
  PROVE  DatabaseStep /\ WorkerStep
<1>1. db \in Database
  BY ShapeFacts
<1> DEFINE l == db.links \cup {<<p, q>>}
<1>2. lock = Free /\ db' = [db EXCEPT !.links = l] /\ work' = db' /\ UNCHANGED <<lock, todo, manifestVars>>
  BY DEF AgentLink, Commit
<1>3. l \in SUBSET (Paths \X Paths)
  BY <1>1, DatabaseFields
<1> HIDE DEF l
<1>4. /\ db' \in Database /\ SamePages(db, db') /\ db'.receipt = db.receipt
      /\ db'.conflict = db.conflict /\ db'.applied = db.applied /\ db'.outbox = db.outbox
  BY <1>1, <1>2, <1>3 DEF Database, SamePages
<1>5. BooksKept
  BY <1>2, <1>4 DEF BooksKept, Committed
<1>6. WorkerStep
  BY <1>2, WorkerStays DEF AgentLink, manifestVars
<1> QED BY <1>5, <1>6 DEF DatabaseStep

(* Publishing and receiving manifests leaves the database alone and loses  *)
(* no received run.                                                        *)
LEMMA InboxStep ==
  ASSUME Shape, NEW r \in Runs, Publish(r) \/ Receive(r)
  PROVE  LeavesDatabase /\ WorkerStep
<1>1. /\ UNCHANGED <<db, work, lock, todo, worker>>
      /\ \A q \in Runs : inbox[q] = "received" => inbox'[q] = "received"
  <2>1. inbox \in [Runs -> {"none", "published", "received"}]
    BY DEF Shape, TypeOK
  <2>2. CASE Publish(r)
    <3>1. inbox[r] = "none" /\ inbox' = [inbox EXCEPT ![r] = "published"]
          /\ UNCHANGED <<db, work, lock, todo, worker>>
      BY <2>2 DEF Publish, lockVars
    <3> QED BY <2>1, <3>1
  <2>3. CASE Receive(r)
    <3>1. inbox[r] = "published" /\ inbox' = [inbox EXCEPT ![r] = "received"]
          /\ UNCHANGED <<db, work, lock, todo, worker>>
      BY <2>3 DEF Receive, lockVars
    <3> QED BY <2>1, <3>1
  <2> QED BY <2>2, <2>3
<1>2. Received \subseteq Received'
  BY <1>1 DEF Received
<1>3. WorkersOK'
  <2>1. WorkersOK
    BY DEF Shape
  <2> QED BY <1>1, <1>2, <2>1 DEF WorkersOK, Informed
<1> QED BY <1>1, <1>2, <1>3 DEF LeavesDatabase, WorkerStep, Shape

(* An idle worker takes up runs that were received. *)
Started(a, pol, runs) ==
  [pc |-> "groups", auto |-> a, policy |-> pol, runs |-> runs, groups |-> Plan[FirstRun(runs)],
   conflicts |-> <<>>, force |-> FALSE]

(* The state in which an automation cycle starts. *)
LEMMA CycleRecord ==
  ASSUME NEW pol, NEW runs
  PROVE  [IdleWorker EXCEPT !.pc = "groups", !.auto = TRUE, !.policy = pol, !.runs = runs,
                            !.groups = Plan[FirstRun(runs)]] = Started(TRUE, pol, runs)
<1>1. PICK m : m = [IdleWorker EXCEPT !.pc = "groups", !.auto = TRUE, !.policy = pol, !.runs = runs,
                                      !.groups = Plan[FirstRun(runs)]]
  OBVIOUS
<1>2. /\ m.pc = "groups" /\ m.auto = TRUE /\ m.policy = pol /\ m.runs = runs
      /\ m.groups = Plan[FirstRun(runs)] /\ m.conflicts = <<>> /\ m.force = FALSE
  BY <1>1 DEF IdleWorker
<1>3. m = [pc |-> m.pc, auto |-> m.auto, policy |-> m.policy, runs |-> m.runs, groups |-> m.groups,
           conflicts |-> m.conflicts, force |-> m.force]
  BY <1>1 DEF IdleWorker
<1> QED BY <1>1, <1>2, <1>3 DEF Started

(* The state in which an operator's apply of one run starts. *)
LEMMA RunRecord ==
  ASSUME NEW pol, NEW runs, NEW gs, gs = Plan[FirstRun(runs)]
  PROVE  [IdleWorker EXCEPT !.pc = "groups", !.policy = pol, !.runs = runs, !.groups = gs]
         = Started(FALSE, pol, runs)
<1>1. PICK m : m = [IdleWorker EXCEPT !.pc = "groups", !.policy = pol, !.runs = runs, !.groups = gs]
  OBVIOUS
<1>2. /\ m.pc = "groups" /\ m.auto = FALSE /\ m.policy = pol /\ m.runs = runs
      /\ m.groups = gs /\ m.conflicts = <<>> /\ m.force = FALSE
  BY <1>1 DEF IdleWorker
<1>3. m = [pc |-> m.pc, auto |-> m.auto, policy |-> m.policy, runs |-> m.runs, groups |-> m.groups,
           conflicts |-> m.conflicts, force |-> m.force]
  BY <1>1 DEF IdleWorker
<1> QED BY <1>1, <1>2, <1>3 DEF Started

(* A worker that starts with received runs is legal. *)
LEMMA StartOK ==
  ASSUME NEW runs \in SUBSET Runs, runs # {}, NEW received \in SUBSET Runs, runs \subseteq received,
         NEW a \in BOOLEAN, NEW pol \in {"safe", "all"}, NEW m, m = Started(a, pol, runs)
  PROVE  m \in WorkerState /\ AtWork(m) /\ Informed(m, received) /\ m.pc = "groups"
<1>1. Plan[FirstRun(runs)] \in Seq(Groups) /\ Plan[FirstRun(runs)] # <<>> /\ <<>> \in Seq(Groups)
  BY PlanOfFirst, EmptySeq
<1>2. /\ m \in WorkerState /\ m.pc = "groups" /\ m.runs = runs
      /\ m.groups = Plan[FirstRun(runs)] /\ ~ m.force
  BY <1>1 DEF Started, WorkerState
<1>3. AtWork(m)
  BY <1>1, <1>2 DEF AtWork
<1> QED BY <1>2, <1>3, InformedPlan

(* Starting keeps the types and changes the job only. *)
LEMMA StartStep ==
  ASSUME Shape, NEW w \in Workers,
         StartCycle(w) \/ \E r \in Runs, policy \in {"safe", "all"} : OperatorApply(w, r, policy)
  PROVE  DatabaseStep /\ WorkerStep
<1>0. UNCHANGED <<db, work, lock, todo, inbox>> /\ worker[w].pc = "idle" /\ lock # w
  <2>1. UNCHANGED <<db, manifestVars, lockVars>> /\ worker[w].pc = "idle"
    BY DEF StartCycle, OperatorApply
  <2> QED BY <2>1, ShapeFacts DEF manifestVars, lockVars
<1>1. PICK runs \in SUBSET Runs, a \in BOOLEAN, pol \in {"safe", "all"} :
        runs # {} /\ runs \subseteq Received /\ Become(w, Started(a, pol, runs))
  <2>1. CASE StartCycle(w)
    <3> DEFINE pending == {r \in Runs : Pending(r)}
    <3>1. pending # {} /\ pending \subseteq Received /\ pending \in SUBSET Runs
      BY <2>1 DEF StartCycle, Pending, Received
    <3>2. Become(w, [IdleWorker EXCEPT !.pc = "groups", !.auto = TRUE, !.policy = ApplyPolicy,
                                      !.runs = pending, !.groups = Plan[FirstRun(pending)]])
      BY <2>1 DEF StartCycle
    <3> HIDE DEF pending
    <3>3. Become(w, Started(TRUE, ApplyPolicy, pending))
      BY <3>2, CycleRecord, Zenon
    <3> QED BY <3>1, <3>3, WorkerAssumption
  <2>2. ASSUME NEW r \in Runs, NEW pol \in {"safe", "all"}, OperatorApply(w, r, pol)
        PROVE  Become(w, Started(FALSE, pol, {r})) /\ r \in Received
    <3>1. FirstRun({r}) = r
      BY FirstRunIsIn
    <3>2. Become(w, [IdleWorker EXCEPT !.pc = "groups", !.policy = pol,
                                      !.runs = {r}, !.groups = Plan[r]]) /\ inbox[r] = "received"
      BY <2>2 DEF OperatorApply
    <3>3. [IdleWorker EXCEPT !.pc = "groups", !.policy = pol, !.runs = {r}, !.groups = Plan[r]]
          = Started(FALSE, pol, {r})
      BY <3>1, RunRecord, Zenon
    <3> QED BY <3>2, <3>3 DEF Received
  <2>3. CASE \E r \in Runs, policy \in {"safe", "all"} : OperatorApply(w, r, policy)
    <3>1. PICK r \in Runs, pol \in {"safe", "all"} : OperatorApply(w, r, pol)
      BY <2>3
    <3>2. Become(w, Started(FALSE, pol, {r})) /\ r \in Received
      BY <2>2, <3>1
    <3> QED BY <3>2
  <2> QED BY <2>1, <2>3
<1>2. PICK m : m = Started(a, pol, runs)
  OBVIOUS
<1>3. m \in WorkerState /\ AtWork(m) /\ Informed(m, Received) /\ m.pc = "groups"
  <2>1. Received \in SUBSET Runs
    BY ShapeFacts
  <2>2. runs # {} /\ runs \subseteq Received
    BY <1>1
  <2> QED BY <1>2, <2>1, <2>2, StartOK
<1>4. Become(w, m)
  BY <1>1, <1>2
<1>5. WorkerStep /\ \A v \in Workers : v # w => worker'[v] = worker[v]
  BY <1>0, <1>3, <1>4, WorkerBecomes
<1>6. LeavesDatabase
  BY <1>0, <1>5 DEF LeavesDatabase, Received
<1> QED BY <1>5, <1>6 DEF DatabaseStep

(* A worker that is about to apply a group of a run it received. *)
LEMMA AtGroupFacts ==
  ASSUME Shape, NEW w \in Workers, worker[w].pc \in {"groups", "writing"}
  PROVE  /\ worker[w] \in WorkerState /\ worker[w].groups # <<>>
         /\ Head(worker[w].groups) \in Groups
         /\ RunOf(Head(worker[w].groups)) \in Received
         /\ ~ worker[w].force => /\ FirstRun(worker[w].runs) \in Runs
                                 /\ RunOf(Head(worker[w].groups)) = FirstRun(worker[w].runs)
<1>1. /\ worker[w] \in WorkerState /\ AtWork(worker[w]) /\ Informed(worker[w], Received)
  BY ShapeFacts
<1>2. worker[w].groups # <<>> /\ worker[w].groups \in Seq(Groups) /\ worker[w].runs \in SUBSET Runs
  BY <1>1, WorkerFields DEF AtWork
<1>3. Head(worker[w].groups) \in Groups /\ Head(worker[w].groups) \in Range(worker[w].groups)
  BY <1>2, TailOfGroups
<1>4. RunOf(Head(worker[w].groups)) \in Received
  BY <1>1, <1>3 DEF Informed
<1>5. ASSUME ~ worker[w].force
      PROVE  /\ FirstRun(worker[w].runs) \in Runs
             /\ RunOf(Head(worker[w].groups)) = FirstRun(worker[w].runs)
  <2>1. worker[w].runs # {} /\ Head(worker[w].groups) \in Range(Plan[FirstRun(worker[w].runs)])
    BY <1>1, <1>3, <1>5 DEF AtWork
  <2>2. FirstRun(worker[w].runs) \in Runs
    BY <1>2, <2>1, FirstRunIsIn
  <2> QED BY <2>1, <2>2, PlanFacts
<1> QED BY <1>1, <1>2, <1>3, <1>4, <1>5

(* A worker leaves its group and goes on, perhaps with one more conflict.  *)
LEMMA WorkerLeavesGroup ==
  ASSUME Shape, NEW w \in Workers, worker[w].pc \in {"groups", "writing"}, inbox' = inbox,
         NEW cs \in Seq(Groups), worker[w].force => cs = <<>>,
         NEW n, n = [worker[w] EXCEPT !.conflicts = cs],
         Become(w, NextGroup(n)),
         \/ lock' = lock /\ worker[w].pc = "groups"
         \/ lock = w /\ lock' = Free
  PROVE  WorkerStep /\ \A v \in Workers : v # w => worker'[v] = worker[v]
<1>1. /\ worker[w] \in WorkerState /\ AtWork(worker[w]) /\ Informed(worker[w], Received)
      /\ Received \in SUBSET Runs
      /\ (worker[w].pc = "writing") = (lock = w)
  BY ShapeFacts
<1>2. PICK m : m = NextGroup(n)
  OBVIOUS
<1>3. m \in WorkerState /\ AtWork(m) /\ m.pc # "writing" /\ Informed(m, Received)
  BY <1>1, <1>2, NextGroupOK
<1>4. Become(w, m)
  BY <1>2
<1>5. \/ lock' = lock /\ lock # w /\ m.pc # "writing"
      \/ lock = w /\ lock' = Free /\ m.pc # "writing"
  BY <1>1, <1>3
<1> QED BY <1>3, <1>4, <1>5, WorkerBecomes

(* Updating the conflicts of a worker with themselves is no update. *)
LEMMA SameConflicts ==
  ASSUME NEW me \in WorkerState
  PROVE  me = [me EXCEPT !.conflicts = me.conflicts] /\ me.conflicts \in Seq(Groups)
  BY DEF WorkerState

(* A worker that is done with a group leaves all workers legal. *)
LEMMA WorkerPassesGroup ==
  ASSUME Shape, NEW w \in Workers, worker[w].pc \in {"groups", "writing"}, inbox' = inbox,
         Become(w, NextGroup(worker[w])),
         \/ lock' = lock /\ worker[w].pc = "groups"
         \/ lock = w /\ lock' = Free
  PROVE  WorkerStep /\ \A v \in Workers : v # w => worker'[v] = worker[v]
<1>1. worker[w] \in WorkerState /\ AtWork(worker[w])
  BY ShapeFacts
<1>2. PICK cs : cs = worker[w].conflicts
  OBVIOUS
<1>3. cs \in Seq(Groups) /\ (worker[w].force => cs = <<>>)
  BY <1>1, <1>2, SameConflicts DEF AtWork
<1>4. worker[w] = [worker[w] EXCEPT !.conflicts = cs]
  BY <1>1, <1>2, SameConflicts
<1> QED BY <1>3, <1>4, WorkerLeavesGroup

(* Leaving a group to the operator is a step of a listed kind. *)
LEMMA SkipForReviewStep ==
  ASSUME Shape, NEW w \in Workers, SkipForReview(w)
  PROVE  DatabaseStep /\ WorkerStep
<1>1. /\ worker[w].pc = "groups" /\ Become(w, NextGroup(worker[w]))
      /\ UNCHANGED <<db, work, lock, todo, inbox>>
  BY DEF SkipForReview, manifestVars, lockVars
<1>2. WorkerStep /\ \A v \in Workers : v # w => worker'[v] = worker[v]
  BY <1>1, WorkerPassesGroup
<1>3. lock # w
  BY <1>1, ShapeFacts
<1>4. LeavesDatabase
  BY <1>1, <1>2, <1>3 DEF LeavesDatabase, Received
<1> QED BY <1>2, <1>4 DEF DatabaseStep

(* Only a worker that writes can be forced. *)
LEMMA GroupsNotForced ==
  ASSUME Shape, NEW w \in Workers, worker[w].pc # "writing"
  PROVE  ~ worker[w].force
  BY ShapeFacts DEF AtWork

(* Passing over a decided group, with its mark and its conflict row, is a  *)
(* step of a listed kind.                                                  *)
LEMMA SkipProcessedStep ==
  ASSUME Shape, NEW w \in Workers, SkipProcessed(w)
  PROVE  DatabaseStep /\ WorkerStep
<1> DEFINE r == FirstRun(worker[w].runs)
<1>1. /\ worker[w].pc = "groups" /\ Become(w, NextGroup(worker[w]))
      /\ lock = Free /\ db' = Marked(db, r) /\ work' = db'
      /\ UNCHANGED <<lock, todo, inbox, manifestVars>>
  BY DEF SkipProcessed, AtGroup, Commit, manifestVars
<1>2. WorkerStep
  BY <1>1, WorkerPassesGroup
<1>3. db \in Database /\ r \in Runs
  BY <1>1, ShapeFacts, GroupsNotForced, AtGroupFacts
<1> HIDE DEF r
<1>4. /\ db' \in Database /\ SamePages(db, db')
      /\ db'.receipt = db.receipt /\ db'.conflict = db.conflict /\ db'.outbox = db.outbox
      /\ db'.applied = IF RunDone(db, r) THEN db.applied \cup {r} ELSE db.applied
  <2>1. MarkWritten(db, r, db')
    BY <1>1, <1>3, MarkedFacts
  <2> QED BY <2>1 DEF MarkWritten, SamePages
<1>5. BooksKept
  BY <1>1, <1>3, <1>4 DEF BooksKept, Committed
<1> QED BY <1>2, <1>5 DEF DatabaseStep

(* Reporting a conflict is a step of a listed kind. *)
LEMMA ReportConflictStep ==
  ASSUME Shape, NEW w \in Workers, ReportConflict(w)
  PROVE  DatabaseStep /\ WorkerStep
<1> DEFINE r == FirstRun(worker[w].runs)
           g == Head(worker[w].groups)
           s == IF db.conflict[g] = "none" THEN "pending" ELSE db.conflict[g]
           d == [db EXCEPT !.conflict[g] = s]
           cs == IF worker[w].auto THEN Append(worker[w].conflicts, g) ELSE worker[w].conflicts
           me == IF worker[w].auto
                 THEN [worker[w] EXCEPT !.conflicts = Append(@, g)] ELSE worker[w]
<1>1. /\ worker[w].pc = "groups" /\ Become(w, NextGroup(me))
      /\ lock = Free /\ db' = Marked(d, r) /\ work' = db'
      /\ UNCHANGED <<lock, todo, inbox, manifestVars>>
  BY DEF ReportConflict, AtGroup, Commit, manifestVars
<1>2. /\ db \in Database /\ r \in Runs /\ g \in Groups /\ ~ worker[w].force
      /\ worker[w] \in WorkerState /\ RunOf(g) \in Received
  BY <1>1, ShapeFacts, GroupsNotForced, AtGroupFacts
<1>3. s \in {"none", "pending", "keep_local", "merged", "accept_remote"}
  BY <1>2, DatabaseFields
<1>4. cs \in Seq(Groups)
  BY <1>2, SameConflicts, AppendProperties
<1>5. me = [worker[w] EXCEPT !.conflicts = cs]
  BY <1>2, SameConflicts
<1> HIDE DEF r, g, s, cs
<1>6. WorkerStep
  <2>1. PICK n : n = me
    OBVIOUS
  <2> QED BY <1>1, <1>2, <1>4, <1>5, <2>1, WorkerLeavesGroup
<1>7. /\ d \in Database /\ SamePages(db, d) /\ d.receipt = db.receipt /\ d.applied = db.applied
      /\ d.outbox = db.outbox /\ d.conflict = [db.conflict EXCEPT ![g] = s]
  <2>1. d = WithConflict(db, g, s)
    BY DEF WithConflict
  <2> HIDE DEF d
  <2>2. ConflictWritten(db, g, s, d)
    BY <1>2, <1>3, <2>1, WithConflictFacts
  <2> QED BY <2>2 DEF ConflictWritten, SamePages
<1> HIDE DEF d, me
<1>8. /\ db' \in Database /\ SamePages(db, db') /\ db'.receipt = db.receipt
      /\ db'.outbox = db.outbox /\ db'.conflict = [db.conflict EXCEPT ![g] = s]
      /\ db'.applied = IF RunDone(d, r) THEN db.applied \cup {r} ELSE db.applied
  <2>1. MarkWritten(d, r, db')
    BY <1>1, <1>2, <1>7, MarkedFacts
  <2> QED BY <1>7, <2>1 DEF MarkWritten, SamePages
<1>9. RunDone(d, r) = RunDone(db, r)
  BY <1>7 DEF RunDone, Decided
<1>10. \/ db'.conflict = db.conflict
       \/ db.conflict[g] = "none" /\ db'.conflict = [db.conflict EXCEPT ![g] = "pending"]
  BY <1>2, <1>8, DatabaseFields DEF s
<1>11. BooksKept
  BY <1>1, <1>2, <1>8, <1>9, <1>10 DEF BooksKept, Committed
<1> QED BY <1>6, <1>11 DEF DatabaseStep

(* Preflight gives one entry for each member of the group. *)
LEMMA PreflightedIsSeq ==
  ASSUME NEW d, NEW g \in Groups
  PROVE  /\ Preflighted(d, g) \in Seq([patch : Patches, already : BOOLEAN])
         /\ Len(Preflighted(d, g)) = Len(Members[g])
<1> DEFINE n == Len(Members[g])
<1>1. n \in Nat /\ \A i \in 1 .. n : Members[g][i] \in Patches
  BY MembersFacts
<1>2. \A x : AlreadyApplied(d, x) \in BOOLEAN
  BY DEF AlreadyApplied
<1>3. Preflighted(d, g) \in [1 .. n -> [patch : Patches, already : BOOLEAN]]
  BY <1>1, <1>2 DEF Preflighted
<1> DEFINE T == [patch : Patches, already : BOOLEAN]
<1>4. Preflighted(d, g) \in [1 .. n -> T]
  BY <1>3
<1> HIDE DEF T, n
<1>5. Preflighted(d, g) \in Seq(T)
  BY <1>1, <1>4, SeqDef
<1>6. Len(Preflighted(d, g)) = n
  BY <1>1, <1>4, <1>5, LenProperties
<1> QED BY <1>5, <1>6 DEF T, n

(* Opening a group's transaction is a Begun step. *)
LEMMA BeginGroupStep ==
  ASSUME Shape, NEW w \in Workers, BeginGroup(w)
  PROVE  DatabaseStep /\ WorkerStep
<1> DEFINE g == Head(worker[w].groups)
           m == [worker[w] EXCEPT !.pc = "writing"]
<1>1. /\ worker[w].pc = "groups" /\ Become(w, m)
      /\ lock = Free /\ lock' = w /\ todo' = Preflighted(db, g) /\ UNCHANGED <<db, work>>
      /\ UNCHANGED <<inbox, manifestVars>>
      /\ Decided(db, g) = {} /\ ~ GroupConflicts(db, g, FALSE)
  BY DEF BeginGroup, AtGroup, OpenTransaction, manifestVars
<1>2. /\ worker[w] \in WorkerState /\ AtWork(worker[w]) /\ Informed(worker[w], Received)
      /\ g \in Groups /\ ~ worker[w].force /\ worker[w].groups # <<>>
  BY <1>1, ShapeFacts, GroupsNotForced, AtGroupFacts
<1>3. /\ m \in WorkerState /\ m.pc = "writing" /\ m.groups = worker[w].groups
      /\ m.runs = worker[w].runs /\ m.force = worker[w].force /\ m.conflicts = worker[w].conflicts
  BY <1>2 DEF WorkerState
<1> HIDE DEF m
<1>4. AtWork(m) /\ Informed(m, Received)
  BY <1>1, <1>2, <1>3 DEF AtWork, Informed
<1>5. WorkerStep /\ worker'[w] = m
  BY <1>1, <1>3, <1>4, WorkerBecomes
<1>6. Begun
  BY <1>1, <1>2, <1>3, <1>5 DEF Begun
<1> QED BY <1>5, <1>6 DEF DatabaseStep

(* Applying one patch in the transaction is a PatchDone step. *)
LEMMA ApplyPatchStep ==
  ASSUME Shape, NEW w \in Workers, ApplyPatch(w),
         \A i \in 1 .. Len(todo) : work.receipt[todo[i].patch] = "none"
  PROVE  DatabaseStep /\ WorkerStep
<1> DEFINE x == Head(todo).patch
<1>1. /\ lock = w /\ todo # <<>> /\ todo' = Tail(todo)
      /\ work' = IF Head(todo).already THEN WithReceipt(work, x, "already_applied")
                 ELSE WithReceipt(Effect(work, x), x, "applied")
      /\ UNCHANGED <<db, lock, worker, inbox>>
  BY DEF ApplyPatch, manifestVars
<1>2. todo \in Seq([patch : Patches, already : BOOLEAN]) /\ work \in Database
  BY DEF Shape, TypeOK
<1>3. /\ Head(todo) \in [patch : Patches, already : BOOLEAN]
      /\ Tail(todo) \in Seq([patch : Patches, already : BOOLEAN])
      /\ Len(todo) \in Nat \ {0} /\ Head(todo) = todo[1]
  <2> DEFINE T == [patch : Patches, already : BOOLEAN]
  <2>1. todo \in Seq(T)
    BY <1>2
  <2> HIDE DEF T
  <2>2. Head(todo) \in T /\ Tail(todo) \in Seq(T) /\ Len(todo) \in Nat \ {0}
    BY <1>1, <2>1, HeadTailProperties, EmptySeq
  <2> QED BY <2>2 DEF T
<1>4. x \in Patches /\ work.receipt[x] = "none"
  BY <1>3
<1> HIDE DEF x
<1>5. work' \in Database
  <2>1. CASE Head(todo).already
    <3>1. "already_applied" \in Decisions
      BY DEF Decisions
    <3>2. ReceiptWritten(work, x, "already_applied", work')
      BY <1>1, <1>2, <1>4, <2>1, <3>1, WithReceiptFacts
    <3> QED BY <3>2 DEF ReceiptWritten
  <2>2. CASE ~ Head(todo).already
    <3>1. PICK e : e = Effect(work, x)
      OBVIOUS
    <3>2. EffectSeen(work, x, e)
      BY <1>2, <1>4, <3>1, EffectFacts
    <3>3. e \in Database /\ e.receipt[x] = "none"
      BY <1>4, <3>2 DEF EffectSeen
    <3>4. work' = WithReceipt(e, x, "applied") /\ "applied" \in Decisions
      BY <1>1, <2>2, <3>1 DEF Decisions
    <3>5. ReceiptWritten(e, x, "applied", work')
      BY <1>4, <3>3, <3>4, WithReceiptFacts
    <3> QED BY <3>5 DEF ReceiptWritten
  <2> QED BY <2>1, <2>2
<1>6. WorkerStep
  BY <1>1, WorkerStays
<1>7. PatchDone
  BY <1>1, <1>3, <1>5 DEF PatchDone
<1> QED BY <1>6, <1>7 DEF DatabaseStep

(* Committing a group is a GroupDone step. *)
LEMMA CommitGroupStep ==
  ASSUME Shape, NEW w \in Workers, CommitGroup(w)
  PROVE  DatabaseStep /\ WorkerStep
<1> DEFINE g == Head(worker[w].groups)
           d == IF worker[w].force THEN [work EXCEPT !.conflict[g] = "accept_remote"] ELSE work
<1>1. /\ lock = w /\ todo = <<>> /\ Become(w, NextGroup(worker[w]))
      /\ db' = Marked(d, RunOf(g)) /\ work' = db' /\ lock' = Free /\ todo' = <<>>
      /\ UNCHANGED <<inbox, manifestVars>>
  BY DEF CommitGroup, Unlock, manifestVars
<1>2. worker[w].pc = "writing" /\ work \in Database /\ worker[w] \in WorkerState
  BY <1>1, ShapeFacts
<1>3. g \in Groups /\ RunOf(g) \in Runs
  BY <1>2, AtGroupFacts, RunOfFacts
<1>4. WorkerStep
  BY <1>1, <1>2, WorkerPassesGroup
<1>5. /\ d \in Database /\ SamePages(work, d) /\ d.receipt = work.receipt
      /\ d.applied = work.applied /\ d.outbox = work.outbox
      /\ d.conflict = IF worker[w].force THEN [work.conflict EXCEPT ![g] = "accept_remote"]
                      ELSE work.conflict
  <2>1. CASE worker[w].force
    <3>1. d = WithConflict(work, g, "accept_remote")
      BY <2>1 DEF WithConflict
    <3> HIDE DEF d
    <3>2. ConflictWritten(work, g, "accept_remote", d)
      BY <1>2, <1>3, <3>1, WithConflictFacts
    <3> QED BY <2>1, <3>2 DEF ConflictWritten, SamePages
  <2>2. CASE ~ worker[w].force
    BY <1>2, <2>2 DEF SamePages
  <2> QED BY <2>1, <2>2
<1> HIDE DEF d
<1>6. /\ db' \in Database /\ SamePages(work, db') /\ db'.receipt = work.receipt
      /\ db'.outbox = work.outbox
      /\ db'.conflict = IF worker[w].force THEN [work.conflict EXCEPT ![g] = "accept_remote"]
                        ELSE work.conflict
      /\ db'.applied = IF RunDone(d, RunOf(g)) THEN work.applied \cup {RunOf(g)} ELSE work.applied
  <2>1. MarkWritten(d, RunOf(g), db')
    BY <1>1, <1>3, <1>5, MarkedFacts
  <2> QED BY <1>5, <2>1 DEF MarkWritten, SamePages
<1>7. RunDone(d, RunOf(g)) = RunDone(db', RunOf(g))
  BY <1>5, <1>6 DEF RunDone, Decided
<1>8. GroupDone
  BY <1>1, <1>3, <1>6, <1>7 DEF GroupDone
<1> QED BY <1>4, <1>8 DEF DatabaseStep

(* A conflict decided in favour of the local page. *)
LEMMA ResolvedStep ==
  ASSUME Shape, NEW g \in Groups, NEW action \in {"keep_local", "merged"},
         db.conflict[g] = "pending", Commit(Resolved(db, g, action)), UNCHANGED manifestVars
  PROVE  Declined
<1> DEFINE s == ReceiptStatus(action)
<1>1. /\ lock = Free /\ db' = Resolved(db, g, action) /\ work' = db' /\ UNCHANGED <<lock, todo>>
      /\ db \in Database
  BY ShapeFacts DEF Commit
<1>2. PatchesOf(g) \in SUBSET Patches /\ s \in Decisions /\ RunOf(g) \in Runs
  BY MembersFacts, RunOfFacts DEF ReceiptStatus, Decisions
<1>3. PICK d1 : d1 = WithReceipts(db, PatchesOf(g), s)
  OBVIOUS
<1>4. PICK d2 : d2 = WithConflict(d1, g, action)
  OBVIOUS
<1>5. db' = Marked(d2, RunOf(g))
  BY <1>1, <1>3, <1>4 DEF Resolved, WithConflict
<1> HIDE DEF s
<1>6. ReceiptsWritten(db, PatchesOf(g), s, d1)
  BY <1>1, <1>2, <1>3, WithReceiptsFacts
<1>7. d1 \in Database
  BY <1>6 DEF ReceiptsWritten
<1>8. ConflictWritten(d1, g, action, d2)
  BY <1>4, <1>7, WithConflictFacts
<1>9. d2 \in Database
  BY <1>8 DEF ConflictWritten
<1>10. MarkWritten(d2, RunOf(g), db')
  BY <1>2, <1>5, <1>9, MarkedFacts
<1>11. /\ SamePages(db, db') /\ db' \in Database
       /\ db'.receipt = [x \in Patches |->
            IF x \in PatchesOf(g) /\ db.receipt[x] = "none" THEN s ELSE db.receipt[x]]
       /\ db'.outbox = db.outbox \cup
            {ReceiptRow(x) : x \in {y \in PatchesOf(g) : db.receipt[y] = "none"}}
  BY <1>6, <1>8, <1>10 DEF ReceiptsWritten, ConflictWritten, MarkWritten, SamePages
<1>12. /\ db'.conflict = [db.conflict EXCEPT ![g] = action]
       /\ db'.applied = IF RunDone(d2, RunOf(g)) THEN db.applied \cup {RunOf(g)} ELSE db.applied
       /\ db'.receipt = d2.receipt
  BY <1>6, <1>8, <1>10 DEF ReceiptsWritten, ConflictWritten, MarkWritten
<1>13. RunDone(d2, RunOf(g)) = RunDone(db', RunOf(g))
  BY <1>12 DEF RunDone, Decided
<1> QED BY <1>1, <1>11, <1>12, <1>13 DEF Declined, Committed, s

(* The automatic decision for the local page is a step of a listed kind. *)
LEMMA KeepLocalStep ==
  ASSUME Shape, NEW w \in Workers, KeepLocal(w)
  PROVE  DatabaseStep /\ WorkerStep
<1> DEFINE g == Head(worker[w].conflicts)
           cs == Tail(worker[w].conflicts)
           n == [worker[w] EXCEPT !.conflicts = cs]
<1>1. /\ worker[w].pc = "resolving" /\ db.conflict[g] = "pending"
      /\ Commit(Resolved(db, g, "keep_local")) /\ UNCHANGED manifestVars
      /\ Become(w, Advance(n))
  BY DEF KeepLocal
<1>2. lock = Free /\ lock' = lock /\ inbox' = inbox
  BY <1>1 DEF Commit, manifestVars
<1>3. /\ worker[w] \in WorkerState /\ AtWork(worker[w]) /\ Informed(worker[w], Received)
      /\ Received \in SUBSET Runs
  BY ShapeFacts
<1>4. worker[w].conflicts \in Seq(Groups) /\ worker[w].conflicts # <<>> /\ ~ worker[w].force
  BY <1>1, <1>3, WorkerFields DEF AtWork
<1>5. g \in Groups /\ cs \in Seq(Groups)
  BY <1>4, TailOfGroups
<1>6. Declined
  BY <1>1, <1>5, ResolvedStep
<1>7. WorkerStep
  <2>1. /\ n \in WorkerState /\ n.groups = worker[w].groups /\ n.runs = worker[w].runs
        /\ ~ n.force
    BY <1>3, <1>4, <1>5 DEF WorkerState
  <2> HIDE DEF n
  <2>2. Informed(n, Received)
    BY <1>3, <2>1 DEF Informed
  <2>3. worker[w].groups = <<>>
    BY <1>1, <1>3 DEF AtWork
  <2>4. PICK m : m = Advance(n)
    OBVIOUS
  <2>5. m \in WorkerState /\ AtWork(m) /\ m.pc # "writing" /\ Informed(m, Received)
    BY <1>3, <2>1, <2>2, <2>3, <2>4, AdvanceInformed
  <2>6. Become(w, m) /\ lock # w
    BY <1>1, <1>2, <2>4, WorkerAssumption
  <2> QED BY <1>2, <2>5, <2>6, WorkerBecomes
<1> QED BY <1>6, <1>7 DEF DatabaseStep

(* An operator's decision for the local or the merged page is a Declined   *)
(* step.                                                                   *)
LEMMA OperatorResolveStep ==
  ASSUME Shape, NEW w \in Workers, NEW g \in Groups, NEW action \in {"keep_local", "merged"},
         OperatorResolve(w, g, action)
  PROVE  DatabaseStep /\ WorkerStep
<1>1. /\ db.conflict[g] = "pending" /\ Commit(Resolved(db, g, action))
      /\ UNCHANGED manifestVars /\ worker' = worker
  BY DEF OperatorResolve
<1>2. lock' = lock /\ inbox' = inbox
  BY <1>1 DEF Commit, manifestVars
<1>3. Declined
  BY <1>1, ResolvedStep
<1> QED BY <1>1, <1>2, <1>3, WorkerStays DEF DatabaseStep

(* An operator who applies one group by force. *)
ForcedWorker(g) ==
  [pc |-> "writing", auto |-> FALSE, policy |-> "safe", runs |-> {}, groups |-> <<g>>,
   conflicts |-> <<>>, force |-> TRUE]

(* The state of an operator who accepts a group, as a record. *)
LEMMA ForcedRecord ==
  ASSUME NEW g \in Groups
  PROVE  [IdleWorker EXCEPT !.pc = "writing", !.groups = <<g>>, !.force = TRUE] = ForcedWorker(g)
<1>1. PICK m : m = [IdleWorker EXCEPT !.pc = "writing", !.groups = <<g>>, !.force = TRUE]
  OBVIOUS
<1>2. /\ m.pc = "writing" /\ m.auto = FALSE /\ m.policy = "safe" /\ m.runs = {}
      /\ m.groups = <<g>> /\ m.conflicts = <<>> /\ m.force = TRUE
  BY <1>1 DEF IdleWorker
<1>3. m = [pc |-> m.pc, auto |-> m.auto, policy |-> m.policy, runs |-> m.runs, groups |-> m.groups,
           conflicts |-> m.conflicts, force |-> m.force]
  BY <1>1 DEF IdleWorker
<1> QED BY <1>1, <1>2, <1>3 DEF ForcedWorker

(* The state of an operator who accepts a group of a received run is       *)
(* legal.                                                                  *)
LEMMA ForcedOK ==
  ASSUME NEW g \in Groups, NEW received \in SUBSET Runs, RunOf(g) \in received,
         NEW m, m = ForcedWorker(g)
  PROVE  /\ m \in WorkerState /\ AtWork(m) /\ Informed(m, received) /\ m.pc = "writing"
         /\ m.groups # <<>> /\ Head(m.groups) = g /\ m.force
<1>1. <<g>> \in Seq(Groups) /\ Len(<<g>>) = 1 /\ <<g>>[1] = g /\ <<>> \in Seq(Groups)
  OBVIOUS
<1>2. Range(<<g>>) = {<<g>>[i] : i \in 1 .. Len(<<g>>)}
  BY <1>1, RangeEquality
<1>3. Range(<<g>>) = {g}
  BY <1>1, <1>2
<1>4. <<g>> # <<>> /\ Head(<<g>>) = g
  OBVIOUS
<1>5. PICK gs : gs = <<g>>
  OBVIOUS
<1>6. /\ m \in WorkerState /\ m.pc = "writing" /\ m.runs = {} /\ m.groups = gs
      /\ m.conflicts = <<>> /\ m.force = TRUE
  BY <1>1, <1>5 DEF ForcedWorker, WorkerState
<1>7. gs # <<>> /\ Head(gs) = g /\ Len(gs) = 1 /\ Range(gs) = {g}
  BY <1>1, <1>3, <1>4, <1>5
<1>8. AtWork(m)
  BY <1>6, <1>7 DEF AtWork
<1>9. Informed(m, received)
  BY <1>6, <1>7 DEF Informed
<1> QED BY <1>6, <1>7, <1>8, <1>9

(* An operator's accept opens a transaction, or only closes the conflict   *)
(* of a group that is decided.                                             *)
LEMMA OperatorAcceptStep ==
  ASSUME Shape, NEW w \in Workers, NEW g \in Groups, OperatorAccept(w, g)
  PROVE  DatabaseStep /\ WorkerStep
<1>1. /\ worker[w].pc = "idle" /\ lock = Free /\ db.conflict[g] = "pending"
      /\ UNCHANGED manifestVars /\ inbox' = inbox
  BY DEF OperatorAccept, manifestVars
<1>2. db \in Database /\ RunOf(g) \in Runs /\ Received \in SUBSET Runs /\ RunOf(g) \in Received
  BY <1>1, ShapeFacts, RunOfFacts DEF Shape
<1>3. CASE Processed(db, g)
  <2>1. PICK d : d = WithConflict(db, g, "accept_remote")
    OBVIOUS
  <2>2. db' = Marked(d, RunOf(g)) /\ work' = db' /\ UNCHANGED <<lock, todo, worker>>
    BY <1>3, <2>1 DEF OperatorAccept, Commit, WithConflict
  <2>3. ConflictWritten(db, g, "accept_remote", d)
    BY <1>2, <2>1, WithConflictFacts
  <2>4. d \in Database
    BY <2>3 DEF ConflictWritten
  <2>5. MarkWritten(d, RunOf(g), db')
    BY <1>2, <2>2, <2>4, MarkedFacts
  <2>6. /\ db' \in Database /\ SamePages(db, db') /\ db'.receipt = db.receipt
        /\ db'.outbox = db.outbox /\ db'.conflict = [db.conflict EXCEPT ![g] = "accept_remote"]
        /\ db'.applied = IF RunDone(d, RunOf(g)) THEN db.applied \cup {RunOf(g)} ELSE db.applied
    BY <2>3, <2>5 DEF ConflictWritten, MarkWritten, SamePages
  <2>7. d.receipt = db.receipt
    BY <2>3 DEF ConflictWritten
  <2>8. RunDone(d, RunOf(g)) = RunDone(db, RunOf(g))
    BY <2>7 DEF RunDone, Decided
  <2>9. BooksKept
    BY <1>1, <1>2, <1>3, <2>2, <2>6, <2>8 DEF BooksKept, Committed
  <2> QED BY <1>1, <2>2, <2>9, WorkerStays DEF DatabaseStep
<1>4. CASE ~ Processed(db, g)
  <2>1. /\ Decided(db, g) = {} /\ lock' = w /\ todo' = Preflighted(db, g) /\ UNCHANGED <<db, work>>
        /\ Become(w, [IdleWorker EXCEPT !.pc = "writing", !.groups = <<g>>, !.force = TRUE])
    BY <1>4 DEF OperatorAccept, OpenTransaction
  <2>2. PICK m : m = ForcedWorker(g)
    OBVIOUS
  <2>3. Become(w, m)
    BY <2>1, <2>2, ForcedRecord, Zenon
  <2>4. /\ m \in WorkerState /\ AtWork(m) /\ Informed(m, Received) /\ m.pc = "writing"
        /\ m.groups # <<>> /\ Head(m.groups) = g /\ m.force
    BY <1>2, <2>2, ForcedOK
  <2>5. WorkerStep /\ worker'[w] = m
    BY <1>1, <2>1, <2>3, <2>4, WorkerBecomes
  <2>6. Begun
    BY <1>1, <2>1, <2>4, <2>5 DEF Begun
  <2> QED BY <2>5, <2>6 DEF DatabaseStep
<1> QED BY <1>3, <1>4

(* An exception or a stop. *)
LEMMA GiveUpStep ==
  ASSUME Shape, NEW w \in Workers, GiveUp(w), UNCHANGED manifestVars
  PROVE  DatabaseStep /\ WorkerStep
<1>1. Become(w, IdleWorker) /\ inbox' = inbox
  BY DEF GiveUp, manifestVars
<1>2. PICK m : m = IdleWorker
  OBVIOUS
<1>3. m \in WorkerState /\ AtWork(m) /\ m.pc # "writing" /\ Become(w, m)
  BY <1>1, <1>2, IdleOK DEF IdleWorker
<1>4. Informed(m, Received)
  BY <1>2, EmptyRange DEF Informed, IdleWorker
<1>5. CASE lock = w
  <2>1. db' = db /\ work' = db /\ lock' = Free /\ todo' = <<>>
    BY <1>5 DEF GiveUp, Unlock
  <2>2. WorkerStep
    BY <1>1, <1>3, <1>4, <1>5, <2>1, WorkerBecomes
  <2>3. RolledBack
    BY <1>5, <2>1 DEF RolledBack
  <2> QED BY <2>2, <2>3 DEF DatabaseStep
<1>6. CASE lock # w
  <2>1. UNCHANGED <<db, work, lock, todo>>
    BY <1>6 DEF GiveUp, lockVars
  <2>2. WorkerStep /\ \A v \in Workers : v # w => worker'[v] = worker[v]
    BY <1>1, <1>3, <1>4, <1>6, <2>1, WorkerBecomes
  <2>3. LeavesDatabase
    BY <1>1, <1>6, <2>1, <2>2 DEF LeavesDatabase, Received
  <2> QED BY <2>2, <2>3 DEF DatabaseStep
<1> QED BY <1>5, <1>6

(* No patch of the open transaction that is still to apply has a receipt.  *)
TodoOpen == \A i \in 1 .. Len(todo) : work.receipt[todo[i].patch] = "none"

(* Every step is of one of these kinds. *)
LEMMA StepKinds ==
  ASSUME Shape, TodoOpen, [Next]_vars
  PROVE  DatabaseStep /\ WorkerStep
<1>1. CASE UNCHANGED vars
  <2>1. UNCHANGED <<db, work, lock, todo, inbox, worker>>
    BY <1>1 DEF vars
  <2>2. LeavesDatabase
    BY <2>1 DEF LeavesDatabase, Received
  <2> QED BY <2>1, <2>2, WorkerStays DEF DatabaseStep
<1>2. ASSUME NEW p \in Paths, NEW c \in Contents, AgentWrite(p, c) PROVE DatabaseStep /\ WorkerStep
  BY <1>2, AgentWriteStep
<1>3. ASSUME NEW p \in Paths, NEW q \in Paths, AgentLink(p, q) PROVE DatabaseStep /\ WorkerStep
  BY <1>3, AgentLinkStep
<1>4. ASSUME NEW r \in Runs, Publish(r) \/ Receive(r) PROVE DatabaseStep /\ WorkerStep
  BY <1>4, InboxStep DEF DatabaseStep
<1>5. ASSUME NEW w \in Workers, StartCycle(w) PROVE DatabaseStep /\ WorkerStep
  BY <1>5, StartStep
<1>6. ASSUME NEW w \in Workers, Work(w) PROVE DatabaseStep /\ WorkerStep
  <2>1. CASE Raise(w)
    BY <2>1, GiveUpStep DEF Raise
  <2>2. CASE ApplyPatch(w)
    BY <2>2, ApplyPatchStep DEF TodoOpen
  <2> QED BY <1>6, <2>1, <2>2, SkipForReviewStep, SkipProcessedStep, ReportConflictStep,
             BeginGroupStep, CommitGroupStep, KeepLocalStep DEF Work
<1>7. ASSUME NEW w \in Workers, Stop(w) PROVE DatabaseStep /\ WorkerStep
  BY <1>7, GiveUpStep DEF Stop
<1>8. ASSUME NEW w \in Workers, Operate(w) PROVE DatabaseStep /\ WorkerStep
  BY <1>8, StartStep, OperatorResolveStep, OperatorAcceptStep DEF Operate
<1> QED BY <1>1, <1>2, <1>3, <1>4, <1>5, <1>6, <1>7, <1>8 DEF Next
-----------------------------------------------------------------------------
(* What an open transaction has done so far: the first k patches of its    *)
(* group have their receipts, in its own copy only, and everything else    *)
(* about receipts, runs and conflicts is as committed.                     *)
Progress(g, k) ==
  /\ k \in 0 .. Len(Members[g]) /\ Len(todo) = Len(Members[g]) - k
  /\ \A i \in 1 .. Len(todo) : todo[i].patch = Members[g][k + i]
  /\ \A i \in 1 .. k : work.receipt[Members[g][i]] \in {"applied", "already_applied"}
  /\ \A i \in k + 1 .. Len(Members[g]) : work.receipt[Members[g][i]] = "none"
  /\ \A x \in PatchesOf(g) : db.receipt[x] = "none"
  /\ \A x \in Patches \ PatchesOf(g) : work.receipt[x] = db.receipt[x]
  /\ work.applied = db.applied /\ work.conflict = db.conflict

InProgress == lock \in Workers => \E k \in Nat : Progress(Head(worker[lock].groups), k)

(* An open transaction is for a group of a received run and has done some  *)
(* of its patches.                                                         *)
LEMMA ProgressFacts ==
  ASSUME Shape, InProgress, lock \in Workers
  PROVE  \E g \in Groups, k \in Nat :
           /\ g = Head(worker[lock].groups) /\ Progress(g, k)
           /\ RunOf(g) \in Received
<1>1. worker[lock].pc = "writing"
  BY ShapeFacts
<1>2. Head(worker[lock].groups) \in Groups /\ RunOf(Head(worker[lock].groups)) \in Received
  BY <1>1, AtGroupFacts
<1>3. PICK k \in Nat : Progress(Head(worker[lock].groups), k)
  BY DEF InProgress
<1> QED BY <1>2, <1>3 DEF Progress

(* The patches still to apply have no receipt. *)
LEMMA TodoIsOpen ==
  ASSUME Shape, InProgress
  PROVE  TodoOpen
<1>1. CASE lock \in Workers
  <2>1. PICK g \in Groups, k \in Nat : Progress(g, k)
    BY <1>1, ProgressFacts
  <2>2. Len(Members[g]) \in Nat
    BY MembersFacts
  <2>3. ASSUME NEW i \in 1 .. Len(todo) PROVE work.receipt[todo[i].patch] = "none"
    <3>1. k + i \in k + 1 .. Len(Members[g]) /\ todo[i].patch = Members[g][k + i]
      BY <2>1, <2>2, <2>3 DEF Progress
    <3> QED BY <2>1, <3>1 DEF Progress
  <2> QED BY <2>3 DEF TodoOpen
<1>2. CASE lock = Free
  <2>1. Len(todo) = 0
    BY <1>2, ShapeFacts
  <2> QED BY <2>1 DEF TodoOpen
<1> QED BY <1>1, <1>2, ShapeFacts

(* A group lists each patch once. *)
LEMMA MembersDistinct ==
  ASSUME NEW g \in Groups, NEW i \in 1 .. Len(Members[g]), NEW j \in 1 .. Len(Members[g]),
         Members[g][i] = Members[g][j]
  PROVE  i = j
<1>1. \A h \in Groups : \A n \in 1 .. Len(Members[g]), m \in 1 .. Len(Members[h]) :
        Members[g][n] = Members[h][m] => g = h /\ n = m
  BY ManifestAssumption DEF ValidManifests
<1> QED BY <1>1

(* What applying one patch did to the open transaction. *)
PatchWritten(x, s) ==
  /\ work.receipt[x] = "none" /\ work' \in Database
  /\ work'.receipt = [work.receipt EXCEPT ![x] = s]
  /\ work'.conflict = work.conflict /\ work'.applied = work.applied
  /\ \/ /\ s = "already_applied" /\ SamePages(work, work')
        /\ work'.outbox = work.outbox \cup {ReceiptRow(x)}
     \/ /\ s = "applied"
        /\ ~ Head(todo).already /\ ~ PatchFails(work, x, worker[lock].force)
        /\ \E e : /\ EffectSeen(work, x, e) /\ SamePages(e, work')
                  /\ work'.outbox = e.outbox \cup {ReceiptRow(x)}

(* What a PatchDone step writes: the next member's receipt, and its effect *)
(* when it was not applied already.                                        *)
LEMMA PatchDoneFacts ==
  ASSUME Shape, InProgress, PatchDone
  PROVE  /\ lock \in Workers /\ UNCHANGED <<db, lock, worker, manifestVars>>
         /\ \E g \in Groups, k \in Nat :
              /\ g = Head(worker[lock].groups) /\ Progress(g, k) /\ k + 1 \in 1 .. Len(Members[g])
              /\ todo # <<>> /\ todo' = Tail(todo) /\ Head(todo).patch = Members[g][k + 1]
              /\ Head(todo) = todo[1]
              /\ Members[g][k + 1] \in PatchesOf(g) /\ PatchesOf(g) \in SUBSET Patches
              /\ \E s \in {"applied", "already_applied"} : PatchWritten(Members[g][k + 1], s)
<1>1. PICK w \in Workers : ApplyPatch(w) /\ work' \in Database
  BY DEF PatchDone
<1>2. /\ lock = w /\ todo # <<>> /\ todo' = Tail(todo)
      /\ UNCHANGED <<db, lock, worker, manifestVars>>
  BY <1>1 DEF ApplyPatch
<1>3. PICK g \in Groups, k \in Nat :
        g = Head(worker[lock].groups) /\ Progress(g, k)
  BY <1>2, ProgressFacts
<1>4. todo \in Seq([patch : Patches, already : BOOLEAN]) /\ work \in Database
  BY DEF Shape, TypeOK
<1>5. Len(todo) \in Nat \ {0} /\ Head(todo) = todo[1]
  <2> DEFINE T == [patch : Patches, already : BOOLEAN]
  <2>1. todo \in Seq(T)
    BY <1>4
  <2> HIDE DEF T
  <2> QED BY <1>2, <2>1, EmptySeq
<1>6. /\ Len(Members[g]) \in Nat /\ Len(todo) = Len(Members[g]) - k
      /\ PatchesOf(g) \in SUBSET Patches
  BY <1>3, MembersFacts DEF Progress
<1>7. k + 1 \in 1 .. Len(Members[g])
  BY <1>5, <1>6
<1> DEFINE x == Members[g][k + 1]
<1>8. x \in PatchesOf(g) /\ x \in Patches
  BY <1>6, <1>7, MembersFacts
<1>9. Head(todo).patch = x
  <2>1. todo[1].patch = Members[g][k + 1]
    BY <1>3, <1>5 DEF Progress
  <2> QED BY <1>5, <2>1
<1>10. work.receipt[x] = "none"
  <2>1. k + 1 \in k + 1 .. Len(Members[g])
    BY <1>6, <1>7
  <2> QED BY <1>3, <2>1 DEF Progress
<1> HIDE DEF x
<1>11. \E s \in {"applied", "already_applied"} : PatchWritten(x, s)
  <2>1. CASE Head(todo).already
    <3>1. work' = WithReceipt(work, x, "already_applied") /\ "already_applied" \in Decisions
      BY <1>1, <1>9, <2>1 DEF ApplyPatch, Decisions
    <3>2. ReceiptWritten(work, x, "already_applied", work')
      BY <1>4, <1>8, <1>10, <3>1, WithReceiptFacts
    <3>3. PatchWritten(x, "already_applied")
      BY <1>10, <3>2 DEF ReceiptWritten, PatchWritten, SamePages
    <3> QED BY <3>3
  <2>2. CASE ~ Head(todo).already
    <3>1. PICK e : e = Effect(work, x)
      OBVIOUS
    <3>2. EffectSeen(work, x, e)
      BY <1>4, <1>8, <3>1, EffectFacts
    <3>3. e \in Database /\ e.receipt[x] = "none" /\ e.receipt = work.receipt
          /\ e.conflict = work.conflict /\ e.applied = work.applied
      BY <1>10, <3>2 DEF EffectSeen
    <3>4. work' = WithReceipt(e, x, "applied") /\ "applied" \in Decisions
          /\ ~ PatchFails(work, x, worker[lock].force)
      BY <1>1, <1>2, <1>9, <2>2, <3>1 DEF Decisions, ApplyPatch
    <3>5. ReceiptWritten(e, x, "applied", work')
      BY <1>8, <3>3, <3>4, WithReceiptFacts
    <3>6. /\ SamePages(e, work') /\ work'.outbox = e.outbox \cup {ReceiptRow(x)}
          /\ work'.receipt = [work.receipt EXCEPT ![x] = "applied"]
          /\ work'.conflict = work.conflict /\ work'.applied = work.applied
      BY <3>3, <3>5 DEF ReceiptWritten, SamePages
    <3>7. PatchWritten(x, "applied")
      BY <1>1, <1>10, <2>2, <3>2, <3>4, <3>6 DEF PatchWritten
    <3> QED BY <3>7
  <2> QED BY <2>1, <2>2
<1> QED BY <1>1, <1>2, <1>3, <1>5, <1>6, <1>7, <1>8, <1>9, <1>11 DEF x

(* A group is undecided, or processed, by the receipts of its patches. *)
LEMMA DecidedFacts ==
  ASSUME NEW d, NEW g \in Groups
  PROVE  /\ Decided(d, g) = {} <=> \A x \in PatchesOf(g) : d.receipt[x] = "none"
         /\ Processed(d, g) <=> \A x \in PatchesOf(g) : d.receipt[x] # "none"
  BY DEF Decided, Processed

(* A transaction that begins has done none of its patches. *)
LEMMA BegunProgress ==
  ASSUME Shape, Begun
  PROVE  InProgress'
<1>1. PICK w \in Workers, g \in Groups :
        /\ lock = Free /\ lock' = w /\ db' = db /\ work' = work
        /\ todo' = Preflighted(db, g) /\ Decided(db, g) = {}
        /\ g = Head(worker'[w].groups)
  BY DEF Begun
<1>2. work = db
  BY <1>1, ShapeFacts
<1>3. Len(todo') = Len(Members[g])
  BY <1>1, PreflightedIsSeq
<1>4. Len(Members[g]) \in Nat /\ \A i \in 1 .. Len(Members[g]) : Members[g][i] \in PatchesOf(g)
  BY MembersFacts
<1>5. \A i \in 1 .. Len(todo') : todo'[i].patch = Members[g][0 + i]
  BY <1>1, <1>3, <1>4 DEF Preflighted
<1>6. \A x \in PatchesOf(g) : db.receipt[x] = "none"
  BY <1>1, DecidedFacts
<1>7. \A i \in 0 + 1 .. Len(Members[g]) : work'.receipt[Members[g][i]] = "none"
  BY <1>1, <1>2, <1>4, <1>6
<1>8. 0 \in 0 .. Len(Members[g]) /\ Len(todo') = Len(Members[g]) - 0
  BY <1>3, <1>4
<1>9. \A i \in 1 .. 0 : work'.receipt[Members[g][i]] \in {"applied", "already_applied"}
  OBVIOUS
<1>10. Progress(g, 0)'
  BY <1>1, <1>2, <1>5, <1>6, <1>7, <1>8, <1>9 DEF Progress
<1>11. g = Head(worker'[lock'].groups)
  BY <1>1
<1> QED BY <1>10, <1>11 DEF InProgress

(* A transaction that applies a patch has done one more. *)
LEMMA PatchProgress ==
  ASSUME Shape, InProgress, PatchDone
  PROVE  InProgress'
<1>1. lock \in Workers /\ UNCHANGED <<db, lock, worker>>
  BY PatchDoneFacts
<1>2. PICK g \in Groups, k \in Nat :
         /\ g = Head(worker[lock].groups) /\ Progress(g, k) /\ k + 1 \in 1 .. Len(Members[g])
         /\ todo # <<>> /\ todo' = Tail(todo)
         /\ Members[g][k + 1] \in PatchesOf(g) /\ PatchesOf(g) \in SUBSET Patches
         /\ \E s \in {"applied", "already_applied"} : PatchWritten(Members[g][k + 1], s)
  BY PatchDoneFacts
<1>3. PICK s \in {"applied", "already_applied"} : PatchWritten(Members[g][k + 1], s)
  BY <1>2
<1> DEFINE x == Members[g][k + 1]
<1>4. Len(Members[g]) \in Nat /\ \A i \in 1 .. Len(Members[g]) : Members[g][i] \in PatchesOf(g)
  BY MembersFacts
<1>5. /\ work'.receipt = [work.receipt EXCEPT ![x] = s]
      /\ work'.conflict = work.conflict /\ work'.applied = work.applied
  BY <1>3 DEF PatchWritten
<1>6. work.receipt \in [Patches -> Decisions \cup {"none"}] /\ x \in Patches
  BY <1>2, ShapeFacts, DatabaseFields
<1>7. work'.receipt[x] = s /\ \A y \in Patches : y # x => work'.receipt[y] = work.receipt[y]
  BY <1>5, <1>6
<1>8. \A i \in 1 .. Len(Members[g]) : i # k + 1 => Members[g][i] # x
  BY <1>2, MembersDistinct
<1>9. /\ \A i \in 1 .. k : work.receipt[Members[g][i]] \in {"applied", "already_applied"}
      /\ \A i \in k + 1 .. Len(Members[g]) : work.receipt[Members[g][i]] = "none"
      /\ Len(todo) = Len(Members[g]) - k
      /\ \A i \in 1 .. Len(todo) : todo[i].patch = Members[g][k + i]
  BY <1>2 DEF Progress
<1>10. \A i \in 1 .. k + 1 : work'.receipt[Members[g][i]] \in {"applied", "already_applied"}
  <2>1. ASSUME NEW i \in 1 .. k + 1, i # k + 1
        PROVE  work'.receipt[Members[g][i]] \in {"applied", "already_applied"}
    <3>1. i \in 1 .. k /\ i \in 1 .. Len(Members[g])
      BY <1>2, <1>4, <2>1
    <3>2. Members[g][i] \in Patches /\ Members[g][i] # x
      BY <1>2, <1>4, <1>8, <2>1, <3>1
    <3> QED BY <1>7, <1>9, <3>1, <3>2
  <2> QED BY <1>7, <2>1
<1>11. \A i \in (k + 1) + 1 .. Len(Members[g]) : work'.receipt[Members[g][i]] = "none"
  <2>1. ASSUME NEW i \in (k + 1) + 1 .. Len(Members[g])
        PROVE  work'.receipt[Members[g][i]] = "none"
    <3>1. i \in k + 1 .. Len(Members[g]) /\ i \in 1 .. Len(Members[g]) /\ i # k + 1
      BY <1>2, <1>4, <2>1
    <3>2. Members[g][i] \in Patches /\ Members[g][i] # x
      BY <1>2, <1>4, <1>8, <3>1
    <3> QED BY <1>7, <1>9, <3>1, <3>2
  <2> QED BY <2>1
<1>12. /\ k + 1 \in 0 .. Len(Members[g]) /\ Len(todo') = Len(Members[g]) - (k + 1)
       /\ \A i \in 1 .. Len(todo') : todo'[i].patch = Members[g][(k + 1) + i]
  <2> DEFINE T == [patch : Patches, already : BOOLEAN]
  <2>1. todo \in Seq(T)
    BY DEF Shape, TypeOK
  <2> HIDE DEF T
  <2>2. Len(todo') = Len(todo) - 1 /\ \A i \in 1 .. Len(todo') : todo'[i] = todo[i + 1]
    BY <1>2, <2>1, HeadTailProperties
  <2>3. k + 1 \in 0 .. Len(Members[g])
    BY <1>2, <1>4
  <2>4. Len(todo') = Len(Members[g]) - (k + 1)
    BY <1>4, <1>9, <2>2
  <2>5. ASSUME NEW i \in 1 .. Len(todo') PROVE todo'[i].patch = Members[g][(k + 1) + i]
    <3>1. i + 1 \in 1 .. Len(todo) /\ k + (i + 1) = (k + 1) + i
      BY <1>4, <1>9, <2>2
    <3> QED BY <1>9, <2>2, <3>1
  <2> QED BY <2>3, <2>4, <2>5
<1>13. \A y \in Patches \ PatchesOf(g) : work'.receipt[y] = db'.receipt[y]
  BY <1>1, <1>2, <1>7 DEF Progress
<1>14. /\ \A y \in PatchesOf(g) : db'.receipt[y] = "none"
       /\ work'.applied = db'.applied /\ work'.conflict = db'.conflict
  BY <1>1, <1>2, <1>5 DEF Progress
<1> HIDE DEF x
<1>15. Progress(g, k + 1)'
  BY <1>10, <1>11, <1>12, <1>13, <1>14 DEF Progress
<1> QED BY <1>1, <1>2, <1>15 DEF InProgress

(* Every kind of step keeps what is known of an open transaction. *)
LEMMA InProgressStep ==
  ASSUME Shape, InProgress, DatabaseStep
  PROVE  InProgress'
<1>1. CASE LeavesDatabase
  <2>1. UNCHANGED <<db, work, lock, todo>> /\ (lock \in Workers => worker'[lock] = worker[lock])
    BY <1>1 DEF LeavesDatabase
  <2>2. ASSUME lock \in Workers PROVE InProgress'
    <3>1. PICK g \in Groups, k \in Nat : g = Head(worker[lock].groups) /\ Progress(g, k)
      BY <2>2, ProgressFacts
    <3>2. Progress(g, k)'
      BY <2>1, <3>1 DEF Progress
    <3>3. g = Head(worker'[lock'].groups)
      BY <2>1, <2>2, <3>1
    <3> QED BY <3>2, <3>3 DEF InProgress
  <2> QED BY <2>1, <2>2 DEF InProgress
<1>2. CASE lock' = Free
  BY <1>2, WorkerAssumption DEF InProgress
<1>3. CASE Committed
  <2>1. lock' = Free
    BY <1>3 DEF Committed
  <2> QED BY <1>2, <2>1
<1>4. PageWritten \/ BooksKept \/ Declined => Committed
  BY DEF PageWritten, BooksKept, Declined
<1>5. RolledBack \/ GroupDone => lock' = Free
  BY DEF RolledBack, GroupDone
<1> QED BY <1>1, <1>2, <1>3, <1>4, <1>5, BegunProgress, PatchProgress DEF DatabaseStep

(* The versions of a page are numbered from one, and the last is its       *)
(* content.                                                                *)
LEMMA PageFacts ==
  ASSUME NEW d \in Database, NEW p \in Paths
  PROVE  /\ d.versions[p] \in Seq(Version) /\ Number(d, p) \in Nat
         /\ Exists(d, p) <=> Number(d, p) # 0
         /\ Exists(d, p) => Number(d, p) \in 1 .. Number(d, p) /\ Content(d, p) \in Contents
<1>1. d.versions[p] \in Seq(Version)
  BY DatabaseFields
<1>2. Number(d, p) \in Nat
  BY <1>1, LenProperties DEF Number
<1>3. Exists(d, p) <=> Number(d, p) # 0
  BY <1>1, EmptySeq DEF Number, Exists
<1>4. ASSUME Exists(d, p)
      PROVE  Number(d, p) \in 1 .. Number(d, p) /\ Content(d, p) \in Contents
  <2>1. Number(d, p) \in 1 .. Len(d.versions[p])
    BY <1>2, <1>3, <1>4 DEF Number
  <2>2. d.versions[p][Number(d, p)] \in Version
    BY <1>1, <2>1, ElementOfSeq
  <2> QED BY <2>1, <2>2 DEF Content, Version, Number
<1> QED BY <1>1, <1>2, <1>3, <1>4

(* Publishing a manifest keeps the types of the inbox and of the bases it  *)
(* records.                                                                *)
LEMMA PublishTypes ==
  ASSUME Shape, NEW r \in Runs, Publish(r)
  PROVE  /\ inbox' \in [Runs -> {"none", "published", "received"}]
         /\ base' \in [Patches -> BaseState] /\ seenTarget' \in [Patches -> Nat]
<1> DEFINE xs == UNION {PatchesOf(g) : g \in Range(Plan[r])}
<1>1. /\ inbox \in [Runs -> {"none", "published", "received"}]
      /\ base \in [Patches -> BaseState] /\ seenTarget \in [Patches -> Nat] /\ db \in Database
  BY DEF Shape, TypeOK
<1>2. /\ inbox' = [inbox EXCEPT ![r] = "published"]
      /\ base' = [x \in Patches |-> IF x \in xs /\ Patch[x].op # "create_page"
                                    THEN State(db, Patch[x].path) ELSE base[x]]
      /\ seenTarget' = [x \in Patches |-> IF x \in xs /\ Patch[x].target # NoPath
                                          THEN Number(db, Patch[x].target) ELSE seenTarget[x]]
      /\ \A x \in xs : (Patch[x].op = "create_page") = ~ Exists(db, Patch[x].path)
  BY DEF Publish
<1> HIDE DEF xs
<1>3. ASSUME NEW x \in Patches, x \in xs, Patch[x].op # "create_page"
      PROVE  State(db, Patch[x].path) \in BaseState
  <2>1. Exists(db, Patch[x].path) /\ Patch[x].path \in Paths
    BY <1>2, <1>3, PatchShape
  <2>2. Number(db, Patch[x].path) \in Nat /\ Content(db, Patch[x].path) \in Contents
    BY <1>1, <2>1, PageFacts
  <2> QED BY <2>2 DEF State, BaseState
<1>4. ASSUME NEW x \in Patches, Patch[x].target # NoPath
      PROVE  Number(db, Patch[x].target) \in Nat
  <2>1. Patch[x].target \in Paths
    BY <1>4, ManifestAssumption DEF ValidManifests, PatchRecord
  <2> QED BY <1>1, <2>1, PageFacts
<1>5. base' \in [Patches -> BaseState]
  BY <1>1, <1>2, <1>3
<1>6. seenTarget' \in [Patches -> Nat]
  BY <1>1, <1>2, <1>4
<1> QED BY <1>1, <1>2, <1>5, <1>6

(* Every step keeps the types of the inbox, the bases and the bounds. *)
LEMMA OtherTypes ==
  ASSUME Shape, [Next]_vars
  PROVE  /\ inbox' \in [Runs -> {"none", "published", "received"}]
         /\ base' \in [Patches -> BaseState] /\ seenTarget' \in [Patches -> Nat]
         /\ writes' \in 0 .. MaxWrites /\ stops' \in 0 .. MaxStops
<1>1. /\ inbox \in [Runs -> {"none", "published", "received"}]
      /\ base \in [Patches -> BaseState] /\ seenTarget \in [Patches -> Nat]
      /\ writes \in 0 .. MaxWrites /\ stops \in 0 .. MaxStops
  BY DEF Shape, TypeOK
<1>2. \/ UNCHANGED <<manifestVars, writes, stops>>
      \/ UNCHANGED <<manifestVars, stops>> /\ writes < MaxWrites /\ writes' = writes + 1
      \/ UNCHANGED <<manifestVars, writes>> /\ stops < MaxStops /\ stops' = stops + 1
      \/ \E r \in Runs : (Publish(r) \/ Receive(r)) /\ UNCHANGED <<writes, stops>>
  <2>1. CASE UNCHANGED vars
    BY <2>1 DEF vars, manifestVars
  <2>2. ASSUME NEW p \in Paths, NEW c \in Contents, AgentWrite(p, c)
        PROVE  UNCHANGED <<manifestVars, stops>> /\ writes < MaxWrites /\ writes' = writes + 1
    BY <2>2 DEF AgentWrite
  <2>3. ASSUME NEW p \in Paths, NEW q \in Paths, AgentLink(p, q)
        PROVE  UNCHANGED <<manifestVars, stops>> /\ writes < MaxWrites /\ writes' = writes + 1
    BY <2>3 DEF AgentLink
  <2>4. ASSUME NEW r \in Runs, Publish(r) \/ Receive(r) PROVE UNCHANGED <<writes, stops>>
    BY <2>4 DEF Publish, Receive
  <2>5. ASSUME NEW w \in Workers, StartCycle(w) \/ Work(w) \/ Operate(w)
        PROVE  UNCHANGED <<manifestVars, writes, stops>>
    BY <2>5 DEF StartCycle, Work, Operate, SkipForReview, SkipProcessed, ReportConflict, BeginGroup,
                ApplyPatch, CommitGroup, KeepLocal, Raise, OperatorApply, OperatorResolve,
                OperatorAccept
  <2>6. ASSUME NEW w \in Workers, Stop(w)
        PROVE  UNCHANGED <<manifestVars, writes>> /\ stops < MaxStops /\ stops' = stops + 1
    BY <2>6 DEF Stop
  <2> QED BY <2>1, <2>2, <2>3, <2>4, <2>5, <2>6 DEF Next
<1>3. ASSUME NEW r \in Runs, Publish(r) \/ Receive(r)
      PROVE  /\ inbox' \in [Runs -> {"none", "published", "received"}]
             /\ base' \in [Patches -> BaseState] /\ seenTarget' \in [Patches -> Nat]
  <2>1. CASE Publish(r)
    BY <2>1, PublishTypes
  <2>2. CASE Receive(r)
    BY <1>1, <2>2 DEF Receive
  <2> QED BY <1>3, <2>1, <2>2
<1>4. UNCHANGED manifestVars => /\ inbox' \in [Runs -> {"none", "published", "received"}]
                                /\ base' \in [Patches -> BaseState] /\ seenTarget' \in [Patches -> Nat]
  BY <1>1 DEF manifestVars
<1>5. writes' \in 0 .. MaxWrites /\ stops' \in 0 .. MaxStops
  BY <1>1, <1>2, ApplyBoundAssumption
<1> QED BY <1>2, <1>3, <1>4, <1>5

(* An open transaction changes the conflict of its own group only. *)
LEMMA GroupDoneFacts ==
  ASSUME Shape, InProgress, GroupDone
  PROVE  \E g \in Groups :
    /\ lock \in Workers /\ g = Head(worker[lock].groups)
    /\ Progress(g, Len(Members[g])) /\ RunOf(g) \in Received
    /\ lock' = Free /\ todo' = <<>> /\ db' \in Database /\ work' = db'
    /\ SamePages(work, db') /\ UNCHANGED manifestVars
    /\ db'.receipt = work.receipt /\ db'.outbox = work.outbox
    /\ db'.conflict = IF worker[lock].force THEN [db.conflict EXCEPT ![g] = "accept_remote"]
                      ELSE db.conflict
    /\ db'.applied = IF RunDone(db', RunOf(g)) THEN db.applied \cup {RunOf(g)}
                     ELSE db.applied
    /\ \A x \in PatchesOf(g) : /\ db'.receipt[x] \in {"applied", "already_applied"}
                               /\ db.receipt[x] = "none"
    /\ \A x \in Patches \ PatchesOf(g) : db'.receipt[x] = db.receipt[x]
<1>1. PICK w \in Workers, g \in Groups :
    /\ lock = w /\ todo = <<>> /\ lock' = Free /\ todo' = <<>> /\ db' \in Database /\ work' = db'
    /\ g = Head(worker[w].groups) /\ SamePages(work, db') /\ UNCHANGED manifestVars
    /\ db'.receipt = work.receipt /\ db'.outbox = work.outbox
    /\ db'.conflict = IF worker[w].force THEN [work.conflict EXCEPT ![g] = "accept_remote"]
                      ELSE work.conflict
    /\ db'.applied = IF RunDone(db', RunOf(g)) THEN work.applied \cup {RunOf(g)}
                     ELSE work.applied
  BY DEF GroupDone
<1>2. PICK k \in Nat : Progress(g, k) /\ RunOf(g) \in Received
  BY <1>1, ProgressFacts
<1>3. Len(todo) = 0 /\ Len(Members[g]) \in Nat
  BY <1>1, MembersFacts
<1>4. k = Len(Members[g])
  BY <1>2, <1>3 DEF Progress
<1>5. \A x \in PatchesOf(g) : db'.receipt[x] \in {"applied", "already_applied"}
  <2>1. TAKE x \in PatchesOf(g)
  <2>2. PICK i \in 1 .. Len(Members[g]) : x = Members[g][i]
    BY MembersFacts
  <2> QED BY <1>1, <1>2, <1>4, <2>2 DEF Progress
<1>6. /\ \A x \in PatchesOf(g) : db.receipt[x] = "none"
      /\ \A x \in Patches \ PatchesOf(g) : db'.receipt[x] = db.receipt[x]
      /\ work.applied = db.applied /\ work.conflict = db.conflict
  BY <1>1, <1>2 DEF Progress
<1> QED BY <1>1, <1>2, <1>4, <1>5, <1>6

(* Conflicts are reported for groups of received runs only. *)
LEMMA ConflictsReceived ==
  ASSUME Shape, InProgress, DatabaseStep
  PROVE  \A g \in Groups : db'.conflict[g] # "none" => RunOf(g) \in Received'
<1>1. db.conflict \in [Groups -> {"none", "pending", "keep_local", "merged", "accept_remote"}]
  BY ShapeFacts, DatabaseFields
<1>2. \A g \in Groups : db.conflict[g] # "none" => RunOf(g) \in Received
  BY DEF Shape
<1>3. CASE db'.conflict = db.conflict /\ Received \subseteq Received'
  BY <1>2, <1>3
<1>4. ASSUME NEW h \in Groups, NEW s, RunOf(h) \in Received, UNCHANGED manifestVars,
             db'.conflict = [db.conflict EXCEPT ![h] = s]
      PROVE  \A g \in Groups : db'.conflict[g] # "none" => RunOf(g) \in Received'
  <2>1. Received' = Received
    BY <1>4 DEF Received, manifestVars
  <2>2. \A g \in Groups : g # h => db'.conflict[g] = db.conflict[g]
    BY <1>1, <1>4
  <2> QED BY <1>2, <1>4, <2>1, <2>2
<1>5. CASE LeavesDatabase
  BY <1>3, <1>5 DEF LeavesDatabase
<1>6. UNCHANGED manifestVars => Received' = Received
  BY DEF Received, manifestVars
<1>7. CASE RolledBack
  BY <1>3, <1>6, <1>7 DEF RolledBack
<1>8. CASE PageWritten
  BY <1>3, <1>6, <1>8 DEF PageWritten, Committed, SameButVersions
<1>9. CASE BooksKept
  <2>1. UNCHANGED manifestVars
    BY <1>9 DEF BooksKept, Committed
  <2>2. \/ db'.conflict = db.conflict
        \/ \E g \in Groups : /\ db.conflict[g] = "none" /\ RunOf(g) \in Received
                             /\ db'.conflict = [db.conflict EXCEPT ![g] = "pending"]
        \/ \E g \in Groups : /\ db.conflict[g] = "pending"
                             /\ db'.conflict = [db.conflict EXCEPT ![g] = "accept_remote"]
    BY <1>9 DEF BooksKept
  <2>3. ASSUME NEW g \in Groups, RunOf(g) \in Received,
               db'.conflict = [db.conflict EXCEPT ![g] = "pending"]
        PROVE  \A h \in Groups : db'.conflict[h] # "none" => RunOf(h) \in Received'
    BY <1>4, <2>1, <2>3
  <2>4. ASSUME NEW g \in Groups, db.conflict[g] = "pending",
               db'.conflict = [db.conflict EXCEPT ![g] = "accept_remote"]
        PROVE  \A h \in Groups : db'.conflict[h] # "none" => RunOf(h) \in Received'
    BY <1>2, <1>4, <2>1, <2>4
  <2> QED BY <1>3, <1>6, <2>1, <2>2, <2>3, <2>4
<1>10. CASE Declined
  <2>1. UNCHANGED manifestVars
    BY <1>10 DEF Declined, Committed
  <2>2. PICK g \in Groups, action \in {"keep_local", "merged"} :
          db.conflict[g] = "pending" /\ db'.conflict = [db.conflict EXCEPT ![g] = action]
    BY <1>10 DEF Declined
  <2> QED BY <1>2, <1>4, <2>1, <2>2
<1>11. CASE Begun
  BY <1>3, <1>6, <1>11 DEF Begun
<1>12. CASE PatchDone
  BY <1>3, <1>6, <1>12, PatchDoneFacts
<1>13. CASE GroupDone
  <2>1. PICK g \in Groups :
          /\ RunOf(g) \in Received /\ UNCHANGED manifestVars
          /\ db'.conflict = IF worker[lock].force THEN [db.conflict EXCEPT ![g] = "accept_remote"]
                            ELSE db.conflict
    BY <1>13, GroupDoneFacts
  <2> QED BY <1>3, <1>4, <1>6, <2>1
<1> QED BY <1>5, <1>7, <1>8, <1>9, <1>10, <1>11, <1>12, <1>13 DEF DatabaseStep

(* Every step keeps Shape and InProgress. *)
LEMMA ShapeStep ==
  ASSUME Shape, InProgress, [Next]_vars
  PROVE  Shape' /\ InProgress'
<1>1. DatabaseStep /\ WorkerStep
  BY TodoIsOpen, StepKinds
<1> DEFINE T == [patch : Patches, already : BOOLEAN]
<1>2. /\ db \in Database /\ work \in Database /\ lock \in Workers \cup {Free} /\ todo \in Seq(T)
      /\ lock = Free => work = db /\ todo = <<>>
  BY DEF Shape, TypeOK
<1>3. <<>> \in Seq(T)
  BY EmptySeq
<1>4. \A g \in Groups : Preflighted(db, g) \in Seq(T)
  BY PreflightedIsSeq
<1> HIDE DEF T
<1>5. /\ db' \in Database /\ work' \in Database /\ lock' \in Workers \cup {Free} /\ todo' \in Seq(T)
      /\ lock' = Free => work' = db' /\ todo' = <<>>
  <2>1. CASE LeavesDatabase
    BY <1>2, <2>1 DEF LeavesDatabase
  <2>2. CASE RolledBack
    BY <1>2, <1>3, <2>2 DEF RolledBack
  <2>3. CASE Committed
    BY <1>2, <2>3 DEF Committed
  <2>4. CASE Begun
    BY <1>2, <1>4, <2>4, WorkerAssumption DEF Begun
  <2>5. CASE PatchDone
    <3>1. lock \in Workers /\ UNCHANGED <<db, lock>>
      BY <2>5, PatchDoneFacts
    <3>2. work' \in Database /\ todo' \in Seq(T)
      BY <2>5 DEF PatchDone, T
    <3> QED BY <1>2, <3>1, <3>2, WorkerAssumption
  <2>6. CASE GroupDone
    BY <1>3, <2>6 DEF GroupDone
  <2> QED BY <1>1, <2>1, <2>2, <2>3, <2>4, <2>5, <2>6
        DEF DatabaseStep, PageWritten, BooksKept, Declined
<1>6. worker' \in [Workers -> WorkerState]
  BY <1>1 DEF WorkerStep, WorkersOK
<1>7. TypeOK'
  BY <1>5, <1>6, OtherTypes DEF TypeOK, T
<1>8. \A g \in Groups : db'.conflict[g] # "none" => RunOf(g) \in Received'
  BY <1>1, ConflictsReceived
<1>9. Shape'
  BY <1>1, <1>5, <1>7, <1>8 DEF Shape, WorkerStep
<1> QED BY <1>1, <1>9, InProgressStep

InitialVersions ==
  [p \in Paths |-> IF p \in InitialPages
                   THEN <<[content |-> InitialContent, by |-> Agent]>> ELSE <<>>]

(* The initial values, field by field. *)
LEMMA InitFacts ==
  ASSUME Init
  PROVE  /\ db.versions = InitialVersions
         /\ db.status = [p \in Paths |-> "active"] /\ db.canonical = [p \in Paths |-> NoPath]
         /\ db.links = {} /\ db.alias = [p \in Paths |-> NoPath]
         /\ db.receipt = [x \in Patches |-> "none"] /\ db.conflict = [g \in Groups |-> "none"]
         /\ db.applied = {} /\ db.outbox = {PageRow(p, 1) : p \in InitialPages}
         /\ db \in Database /\ work = db /\ lock = Free /\ todo = <<>>
         /\ inbox = [r \in Runs |-> "none"] /\ worker = [w \in Workers |-> IdleWorker]
<1>1. /\ db.versions = InitialVersions
      /\ db.status = [p \in Paths |-> "active"] /\ db.canonical = [p \in Paths |-> NoPath]
      /\ db.links = {} /\ db.alias = [p \in Paths |-> NoPath]
      /\ db.receipt = [x \in Patches |-> "none"] /\ db.conflict = [g \in Groups |-> "none"]
      /\ db.applied = {} /\ db.outbox = {PageRow(p, 1) : p \in InitialPages}
      /\ db = [versions |-> db.versions, status |-> db.status, canonical |-> db.canonical,
               links |-> db.links, alias |-> db.alias, receipt |-> db.receipt,
               conflict |-> db.conflict, applied |-> db.applied, outbox |-> db.outbox]
  BY DEF Init, InitialVersions, PageRow
<1>2. InitialVersions \in [Paths -> Seq(Version)]
  <2>1. [content |-> InitialContent, by |-> Agent] \in Version
    BY PageAssumption DEF Version
  <2>2. <<[content |-> InitialContent, by |-> Agent]>> \in Seq(Version) /\ <<>> \in Seq(Version)
    BY <2>1
  <2> QED BY <2>2 DEF InitialVersions
<1>3. {PageRow(p, 1) : p \in InitialPages} \in
        SUBSET ([kind : {"page_version"}, path : Paths, number : Nat]
                \cup [kind : {"curation_receipt"}, patch : Patches])
  BY PageAssumption DEF PageRow
<1>4. db.versions \in [Paths -> Seq(Version)]
  BY <1>1, <1>2
<1>5. db \in Database
  BY <1>1, <1>3, <1>4 DEF Database, Decisions
<1> QED BY <1>1, <1>5 DEF Init

(* Shape and InProgress hold initially. *)
LEMMA ShapeInit == Init => Shape /\ InProgress
<1> SUFFICES ASSUME Init PROVE Shape /\ InProgress
  OBVIOUS
<1>1. /\ db \in Database /\ work = db /\ lock = Free /\ todo = <<>>
      /\ inbox = [r \in Runs |-> "none"] /\ worker = [w \in Workers |-> IdleWorker]
      /\ db.conflict = [g \in Groups |-> "none"]
  BY InitFacts
<1> DEFINE T == [patch : Patches, already : BOOLEAN]
<1>2. <<>> \in Seq(T)
  BY EmptySeq
<1>3. base \in [Patches -> BaseState] /\ seenTarget \in [Patches -> Nat]
  BY PageAssumption DEF Init, BaseState
<1>4. writes \in 0 .. MaxWrites /\ stops \in 0 .. MaxStops
  BY ApplyBoundAssumption DEF Init
<1>5. worker \in [Workers -> WorkerState] /\ \A w \in Workers : worker[w] = IdleWorker
  BY <1>1, IdleOK
<1>6. \A w \in Workers : AtWork(worker[w]) /\ Informed(worker[w], Received)
  <2>1. AtWork(IdleWorker)
    BY IdleOK
  <2>2. Informed(IdleWorker, Received)
    BY EmptyRange DEF Informed, IdleWorker
  <2> QED BY <1>5, <2>1, <2>2
<1> HIDE DEF T
<1>7. TypeOK
  BY <1>1, <1>2, <1>3, <1>4, <1>5 DEF TypeOK, T
<1>8. \A w \in Workers : worker[w].pc # "writing" /\ lock # w
  BY <1>1, <1>5, WorkerAssumption DEF IdleWorker
<1>9. Shape
  BY <1>1, <1>5, <1>6, <1>7, <1>8 DEF Shape, WorkersOK
<1>10. InProgress
  BY <1>1, WorkerAssumption DEF InProgress
<1> QED BY <1>9, <1>10

(* Shape and InProgress always hold. *)
LEMMA ShapeInvariant == Spec => [](Shape /\ InProgress)
<1>1. Shape /\ InProgress /\ [Next]_vars => Shape' /\ InProgress'
  BY ShapeStep
<1> QED BY <1>1, ShapeInit, PTL DEF Spec

(* The inbox, the pages, the receipts, the outbox, the open transaction    *)
(* and every worker always have their types.                               *)
THEOREM ApplyTypeCorrect == Spec => []TypeOK
<1>1. Shape => TypeOK
  BY DEF Shape
<1> QED BY <1>1, ShapeInvariant, PTL
-----------------------------------------------------------------------------
(* RECEIPTS, CONFLICTS AND MARKS OF APPLIED RUNS. *)

(* The receipts of a group are of one kind. *)
Uniform(d, g) ==
  \/ \A x \in PatchesOf(g) : d.receipt[x] \in {"applied", "already_applied"}
  \/ \E s \in {"none", "kept_local", "merged"} : \A x \in PatchesOf(g) : d.receipt[x] = s

Books ==
  /\ \A g \in Groups : Uniform(db, g)
  /\ \A r \in Runs : r \in db.applied <=> RunDone(db, r)
  /\ \A g \in Groups : db.conflict[g] \notin {"none", "pending"} => Processed(db, g)

(* How a step changes them: no receipt is written, or the receipts of one  *)
(* group that had none.                                                    *)
ReceiptsKept ==
  /\ db'.receipt = db.receipt
  /\ \A r \in Runs : /\ r \in db.applied => r \in db'.applied
                     /\ r \in db'.applied => r \in db.applied \/ RunDone(db, r)
  /\ \A g \in Groups : \/ db'.conflict[g] \in {"none", "pending"}
                       \/ db'.conflict[g] = db.conflict[g]
                       \/ Processed(db, g)

GroupDecided(g) ==
  /\ \A x \in Patches \ PatchesOf(g) : db'.receipt[x] = db.receipt[x]
  /\ Uniform(db, g) => Uniform(db', g)
  /\ \A x \in PatchesOf(g) : /\ db'.receipt[x] # "none"
                             /\ db.receipt[x] # "none" => db'.receipt[x] = db.receipt[x]
  /\ \/ db'.conflict = db.conflict
     \/ \E s \in {"keep_local", "merged", "accept_remote"} :
          db'.conflict = [db.conflict EXCEPT ![g] = s]
  /\ db'.applied = IF RunDone(db', RunOf(g)) THEN db.applied \cup {RunOf(g)} ELSE db.applied

(* A conflict decided for the local page gives all receipts of its group   *)
(* at once.                                                                *)
LEMMA DeclinedDecides ==
  ASSUME Shape, Declined
  PROVE  \E g \in Groups : GroupDecided(g)
<1>1. PICK g \in Groups, action \in {"keep_local", "merged"} :
       /\ db'.receipt = [x \in Patches |->
            IF x \in PatchesOf(g) /\ db.receipt[x] = "none" THEN ReceiptStatus(action)
            ELSE db.receipt[x]]
       /\ db'.conflict = [db.conflict EXCEPT ![g] = action]
       /\ db'.applied = IF RunDone(db', RunOf(g)) THEN db.applied \cup {RunOf(g)} ELSE db.applied
  BY DEF Declined
<1>2. PICK s : s = ReceiptStatus(action)
  OBVIOUS
<1>3. s \in {"kept_local", "merged"}
  BY <1>2 DEF ReceiptStatus
<1>4. PatchesOf(g) \in SUBSET Patches /\ PatchesOf(g) # {}
  BY MembersFacts
<1>5. \A x \in Patches : db'.receipt[x] = IF x \in PatchesOf(g) /\ db.receipt[x] = "none" THEN s
                                          ELSE db.receipt[x]
  BY <1>1, <1>2
<1>6. /\ \A x \in Patches \ PatchesOf(g) : db'.receipt[x] = db.receipt[x]
      /\ \A x \in PatchesOf(g) : /\ db'.receipt[x] # "none"
                                 /\ db.receipt[x] # "none" => db'.receipt[x] = db.receipt[x]
  BY <1>3, <1>4, <1>5
<1>7. ASSUME Uniform(db, g) PROVE Uniform(db', g)
  <2>1. CASE \A x \in PatchesOf(g) : db.receipt[x] # "none"
    <3>1. \A x \in PatchesOf(g) : db'.receipt[x] = db.receipt[x]
      BY <1>6, <2>1
    <3> QED BY <1>7, <3>1 DEF Uniform
  <2>2. CASE \A x \in PatchesOf(g) : db.receipt[x] = "none"
    <3>1. \A x \in PatchesOf(g) : db'.receipt[x] = s
      BY <1>4, <1>5, <2>2
    <3> QED BY <1>3, <3>1 DEF Uniform
  <2> QED BY <1>7, <2>1, <2>2 DEF Uniform
<1> QED BY <1>1, <1>6, <1>7 DEF GroupDecided

(* A committed transaction gives all receipts of its group at once. *)
LEMMA GroupDoneDecides ==
  ASSUME Shape, InProgress, GroupDone
  PROVE  \E g \in Groups : GroupDecided(g)
<1>1. PICK g \in Groups :
    /\ db'.conflict = IF worker[lock].force THEN [db.conflict EXCEPT ![g] = "accept_remote"]
                      ELSE db.conflict
    /\ db'.applied = IF RunDone(db', RunOf(g)) THEN db.applied \cup {RunOf(g)}
                     ELSE db.applied
    /\ \A x \in PatchesOf(g) : /\ db'.receipt[x] \in {"applied", "already_applied"}
                               /\ db.receipt[x] = "none"
    /\ \A x \in Patches \ PatchesOf(g) : db'.receipt[x] = db.receipt[x]
  BY GroupDoneFacts
<1>2. Uniform(db', g)
  BY <1>1 DEF Uniform
<1>3. \A x \in PatchesOf(g) : /\ db'.receipt[x] # "none"
                              /\ db.receipt[x] # "none" => db'.receipt[x] = db.receipt[x]
  BY <1>1
<1> QED BY <1>1, <1>2, <1>3 DEF GroupDecided

(* Deciding a group keeps the books. *)
LEMMA BooksAfterDecision ==
  ASSUME Shape, Books, NEW g \in Groups, GroupDecided(g)
  PROVE  Books'
<1>1. PatchesOf(g) \in SUBSET Patches /\ PatchesOf(g) # {} /\ RunOf(g) \in Runs
  BY MembersFacts, RunOfFacts
<1>2. /\ \A x \in Patches \ PatchesOf(g) : db'.receipt[x] = db.receipt[x]
      /\ \A x \in PatchesOf(g) : /\ db'.receipt[x] # "none"
                                 /\ db.receipt[x] # "none" => db'.receipt[x] = db.receipt[x]
      /\ db'.applied = IF RunDone(db', RunOf(g)) THEN db.applied \cup {RunOf(g)} ELSE db.applied
  BY DEF GroupDecided
<1>3. ASSUME NEW h \in Groups, h # g
      PROVE  /\ \A x \in PatchesOf(h) : db'.receipt[x] = db.receipt[x]
             /\ Uniform(db', h) /\ (Processed(db', h) <=> Processed(db, h))
  <2>1. \A x \in PatchesOf(h) : x \in Patches \ PatchesOf(g)
    BY <1>3, MembersFacts, GroupsAreDisjoint
  <2>2. \A x \in PatchesOf(h) : db'.receipt[x] = db.receipt[x]
    BY <1>2, <2>1
  <2>3. Uniform(db', h)
    BY <1>3, <2>2 DEF Uniform, Books
  <2>4. Processed(db', h) <=> Processed(db, h)
    BY <2>2, DecidedFacts
  <2> QED BY <2>2, <2>3, <2>4
<1>4. \A h \in Groups : Uniform(db', h)
  BY <1>3 DEF Books, GroupDecided
<1>5. Processed(db', g)
  BY <1>2, DecidedFacts
<1>6. \A d, r : RunDone(d, r) <=> \A h \in Range(Plan[r]) : Processed(d, h)
  BY DEF RunDone, Processed
<1>7. ASSUME NEW r \in Runs PROVE r \in db'.applied <=> RunDone(db', r)
  <2>1. Range(Plan[r]) \in SUBSET Groups /\ \A h \in Range(Plan[r]) : RunOf(h) = r
    BY PlanFacts
  <2>2. CASE r = RunOf(g)
    <3>1. r \in db.applied => RunDone(db', r)
      <4>1. SUFFICES ASSUME r \in db.applied PROVE RunDone(db', r)
        OBVIOUS
      <4>2. \A h \in Range(Plan[r]) : Processed(db, h)
        BY <1>6, <4>1 DEF Books
      <4>3. \A h \in Range(Plan[r]) : Processed(db', h)
        BY <1>3, <1>5, <2>1, <4>2
      <4> QED BY <1>6, <4>3
    <3> QED BY <1>2, <2>2, <3>1
  <2>3. CASE r # RunOf(g)
    <3>1. g \notin Range(Plan[r])
      BY <2>1, <2>3
    <3>2. \A h \in Range(Plan[r]) : Processed(db', h) <=> Processed(db, h)
      BY <1>3, <2>1, <3>1
    <3>3. RunDone(db', r) <=> RunDone(db, r)
      BY <1>6, <3>2
    <3>4. r \in db'.applied <=> r \in db.applied
      BY <1>2, <2>3
    <3> QED BY <3>3, <3>4 DEF Books
  <2> QED BY <2>2, <2>3
<1>8. ASSUME NEW h \in Groups, db'.conflict[h] \notin {"none", "pending"} PROVE Processed(db', h)
  <2>1. CASE h = g
    BY <1>5, <2>1
  <2>2. CASE h # g
    <3>1. db.conflict \in [Groups -> {"none", "pending", "keep_local", "merged", "accept_remote"}]
      BY ShapeFacts, DatabaseFields
    <3>2. db'.conflict[h] = db.conflict[h]
      BY <2>2, <3>1 DEF GroupDecided
    <3> QED BY <1>3, <1>8, <2>2, <3>2 DEF Books
  <2> QED BY <2>1, <2>2
<1> QED BY <1>4, <1>7, <1>8 DEF Books

(* A step that writes no receipt keeps the books. *)
LEMMA BooksStay ==
  ASSUME Books, ReceiptsKept
  PROVE  Books'
<1>1. \A g \in Groups : Uniform(db', g)
  BY DEF Books, Uniform, ReceiptsKept
<1>2. \A g : Processed(db', g) <=> Processed(db, g)
  BY DEF Processed, Decided, ReceiptsKept
<1>3. \A r : RunDone(db', r) <=> RunDone(db, r)
  BY DEF RunDone, Decided, ReceiptsKept
<1>4. \A r \in Runs : r \in db'.applied <=> RunDone(db', r)
  BY <1>3 DEF Books, ReceiptsKept
<1>5. \A g \in Groups : db'.conflict[g] \notin {"none", "pending"} => Processed(db', g)
  BY <1>2 DEF Books, ReceiptsKept
<1> QED BY <1>1, <1>4, <1>5 DEF Books

(* Every kind of step keeps the books. *)
LEMMA BooksStep ==
  ASSUME Shape, InProgress, Books, DatabaseStep
  PROVE  Books'
<1>1. CASE UNCHANGED <<db.receipt, db.applied, db.conflict>>
  BY <1>1, BooksStay DEF ReceiptsKept
<1>2. CASE db' = db
  BY <1>1, <1>2, Zenon
<1>3. CASE BooksKept
  <2>1. db.conflict \in [Groups -> {"none", "pending", "keep_local", "merged", "accept_remote"}]
    BY ShapeFacts, DatabaseFields
  <2>2. db'.receipt = db.receipt
    BY <1>3 DEF BooksKept
  <2>3. \/ db'.applied = db.applied
        \/ \E r \in Runs : RunDone(db, r) /\ db'.applied = db.applied \cup {r}
    BY <1>3 DEF BooksKept
  <2>4. ASSUME NEW g \in Groups
        PROVE  \/ db'.conflict[g] \in {"none", "pending"} \/ db'.conflict[g] = db.conflict[g]
               \/ Processed(db, g)
    <3>1. \/ db'.conflict = db.conflict
          \/ \E h \in Groups : db'.conflict = [db.conflict EXCEPT ![h] = "pending"]
          \/ \E h \in Groups : /\ Processed(db, h)
                               /\ db'.conflict = [db.conflict EXCEPT ![h] = "accept_remote"]
      BY <1>3 DEF BooksKept
    <3> QED BY <2>1, <3>1
  <2>5. ReceiptsKept
    BY <2>2, <2>3, <2>4 DEF ReceiptsKept
  <2> QED BY <2>5, BooksStay
<1>4. LeavesDatabase \/ RolledBack \/ Begun => db' = db
  BY DEF LeavesDatabase, RolledBack, Begun
<1>5. PatchDone => db' = db
  BY PatchDoneFacts
<1>6. PageWritten => UNCHANGED <<db.receipt, db.applied, db.conflict>>
  BY DEF PageWritten, SameButVersions
<1>7. Declined \/ GroupDone => Books'
  BY DeclinedDecides, GroupDoneDecides, BooksAfterDecision
<1> QED BY <1>1, <1>2, <1>3, <1>4, <1>5, <1>6, <1>7 DEF DatabaseStep

(* The books are right initially. *)
LEMMA BooksInit == Init => Books
<1> SUFFICES ASSUME Init PROVE Books
  OBVIOUS
<1>1. /\ db.receipt = [x \in Patches |-> "none"] /\ db.conflict = [g \in Groups |-> "none"]
      /\ db.applied = {}
  BY InitFacts
<1>2. \A g \in Groups : \A x \in PatchesOf(g) : db.receipt[x] = "none"
  BY <1>1, MembersFacts
<1>3. \A g \in Groups : Uniform(db, g) /\ ~ Processed(db, g)
  BY <1>2, MembersFacts, DecidedFacts DEF Uniform
<1>4. ASSUME NEW r \in Runs PROVE ~ RunDone(db, r)
  <2>1. Plan[r] \in Seq(Groups) /\ Plan[r] # <<>>
    BY PlanFacts
  <2>2. Head(Plan[r]) \in Groups /\ Head(Plan[r]) \in Range(Plan[r])
    BY <2>1, TailOfGroups
  <2> QED BY <1>3, <2>2 DEF RunDone, Processed
<1> QED BY <1>1, <1>3, <1>4 DEF Books

(* The books are always right. *)
LEMMA BooksInvariant == Spec => [](Shape /\ InProgress /\ Books)
<1>1. Shape /\ InProgress /\ Books /\ [Next]_vars => Books'
  BY TodoIsOpen, StepKinds, BooksStep
<1> QED BY <1>1, BooksInit, ShapeInit, ShapeStep, PTL DEF Spec

(* A group is applied as a whole, kept local as a whole, or not decided at *)
(* all, in the committed database, whatever stops in the middle of its     *)
(* transaction, and whatever operators and automation do in between        *)
(* (apply_group, resolve_conflict).                                        *)
THEOREM GroupsAreAtomic == Spec => []GroupAtomic
<1>1. ASSUME Books PROVE GroupAtomic
  <2>1. ASSUME NEW g \in Groups
        PROVE  LET decisions == {db.receipt[x] : x \in PatchesOf(g)}
               IN  \/ decisions \subseteq {"applied", "already_applied"}
                   \/ decisions \in {{"none"}, {"kept_local"}, {"merged"}}
    <3>1. PatchesOf(g) # {}
      BY MembersFacts
    <3>2. CASE \A x \in PatchesOf(g) : db.receipt[x] \in {"applied", "already_applied"}
      BY <3>2
    <3>3. ASSUME NEW s \in {"none", "kept_local", "merged"}, \A x \in PatchesOf(g) : db.receipt[x] = s
          PROVE  {db.receipt[x] : x \in PatchesOf(g)} = {s}
      BY <3>1, <3>3
    <3> QED BY <1>1, <3>2, <3>3 DEF Books, Uniform
  <2> QED BY <2>1 DEF GroupAtomic
<1> QED BY <1>1, BooksInvariant, PTL

(* A run is marked applied exactly when every patch of it has a receipt,   *)
(* and a conflict that is resolved has the receipts of its group           *)
(* (mark_run_applied, resolve_conflict).                                   *)
THEOREM BookkeepingIsRight == Spec => []BookkeepingAgrees
<1>1. Books => BookkeepingAgrees
  <2>1. \A r \in Runs : RunDone(db, r) \in BOOLEAN
    BY DEF RunDone
  <2> QED BY <2>1 DEF Books, BookkeepingAgrees
<1> QED BY <1>1, BooksInvariant, PTL
-----------------------------------------------------------------------------
(* THE PAGES. *)

(* One more version of page p. *)
Longer(vs, p, v, ws) ==
  /\ Len(ws[p]) = Len(vs[p]) + 1 /\ ws[p][Len(vs[p]) + 1] = v
  /\ \A i \in 1 .. Len(vs[p]) : ws[p][i] = vs[p][i]
  /\ \A q \in Paths : q # p => ws[q] = vs[q]

(* Appending a version makes a page longer by that version. *)
LEMMA AppendIsLonger ==
  ASSUME NEW vs \in [Paths -> Seq(Version)], NEW p \in Paths, NEW v \in Version,
         NEW ws, ws = [vs EXCEPT ![p] = Append(@, v)]
  PROVE  Longer(vs, p, v, ws)
<1>1. vs[p] \in Seq(Version) /\ ws[p] = Append(vs[p], v)
  OBVIOUS
<1>2. /\ Len(ws[p]) = Len(vs[p]) + 1 /\ ws[p][Len(vs[p]) + 1] = v
      /\ \A i \in 1 .. Len(vs[p]) : ws[p][i] = vs[p][i]
  BY <1>1, AppendProperties
<1> QED BY <1>2 DEF Longer

(* An agent's write adds one version by the agent, and its row. *)
LEMMA PageWrittenFacts ==
  ASSUME Shape, PageWritten
  PROVE  /\ Committed /\ SameButVersions(db, db')
         /\ \E p \in Paths, v \in Version :
              /\ v.by = Agent /\ Longer(db.versions, p, v, db'.versions)
              /\ db'.outbox = db.outbox \cup {PageRow(p, Number(db, p) + 1)}
<1>1. PICK p \in Paths, c \in Contents :
       /\ SameButVersions(db, db')
       /\ db'.versions = [db.versions EXCEPT ![p] = Append(@, [content |-> c, by |-> Agent])]
       /\ db'.outbox = db.outbox \cup {PageRow(p, Number(db, p) + 1)}
  BY DEF PageWritten
<1>2. PICK v : v = [content |-> c, by |-> Agent]
  OBVIOUS
<1>3. v \in Version /\ v.by = Agent
  BY <1>2 DEF Version
<1>4. db.versions \in [Paths -> Seq(Version)]
  BY ShapeFacts, DatabaseFields
<1>5. PICK ws : ws = db'.versions
  OBVIOUS
<1>6. Longer(db.versions, p, v, ws)
  BY <1>1, <1>2, <1>3, <1>4, <1>5, AppendIsLonger
<1> QED BY <1>1, <1>3, <1>5, <1>6 DEF PageWritten

(* What applying a patch does to the versions of the open transaction. *)
PatchVersions(x, s) ==
  \/ work'.versions = work.versions /\ work'.outbox = work.outbox \cup {ReceiptRow(x)}
  \/ /\ s = "applied" /\ Patch[x].op \in {"create_page", "update_page"}
     /\ ~ Head(todo).already /\ ~ PatchFails(work, x, worker[lock].force)
     /\ Exists(work, Patch[x].path) => Content(work, Patch[x].path) # Patch[x].content
     /\ Longer(work.versions, Patch[x].path, [content |-> Patch[x].content, by |-> x], work'.versions)
     /\ work'.outbox = work.outbox \cup {PageRow(Patch[x].path, Number(work, Patch[x].path) + 1)}
                                   \cup {ReceiptRow(x)}

(* The versions a patch may write. *)
LEMMA PatchVersionsFacts ==
  ASSUME Shape, NEW x \in Patches, NEW s, PatchWritten(x, s)
  PROVE  PatchVersions(x, s)
<1>1. work \in Database
  BY ShapeFacts
<1>2. CASE s = "already_applied" /\ SamePages(work, work')
           /\ work'.outbox = work.outbox \cup {ReceiptRow(x)}
  BY <1>2 DEF SamePages, PatchVersions
<1>3. ASSUME s = "applied", ~ Head(todo).already, ~ PatchFails(work, x, worker[lock].force),
             NEW e, EffectSeen(work, x, e), SamePages(e, work'),
             work'.outbox = e.outbox \cup {ReceiptRow(x)}
      PROVE  PatchVersions(x, s)
  <2>1. CASE Patch[x].op \notin {"create_page", "update_page"}
    BY <1>3, <2>1 DEF EffectSeen, SamePages, PatchVersions
  <2>2. CASE Patch[x].op \in {"create_page", "update_page"}
    <3> DEFINE p == Patch[x].path
               c == Patch[x].content
    <3>1. p \in Paths /\ c \in Contents /\ x \in Patches \cup {Agent}
      BY PatchShape
    <3>2. e = WriteContent(work, p, c, x)
      BY <1>3, <2>2 DEF EffectSeen
    <3> HIDE DEF p, c
    <3>3. \/ e = work
          \/ /\ Exists(work, p) => Content(work, p) # c
             /\ e.versions = [work.versions EXCEPT ![p] = Append(@, [content |-> c, by |-> x])]
             /\ e.outbox = work.outbox \cup {PageRow(p, Number(work, p) + 1)}
      BY <1>1, <3>1, <3>2, WriteContentFacts
    <3>4. CASE e = work
      BY <1>3, <3>4 DEF SamePages, PatchVersions
    <3>5. CASE /\ Exists(work, p) => Content(work, p) # c
               /\ e.versions = [work.versions EXCEPT ![p] = Append(@, [content |-> c, by |-> x])]
               /\ e.outbox = work.outbox \cup {PageRow(p, Number(work, p) + 1)}
      <4>1. PICK v : v = [content |-> c, by |-> x]
        OBVIOUS
      <4>2. v \in Version
        BY <3>1, <4>1 DEF Version
      <4>3. PICK ws : ws = work'.versions
        OBVIOUS
      <4>4. ws = [work.versions EXCEPT ![p] = Append(@, v)] /\ work.versions \in [Paths -> Seq(Version)]
        BY <1>1, <1>3, <3>5, <4>1, <4>3, DatabaseFields DEF SamePages
      <4>5. Longer(work.versions, p, v, ws)
        BY <3>1, <4>2, <4>4, AppendIsLonger
      <4>6. Longer(work.versions, p, [content |-> c, by |-> x], work'.versions)
        BY <4>1, <4>3, <4>5
      <4>7. work'.outbox = work.outbox \cup {PageRow(p, Number(work, p) + 1)} \cup {ReceiptRow(x)}
        BY <1>3, <3>5
      <4>8. Exists(work, p) => Content(work, p) # c
        BY <3>5
      <4> QED BY <1>3, <2>2, <4>6, <4>7, <4>8 DEF PatchVersions, p, c
    <3> QED BY <3>3, <3>4, <3>5
  <2> QED BY <2>1, <2>2
<1> QED BY <1>2, <1>3 DEF PatchWritten

-----------------------------------------------------------------------------
(* THE OUTBOX. *)

(* A row is queued when it stands for a version or a receipt. *)
Queued(d) ==
  \A row : row \in d.outbox <=>
    \/ \E p \in Paths : \E n \in 1 .. Len(d.versions[p]) : row = PageRow(p, n)
    \/ \E x \in Patches : d.receipt[x] # "none" /\ row = ReceiptRow(x)

(* Queued depends on versions, receipts and the outbox only. *)
LEMMA QueuedIsSame ==
  ASSUME NEW d, NEW e, Queued(d),
         e.versions = d.versions, e.receipt = d.receipt, e.outbox = d.outbox
  PROVE  Queued(e)
  BY DEF Queued

(* One more version with its row keeps Queued. *)
LEMMA QueuedVersion ==
  ASSUME NEW d \in Database, NEW e, Queued(d), NEW p \in Paths, NEW v,
         Longer(d.versions, p, v, e.versions), e.receipt = d.receipt,
         e.outbox = d.outbox \cup {PageRow(p, Number(d, p) + 1)}
  PROVE  Queued(e)
<1>1. Len(d.versions[p]) \in Nat /\ Number(d, p) = Len(d.versions[p])
  BY PageFacts DEF Number
<1>2. /\ Len(e.versions[p]) = Len(d.versions[p]) + 1
      /\ \A q \in Paths : q # p => e.versions[q] = d.versions[q]
  BY DEF Longer
<1>3. \A n : n \in 1 .. Len(e.versions[p]) <=> n \in 1 .. Len(d.versions[p]) \/ n = Number(d, p) + 1
  BY <1>1, <1>2
<1>4. \A row : (\E q \in Paths : \E n \in 1 .. Len(e.versions[q]) : row = PageRow(q, n))
               <=> \/ \E q \in Paths : \E n \in 1 .. Len(d.versions[q]) : row = PageRow(q, n)
                   \/ row = PageRow(p, Number(d, p) + 1)
  BY <1>2, <1>3
<1> QED BY <1>4 DEF Queued

NewReceipts(d, e, xs) ==
  /\ \A x \in xs : d.receipt[x] = "none" /\ e.receipt[x] # "none"
  /\ \A x \in Patches \ xs : e.receipt[x] = d.receipt[x]
  /\ e.versions = d.versions /\ e.outbox = d.outbox \cup {ReceiptRow(x) : x \in xs}

(* New receipts with their rows keep Queued. *)
LEMMA QueuedReceipts ==
  ASSUME NEW d, NEW e, Queued(d), NEW xs \in SUBSET Patches, NewReceipts(d, e, xs)
  PROVE  Queued(e)
<1>1. \A row : (\E x \in Patches : e.receipt[x] # "none" /\ row = ReceiptRow(x))
               <=> \/ \E x \in Patches : d.receipt[x] # "none" /\ row = ReceiptRow(x)
                   \/ row \in {ReceiptRow(x) : x \in xs}
  BY DEF NewReceipts
<1> QED BY <1>1 DEF Queued, NewReceipts

(* Applying a patch keeps Queued in the open transaction. *)
LEMMA QueuedPatch ==
  ASSUME Shape, InProgress, PatchDone, Queued(work)
  PROVE  Queued(work')
<1>1. PICK g \in Groups, k \in Nat : 
        /\ Members[g][k + 1] \in PatchesOf(g) /\ PatchesOf(g) \in SUBSET Patches
        /\ \E s \in {"applied", "already_applied"} : PatchWritten(Members[g][k + 1], s)
  BY PatchDoneFacts
<1>2. PICK x \in Patches, s \in {"applied", "already_applied"} : PatchWritten(x, s)
  BY <1>1
<1>3. PatchVersions(x, s) /\ work \in Database
  BY <1>2, PatchVersionsFacts, ShapeFacts
<1>4. work'.receipt = [work.receipt EXCEPT ![x] = s] /\ work.receipt[x] = "none"
  BY <1>2 DEF PatchWritten
<1>5. work.receipt \in [Patches -> Decisions \cup {"none"}]
  BY <1>3, DatabaseFields
<1>6. /\ work'.receipt[x] # "none"
      /\ \A y \in Patches \ {x} : work'.receipt[y] = work.receipt[y]
  BY <1>4, <1>5
<1>7. {ReceiptRow(y) : y \in {x}} = {ReceiptRow(x)}
  OBVIOUS
<1>8. PICK e : e = work'
  OBVIOUS
<1>9. CASE work'.versions = work.versions /\ work'.outbox = work.outbox \cup {ReceiptRow(x)}
  <2>1. NewReceipts(work, e, {x})
    BY <1>4, <1>6, <1>7, <1>8, <1>9 DEF NewReceipts
  <2>2. Queued(e)
    BY <2>1, QueuedReceipts
  <2> QED BY <1>8, <2>2
<1>10. CASE /\ Longer(work.versions, Patch[x].path, [content |-> Patch[x].content, by |-> x], work'.versions)
            /\ work'.outbox = work.outbox \cup {PageRow(Patch[x].path, Number(work, Patch[x].path) + 1)}
                                          \cup {ReceiptRow(x)}
  <2> DEFINE p == Patch[x].path
             row == PageRow(p, Number(work, p) + 1)
  <2>1. p \in Paths
    BY PatchShape
  <2>2. PICK d : d = [versions |-> work'.versions, receipt |-> work.receipt,
                      outbox |-> work.outbox \cup {row}]
    OBVIOUS
  <2>3. d.versions = e.versions /\ d.receipt = work.receipt /\ d.outbox = work.outbox \cup {row}
    BY <1>8, <2>2
  <2>4. PICK v : v = [content |-> Patch[x].content, by |-> x]
    OBVIOUS
  <2>5. Longer(work.versions, p, v, d.versions)
    BY <1>8, <1>10, <2>3, <2>4
  <2>6. Queued(d)
    BY <1>3, <2>1, <2>3, <2>5, QueuedVersion
  <2>7. e.outbox = d.outbox \cup {ReceiptRow(y) : y \in {x}}
    BY <1>7, <1>8, <1>10, <2>3
  <2>8. /\ \A y \in {x} : d.receipt[y] = "none" /\ e.receipt[y] # "none"
        /\ \A y \in Patches \ {x} : e.receipt[y] = d.receipt[y]
    BY <1>4, <1>6, <1>8, <2>3
  <2> HIDE DEF p, row
  <2>9. NewReceipts(d, e, {x})
    BY <2>3, <2>7, <2>8 DEF NewReceipts
  <2>10. Queued(e)
    BY <2>6, <2>9, QueuedReceipts
  <2> QED BY <1>8, <2>10
<1> QED BY <1>3, <1>9, <1>10 DEF PatchVersions

(* Every kind of step keeps Queued, for the committed and for the open     *)
(* database.                                                               *)
LEMMA QueuedStep ==
  ASSUME Shape, InProgress, Queued(db), Queued(work), DatabaseStep
  PROVE  Queued(db') /\ Queued(work')
<1>1. PICK d, e : d = db /\ e = db'
  OBVIOUS
<1>2. db \in Database /\ work \in Database
  BY ShapeFacts
<1>3. ASSUME Committed, Queued(e) PROVE Queued(db') /\ Queued(work')
  <2>1. work' = db'
    BY <1>3 DEF Committed
  <2> QED BY <1>1, <1>3, <2>1
<1>4. CASE LeavesDatabase \/ RolledBack \/ Begun
  BY <1>4 DEF LeavesDatabase, RolledBack, Begun
<1>5. CASE PageWritten
  <2>1. PICK p \in Paths, v \in Version :
          /\ Committed /\ SameButVersions(db, db')
          /\ Longer(db.versions, p, v, db'.versions)
          /\ db'.outbox = db.outbox \cup {PageRow(p, Number(db, p) + 1)}
    BY <1>5, PageWrittenFacts
  <2>2. e.receipt = db.receipt /\ Longer(db.versions, p, v, e.versions)
        /\ e.outbox = db.outbox \cup {PageRow(p, Number(db, p) + 1)}
    BY <1>1, <2>1 DEF SameButVersions
  <2>3. Queued(e)
    BY <1>2, <2>2, QueuedVersion
  <2> QED BY <1>3, <2>1, <2>3
<1>6. CASE BooksKept
  <2>1. Committed /\ e.versions = db.versions /\ e.receipt = db.receipt /\ e.outbox = db.outbox
    BY <1>1, <1>6 DEF BooksKept, SamePages
  <2>2. Queued(e)
    BY <2>1, QueuedIsSame
  <2> QED BY <1>3, <2>1, <2>2
<1>7. CASE Declined
  <2>1. PICK g \in Groups, action \in {"keep_local", "merged"} :
       /\ db'.receipt = [x \in Patches |->
            IF x \in PatchesOf(g) /\ db.receipt[x] = "none" THEN ReceiptStatus(action)
            ELSE db.receipt[x]]
       /\ db'.outbox = db.outbox \cup
            {ReceiptRow(x) : x \in {y \in PatchesOf(g) : db.receipt[y] = "none"}}
    BY <1>7 DEF Declined
  <2> DEFINE xs == {y \in PatchesOf(g) : db.receipt[y] = "none"}
  <2>2. xs \in SUBSET Patches
    BY MembersFacts
  <2>3. /\ \A x \in xs : db.receipt[x] = "none" /\ e.receipt[x] # "none"
        /\ \A x \in Patches \ xs : e.receipt[x] = db.receipt[x]
        /\ e.outbox = db.outbox \cup {ReceiptRow(x) : x \in xs}
    BY <1>1, <2>1, <2>2 DEF ReceiptStatus
  <2>4. Committed /\ e.versions = db.versions
    BY <1>1, <1>7 DEF Declined, SamePages
  <2> HIDE DEF xs
  <2>5. NewReceipts(db, e, xs)
    BY <2>3, <2>4 DEF NewReceipts
  <2>6. Queued(e)
    BY <2>2, <2>5, QueuedReceipts
  <2> QED BY <1>3, <2>4, <2>6
<1>8. CASE PatchDone
  <2>1. Queued(work')
    BY <1>8, QueuedPatch
  <2>2. db' = db
    BY <1>8, PatchDoneFacts
  <2> QED BY <2>1, <2>2
<1>9. CASE GroupDone
  <2>1. work' = db' /\ e.versions = work.versions /\ e.receipt = work.receipt /\ e.outbox = work.outbox
    BY <1>1, <1>9 DEF GroupDone, SamePages
  <2>2. Queued(e)
    BY <2>1, QueuedIsSame
  <2> QED BY <1>1, <2>1, <2>2
<1> QED BY <1>4, <1>5, <1>6, <1>7, <1>8, <1>9 DEF DatabaseStep

(* Queued holds initially. *)
LEMMA QueuedInit == Init => Queued(db) /\ Queued(work)
<1> SUFFICES ASSUME Init PROVE Queued(db)
  BY InitFacts
<1>1. /\ db.versions = InitialVersions /\ db.receipt = [x \in Patches |-> "none"]
      /\ db.outbox = {PageRow(p, 1) : p \in InitialPages}
  BY InitFacts
<1>2. \A p \in Paths : Len(db.versions[p]) = IF p \in InitialPages THEN 1 ELSE 0
  BY <1>1 DEF InitialVersions
<1>3. \A row : (\E p \in Paths : \E n \in 1 .. Len(db.versions[p]) : row = PageRow(p, n))
               <=> row \in {PageRow(p, 1) : p \in InitialPages}
  <2>1. ASSUME NEW p \in Paths, NEW n \in 1 .. Len(db.versions[p]) PROVE p \in InitialPages /\ n = 1
    BY <1>2, <2>1
  <2>2. \A p \in InitialPages : p \in Paths /\ 1 \in 1 .. Len(db.versions[p])
    BY <1>2, PageAssumption
  <2> QED BY <2>1, <2>2
<1>4. \A x \in Patches : db.receipt[x] = "none"
  BY <1>1
<1> QED BY <1>1, <1>3, <1>4 DEF Queued

(* Queued always holds. *)
LEMMA QueuedInvariant == Spec => [](Shape /\ InProgress /\ Queued(db) /\ Queued(work))
<1>1. Shape /\ InProgress /\ Queued(db) /\ Queued(work) /\ [Next]_vars => Queued(db)' /\ Queued(work)'
  BY TodoIsOpen, StepKinds, QueuedStep
<1> QED BY <1>1, QueuedInit, ShapeInit, ShapeStep, PTL DEF Spec

(* Every version and every receipt has its row in the outbox and no row    *)
(* stands for anything else, so the archive gets all of them and nothing   *)
(* that was rolled back (enqueue inside the same transaction).             *)
THEOREM EverythingIsQueued == Spec => []QueuedForArchive
<1>1. ASSUME Queued(db), db \in Database PROVE QueuedForArchive
  <2>1. \A row : row \in {PageRow(pn[1], pn[2]) : pn \in AllVersions}
                 <=> \E p \in Paths : \E n \in 1 .. Len(db.versions[p]) : row = PageRow(p, n)
    <3>1. ASSUME NEW pn \in AllVersions
          PROVE  \E p \in Paths : \E n \in 1 .. Len(db.versions[p]) : PageRow(pn[1], pn[2]) = PageRow(p, n)
      BY <3>1 DEF AllVersions, Number
    <3>2. ASSUME NEW p \in Paths, NEW n \in 1 .. Len(db.versions[p])
          PROVE  <<p, n>> \in AllVersions /\ PageRow(<<p, n>>[1], <<p, n>>[2]) = PageRow(p, n)
      BY <3>2 DEF AllVersions, Number
    <3> QED BY <3>1, <3>2
  <2>2. \A row : row \in {ReceiptRow(x) : x \in {y \in Patches : db.receipt[y] # "none"}}
                 <=> \E x \in Patches : db.receipt[x] # "none" /\ row = ReceiptRow(x)
    OBVIOUS
  <2>3. db.outbox = {PageRow(pn[1], pn[2]) : pn \in AllVersions}
                    \cup {ReceiptRow(x) : x \in {y \in Patches : db.receipt[y] # "none"}}
    BY <1>1, <2>1, <2>2 DEF Queued
  <2> QED BY <2>3 DEF QueuedForArchive, PageRow, ReceiptRow
<1>2. Shape => db \in Database
  BY ShapeFacts
<1> QED BY <1>1, <1>2, QueuedInvariant, PTL
-----------------------------------------------------------------------------
(* THE AUTHORS OF VERSIONS. *)

(* A patch wrote one version at most, and has the receipt "applied" then.  *)
Traced(d) ==
  /\ \A p, q \in Paths : \A m \in 1 .. Len(d.versions[p]), n \in 1 .. Len(d.versions[q]) :
       d.versions[p][m].by = d.versions[q][n].by /\ d.versions[p][m].by # Agent => p = q /\ m = n
  /\ \A p \in Paths : \A n \in 1 .. Len(d.versions[p]) :
       d.versions[p][n].by # Agent => d.receipt[d.versions[p][n].by] = "applied"

AppliedStays(d, e) == \A x \in Patches : d.receipt[x] = "applied" => e.receipt[x] = "applied"

(* A version was written by a patch or by the agent. *)
LEMMA AuthorsAreKnown ==
  ASSUME NEW d \in Database, NEW p \in Paths, NEW n \in 1 .. Len(d.versions[p])
  PROVE  d.versions[p][n] \in Version /\ d.versions[p][n].by \in Patches \cup {Agent}
<1>1. d.versions[p] \in Seq(Version)
  BY DatabaseFields
<1>2. d.versions[p][n] \in Version
  BY <1>1, ElementOfSeq
<1> QED BY <1>2 DEF Version

(* A step that writes no version and takes no receipt back keeps Traced. *)
LEMMA TracedSame ==
  ASSUME NEW d \in Database, NEW e, Traced(d), e.versions = d.versions, AppliedStays(d, e)
  PROVE  Traced(e)
<1>1. \A p \in Paths : \A n \in 1 .. Len(d.versions[p]) : d.versions[p][n].by \in Patches \cup {Agent}
  BY AuthorsAreKnown
<1> QED BY <1>1 DEF Traced, AppliedStays

NewAuthor(d, e, a) == a # Agent => d.receipt[a] = "none" /\ e.receipt[a] = "applied"

(* A new version keeps Traced when its author wrote none before and is     *)
(* applied now.                                                            *)
LEMMA TracedLonger ==
  ASSUME NEW d \in Database, NEW e, Traced(d), AppliedStays(d, e),
         NEW p \in Paths, NEW v, Longer(d.versions, p, v, e.versions), NewAuthor(d, e, v.by)
  PROVE  Traced(e)
<1> DEFINE N == Len(d.versions[p]) + 1
<1>1. N \in Nat /\ N = Len(e.versions[p]) /\ Len(d.versions[p]) \in Nat
  BY PageFacts DEF Number, Longer
<1>2. ASSUME NEW q \in Paths, NEW n \in 1 .. Len(e.versions[q])
      PROVE  \/ q = p /\ n = N /\ e.versions[q][n] = v
             \/ n \in 1 .. Len(d.versions[q]) /\ e.versions[q][n] = d.versions[q][n]
  <2>1. CASE q = p /\ n = N
    BY <2>1 DEF Longer
  <2>2. CASE q = p /\ n # N
    <3>1. n \in 1 .. Len(d.versions[p])
      BY <1>1, <1>2, <2>2
    <3> QED BY <2>2, <3>1 DEF Longer
  <2>3. CASE q # p
    BY <1>2, <2>3 DEF Longer
  <2> QED BY <2>1, <2>2, <2>3
<1>3. ASSUME NEW q \in Paths, NEW n \in 1 .. Len(d.versions[q]), v.by # Agent
      PROVE  d.versions[q][n].by # v.by
  BY <1>3 DEF Traced, NewAuthor
<1>4. ASSUME NEW q \in Paths, NEW n \in 1 .. Len(e.versions[q]), e.versions[q][n].by # Agent
      PROVE  e.receipt[e.versions[q][n].by] = "applied"
  <2>1. CASE q = p /\ n = N /\ e.versions[q][n] = v
    BY <1>4, <2>1 DEF NewAuthor
  <2>2. CASE n \in 1 .. Len(d.versions[q]) /\ e.versions[q][n] = d.versions[q][n]
    <3>1. d.versions[q][n].by \in Patches
      BY <1>4, <2>2, AuthorsAreKnown
    <3>2. d.receipt[d.versions[q][n].by] = "applied"
      BY <1>4, <2>2 DEF Traced
    <3> QED BY <2>2, <3>1, <3>2 DEF AppliedStays
  <2> QED BY <1>2, <2>1, <2>2
<1> HIDE DEF N
<1>5. ASSUME NEW q \in Paths, NEW r \in Paths,
             NEW m \in 1 .. Len(e.versions[q]), NEW n \in 1 .. Len(e.versions[r]),
             e.versions[q][m].by = e.versions[r][n].by, e.versions[q][m].by # Agent
      PROVE  q = r /\ m = n
  <2>1. CASE q = p /\ m = N /\ e.versions[q][m] = v
    <3>1. ~ (n \in 1 .. Len(d.versions[r]) /\ e.versions[r][n] = d.versions[r][n])
      BY <1>3, <1>5, <2>1
    <3> QED BY <1>2, <2>1, <3>1
  <2>2. CASE r = p /\ n = N /\ e.versions[r][n] = v
    <3>1. ~ (m \in 1 .. Len(d.versions[q]) /\ e.versions[q][m] = d.versions[q][m])
      BY <1>3, <1>5, <2>2
    <3> QED BY <1>2, <2>2, <3>1
  <2>3. CASE /\ m \in 1 .. Len(d.versions[q]) /\ e.versions[q][m] = d.versions[q][m]
             /\ n \in 1 .. Len(d.versions[r]) /\ e.versions[r][n] = d.versions[r][n]
    <3>1. d.versions[q][m].by = d.versions[r][n].by /\ d.versions[q][m].by # Agent
      BY <1>5, <2>3
    <3> QED BY <2>3, <3>1 DEF Traced
  <2> QED BY <1>2, <2>1, <2>2, <2>3
<1> QED BY <1>4, <1>5 DEF Traced

(* Applying a patch keeps Traced in the open transaction. *)
LEMMA TracedPatch ==
  ASSUME Shape, InProgress, PatchDone, Traced(work)
  PROVE  Traced(work')
<1>1. PICK g \in Groups, k \in Nat : 
        /\ Members[g][k + 1] \in PatchesOf(g) /\ PatchesOf(g) \in SUBSET Patches
        /\ \E s \in {"applied", "already_applied"} : PatchWritten(Members[g][k + 1], s)
  BY PatchDoneFacts
<1>2. PICK x \in Patches, s \in {"applied", "already_applied"} : PatchWritten(x, s)
  BY <1>1
<1>3. PatchVersions(x, s) /\ work \in Database
  BY <1>2, PatchVersionsFacts, ShapeFacts
<1>4. work'.receipt = [work.receipt EXCEPT ![x] = s] /\ work.receipt[x] = "none"
  BY <1>2 DEF PatchWritten
<1>5. work.receipt \in [Patches -> Decisions \cup {"none"}]
  BY <1>3, DatabaseFields
<1>6. PICK e : e = work'
  OBVIOUS
<1>7. AppliedStays(work, e)
  BY <1>4, <1>5, <1>6 DEF AppliedStays
<1>8. CASE work'.versions = work.versions
  <2>1. Traced(e)
    BY <1>3, <1>6, <1>7, <1>8, TracedSame
  <2> QED BY <1>6, <2>1
<1>9. CASE /\ s = "applied"
           /\ Longer(work.versions, Patch[x].path, [content |-> Patch[x].content, by |-> x], work'.versions)
  <2>1. PICK v : v = [content |-> Patch[x].content, by |-> x]
    OBVIOUS
  <2>2. NewAuthor(work, e, v.by)
    BY <1>4, <1>5, <1>6, <1>9, <2>1 DEF NewAuthor
  <2>3. Longer(work.versions, Patch[x].path, v, e.versions) /\ Patch[x].path \in Paths
    BY <1>6, <1>9, <2>1, PatchShape
  <2>4. Traced(e)
    BY <1>3, <1>7, <2>2, <2>3, TracedLonger
  <2> QED BY <1>6, <2>4
<1> QED BY <1>3, <1>8, <1>9 DEF PatchVersions

(* Every kind of step keeps Traced, for the committed and for the open     *)
(* database.                                                               *)
LEMMA TracedStep ==
  ASSUME Shape, InProgress, Traced(db), Traced(work), DatabaseStep
  PROVE  Traced(db') /\ Traced(work')
<1>1. PICK e : e = db'
  OBVIOUS
<1>2. db \in Database /\ work \in Database
  BY ShapeFacts
<1>3. ASSUME Committed, Traced(e) PROVE Traced(db') /\ Traced(work')
  <2>1. work' = db'
    BY <1>3 DEF Committed
  <2> QED BY <1>1, <1>3, <2>1
<1>4. CASE LeavesDatabase \/ RolledBack \/ Begun
  BY <1>4 DEF LeavesDatabase, RolledBack, Begun
<1>5. CASE PageWritten
  <2>1. PICK p \in Paths, v \in Version :
          /\ Committed /\ SameButVersions(db, db')
          /\ v.by = Agent /\ Longer(db.versions, p, v, db'.versions)
    BY <1>5, PageWrittenFacts
  <2>2. /\ AppliedStays(db, e) /\ Longer(db.versions, p, v, e.versions)
        /\ NewAuthor(db, e, v.by)
    BY <1>1, <2>1 DEF SameButVersions, AppliedStays, NewAuthor
  <2>3. Traced(e)
    BY <1>2, <2>2, TracedLonger
  <2> QED BY <1>3, <2>1, <2>3
<1>6. CASE BooksKept \/ Declined
  <2>1. Committed /\ e.versions = db.versions
    BY <1>1, <1>6 DEF BooksKept, Declined, SamePages
  <2>2. AppliedStays(db, e)
    BY <1>1, <1>6 DEF BooksKept, Declined, AppliedStays
  <2>3. Traced(e)
    BY <1>2, <2>1, <2>2, TracedSame
  <2> QED BY <1>3, <2>1, <2>3
<1>7. CASE PatchDone
  <2>1. Traced(work')
    BY <1>7, TracedPatch
  <2>2. db' = db
    BY <1>7, PatchDoneFacts
  <2> QED BY <2>1, <2>2
<1>8. CASE GroupDone
  <2>1. work' = db' /\ e.versions = work.versions /\ AppliedStays(work, e)
    BY <1>1, <1>8 DEF GroupDone, SamePages, AppliedStays
  <2>2. Traced(e)
    BY <1>2, <2>1, TracedSame
  <2> QED BY <1>1, <2>1, <2>2
<1> QED BY <1>4, <1>5, <1>6, <1>7, <1>8 DEF DatabaseStep

(* Traced holds initially. *)
LEMMA TracedInit == Init => Traced(db) /\ Traced(work)
<1> SUFFICES ASSUME Init PROVE Traced(db)
  BY InitFacts
<1>1. db.versions = InitialVersions
  BY InitFacts
<1>2. ASSUME NEW p \in Paths, NEW n \in 1 .. Len(db.versions[p]) PROVE db.versions[p][n].by = Agent
  <2>1. CASE p \in InitialPages
    <3>1. db.versions[p] = <<[content |-> InitialContent, by |-> Agent]>>
      BY <1>1, <2>1 DEF InitialVersions
    <3>2. Len(db.versions[p]) = 1
      BY <3>1
    <3>3. n = 1
      BY <1>2, <3>2
    <3> QED BY <3>1, <3>3
  <2>2. CASE p \notin InitialPages
    <3>1. db.versions[p] = <<>>
      BY <1>1, <2>2 DEF InitialVersions
    <3>2. Len(db.versions[p]) = 0
      BY <3>1
    <3> QED BY <1>2, <3>2
  <2> QED BY <2>1, <2>2
<1> QED BY <1>2 DEF Traced

(* Traced always holds. *)
LEMMA TracedInvariant == Spec => [](Shape /\ InProgress /\ Traced(db) /\ Traced(work))
<1>1. Shape /\ InProgress /\ Traced(db) /\ Traced(work) /\ [Next]_vars => Traced(db)' /\ Traced(work)'
  BY TodoIsOpen, StepKinds, TracedStep
<1> QED BY <1>1, TracedInit, ShapeInit, ShapeStep, PTL DEF Spec

(* A version that a patch wrote has that patch's receipt "applied", and no *)
(* patch wrote two versions, however often runs are applied again after a  *)
(* stop, by automation or by operators.                                    *)
THEOREM PatchesWriteOnce == Spec => []VersionsHaveReceipts
<1>1. ASSUME Traced(db), db \in Database PROVE VersionsHaveReceipts
  <2>1. ASSUME NEW x \in Patches
        PROVE  /\ Cardinality(VersionsBy(x)) <= 1
               /\ VersionsBy(x) # {} => db.receipt[x] = "applied"
    <3>1. x # Agent
      BY PageAssumption
    <3>2. ASSUME NEW pn \in VersionsBy(x)
          PROVE  /\ pn = <<pn[1], pn[2]>> /\ pn[1] \in Paths /\ pn[2] \in 1 .. Len(db.versions[pn[1]])
                 /\ db.versions[pn[1]][pn[2]].by = x
      BY <3>2 DEF VersionsBy, AllVersions, Number
    <3>3. ASSUME NEW pn \in VersionsBy(x) PROVE db.receipt[x] = "applied"
      BY <1>1, <3>1, <3>2, <3>3 DEF Traced
    <3>4. ASSUME NEW pn \in VersionsBy(x), NEW qn \in VersionsBy(x) PROVE pn = qn
      <4>1. pn[1] = qn[1] /\ pn[2] = qn[2]
        BY <1>1, <3>1, <3>2, <3>4 DEF Traced
      <4> QED BY <3>2, <3>4, <4>1
    <3>5. CASE VersionsBy(x) = {}
      BY <3>5, FS_EmptySet
    <3>6. CASE VersionsBy(x) # {}
      <4>1. PICK pn \in VersionsBy(x) : TRUE
        BY <3>6
      <4>2. VersionsBy(x) = {pn}
        BY <3>4, <4>1
      <4>3. Cardinality(VersionsBy(x)) = 1
        BY <4>2, FS_Singleton
      <4> QED BY <3>3, <4>1, <4>3
    <3> QED BY <3>5, <3>6
  <2> QED BY <2>1 DEF VersionsHaveReceipts
<1>2. Shape => db \in Database
  BY ShapeFacts
<1> QED BY <1>1, <1>2, TracedInvariant, PTL
-----------------------------------------------------------------------------
(* SUPERSEDED PAGES. *)

(* No manifest merges a page into itself. *)
NoSelfMerge == \A x \in Patches : Patch[x].op = "supersede_page" => Patch[x].target # Patch[x].path

Reaches(d) ==
  \A S \in SUBSET {p \in Paths : d.status[p] = "superseded"} :
    S # {} => \E p \in S : d.canonical[p] \notin S

(* Reaches depends on status and canonical page only. *)
LEMMA ReachesSame ==
  ASSUME NEW d, NEW e, Reaches(d), e.status = d.status, e.canonical = d.canonical
  PROVE  Reaches(e)
  BY DEF Reaches

(* Merging a page into another that is active closes no cycle. *)
LEMMA ReachesAfterMerge ==
  ASSUME NEW d \in Database, NEW e, Reaches(d), NEW p \in Paths, NEW t \in Paths, p # t,
         d.status[t] = "active",
         e.status = [d.status EXCEPT ![p] = "superseded"], e.canonical = [d.canonical EXCEPT ![p] = t]
  PROVE  Reaches(e)
<1>1. d.status \in [Paths -> {"active", "superseded"}] /\ d.canonical \in [Paths -> Paths \cup {NoPath}]
  BY DatabaseFields
<1>2. ASSUME NEW S \in SUBSET {q \in Paths : e.status[q] = "superseded"}, S # {}
      PROVE  \E q \in S : e.canonical[q] \notin S
  <2>1. CASE p \in S
    <3>1. e.canonical[p] = t
      BY <1>1
    <3>2. e.status[t] = "active"
      BY <1>1
    <3>3. t \notin S
      BY <1>2, <3>2
    <3> QED BY <2>1, <3>1, <3>3
  <2>2. CASE p \notin S
    <3>1. \A q \in S : q \in Paths /\ e.status[q] = d.status[q] /\ e.canonical[q] = d.canonical[q]
      BY <1>1, <1>2, <2>2
    <3>2. S \in SUBSET {q \in Paths : d.status[q] = "superseded"}
      BY <1>2, <3>1
    <3>3. PICK q \in S : d.canonical[q] \notin S
      BY <1>2, <3>2 DEF Reaches
    <3> QED BY <3>1, <3>3
  <2> QED BY <2>1, <2>2
<1> QED BY <1>2 DEF Reaches

(* Applying a patch keeps Reaches: supersede_page refuses a target that is *)
(* not active.                                                             *)
LEMMA ReachesPatch ==
  ASSUME NoSelfMerge, Shape, InProgress, PatchDone, Reaches(work)
  PROVE  Reaches(work')
<1>1. PICK g \in Groups, k \in Nat : 
        /\ Members[g][k + 1] \in PatchesOf(g) /\ PatchesOf(g) \in SUBSET Patches
        /\ \E s \in {"applied", "already_applied"} : PatchWritten(Members[g][k + 1], s)
  BY PatchDoneFacts
<1>2. PICK x \in Patches, s \in {"applied", "already_applied"} : PatchWritten(x, s)
  BY <1>1
<1>3. PICK e : e = work'
  OBVIOUS
<1>4. work \in Database
  BY ShapeFacts
<1>5. CASE SamePages(work, work')
  <2>1. Reaches(e)
    BY <1>3, <1>5, ReachesSame DEF SamePages
  <2> QED BY <1>3, <2>1
<1>6. ASSUME ~ PatchFails(work, x, worker[lock].force), NEW m, EffectSeen(work, x, m), SamePages(m, work')
      PROVE  Reaches(work')
  <2>1. CASE m.status = work.status /\ m.canonical = work.canonical
    <3>1. Reaches(e)
      BY <1>3, <1>6, <2>1, ReachesSame DEF SamePages
    <3> QED BY <1>3, <3>1
  <2>2. CASE /\ Patch[x].op = "supersede_page"
             /\ m.status = [work.status EXCEPT ![Patch[x].path] = "superseded"]
             /\ m.canonical = [work.canonical EXCEPT ![Patch[x].path] = Patch[x].target]
    <3>1. TargetActive(work, x)
      BY <1>6, <2>2 DEF PatchFails
    <3>2. PICK p, t : p = Patch[x].path /\ t = Patch[x].target
      OBVIOUS
    <3>3. p \in Paths /\ t \in Paths /\ p # t
      BY <2>2, <3>2, PatchShape DEF TargetOperations, CleanupOperations, NoSelfMerge
    <3>4. work.status[t] = "active"
      BY <3>1, <3>2 DEF TargetActive, Active
    <3>5. /\ e.status = [work.status EXCEPT ![p] = "superseded"]
          /\ e.canonical = [work.canonical EXCEPT ![p] = t]
      BY <1>3, <1>6, <2>2, <3>2 DEF SamePages
    <3>6. Reaches(e)
      BY <1>4, <3>3, <3>4, <3>5, ReachesAfterMerge
    <3> QED BY <1>3, <3>6
  <2> QED BY <1>6, <2>1, <2>2 DEF EffectSeen
<1> QED BY <1>2, <1>5, <1>6 DEF PatchWritten

(* Every kind of step keeps Reaches. *)
LEMMA ReachesStep ==
  ASSUME NoSelfMerge, Shape, InProgress, Reaches(db), Reaches(work), DatabaseStep
  PROVE  Reaches(db') /\ Reaches(work')
<1>1. PICK e : e = db'
  OBVIOUS
<1>2. CASE LeavesDatabase \/ RolledBack \/ Begun
  BY <1>2 DEF LeavesDatabase, RolledBack, Begun
<1>3. CASE PageWritten \/ BooksKept \/ Declined
  <2>1. work' = db' /\ e.status = db.status /\ e.canonical = db.canonical
    BY <1>1, <1>3 DEF PageWritten, BooksKept, Declined, Committed, SameButVersions, SamePages
  <2>2. Reaches(e)
    BY <2>1, ReachesSame
  <2> QED BY <1>1, <2>1, <2>2
<1>4. CASE PatchDone
  <2>1. Reaches(work')
    BY <1>4, ReachesPatch
  <2>2. db' = db
    BY <1>4, PatchDoneFacts
  <2> QED BY <2>1, <2>2
<1>5. CASE GroupDone
  <2>1. work' = db' /\ e.status = work.status /\ e.canonical = work.canonical
    BY <1>1, <1>5 DEF GroupDone, SamePages
  <2>2. Reaches(e)
    BY <2>1, ReachesSame
  <2> QED BY <1>1, <2>1, <2>2
<1> QED BY <1>2, <1>3, <1>4, <1>5 DEF DatabaseStep

(* Reaches holds initially. *)
LEMMA ReachesInit == Init => Reaches(db) /\ Reaches(work)
<1> SUFFICES ASSUME Init PROVE Reaches(db)
  BY InitFacts
<1>1. \A p \in Paths : db.status[p] = "active"
  BY InitFacts
<1> QED BY <1>1 DEF Reaches

(* From a superseded page the canonical links lead to an active page, when *)
(* no patch merges a page into itself (nothing in apply_group refuses that *)
(* merge, and it closes a cycle of one).                                   *)
THEOREM SupersededEndsActive ==
  ASSUME NoSelfMerge
  PROVE  Spec => []SupersededReachesActive
<1> DEFINE I == Shape /\ InProgress /\ Reaches(db) /\ Reaches(work)
<1>1. Init => I
  BY ShapeInit, ReachesInit
<1>2. I /\ [Next]_vars => I'
  BY ShapeStep, TodoIsOpen, StepKinds, ReachesStep
<1>3. I => SupersededReachesActive
  BY DEF Reaches, SupersededReachesActive
<1> QED BY <1>1, <1>2, <1>3, PTL DEF Spec
-----------------------------------------------------------------------------
(* REFINEMENT OF GroupDecisions. *)

(* Versions are only added, by these authors. *)
Extends(vs, ws, authors) ==
  \A p \in Paths :
    /\ Len(vs[p]) <= Len(ws[p])
    /\ \A i \in 1 .. Len(vs[p]) : ws[p][i] = vs[p][i]
    /\ \A i \in Len(vs[p]) + 1 .. Len(ws[p]) : ws[p][i].by \in authors

Grown == lock \in Workers =>
           Extends(db.versions, work.versions, PatchesOf(Head(worker[lock].groups)))

(* Every database extends itself. *)
LEMMA ExtendsItself ==
  ASSUME NEW d \in Database, NEW authors
  PROVE  Extends(d.versions, d.versions, authors)
  BY PageFacts DEF Extends, Number

(* A version by one of the authors extends further. *)
LEMMA ExtendsFurther ==
  ASSUME NEW d \in Database, NEW e \in Database, NEW authors,
         Extends(d.versions, e.versions, authors),
         NEW p \in Paths, NEW v, v.by \in authors, NEW ws, Longer(e.versions, p, v, ws)
  PROVE  Extends(d.versions, ws, authors)
<1>1. \A q \in Paths : Len(d.versions[q]) \in Nat /\ Len(e.versions[q]) \in Nat
  BY PageFacts DEF Number
<1>2. ASSUME NEW q \in Paths, q # p
      PROVE  /\ Len(d.versions[q]) <= Len(ws[q])
             /\ \A i \in 1 .. Len(d.versions[q]) : ws[q][i] = d.versions[q][i]
             /\ \A i \in Len(d.versions[q]) + 1 .. Len(ws[q]) : ws[q][i].by \in authors
  BY <1>2 DEF Extends, Longer
<1>3. /\ Len(d.versions[p]) <= Len(ws[p])
      /\ \A i \in 1 .. Len(d.versions[p]) : ws[p][i] = d.versions[p][i]
      /\ \A i \in Len(d.versions[p]) + 1 .. Len(ws[p]) : ws[p][i].by \in authors
  <2>1. /\ Len(d.versions[p]) <= Len(e.versions[p])
        /\ \A i \in 1 .. Len(d.versions[p]) : e.versions[p][i] = d.versions[p][i]
        /\ \A i \in Len(d.versions[p]) + 1 .. Len(e.versions[p]) : e.versions[p][i].by \in authors
    BY DEF Extends
  <2>2. /\ Len(ws[p]) = Len(e.versions[p]) + 1 /\ ws[p][Len(e.versions[p]) + 1] = v
        /\ \A i \in 1 .. Len(e.versions[p]) : ws[p][i] = e.versions[p][i]
    BY DEF Longer
  <2>3. \A i \in 1 .. Len(d.versions[p]) : i \in 1 .. Len(e.versions[p])
    BY <1>1, <2>1
  <2>4. ASSUME NEW i \in Len(d.versions[p]) + 1 .. Len(ws[p]) PROVE ws[p][i].by \in authors
    <3>1. CASE i = Len(e.versions[p]) + 1
      BY <2>2, <3>1
    <3>2. CASE i # Len(e.versions[p]) + 1
      <4>1. i \in 1 .. Len(e.versions[p]) /\ i \in Len(d.versions[p]) + 1 .. Len(e.versions[p])
        BY <1>1, <2>2, <2>4, <3>2
      <4> QED BY <2>1, <2>2, <4>1
    <3> QED BY <3>1, <3>2
  <2> QED BY <1>1, <2>1, <2>2, <2>3, <2>4
<1> QED BY <1>2, <1>3 DEF Extends

(* Every kind of step keeps Grown: the open transaction only adds versions *)
(* by its own group.                                                       *)
LEMMA GrownStep ==
  ASSUME Shape, InProgress, Grown, DatabaseStep
  PROVE  Grown'
<1>1. db \in Database /\ work \in Database
  BY ShapeFacts
<1>2. CASE LeavesDatabase
  <2>1. UNCHANGED <<db, work, lock>> /\ (lock \in Workers => worker'[lock] = worker[lock])
    BY <1>2 DEF LeavesDatabase
  <2> QED BY <2>1 DEF Grown
<1>3. CASE lock' = Free
  BY <1>3, WorkerAssumption DEF Grown
<1>4. CASE Begun
  <2>1. work' = db' /\ db' = db
    BY <1>4, ShapeFacts DEF Begun
  <2>2. \A authors : Extends(db'.versions, work'.versions, authors)
    BY <1>1, <2>1, ExtendsItself
  <2> QED BY <2>2 DEF Grown
<1>5. CASE PatchDone
  <2>1. PICK g \in Groups, k \in Nat :
          /\ g = Head(worker[lock].groups)
          /\ Members[g][k + 1] \in PatchesOf(g) /\ PatchesOf(g) \in SUBSET Patches
          /\ \E s \in {"applied", "already_applied"} : PatchWritten(Members[g][k + 1], s)
    BY <1>5, PatchDoneFacts
  <2>2. lock \in Workers /\ UNCHANGED <<db, lock, worker>>
    BY <1>5, PatchDoneFacts
  <2>3. PICK x \in PatchesOf(g), s \in {"applied", "already_applied"} : PatchWritten(x, s)
    BY <2>1
  <2>4. x \in Patches
    BY <2>1
  <2>5. PatchVersions(x, s)
    BY <2>3, <2>4, PatchVersionsFacts
  <2>6. Extends(db.versions, work.versions, PatchesOf(g))
    BY <2>1, <2>2 DEF Grown
  <2>7. CASE work'.versions = work.versions
    BY <2>1, <2>2, <2>6, <2>7 DEF Grown
  <2>8. CASE Longer(work.versions, Patch[x].path, [content |-> Patch[x].content, by |-> x], work'.versions)
    <3>1. PICK v, ws, xs : /\ v = [content |-> Patch[x].content, by |-> x] /\ ws = work'.versions
                           /\ xs = PatchesOf(g)
      OBVIOUS
    <3>2. v.by \in xs /\ Longer(work.versions, Patch[x].path, v, ws) /\ Patch[x].path \in Paths
      BY <2>4, <2>8, <3>1, PatchShape
    <3>3. Extends(db.versions, work.versions, xs)
      BY <2>6, <3>1
    <3>4. Extends(db.versions, ws, xs)
      BY <1>1, <3>2, <3>3, ExtendsFurther
    <3> QED BY <2>1, <2>2, <3>1, <3>4 DEF Grown
  <2> QED BY <2>5, <2>7, <2>8 DEF PatchVersions
<1>6. PageWritten \/ BooksKept \/ Declined \/ RolledBack \/ GroupDone => lock' = Free
  BY DEF PageWritten, BooksKept, Declined, Committed, RolledBack, GroupDone
<1> QED BY <1>2, <1>3, <1>4, <1>5, <1>6 DEF DatabaseStep

(* The decision that a set of receipts stands for. *)
DecisionIn(rs, xs) ==
  LET decisions == {rs[x] : x \in xs}
  IN  CASE decisions = {"none"} -> "undecided"
        [] decisions = {"kept_local"} -> "kept_local"
        [] decisions = {"merged"} -> "merged"
        [] OTHER -> "applied"

(* Receipts of one kind stand for one decision. *)
LEMMA OneDecision ==
  ASSUME NEW rs, NEW xs, xs # {}
  PROVE  /\ (\A x \in xs : rs[x] = "none") => DecisionIn(rs, xs) = "undecided"
         /\ (\A x \in xs : rs[x] = "kept_local") => DecisionIn(rs, xs) = "kept_local"
         /\ (\A x \in xs : rs[x] = "merged") => DecisionIn(rs, xs) = "merged"
         /\ (\A x \in xs : rs[x] \in {"applied", "already_applied"})
              => DecisionIn(rs, xs) = "applied"
<1> DEFINE D == {rs[x] : x \in xs}
<1>1. ASSUME NEW s, \A x \in xs : rs[x] = s PROVE D = {s}
  BY <1>1
<1>2. ASSUME \A x \in xs : rs[x] \in {"applied", "already_applied"}
      PROVE  D # {"none"} /\ D # {"kept_local"} /\ D # {"merged"}
  <2>1. PICK x \in xs : TRUE
    OBVIOUS
  <2>2. rs[x] \in D /\ rs[x] \in {"applied", "already_applied"}
    BY <1>2
  <2> QED BY <2>2
<1> HIDE DEF D
<1>3. DecisionIn(rs, xs) = CASE D = {"none"} -> "undecided"
                             [] D = {"kept_local"} -> "kept_local"
                             [] D = {"merged"} -> "merged"
                             [] OTHER -> "applied"
  BY DEF DecisionIn, D
<1>4. (\A x \in xs : rs[x] = "none") => DecisionIn(rs, xs) = "undecided"
  BY <1>1, <1>3
<1>5. (\A x \in xs : rs[x] = "kept_local") => DecisionIn(rs, xs) = "kept_local"
  BY <1>1, <1>3
<1>6. (\A x \in xs : rs[x] = "merged") => DecisionIn(rs, xs) = "merged"
  BY <1>1, <1>3
<1>7. (\A x \in xs : rs[x] \in {"applied", "already_applied"}) => DecisionIn(rs, xs) = "applied"
  BY <1>2, <1>3
<1> QED BY <1>4, <1>5, <1>6, <1>7

(* Equal receipts stand for the same decision. *)
LEMMA SameDecision ==
  ASSUME NEW rs, NEW qs, NEW xs, \A x \in xs : rs[x] = qs[x]
  PROVE  DecisionIn(rs, xs) = DecisionIn(qs, xs)
<1>1. {rs[x] : x \in xs} = {qs[x] : x \in xs}
  OBVIOUS
<1> QED BY <1>1 DEF DecisionIn

(* What a step of CurationApply is for GroupDecisions.                     *)
DecidedSince(g, value) ==
  /\ DecisionIn(db.receipt, PatchesOf(g)) = "undecided"
  /\ DecisionIn(db'.receipt, PatchesOf(g)) = value
  /\ \A h \in Groups \ {g} :
       DecisionIn(db'.receipt, PatchesOf(h)) = DecisionIn(db.receipt, PatchesOf(h))

(* The receipts of one group do not disturb another group's decision. *)
LEMMA OthersUndisturbed ==
  ASSUME NEW g \in Groups, NEW h \in Groups, h # g,
         NEW rs, NEW qs, \A x \in Patches \ PatchesOf(g) : qs[x] = rs[x]
  PROVE  DecisionIn(qs, PatchesOf(h)) = DecisionIn(rs, PatchesOf(h))
<1>1. \A x \in PatchesOf(h) : x \in Patches \ PatchesOf(g)
  BY MembersFacts, GroupsAreDisjoint
<1>2. \A x \in PatchesOf(h) : qs[x] = rs[x]
  BY <1>1
<1> QED BY <1>2, SameDecision

(* A commit decides one group as applied and adds versions by its patches  *)
(* only.                                                                   *)
LEMMA GroupDoneDecision ==
  ASSUME Shape, InProgress, Grown, GroupDone
  PROVE  \E g \in Groups : DecidedSince(g, "applied")
                           /\ Extends(db.versions, db'.versions, PatchesOf(g))
<1>1. PICK g \in Groups :
    /\ lock \in Workers /\ g = Head(worker[lock].groups) /\ SamePages(work, db')
    /\ \A x \in PatchesOf(g) : /\ db'.receipt[x] \in {"applied", "already_applied"}
                               /\ db.receipt[x] = "none"
    /\ \A x \in Patches \ PatchesOf(g) : db'.receipt[x] = db.receipt[x]
  BY GroupDoneFacts
<1>2. Extends(db.versions, db'.versions, PatchesOf(g))
  BY <1>1 DEF Grown, SamePages
<1>3. PICK rs, qs, xs : rs = db.receipt /\ qs = db'.receipt /\ xs = PatchesOf(g)
  OBVIOUS
<1>4. xs # {} /\ (\A x \in xs : rs[x] = "none") /\ \A x \in xs : qs[x] \in {"applied", "already_applied"}
  BY <1>1, <1>3, MembersFacts
<1>5. DecisionIn(rs, xs) = "undecided" /\ DecisionIn(qs, xs) = "applied"
  BY <1>4, OneDecision
<1>6. \A h \in Groups \ {g} : DecisionIn(qs, PatchesOf(h)) = DecisionIn(rs, PatchesOf(h))
  BY <1>1, <1>3, OthersUndisturbed
<1>7. DecidedSince(g, "applied")
  BY <1>3, <1>5, <1>6 DEF DecidedSince
<1> QED BY <1>2, <1>7

(* A resolved conflict writes no version and decides one group at most. *)
LEMMA DeclinedDecision ==
  ASSUME Shape, Books, Declined
  PROVE  /\ db'.versions = db.versions
         /\ \/ \A h \in Groups :
                 DecisionIn(db'.receipt, PatchesOf(h)) = DecisionIn(db.receipt, PatchesOf(h))
            \/ \E g \in Groups, value \in {"kept_local", "merged"} : DecidedSince(g, value)
<1>1. PICK g \in Groups, action \in {"keep_local", "merged"} :
       db'.receipt = [x \in Patches |->
            IF x \in PatchesOf(g) /\ db.receipt[x] = "none" THEN ReceiptStatus(action)
            ELSE db.receipt[x]]
  BY DEF Declined
<1>2. db'.versions = db.versions
  BY DEF Declined, SamePages
<1>3. PICK rs, qs, xs, s : /\ rs = db.receipt /\ qs = db'.receipt /\ xs = PatchesOf(g)
                           /\ s = ReceiptStatus(action)
  OBVIOUS
<1>4. s \in {"kept_local", "merged"}
  BY <1>3 DEF ReceiptStatus
<1>5. xs \in SUBSET Patches /\ xs # {}
  BY <1>3, MembersFacts
<1>6. \A x \in Patches : qs[x] = IF x \in xs /\ rs[x] = "none" THEN s ELSE rs[x]
  BY <1>1, <1>3
<1>7. \A x \in Patches \ PatchesOf(g) : qs[x] = rs[x]
  BY <1>3, <1>6
<1>8. \A h \in Groups \ {g} : DecisionIn(qs, PatchesOf(h)) = DecisionIn(rs, PatchesOf(h))
  BY <1>7, OthersUndisturbed
<1>9. CASE \A x \in xs : rs[x] = "none"
  <2>1. \A x \in xs : qs[x] = s
    BY <1>5, <1>6, <1>9
  <2>2. DecisionIn(rs, xs) = "undecided"
    BY <1>5, <1>9, OneDecision
  <2>3. DecisionIn(qs, xs) = s
    <3>1. CASE s = "kept_local"
      BY <1>5, <2>1, <3>1, OneDecision
    <3>2. CASE s = "merged"
      BY <1>5, <2>1, <3>2, OneDecision
    <3> QED BY <1>4, <3>1, <3>2
  <2>4. DecidedSince(g, s)
    BY <1>3, <1>8, <2>2, <2>3 DEF DecidedSince
  <2> QED BY <1>2, <1>4, <2>4
<1>10. CASE ~ \A x \in xs : rs[x] = "none"
  <2>1. \A x \in xs : rs[x] # "none"
    <3>1. Uniform(db, g)
      BY DEF Books
    <3> QED BY <1>3, <1>10, <3>1 DEF Uniform
  <2>2. \A x \in xs : qs[x] = rs[x]
    BY <1>5, <1>6, <2>1
  <2>3. DecisionIn(qs, xs) = DecisionIn(rs, xs)
    BY <2>2, SameDecision
  <2> QED BY <1>2, <1>3, <1>8, <2>3
<1> QED BY <1>9, <1>10

DecisionsOf(rs) == [g \in Groups |-> DecisionIn(rs, PatchesOf(g))]

(* The refinement mapping, now and after a step. *)
LEMMA DecisionMap ==
  /\ [g \in Groups |-> DecisionOf(g)] = DecisionsOf(db.receipt)
  /\ [g \in Groups |-> DecisionOf(g)]' = DecisionsOf(db'.receipt)
  BY DEF DecisionOf, DecisionIn, DecisionsOf

(* A decided group changes the mapping at that group. *)
LEMMA DecidedMap ==
  ASSUME NEW g \in Groups, NEW value, DecidedSince(g, value)
  PROVE  /\ DecisionsOf(db.receipt)[g] = "undecided"
         /\ DecisionsOf(db'.receipt) = [DecisionsOf(db.receipt) EXCEPT ![g] = value]
  BY DEF DecidedSince, DecisionsOf

(* Every kind of step is a step of GroupDecisions or a stutter. *)
LEMMA RefinementStep ==
  ASSUME Shape, InProgress, Books, Grown, DatabaseStep
  PROVE  [Abstract!Next]_(Abstract!vars)
<1>1. ASSUME db'.versions = db.versions, DecisionsOf(db'.receipt) = DecisionsOf(db.receipt)
      PROVE  UNCHANGED Abstract!vars
  BY <1>1, DecisionMap DEF Abstract!vars
<1>2. CASE LeavesDatabase \/ RolledBack \/ Begun \/ PatchDone \/ BooksKept
  <2>1. db'.versions = db.versions /\ db'.receipt = db.receipt
    BY <1>2, PatchDoneFacts DEF LeavesDatabase, RolledBack, Begun, BooksKept, SamePages
  <2> QED BY <1>1, <2>1
<1>3. CASE PageWritten
  <2>1. PICK p \in Paths, v \in Version :
          /\ SameButVersions(db, db') /\ v.by = Agent /\ Longer(db.versions, p, v, db'.versions)
    BY <1>3, PageWrittenFacts
  <2>2. PICK authors, ws : authors = {Agent} /\ ws = db'.versions
    OBVIOUS
  <2>3. Extends(db.versions, ws, authors)
    <3>1. db \in Database
      BY ShapeFacts
    <3>2. Extends(db.versions, db.versions, authors)
      BY <3>1, ExtendsItself
    <3>3. v.by \in authors /\ Longer(db.versions, p, v, ws)
      BY <2>1, <2>2
    <3> QED BY <3>1, <3>2, <3>3, ExtendsFurther
  <2>4. Abstract!GrowsBy({Agent})
    BY <2>2, <2>3 DEF Extends, Abstract!GrowsBy
  <2>5. db'.receipt = db.receipt
    BY <2>1 DEF SameButVersions
  <2>6. [g \in Groups |-> DecisionOf(g)]' = [g \in Groups |-> DecisionOf(g)]
    BY <2>5, DecisionMap
  <2> QED BY <2>4, <2>6 DEF Abstract!Next, Abstract!Write
<1>4. CASE Declined
  <2>1. db'.versions = db.versions
    BY <1>4, DeclinedDecision
  <2>2. CASE \A h \in Groups :
               DecisionIn(db'.receipt, PatchesOf(h)) = DecisionIn(db.receipt, PatchesOf(h))
    <3>1. DecisionsOf(db'.receipt) = DecisionsOf(db.receipt)
      BY <2>2 DEF DecisionsOf
    <3> QED BY <1>1, <2>1, <3>1
  <2>3. ASSUME NEW g \in Groups, NEW value \in {"kept_local", "merged"}, DecidedSince(g, value)
        PROVE  Abstract!Decline(g)
    <3>1. /\ DecisionsOf(db.receipt)[g] = "undecided"
          /\ DecisionsOf(db'.receipt) = [DecisionsOf(db.receipt) EXCEPT ![g] = value]
      BY <2>3, DecidedMap
    <3>2. /\ [h \in Groups |-> DecisionOf(h)][g] = "undecided"
          /\ [h \in Groups |-> DecisionOf(h)]' =
               [[h \in Groups |-> DecisionOf(h)] EXCEPT ![g] = value]
      BY <3>1, DecisionMap
    <3> QED BY <2>1, <3>2 DEF Abstract!Decline
  <2> QED BY <1>4, <2>2, <2>3, DeclinedDecision DEF Abstract!Next
<1>5. CASE GroupDone
  <2>1. PICK g \in Groups : /\ DecidedSince(g, "applied")
                            /\ Extends(db.versions, db'.versions, PatchesOf(g))
    BY <1>5, GroupDoneDecision
  <2>2. Abstract!GrowsBy([h \in Groups |-> PatchesOf(h)][g])
    BY <2>1 DEF Extends, Abstract!GrowsBy
  <2>3. Abstract!Apply(g)
    BY <2>1, <2>2, DecisionMap, DecidedMap DEF Abstract!Apply
  <2> QED BY <2>3 DEF Abstract!Next
<1> QED BY <1>2, <1>3, <1>4, <1>5 DEF DatabaseStep

(* CurationApply implements GroupDecisions: each group is decided once, by *)
(* one step, and never again, and versions change only when a group is     *)
(* applied or the agent writes.                                            *)
THEOREM GroupsAreDecidedOnce == Spec => ImplementsGroupDecisions
<1> DEFINE I == Shape /\ InProgress /\ Books /\ Grown
<1>1. Init => I /\ Abstract!Init
  <2>1. ASSUME Init PROVE Grown
    BY <2>1, InitFacts, WorkerAssumption DEF Grown
  <2>2. ASSUME Init PROVE Abstract!Init
    <3>1. \A g \in Groups : PatchesOf(g) # {} /\ \A x \in PatchesOf(g) : db.receipt[x] = "none"
      BY <2>2, InitFacts, MembersFacts
    <3>2. \A g \in Groups : DecisionIn(db.receipt, PatchesOf(g)) = "undecided"
      BY <3>1, OneDecision
    <3>3. DecisionsOf(db.receipt) = [g \in Groups |-> "undecided"]
      BY <3>2 DEF DecisionsOf
    <3> QED BY <3>3, DecisionMap DEF Abstract!Init
  <2> QED BY <2>1, <2>2, ShapeInit, BooksInit
<1>2. I /\ [Next]_vars => I' /\ [Abstract!Next]_(Abstract!vars)
  BY ShapeStep, TodoIsOpen, StepKinds, BooksStep, GrownStep, RefinementStep
<1> HIDE DEF I
<1> QED BY <1>1, <1>2, PTL DEF Spec, Abstract!Spec, ImplementsGroupDecisions
-----------------------------------------------------------------------------
(* THE BASE OF EVERY VERSION. *)

(* Receipts are written for received runs only. *)
Known ==
  \A g \in Groups : \A x \in PatchesOf(g) : db.receipt[x] # "none" => RunOf(g) \in Received

(* Every kind of step keeps Known. *)
LEMMA KnownStep ==
  ASSUME Shape, InProgress, Known, DatabaseStep
  PROVE  Known'
<1>1. ASSUME NEW g \in Groups, RunOf(g) \in Received, Received \subseteq Received',
             \A x \in Patches \ PatchesOf(g) : db'.receipt[x] = db.receipt[x]
      PROVE  Known'
  <2>1. ASSUME NEW h \in Groups, NEW x \in PatchesOf(h), db'.receipt[x] # "none"
        PROVE  RunOf(h) \in Received
    <3>1. CASE h = g
      BY <1>1, <3>1
    <3>2. CASE h # g
      <4>1. x \in Patches \ PatchesOf(g)
        BY <2>1, <3>2, MembersFacts, GroupsAreDisjoint
      <4>2. db.receipt[x] # "none"
        BY <1>1, <2>1, <4>1
      <4> QED BY <2>1, <4>2 DEF Known
    <3> QED BY <3>1, <3>2
  <2> QED BY <1>1, <2>1 DEF Known
<1>2. ASSUME db'.receipt = db.receipt, Received \subseteq Received' PROVE Known'
  BY <1>2 DEF Known
<1>3. UNCHANGED manifestVars => Received \subseteq Received'
  BY DEF Received, manifestVars
<1>4. CASE LeavesDatabase
  BY <1>2, <1>4 DEF LeavesDatabase
<1>5. CASE RolledBack \/ PageWritten \/ BooksKept \/ Begun \/ PatchDone
  <2>1. db'.receipt = db.receipt /\ UNCHANGED manifestVars
    BY <1>5, PatchDoneFacts DEF RolledBack, PageWritten, BooksKept, Begun, Committed, SameButVersions
  <2> QED BY <1>2, <1>3, <2>1
<1>6. CASE Declined
  <2>1. PICK g \in Groups, action \in {"keep_local", "merged"} :
       /\ db.conflict[g] = "pending"
       /\ db'.receipt = [x \in Patches |->
            IF x \in PatchesOf(g) /\ db.receipt[x] = "none" THEN ReceiptStatus(action)
            ELSE db.receipt[x]]
    BY <1>6 DEF Declined
  <2>2. RunOf(g) \in Received
    BY <2>1 DEF Shape
  <2>3. \A x \in Patches \ PatchesOf(g) : db'.receipt[x] = db.receipt[x]
    BY <2>1
  <2>4. UNCHANGED manifestVars
    BY <1>6 DEF Declined, Committed
  <2> QED BY <1>1, <1>3, <2>2, <2>3, <2>4
<1>7. CASE GroupDone
  <2>1. PICK g \in Groups : /\ RunOf(g) \in Received /\ UNCHANGED manifestVars
                            /\ \A x \in Patches \ PatchesOf(g) : db'.receipt[x] = db.receipt[x]
    BY <1>7, GroupDoneFacts
  <2> QED BY <1>1, <1>3, <2>1
<1> QED BY <1>4, <1>5, <1>6, <1>7 DEF DatabaseStep

(* The base of a patch is fixed once its run was received. *)
InReceivedRuns(x) == \A g \in Groups : x \in PatchesOf(g) => RunOf(g) \in Received

(* No step moves the base of a patch whose run was received: a run is      *)
(* published once.                                                         *)
LEMMA BaseIsFixed ==
  ASSUME Shape, [Next]_vars, NEW x \in Patches, InReceivedRuns(x)
  PROVE  base'[x] = base[x]
<1>1. UNCHANGED base \/ \E r \in Runs : Publish(r)
  <2>1. CASE UNCHANGED vars
    BY <2>1 DEF vars
  <2>2. ASSUME NEW p \in Paths, NEW c \in Contents, AgentWrite(p, c) PROVE UNCHANGED base
    BY <2>2 DEF AgentWrite, manifestVars
  <2>3. ASSUME NEW p \in Paths, NEW q \in Paths, AgentLink(p, q) PROVE UNCHANGED base
    BY <2>3 DEF AgentLink, manifestVars
  <2>4. ASSUME NEW r \in Runs, Receive(r) PROVE UNCHANGED base
    BY <2>4 DEF Receive
  <2>5. ASSUME NEW w \in Workers, StartCycle(w) \/ Work(w) \/ Stop(w) \/ Operate(w)
        PROVE  UNCHANGED base
    BY <2>5 DEF StartCycle, Work, Operate, SkipForReview, SkipProcessed, ReportConflict, BeginGroup,
                ApplyPatch, CommitGroup, KeepLocal, Raise, OperatorApply, OperatorResolve,
                OperatorAccept, Stop, manifestVars
  <2> QED BY <2>1, <2>2, <2>3, <2>4, <2>5 DEF Next
<1>2. ASSUME NEW r \in Runs, Publish(r) PROVE base'[x] = base[x]
  <2> DEFINE xs == UNION {PatchesOf(g) : g \in Range(Plan[r])}
  <2>1. inbox[r] = "none"
        /\ base' = [y \in Patches |-> IF y \in xs /\ Patch[y].op # "create_page"
                                      THEN State(db, Patch[y].path) ELSE base[y]]
    BY <1>2 DEF Publish
  <2>2. x \notin xs
    <3>1. SUFFICES ASSUME NEW g \in Range(Plan[r]), x \in PatchesOf(g) PROVE FALSE
      OBVIOUS
    <3>2. g \in Groups /\ RunOf(g) = r
      BY <3>1, PlanFacts
    <3>3. r \in Received
      BY <3>1, <3>2 DEF InReceivedRuns
    <3> QED BY <2>1, <3>3 DEF Received
  <2> HIDE DEF xs
  <2> QED BY <2>1, <2>2
<1> QED BY <1>1, <1>2

(* Who wrote a version, or is about to, belongs to received runs. *)
LEMMA AuthorsReceived ==
  ASSUME Shape, InProgress, Known, NEW x \in Patches,
         \/ db.receipt[x] # "none"
         \/ work.receipt[x] # "none"
         \/ lock \in Workers /\ x \in PatchesOf(Head(worker[lock].groups))
  PROVE  InReceivedRuns(x)
<1>1. ASSUME NEW g \in Groups, x \in PatchesOf(g) PROVE RunOf(g) \in Received
  <2>1. CASE db.receipt[x] # "none"
    BY <1>1, <2>1 DEF Known
  <2>2. CASE lock \in Workers /\ db.receipt[x] = "none"
    <3>1. PICK h \in Groups, k \in Nat : /\ h = Head(worker[lock].groups) /\ Progress(h, k)
                                         /\ RunOf(h) \in Received
      BY <2>2, ProgressFacts
    <3>2. x \in PatchesOf(h)
      BY <2>2, <3>1 DEF Progress
    <3>3. g = h
      BY <1>1, <3>2, GroupsAreDisjoint
    <3> QED BY <3>1, <3>3
  <2>3. CASE lock = Free /\ db.receipt[x] = "none"
    BY <2>3, ShapeFacts, WorkerAssumption
  <2> QED BY <2>1, <2>2, <2>3, ShapeFacts
<1> QED BY <1>1 DEF InReceivedRuns

(* Patch x wrote its version on the base b[x]. *)
Exact(d, b, x) ==
  \A p \in Paths : \A n \in 1 .. Len(d.versions[p]) : d.versions[p][n].by = x =>
    \/ Patch[x].op = "create_page" /\ n = 1
    \/ n # 1 /\ n = b[x].number + 1 /\ d.versions[p][n - 1].content = b[x].content

ForcedIn(d, x) == \E g \in Groups : x \in PatchesOf(g) /\ d.conflict[g] = "accept_remote"

ExactHistory == \A x \in Patches : ForcedIn(db, x) \/ Exact(db, base, x)

ForcedNow(x) == worker[lock].force /\ x \in PatchesOf(Head(worker[lock].groups))

OpenExact ==
  lock \in Workers =>
    \A x \in Patches : ForcedIn(db, x) \/ ForcedNow(x) \/ Exact(work, base, x)

(* A transaction that is not forced writes a page once, with a content     *)
(* that differs from the committed one, and a patch still to apply was     *)
(* made for the committed version.                                         *)
OneMore(d, e, p) ==
  \/ e.versions[p] = d.versions[p]
  \/ Len(e.versions[p]) = Len(d.versions[p]) + 1 /\ (Exists(d, p) => Content(e, p) # Content(d, p))

Fresh(d, b, entry) ==
  LET x == entry.patch IN
  ~ entry.already =>
    /\ Patch[x].op = "create_page" => ~ Exists(d, Patch[x].path)
    /\ Patch[x].op = "update_page" =>
         Exists(d, Patch[x].path) /\ State(d, Patch[x].path) = b[x]

OpenFresh ==
  lock \in Workers /\ ~ worker[lock].force =>
    /\ \A p \in Paths : OneMore(db, work, p)
    /\ \A i \in 1 .. Len(todo) : Fresh(db, base, todo[i])

(* Exact depends on the versions only. *)
LEMMA ExactSame ==
  ASSUME NEW d, NEW e, NEW b, NEW x, e.versions = d.versions, Exact(d, b, x)
  PROVE  Exact(e, b, x)
  BY DEF Exact

OnBase(d, b, x, p) ==
  \/ Patch[x].op = "create_page" /\ Len(d.versions[p]) = 0
  \/ /\ Len(d.versions[p]) # 0 /\ Len(d.versions[p]) = b[x].number
     /\ Content(d, p) = b[x].content

NoAuthor(d, x) == \A p \in Paths : \A n \in 1 .. Len(d.versions[p]) : d.versions[p][n].by # x

(* A new version keeps Exact when its author had the latest version as its *)
(* base.                                                                   *)
LEMMA ExactLonger ==
  ASSUME NEW d \in Database, NEW e, NEW b, NEW x, NEW p \in Paths, NEW v,
         Longer(d.versions, p, v, e.versions), Exact(d, b, x),
         v.by = x => NoAuthor(d, x) /\ OnBase(d, b, x, p)
  PROVE  Exact(e, b, x)
<1>1. \A q \in Paths : Len(d.versions[q]) \in Nat
  BY PageFacts DEF Number
<1>2. ASSUME NEW q \in Paths, NEW n \in 1 .. Len(e.versions[q]), e.versions[q][n].by = x
      PROVE  \/ Patch[x].op = "create_page" /\ n = 1
             \/ n # 1 /\ n = b[x].number + 1 /\ e.versions[q][n - 1].content = b[x].content
  <2>1. CASE n \in 1 .. Len(d.versions[q]) /\ (q = p \/ q # p)
    <3>1. \A m \in 1 .. Len(d.versions[q]) : e.versions[q][m] = d.versions[q][m]
      BY DEF Longer
    <3>2. \/ Patch[x].op = "create_page" /\ n = 1
          \/ n # 1 /\ n = b[x].number + 1 /\ d.versions[q][n - 1].content = b[x].content
      BY <1>2, <2>1, <3>1 DEF Exact
    <3>3. n # 1 => n - 1 \in 1 .. Len(d.versions[q])
      BY <1>1, <2>1
    <3> QED BY <3>1, <3>2, <3>3
  <2>2. CASE n \notin 1 .. Len(d.versions[q])
    <3>1. q = p /\ n = Len(d.versions[p]) + 1
      BY <1>1, <1>2, <2>2 DEF Longer
    <3>2. v.by = x
      BY <1>2, <3>1 DEF Longer
    <3>3. OnBase(d, b, x, p)
      BY <3>2
    <3>4. CASE Patch[x].op = "create_page" /\ Len(d.versions[p]) = 0
      BY <3>1, <3>4
    <3>5. CASE /\ Len(d.versions[p]) # 0 /\ Len(d.versions[p]) = b[x].number
               /\ Content(d, p) = b[x].content
      <4>1. Len(d.versions[p]) \in 1 .. Len(d.versions[p]) /\ n - 1 = Len(d.versions[p]) /\ n # 1
        BY <1>1, <3>1, <3>5
      <4>2. e.versions[q][n - 1] = d.versions[p][Len(d.versions[p])]
        BY <3>1, <4>1 DEF Longer
      <4>3. e.versions[q][n - 1].content = b[x].content
        BY <3>5, <4>2 DEF Content, Number
      <4> QED BY <3>1, <3>5, <4>1, <4>3
    <3> QED BY <3>3, <3>4, <3>5 DEF OnBase
  <2> QED BY <2>1, <2>2
<1> QED BY <1>2 DEF Exact

(* A later manifest does not move the base of a patch that wrote.          *)
LEMMA ExactKept ==
  ASSUME Shape, InProgress, Known, Traced(db), Traced(work), [Next]_vars, NEW x \in Patches
  PROVE  /\ Exact(db, base, x) => Exact(db, base', x)
         /\ Exact(work, base, x) => Exact(work, base', x)
<1>1. x # Agent
  BY PageAssumption
<1>2. CASE base'[x] = base[x]
  BY <1>2 DEF Exact
<1>3. CASE base'[x] # base[x]
  <2>1. db.receipt[x] = "none" /\ work.receipt[x] = "none"
    <3>1. ~ InReceivedRuns(x)
      BY <1>3, BaseIsFixed
    <3>2. CASE db.receipt[x] # "none"
      BY <3>1, <3>2, AuthorsReceived
    <3>3. CASE work.receipt[x] # "none"
      BY <3>1, <3>3, AuthorsReceived
    <3> QED BY <3>2, <3>3
  <2>2. NoAuthor(db, x)
    BY <1>1, <2>1 DEF Traced, NoAuthor
  <2>3. NoAuthor(work, x)
    BY <1>1, <2>1 DEF Traced, NoAuthor
  <2> QED BY <2>2, <2>3 DEF Exact, NoAuthor
<1> QED BY <1>2, <1>3

(* A group accepted by force stays so. *)
LEMMA ForcedStays ==
  ASSUME Shape, InProgress, DatabaseStep, NEW x, ForcedIn(db, x)
  PROVE  ForcedIn(db', x)
<1>1. PICK g \in Groups : x \in PatchesOf(g) /\ db.conflict[g] = "accept_remote"
  BY DEF ForcedIn
<1>2. db.conflict \in [Groups -> {"none", "pending", "keep_local", "merged", "accept_remote"}]
  BY ShapeFacts, DatabaseFields
<1>3. ASSUME \/ db'.conflict = db.conflict
             \/ \E h \in Groups : \E s : db'.conflict = [db.conflict EXCEPT ![h] = s]
                                     /\ (s = "accept_remote" \/ db.conflict[h] # "accept_remote")
      PROVE  db'.conflict[g] = "accept_remote"
  BY <1>1, <1>2, <1>3
<1>4. CASE db' = db
  BY <1>1, <1>4 DEF ForcedIn
<1>5. CASE PageWritten
  BY <1>1, <1>5 DEF PageWritten, SameButVersions, ForcedIn
<1>6. CASE BooksKept
  <2>1. \/ db'.conflict = db.conflict
        \/ \E h \in Groups : \E s : db'.conflict = [db.conflict EXCEPT ![h] = s]
                                /\ (s = "accept_remote" \/ db.conflict[h] # "accept_remote")
    <3>1. \/ db'.conflict = db.conflict
          \/ \E h \in Groups : /\ db.conflict[h] = "none"
                               /\ db'.conflict = [db.conflict EXCEPT ![h] = "pending"]
          \/ \E h \in Groups : db'.conflict = [db.conflict EXCEPT ![h] = "accept_remote"]
      BY <1>6 DEF BooksKept
    <3> QED BY <3>1
  <2> QED BY <1>1, <1>3, <2>1 DEF ForcedIn
<1>7. CASE Declined
  <2>1. \E h \in Groups : \E s : db'.conflict = [db.conflict EXCEPT ![h] = s]
                             /\ db.conflict[h] = "pending"
    BY <1>7 DEF Declined
  <2> QED BY <1>1, <1>3, <2>1 DEF ForcedIn
<1>8. CASE GroupDone
  <2>1. \/ db'.conflict = db.conflict
        \/ \E h \in Groups : db'.conflict = [db.conflict EXCEPT ![h] = "accept_remote"]
    BY <1>8, GroupDoneFacts
  <2> QED BY <1>1, <1>3, <2>1 DEF ForcedIn
<1>9. LeavesDatabase \/ RolledBack \/ Begun \/ PatchDone => db' = db
  BY PatchDoneFacts DEF LeavesDatabase, RolledBack, Begun
<1> QED BY <1>4, <1>5, <1>6, <1>7, <1>8, <1>9 DEF DatabaseStep

(* Every step keeps ExactHistory: a commit takes over what the open        *)
(* transaction wrote exactly.                                              *)
LEMMA ExactHistoryStep ==
  ASSUME Shape, InProgress, Known, Traced(db), Traced(work), [Next]_vars, DatabaseStep,
         ExactHistory, OpenExact
  PROVE  ExactHistory'
<1> SUFFICES ASSUME NEW x \in Patches PROVE ForcedIn(db', x) \/ Exact(db', base', x)
  BY DEF ExactHistory
<1>1. CASE ForcedIn(db, x)
  BY <1>1, ForcedStays
<1>2. PICK e, b : e = db' /\ b = base'
  OBVIOUS
<1>3. Exact(db, base, x) => Exact(db, b, x)
  BY <1>2, ExactKept
<1>4. CASE Exact(db, base, x) /\ db'.versions = db.versions
  <2>1. Exact(e, b, x)
    BY <1>2, <1>3, <1>4, ExactSame
  <2> QED BY <1>2, <2>1
<1>5. CASE PageWritten /\ Exact(db, base, x)
  <2>1. PICK p \in Paths, v \in Version :
          v.by = Agent /\ Longer(db.versions, p, v, db'.versions)
    BY <1>5, PageWrittenFacts
  <2>2. v.by # x /\ db \in Database /\ Longer(db.versions, p, v, e.versions)
    BY <1>2, <2>1, PageAssumption, ShapeFacts
  <2>3. Exact(e, b, x)
    BY <1>3, <1>5, <2>2, ExactLonger
  <2> QED BY <1>2, <2>3
<1>6. CASE GroupDone
  <2>1. PICK g \in Groups :
          /\ lock \in Workers /\ g = Head(worker[lock].groups) /\ SamePages(work, db')
          /\ db'.conflict = IF worker[lock].force THEN [db.conflict EXCEPT ![g] = "accept_remote"]
                            ELSE db.conflict
    BY <1>6, GroupDoneFacts
  <2>2. CASE ForcedNow(x)
    <3>1. db.conflict \in [Groups -> {"none", "pending", "keep_local", "merged", "accept_remote"}]
      BY ShapeFacts, DatabaseFields
    <3> QED BY <2>1, <2>2, <3>1 DEF ForcedNow, ForcedIn
  <2>3. CASE Exact(work, base, x)
    <3>1. Exact(work, b, x)
      BY <1>2, <2>3, ExactKept
    <3>2. Exact(e, b, x)
      BY <1>2, <2>1, <3>1, ExactSame DEF SamePages
    <3> QED BY <1>2, <3>2
  <2> QED BY <1>1, <2>1, <2>2, <2>3 DEF OpenExact
<1>7. LeavesDatabase \/ RolledBack \/ Begun \/ PatchDone \/ BooksKept \/ Declined
        => db'.versions = db.versions
  BY PatchDoneFacts DEF LeavesDatabase, RolledBack, Begun, BooksKept, Declined, SamePages
<1> QED BY <1>1, <1>4, <1>5, <1>6, <1>7 DEF DatabaseStep, ExactHistory

(* Known holds initially. *)
LEMMA KnownInit == Init => Known
<1>1. \A g \in Groups : PatchesOf(g) \in SUBSET Patches
  BY MembersFacts
<1>2. Init => db.receipt = [x \in Patches |-> "none"]
  BY InitFacts
<1> QED BY <1>1, <1>2 DEF Known

(* An unforced patch writes on the version it was made for, which is still *)
(* the committed one.                                                      *)
LEMMA PatchOnBase ==
  ASSUME NEW d \in Database, NEW e \in Database, NEW b, NEW x \in Patches, NEW entry,
         entry.patch = x, ~ entry.already, Patch[x].op \in {"create_page", "update_page"},
         Fresh(d, b, entry), OneMore(d, e, Patch[x].path),
         Patch[x].op = "create_page" => ~ Exists(e, Patch[x].path),
         Patch[x].op = "update_page" => /\ Exists(e, Patch[x].path)
                                        /\ Content(e, Patch[x].path) = b[x].content
  PROVE  OnBase(e, b, x, Patch[x].path) /\ e.versions[Patch[x].path] = d.versions[Patch[x].path]
<1> DEFINE p == Patch[x].path
<1>1. p \in Paths
  BY PatchShape
<1>2. d.versions[p] \in Seq(Version) /\ e.versions[p] \in Seq(Version)
  BY <1>1, DatabaseFields
<1> HIDE DEF p
<1>3. CASE Patch[x].op = "create_page"
  <2>1. d.versions[p] = <<>> /\ e.versions[p] = <<>>
    BY <1>3 DEF Fresh, Exists, p
  <2>2. Len(e.versions[p]) = 0
    BY <2>1
  <2> QED BY <1>3, <2>1, <2>2 DEF OnBase, p
<1>4. CASE Patch[x].op = "update_page"
  <2>1. /\ d.versions[p] # <<>> /\ State(d, p) = b[x]
        /\ e.versions[p] # <<>> /\ Content(e, p) = b[x].content
    BY <1>4 DEF Fresh, Exists, p
  <2>2. b[x].number = Len(d.versions[p]) /\ b[x].content = Content(d, p)
    BY <2>1 DEF State, Number
  <2>3. e.versions[p] = d.versions[p]
    BY <2>1, <2>2 DEF OneMore, Exists, p
  <2>4. Len(e.versions[p]) # 0
    BY <1>2, <2>1, EmptySeq
  <2> QED BY <2>1, <2>2, <2>3, <2>4 DEF OnBase, p
<1> QED BY <1>3, <1>4

(* The base check, as the open transaction passes it. *)
LEMMA PatchBasis ==
  ASSUME Shape, InProgress, OpenFresh, PatchDone
  PROVE  /\ lock \in Workers /\ UNCHANGED <<db, lock, worker, manifestVars>>
         /\ work \in Database /\ todo' = Tail(todo)
         /\ \E x \in Patches :
              /\ x \in PatchesOf(Head(worker[lock].groups)) /\ work.receipt[x] = "none"
              /\ \/ work'.versions = work.versions
                 \/ /\ Exists(work, Patch[x].path) => Content(work, Patch[x].path) # Patch[x].content
                    /\ Longer(work.versions, Patch[x].path, [content |-> Patch[x].content, by |-> x],
                              work'.versions)
                    /\ ~ worker[lock].force =>
                         /\ OnBase(work, base, x, Patch[x].path)
                         /\ work.versions[Patch[x].path] = db.versions[Patch[x].path]
<1>1. lock \in Workers /\ UNCHANGED <<db, lock, worker, manifestVars>>
  BY PatchDoneFacts
<1>2. PICK g \in Groups, k \in Nat :
        /\ g = Head(worker[lock].groups) /\ Progress(g, k) /\ k + 1 \in 1 .. Len(Members[g])
        /\ todo # <<>> /\ todo' = Tail(todo) /\ Head(todo).patch = Members[g][k + 1]
        /\ Head(todo) = todo[1]
        /\ Members[g][k + 1] \in PatchesOf(g) /\ PatchesOf(g) \in SUBSET Patches
        /\ \E s \in {"applied", "already_applied"} : PatchWritten(Members[g][k + 1], s)
  BY PatchDoneFacts
<1>3. PICK x : x = Members[g][k + 1]
  OBVIOUS
<1>4. PICK s \in {"applied", "already_applied"} : PatchWritten(x, s)
  BY <1>2, <1>3
<1>5. x \in Patches /\ x \in PatchesOf(Head(worker[lock].groups))
  BY <1>2, <1>3
<1>6. PatchVersions(x, s)
  BY <1>4, <1>5, PatchVersionsFacts
<1>7. work.receipt[x] = "none"
  BY <1>4 DEF PatchWritten
<1>8. db \in Database /\ work \in Database
  BY ShapeFacts
<1>9. ASSUME ~ worker[lock].force, Patch[x].op \in {"create_page", "update_page"},
             ~ Head(todo).already, ~ PatchFails(work, x, worker[lock].force)
      PROVE  OnBase(work, base, x, Patch[x].path)
             /\ work.versions[Patch[x].path] = db.versions[Patch[x].path]
  <2>1. 1 \in 1 .. Len(todo)
    <3>1. Len(todo) = Len(Members[g]) - k /\ Len(Members[g]) \in Nat
      BY <1>2, MembersFacts DEF Progress
    <3> QED BY <1>2, <3>1
  <2>2. Fresh(db, base, todo[1])
    BY <1>1, <1>9, <2>1 DEF OpenFresh
  <2>3. PICK entry : entry = Head(todo)
    OBVIOUS
  <2>4. entry.patch = x /\ ~ entry.already /\ Fresh(db, base, entry)
    BY <1>2, <1>3, <1>9, <2>2, <2>3
  <2>5. Patch[x].path \in Paths
    BY <1>5, PatchShape
  <2>6. OneMore(db, work, Patch[x].path)
    BY <1>1, <1>9, <2>5 DEF OpenFresh
  <2>7. Patch[x].op = "create_page" => ~ Exists(work, Patch[x].path)
    BY <1>9 DEF PatchFails
  <2>8. Patch[x].op = "update_page" => /\ Exists(work, Patch[x].path)
                                       /\ Content(work, Patch[x].path) = base[x].content
    BY <1>9 DEF PatchFails
  <2> QED BY <1>5, <1>8, <1>9, <2>4, <2>6, <2>7, <2>8, PatchOnBase
<1>10. \/ work'.versions = work.versions
       \/ /\ Exists(work, Patch[x].path) => Content(work, Patch[x].path) # Patch[x].content
          /\ Longer(work.versions, Patch[x].path, [content |-> Patch[x].content, by |-> x],
                    work'.versions)
          /\ ~ worker[lock].force =>
               /\ OnBase(work, base, x, Patch[x].path)
               /\ work.versions[Patch[x].path] = db.versions[Patch[x].path]
  BY <1>6, <1>9 DEF PatchVersions
<1> QED BY <1>1, <1>2, <1>5, <1>7, <1>8, <1>10

(* Every step keeps OpenExact. *)
LEMMA OpenExactStep ==
  ASSUME Shape, InProgress, Known, Traced(db), Traced(work), [Next]_vars, DatabaseStep,
         ExactHistory, OpenExact, OpenFresh
  PROVE  OpenExact'
<1>1. CASE LeavesDatabase
  <2>1. db' = db /\ work' = work /\ lock' = lock /\ (lock \in Workers => worker'[lock] = worker[lock])
    BY <1>1 DEF LeavesDatabase
  <2>2. ASSUME lock \in Workers, NEW x \in Patches
        PROVE  ForcedIn(db, x) \/ ForcedNow(x) \/ Exact(work, base', x)
    BY <2>2, ExactKept DEF OpenExact
  <2> QED BY <2>1, <2>2 DEF OpenExact, ForcedNow
<1>2. CASE Begun
  <2>1. db' = db /\ work' = db /\ base' = base
    BY <1>2, ShapeFacts DEF Begun, manifestVars
  <2> QED BY <2>1 DEF OpenExact, ExactHistory
<1>3. CASE PatchDone
  <2>1. PICK y \in Patches :
          /\ y \in PatchesOf(Head(worker[lock].groups)) /\ work.receipt[y] = "none"
          /\ \/ work'.versions = work.versions
             \/ /\ Longer(work.versions, Patch[y].path, [content |-> Patch[y].content, by |-> y],
                          work'.versions)
                /\ ~ worker[lock].force => OnBase(work, base, y, Patch[y].path)
    BY <1>3, PatchBasis
  <2>2. lock \in Workers /\ db' = db /\ base' = base /\ lock' = lock /\ worker' = worker
        /\ work \in Database
    BY <1>3, PatchBasis DEF manifestVars
  <2>3. PICK e, v : e = work' /\ v = [content |-> Patch[y].content, by |-> y]
    OBVIOUS
  <2>4. ASSUME NEW x \in Patches, ~ ForcedIn(db, x), ~ ForcedNow(x)
        PROVE  Exact(e, base, x)
    <3>1. Exact(work, base, x)
      BY <2>2, <2>4 DEF OpenExact
    <3>2. CASE work'.versions = work.versions
      BY <2>3, <3>1, <3>2, ExactSame
    <3>3. CASE /\ Longer(work.versions, Patch[y].path, v, e.versions)
               /\ ~ worker[lock].force => OnBase(work, base, y, Patch[y].path)
      <4>1. v.by = x => NoAuthor(work, x) /\ OnBase(work, base, x, Patch[y].path)
        <5> SUFFICES ASSUME v.by = x PROVE NoAuthor(work, x) /\ OnBase(work, base, x, Patch[y].path)
          OBVIOUS
        <5>1. x = y
          BY <2>3
        <5>2. ~ worker[lock].force
          BY <2>1, <2>4, <5>1 DEF ForcedNow
        <5>3. x # Agent /\ work.receipt[x] = "none"
          BY <2>1, <5>1, PageAssumption
        <5>4. NoAuthor(work, x)
          BY <5>3 DEF Traced, NoAuthor
        <5> QED BY <3>3, <5>1, <5>2, <5>4
      <4>2. Patch[y].path \in Paths
        BY PatchShape
      <4> QED BY <2>2, <3>1, <3>3, <4>1, <4>2, ExactLonger
    <3> QED BY <2>1, <2>3, <3>2, <3>3
  <2> QED BY <2>2, <2>3, <2>4 DEF OpenExact, ForcedNow
<1>4. lock' = Free \/ LeavesDatabase \/ Begun \/ PatchDone
  BY DEF DatabaseStep, RolledBack, PageWritten, BooksKept, Declined, GroupDone, Committed
<1>5. CASE lock' = Free
  BY <1>5, WorkerAssumption DEF OpenExact
<1> QED BY <1>1, <1>2, <1>3, <1>4, <1>5

(* What preflight accepted was made for the committed versions. *)
LEMMA BegunFresh ==
  ASSUME NEW d, NEW g \in Groups, ~ GroupConflicts(d, g, FALSE),
         NEW i \in 1 .. Len(Members[g]), NEW entry, entry = Preflighted(d, g)[i]
  PROVE  Fresh(d, base, entry)
<1>1. entry = [patch |-> Members[g][i], already |-> AlreadyApplied(d, Members[g][i])]
  BY DEF Preflighted
<1>2. PICK x : x = Members[g][i]
  OBVIOUS
<1>3. entry.patch = x /\ entry.already = AlreadyApplied(d, x)
  BY <1>1, <1>2
<1>4. ~ PatchConflicts(d, g, x, FALSE)
  BY <1>2, MembersFacts DEF GroupConflicts
<1>5. ASSUME ~ entry.already, Patch[x].op = "create_page" PROVE ~ Exists(d, Patch[x].path)
  BY <1>3, <1>4, <1>5 DEF PatchConflicts, CreateConflicts
<1>6. ASSUME ~ entry.already, Patch[x].op = "update_page"
      PROVE  Exists(d, Patch[x].path) /\ State(d, Patch[x].path) = base[x]
  <2>1. ~ ChangeConflicts(d, g, x, FALSE)
    BY <1>3, <1>4, <1>6 DEF PatchConflicts
  <2> QED BY <2>1 DEF ChangeConflicts, BaseMatches
<1> QED BY <1>3, <1>5, <1>6 DEF Fresh

(* Every step keeps OpenFresh: what a transaction writes leaves the bases  *)
(* of the rest alone.                                                      *)
LEMMA OpenFreshStep ==
  ASSUME Shape, InProgress, Known, [Next]_vars, DatabaseStep, OpenFresh
  PROVE  OpenFresh'
<1>1. CASE LeavesDatabase
  <2>1. /\ db' = db /\ work' = work /\ lock' = lock /\ todo' = todo
        /\ lock \in Workers => worker'[lock] = worker[lock]
    BY <1>1 DEF LeavesDatabase
  <2>2. ASSUME lock \in Workers, NEW i \in 1 .. Len(todo), Fresh(db, base, todo[i])
        PROVE  Fresh(db, base', todo[i])
    <3>1. PICK g \in Groups, k \in Nat : g = Head(worker[lock].groups) /\ Progress(g, k)
      BY <2>2, ProgressFacts
    <3>2. Len(Members[g]) \in Nat
      BY MembersFacts
    <3>3. k + i \in 1 .. Len(Members[g]) /\ todo[i].patch = Members[g][k + i]
      BY <2>2, <3>1, <3>2 DEF Progress
    <3>4. PICK x : x = todo[i].patch
      OBVIOUS
    <3>5. x \in Patches /\ x \in PatchesOf(Head(worker[lock].groups))
      BY <3>1, <3>3, <3>4, MembersFacts
    <3>6. InReceivedRuns(x)
      BY <2>2, <3>5, AuthorsReceived
    <3>7. base'[x] = base[x]
      BY <3>5, <3>6, BaseIsFixed
    <3> QED BY <2>2, <3>4, <3>7 DEF Fresh
  <2> QED BY <2>1, <2>2 DEF OpenFresh
<1>2. CASE Begun
  <2>1. PICK w \in Workers, g \in Groups :
          /\ lock = Free /\ lock' = w /\ db' = db /\ work' = work /\ UNCHANGED manifestVars
          /\ todo' = Preflighted(db, g)
          /\ ~ worker'[w].force => ~ GroupConflicts(db, g, FALSE)
    BY <1>2 DEF Begun
  <2>2. work' = db' /\ base' = base
    BY <2>1, ShapeFacts DEF manifestVars
  <2>3. \A p \in Paths : OneMore(db', work', p)
    BY <2>2 DEF OneMore
  <2>4. ASSUME ~ worker'[lock'].force, NEW i \in 1 .. Len(todo')
        PROVE  Fresh(db', base', todo'[i])
    <3>1. Len(todo') = Len(Members[g])
      BY <2>1, PreflightedIsSeq
    <3>2. PICK entry : entry = Preflighted(db, g)[i]
      OBVIOUS
    <3>3. Fresh(db, base, entry)
      BY <2>1, <2>4, <3>1, <3>2, BegunFresh
    <3> QED BY <2>1, <2>2, <3>2, <3>3
  <2> QED BY <2>3, <2>4 DEF OpenFresh
<1>3. CASE PatchDone
  <2>1. /\ lock \in Workers /\ db' = db /\ base' = base /\ lock' = lock /\ worker' = worker
        /\ work \in Database /\ todo' = Tail(todo)
    BY <1>3, PatchBasis DEF manifestVars
  <2>2. SUFFICES ASSUME ~ worker[lock].force
                 PROVE  /\ \A p \in Paths : OneMore(db, work', p)
                        /\ \A i \in 1 .. Len(todo') : Fresh(db, base, todo'[i])
    BY <2>1 DEF OpenFresh
  <2>3. /\ \A p \in Paths : OneMore(db, work, p)
        /\ \A i \in 1 .. Len(todo) : Fresh(db, base, todo[i])
    BY <2>1, <2>2 DEF OpenFresh
  <2>4. ASSUME NEW i \in 1 .. Len(todo') PROVE Fresh(db, base, todo'[i])
    <3>1. todo # <<>>
      BY <1>3, PatchDoneFacts
    <3>2. i + 1 \in 1 .. Len(todo) /\ todo'[i] = todo[i + 1]
      <4> DEFINE T == [patch : Patches, already : BOOLEAN]
      <4>1. todo \in Seq(T)
        BY DEF Shape, TypeOK
      <4> HIDE DEF T
      <4>2. Len(todo') = Len(todo) - 1 /\ Len(todo) \in Nat /\ \A n \in 1 .. Len(todo') : todo'[n] = todo[n + 1]
        BY <2>1, <3>1, <4>1, HeadTailProperties
      <4> QED BY <2>4, <4>2
    <3> QED BY <2>3, <3>2
  <2>5. PICK x \in Patches :
          \/ work'.versions = work.versions
          \/ /\ Exists(work, Patch[x].path) => Content(work, Patch[x].path) # Patch[x].content
             /\ Longer(work.versions, Patch[x].path, [content |-> Patch[x].content, by |-> x],
                       work'.versions)
             /\ work.versions[Patch[x].path] = db.versions[Patch[x].path]
    BY <1>3, <2>2, PatchBasis
  <2>6. PICK e, v, q : e = work' /\ v = [content |-> Patch[x].content, by |-> x] /\ q = Patch[x].path
    OBVIOUS
  <2>7. ASSUME NEW p \in Paths PROVE OneMore(db, e, p)
    <3>1. OneMore(db, work, p)
      BY <2>3
    <3>2. CASE e.versions[p] = work.versions[p]
      BY <3>1, <3>2 DEF OneMore, Content, Number
    <3>3. CASE e.versions[p] # work.versions[p]
      <4>1. /\ Exists(work, q) => Content(work, q) # v.content
            /\ Longer(work.versions, q, v, e.versions) /\ work.versions[q] = db.versions[q]
        BY <2>5, <2>6, <3>3
      <4>2. p = q
        BY <3>3, <4>1 DEF Longer
      <4>3. Len(e.versions[p]) = Len(db.versions[p]) + 1 /\ e.versions[p][Len(db.versions[p]) + 1] = v
        BY <4>1, <4>2 DEF Longer
      <4>4. Content(e, p) = v.content
        BY <4>3 DEF Content, Number
      <4>5. Exists(db, p) => Content(db, p) # v.content
        BY <4>1, <4>2 DEF Exists, Content, Number
      <4> QED BY <4>3, <4>4, <4>5 DEF OneMore
    <3> QED BY <3>2, <3>3
  <2> QED BY <2>4, <2>6, <2>7
<1>4. lock' = Free \/ LeavesDatabase \/ Begun \/ PatchDone
  BY DEF DatabaseStep, RolledBack, PageWritten, BooksKept, Declined, GroupDone, Committed
<1>5. CASE lock' = Free
  BY <1>5, WorkerAssumption DEF OpenFresh
<1> QED BY <1>1, <1>2, <1>3, <1>4, <1>5

(* The three hold initially. *)
LEMMA ExactInit == Init => ExactHistory /\ OpenExact /\ OpenFresh
<1> SUFFICES ASSUME Init PROVE ExactHistory /\ OpenExact /\ OpenFresh
  OBVIOUS
<1>1. lock = Free /\ work = db
  BY InitFacts
<1>2. OpenExact /\ OpenFresh
  BY <1>1, WorkerAssumption DEF OpenExact, OpenFresh
<1>3. Traced(db) /\ db.receipt = [x \in Patches |-> "none"]
  BY TracedInit, InitFacts
<1>4. ASSUME NEW x \in Patches PROVE Exact(db, base, x)
  BY <1>3, PageAssumption DEF Traced, Exact
<1> QED BY <1>2, <1>4 DEF ExactHistory

(* A patch that was not accepted by force wrote its version directly on    *)
(* top of the version the curator had read (automation and operators may   *)
(* write in between, write_page_in_connection refuses a moved base).       *)
THEOREM WrittenOnTheirBase == Spec => []ExactBase
<1> DEFINE I == /\ Shape /\ InProgress /\ Known /\ Traced(db) /\ Traced(work)
                /\ ExactHistory /\ OpenExact /\ OpenFresh
<1>1. Init => I
  BY ShapeInit, KnownInit, TracedInit, ExactInit
<1>2. I /\ [Next]_vars => I'
  <2>1. SUFFICES ASSUME I, [Next]_vars PROVE I'
    OBVIOUS
  <2>2. DatabaseStep
    BY <2>1, TodoIsOpen, StepKinds
  <2>3. Shape' /\ InProgress'
    BY <2>1, ShapeStep
  <2>4. Known'
    BY <2>1, <2>2, KnownStep
  <2>5. Traced(db)' /\ Traced(work)'
    BY <2>1, <2>2, TracedStep
  <2>6. ExactHistory'
    BY <2>1, <2>2, ExactHistoryStep
  <2>7. OpenExact' 
    BY <2>1, <2>2, OpenExactStep
  <2>8. OpenFresh'
    BY <2>1, <2>2, OpenFreshStep
  <2> QED BY <2>3, <2>4, <2>5, <2>6, <2>7, <2>8
<1>3. I => ExactBase
  <2>1. SUFFICES ASSUME ExactHistory, NEW x \in Patches, NEW pn \in VersionsBy(x)
                 PROVE  \/ \E g \in Groups : x \in PatchesOf(g) /\ db.conflict[g] = "accept_remote"
                        \/ Patch[x].op = "create_page" /\ pn[2] = 1
                        \/ /\ pn[2] = base[x].number + 1
                           /\ db.versions[pn[1]][pn[2] - 1].content = base[x].content
    BY DEF ExactBase
  <2>2. pn[1] \in Paths /\ pn[2] \in 1 .. Len(db.versions[pn[1]]) /\ db.versions[pn[1]][pn[2]].by = x
    BY <2>1 DEF VersionsBy, AllVersions, Number
  <2>3. ForcedIn(db, x) \/ Exact(db, base, x)
    BY <2>1 DEF ExactHistory
  <2> QED BY <2>2, <2>3 DEF ForcedIn, Exact
<1> HIDE DEF I
<1> QED BY <1>1, <1>2, <1>3, PTL DEF Spec
=============================================================================
