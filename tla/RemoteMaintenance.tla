--------------------------- MODULE RemoteMaintenance ---------------------------
(***************************************************************************)
(* The weekly remote job: it reads the archive of each replica in batches  *)
(* up to a fixed watermark, asks the model, publishes a manifest and       *)
(* records the run (wikibricks_remote/maintenance.py, proposals.py,        *)
(* main.py).                                                               *)
(*                                                                         *)
(* Events keep arriving.  The job's reads, its publication and its record  *)
(* are separate transactions, and it can fail or be killed between them.   *)
(* The bundle runs one job at a time (max_concurrent_runs: 1).             *)
(*                                                                         *)
(* A run's id is a digest of its request, so the request stands for it; a  *)
(* manifest's hash stands for its patches.  A group is a set of proposals, *)
(* an answer of the model a set of groups.                                 *)
(***************************************************************************)
EXTENDS RemoteSearch

CONSTANTS
  Answers,        \* what the model may answer: a set of sets of groups
  MaxReplicas,    \* max_replicas_per_run
  MaxBatches,     \* max_batches_per_replica
  MaxEvents,      \* max_events_per_replica
  MaxPages,       \* max_current_pages
  MaxFailures     \* bound: runs that fail or are killed

Proposal ==
  [op : {"create_page", "update_page"}, path : Paths, target : {NoPath}]
  \cup [op : {"supersede_page"}, path : Paths, target : Paths]

ASSUME AnswerAssumption == Answers \subseteq SUBSET (SUBSET Proposal)

ASSUME LimitAssumption ==
  {MaxReplicas, MaxBatches, MaxEvents, MaxPages} \subseteq Nat \ {0} /\ MaxFailures \in Nat

VARIABLES
  manifests,      \* curation_runs with their patches
  records,        \* remote_maintenance_runs
  job,            \* the local variables of run_maintenance
  conflict,       \* a run met another run with its id or its watermark
  failures        \* runs that failed so far

vars == <<archiveVars, searchVars, manifests, records, job, conflict, failures>>

Places == Nat \ {0}
Patch  == [proposal : Proposal, base : Nat, group : SUBSET Proposal]   \* base 0: none

Request == [replica : Replicas, after : Nat, watermark : Nat,
            evidence : SUBSET Places, pages : SUBSET Places]
Run     == [request : Request, patches : SUBSET Patch]

JobState ==
  [pc       : {"idle", "read", "project", "embed", "select", "ask", "publish", "record"},
   todo     : Seq([replica : Replicas, after : Nat, through : Nat]),
   batches  : Nat,            \* done for the current replica
   started  : BOOLEAN,        \* some batch is done
   watermark : Nat,
   evidence : SUBSET Places,
   pages    : SUBSET Places,
   patches  : SUBSET Patch]

Idle == [pc |-> "idle", todo |-> <<>>, batches |-> 0, started |-> FALSE,
         watermark |-> 0, evidence |-> {}, pages |-> {}, patches |-> {}]

TypeOK ==
  /\ stream \in Streams /\ extensions \in BOOLEAN /\ conflict \in BOOLEAN
  /\ \A r \in Replicas : arrived[r] \in 0 .. Len(stream[r])
  /\ embedded \subseteq docs /\ docs \subseteq Replicas \X Places
  /\ manifests \subseteq Run /\ records \subseteq Run
  /\ job \in JobState
  /\ job.pc # "idle" => /\ job.todo # <<>> /\ job.batches < MaxBatches
                         /\ Head(job.todo).after < Head(job.todo).through
  /\ failures \in 0 .. MaxFailures

-----------------------------------------------------------------------------
(* WINDOWS *)

(* Mistaken variant: only runs that were recorded count. *)
LastRecorded(r) ==
  Max({0} \cup {x.request.watermark : x \in {y \in records : y.request.replica = r}})

(* A manifest counts from its publication, before its run is recorded. *)
LastWatermark(r) ==
  Max({0} \cup {x.request.watermark : x \in {y \in manifests \cup records : y.request.replica = r}})

Available(r) == Max({0} \cup {At(r, i).seq : i \in Arrived(r)})

(* Messages, and the newest version of each page up to the end of the run. *)
Relevant(r, after, through) ==
  LET inside == {i \in Arrived(r) : after < At(r, i).seq /\ At(r, i).seq <= through} IN
    {i \in inside : At(r, i).kind = "message"}
    \cup {i \in inside : At(r, i).kind = "page" /\ ~\E j \in PagesUpTo(r, through) :
            At(r, j).path = At(r, i).path /\ At(r, j).seq > At(r, i).seq}

Rows(r, after, through) ==
  LET rows == InOrder({r} \X Relevant(r, after, through), MaxEvents) IN
    [k \in DOMAIN rows |-> rows[k][2]]

(* An item larger than a batch is cut to an excerpt of half the budget. *)
Cost(r, i) == IF Cut(r, i) THEN MaxInput \div 2 ELSE At(r, i).size
CostOf(r, rows, n) == FoldFunctionOnSet(LAMBDA i, sum : sum + Cost(r, i), 0, rows, 1 .. n)

(* Only a first item may be cut, a later one waits for the next batch. *)
Fitting(r, rows) ==
  Max({0} \cup {n \in 1 .. Len(rows) :
        \A k \in 2 .. n : ~Cut(r, rows[k]) /\ CostOf(r, rows, k) <= MaxInput})

(* Mistaken variant: the watermark of a batch that was full by size. *)
ReachedByCount(r, rows, n, through) ==
  IF Len(rows) = MaxEvents THEN At(r, Last(rows)).seq ELSE through

Reached(r, rows, n, through) ==
  IF n < Len(rows) THEN At(r, rows[n]).seq
  ELSE IF Len(rows) = MaxEvents THEN At(r, Last(rows)).seq
  ELSE through

-----------------------------------------------------------------------------
(* THE JOB *)

Work    == Head(job.todo)
Replica == Work.replica

(* An event reaches the archive (ArchiveSync). *)
Arrive(r) ==
  /\ arrived[r] < Len(stream[r])
  /\ arrived' = [arrived EXCEPT ![r] = @ + 1]
  /\ UNCHANGED <<stream, extensions, searchVars, manifests, records, job, conflict, failures>>

(* _candidate_replicas: the first that have something, in the order of id. *)
Candidates ==
  LET all == {r \in Replicas : Available(r) > LastWatermark(r)} IN
    [k \in 1 .. Min({MaxReplicas, Cardinality(all)}) |->
       CHOOSE r \in all : Cardinality({s \in all : s < r}) = k - 1]

Start ==
  /\ job.pc = "idle"
  /\ Candidates # <<>>
  /\ job' = [Idle EXCEPT !.pc = "read",
               !.todo = [k \in 1 .. Len(Candidates) |->
                  [replica |-> Candidates[k], after |-> LastWatermark(Candidates[k]),
                   through |-> Available(Candidates[k])]]]
  /\ UNCHANGED <<archiveVars, searchVars, manifests, records, conflict, failures>>

(* One connection reads the evidence and the pages of the fallback.  (\E   *)
(* over one value binds it, so that TLC evaluates it once.)                 *)
ReadBatch ==
  /\ job.pc = "read"
  /\ \E rows \in {Rows(Replica, Work.after, Work.through)} : \E n \in {Fitting(Replica, rows)} :
       LET w == Reached(Replica, rows, n, Work.through) IN
         job' = [job EXCEPT !.pc = IF extensions THEN "project" ELSE "ask",
                            !.watermark = w,
                            !.evidence = {rows[k] : k \in 1 .. n},
                            !.pages = FirstPaths(Replica, CurrentPages(Replica, w), MaxPages)]
  /\ UNCHANGED <<archiveVars, searchVars, manifests, records, conflict, failures>>

(* ON CONFLICT (archive_event_id, chunk_index) DO NOTHING. *)
Project ==
  /\ job.pc = "project"
  /\ ~ProjectionFails(Replica, job.evidence)
  /\ docs' = docs \cup Projected(Replica, job.watermark, job.evidence)
  /\ job' = [job EXCEPT !.pc = "embed"]
  /\ UNCHANGED <<archiveVars, embedded, manifests, records, conflict, failures>>

ProjectRaises ==
  /\ job.pc = "project"
  /\ ProjectionFails(Replica, job.evidence)
  /\ job' = Idle
  /\ UNCHANGED <<archiveVars, searchVars, manifests, records, conflict, failures>>

Embed ==
  /\ job.pc = "embed"
  /\ embedded' = embedded \cup Range(Missing)
  /\ job' = [job EXCEPT !.pc = "select"]
  /\ UNCHANGED <<archiveVars, docs, manifests, records, conflict, failures>>

(* Embeddings are written in batches, of which a failed call leaves some. *)
EmbedFails ==
  /\ job.pc = "embed"
  /\ failures < MaxFailures /\ failures' = failures + 1
  /\ \E n \in 0 .. Len(Missing) - 1 : embedded' = embedded \cup {Missing[k] : k \in 1 .. n}
  /\ job' = Idle
  /\ UNCHANGED <<archiveVars, docs, manifests, records, conflict>>

Select ==
  /\ job.pc = "select"
  /\ \E paths \in Selections(Replica, job.watermark, job.evidence) :
       job' = [job EXCEPT !.pc = "ask", !.pages = PagesAt(Replica, job.watermark, paths)]
  /\ UNCHANGED <<archiveVars, searchVars, manifests, records, conflict, failures>>

(* build_patches accepts a proposal that agrees with the pages it was      *)
(* shown.                                                                  *)
Shown == {At(Replica, i).path : i \in job.pages}
Accepted(p) ==
  CASE p.op = "create_page" -> p.path \notin Shown
    [] p.op = "update_page" -> p.path \in Shown
    [] OTHER                -> {p.path, p.target} \subseteq Shown

(* Mistaken variant: only the bad proposals of a group are dropped. *)
KeptProposals(g) == {p \in g : Accepted(p)}

(* drop_invalid_groups: one bad proposal removes its group, not the run. *)
KeptOf(g) == IF \A p \in g : Accepted(p) THEN g ELSE {}

BaseOf(p) == IF p.op = "create_page" THEN 0
             ELSE CHOOSE i \in job.pages : At(Replica, i).path = p.path

PatchesFor(answer) ==
  UNION {{[proposal |-> p, base |-> BaseOf(p), group |-> g] : p \in KeptOf(g)} : g \in answer}

(* The model is asked when there is evidence, a second time when the first *)
(* answer is of no use.                                                    *)
Ask ==
  /\ job.pc = "ask"
  /\ \E answer \in IF job.evidence = {} THEN {{}} ELSE Answers :
       job' = [job EXCEPT !.patches = PatchesFor(answer),
                          !.pc = IF PatchesFor(answer) = {} THEN "record" ELSE "publish"]
  /\ UNCHANGED <<archiveVars, searchVars, manifests, records, conflict, failures>>

RequestOf == [replica |-> Replica, after |-> Work.after, watermark |-> job.watermark,
              evidence |-> job.evidence, pages |-> job.pages]
RunOf == [request |-> RequestOf, patches |-> job.patches]

(* publish_manifest: a stored run with this id must have this hash. *)
Publish ==
  /\ job.pc = "publish"
  /\ LET clash == \E m \in manifests : m.request = RequestOf /\ m.patches # job.patches IN
       /\ manifests' = IF clash THEN manifests ELSE manifests \cup {RunOf}
       /\ conflict' = (conflict \/ clash)
       /\ job' = IF clash THEN Idle ELSE [job EXCEPT !.pc = "record"]
  /\ UNCHANGED <<archiveVars, searchVars, records, failures>>

(* Mistaken variant: a run without proposals leaves no record. *)
RecordedIfPublished == IF job.patches = {} THEN {} ELSE {RunOf}

Recorded == {RunOf}

(* Mistaken variant: a batch more when the end is reached. *)
MoreAtEnd == job.watermark <= Work.through /\ job.batches + 1 < MaxBatches

More == job.watermark < Work.through /\ job.batches + 1 < MaxBatches

(* The next batch of this replica, or the next replica. *)
NextWork ==
  IF More
  THEN [Idle EXCEPT !.pc = "read", !.started = TRUE, !.batches = job.batches + 1,
                    !.todo = <<[Work EXCEPT !.after = job.watermark]>> \o Tail(job.todo)]
  ELSE IF Len(job.todo) > 1
  THEN [Idle EXCEPT !.pc = "read", !.started = TRUE, !.todo = Tail(job.todo)]
  ELSE Idle

(* UNIQUE (replica_id, input_watermark), and the stored row must agree. *)
Record ==
  /\ job.pc = "record"
  /\ LET clash == \E x \in records : /\ x.request.replica = Replica
                                     /\ x.request.watermark = job.watermark
                                     /\ x # RunOf IN
       /\ records' = IF clash THEN records ELSE records \cup Recorded
       /\ conflict' = (conflict \/ clash)
       /\ job' = IF clash THEN Idle ELSE NextWork
  /\ UNCHANGED <<archiveVars, searchVars, manifests, failures>>

(* No batch starts after max_run_seconds; the first one is in time. *)
Deadline ==
  /\ job.pc = "read" /\ job.started
  /\ job' = Idle
  /\ UNCHANGED <<archiveVars, searchVars, manifests, records, conflict, failures>>

(* The job is killed, loses its connection, or gets two useless answers. *)
FailRun ==
  /\ job.pc # "idle"
  /\ failures < MaxFailures /\ failures' = failures + 1
  /\ job' = Idle
  /\ UNCHANGED <<archiveVars, searchVars, manifests, records, conflict>>

-----------------------------------------------------------------------------
Init ==
  /\ stream \in Streams
  /\ arrived = [r \in Replicas |-> 0]
  /\ extensions \in BOOLEAN
  /\ docs = {} /\ embedded = {}
  /\ manifests = {} /\ records = {}
  /\ job = Idle
  /\ conflict = FALSE /\ failures = 0

JobStep == \/ Start \/ ReadBatch \/ Project \/ ProjectRaises \/ Embed
           \/ Select \/ Ask \/ Publish \/ Record

Next ==
  \/ \E r \in Replicas : Arrive(r)
  \/ JobStep
  \/ Deadline \/ EmbedFails \/ FailRun

(* The job is scheduled every week. *)
Spec     == Init /\ [][Next]_vars
FairSpec == Spec /\ WF_vars(JobStep)

-----------------------------------------------------------------------------
(* PROPERTIES *)

(* Events of a restored replica, which arrive with sequences that others   *)
(* had before them.                                                        *)
Late(r) == {i \in Arrived(r) : \E j \in 1 .. i - 1 : At(r, j).seq >= At(r, i).seq}

Runs(r)     == {x \in manifests \cup records : x.request.replica = r}
Analyzed(r) == UNION {x.request.evidence : x \in Runs(r)}

(* What the watermark has passed was shown to the model: every message,    *)
(* and the newest version of every page, through full batches, fixed ends, *)
(* crashes and deadlines.  Late events can be passed over.                 *)
EvidenceCovered ==
  \A r \in Replicas : \A i \in Arrived(r) \ Late(r) :
    (At(r, i).seq <= LastWatermark(r) /\ i \in Relevant(r, 0, Available(r)))
      => i \in Analyzed(r)

(* What one run has dealt with no later run analyzes again, also after a   *)
(* crash between publication and record; so a run never meets another with *)
(* its id or its watermark, although a model that is asked twice answers   *)
(* differently.                                                            *)
AnalyzedOnce ==
  /\ ~conflict
  /\ \A r \in Replicas : \A x, y \in Runs(r) :
       x.request # y.request => x.request.evidence \cap y.request.evidence = {}

(* A patch is based on the version its page had at the manifest's          *)
(* watermark, whether search or the fallback found the page, and however   *)
(* old the search document was.                                            *)
BasesAtWatermark ==
  \A m \in manifests : \A patch \in m.patches :
    LET r == m.request.replica
        p == patch.proposal.path IN
      \/ patch.base = 0
      \/ \E i \in Late(r) : At(r, i).path = p
      \/ PagesAt(r, m.request.watermark, {p}) = {patch.base}

(* A group is published as a whole, so a merge is never left half done. *)
GroupsWhole ==
  \A m \in manifests : \A patch \in m.patches :
    patch.group \subseteq {other.proposal : other \in m.patches}

AllPassed == \A r \in Replicas : LastWatermark(r) >= Available(r)

(* Where no page version is larger than a whole batch, or search is off,   *)
(* everything in the archive is passed in the end, for every replica,      *)
(* whatever the limits of one run.                                         *)
Projectable ==
  extensions => \A r \in Replicas : ~ProjectionFails(r, 1 .. Len(stream[r]))
CaughtUp == Projectable => []<>AllPassed

(* README.md:327, "Each run reads the new messages and changed pages":     *)
(* no page, however large, keeps the job from the evidence behind it.      *)
NewEvidenceRead == []<>AllPassed
=============================================================================
