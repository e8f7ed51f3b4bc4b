---------------------------- MODULE CurationApply ----------------------------
(***************************************************************************)
(* The local side of curation: manifests arrive in the inbox, background   *)
(* workers and operators apply their patch groups, conflicts are decided,  *)
(* while agents keep writing pages (curation/application.py, planning.py,  *)
(* repository.py, automation.py:apply_pending_runs, write_page).           *)
(*                                                                         *)
(* A write transaction holds the store's write lock from BEGIN IMMEDIATE   *)
(* to commit.  The committed database is `db`; the transaction in progress *)
(* works on its own copy `work`, one action per patch, and either commits  *)
(* (db' = work) or is rolled back by an exception or a stop.  Readers see  *)
(* only db.  Whatever a worker keeps between two transactions (the list of *)
(* pending runs, the conflicts of a run) is in worker[w] and may be stale. *)
(*                                                                         *)
(* Abstractions.  A page is its path.  A version is its content hash and   *)
(* the patch that wrote it; its id is its path and number.  Title, tags,   *)
(* search chunks and the operations log are left out, link types are one   *)
(* type, evidence and reasons are not modelled.                            *)
(***************************************************************************)
EXTENDS Integers, Sequences, FiniteSets, Functions

CONSTANTS
  Paths,          \* page paths
  NoPath,         \* no page (null)
  Contents,       \* content hashes
  InitialPages,   \* pages that exist at the start
  InitialContent, \* what they contain
  Agent,          \* author of versions no patch wrote
  Patches,        \* patch ids
  Patch,          \* [Patches -> the immutable patch]
  Groups,         \* group ids
  Members,        \* [Groups -> sequence of patch ids, in position order]
  RunOrder,       \* the runs, in the order pending runs are applied
  Plan,           \* [run -> sequence of its groups]
  Workers,        \* processes that apply runs
  Free,           \* the value of lock when nobody holds it
  AutoWorkers,    \* workers that run apply_pending_runs
  Background,     \* the one the background loop restarts
  ApplyPolicy,    \* sync_apply_policy of apply_pending_runs
  MaxRuns,        \* bound: manifests published
  MaxWrites,      \* bound: page and link writes by agents
  MaxStops        \* bound: workers that stop in the middle

Runs == Range(RunOrder)

CleanupOperations == {"retarget_links", "add_alias", "supersede_page"}
TargetOperations  == CleanupOperations \cup {"add_link"}
Operations        == TargetOperations \cup {"create_page", "update_page"}

PatchRecord == [op : Operations, path : Paths, target : Paths \cup {NoPath},
                content : Contents, risk : {"low", "medium", "high"}]

PatchesOf(g) == Range(Members[g])
RunOf(g)     == CHOOSE r \in Runs : g \in Range(Plan[r])

(* What the protocol checks of a manifest (validate_manifest), and that a  *)
(* stored patch belongs to one run (patch_id is the primary key).          *)
ValidManifests ==
  /\ Patch \in [Patches -> PatchRecord]
  /\ Members \in [Groups -> Seq(Patches)]
  /\ \A g \in Groups : Members[g] # <<>>
  /\ \A g, h \in Groups : \A i \in 1 .. Len(Members[g]), j \in 1 .. Len(Members[h]) :
       Members[g][i] = Members[h][j] => g = h /\ i = j
  /\ Plan \in [Runs -> Seq(Groups)]
  /\ RunOrder \in Seq(Runs)
  /\ \A r \in Runs : Plan[r] # <<>>
  /\ \A g \in Groups : \E r \in Runs : g \in Range(Plan[r])
  /\ \A r, s \in Runs : Range(Plan[r]) \cap Range(Plan[s]) # {} => r = s
  /\ \A x \in Patches :
       /\ Patch[x].op \in CleanupOperations => Patch[x].risk = "high"
       /\ (Patch[x].op \in TargetOperations) = (Patch[x].target # NoPath)

ASSUME ManifestAssumption == ValidManifests

ASSUME PageAssumption ==
  /\ InitialPages \subseteq Paths /\ InitialContent \in Contents
  /\ NoPath \notin Paths /\ Agent \notin Patches

ASSUME WorkerAssumption ==
  /\ AutoWorkers \subseteq Workers /\ Background \in AutoWorkers /\ Free \notin Workers
  /\ ApplyPolicy \in {"safe", "all"}

ASSUME ApplyBoundAssumption ==
  MaxRuns \in Nat /\ MaxWrites \in Nat /\ MaxStops \in Nat

VARIABLES
  db,             \* the committed local database
  inbox,          \* [Runs -> "none" | "published" | "received"]
  base,           \* the page version each patch was made for
  seenTarget,     \* history: the target's version at that time (not in a patch)
  lock,           \* who holds the write lock
  work,           \* the database as the open transaction sees it
  todo,           \* patches of the open transaction still to apply
  worker,         \* what each worker remembers
  writes,         \* agent writes so far
  stops           \* stops so far

vars == <<db, inbox, base, seenTarget, lock, work, todo, worker, writes, stops>>
manifestVars == <<inbox, base, seenTarget>>
lockVars == <<lock, work, todo>>

Version   == [content : Contents, by : Patches \cup {Agent}]
Decisions == {"applied", "already_applied", "kept_local", "merged"}
BaseState == [number : Nat, content : Contents]

Database ==
  [versions  : [Paths -> Seq(Version)],
   status    : [Paths -> {"active", "superseded"}],
   canonical : [Paths -> Paths \cup {NoPath}],       \* superseded_by_page_id
   links     : SUBSET (Paths \X Paths),
   alias     : [Paths -> Paths \cup {NoPath}],       \* page_aliases
   receipt   : [Patches -> Decisions \cup {"none"}], \* curation_receipts
   conflict  : [Groups -> {"none", "pending", "keep_local", "merged", "accept_remote"}],
   applied   : SUBSET Runs,                          \* applied_at is set
   outbox    : SUBSET ([kind : {"page_version"}, path : Paths, number : Nat]
                       \cup [kind : {"curation_receipt"}, patch : Patches])]

(* Idle, applying the groups of a run, inside a transaction, or resolving  *)
(* the conflicts that the run just reported.                               *)
WorkerState ==
  [pc        : {"idle", "groups", "writing", "resolving"},
   auto      : BOOLEAN,             \* apply_pending_runs, not one apply_run
   policy    : {"safe", "all"},
   runs      : SUBSET Runs,         \* pending runs as read, the first in progress
   groups    : Seq(Groups),         \* groups of the run still to apply
   conflicts : Seq(Groups),         \* conflicts to resolve as keep_local
   force     : BOOLEAN]             \* accept_remote

IdleWorker == [pc |-> "idle", auto |-> FALSE, policy |-> "safe", runs |-> {},
               groups |-> <<>>, conflicts |-> <<>>, force |-> FALSE]

-----------------------------------------------------------------------------
(* PAGES *)

Exists(d, p)  == d.versions[p] # <<>>
Active(d, p)  == Exists(d, p) /\ d.status[p] = "active"
Number(d, p)  == Len(d.versions[p])
Content(d, p) == d.versions[p][Number(d, p)].content
State(d, p)   == [number |-> Number(d, p), content |-> Content(d, p)]

(* read_page: the active page, else the alias target if it is active. *)
ReadPath(d, p) ==
  IF Active(d, p) THEN p
  ELSE IF d.alias[p] # NoPath /\ Active(d, d.alias[p]) THEN d.alias[p]
  ELSE NoPath

(* The end of write_page_in_connection: an identical content writes        *)
(* nothing, anything else a new version and its outbox row.                *)
WriteContent(d, p, c, author) ==
  IF Exists(d, p) /\ Content(d, p) = c THEN d
  ELSE [d EXCEPT
          !.versions[p] = Append(@, [content |-> c, by |-> author]),
          !.outbox = @ \cup {[kind |-> "page_version", path |-> p,
                              number |-> Number(d, p) + 1]}]

(* insert_receipt, for one patch: the first receipt stays. *)
WithReceipt(d, x, decision) ==
  IF d.receipt[x] # "none" THEN d
  ELSE [d EXCEPT !.receipt[x] = decision,
                 !.outbox = @ \cup {[kind |-> "curation_receipt", patch |-> x]}]

(* Mistaken variants: a later decision replaces the receipt; a receipt is  *)
(* not queued for the archive.                                             *)
ReceiptsReplaced(d, xs, decision) ==
  [d EXCEPT !.receipt = [x \in Patches |-> IF x \in xs THEN decision ELSE @[x]],
            !.outbox  = @ \cup {[kind |-> "curation_receipt", patch |-> x] : x \in xs}]
ReceiptsUnqueued(d, xs, decision) ==
  [d EXCEPT !.receipt =
     [x \in Patches |-> IF x \in xs /\ @[x] = "none" THEN decision ELSE @[x]]]

(* insert_receipt, for every patch of a group. *)
WithReceipts(d, xs, decision) ==
  LET new == {x \in xs : d.receipt[x] = "none"}
  IN  [d EXCEPT
         !.receipt = [x \in Patches |-> IF x \in new THEN decision ELSE @[x]],
         !.outbox  = @ \cup {[kind |-> "curation_receipt", patch |-> x] : x \in new}]

Decided(d, g)   == {x \in PatchesOf(g) : d.receipt[x] # "none"}
RunDone(d, r)   == \A g \in Range(Plan[r]) : Decided(d, g) = PatchesOf(g)

(* Mistaken variant: the run is applied when one group is. *)
MarkedEarly(d, r) == [d EXCEPT !.applied = @ \cup {r}]

(* mark_run_applied *)
Marked(d, r) == IF RunDone(d, r) THEN [d EXCEPT !.applied = @ \cup {r}] ELSE d

-----------------------------------------------------------------------------
(* PREFLIGHT: what a group would do to database d, before any change. *)

(* Mistaken variant: the base is compared by content only. *)
SameContent(d, x) == Content(d, Patch[x].path) = base[x].content

(* Version id and content hash of the base, as recorded in the patch. *)
BaseMatches(d, x) == State(d, Patch[x].path) = base[x]

(* Mistaken variant: a superseded page is accepted as a target. *)
TargetExists(d, x) == Patch[x].target # NoPath /\ Exists(d, Patch[x].target)

(* target_page *)
TargetActive(d, x) == Patch[x].target # NoPath /\ Active(d, Patch[x].target)

AlreadyApplied(d, x) ==
  LET p == Patch[x].path
      t == Patch[x].target
  IN  CASE Patch[x].op = "create_page" -> Active(d, p) /\ Content(d, p) = Patch[x].content
        [] Patch[x].op = "update_page" -> Exists(d, p) /\ Content(d, p) = Patch[x].content
        [] Patch[x].op = "add_link" ->
             Exists(d, p) /\ TargetActive(d, x) /\ <<p, t>> \in d.links
        [] Patch[x].op = "add_alias" -> TargetActive(d, x) /\ d.alias[p] = t
        [] Patch[x].op = "supersede_page" ->
             /\ Exists(d, p) /\ d.status[p] = "superseded"
             /\ TargetActive(d, x) /\ d.canonical[p] = t
        [] OTHER -> FALSE

(* The group itself supersedes the page that becomes an alias (the last    *)
(* supersede_page of the path counts).                                     *)
SupersededInGroup(g, x) ==
  \E i \in 1 .. Len(Members[g]) :
    LET y == Patch[Members[g][i]] IN
    /\ y.op = "supersede_page" /\ y.path = Patch[x].path /\ y.target = Patch[x].target
    /\ \A j \in i + 1 .. Len(Members[g]) :
         ~ (Patch[Members[g][j]].op = "supersede_page" /\ Patch[Members[g][j]].path = y.path)

CreateConflicts(d, x, force) ==
  LET p == Patch[x].path IN Exists(d, p) /\ ~ (force /\ Active(d, p))

ChangeConflicts(d, g, x, force) ==
  LET p  == Patch[x].path
      op == Patch[x].op
  IN  \/ ~ Exists(d, p)
      \/ op = "supersede_page" /\ d.status[p] = "superseded"
      \/ op = "add_alias" /\ d.alias[p] # NoPath
      \/ ~ force /\ ~ (Active(d, p) /\ BaseMatches(d, x))
      \/ op \in TargetOperations /\ ~ TargetActive(d, x)
      \/ op = "add_alias" /\ Active(d, p) /\ ~ SupersededInGroup(g, x)

PatchConflicts(d, g, x, force) ==
  /\ ~ AlreadyApplied(d, x)
  /\ IF Patch[x].op = "create_page"
     THEN CreateConflicts(d, x, force)
     ELSE ChangeConflicts(d, g, x, force)

GroupConflicts(d, g, force) == \E x \in PatchesOf(g) : PatchConflicts(d, g, x, force)

-----------------------------------------------------------------------------
(* APPLYING ONE PATCH to the copy d of the open transaction. *)

(* _apply_patch raises: the base check of write_page_in_connection, a page *)
(* that is not active, a source or target that has gone.                   *)
PatchFails(d, x, force) ==
  LET p == Patch[x].path IN
  CASE Patch[x].op = "create_page" ->
         Exists(d, p) /\ (~ force \/ ~ Active(d, p))
    [] Patch[x].op = "update_page" ->
         \/ ~ force /\ ~ (Exists(d, p) /\ Content(d, p) = base[x].content)
         \/ Exists(d, p) /\ ~ Active(d, p)
    [] OTHER -> ~ Exists(d, p) \/ ~ TargetActive(d, x)

(* _retarget_links: each link of the source is copied to the target unless *)
(* that would link the target to itself, then deleted.  With source =      *)
(* target the copies exist already and every link of the page is deleted.  *)
Retargeted(links, s, t) ==
  LET into == {e \in links : e[2] = s}
      mid  == (links \cup {<<e[1], t>> : e \in {f \in into : f[1] # t}}) \ into
      out  == {e \in mid : e[1] = s}
  IN  (mid \cup {<<t, e[2]>> : e \in {f \in out : f[2] \notin {s, t}}}) \ out

Effect(d, x) ==
  LET p == Patch[x].path
      t == Patch[x].target
  IN  CASE Patch[x].op \in {"create_page", "update_page"} ->
             WriteContent(d, p, Patch[x].content, x)
        [] Patch[x].op = "add_link" -> [d EXCEPT !.links = @ \cup {<<p, t>>}]
        [] Patch[x].op = "retarget_links" -> [d EXCEPT !.links = Retargeted(@, p, t)]
        [] Patch[x].op = "add_alias" ->
             [d EXCEPT !.alias[p] = IF @ = NoPath THEN t ELSE @]
        [] OTHER -> [d EXCEPT !.status[p] = "superseded", !.canonical[p] = t]

-----------------------------------------------------------------------------
Init ==
  /\ db = [versions  |-> [p \in Paths |-> IF p \in InitialPages
                            THEN <<[content |-> InitialContent, by |-> Agent]>> ELSE <<>>],
           status    |-> [p \in Paths |-> "active"],
           canonical |-> [p \in Paths |-> NoPath],
           links     |-> {},
           alias     |-> [p \in Paths |-> NoPath],
           receipt   |-> [x \in Patches |-> "none"],
           conflict  |-> [g \in Groups |-> "none"],
           applied   |-> {},
           outbox    |-> {[kind |-> "page_version", path |-> p, number |-> 1] : p \in InitialPages}]
  /\ inbox = [r \in Runs |-> "none"]
  /\ base = [x \in Patches |-> [number |-> 0, content |-> InitialContent]]
  /\ seenTarget = [x \in Patches |-> 0]
  /\ lock = Free /\ work = db /\ todo = <<>>
  /\ worker = [w \in Workers |-> IdleWorker]
  /\ writes = 0
  /\ stops = 0

(* Every write transaction that is not a group being applied is one step. *)
Commit(d) == lock = Free /\ db' = d /\ work' = d /\ UNCHANGED <<lock, todo>>

-----------------------------------------------------------------------------
(* AGENTS AND THE INBOX *)

(* write_page: refused for a superseded page.  A write of the current      *)
(* content changes nothing and is left out.                                *)
AgentWrite(p, c) ==
  /\ writes < MaxWrites
  /\ Exists(db, p) => Active(db, p) /\ Content(db, p) # c
  /\ Commit(WriteContent(db, p, c, Agent))
  /\ writes' = writes + 1
  /\ UNCHANGED <<manifestVars, worker, stops>>

(* commit_edges: any two existing pages, whatever their status. *)
AgentLink(p, q) ==
  /\ writes < MaxWrites
  /\ Exists(db, p) /\ Exists(db, q) /\ <<p, q>> \notin db.links
  /\ Commit([db EXCEPT !.links = @ \cup {<<p, q>>}])
  /\ writes' = writes + 1
  /\ UNCHANGED <<manifestVars, worker, stops>>

(* A curator reads the pages and publishes a manifest (build_patches): a   *)
(* create_page needs a free path, every other patch existing pages.        *)
Publish(r) ==
  LET xs == UNION {PatchesOf(g) : g \in Range(Plan[r])} IN
  /\ inbox[r] = "none"
  /\ Cardinality({s \in Runs : inbox[s] # "none"}) < MaxRuns
  /\ \A x \in xs : /\ (Patch[x].op = "create_page") = ~ Exists(db, Patch[x].path)
                   /\ Patch[x].target # NoPath => Exists(db, Patch[x].target)
  /\ inbox' = [inbox EXCEPT ![r] = "published"]
  /\ base' = [x \in Patches |-> IF x \in xs /\ Patch[x].op # "create_page"
                                THEN State(db, Patch[x].path) ELSE base[x]]
  /\ seenTarget' = [x \in Patches |-> IF x \in xs /\ Patch[x].target # NoPath
                                      THEN Number(db, Patch[x].target) ELSE seenTarget[x]]
  /\ UNCHANGED <<db, lockVars, worker, writes, stops>>

(* pull_manifests / store_manifest: pages may have changed meanwhile. *)
Receive(r) ==
  /\ lock = Free
  /\ inbox[r] = "published"
  /\ inbox' = [inbox EXCEPT ![r] = "received"]
  /\ UNCHANGED <<db, base, seenTarget, lockVars, worker, writes, stops>>

-----------------------------------------------------------------------------
(* WORKERS *)

(* The pending runs are applied in the order in which they were published. *)
FirstRun(runs) ==
  RunOrder[CHOOSE i \in DOMAIN RunOrder :
             RunOrder[i] \in runs /\ \A j \in 1 .. i - 1 : RunOrder[j] \notin runs]

(* What a worker does next: another group, then the conflicts this run     *)
(* reported, then the next pending run.                                    *)
Advance(me) ==
  LET rest == {r \in me.runs : r # FirstRun(me.runs)} IN
  CASE me.groups # <<>> -> [me EXCEPT !.pc = "groups"]
    [] me.groups = <<>> /\ me.conflicts # <<>> -> [me EXCEPT !.pc = "resolving"]
    [] me.groups = <<>> /\ me.conflicts = <<>> /\ rest # {} ->
         [me EXCEPT !.pc = "groups", !.runs = rest, !.groups = Plan[FirstRun(rest)]]
    [] OTHER -> IdleWorker

NextGroup(me) == Advance([me EXCEPT !.groups = Tail(me.groups)])
Become(w, me) == worker' = [worker EXCEPT ![w] = me]

Pending(r) == inbox[r] = "received" /\ r \notin db.applied

(* apply_pending_runs reads the list of pending runs once. *)
StartCycle(w) ==
  /\ w \in AutoWorkers
  /\ worker[w].pc = "idle"
  /\ \E r \in Runs : Pending(r)
  /\ LET runs == {r \in Runs : Pending(r)}
     IN  Become(w, [IdleWorker EXCEPT !.pc = "groups", !.auto = TRUE, !.policy = ApplyPolicy,
                                      !.runs = runs, !.groups = Plan[FirstRun(runs)]])
  /\ UNCHANGED <<db, manifestVars, lockVars, writes, stops>>

(* An operator applies one run, reviewed (policy all) or not. *)
OperatorApply(w, r, policy) ==
  /\ w \notin AutoWorkers
  /\ worker[w].pc = "idle"
  /\ inbox[r] = "received"
  /\ Become(w, [IdleWorker EXCEPT !.pc = "groups", !.policy = policy,
                                   !.runs = {r}, !.groups = Plan[r]])
  /\ UNCHANGED <<db, manifestVars, lockVars, writes, stops>>

Risky(g) == \E x \in PatchesOf(g) : Patch[x].risk # "low"

SkipForReview(w) ==
  /\ worker[w].pc = "groups"
  /\ worker[w].policy = "safe" /\ Risky(Head(worker[w].groups))
  /\ Become(w, NextGroup(worker[w]))
  /\ UNCHANGED <<db, manifestVars, lockVars, writes, stops>>

(* The worker is about to open the transaction of its next group. *)
AtGroup(w) ==
  /\ worker[w].pc = "groups"
  /\ worker[w].policy = "safe" => ~ Risky(Head(worker[w].groups))
  /\ lock = Free

(* Every patch of the group has a receipt: already_processed. *)
Processed(d, g) == Decided(d, g) = PatchesOf(g)

SkipProcessed(w) ==
  LET g == Head(worker[w].groups) IN
  /\ AtGroup(w)
  /\ Processed(db, g)
  /\ Commit(Marked(db, FirstRun(worker[w].runs)))
  /\ Become(w, NextGroup(worker[w]))
  /\ UNCHANGED <<manifestVars, writes, stops>>

(* Conflicts: nothing is applied, the conflict row is written and commits. *)
(* apply_pending_runs remembers the group, to keep the local page later.   *)
ReportConflict(w) ==
  LET g  == Head(worker[w].groups)
      me == IF worker[w].auto
            THEN [worker[w] EXCEPT !.conflicts = Append(@, g)] ELSE worker[w]
  IN
  /\ AtGroup(w)
  /\ ~ Processed(db, g)
  /\ Decided(db, g) = {}
  /\ GroupConflicts(db, g, FALSE)
  /\ Commit(Marked([db EXCEPT !.conflict[g] = IF @ = "none" THEN "pending" ELSE @],
                   FirstRun(worker[w].runs)))
  /\ Become(w, NextGroup(me))
  /\ UNCHANGED <<manifestVars, writes, stops>>

(* The statuses of the whole group are computed before its first change. *)
Preflighted(d, g) ==
  [i \in 1 .. Len(Members[g]) |->
     [patch |-> Members[g][i], already |-> AlreadyApplied(d, Members[g][i])]]

OpenTransaction(w, g) == lock' = w /\ todo' = Preflighted(db, g) /\ UNCHANGED <<db, work>>

BeginGroup(w) ==
  LET g == Head(worker[w].groups) IN
  /\ AtGroup(w)
  /\ ~ Processed(db, g)
  /\ Decided(db, g) = {}
  /\ ~ GroupConflicts(db, g, FALSE)
  /\ OpenTransaction(w, g)
  /\ Become(w, [worker[w] EXCEPT !.pc = "writing"])
  /\ UNCHANGED <<manifestVars, writes, stops>>

ApplyPatch(w) ==
  LET x == Head(todo).patch IN
  /\ lock = w /\ todo # <<>>
  /\ Head(todo).already \/ ~ PatchFails(work, x, worker[w].force)
  /\ work' = IF Head(todo).already
             THEN WithReceipt(work, x, "already_applied")
             ELSE WithReceipt(Effect(work, x), x, "applied")
  /\ todo' = Tail(todo)
  /\ UNCHANGED <<db, lock, manifestVars, worker, writes, stops>>

Unlock(d) == db' = d /\ work' = d /\ lock' = Free /\ todo' = <<>>

CommitGroup(w) ==
  LET g == Head(worker[w].groups)
      d == IF worker[w].force
           THEN [work EXCEPT !.conflict[g] = "accept_remote"] ELSE work
  IN
  /\ lock = w /\ todo = <<>>
  /\ Unlock(Marked(d, RunOf(g)))
  /\ Become(w, NextGroup(worker[w]))
  /\ UNCHANGED <<manifestVars, writes, stops>>

ReceiptStatus(action) == IF action = "keep_local" THEN "kept_local" ELSE "merged"

(* Mistaken variants: the receipt gets the name of the action; no receipts *)
(* are written.                                                            *)
ResolvedByName(d, g, action) ==
  Marked([WithReceipts(d, PatchesOf(g), action) EXCEPT !.conflict[g] = action], RunOf(g))
ResolvedRowOnly(d, g, action) == [d EXCEPT !.conflict[g] = action]

(* resolve_conflict with keep_local or merged: no page changes, the local  *)
(* decision becomes receipts.                                              *)
Resolved(d, g, action) ==
  Marked([WithReceipts(d, PatchesOf(g), ReceiptStatus(action)) EXCEPT !.conflict[g] = action],
         RunOf(g))

(* The second half of apply_pending_runs: keep the local pages of a group  *)
(* that conflicted, in a transaction of its own.                           *)
KeepLocal(w) ==
  LET g == Head(worker[w].conflicts) IN
  /\ worker[w].pc = "resolving"
  /\ db.conflict[g] = "pending"
  /\ Commit(Resolved(db, g, "keep_local"))
  /\ Become(w, Advance([worker[w] EXCEPT !.conflicts = Tail(@)]))
  /\ UNCHANGED <<manifestVars, writes, stops>>

(* An operator decides a pending conflict: keep_local or merged. *)
OperatorResolve(w, g, action) ==
  /\ w \notin AutoWorkers
  /\ worker[w].pc = "idle"
  /\ db.conflict[g] = "pending"
  /\ Commit(Resolved(db, g, action))
  /\ UNCHANGED <<manifestVars, worker, writes, stops>>

(* accept_remote applies the group by force, unless it is decided already. *)
(* A forced preflight that still conflicts raises and changes nothing.     *)
OperatorAccept(w, g) ==
  /\ w \notin AutoWorkers
  /\ worker[w].pc = "idle"
  /\ lock = Free
  /\ db.conflict[g] = "pending"
  /\ IF Processed(db, g)
     THEN /\ Commit(Marked([db EXCEPT !.conflict[g] = "accept_remote"], RunOf(g)))
          /\ UNCHANGED worker
     ELSE /\ Decided(db, g) = {}
          /\ ~ GroupConflicts(db, g, TRUE)
          /\ OpenTransaction(w, g)
          /\ Become(w, [IdleWorker EXCEPT !.pc = "writing", !.groups = <<g>>, !.force = TRUE])
  /\ UNCHANGED <<manifestVars, writes, stops>>

(* Mistaken variant: an exception commits what was done so far. *)
GiveUpCommitting(w) ==
  /\ Become(w, IdleWorker)
  /\ IF lock = w THEN Unlock(work) ELSE UNCHANGED <<db, lockVars>>

(* Mistaken variant: page versions are written by a connection of their    *)
(* own, so the rollback does not reach them.                               *)
GiveUpKeepingPages(w) ==
  /\ Become(w, IdleWorker)
  /\ IF lock = w THEN Unlock([db EXCEPT !.versions = work.versions])
     ELSE UNCHANGED <<db, lockVars>>

(* The worker gives up; an open transaction is rolled back. *)
GiveUp(w) ==
  /\ Become(w, IdleWorker)
  /\ IF lock = w THEN Unlock(db) ELSE UNCHANGED <<db, lockVars>>

(* RuntimeError from a patch, "partial receipts", or KeyError "pending     *)
(* curation conflict not found": nobody catches it inside the cycle.       *)
Raises(w) ==
  CASE worker[w].pc = "writing" ->
         todo # <<>> /\ ~ Head(todo).already /\ PatchFails(work, Head(todo).patch, worker[w].force)
    [] worker[w].pc = "groups" ->
         /\ AtGroup(w)
         /\ Decided(db, Head(worker[w].groups)) \notin {{}, PatchesOf(Head(worker[w].groups))}
    [] worker[w].pc = "resolving" ->
         lock = Free /\ db.conflict[Head(worker[w].conflicts)] # "pending"
    [] OTHER -> FALSE

Raise(w) ==
  /\ Raises(w)
  /\ GiveUp(w)
  /\ UNCHANGED <<manifestVars, writes, stops>>

Stop(w) ==
  /\ worker[w].pc # "idle"
  /\ stops < MaxStops
  /\ stops' = stops + 1
  /\ GiveUp(w)
  /\ UNCHANGED <<manifestVars, writes>>

Work(w) ==
  \/ SkipForReview(w) \/ SkipProcessed(w) \/ ReportConflict(w)
  \/ BeginGroup(w) \/ ApplyPatch(w) \/ CommitGroup(w)
  \/ KeepLocal(w) \/ Raise(w)

Operate(w) ==
  \/ \E r \in Runs, policy \in {"safe", "all"} : OperatorApply(w, r, policy)
  \/ \E g \in Groups : \/ \E action \in {"keep_local", "merged"} : OperatorResolve(w, g, action)
                      \/ OperatorAccept(w, g)

Next ==
  \/ \E p \in Paths, c \in Contents : AgentWrite(p, c)
  \/ \E p, q \in Paths : AgentLink(p, q)
  \/ \E r \in Runs : Publish(r) \/ Receive(r)
  \/ \E w \in Workers : StartCycle(w) \/ Work(w) \/ Stop(w) \/ Operate(w)

Spec == Init /\ [][Next]_vars

(* The background loop starts cycles again and again; a worker that runs   *)
(* goes on unless it stops, and a held lock is released by its holder.     *)
Fairness ==
  /\ WF_vars(StartCycle(Background))
  /\ \A w \in Workers : WF_vars(Work(w))

FairSpec == Spec /\ Fairness
-----------------------------------------------------------------------------
(* Type invariant; receipts and conflicts take only the values that the    *)
(* CHECK constraints of the PostgreSQL tables allow (SQLite has none).     *)
TypeOK ==
  /\ db \in Database
  /\ work \in Database
  /\ inbox \in [Runs -> {"none", "published", "received"}]
  /\ base \in [Patches -> BaseState]
  /\ seenTarget \in [Patches -> Nat]
  /\ lock \in Workers \cup {Free}
  /\ todo \in Seq([patch : Patches, already : BOOLEAN])
  /\ worker \in [Workers -> WorkerState]
  /\ writes \in 0 .. MaxWrites
  /\ stops \in 0 .. MaxStops

(* SAFETY *)

(* The patches of a group share one decision: all applied (or found        *)
(* applied), all kept local, or all merged, through stops, rollbacks,      *)
(* competing workers and operators.                                        *)
GroupAtomic ==
  \A g \in Groups :
    LET decisions == {db.receipt[x] : x \in PatchesOf(g)}
    IN  \/ decisions \subseteq {"applied", "already_applied"}
        \/ decisions \in {{"none"}, {"kept_local"}, {"merged"}}

AllVersions   == UNION {{p} \X (1 .. Number(db, p)) : p \in Paths}
VersionsBy(x) == {pn \in AllVersions : db.versions[pn[1]][pn[2]].by = x}

(* A patch writes at most one version, and only if its receipt says        *)
(* applied: a retry or a second worker never writes again, and a group     *)
(* whose local page was kept has left no trace in the history.             *)
VersionsHaveReceipts ==
  \A x \in Patches :
    /\ Cardinality(VersionsBy(x)) <= 1
    /\ VersionsBy(x) # {} => db.receipt[x] = "applied"

(* A patch that nobody accepted by force wrote its version directly on top *)
(* of the version it was made for.                                         *)
ExactBase ==
  \A x \in Patches : \A pn \in VersionsBy(x) :
    LET p == pn[1]
        n == pn[2]
    IN  \/ \E g \in Groups : x \in PatchesOf(g) /\ db.conflict[g] = "accept_remote"
        \/ Patch[x].op = "create_page" /\ n = 1
        \/ /\ n = base[x].number + 1
           /\ db.versions[p][n - 1].content = base[x].content

(* Following superseded_by_page_id from any superseded page ends at an     *)
(* active page: no set of superseded pages points only into itself.        *)
SupersededReachesActive ==
  \A S \in SUBSET {p \in Paths : db.status[p] = "superseded"} :
    S # {} => \E p \in S : db.canonical[p] \notin S

(* A run is marked applied exactly when every patch has its receipt, and a *)
(* resolved conflict belongs to a decided group.                           *)
BookkeepingAgrees ==
  /\ \A r \in Runs : (r \in db.applied) = (RunDone(db, r))
  /\ \A g \in Groups : db.conflict[g] \notin {"none", "pending"} => Processed(db, g)

(* Whatever was committed is queued for the archive, and nothing else: a   *)
(* rolled back group leaves no outbox row.                                 *)
QueuedForArchive ==
  db.outbox =
    {[kind |-> "page_version", path |-> pn[1], number |-> pn[2]] : pn \in AllVersions}
    \cup {[kind |-> "curation_receipt", patch |-> x] :
            x \in {y \in Patches : db.receipt[y] # "none"}}

(* The path of a superseded page with an alias can still be read.          *)
OldPathsResolve ==
  \A p \in Paths : (db.status[p] = "superseded" /\ db.alias[p] # NoPath)
                      => ReadPath(db, p) # NoPath

(* A cleanup patch is applied only while its target page is the one the    *)
(* curator read, unless the group was accepted by force.                   *)
CleanupSeesSnapshotTarget ==
  [][ \A g \in Groups : \A x \in PatchesOf(g) :
        /\ Patch[x].op \in CleanupOperations
        /\ db.receipt[x] = "none" /\ db'.receipt[x] = "applied"
        /\ db'.conflict[g] # "accept_remote"
        => Number(db, Patch[x].target) = seenTarget[x] ]_vars

DecisionOf(g) ==
  LET decisions == {db.receipt[x] : x \in PatchesOf(g)}
  IN  CASE decisions = {"none"} -> "undecided"
        [] decisions = {"kept_local"} -> "kept_local"
        [] decisions = {"merged"} -> "merged"
        [] OTHER -> "applied"

Abstract == INSTANCE GroupDecisions WITH
  PatchesIn <- [g \in Groups |-> PatchesOf(g)],
  decision  <- [g \in Groups |-> DecisionOf(g)],
  history   <- db.versions

(* Every group is decided once: workers, operators and retries together    *)
(* implement GroupDecisions, and no page loses a version.                  *)
ImplementsGroupDecisions == Abstract!Spec

(* LIVENESS *)

(* A received run whose groups are all low risk is applied in the end.     *)
LowRiskRunsApplied ==
  \A r \in Runs :
    (inbox[r] = "received" /\ \A g \in Range(Plan[r]) : ~ Risky(g)) ~> (r \in db.applied)
=============================================================================
