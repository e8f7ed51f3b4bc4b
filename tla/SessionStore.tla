---------------------------- MODULE SessionStore ----------------------------
(***************************************************************************)
(* Sessions in the local store: versioned events, their search chunks and  *)
(* outbox rows, search repair, backup and restore, archive-gated retention *)
(* (storage/sqlite_store.py, storage/sessions.py, maintenance.py).         *)
(*                                                                         *)
(* The store is one value, db: every operation below is one transaction.   *)
(* Repair is two: it looks for missing chunks on a read connection and     *)
(* repairs under the write lock, with other writers between the two.       *)
(*                                                                         *)
(* Abstractions.  The source harness has revisions of a session; a record  *)
(* is the events of one revision, and its content hash is the revision.    *)
(* Event positions, titles and metadata are left out.  An event version is *)
(* named <<session, event, number>>.  Delivery to the archive is one step: *)
(* ArchiveSync shows how it is done.                                       *)
(***************************************************************************)
EXTENDS Integers, Sequences, FiniteSets, SequencesExt, SearchText

CONSTANTS
  Sessions,       \* source sessions, ordered by their id
  Events,         \* external ids of events
  Contents,       \* event contents, texts
  Absent,         \* the event is not in the record
  Record,         \* [Sessions -> sequence of revisions, each [Events -> content or Absent]]
  Deployments,    \* configurations, each a backend and the importer in use
  Repairers,      \* processes that run repair_search_indexes
  Background,     \* the one that local maintenance starts again and again
  MaxHits,        \* bound: pages that match a query, places of a result
  MaxBackups,     \* bound: backups taken
  MaxRestores,    \* bound: restores
  MaxPrunes,      \* bound: retention runs that delete
  MaxStops        \* bound: processes that stop in the middle

ASSUME SourceAssumption ==
  /\ Sessions \subseteq Nat /\ IsFiniteSet(Sessions) /\ IsFiniteSet(Events)
  /\ Contents \subseteq Seq(Characters) /\ Absent \notin Contents
  /\ Record \in [Sessions -> Seq([Events -> Contents \cup {Absent}])]
  /\ \A s \in Sessions : Record[s] # <<>>

ASSUME StoreBoundAssumption ==
  {MaxHits, MaxBackups, MaxRestores, MaxPrunes, MaxStops} \subseteq Nat

ASSUME DeploymentAssumption ==
  Deployments \subseteq [backend : {"sqlite", "postgres"}, importer : {"database", "server"}]

ASSUME BackgroundAssumption == Background \in Repairers

VARIABLES
  backend,        \* "sqlite" or "postgres", fixed by the configuration
  db,             \* the committed local database
  backup,         \* the newest backup file
  archive,        \* event payloads the remote archive holds
  written,        \* history: payloads committed since the restored backup
  repair,         \* where each repairer stands
  repairError,    \* a repair raised
  backups,        \* backups so far
  restores,       \* restores so far
  prunes,         \* retention runs so far
  stops           \* stops so far

storeVars == <<backend, db, backup, archive, written, repair, repairError,
               backups, restores, prunes, stops>>

VersionIds == Sessions \X Events \X Nat
Payload    == [id : VersionIds, content : Contents]

Database ==
  [revision : [Sessions -> Nat],                     \* current_hash, 0: no such row
   versions : [Sessions -> [Events -> Seq(Contents)]],
   active   : [Sessions -> SUBSET Events],
   chunks   : SUBSET (VersionIds \X (Nat \X Nat)),   \* version, start and end
   queued   : Seq(VersionIds),                       \* outbox rows to deliver, in order
   acked    : SUBSET VersionIds,                     \* acknowledged outbox rows
   cursor   : Nat \X Nat,                            \* sync_state of the importer
   handled  : [Sessions -> Nat]]                     \* history: newest revision seen

EmptyDatabase ==
  [revision |-> [s \in Sessions |-> 0],
   versions |-> [s \in Sessions |-> [e \in Events |-> <<>>]],
   active   |-> [s \in Sessions |-> {}],
   chunks   |-> {}, queued |-> <<>>, acked |-> {},
   cursor   |-> <<0, 0>>,
   handled  |-> [s \in Sessions |-> 0]]

IdleRepair == [pc |-> "idle", found |-> {}]

StoreTypeOK ==
  /\ backend \in {"sqlite", "postgres"}
  /\ db \in Database /\ backup \in Database
  /\ archive \subseteq Payload /\ written \subseteq Payload
  /\ repair \in [Repairers -> [pc : {"idle", "write"}, found : SUBSET VersionIds]]
  /\ repairError \in BOOLEAN
  /\ backups \in 0 .. MaxBackups /\ restores \in 0 .. MaxRestores
  /\ prunes \in 0 .. MaxPrunes /\ stops \in 0 .. MaxStops

-----------------------------------------------------------------------------
(* VERSIONS *)

IdsOf(d, s)        == UNION {{<<s, e, n>> : n \in 1 .. Len(d.versions[s][e])} : e \in Events}
CurrentId(d, s, e) == <<s, e, Len(d.versions[s][e])>>
TextOf(d, v)       == d.versions[v[1]][v[2]][v[3]]
PayloadOf(d, v)    == [id |-> v, content |-> TextOf(d, v)]
Payloads(d)        == {PayloadOf(d, v) : v \in UNION {IdsOf(d, s) : s \in Sessions}}

(* check_database, read_session_events: what a session says now. *)
ReadEvents(d, s) ==
  [e \in Events |-> IF e \in d.active[s] THEN Last(d.versions[s][e]) ELSE Absent]

InRecord(s, r) == {e \in Events : Record[s][r][e] # Absent}
Changed(d, s, r) ==
  {e \in InRecord(s, r) : d.versions[s][e] = <<>> \/ Last(d.versions[s][e]) # Record[s][r][e]}
NewIds(d, s, r) == {<<s, e, Len(d.versions[s][e]) + 1>> : e \in Changed(d, s, r)}

Appended(d, s, r) ==
  [e \in Events |-> IF e \in Changed(d, s, r) THEN Append(d.versions[s][e], Record[s][r][e])
                    ELSE d.versions[s][e]]

(* Mistaken variant: the branch for unchanged events does not reactivate. *)
ActiveWithoutReturn(d, s, r) ==
  (d.active[s] \cap InRecord(s, r)) \cup Changed(d, s, r)

(* An event whose content did not change keeps its version, and with it    *)
(* its chunks; an event that left the record stays, inactive.              *)
ActiveAfter(d, s, r) == InRecord(s, r)

(* Mistaken variant: only the first version of an event is chunked. *)
ChunkedFirst(d, s, r) == {v \in NewIds(d, s, r) : v[3] = 1}

ToChunk(d, s, r) == NewIds(d, s, r)

TextChunks == [t \in Contents |-> Chunks(t)]
ChunksOf(d, ids) == UNION {{v} \X TextChunks[TextOf(d, v)] : v \in ids}

(* ingest_session: an equal hash writes nothing. *)
Ingested(d, s, r) ==
  IF d.revision[s] = r THEN [d EXCEPT !.handled[s] = r]
  ELSE LET new == [d EXCEPT !.versions[s] = Appended(d, s, r)] IN
       [new EXCEPT !.revision[s] = r,
                   !.active[s]   = ActiveAfter(d, s, r),
                   !.chunks      = @ \cup ChunksOf(new, ToChunk(d, s, r)),
                   !.queued      = @ \o SetToSeq(NewIds(d, s, r)),
                   !.handled[s]  = r]

Commit(d) ==
  /\ db' = d
  /\ written' = written \cup Payloads(d)

-----------------------------------------------------------------------------
(* SEARCH AND ITS REPAIR *)

Visible(d) == UNION {{CurrentId(d, s, e) : e \in d.active[s]} : s \in Sessions}

(* search: a chunk counts if it is of the current version of an active     *)
(* event.                                                                  *)
Chunked(d)  == {c[1] : c \in d.chunks}
Findable(d) == Chunked(d) \cap Visible(d)

(* _search_repairs. *)
Missing(d) == Visible(d) \ Chunked(d)

(* The read connection; when nothing is missing the call returns. *)
RepairCheck(w) ==
  /\ backend = "sqlite"
  /\ repair[w].pc = "idle"
  /\ Missing(db) # {}
  /\ repair' = [repair EXCEPT ![w] = [pc |-> "write", found |-> Missing(db)]]
  /\ UNCHANGED <<backend, db, backup, archive, written, repairError, backups, restores, prunes, stops>>

(* Mistaken variant: repair what the read connection found. *)
ToRepairAsFound(w) == repair[w].found

(* Mistaken variant: repair only events that were never changed. *)
ToRepairFirst(w) == {v \in Missing(db) : v[3] = 1}

(* The scan is made again under the write lock. *)
ToRepair(w) == Missing(db)

(* UNIQUE(version_id, chunk_index): chunks that exist make the insert raise. *)
RepairWrite(w) ==
  /\ repair[w].pc = "write"
  /\ repair' = [repair EXCEPT ![w] = IdleRepair]
  /\ LET clash == ToRepair(w) \cap Chunked(db) # {} IN
       /\ repairError' = (repairError \/ clash)
       /\ db' = IF clash THEN db ELSE [db EXCEPT !.chunks = @ \cup ChunksOf(db, ToRepair(w))]
  /\ UNCHANGED <<backend, backup, archive, written, backups, restores, prunes, stops>>

StopRepair(w) ==
  /\ repair[w].pc # "idle"
  /\ stops < MaxStops
  /\ stops' = stops + 1
  /\ repair' = [repair EXCEPT ![w] = IdleRepair]
  /\ UNCHANGED <<backend, db, backup, archive, written, repairError, backups, restores, prunes>>

-----------------------------------------------------------------------------
(* ARCHIVE, BACKUP, RETENTION *)

(* Rows are delivered in sequence order.  The deployment that prunes is    *)
(* the one that syncs.                                                     *)
Deliver ==
  /\ backend = "postgres"
  /\ db.queued # <<>>
  /\ archive' = archive \cup {PayloadOf(db, Head(db.queued))}
  /\ db' = [db EXCEPT !.queued = Tail(@), !.acked = @ \cup {Head(db.queued)}]
  /\ UNCHANGED <<backend, backup, written, repair, repairError, backups, restores, prunes, stops>>

(* The SQLite backup omits derived search data.  PostgreSQL is backed up   *)
(* by pg_dump and restored by pg_restore, which are not modelled.          *)
BackupOf(d) == [d EXCEPT !.chunks = {}]

Backup ==
  /\ backend = "sqlite"
  /\ backups < MaxBackups
  /\ backups' = backups + 1
  /\ backup' = BackupOf(db)
  /\ UNCHANGED <<backend, db, archive, written, repair, repairError, restores, prunes, stops>>

(* The database was lost or moved away; nothing else runs while the        *)
(* operator restores.  The same command then repairs, as some repairer, or *)
(* stops before it does.                                                   *)
Restore ==
  /\ backups > 0 /\ restores < MaxRestores
  /\ \A x \in Repairers : repair[x].pc = "idle"
  /\ restores' = restores + 1
  /\ db' = backup
  /\ written' = Payloads(backup) \cup archive
  /\ UNCHANGED <<backend, backup, archive, repair, repairError, backups, prunes, stops>>

(* Mistaken variant: one acknowledged version is enough. *)
RetiredByOne(d, s) == IdsOf(d, s) \cap d.acked # {}

(* Any session may be older than the cutoff: nothing says how much time    *)
(* passes between two steps.  What counts is that every version of every   *)
(* event, current or not, active or not, is acknowledged.                  *)
Retired(d, s) ==
  /\ IdsOf(d, s) # {}
  /\ IdsOf(d, s) \subseteq d.acked

(* The session rows are locked FOR UPDATE: an ingest comes before or after. *)
Without(d, gone) ==
  LET ids == UNION {IdsOf(d, s) : s \in gone} IN
    [d EXCEPT !.revision = [s \in Sessions |-> IF s \in gone THEN 0 ELSE @[s]],
              !.versions = [s \in Sessions |-> IF s \in gone THEN [e \in Events |-> <<>>] ELSE @[s]],
              !.active   = [s \in Sessions |-> IF s \in gone THEN {} ELSE @[s]],
              !.chunks   = {c \in @ : c[1] \notin ids},
              !.acked    = @ \ ids]

Prune(gone) ==
  /\ backend = "postgres"
  /\ prunes < MaxPrunes
  /\ gone # {} /\ \A s \in gone : Retired(db, s)
  /\ prunes' = prunes + 1
  /\ db' = Without(db, gone)
  /\ UNCHANGED <<backend, backup, archive, written, repair, repairError, backups, restores, stops>>

-----------------------------------------------------------------------------
StoreInit ==
  /\ backend \in {deployment.backend : deployment \in Deployments}
  /\ db = EmptyDatabase /\ backup = EmptyDatabase
  /\ archive = {} /\ written = {}
  /\ repair = [w \in Repairers |-> IdleRepair]
  /\ repairError = FALSE
  /\ backups = 0 /\ restores = 0 /\ prunes = 0 /\ stops = 0

StoreNext ==
  \/ \E w \in Repairers : RepairCheck(w) \/ RepairWrite(w) \/ StopRepair(w)
  \/ Deliver
  \/ Backup
  \/ \E gone \in SUBSET Sessions : Prune(gone)

(* Local maintenance repairs on every cycle. *)
StoreFairness ==
  /\ WF_storeVars(RepairCheck(Background))
  /\ WF_storeVars(RepairWrite(Background))

-----------------------------------------------------------------------------
(* PROPERTIES *)

(* What read_session_events returns is the record that was ingested last,  *)
(* through changed, removed and returning events and through a restore.    *)
ReadsBackRecord ==
  \A s \in Sessions :
    db.revision[s] # 0 => ReadEvents(db, s) = Record[s][db.revision[s]]

(* A visible event can be found by search.  Only what a backup brought     *)
(* back may wait for a repair.                                             *)
SearchableUnlessRestored ==
  \/ Visible(db) \subseteq Findable(db)
  \/ restores > 0 /\ Visible(db) \ Findable(db) \subseteq UNION {IdsOf(backup, s) : s \in Sessions}

(* Two repairs, or a repair and an ingest, never insert the same chunks    *)
(* twice: the scan inside the write lock sees what the other committed.    *)
RepairNeverRaises == ~repairError

(* Retention removes nothing that is not in the archive: every payload     *)
(* ever committed (since the restored backup) is in the store or archived. *)
NothingLost == written \subseteq Payloads(db) \cup archive

(* What is indexed is the whole text, in pieces under the byte ceiling     *)
(* that do not overlap, also after a repair.                               *)
ChunksCoverText ==
  \A v \in Chunked(db) :
    LET text   == TextOf(db, v)
        pieces == {c[2] : c \in {k \in db.chunks : k[1] = v}} IN
      /\ \A i \in 0 .. Len(text) - 1 : Cardinality({p \in pieces : p[1] <= i /\ i < p[2]}) = 1
      /\ \A p \in pieces : p[2] > p[1] + 1 => Bytes(text, p[1], p[2]) <= ChunkBytes

(* No place of a search result stays empty while a hit is left out, and    *)
(* neither kind of hit is pushed out of its half by the other.             *)
ResultFilled ==
  LET sessions == Cardinality({v[1] : v \in Findable(db)}) IN
    \A pages, n \in 0 .. MaxHits :
      LET p == PageSlots(pages, sessions, n)
          s == SessionSlots(pages, sessions, n) IN
        /\ p + s = Smaller(pages + sessions, n)
        /\ p >= Smaller(pages, n - n \div 2)
        /\ s >= Smaller(sessions, n \div 2)

(* Search comes back: whatever a restore left without chunks is repaired.  *)
SearchRepaired == []<>(Visible(db) \subseteq Findable(db))
=============================================================================
