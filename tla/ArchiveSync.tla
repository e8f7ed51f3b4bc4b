----------------------------- MODULE ArchiveSync -----------------------------
(***************************************************************************)
(* Archive sync: the local outbox, the processes that push it, and the     *)
(* remote append-only archive (remote/lakebase.py, storage/outbox.py and   *)
(* the outbox half of storage/sqlite_store.py).                            *)
(*                                                                         *)
(* One call of sync_to_archive is a chain of transactions on two           *)
(* databases, so it is a chain of actions here:                            *)
(*                                                                         *)
(*   ReadPending*  read the rows to send                (local read)       *)
(*   ResolveEvent  read the payload of one row          (local read, each) *)
(*   AssignBatch   name the batch, mark its rows        (local write)      *)
(*   Push          store the events and the manifest    (remote write)     *)
(*   Acknowledge   mark the rows of the batch delivered (local write)      *)
(*                                                                         *)
(* Between any two of them other processes run, and the caller may stop.   *)
(*                                                                         *)
(* Abstractions.  A batch id is a hash of the events with their payloads,  *)
(* so the model identifies a batch with its set of events.  A payload is   *)
(* immutable (page versions, receipts) or carries the session's mutable    *)
(* columns (user, agent, workspace, position, page path), of which only    *)
(* the revision is kept.  The stored payload_hash covers the immutable     *)
(* part only, so the remote hash check always passes.                      *)
(***************************************************************************)
EXTENDS Integers, FiniteSets

CONSTANTS
  Backend,        \* the local store: "sqlite" or "postgres"
  Syncers,        \* processes that may run sync_to_archive
  Background,     \* the one of them that the background loop restarts
  Sessions,       \* agent sessions whose events are archived
  Immutable,      \* stands for a row whose payload never changes
  Limit,          \* rows per batch (sync_batch_size)
  MaxSeq,         \* bound: outbox rows
  MaxRev,         \* bound: changes of one session's mutable columns
  MaxStops        \* bound: processes that stop in the middle

ASSUME BackendAssumption == Backend \in {"sqlite", "postgres"}
ASSUME SyncerAssumption  == Background \in Syncers
ASSUME BoundAssumption   == MaxSeq \in Nat /\ MaxRev \in Nat /\ MaxStops \in Nat
ASSUME LimitAssumption   == Limit \in Nat \ {0}    \* build_batch rejects limit < 1

Seqs    == 1 .. MaxSeq
Event   == [seq : Seqs, rev : 0 .. MaxRev]
Batch   == SUBSET Event
NoBatch == {}                      \* batch_id IS NULL
Sources == Sessions \cup {Immutable}

VARIABLES
  rows,           \* sequences of the committed outbox rows
  source,         \* what each row's payload is read from
  batch,          \* the batch each row is assigned to (batch_id)
  acked,          \* rows with acknowledged_at set
  rev,            \* revision of each session's mutable columns
  archive,        \* remote archive_events, with the payload first stored
  manifests,      \* remote archive_batches
  syncer,         \* the local variables of each sync_to_archive call
  stops           \* how many calls were cut off so far

localVars  == <<rows, source, batch, acked, rev>>
remoteVars == <<archive, manifests>>
vars       == <<localVars, remoteVars, syncer, stops>>

SeqsOf(events)  == {e.seq : e \in events}
Archived(q)     == \E e \in archive : e.seq = q
Unacked         == rows \ acked

(* Mistaken variant: the latest rows first. *)
Latest(S, n)    == {q \in S : Cardinality({r \in S : r > q}) < n}

(* ORDER BY sequence LIMIT n *)
Lowest(S, n)    == {q \in S : Cardinality({r \in S : r < q}) < n}

(* The state of a process that runs no sync_to_archive call. *)
Idle == [pc     |-> "idle",
         head   |-> NoBatch,     \* batch of the first pending row (postgres)
         seen   |-> {},          \* batch ids found on the pending rows
         todo   |-> {},          \* rows whose payload is not read yet
         events |-> {}]          \* the batch under construction

SyncerState == [pc     : {"idle", "head", "resolving", "assigned", "pushed"},
                head   : Batch,
                seen   : SUBSET Batch,
                todo   : SUBSET Seqs,
                events : Batch]

(* Type invariant.  It also says that only committed rows are acknowledged *)
(* although acknowledge_outbox_batch selects them by batch id.             *)
TypeOK ==
  /\ rows \subseteq Seqs
  /\ source \in [Seqs -> Sources]
  /\ batch \in [Seqs -> Batch]
  /\ acked \subseteq rows
  /\ rev \in [Sessions -> 0 .. MaxRev]
  /\ archive \subseteq Event
  /\ manifests \subseteq Batch
  /\ syncer \in [Syncers -> SyncerState]
  /\ stops \in 0 .. MaxStops

Init ==
  /\ rows = {}
  /\ source = [q \in Seqs |-> Immutable]
  /\ batch = [q \in Seqs |-> NoBatch]
  /\ acked = {}
  /\ rev = [s \in Sessions |-> 0]
  /\ archive = {}
  /\ manifests = {}
  /\ syncer = [p \in Syncers |-> Idle]
  /\ stops = 0

-----------------------------------------------------------------------------
(* Local writers.  A page write, a receipt or a session ingest adds its    *)
(* outbox row in its own transaction.  SQLite numbers rows in commit order *)
(* (one writer at a time); PostgreSQL draws the number from a sequence     *)
(* before the commit, so a row may appear below rows already visible.      *)

CanAppear(q) ==
  /\ q \in Seqs \ rows
  /\ Backend = "sqlite" => q = Cardinality(rows) + 1

Append(q, from) ==
  /\ CanAppear(q)
  /\ rows' = rows \cup {q}
  /\ source' = [source EXCEPT ![q] = from]

WriteVersion(q) ==
  /\ Append(q, Immutable)
  /\ UNCHANGED <<batch, acked, rev, remoteVars, syncer, stops>>

(* An ingest that finds a new event version; it may change the session's   *)
(* columns in the same transaction.                                        *)
IngestEvent(s, q, r) ==
  /\ Append(q, s)
  /\ r \in {rev[s], rev[s] + 1} \cap (0 .. MaxRev)
  /\ rev' = [rev EXCEPT ![s] = r]
  /\ UNCHANGED <<batch, acked, remoteVars, syncer, stops>>

(* An ingest that changes only the session's columns (a moved event, a new *)
(* title or workspace): no event version, hence no outbox row.             *)
IngestSessionChange(s) ==
  /\ rev[s] < MaxRev
  /\ rev' = [rev EXCEPT ![s] = @ + 1]
  /\ UNCHANGED <<rows, source, batch, acked, remoteVars, syncer, stops>>

-----------------------------------------------------------------------------
(* pending_outbox: which rows go into the next batch.                      *)

(* Mistaken variant: all pending rows, whatever batch they belong to. *)
PendingIgnoringBatch(head) == Lowest(Unacked, Limit)

(* PostgreSQL: the rest of the batch the first pending row belongs to, or  *)
(* the first rows that belong to none.                                     *)
PendingOfBatch(head) ==
  LET same == {q \in Unacked : batch[q] = head}
  IN  IF head = NoBatch THEN Lowest(same, Limit) ELSE same

Begin(p, found) ==
  syncer' = [syncer EXCEPT ![p] =
    IF found = {} THEN Idle
    ELSE [Idle EXCEPT !.pc   = "resolving",
                      !.seen = {batch[q] : q \in found} \ {NoBatch},
                      !.todo = found]]

ReadPendingSQLite(p) ==
  /\ Backend = "sqlite"
  /\ syncer[p].pc = "idle"
  /\ Unacked # {}
  /\ Begin(p, Lowest(Unacked, Limit))
  /\ UNCHANGED <<localVars, remoteVars, stops>>

(* PostgreSQL reads in two statements, each with its own snapshot. *)
ReadHeadPostgres(p) ==
  /\ Backend = "postgres"
  /\ syncer[p].pc = "idle"
  /\ \E q \in Unacked :
       /\ \A r \in Unacked : q <= r
       /\ syncer' = [syncer EXCEPT ![p] = [Idle EXCEPT !.pc = "head", !.head = batch[q]]]
  /\ UNCHANGED <<localVars, remoteVars, stops>>

ReadPendingPostgres(p) ==
  /\ syncer[p].pc = "head"
  /\ Begin(p, PendingOfBatch(syncer[p].head))
  /\ UNCHANGED <<localVars, remoteVars, stops>>

(* _resolve_event: one connection, hence one snapshot, per row. *)
PayloadRev(q) == IF source[q] \in Sessions THEN rev[source[q]] ELSE 0

WithPayload(call, q) ==
  [call EXCEPT !.todo   = call.todo \ {q},
               !.events = call.events \cup {[seq |-> q, rev |-> PayloadRev(q)]}]

ResolveEvent(p, q) ==
  /\ syncer[p].pc = "resolving"
  /\ q \in syncer[p].todo
  /\ \A r \in syncer[p].todo : q <= r
  /\ syncer' = [syncer EXCEPT ![p] = WithPayload(@, q)]
  /\ UNCHANGED <<localVars, remoteVars, stops>>

(* Mistaken variant: push whatever was read, without comparing batch ids. *)
IdentityUnchecked(seen, events) == TRUE

(* The batch ids read with the rows must all be the id just computed. *)
IdentityMatches(seen, events) == seen = {} \/ seen = {events}

(* Mistaken variant: take rows over from another batch. *)
AssignedOver(events) ==
  [q \in Seqs |-> IF q \in SeqsOf(events) /\ q \in Unacked THEN events ELSE batch[q]]

(* assign_outbox_batch: rows that meanwhile got another batch are left. *)
Assigned(events) ==
  [q \in Seqs |->
     IF /\ q \in SeqsOf(events)
        /\ q \in Unacked
        /\ batch[q] \in {NoBatch, events}
     THEN events ELSE batch[q]]

AssignBatch(p) ==
  /\ syncer[p].pc = "resolving"
  /\ syncer[p].todo = {}
  /\ IdentityMatches(syncer[p].seen, syncer[p].events)
  /\ batch' = Assigned(syncer[p].events)
  /\ syncer' = [syncer EXCEPT ![p].pc = "assigned"]
  /\ UNCHANGED <<rows, source, acked, rev, remoteVars, stops>>

(* "pending outbox batch identity does not match its content digest": the  *)
(* call raises and has changed nothing.                                    *)
RejectIdentity(p) ==
  /\ syncer[p].pc = "resolving"
  /\ syncer[p].todo = {}
  /\ ~ IdentityMatches(syncer[p].seen, syncer[p].events)
  /\ syncer' = [syncer EXCEPT ![p] = Idle]
  /\ UNCHANGED <<localVars, remoteVars, stops>>

(* _push_batch, one remote transaction.  A manifest that is already there  *)
(* answers the call; otherwise events new to the archive are inserted (ON  *)
(* CONFLICT DO NOTHING keeps the payload stored first) with the manifest.  *)
Push(p) ==
  /\ syncer[p].pc = "assigned"
  /\ IF syncer[p].events \in manifests
     THEN UNCHANGED remoteVars
     ELSE /\ archive' = archive \cup {e \in syncer[p].events : ~ Archived(e.seq)}
          /\ manifests' = manifests \cup {syncer[p].events}
  /\ syncer' = [syncer EXCEPT ![p].pc = "pushed"]
  /\ UNCHANGED <<localVars, stops>>

(* Another process commits the same batch while this call's remote         *)
(* transaction is under way: inserting the manifest violates its key, the  *)
(* transaction is rolled back and the call raises.                         *)
LosePushRace(p) ==
  /\ syncer[p].pc = "assigned"
  /\ \E winner \in Syncers : /\ syncer[winner].pc = "pushed"
                             /\ syncer[winner].events = syncer[p].events
  /\ syncer' = [syncer EXCEPT ![p] = Idle]
  /\ UNCHANGED <<localVars, remoteVars, stops>>

(* Mistaken variant: acknowledge everything up to the last sequence. *)
AcknowledgedUpTo(events) ==
  acked \cup {q \in Seqs : \E e \in events : q <= e.seq}

(* Mistaken variant: only one row of the batch is marked. *)
AcknowledgedFirst(events) ==
  acked \cup Lowest({q \in Unacked : batch[q] = events}, 1)

(* acknowledge_outbox_batch: by batch id, not by sequence. *)
Acknowledged(events) == acked \cup {q \in rows : batch[q] = events}

(* Mistaken variant: rows are marked before the remote transaction. *)
AcknowledgeEarly(p) ==
  /\ syncer[p].pc = "assigned"
  /\ acked' = Acknowledged(syncer[p].events)
  /\ syncer' = [syncer EXCEPT ![p] = Idle]
  /\ UNCHANGED <<rows, source, batch, rev, remoteVars, stops>>

Acknowledge(p) ==
  /\ syncer[p].pc = "pushed"
  /\ acked' = Acknowledged(syncer[p].events)
  /\ syncer' = [syncer EXCEPT ![p] = Idle]
  /\ UNCHANGED <<rows, source, batch, rev, remoteVars, stops>>

(* The process is killed, the connection is refused, or the answer to the  *)
(* remote commit is lost: the call ends and its local variables are gone.  *)
Stop(p) ==
  /\ syncer[p].pc # "idle"
  /\ stops < MaxStops
  /\ stops' = stops + 1
  /\ syncer' = [syncer EXCEPT ![p] = Idle]
  /\ UNCHANGED <<localVars, remoteVars>>

-----------------------------------------------------------------------------
Start(p)    == ReadPendingSQLite(p) \/ ReadHeadPostgres(p)

Continue(p) ==
  \/ ReadPendingPostgres(p)
  \/ \E q \in Seqs : ResolveEvent(p, q)
  \/ AssignBatch(p)
  \/ RejectIdentity(p)
  \/ Push(p)
  \/ LosePushRace(p)
  \/ Acknowledge(p)

Local ==
  \/ \E q \in Seqs : WriteVersion(q)
  \/ \E s \in Sessions, q \in Seqs, r \in 0 .. MaxRev : IngestEvent(s, q, r)
  \/ \E s \in Sessions : IngestSessionChange(s)

Next ==
  \/ Local
  \/ \E p \in Syncers : Start(p) \/ Continue(p) \/ Stop(p)

Spec == Init /\ [][Next]_vars

(* The background loop calls sync again and again (run_background_loop);   *)
(* a call that runs goes on unless it stops.  A command-line sync may      *)
(* never be started.                                                       *)
Fairness ==
  /\ WF_vars(Start(Background))
  /\ \A p \in Syncers : WF_vars(Continue(p))

FairSpec == Spec /\ Fairness

-----------------------------------------------------------------------------
(* SAFETY *)

(* A row the local store regards as delivered is in the remote archive,    *)
(* under a batch whose manifest the archive also holds and which names the *)
(* row.  Acknowledgement selects rows by batch id while the batch was read *)
(* earlier, so a row may meanwhile belong to another process's batch.      *)
AckedIsArchived ==
  \A q \in acked : /\ Archived(q)
                   /\ batch[q] \in manifests
                   /\ q \in SeqsOf(batch[q])

(* A row never changes its batch and an acknowledgement is never undone,   *)
(* whatever several syncers decided from rows read at different times: the *)
(* retry after a stop relies on finding the same batch again.              *)
BatchIsFinal ==
  [][ /\ \A q \in Seqs : batch[q] # NoBatch => batch'[q] = batch[q]
      /\ acked \subseteq acked' ]_vars

(* A manifest's digest can be recomputed from the archived payloads.  With *)
(* one syncer this holds although the payload of a session event can       *)
(* change between a stop and the retry.                                    *)
ManifestDescribesArchive == \A b \in manifests : b \subseteq archive

(* The rows of a batch are acknowledged together or not at all, and the    *)
(* unacknowledged rows of a batch are the whole batch: only then can a     *)
(* retry recompute the same batch id.  It needs a single syncer.           *)
BatchIsWhole ==
  \A q \in rows : batch[q] # NoBatch =>
    /\ \A r \in SeqsOf(batch[q]) : batch[r] = batch[q]
    /\ \A r \in SeqsOf(batch[q]) : (r \in acked) = (q \in acked)

(* The archive never holds a row while an earlier committed row is         *)
(* missing: remote maintenance reads evidence up to a sequence watermark.  *)
(* It holds for SQLite, also with several syncers.                         *)
ArchiveIsPrefix ==
  \A q, r \in rows : (Archived(q) /\ r < q) => Archived(r)

Abstract == INSTANCE ReliableArchive WITH
  written  <- rows,
  archived <- {q \in Seqs : Archived(q)},
  acked    <- acked

(* The whole protocol of batches and calls implements ReliableArchive: a   *)
(* row is archived only after it was committed locally, acknowledged only  *)
(* after it was archived, and none of the three is ever taken back.        *)
ImplementsReliableArchive == Abstract!Spec

(* LIVENESS *)

(* The outbox is emptied again and again (MaxSeq bounds the rows that come *)
(* in), although calls stop in the middle a bounded number of times.  The  *)
(* exception is a batch assigned from session payloads that have changed   *)
(* since: its id can no longer be recomputed.  It needs a single syncer.   *)
PayloadChanged ==
  \E q \in Unacked : \E e \in batch[q] : e.rev # PayloadRev(e.seq)

OutboxDrains == []<>(Unacked = {} \/ PayloadChanged)

(* Several syncers that read, assign and push overlapping batches hold     *)
(* each other up, but as long as none of them stops, every row is          *)
(* delivered, whatever happens to the payloads.                            *)
OutboxDrainsWithoutStop == []<>(Unacked = {} \/ stops > 0)
=============================================================================
