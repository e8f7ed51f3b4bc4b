---------------------------- MODULE SessionImport ----------------------------
(***************************************************************************)
(* The importers in front of SessionStore: a source harness whose          *)
(* conversations change while an import reads them, the read-only recovery *)
(* import of Omnigent's database, the import from an Omnigent server, and  *)
(* the native capture that ingests beside them (cli.py, adapters/,         *)
(* omnigent_server.py, client.py).                                         *)
(*                                                                         *)
(* Time is the source's updated_at, in whole seconds.  An import selects   *)
(* rows after its cursor (updated_at, id), reads each conversation later,  *)
(* ingests it later still, and saves the cursor in a transaction of its    *)
(* own: after the whole list (database) or after each session (server).    *)
(* The server shows its list in pages, between which sessions change; what *)
(* it is taken to promise is said at LastPage.  Imports are commands of an *)
(* operator, who runs one at a time.                                       *)
(***************************************************************************)
EXTENDS SessionStore

CONSTANTS
  MayFail,        \* <<session, revision>> whose import can raise (bad data, locked store)
  Unsyncable,     \* <<session, revision>> without user text, archived, of a subagent
  Limits,         \* values of --limit, 0: none
  MaxClock,       \* bound: seconds
  MaxLate         \* bound: captures that store a revision the source has left

ASSUME ImportBoundAssumption == {MaxClock, MaxLate} \subseteq Nat /\ Limits \subseteq Nat

VARIABLES
  source,         \* [Sessions -> [revision, updated_at]]
  clock,          \* the second the source is in
  import,         \* the import in progress
  listed,         \* history: an import has read the list in this second
  exempt,         \* history: what no later import has to find, see CursorCovers
  late            \* captures of an older revision so far

importVars == <<source, clock, import, listed, exempt, late>>
vars == <<storeVars, importVars>>

Row == [session : Sessions, updated_at : Nat, revision : Nat]

ImportState ==
  [pc    : {"idle", "list", "rows", "save"},
   kind  : {"database", "server"},
   found : SUBSET Row,            \* on the pages of the server read so far
   moved : SUBSET Sessions,       \* history: changed since the first of these pages
   rows  : Seq(Row),              \* still to import; revision 0: not read yet
   last  : Nat \X Nat]            \* cursor, last_cursor

NoImport(kind) ==
  [pc |-> "idle", kind |-> kind, found |-> {}, moved |-> {}, rows |-> <<>>, last |-> <<0, 0>>]

TypeOK ==
  /\ StoreTypeOK
  /\ source \in [Sessions -> [revision : Nat, updated_at : 1 .. MaxClock]]
  /\ clock \in 1 .. MaxClock /\ listed \in BOOLEAN
  /\ import \in ImportState
  /\ exempt \subseteq Sessions /\ late \in 0 .. MaxLate

Less(k, l) == k[1] < l[1] \/ (k[1] = l[1] /\ k[2] < l[2])
Key(s)     == <<source[s].updated_at, s>>
RowKey(r)  == <<r.updated_at, r.session>>
RowOf(s)   == [session |-> s, updated_at |-> source[s].updated_at, revision |-> 0]

-----------------------------------------------------------------------------
(* THE SOURCE *)

Tick ==
  /\ clock < MaxClock
  /\ clock' = clock + 1
  /\ listed' = FALSE
  /\ UNCHANGED <<storeVars, source, import, exempt, late>>

Change(s) ==
  /\ source[s].revision < Len(Record[s])
  /\ source' = [source EXCEPT ![s] = [revision |-> @.revision + 1, updated_at |-> clock]]
  /\ exempt' = IF listed THEN exempt \cup {s} ELSE exempt \ {s}
  /\ import' = IF import.pc = "list" THEN [import EXCEPT !.moved = @ \cup {s}] ELSE import
  /\ UNCHANGED <<storeVars, clock, listed, late>>

(* A native capture exports the conversation and ingests it some time      *)
(* later, so it can store a revision the source has left, over a newer one *)
(* that an import or another capture stored meanwhile.                     *)
Capture(s, r) ==
  /\ db.revision[s] # r
  /\ <<s, r>> \notin Unsyncable
  /\ late' = IF r = source[s].revision THEN late ELSE late + 1
  /\ late' <= MaxLate
  /\ Commit(Ingested(db, s, r))
  /\ exempt' = IF r < db.handled[s] THEN exempt \cup {s} ELSE exempt
  /\ UNCHANGED <<backend, backup, archive, repair, repairError, backups, restores, prunes,
                 stops, source, clock, import, listed>>

-----------------------------------------------------------------------------
(* IMPORT *)

AfterCursor(s) == Less(db.cursor, Key(s))

(* load_conversations needs both the cursor and the window, the server     *)
(* import takes either.                                                    *)
Selected(rows, kind, cursor, since) ==
  {r \in rows :
     IF kind = "database" THEN Less(cursor, RowKey(r)) /\ r.updated_at >= since
     ELSE Less(cursor, RowKey(r)) \/ (since > 0 /\ r.updated_at >= since)}

(* ORDER BY updated_at, id; selected.sort(key=key). *)
Orders(S) ==
  {q \in [1 .. Cardinality(S) -> S] : \A i, j \in DOMAIN q : i < j => Less(RowKey(q[i]), RowKey(q[j]))}
Limited(q, limit) == IF limit = 0 THEN q ELSE SubSeq(q, 1, IF limit < Len(q) THEN limit ELSE Len(q))

ToImport(kind, rows, cursor) ==
  [pc |-> "rows", kind |-> kind, found |-> {}, moved |-> {}, rows |-> rows, last |-> cursor]

(* The database shows its conversations in one query. *)
Start(since, limit) ==
  \E order \in Orders(Selected({RowOf(s) : s \in Sessions}, "database", db.cursor, since)) :
    /\ import.kind = "database" /\ import.pc = "idle"
    /\ Limited(order, limit) # <<>>
    /\ import' = ToImport("database", Limited(order, limit), db.cursor)
    /\ listed' = TRUE
    /\ exempt' = exempt \cup {s \in Sessions : AfterCursor(s) /\ source[s].updated_at < since}
    /\ UNCHANGED <<storeVars, source, clock, late>>

(* The import from a server gets its cursor, then page after page.         *)
Begin ==
  /\ import.kind = "server" /\ import.pc = "idle"
  /\ import' = [NoImport("server") EXCEPT !.pc = "list", !.last = db.cursor]
  /\ UNCHANGED <<storeVars, source, clock, listed, exempt, late>>

Found(page) == import.found \cup {RowOf(s) : s \in page}

Page(page) ==
  /\ import.pc = "list"
  /\ import' = [import EXCEPT !.found = Found(page)]
  /\ UNCHANGED <<storeVars, source, clock, listed, exempt, late>>

(* The token was refused: the listing starts over (the code does so once). *)
ListAgain ==
  /\ import.pc = "list"
  /\ import' = [import EXCEPT !.found = {}, !.moved = {}]
  /\ UNCHANGED <<storeVars, source, clock, listed, exempt, late>>

(* A change the list does not show, at or before a row that is imported.   *)
LeftBehind(found, rows) ==
  {s \in import.moved : /\ RowOf(s) \notin found
                        /\ \E i \in 1 .. Len(rows) : ~Less(RowKey(rows[i]), Key(s))}

(* The server is taken to show every session that does not change while it *)
(* is listed.  One that does may be shown as it was, as it is, both, or    *)
(* not at all.  Then the importer selects.                                 *)
LastPage(page, since, limit) ==
  \E order \in Orders(Selected(Found(page), "server", import.last, since)) :
    /\ import.pc = "list"
    /\ \A s \in Sessions \ import.moved : RowOf(s) \in Found(page)
    /\ IF order = <<>>
       THEN import' = NoImport("server") /\ UNCHANGED <<listed, exempt>>
       ELSE /\ import' = ToImport("server", Limited(order, limit), import.last)
            /\ listed' = TRUE
            /\ exempt' = exempt \cup LeftBehind(Found(page), Limited(order, limit))
    /\ UNCHANGED <<storeVars, source, clock, late>>

Unread == {i \in 1 .. Len(import.rows) : import.rows[i].revision = 0}

(* The database import reads every listed conversation before it ingests   *)
(* the first, the server import exports one session at a time.             *)
Read ==
  /\ import.pc = "rows" /\ Unread # {}
  /\ import.kind = "server" => 1 \in Unread
  /\ LET i == Min(Unread) IN
       import' = [import EXCEPT !.rows[i].revision = source[import.rows[i].session].revision]
  /\ UNCHANGED <<storeVars, source, clock, listed, exempt, late>>

Ready == /\ import.pc = "rows"
         /\ IF import.kind = "database" THEN Unread = {} ELSE 1 \notin Unread

Imported(r) ==
  IF <<r.session, r.revision>> \in Unsyncable
  THEN [db EXCEPT !.handled[r.session] = r.revision]
  ELSE Ingested(db, r.session, r.revision)

Later(k, l) == IF Less(k, l) THEN l ELSE k

Store ==
  LET r == Head(import.rows) IN
    /\ Ready
    /\ Commit(Imported(r))
    /\ import' =
         IF import.kind = "server"
         THEN [import EXCEPT !.rows = Tail(@), !.last = Later(@, RowKey(r)),
                             !.pc = IF Less(import.last, RowKey(r)) THEN "save"
                                    ELSE IF Len(import.rows) > 1 THEN "rows" ELSE "idle"]
         ELSE [import EXCEPT !.rows = Tail(@), !.last = RowKey(r),
                             !.pc = IF Len(import.rows) > 1 THEN "rows" ELSE "save"]
    /\ UNCHANGED <<backend, backup, archive, repair, repairError, backups, restores, prunes, stops,
                   source, clock, listed, exempt, late>>

(* Mistaken variant: the cursor moves past the conversation that failed. *)
FailPast ==
  /\ Ready
  /\ <<Head(import.rows).session, Head(import.rows).revision>> \in MayFail
  /\ import' = [import EXCEPT !.rows = <<>>, !.pc = "save",
                              !.last = RowKey(Head(import.rows))]
  /\ UNCHANGED <<storeVars, source, clock, listed, exempt, late>>

(* An error ends the loop; the database import still saves its cursor. *)
Fail ==
  /\ Ready
  /\ <<Head(import.rows).session, Head(import.rows).revision>> \in MayFail
  /\ import' = IF import.kind = "server" THEN NoImport(import.kind)
               ELSE [import EXCEPT !.rows = <<>>, !.pc = "save"]
  /\ UNCHANGED <<storeVars, source, clock, listed, exempt, late>>

SaveCursor ==
  /\ import.pc = "save"
  /\ Commit([db EXCEPT !.cursor = import.last])
  /\ import' = IF import.rows = <<>> THEN NoImport(import.kind) ELSE [import EXCEPT !.pc = "rows"]
  /\ UNCHANGED <<backend, backup, archive, repair, repairError, backups, restores, prunes, stops,
                 source, clock, listed, exempt, late>>

(* Killed, or the source is unreachable. *)
StopImport ==
  /\ import.pc # "idle"
  /\ stops < MaxStops
  /\ stops' = stops + 1
  /\ import' = NoImport(import.kind)
  /\ UNCHANGED <<backend, db, backup, archive, written, repair, repairError, backups, restores, prunes,
                 source, clock, listed, exempt, late>>

(* Both importers keep cursors of their own; one of them is in use. *)
Listing ==
  \/ Begin \/ ListAgain
  \/ \E since \in {0, MaxClock}, limit \in Limits : Start(since, limit)
  \/ \E page \in SUBSET Sessions :
       \/ Page(page)
       \/ \E since \in {0, MaxClock}, limit \in Limits : LastPage(page, since, limit)

RestoreIdle == import.pc = "idle" /\ Restore

-----------------------------------------------------------------------------
Init ==
  /\ StoreInit
  /\ clock \in 1 .. MaxClock /\ listed = FALSE
  /\ source \in [Sessions -> {[revision |-> 1, updated_at |-> t] : t \in 1 .. clock}]
  /\ \E deployment \in Deployments :
       backend = deployment.backend /\ import = NoImport(deployment.importer)
  /\ exempt = {} /\ late = 0

Next ==
  \/ Tick
  \/ \E s \in Sessions : Change(s) \/ \E r \in 1 .. source[s].revision : Capture(s, r)
  \/ Listing
  \/ Read \/ Store \/ Fail \/ SaveCursor \/ StopImport
  \/ StoreNext /\ UNCHANGED importVars
  \/ RestoreIdle /\ UNCHANGED importVars

Spec == Init /\ [][Next]_vars
FairSpec == Spec /\ StoreFairness

-----------------------------------------------------------------------------
(* PROPERTIES *)

(* The cursor passes only what was handled: a conversation at or before it *)
(* is stored, or skipped, as the source has it.  Not so, and therefore     *)
(* exempt: what --since-days left out; a change in a second that an import *)
(* had already listed; a change while the server was being listed that the *)
(* list does not show although a later key is imported; and a conversation *)
(* over which a capture stored an older revision.                          *)
CursorCovers ==
  \A s \in Sessions \ exempt :
    ~AfterCursor(s) => db.handled[s] = source[s].revision
=============================================================================
