---------------------------- MODULE ImportCursorProofs ----------------------------
(***************************************************************************)
(* Proof that the cursor of an import passes only what was handled, for    *)
(* every set of sessions, both importers, every --since-days and --limit,  *)
(* every way the pages of a server can show sessions that change while     *)
(* they are listed, and every mixture of imports, native capture, early or *)
(* late, failures, stops, backups and restores.                            *)
(*                                                                         *)
(* CursorCovers is not inductive: the cursor of the next save is decided   *)
(* by rows that were listed long before.  CursorInv says the same of the   *)
(* backup and of the cursor the import will save, that the rows leave      *)
(* nothing out (InTurn), and that a conversation which changed since its   *)
(* row was read is after all of them, or exempt (Current).  The last part  *)
(* rests on time: a change carries the second it happens in, and whatever  *)
(* was listed in an earlier second is before it (Past).  While a server is *)
(* still being listed there are no rows yet, and what the pages show is    *)
(* not later than the clock.                                               *)
(***************************************************************************)
EXTENDS SessionImportProofs

(* Before this second, or in it if an import has listed it: a change now   *)
(* comes after it or is exempt.                                            *)
Past(k) == k[1] <= clock /\ (~listed => k[1] < clock)

(* The database d has handled what is at or before k. *)
Covers(d, k) ==
  \A s \in Sessions \ exempt : ~Less(k, Key(s)) => d.handled[s] = source[s].revision

Keyed(d) == d.cursor \in Nat \X Nat /\ d.handled \in [Sessions -> Nat]

RowAt(i) == import.rows[i]
Listed   == 1 .. Len(import.rows)

Times ==
  /\ Keyed(db) /\ Keyed(backup) /\ import.last \in Nat \X Nat
  /\ import.kind \in {"database", "server"}
  /\ Past(db.cursor) /\ Past(backup.cursor) /\ Past(import.last)
  /\ \A i \in Listed : Past(RowKey(RowAt(i)))
  /\ \A s \in Sessions : source[s].updated_at <= clock
  /\ \A r \in import.found : r.updated_at <= clock

AllCovered ==
  /\ Covers(db, db.cursor) /\ Covers(backup, backup.cursor)
  /\ import.pc # "idle" => Covers(db, import.last)

(* The rows of an import are in order, and a conversation between its last *)
(* cursor and a row is one of the rows up to there, under its present key. *)
InTurn ==
  /\ import.pc \in {"idle", "list"} => import.rows = <<>>
  /\ import.pc = "list" => import.kind = "server"
  /\ \A i, j \in Listed : i < j => Less(RowKey(RowAt(i)), RowKey(RowAt(j)))
  /\ import.kind = "database" => \A i \in Listed : Less(import.last, RowKey(RowAt(i)))
  /\ \A k \in Listed, s \in Sessions \ exempt :
       Less(import.last, Key(s)) /\ ~Less(RowKey(RowAt(k)), Key(s)) =>
         \E i \in 1 .. k : RowAt(i).session = s /\ RowKey(RowAt(i)) = Key(s)

(* A conversation that changed since its row was read is exempt, or after  *)
(* everything the import can still write as a cursor.                      *)
Newer(s) ==
  /\ Less(db.cursor, Key(s)) /\ Less(import.last, Key(s))
  /\ \A j \in Listed : Less(RowKey(RowAt(j)), Key(s))

Fits(i) ==
  LET s == RowAt(i).session IN
    \/ s \in exempt
    \/ RowAt(i).revision \in {0, source[s].revision}
    \/ Newer(s)

Current == \A i \in Listed : Fits(i)

CursorInv == Times /\ AllCovered /\ InTurn /\ Current
-----------------------------------------------------------------------------
(* KEYS *)

(* Keys are ordered by second, then by session. *)
LEMMA LessFacts ==
  ASSUME NEW k \in Nat \X Nat, NEW l \in Nat \X Nat, NEW m \in Nat \X Nat
  PROVE  /\ ~Less(k, k)
         /\ Less(k, l) /\ Less(l, m) => Less(k, m)
         /\ Less(k, l) \/ k = l \/ Less(l, k)
<1>1. /\ k[1] \in Nat /\ k[2] \in Nat /\ l[1] \in Nat /\ l[2] \in Nat /\ m[1] \in Nat /\ m[2] \in Nat
      /\ k = <<k[1], k[2]>> /\ l = <<l[1], l[2]>>
  OBVIOUS
<1>2. ~Less(k, k)
  BY <1>1 DEF Less
<1>3. Less(k, l) /\ Less(l, m) => Less(k, m)
  BY <1>1 DEF Less
<1>4. Less(k, l) \/ k = l \/ Less(l, k)
  BY <1>1 DEF Less
<1> QED BY <1>2, <1>3, <1>4

(* The keys of conversations and of rows are keys. *)
LEMMA KeyTypes ==
  ASSUME Sourced
  PROVE  /\ \A s \in Sessions : Key(s) \in Nat \X Nat /\ source[s].revision \in Nat
         /\ Len(import.rows) \in Nat
         /\ \A i \in Listed : /\ RowAt(i) \in Row /\ RowAt(i).session \in Sessions
                              /\ RowKey(RowAt(i)) \in Nat \X Nat
         /\ \A r \in import.found : r.updated_at \in Nat
<1>1. \A s \in Sessions : Key(s) \in Nat \X Nat /\ source[s].revision \in Nat
  BY SourceAssumption DEF Sourced, Key
<1>2. Len(import.rows) \in Nat /\ \A i \in Listed : RowAt(i) \in Row
  <2>1. PICK q : q = import.rows
    OBVIOUS
  <2>2. q \in Seq(Row)
    BY <2>1 DEF Sourced, Rows
  <2>3. Len(q) \in Nat /\ \A i \in 1 .. Len(q) : q[i] \in Row
    BY <2>2
  <2> QED BY <2>1, <2>3 DEF Listed, RowAt
<1>3. \A i \in Listed : /\ RowAt(i).session \in Sessions /\ RowKey(RowAt(i)) \in Nat \X Nat
  BY <1>2, SourceAssumption DEF Row, RowKey
<1>4. \A r \in import.found : r.updated_at \in Nat
  BY DEF Sourced, Fresh, Row
<1> QED BY <1>1, <1>2, <1>3, <1>4

(* A change in a second that no import has listed is after what is past. *)
LEMMA PastIsLess ==
  ASSUME NEW k \in Nat \X Nat, Past(k), ~listed, NEW l, l[1] = clock
  PROVE  Less(k, l)
  BY DEF Past, Less

-----------------------------------------------------------------------------
(* WHAT A STEP OUTSIDE THE IMPORT CHANGES *)

(* Ingesting a session keeps the cursor. *)
LEMMA IngestMarks ==
  ASSUME NEW d, Shaped(d), d.handled \in [Sessions -> Nat], NEW s \in Sessions, NEW r \in Nat,
         NEW e, e = Ingested(d, s, r)
  PROVE  e.cursor = d.cursor /\ e.handled = [d.handled EXCEPT ![s] = r]
<1>1. d = [field \in DatabaseFields |-> d[field]]
  BY DEF Shaped
<1>2. CASE d.revision[s] = r
  <2>1. e = [d EXCEPT !.handled[s] = r]
    BY <1>2 DEF Ingested
  <2> QED BY <1>1, <2>1 DEF DatabaseFields
<1>3. CASE d.revision[s] # r
  <2>1. PICK new : new = [d EXCEPT !.versions[s] = Appended(d, s, r)]
    OBVIOUS
  <2>2. new = [field \in DatabaseFields |-> new[field]] /\ new.cursor = d.cursor /\ new.handled = d.handled
    BY <1>1, <2>1 DEF DatabaseFields
  <2>3. PICK active, chunks, queued :
          e = [new EXCEPT !.revision[s] = r, !.active[s] = active, !.chunks = chunks,
                          !.queued = queued, !.handled[s]  = r]
    BY <1>3, <2>1, Zenon DEF Ingested
  <2> QED BY <2>2, <2>3 DEF DatabaseFields
<1> QED BY <1>2, <1>3

(* Transactions of the store leave the import alone; a restore, which runs *)
(* alone, brings back cursor and history together.                         *)
LEMMA CursorQuiet ==
  ASSUME CursorInv, UNCHANGED importVars,
         \/ db'.cursor = db.cursor /\ db'.handled = db.handled
         \/ /\ import.pc = "idle"
            /\ db'.cursor = backup.cursor /\ db'.handled = backup.handled,
         \/ backup'.cursor = backup.cursor /\ backup'.handled = backup.handled
         \/ backup'.cursor = db.cursor /\ backup'.handled = db.handled
  PROVE  CursorInv'
<1>1. /\ \A s : Key(s)' = Key(s)
      /\ \A i : RowAt(i)' = RowAt(i)
      /\ Listed' = Listed /\ \A k : Past(k)' <=> Past(k)
  BY DEF importVars, Key, RowAt, Listed, Past
<1>2. source' = source /\ clock' = clock /\ import' = import /\ exempt' = exempt
  BY DEF importVars
<1>3. Times'
  BY <1>1, <1>2 DEF CursorInv, Times, Keyed
<1>4. AllCovered'
  BY <1>1, <1>2 DEF CursorInv, AllCovered, Covers
<1>5. InTurn'
  BY <1>1, <1>2 DEF CursorInv, InTurn
<1>6. Current'
  <2>1. CASE import.pc = "idle"
    BY <1>2, <2>1 DEF CursorInv, InTurn, Current, Listed
  <2>2. CASE db'.cursor = db.cursor
    BY <1>1, <1>2, <2>2 DEF CursorInv, Current, Fits, Newer
  <2> QED BY <2>1, <2>2
<1> QED BY <1>3, <1>4, <1>5, <1>6 DEF CursorInv
-----------------------------------------------------------------------------
(* THE STORE, THE SOURCE AND NATIVE CAPTURE *)

(* Repair, delivery, retention and backup keep the cursor and what was    *)
(* handled; a restore, with no import running, brings back the backup's.   *)
LEMMA CursorStore ==
  ASSUME ImportInv, CursorInv, StoreNext \/ RestoreIdle, UNCHANGED importVars
  PROVE  CursorInv'
<1>0. /\ db = [field \in DatabaseFields |-> db[field]]
      /\ backup = [field \in DatabaseFields |-> backup[field]]
  BY DEF ImportInv, StoreInv, Sound, Shaped
<1> DEFINE SameDb == db'.cursor = db.cursor /\ db'.handled = db.handled
           SameBackup == backup'.cursor = backup.cursor /\ backup'.handled = backup.handled
<1>1. ASSUME NEW w \in Repairers, RepairCheck(w) \/ StopRepair(w) PROVE SameDb /\ SameBackup
  BY <1>1 DEF RepairCheck, StopRepair
<1>2. ASSUME NEW w \in Repairers, RepairWrite(w) PROVE SameDb /\ SameBackup
  <2>1. PICK chunks : db' = db \/ db' = [db EXCEPT !.chunks = chunks]
    BY <1>2 DEF RepairWrite
  <2>2. SameDb
    BY <1>0, <2>1 DEF DatabaseFields
  <2> QED BY <1>2, <2>2 DEF RepairWrite
<1>3. ASSUME Deliver PROVE SameDb /\ SameBackup
  <2>1. PICK queued, acked : db' = [db EXCEPT !.queued = queued, !.acked = acked]
    BY <1>3 DEF Deliver
  <2>2. SameDb
    BY <1>0, <2>1 DEF DatabaseFields
  <2> QED BY <1>3, <2>2 DEF Deliver
<1>4. ASSUME Backup PROVE SameDb /\ backup'.cursor = db.cursor /\ backup'.handled = db.handled
  <2>1. backup' = [db EXCEPT !.chunks = {}] /\ db' = db
    BY <1>4 DEF Backup, BackupOf
  <2> QED BY <1>0, <2>1 DEF DatabaseFields
<1>5. ASSUME NEW gone \in SUBSET Sessions, Prune(gone) PROVE SameDb /\ SameBackup
  <2>1. PICK revision, versions, active, chunks, acked :
          db' = [db EXCEPT !.revision = revision, !.versions = versions, !.active = active,
                           !.chunks = chunks, !.acked = acked]
    BY <1>5, Zenon DEF Prune, Without
  <2>2. SameDb
    BY <1>0, <2>1 DEF DatabaseFields
  <2> QED BY <1>5, <2>2 DEF Prune
<1>6. ASSUME RestoreIdle
      PROVE  import.pc = "idle" /\ db'.cursor = backup.cursor /\ db'.handled = backup.handled /\ SameBackup
  BY <1>6 DEF RestoreIdle, Restore
<1> QED BY <1>1, <1>2, <1>3, <1>4, <1>5, <1>6, CursorQuiet DEF StoreNext

(* With a new second everything listed so far is in the past. *)
LEMMA CursorTick ==
  ASSUME ImportInv, CursorInv, Tick
  PROVE  CursorInv'
<1>1. /\ \A s : Key(s)' = Key(s)
      /\ \A i : RowAt(i)' = RowAt(i)
      /\ Listed' = Listed
  BY DEF Tick, Key, RowAt, Listed
<1>2. /\ source' = source /\ clock' = clock + 1 /\ import' = import /\ exempt' = exempt
      /\ db' = db /\ backup' = backup /\ ~listed' /\ clock \in Nat
  BY DEF Tick, storeVars, ImportInv, Sourced
<1>3. ASSUME NEW k \in Nat \X Nat, Past(k) PROVE Past(k)'
  BY <1>2, <1>3 DEF Past
<1>4. \A i \in Listed : RowKey(RowAt(i)) \in Nat \X Nat
  BY KeyTypes DEF ImportInv
<1>5. \A i \in Listed' : Past(RowKey(RowAt(i)))'
  <2> SUFFICES ASSUME NEW i \in Listed PROVE Past(RowKey(RowAt(i)))'
    BY <1>1
  <2>1. PICK k \in Nat \X Nat : k = RowKey(RowAt(i))
    BY <1>4
  <2>2. Past(k)'
    BY <1>3, <2>1 DEF CursorInv, Times
  <2> QED BY <1>1, <2>1, <2>2 DEF RowKey, Past
<1>6. Past(db.cursor)' /\ Past(backup.cursor)' /\ Past(import.last)'
  <2>1. PICK k, l, m : k = db.cursor /\ l = backup.cursor /\ m = import.last
    OBVIOUS
  <2>2. Past(k)' /\ Past(l)' /\ Past(m)'
    BY <1>3, <2>1 DEF CursorInv, Times, Keyed
  <2> QED BY <1>2, <2>1, <2>2 DEF Past
<1>7. Times'
  <2>1. \A s \in Sessions : source[s].updated_at <= clock + 1
    BY <1>2 DEF CursorInv, Times, ImportInv, Sourced
  <2>2. \A r \in import.found : r.updated_at <= clock + 1
    BY <1>2, KeyTypes DEF CursorInv, Times, ImportInv
  <2> QED BY <1>2, <1>5, <1>6, <2>1, <2>2 DEF CursorInv, Times, Keyed
<1>8. AllCovered' /\ InTurn'
  BY <1>1, <1>2 DEF CursorInv, AllCovered, Covers, InTurn
<1>9. Current'
  BY <1>1, <1>2 DEF CursorInv, Current, Fits, Newer
<1> QED BY <1>7, <1>8, <1>9 DEF CursorInv

(* A conversation that changes is exempt, or newer than everything else.   *)
LEMMA CursorChange ==
  ASSUME ImportInv, CursorInv, NEW c \in Sessions, Change(c)
  PROVE  CursorInv'
<1>0. Sourced /\ source \in [Sessions -> [revision : Nat, updated_at : Nat]] /\ clock \in Nat
  BY DEF ImportInv, Sourced
<1>1. /\ import'.rows = import.rows /\ import'.pc = import.pc /\ import'.kind = import.kind
      /\ import'.last = import.last /\ import'.found = import.found
  <2>1. PICK moved : import' = import \/ import' = [import EXCEPT !.moved = moved]
    BY DEF Change
  <2>2. import = [field \in ImportFields |-> import[field]]
    BY <1>0 DEF Sourced
  <2> QED BY <2>1, <2>2 DEF ImportFields
<1>2. /\ \A i : RowAt(i)' = RowAt(i)
      /\ Listed' = Listed /\ \A k : Past(k)' <=> Past(k)
  BY <1>1 DEF Change, RowAt, Listed, Past
<1>3. /\ clock' = clock /\ db' = db /\ backup' = backup
      /\ import'.rows = import.rows /\ import'.pc = import.pc /\ import'.kind = import.kind
      /\ import'.last = import.last /\ import'.found = import.found
      /\ exempt' \subseteq exempt \cup {c}
      /\ exempt \subseteq exempt' \cup {c}
      /\ ~listed \/ c \in exempt'
  BY <1>1 DEF Change, storeVars
<1>4. /\ \A s \in Sessions \ {c} : source'[s] = source[s]
      /\ source'[c].updated_at = clock
  BY <1>0 DEF Change
<1>5. \A s \in Sessions \ {c} : Key(s)' = Key(s)
  BY <1>4 DEF Key
<1>6. ASSUME c \notin exempt', NEW k \in Nat \X Nat, Past(k) PROVE Less(k, Key(c)')
  <2>1. PICK l : l = Key(c)'
    OBVIOUS
  <2>2. l[1] = clock
    BY <1>4, <2>1 DEF Key
  <2> QED BY <1>3, <1>6, <2>1, <2>2, PastIsLess
<1>7. Times'
  <2>1. \A s \in Sessions : source'[s].updated_at <= clock
    <3> SUFFICES ASSUME NEW s \in Sessions PROVE source'[s].updated_at <= clock
      OBVIOUS
    <3>1. CASE s = c
      BY <1>0, <1>4, <3>1
    <3>2. CASE s # c
      BY <1>4, <3>2 DEF CursorInv, Times
    <3> QED BY <3>1, <3>2
  <2> QED BY <1>2, <1>3, <2>1 DEF CursorInv, Times, Keyed
<1>8. ASSUME NEW d, NEW k \in Nat \X Nat, Past(k), Covers(d, k),
             NEW s \in Sessions \ exempt', ~Less(k, Key(s)')
      PROVE  d.handled[s] = source'[s].revision
  <2>1. CASE s = c
    BY <1>6, <1>8, <2>1
  <2>2. CASE s # c
    <3>1. Key(s)' = Key(s) /\ source'[s] = source[s] /\ s \in Sessions \ exempt
      BY <1>3, <1>4, <1>5, <2>2
    <3> QED BY <1>8, <3>1 DEF Covers
  <2> QED BY <2>1, <2>2
<1>9. AllCovered'
  <2>1. \A d : \A k \in Nat \X Nat : Past(k) /\ Covers(d, k) =>
          \A s \in Sessions \ exempt' : ~Less(k, Key(s)') => d.handled[s] = source'[s].revision
    BY <1>8
  <2>2. /\ db.cursor \in Nat \X Nat /\ backup.cursor \in Nat \X Nat /\ import.last \in Nat \X Nat
        /\ Past(db.cursor) /\ Past(backup.cursor) /\ Past(import.last)
        /\ Covers(db, db.cursor) /\ Covers(backup, backup.cursor)
        /\ import.pc # "idle" => Covers(db, import.last)
    BY DEF CursorInv, AllCovered, Times, Keyed
  <2>3. Covers(db, db.cursor)'
    BY <1>3, <2>1, <2>2 DEF Covers
  <2>4. Covers(backup, backup.cursor)'
    BY <1>3, <2>1, <2>2 DEF Covers
  <2>5. import.pc # "idle" => Covers(db, import.last)'
    BY <1>3, <2>1, <2>2 DEF Covers
  <2> QED BY <1>3, <2>3, <2>4, <2>5 DEF AllCovered
<1>10. \A i \in Listed : RowKey(RowAt(i)) \in Nat \X Nat /\ Past(RowKey(RowAt(i)))
  BY <1>0, KeyTypes DEF CursorInv, Times
<1>11. InTurn'
  <2>1. ASSUME NEW k \in Listed, NEW s \in Sessions \ exempt',
               Less(import.last, Key(s)'), ~Less(RowKey(RowAt(k)), Key(s)')
        PROVE  \E i \in 1 .. k : RowAt(i).session = s /\ RowKey(RowAt(i)) = Key(s)'
    <3>1. CASE s = c
      BY <1>6, <1>10, <2>1, <3>1
    <3>2. CASE s # c
      <4>1. Key(s)' = Key(s) /\ s \in Sessions \ exempt
        BY <1>3, <1>5, <3>2
      <4>2. \E i \in 1 .. k : RowAt(i).session = s /\ RowKey(RowAt(i)) = Key(s)
        BY <2>1, <4>1 DEF CursorInv, InTurn
      <4> QED BY <4>1, <4>2
    <3> QED BY <3>1, <3>2
  <2>2. \A i : RowKey(RowAt(i))' = RowKey(RowAt(i))
    BY <1>2 DEF RowKey
  <2> QED BY <1>2, <1>3, <2>1, <2>2 DEF CursorInv, InTurn
<1>12. Current'
  <2> SUFFICES ASSUME NEW i \in Listed PROVE Fits(i)'
    BY <1>2 DEF Current
  <2>1. RowAt(i).session \in Sessions
    BY <1>0, KeyTypes
  <2>2. CASE RowAt(i).session = c
    <3>1. CASE c \in exempt'
      BY <1>2, <2>2, <3>1 DEF Fits
    <3>2. CASE c \notin exempt'
      <4>1. Newer(c)'
        BY <1>2, <1>3, <1>6, <1>10, <3>2 DEF Newer, CursorInv, Times, Keyed
      <4> QED BY <1>2, <2>2, <4>1 DEF Fits
    <3> QED BY <3>1, <3>2
  <2>3. CASE RowAt(i).session # c
    <3>1. PICK s \in Sessions \ {c} : s = RowAt(i).session
      BY <2>1, <2>3
    <3>2. Key(s)' = Key(s) /\ source'[s] = source[s]
      BY <1>4, <1>5
    <3>3. Newer(s) => Newer(s)'
      BY <1>2, <1>3, <3>2 DEF Newer
    <3>4. s \in exempt => s \in exempt'
      BY <1>3
    <3>5. Fits(i)
      BY DEF CursorInv, Current
    <3> QED BY <1>2, <3>1, <3>2, <3>3, <3>4, <3>5 DEF Fits
  <2> QED BY <2>2, <2>3
<1> QED BY <1>7, <1>9, <1>11, <1>12 DEF CursorInv

(* Native capture handles the latest revision; one that stores an older    *)
(* revision over a newer one exempts its conversation.                     *)
LEMMA CursorCapture ==
  ASSUME ImportInv, CursorInv, NEW c \in Sessions, NEW r \in 1 .. source[c].revision, Capture(c, r)
  PROVE  CursorInv'
<1>0. Sourced /\ Shaped(db) /\ source[c].revision \in Nat /\ r \in Nat /\ db.handled \in [Sessions -> Nat]
  BY KeyTypes DEF ImportInv, StoreInv, Sound, CursorInv, Times, Keyed
<1>1. /\ \A s : Key(s)' = Key(s)
      /\ \A i : RowAt(i)' = RowAt(i) /\ RowKey(RowAt(i))' = RowKey(RowAt(i))
      /\ Listed' = Listed /\ \A k : Past(k)' <=> Past(k)
  BY DEF Capture, Key, RowAt, RowKey, Listed, Past
<1>2. /\ source' = source /\ clock' = clock /\ import' = import
      /\ exempt \subseteq exempt' /\ (c \notin exempt' => ~(r < db.handled[c]))
      /\ backup' = backup /\ db' = Ingested(db, c, r)
  BY DEF Capture, Commit
<1>3. db'.cursor = db.cursor /\ db'.handled = [db.handled EXCEPT ![c] = r]
  BY <1>0, <1>2, IngestMarks
<1>4. Times'
  <2>1. db'.handled \in [Sessions -> Nat]
    BY <1>0, <1>3
  <2> QED BY <1>1, <1>2, <1>3, <2>1 DEF CursorInv, Times, Keyed
<1>5. \A k : Covers(db, k) => Covers(db, k)'
  <2> SUFFICES ASSUME NEW k, Covers(db, k), NEW s \in Sessions \ exempt', ~Less(k, Key(s))
               PROVE  db'.handled[s] = source[s].revision
    BY <1>1, <1>2 DEF Covers
  <2>1. db.handled[s] = source[s].revision
    BY <1>2 DEF Covers
  <2>2. CASE s = c
    <3>1. ~(r < source[c].revision) /\ r \in 1 .. source[c].revision
      BY <1>2, <2>1, <2>2
    <3>2. r = source[c].revision
      BY <1>0, <3>1
    <3> QED BY <1>0, <1>3, <2>2, <3>2
  <2>3. CASE s # c
    BY <1>0, <1>3, <2>1, <2>3
  <2> QED BY <2>2, <2>3
<1>6. AllCovered'
  <2>1. Covers(backup, backup.cursor)'
    BY <1>1, <1>2 DEF CursorInv, AllCovered, Covers
  <2>2. Covers(db, db.cursor)' /\ (import.pc # "idle" => Covers(db, import.last)')
    BY <1>1, <1>2, <1>3, <1>5 DEF CursorInv, AllCovered, Covers
  <2> QED BY <1>2, <2>1, <2>2 DEF AllCovered
<1>7. InTurn'
  BY <1>1, <1>2 DEF CursorInv, InTurn
<1>8. Current'
  BY <1>1, <1>2, <1>3 DEF CursorInv, Current, Fits, Newer
<1> QED BY <1>4, <1>6, <1>7, <1>8 DEF CursorInv
-----------------------------------------------------------------------------
(* THE IMPORT *)

(* The keys of fresh rows are keys. *)
LEMMA FreshKeys ==
  ASSUME NEW S, Fresh(S)
  PROVE  /\ IsFiniteSet(S) /\ Cardinality(S) \in Nat
         /\ \A r \in S : /\ RowKey(r) \in Nat \X Nat /\ r.session \in Sessions /\ r.revision = 0
                         /\ RowKey(r)[1] = r.updated_at
<1>1. IsFiniteSet(S) /\ Cardinality(S) \in Nat
  BY FS_CardinalityType DEF Fresh
<1>2. \A r \in S : /\ RowKey(r) \in Nat \X Nat /\ r.session \in Sessions /\ r.revision = 0
                     /\ RowKey(r)[1] = r.updated_at
  BY SourceAssumption DEF Fresh, Row, RowKey
<1> QED BY <1>1, <1>2

(* A list of all elements of a finite set, each once, has each of them.    *)
LEMMA OrderIsOnto ==
  ASSUME NEW S, Fresh(S), NEW order \in Orders(S), NEW r \in S
  PROVE  \E i \in 1 .. Cardinality(S) : order[i] = r
<1> DEFINE T == 1 .. Cardinality(S)
<1>1. IsFiniteSet(S) /\ Cardinality(S) \in Nat
  BY FreshKeys
<1>2. order \in [T -> S] /\ \A i, j \in T : i < j => Less(RowKey(order[i]), RowKey(order[j]))
  BY DEF Orders
<1>3. \A i, j \in T : order[i] = order[j] => i = j
  <2> SUFFICES ASSUME NEW i \in T, NEW j \in T, order[i] = order[j], i # j PROVE FALSE
    OBVIOUS
  <2>1. i < j \/ j < i
    BY <1>1
  <2>2. RowKey(order[i]) \in Nat \X Nat /\ RowKey(order[j]) \in Nat \X Nat
    BY <1>2, FreshKeys
  <2>3. Less(RowKey(order[i]), RowKey(order[j])) \/ Less(RowKey(order[j]), RowKey(order[i]))
    BY <1>2, <2>1
  <2> QED BY <2>2, <2>3, LessFacts
<1>4. IsFiniteSet(T) /\ Cardinality(T) = Cardinality(S)
  BY <1>1, FS_Interval
<1>5. order \in Injection(T, S)
  BY <1>2, <1>3 DEF Injection, IsInjective
<1>6. order \in Surjection(T, S)
  BY <1>1, <1>4, <1>5, FS_Injection
<1> QED BY <1>6 DEF Surjection

(* An import starts on the first rows of a selection that leaves out       *)
(* nothing after the cursor but what is exempt or after all these rows.    *)
LEMMA CursorSelect ==
  ASSUME ImportInv, CursorInv, NEW S, Fresh(S), NEW order \in Orders(S),
         NEW limit \in Limits, NEW chosen, chosen = Limited(order, limit),
         NEW cursor \in Nat \X Nat, Past(cursor), Covers(db, cursor),
         import' = ToImport(import.kind, chosen, cursor),
         listed', exempt \subseteq exempt', UNCHANGED <<storeVars, source, clock>>,
         \A r \in S : r.updated_at <= clock,
         import.kind = "database" => \A r \in S : Less(cursor, RowKey(r)),
         \A k \in 1 .. Len(chosen), s \in Sessions \ exempt' :
           Less(cursor, Key(s)) /\ ~Less(RowKey(chosen[k]), Key(s)) => RowOf(s) \in S
  PROVE  CursorInv'
<1> DEFINE n == Len(chosen)
<1>1. Sourced /\ clock \in Nat
  BY DEF ImportInv, Sourced
<1>2. IsFiniteSet(S) /\ Cardinality(S) \in Nat
  BY FreshKeys
<1>3. /\ order \in [1 .. Cardinality(S) -> S]
      /\ \A i, j \in 1 .. Cardinality(S) : i < j => Less(RowKey(order[i]), RowKey(order[j]))
  BY DEF Orders
<1>4. /\ n \in 0 .. Cardinality(S) /\ \A i \in 1 .. n : chosen[i] = order[i] /\ chosen[i] \in S
      /\ \A i \in 1 .. n : i \in 1 .. Cardinality(S)
  <2>1. n \in 0 .. Cardinality(S) /\ \A i \in 1 .. n : chosen[i] = order[i] /\ chosen[i] \in S
    BY <1>2, <1>3, LimitedIsPrefix
  <2> QED BY <1>2, <2>1
<1>5. /\ import'.rows = chosen /\ import'.last = cursor /\ import'.kind = import.kind
      /\ import'.pc = "rows" /\ import'.found = {}
  BY DEF ToImport
<1>6. Listed' = 1 .. n /\ \A i : RowAt(i)' = chosen[i]
  BY <1>5 DEF Listed, RowAt
<1>7. /\ \A s : Key(s)' = Key(s)
      /\ source' = source /\ clock' = clock /\ db' = db /\ backup' = backup
  BY DEF Key, storeVars
<1>8. \A i \in 1 .. n : /\ RowAt(i)'.session \in Sessions /\ RowAt(i)'.revision = 0
                        /\ RowKey(RowAt(i))' = RowKey(chosen[i])
                        /\ RowKey(chosen[i])[1] <= clock
  BY <1>4, <1>6, FreshKeys DEF RowKey
<1> HIDE DEF n
<1>9. Times'
  <2>1. \A i \in 1 .. n : Past(RowKey(RowAt(i)))'
    BY <1>7, <1>8 DEF Past
  <2>2. Past(db.cursor)' /\ Past(backup.cursor)' /\ Past(import.last)'
    BY <1>5, <1>7 DEF CursorInv, Times, Past
  <2> QED BY <1>5, <1>6, <1>7, <2>1, <2>2 DEF CursorInv, Times, Keyed
<1>10. AllCovered'
  BY <1>5, <1>7 DEF CursorInv, AllCovered, Covers
<1>11. InTurn'
  <2>1. \A i, j \in 1 .. n : i < j => Less(RowKey(RowAt(i)), RowKey(RowAt(j)))'
    <3> SUFFICES ASSUME NEW i \in 1 .. n, NEW j \in 1 .. n, i < j
                 PROVE  Less(RowKey(RowAt(i)), RowKey(RowAt(j)))'
      OBVIOUS
    <3>1. Less(RowKey(chosen[i]), RowKey(chosen[j]))
      BY <1>3, <1>4
    <3> QED BY <1>8, <3>1 DEF Less
  <2>2. import.kind = "database" => \A i \in 1 .. n : Less(import.last, RowKey(RowAt(i)))'
    <3> SUFFICES ASSUME import.kind = "database", NEW i \in 1 .. n
                 PROVE  Less(import.last, RowKey(RowAt(i)))'
      OBVIOUS
    <3>1. Less(cursor, RowKey(chosen[i]))
      BY <1>4
    <3> QED BY <1>5, <1>8, <3>1 DEF Less
  <2>3. ASSUME NEW k \in 1 .. n, NEW s \in Sessions \ exempt',
               Less(import.last, Key(s))', ~Less(RowKey(RowAt(k)), Key(s))'
        PROVE  \E i \in 1 .. k : RowAt(i)'.session = s /\ RowKey(RowAt(i))' = Key(s)
    <3>1. Less(cursor, Key(s)) /\ ~Less(RowKey(chosen[k]), Key(s))
      BY <1>5, <1>7, <1>8, <2>3 DEF Less
    <3>2. RowOf(s) \in S
      BY <3>1 DEF n
    <3>3. PICK i \in 1 .. Cardinality(S) : order[i] = RowOf(s)
      BY <3>2, OrderIsOnto
    <3>4. RowKey(order[i]) = Key(s) /\ order[i].session = s
      BY <3>3 DEF RowOf, RowKey, Key
    <3>5. ~ (k < i)
      BY <1>3, <1>4, <3>1, <3>4
    <3>6. i \in 1 .. k /\ i \in 1 .. n
      BY <1>2, <1>4, <3>5
    <3> QED BY <1>4, <1>6, <1>8, <3>4, <3>6
  <2> QED BY <1>5, <1>6, <1>7, <2>1, <2>2, <2>3 DEF InTurn
<1>12. Current'
  BY <1>6, <1>8 DEF Current, Fits
<1> QED BY <1>9, <1>10, <1>11, <1>12 DEF CursorInv

(* An import from the database lists everything after the cursor, but what *)
(* --since-days leaves out, which is exempt.                               *)
LEMMA CursorStart ==
  ASSUME ImportInv, CursorInv, NEW since \in {0, MaxClock}, NEW limit \in Limits,
         Start(since, limit)
  PROVE  CursorInv'
<1>1. PICK rows, S : /\ rows = {RowOf(s) : s \in Sessions}
                     /\ S = Selected(rows, "database", db.cursor, since)
  OBVIOUS
<1>2. Sourced /\ clock \in Nat /\ since \in Nat
  BY ImportBoundAssumption DEF ImportInv, Sourced
<1>3. Fresh(rows) /\ Fresh(S)
  BY <1>1, <1>2, ShownFresh, SelectedFresh
<1>4. PICK order \in Orders(S) :
        /\ import.kind = "database" /\ import.pc = "idle"
        /\ import' = ToImport("database", Limited(order, limit), db.cursor)
        /\ listed' = TRUE
        /\ exempt' = exempt \cup {s \in Sessions : AfterCursor(s) /\ source[s].updated_at < since}
        /\ UNCHANGED <<storeVars, source, clock>>
  BY <1>1 DEF Start
<1>5. PICK chosen : chosen = Limited(order, limit)
  OBVIOUS
<1>6. db.cursor \in Nat \X Nat /\ Past(db.cursor) /\ Covers(db, db.cursor)
  BY DEF CursorInv, Times, Keyed, AllCovered
<1>7. \A r \in S : r.updated_at <= clock /\ Less(db.cursor, RowKey(r))
  BY <1>1 DEF Selected, RowOf, CursorInv, Times
<1>8. ASSUME NEW s \in Sessions \ exempt', Less(db.cursor, Key(s)) PROVE RowOf(s) \in S
  <2>1. RowKey(RowOf(s)) = Key(s) /\ RowOf(s).updated_at = source[s].updated_at
    BY DEF RowOf, RowKey, Key
  <2>2. source[s].updated_at \in Nat
    BY <1>2 DEF Sourced
  <2>3. ~(source[s].updated_at < since)
    BY <1>4, <1>8 DEF AfterCursor
  <2> QED BY <1>1, <1>2, <1>8, <2>1, <2>2, <2>3 DEF Selected
<1> QED BY <1>3, <1>4, <1>5, <1>6, <1>7, <1>8, CursorSelect

(* What the server shows while it is being listed changes no cursor. *)
LEMMA CursorList ==
  ASSUME ImportInv, CursorInv, UNCHANGED <<storeVars, source, clock, listed, exempt>>,
         import'.pc = "list", import'.kind = "server", import'.rows = <<>>,
         import'.last \in {db.cursor, import.last},
         import.pc = "idle" => import'.last = db.cursor,
         \A r \in import'.found : r.updated_at <= clock
  PROVE  CursorInv'
<1>1. Listed' = {}
  <2>1. Len(import'.rows) = 0
    BY EmptySeq
  <2> QED BY <2>1 DEF Listed
<1>2. /\ \A s : Key(s)' = Key(s)
      /\ \A k : Past(k)' <=> Past(k)
      /\ source' = source /\ clock' = clock /\ exempt' = exempt /\ db' = db /\ backup' = backup
  BY DEF Key, Past, storeVars
<1>3. import'.last \in Nat \X Nat /\ Past(import'.last) /\ Covers(db, import'.last)
  BY DEF CursorInv, Times, Keyed, AllCovered
<1>4. Past(import.last)'
  BY <1>3 DEF Past
<1>5. Times'
  BY <1>1, <1>2, <1>3, <1>4 DEF CursorInv, Times, Keyed
<1>6. AllCovered'
  BY <1>2, <1>3 DEF CursorInv, AllCovered, Covers
<1>7. InTurn' /\ Current'
  BY <1>1 DEF InTurn, Current
<1> QED BY <1>5, <1>6, <1>7 DEF CursorInv

LEMMA CursorPages ==
  ASSUME ImportInv, CursorInv,
         Begin \/ ListAgain \/ \E page \in SUBSET Sessions : Page(page)
  PROVE  CursorInv'
<1>0. import = [field \in ImportFields |-> import[field]]
  BY DEF ImportInv, Sourced
<1>1. CASE Begin
  <2>1. PICK y : y = NoImport("server")
    OBVIOUS
  <2>2. import' = [y EXCEPT !.pc = "list", !.last = db.cursor]
    BY <1>1, <2>1 DEF Begin
  <2>3. /\ import'.pc = "list" /\ import'.kind = "server" /\ import'.rows = <<>>
        /\ import'.last = db.cursor /\ import'.found = {}
    BY <2>1, <2>2 DEF NoImport
  <2>4. UNCHANGED <<storeVars, source, clock, listed, exempt>>
    BY <1>1 DEF Begin
  <2> QED BY <2>3, <2>4, CursorList
<1>2. ASSUME import.pc = "list", NEW found, NEW moved, \A r \in found : r.updated_at <= clock,
             \/ import' = [import EXCEPT !.found = found]
             \/ import' = [import EXCEPT !.found = found, !.moved = moved],
             UNCHANGED <<storeVars, source, clock, listed, exempt>>
      PROVE  CursorInv'
  <2>1. /\ import'.pc = "list" /\ import'.kind = import.kind /\ import'.rows = import.rows
        /\ import'.last = import.last /\ import'.found = found
    BY <1>0, <1>2 DEF ImportFields
  <2>2. import'.kind = "server" /\ import'.rows = <<>>
    BY <1>2, <2>1 DEF CursorInv, InTurn
  <2> QED BY <1>2, <2>1, <2>2, CursorList
<1>3. CASE ListAgain
  <2>1. PICK none : none = {}
    OBVIOUS
  <2>2. /\ import.pc = "list" /\ import' = [import EXCEPT !.found = none, !.moved = none]
        /\ UNCHANGED <<storeVars, source, clock, listed, exempt>>
    BY <1>3, <2>1 DEF ListAgain
  <2>3. \A r \in none : r.updated_at <= clock
    BY <2>1
  <2> QED BY <1>2, <2>2, <2>3
<1>4. ASSUME NEW page \in SUBSET Sessions, Page(page) PROVE CursorInv'
  <2>1. PICK found, moved : found = Found(page) /\ moved = {}
    OBVIOUS
  <2>2. \A r \in found : r.updated_at <= clock
    BY <2>1 DEF Found, RowOf, CursorInv, Times
  <2>3. /\ import.pc = "list" /\ import' = [import EXCEPT !.found = found]
        /\ UNCHANGED <<storeVars, source, clock, listed, exempt>>
    BY <1>4, <2>1 DEF Page
  <2> QED BY <1>2, <2>2, <2>3
<1> QED BY <1>1, <1>3, <1>4

(* A row that is read gets the revision the source has now. *)
LEMMA CursorRead ==
  ASSUME ImportInv, CursorInv, Read
  PROVE  CursorInv'
<1>0. Sourced
  BY DEF ImportInv
<1>1. PICK i, q : /\ q = [import.rows EXCEPT ![i].revision = source[import.rows[i].session].revision]
                  /\ import' = [import EXCEPT !.rows = q]
  BY DEF Read
<1>2. Len(q) = Len(import.rows)
  BY <1>0, <1>1, ReadRow
<1>3. /\ import'.rows = q /\ import'.pc = import.pc /\ import'.kind = import.kind
      /\ import'.last = import.last /\ import'.found = import.found /\ import.pc = "rows"
  BY <1>0, <1>1 DEF Sourced, ImportFields, Read
<1>4. Listed' = Listed
  BY <1>2, <1>3 DEF Listed
<1>5. \A j \in Listed : /\ RowAt(j)'.session = RowAt(j).session
                        /\ RowAt(j)'.updated_at = RowAt(j).updated_at
                        /\ RowAt(j)'.revision \in {RowAt(j).revision, source[RowAt(j).session].revision}
  <2> SUFFICES ASSUME NEW j \in Listed
               PROVE  /\ q[j].session = import.rows[j].session
                      /\ q[j].updated_at = import.rows[j].updated_at
                      /\ q[j].revision \in {import.rows[j].revision,
                                            source[import.rows[j].session].revision}
    BY <1>3 DEF RowAt
  <2>1. PICK rows : rows = import.rows
    OBVIOUS
  <2>2. rows \in Seq(Row) /\ j \in DOMAIN rows
    BY <1>0, <2>1 DEF Sourced, Rows, Listed
  <2>3. rows[j] \in Row
    BY <1>0, <2>1, KeyTypes DEF RowAt
  <2>4. q[j] = IF i = j THEN [rows[j] EXCEPT !.revision = source[rows[j].session].revision] ELSE rows[j]
    BY <1>1, <2>1, <2>2
  <2> QED BY <2>1, <2>3, <2>4 DEF Row
<1>6. \A j \in Listed : RowKey(RowAt(j))' = RowKey(RowAt(j))
  BY <1>5 DEF RowKey
<1>7. /\ \A s : Key(s)' = Key(s)
      /\ \A k : Past(k)' <=> Past(k)
      /\ source' = source /\ clock' = clock /\ exempt' = exempt /\ db' = db /\ backup' = backup
  BY DEF Read, storeVars, Key, Past
<1>8. Times'
  <2>1. \A j \in Listed : Past(RowKey(RowAt(j)))'
    <3> SUFFICES ASSUME NEW j \in Listed PROVE Past(RowKey(RowAt(j)))'
      OBVIOUS
    <3>1. Past(RowKey(RowAt(j)))
      BY DEF CursorInv, Times
    <3> QED BY <1>6, <1>7, <3>1 DEF Past, Read
  <2> QED BY <1>3, <1>4, <1>7, <2>1 DEF CursorInv, Times, Keyed
<1>9. AllCovered'
  BY <1>3, <1>7 DEF CursorInv, AllCovered, Covers
<1>10. InTurn'
  <2>1. \A j, k \in Listed : j < k => Less(RowKey(RowAt(j)), RowKey(RowAt(k)))'
    BY <1>6 DEF CursorInv, InTurn, Less
  <2>2. import.kind = "database" => \A j \in Listed : Less(import.last, RowKey(RowAt(j)))'
    BY <1>3, <1>6 DEF CursorInv, InTurn, Less
  <2>3. ASSUME NEW k \in Listed, NEW s \in Sessions \ exempt,
               Less(import.last, Key(s))', ~Less(RowKey(RowAt(k)), Key(s))'
        PROVE  \E j \in 1 .. k : RowAt(j)'.session = s /\ RowKey(RowAt(j))' = Key(s)
    <3>1. Less(import.last, Key(s)) /\ ~Less(RowKey(RowAt(k)), Key(s))
      BY <1>3, <1>6, <1>7, <2>3 DEF Less
    <3>2. PICK j \in 1 .. k : RowAt(j).session = s /\ RowKey(RowAt(j)) = Key(s)
      BY <3>1 DEF CursorInv, InTurn
    <3>3. j \in Listed
      BY <1>0, KeyTypes DEF Listed
    <3> QED BY <1>5, <1>6, <3>2, <3>3
  <2> QED BY <1>3, <1>4, <1>7, <2>1, <2>2, <2>3 DEF InTurn
<1>11. Current'
  <2> SUFFICES ASSUME NEW j \in Listed PROVE Fits(j)'
    BY <1>4 DEF Current
  <2>1. PICK s : s = RowAt(j).session
    OBVIOUS
  <2>2. RowAt(j)'.session = s
    BY <1>5, <2>1
  <2>3. Fits(j)
    BY DEF CursorInv, Current
  <2>4. CASE s \in exempt
    BY <1>7, <2>2, <2>4 DEF Fits
  <2>5. CASE RowAt(j).revision \in {0, source[s].revision}
    BY <1>5, <1>7, <2>1, <2>2, <2>5 DEF Fits
  <2>6. CASE Newer(s)
    <3>1. Newer(s)'
      BY <1>3, <1>4, <1>6, <1>7, <2>6 DEF Newer, Less
    <3> QED BY <2>2, <3>1 DEF Fits
  <2> QED BY <2>1, <2>3, <2>4, <2>5, <2>6 DEF Fits
<1> QED BY <1>8, <1>9, <1>10, <1>11 DEF CursorInv

(* What storing the first row changes. *)
LEMMA StoreFacts ==
  ASSUME ImportInv, CursorInv, Store
  PROVE  /\ Len(import.rows) \in Nat /\ 1 \in Listed /\ RowAt(1).revision # 0
         /\ db'.cursor = db.cursor
         /\ db'.handled = [db.handled EXCEPT ![RowAt(1).session] = RowAt(1).revision]
         /\ RowAt(1).revision \in Nat
         /\ UNCHANGED <<backup, source, clock, listed, exempt>>
         /\ import'.kind = import.kind /\ import'.found = import.found /\ import'.pc # "list"
         /\ Len(import'.rows) = Len(import.rows) - 1
         /\ \A i \in 1 .. Len(import.rows) - 1 : RowAt(i)' = RowAt(i + 1)
         /\ import'.pc = "idle" => Len(import.rows) = 1
         /\ import'.last \in {import.last, RowKey(RowAt(1))}
         /\ ~Less(import'.last, import.last) /\ ~Less(import'.last, RowKey(RowAt(1)))
<1>0. Sourced /\ Shaped(db) /\ db.handled \in [Sessions -> Nat]
  BY DEF ImportInv, StoreInv, Sound, CursorInv, Times, Keyed
<1>1. PICK q, r : q = import.rows /\ r = Head(q)
  OBVIOUS
<1>2. import.pc = "rows" /\ Ready
  BY DEF Store, Ready
<1>3. q \in Seq(Row) /\ q # <<>> /\ Rows(q)
  BY <1>0, <1>1, <1>2 DEF Sourced, Rows
<1>4. Len(q) \in Nat /\ Len(q) > 0 /\ 1 \in 1 .. Len(q) /\ r = q[1]
  BY <1>1, <1>3, HeadTailProperties, EmptySeq
<1>5. r \in Row /\ r.revision \in Nat /\ r.session \in Sessions
  <2>1. r \in Row
    BY <1>3, <1>4
  <2> QED BY <2>1 DEF Row
<1>6. 1 \in Listed /\ RowAt(1) = r
  BY <1>1, <1>4 DEF Listed, RowAt
<1>7. r.revision # 0
  BY <1>1, <1>2, <1>4 DEF Ready, Unread
<1>8. /\ db'.cursor = db.cursor
      /\ db'.handled = [db.handled EXCEPT ![r.session] = r.revision]
  <2>1. db' = Imported(r)
    BY <1>1 DEF Store, Commit
  <2>2. CASE <<r.session, r.revision>> \in Unsyncable
    <3>1. db' = [db EXCEPT !.handled[r.session] = r.revision]
      BY <2>1, <2>2 DEF Imported
    <3>2. db = [field \in DatabaseFields |-> db[field]]
      BY <1>0 DEF Shaped
    <3> QED BY <3>1, <3>2 DEF DatabaseFields
  <2>3. CASE <<r.session, r.revision>> \notin Unsyncable
    <3>1. db' = Ingested(db, r.session, r.revision)
      BY <2>1, <2>3 DEF Imported
    <3> QED BY <1>0, <1>5, <3>1, IngestMarks
  <2> QED BY <2>2, <2>3
<1>9. /\ Len(Tail(q)) = Len(q) - 1
      /\ \A i \in 1 .. Len(q) - 1 : Tail(q)[i] = q[i + 1]
  BY <1>3, <1>4
<1>10. import = [field \in ImportFields |-> import[field]]
  BY <1>0 DEF Sourced
<1>11. /\ import'.kind = import.kind /\ import'.rows = Tail(q)
       /\ import'.found = import.found /\ import'.pc # "list"
       /\ import'.pc = "idle" => Len(q) = 1
       /\ import'.last \in {import.last, RowKey(r)}
       /\ import.kind # "server" => import'.last = RowKey(r)
       /\ import.kind = "server" => import'.last = Later(import.last, RowKey(r))
  <2>1. CASE import.kind = "server"
    <3>1. PICK pc : /\ import' = [import EXCEPT !.rows = Tail(q), !.last = Later(import.last, RowKey(r)),
                                                !.pc = pc]
                    /\ pc = IF Less(import.last, RowKey(r)) THEN "save"
                            ELSE IF Len(q) > 1 THEN "rows" ELSE "idle"
      BY <1>1, <2>1 DEF Store
    <3> QED BY <1>4, <1>10, <2>1, <3>1 DEF ImportFields, Later
  <2>2. CASE import.kind # "server"
    <3>1. PICK pc : /\ import' = [import EXCEPT !.rows = Tail(q), !.last = RowKey(r), !.pc = pc]
                    /\ pc = IF Len(q) > 1 THEN "rows" ELSE "save"
      BY <1>1, <2>2 DEF Store
    <3> QED BY <1>4, <1>10, <2>2, <3>1 DEF ImportFields
  <2> QED BY <2>1, <2>2
<1>12. ~Less(import'.last, import.last) /\ ~Less(import'.last, RowKey(r))
  <2>1. PICK k, l : k = import.last /\ l = RowKey(r)
    OBVIOUS
  <2>2. k \in Nat \X Nat /\ l \in Nat \X Nat
    BY <1>0, <1>6, <2>1, KeyTypes DEF CursorInv, Times
  <2>3. /\ ~Less(k, k) /\ ~Less(l, l) /\ ~(Less(k, l) /\ Less(l, k))
    BY <2>2, LessFacts
  <2>4. CASE import.kind = "server"
    BY <1>11, <2>1, <2>3, <2>4 DEF Later
  <2>5. CASE import.kind # "server"
    <3>1. Less(k, l)
      BY <1>6, <2>1, <2>5 DEF CursorInv, InTurn, Times
    <3> QED BY <1>11, <2>1, <2>3, <2>5, <3>1
  <2> QED BY <2>4, <2>5
<1>13. \A i \in 1 .. Len(import.rows) - 1 : RowAt(i)' = RowAt(i + 1)
  BY <1>1, <1>9, <1>11 DEF RowAt
<1>14. UNCHANGED <<backup, source, clock, listed, exempt>>
  BY DEF Store
<1> QED BY <1>1, <1>4, <1>5, <1>6, <1>7, <1>8, <1>9, <1>11, <1>12, <1>13, <1>14

(* Storing the first row keeps what the cursors cover: a conversation up   *)
(* to the new last cursor was covered before, or is the row's own.         *)
LEMMA CursorStores ==
  ASSUME ImportInv, CursorInv, Store
  PROVE  CursorInv'
<1>0. Sourced /\ db.handled \in [Sessions -> Nat] /\ db.cursor \in Nat \X Nat /\ import.last \in Nat \X Nat
  BY DEF ImportInv, CursorInv, Times, Keyed
<1>1. PICK m, new, one :
        /\ m = Len(import.rows) /\ m \in Nat /\ new = import'.last /\ one = RowAt(1).session
        /\ Listed = 1 .. m /\ Listed' = 1 .. m - 1 /\ 1 \in Listed
        /\ \A i \in 1 .. m - 1 : i + 1 \in Listed
  BY StoreFacts DEF Listed
<1>2. /\ \A s : Key(s)' = Key(s)
      /\ \A k : Past(k)' <=> Past(k)
      /\ source' = source /\ clock' = clock /\ exempt' = exempt /\ backup' = backup
      /\ db'.cursor = db.cursor /\ import'.kind = import.kind
      /\ import'.found = import.found /\ import'.pc # "list"
      /\ \A i \in 1 .. m - 1 : RowAt(i)' = RowAt(i + 1) /\ RowKey(RowAt(i))' = RowKey(RowAt(i + 1))
  BY <1>1, StoreFacts DEF Key, Past, RowKey
<1>3. /\ one \in Sessions /\ \A i \in Listed : RowKey(RowAt(i)) \in Nat \X Nat
      /\ \A s \in Sessions : Key(s) \in Nat \X Nat
  BY <1>0, <1>1, KeyTypes
<1>4. /\ new \in {import.last, RowKey(RowAt(1))} /\ new \in Nat \X Nat
      /\ ~Less(new, import.last) /\ ~Less(new, RowKey(RowAt(1)))
  BY <1>0, <1>1, <1>3, StoreFacts
<1>5. /\ db'.handled \in [Sessions -> Nat]
      /\ \A s \in Sessions \ {one} : db'.handled[s] = db.handled[s]
      /\ db'.handled[one] = RowAt(1).revision
  BY <1>0, <1>1, <1>3, StoreFacts
(* The stored conversation is handled, unless it is exempt or newer. *)
<1>6. \/ one \in exempt
      \/ db'.handled[one] = source[one].revision
      \/ Newer(one)
  <2>1. Fits(1) /\ RowAt(1).revision # 0
    BY <1>1, StoreFacts DEF CursorInv, Current
  <2> QED BY <1>1, <1>5, <2>1 DEF Fits
<1>7. Times'
  <2>1. \A i \in 1 .. m - 1 : Past(RowKey(RowAt(i)))'
    <3> SUFFICES ASSUME NEW i \in 1 .. m - 1 PROVE Past(RowKey(RowAt(i)))'
      OBVIOUS
    <3>1. Past(RowKey(RowAt(i + 1)))
      BY <1>1 DEF CursorInv, Times
    <3> QED BY <1>2, <3>1, StoreFacts DEF Past
  <2>2. Past(import.last)'
    <3>1. Past(new)
      BY <1>1, <1>4 DEF CursorInv, Times
    <3> QED BY <1>1, <1>2, <3>1, StoreFacts DEF Past
  <2> QED BY <1>1, <1>2, <1>4, <1>5, <2>1, <2>2 DEF CursorInv, Times, Keyed
<1>8. ASSUME NEW s \in Sessions \ exempt, ~Less(new, Key(s)), Covers(db, import.last)
      PROVE  db'.handled[s] = source[s].revision
  <2>1. CASE s = one
    <3>1. ~Newer(s)
      BY <1>1, <1>4, <1>8 DEF Newer
    <3> QED BY <1>6, <1>8, <2>1, <3>1
  <2>2. CASE s # one
    <3>1. CASE ~Less(import.last, Key(s))
      BY <1>5, <1>8, <2>2, <3>1 DEF Covers
    <3>2. CASE Less(import.last, Key(s))
      <4>1. ~Less(RowKey(RowAt(1)), Key(s))
        BY <1>4, <1>8, <3>2
      <4>2. PICK i \in 1 .. 1 : RowAt(i).session = s
        BY <1>1, <1>8, <3>2, <4>1 DEF CursorInv, InTurn
      <4> QED BY <1>1, <2>2, <4>2
    <3> QED BY <3>1, <3>2
  <2> QED BY <2>1, <2>2
<1>9. AllCovered'
  <2>1. Covers(backup, backup.cursor)'
    BY <1>2 DEF CursorInv, AllCovered, Covers
  <2>2. Covers(db, db.cursor)'
    <3> SUFFICES ASSUME NEW s \in Sessions \ exempt, ~Less(db.cursor, Key(s))
                 PROVE  db'.handled[s] = source[s].revision
      BY <1>2 DEF Covers
    <3>1. CASE s = one
      BY <1>6, <3>1 DEF Newer
    <3>2. CASE s # one
      BY <1>5, <3>2 DEF CursorInv, AllCovered, Covers
    <3> QED BY <3>1, <3>2
  <2>3. Covers(db, import.last)
    BY DEF CursorInv, AllCovered, Store, Ready
  <2>4. Covers(db, import.last)'
    <3> SUFFICES ASSUME NEW s \in Sessions \ exempt, ~Less(new, Key(s))
                 PROVE  db'.handled[s] = source[s].revision
      BY <1>1, <1>2 DEF Covers
    <3> QED BY <1>8, <2>3
  <2> QED BY <2>1, <2>2, <2>4 DEF AllCovered
<1>10. InTurn'
  <2>1. import'.pc \in {"idle", "list"} => import'.rows = <<>>
    <3>1. PICK q : q = import.rows
      OBVIOUS
    <3>2. import'.rows = Tail(q) /\ q \in Seq(Row) /\ q # <<>>
      BY <1>0, <3>1 DEF Store, Ready, Sourced, Rows, ImportFields
    <3>3. Len(q) = 1 => Tail(q) = <<>>
      BY <3>2, HeadTailProperties, EmptySeq
    <3> QED BY <1>2, <3>1, <3>2, <3>3, StoreFacts
  <2>2. \A i, j \in 1 .. m - 1 : i < j => Less(RowKey(RowAt(i)), RowKey(RowAt(j)))'
    <3> SUFFICES ASSUME NEW i \in 1 .. m - 1, NEW j \in 1 .. m - 1, i < j
                 PROVE  Less(RowKey(RowAt(i)), RowKey(RowAt(j)))'
      OBVIOUS
    <3>1. Less(RowKey(RowAt(i + 1)), RowKey(RowAt(j + 1)))
      BY <1>1 DEF CursorInv, InTurn
    <3> QED BY <1>2, <3>1 DEF Less
  <2>3. import.kind = "database" => \A i \in 1 .. m - 1 : Less(import.last, RowKey(RowAt(i)))'
    <3> SUFFICES ASSUME import.kind = "database", NEW i \in 1 .. m - 1
                 PROVE  Less(import.last, RowKey(RowAt(i)))'
      OBVIOUS
    <3>1. Less(import.last, RowKey(RowAt(i + 1))) /\ Less(RowKey(RowAt(1)), RowKey(RowAt(i + 1)))
      BY <1>1 DEF CursorInv, InTurn
    <3>2. Less(new, RowKey(RowAt(i + 1)))
      BY <1>4, <3>1
    <3> QED BY <1>1, <1>2, <3>2 DEF Less
  <2>4. ASSUME NEW k \in 1 .. m - 1, NEW s \in Sessions \ exempt,
               Less(import.last, Key(s))', ~Less(RowKey(RowAt(k)), Key(s))'
        PROVE  \E i \in 1 .. k : RowAt(i)'.session = s /\ RowKey(RowAt(i))' = Key(s)
    <3>1. Less(new, Key(s)) /\ ~Less(RowKey(RowAt(k + 1)), Key(s)) /\ k + 1 \in Listed
      BY <1>1, <1>2, <2>4 DEF Less
    <3>2. Less(import.last, Key(s))
      BY <1>0, <1>3, <1>4, <3>1, LessFacts
    <3>3. PICK i \in 1 .. k + 1 : RowAt(i).session = s /\ RowKey(RowAt(i)) = Key(s)
      BY <3>1, <3>2 DEF CursorInv, InTurn
    <3>4. i # 1
      <4> SUFFICES ASSUME i = 1 PROVE FALSE
        OBVIOUS
      <4>1. Less(new, RowKey(RowAt(1)))
        BY <3>1, <3>3
      <4> QED BY <1>4, <4>1
    <3>5. i - 1 \in 1 .. k /\ i - 1 \in 1 .. m - 1 /\ (i - 1) + 1 = i
      BY <1>1, <3>4
    <3> QED BY <1>2, <3>3, <3>5
  <2> QED BY <1>1, <1>2, <2>1, <2>2, <2>3, <2>4 DEF InTurn
<1>11. \A s \in Sessions : Newer(s) => Newer(s)'
  <2> SUFFICES ASSUME NEW s \in Sessions, Newer(s) PROVE Newer(s)'
    OBVIOUS
  <2>1. Less(new, Key(s)) /\ Less(db.cursor, Key(s))
    BY <1>1, <1>4 DEF Newer
  <2>2. \A j \in 1 .. m - 1 : Less(RowKey(RowAt(j + 1)), Key(s))
    BY <1>1 DEF Newer
  <2> QED BY <1>1, <1>2, <2>1, <2>2 DEF Newer, Less
<1>12. Current'
  <2> SUFFICES ASSUME NEW i \in 1 .. m - 1 PROVE Fits(i)'
    BY <1>1 DEF Current
  <2>1. Fits(i + 1) /\ RowAt(i + 1).session \in Sessions
    BY <1>0, <1>1, KeyTypes DEF CursorInv, Current
  <2> QED BY <1>2, <1>11, <2>1 DEF Fits
<1> QED BY <1>7, <1>9, <1>10, <1>12 DEF CursorInv
-----------------------------------------------------------------------------
(* THE END OF AN IMPORT *)

(* Without an import only the cursors that were saved have to be covered. *)
LEMMA CursorIdle ==
  ASSUME ImportInv, CursorInv, NEW kind \in {"database", "server"}, import' = NoImport(kind),
         UNCHANGED <<backup, source, clock, listed, exempt>>,
         Keyed(db)', Past(db.cursor)', Covers(db, db.cursor)'
  PROVE  CursorInv'
<1>0. clock \in Nat
  BY DEF ImportInv, Sourced
<1>1. /\ import'.pc = "idle" /\ import'.rows = <<>> /\ import'.last = <<0, 0>>
      /\ import'.kind = kind /\ import'.found = {}
  BY DEF NoImport
<1>2. Listed' = {}
  <2>1. Len(import'.rows) = 0
    BY <1>1, EmptySeq
  <2> QED BY <2>1 DEF Listed
<1>3. Past(<<0, 0>>)
  <2>1. db.cursor[1] \in Nat /\ Past(db.cursor)
    BY DEF CursorInv, Times, Keyed
  <2> QED BY <1>0, <2>1 DEF Past
<1>4. /\ Keyed(backup)' /\ Past(backup.cursor)' /\ Past(import.last)'
      /\ \A s \in Sessions : source'[s].updated_at <= clock'
  BY <1>1, <1>3 DEF CursorInv, Times, Keyed, Past
<1>5. Times'
  BY <1>1, <1>2, <1>4 DEF CursorInv, Times
<1>6. Covers(backup, backup.cursor)'
  BY DEF CursorInv, AllCovered, Covers, Key
<1>7. AllCovered'
  BY <1>1, <1>6 DEF AllCovered
<1>8. InTurn' /\ Current'
  BY <1>1, <1>2 DEF InTurn, Current
<1> QED BY <1>5, <1>7, <1>8 DEF CursorInv

(* The last page.  A conversation that a chosen row is not before is on    *)
(* the pages as it is now, or changed while they were read and is exempt.  *)
LEMMA CursorLastPage ==
  ASSUME ImportInv, CursorInv, NEW page \in SUBSET Sessions, NEW since, NEW limit \in Limits,
         LastPage(page, since, limit)
  PROVE  CursorInv'
<1>1. PICK found, S : found = Found(page) /\ S = Selected(found, "server", import.last, since)
  OBVIOUS
<1>2. Sourced /\ import.pc = "list" /\ import.kind = "server"
  BY DEF ImportInv, LastPage, CursorInv, InTurn
<1>3. Fresh(found) /\ Fresh(S)
  BY <1>1, <1>2, FoundFresh, SelectedFresh
<1>4. PICK order \in Orders(S) :
        /\ \A s \in Sessions \ import.moved : RowOf(s) \in found
        /\ order = <<>> => import' = NoImport("server") /\ UNCHANGED <<listed, exempt>>
        /\ order # <<>> =>
             /\ import' = ToImport("server", Limited(order, limit), import.last)
             /\ listed' = TRUE
             /\ exempt' = exempt \cup LeftBehind(found, Limited(order, limit))
        /\ UNCHANGED <<storeVars, source, clock>>
  BY <1>1 DEF LastPage
<1>5. CASE order = <<>>
  <2>1. Keyed(db)' /\ Past(db.cursor)' /\ Covers(db, db.cursor)'
    BY <1>4, <1>5 DEF CursorInv, Times, Keyed, Past, AllCovered, Covers, Key, storeVars
  <2>2. UNCHANGED <<backup, source, clock, listed, exempt>>
    BY <1>4, <1>5 DEF storeVars
  <2> QED BY <1>4, <1>5, <2>1, <2>2, CursorIdle
<1>6. CASE order # <<>>
  <2>1. PICK chosen, cursor : chosen = Limited(order, limit) /\ cursor = import.last
    OBVIOUS
  <2>2. cursor \in Nat \X Nat /\ Past(cursor) /\ Covers(db, cursor)
    BY <1>2, <2>1 DEF CursorInv, Times, AllCovered
  <2>3. \A r \in S : r.updated_at <= clock
    BY <1>1 DEF Selected, Found, RowOf, CursorInv, Times
  <2>4. ASSUME NEW k \in 1 .. Len(chosen), NEW s \in Sessions \ exempt',
               Less(cursor, Key(s)), ~Less(RowKey(chosen[k]), Key(s))
        PROVE  RowOf(s) \in S
    <3>1. RowOf(s) \in found
      BY <1>4, <1>6, <2>1, <2>4 DEF LeftBehind
    <3>2. RowKey(RowOf(s)) = Key(s)
      BY DEF RowOf, RowKey, Key
    <3> QED BY <1>1, <2>1, <2>4, <3>1, <3>2 DEF Selected
  <2>5. /\ import' = ToImport(import.kind, chosen, cursor) /\ listed' /\ exempt \subseteq exempt'
        /\ import.kind # "database"
    BY <1>2, <1>4, <1>6, <2>1
  <2> QED BY <1>3, <1>4, <2>1, <2>2, <2>3, <2>4, <2>5, CursorSelect
<1> QED BY <1>5, <1>6

(* An error leaves the cursor where the handled rows end. *)
LEMMA CursorFail ==
  ASSUME ImportInv, CursorInv, Fail
  PROVE  CursorInv'
<1>0. Sourced
  BY DEF ImportInv
<1>1. /\ db' = db /\ UNCHANGED <<backup, source, clock, listed, exempt>> /\ import.pc = "rows"
  BY DEF Fail, storeVars, Ready
<1>2. CASE import' = NoImport(import.kind)
  <2>1. Keyed(db)' /\ Past(db.cursor)' /\ Covers(db, db.cursor)'
    BY <1>1 DEF CursorInv, Times, Keyed, Past, AllCovered, Covers, Key
  <2>2. import.kind \in {"database", "server"}
    BY DEF CursorInv, Times
  <2> QED BY <1>1, <1>2, <2>1, <2>2, CursorIdle
<1>3. CASE import' # NoImport(import.kind)
  <2>1. import' = [import EXCEPT !.rows = <<>>, !.pc = "save"]
    BY <1>3 DEF Fail
  <2>2. import = [field \in ImportFields |-> import[field]]
    BY <1>0 DEF Sourced
  <2>3. /\ import'.pc = "save" /\ import'.rows = <<>> /\ import'.last = import.last
        /\ import'.kind = import.kind /\ import'.found = import.found
    BY <2>1, <2>2 DEF ImportFields
  <2>4. Listed' = {}
    <3>1. Len(import'.rows) = 0
      BY <2>3, EmptySeq
    <3> QED BY <3>1 DEF Listed
  <2>5. Times'
    BY <1>1, <2>3, <2>4 DEF CursorInv, Times, Keyed, Past
  <2>6. AllCovered'
    BY <1>1, <2>3 DEF CursorInv, AllCovered, Covers, Key
  <2>7. InTurn' /\ Current'
    BY <2>3, <2>4 DEF InTurn, Current
  <2> QED BY <2>5, <2>6, <2>7 DEF CursorInv
<1> QED BY <1>2, <1>3

(* A stop leaves the cursor that was saved. *)
LEMMA CursorStop ==
  ASSUME ImportInv, CursorInv, StopImport
  PROVE  CursorInv'
<1>1. /\ db' = db /\ UNCHANGED <<backup, source, clock, listed, exempt>>
      /\ import' = NoImport(import.kind)
  BY DEF StopImport
<1>2. Keyed(db)' /\ Past(db.cursor)' /\ Covers(db, db.cursor)'
  BY <1>1 DEF CursorInv, Times, Keyed, Past, AllCovered, Covers, Key
<1>3. import.kind \in {"database", "server"}
  BY DEF CursorInv, Times
<1> QED BY <1>1, <1>2, <1>3, CursorIdle

(* What is saved as the cursor is covered already. *)
LEMMA CursorSave ==
  ASSUME ImportInv, CursorInv, SaveCursor
  PROVE  CursorInv'
<1>0. Sourced /\ Shaped(db)
  BY DEF ImportInv, StoreInv, Sound
<1>1. UNCHANGED <<backup, source, clock, listed, exempt>> /\ import.pc = "save"
  BY DEF SaveCursor
<1>2. db'.cursor = import.last /\ db'.handled = db.handled
  <2>1. db' = [db EXCEPT !.cursor = import.last]
    BY DEF SaveCursor, Commit
  <2>2. db = [field \in DatabaseFields |-> db[field]]
    BY <1>0 DEF Shaped
  <2> QED BY <2>1, <2>2 DEF DatabaseFields
<1>3. Keyed(db)' /\ Past(db.cursor)' /\ Covers(db, db.cursor)'
  BY <1>1, <1>2 DEF CursorInv, Times, Keyed, Past, AllCovered, Covers, Key
<1>4. CASE import.rows = <<>>
  <2>1. import' = NoImport(import.kind)
    BY <1>4 DEF SaveCursor
  <2>2. import.kind \in {"database", "server"}
    BY DEF CursorInv, Times
  <2> QED BY <1>1, <1>3, <2>1, <2>2, CursorIdle
<1>5. CASE import.rows # <<>>
  <2>1. import' = [import EXCEPT !.pc = "rows"]
    BY <1>5 DEF SaveCursor
  <2>2. import = [field \in ImportFields |-> import[field]]
    BY <1>0 DEF Sourced
  <2>3. /\ import'.pc = "rows" /\ import'.rows = import.rows /\ import'.last = import.last
        /\ import'.kind = import.kind /\ import'.found = import.found
    BY <2>1, <2>2 DEF ImportFields
  <2>4. /\ Listed' = Listed /\ \A i : RowAt(i)' = RowAt(i) /\ \A s : Key(s)' = Key(s)
    BY <1>1, <2>3 DEF Listed, RowAt, Key
  <2>5. Times'
    <3>1. \A i \in Listed : Past(RowKey(RowAt(i)))'
      BY <1>1, <2>4 DEF CursorInv, Times, RowKey, Past
    <3>2. Past(import.last)' /\ Past(backup.cursor)' /\ Keyed(backup)'
      BY <1>1, <2>3 DEF CursorInv, Times, Past, Keyed
    <3> QED BY <1>1, <1>3, <2>3, <2>4, <3>1, <3>2 DEF CursorInv, Times
  <2>6. AllCovered'
    <3>1. Covers(backup, backup.cursor)' /\ Covers(db, import.last)'
      BY <1>1, <1>2, <2>3, <2>4 DEF CursorInv, AllCovered, Covers
    <3> QED BY <1>3, <3>1 DEF AllCovered
  <2>7. InTurn'
    BY <1>1, <1>5, <2>3, <2>4 DEF CursorInv, InTurn, RowKey
  <2>8. Current'
    <3> SUFFICES ASSUME NEW i \in Listed PROVE Fits(i)'
      BY <2>4 DEF Current
    <3>1. Fits(i)
      BY DEF CursorInv, Current
    <3>2. \A s : Newer(s) => Newer(s)'
      BY <1>2, <2>3, <2>4 DEF Newer, RowKey
    <3> QED BY <1>1, <2>4, <3>1, <3>2 DEF Fits, RowKey
  <2> QED BY <2>5, <2>6, <2>7, <2>8 DEF CursorInv
<1> QED BY <1>4, <1>5
-----------------------------------------------------------------------------
(* THE INVARIANT *)

(* At first nothing is handled and the cursor is before everything. *)
LEMMA CursorInit == Init => CursorInv
<1> SUFFICES ASSUME Init PROVE CursorInv
  OBVIOUS
<1>1. /\ db.cursor = <<0, 0>> /\ db.handled = [s \in Sessions |-> 0]
      /\ backup.cursor = <<0, 0>> /\ backup.handled = [s \in Sessions |-> 0]
  BY DEF Init, StoreInit, EmptyDatabase
<1>2. PICK kind \in {"database", "server"} : import = NoImport(kind)
  BY DeploymentAssumption DEF Init
<1>3. /\ import.pc = "idle" /\ import.rows = <<>> /\ import.last = <<0, 0>>
      /\ import.kind \in {"database", "server"} /\ import.found = {}
  BY <1>2 DEF NoImport
<1>4. Listed = {}
  <2>1. Len(import.rows) = 0
    BY <1>3, EmptySeq
  <2> QED BY <2>1 DEF Listed
<1>5. clock \in Nat /\ clock >= 1 /\ \A s \in Sessions : source[s].updated_at \in 1 .. clock
  <2>1. clock \in Nat /\ clock >= 1
    BY ImportBoundAssumption DEF Init
  <2>2. source \in [Sessions -> {[revision |-> 1, updated_at |-> t] : t \in 1 .. clock}]
    BY DEF Init
  <2> QED BY <2>1, <2>2
<1>6. Keyed(db) /\ Keyed(backup)
  BY <1>1 DEF Keyed
<1>7. Past(<<0, 0>>)
  BY <1>5 DEF Past
<1>8. Times
  BY <1>1, <1>3, <1>4, <1>5, <1>6, <1>7 DEF Times
<1>9. \A s \in Sessions : Less(<<0, 0>>, Key(s))
  BY <1>5 DEF Less, Key
<1>10. AllCovered
  BY <1>1, <1>3, <1>9 DEF AllCovered, Covers
<1>11. InTurn /\ Current
  BY <1>3, <1>4 DEF InTurn, Current
<1> QED BY <1>8, <1>10, <1>11 DEF CursorInv

(* Every step keeps what the cursors cover. *)
LEMMA CursorNext == ImportInv /\ CursorInv /\ [Next]_vars => CursorInv'
<1> SUFFICES ASSUME ImportInv, CursorInv, [Next]_vars PROVE CursorInv'
  OBVIOUS
<1>1. CASE Tick
  BY <1>1, CursorTick
<1>2. ASSUME NEW s \in Sessions, Change(s) PROVE CursorInv'
  BY <1>2, CursorChange
<1>3. ASSUME NEW s \in Sessions, NEW r \in 1 .. source[s].revision, Capture(s, r) PROVE CursorInv'
  BY <1>3, CursorCapture
<1>4. CASE Listing
  BY <1>4, CursorStart, CursorPages, CursorLastPage DEF Listing
<1>5. CASE Read
  BY <1>5, CursorRead
<1>6. CASE Store
  BY <1>6, CursorStores
<1>7. CASE Fail
  BY <1>7, CursorFail
<1>8. CASE SaveCursor
  BY <1>8, CursorSave
<1>9. CASE StopImport
  BY <1>9, CursorStop
<1>10. CASE (StoreNext \/ RestoreIdle) /\ UNCHANGED importVars
  BY <1>10, CursorStore
<1>11. CASE UNCHANGED vars
  BY <1>11, CursorQuiet DEF vars, storeVars
<1> QED
  BY <1>1, <1>2, <1>3, <1>4, <1>5, <1>6, <1>7, <1>8, <1>9, <1>10, <1>11 DEF Next

(* The cursor of an import passes only conversations whose revision was    *)
(* handled, whatever captures, changes, errors, stops, backups and         *)
(* restores come between the pages of the list, the selection, the imports *)
(* and the save.  Exempt is what CursorCovers names, and nothing else.     *)
THEOREM CursorPassesHandled == Spec => []CursorCovers
<1>1. CursorInv => CursorCovers
  BY DEF CursorInv, AllCovered, Covers, CursorCovers, AfterCursor
<1> QED
  BY <1>1, CursorInit, CursorNext, ImportInvariant, PTL DEF Spec
=============================================================================
