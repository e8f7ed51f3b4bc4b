-------------------------- MODULE ArchiveSyncProofs --------------------------
(***************************************************************************)
(* Proofs about ArchiveSync, for every number of syncers, sessions and     *)
(* rows, every limit and both backends: acknowledged rows are archived,    *)
(* batches are final, and ArchiveSync implements ReliableArchive.  With    *)
(* SQLite the archive grows in order, with one syncer batches stay whole   *)
(* and manifests describe the archive.                                     *)
(*                                                                         *)
(* AckedIsArchived is not inductive.  An acknowledgement picks rows by     *)
(* batch id, so the proof needs that a batch id on a row names that row    *)
(* (BatchNamesRow), that a pushed call's batch has its manifest, and that  *)
(* the events of a manifest are archived.  The empty set stands for a null *)
(* batch id, so it must never be the batch of a call (Nonempty).           *)
(***************************************************************************)
EXTENDS ArchiveSync, FiniteSetTheorems, TLAPS

(* What a call in progress knows. *)
CallKnows(p) ==
  LET c == syncer[p] IN
  /\ c.todo \subseteq rows
  /\ SeqsOf(c.events) \subseteq rows
  /\ c.pc = "resolving" => (c.todo # {} \/ c.events # {})
  /\ c.pc \in {"assigned", "pushed"} => c.events # {}
  /\ c.pc = "pushed" => c.events \in manifests

CallsKnow          == \A p \in Syncers : CallKnows(p)
BatchNamesRow      == \A q \in Seqs : batch[q] # NoBatch => q \in SeqsOf(batch[q])
ManifestIsArchived == \A b \in manifests : \A e \in b : Archived(e.seq)
ArchiveIsLocal     == \A e \in archive : e.seq \in rows
AckedHasManifest   == \A q \in acked : batch[q] # NoBatch /\ batch[q] \in manifests

IndInv ==
  /\ TypeOK
  /\ CallsKnow
  /\ BatchNamesRow
  /\ ManifestIsArchived
  /\ ArchiveIsLocal
  /\ AckedHasManifest
-----------------------------------------------------------------------------
(* The state of a call has the right shape after each of its steps. *)
LEMMA IdleIsState == Idle \in SyncerState
  BY DEF Idle, SyncerState, NoBatch, Batch

(* A call that begins has picked committed rows, at least one. *)
LEMMA BeginFacts ==
  ASSUME TypeOK, NEW p \in Syncers, NEW found \in SUBSET Seqs, Begin(p, found)
  PROVE  /\ syncer' \in [Syncers -> SyncerState]
         /\ \A x \in Syncers : x # p => syncer'[x] = syncer[x]
         /\ syncer'[p].todo \subseteq found
         /\ syncer'[p].events = {}
         /\ syncer'[p].pc \in {"idle", "resolving"}
         /\ syncer'[p].pc = "resolving" => syncer'[p].todo # {}
<1> DEFINE new == IF found = {} THEN Idle
                  ELSE [Idle EXCEPT !.pc   = "resolving",
                                    !.seen = {batch[q] : q \in found} \ {NoBatch},
                                    !.todo = found]
<1>1. {batch[q] : q \in found} \ {NoBatch} \in SUBSET Batch
  BY DEF TypeOK
<1>2. new \in SyncerState
  BY <1>1, IdleIsState DEF Idle, SyncerState
<1>3. syncer' = [syncer EXCEPT ![p] = new]
  BY DEF Begin
<1>4. /\ new.todo \subseteq found
      /\ new.events = {}
      /\ new.pc \in {"idle", "resolving"}
      /\ new.pc = "resolving" => new.todo # {}
  BY DEF Idle
<1>5. syncer'[p] = new
  BY <1>3 DEF TypeOK
<1> HIDE DEF new
<1> QED
  BY <1>2, <1>3, <1>4, <1>5 DEF TypeOK

(* What a call may pick is not acknowledged. *)
LEMMA PendingIsUnacked ==
  \A n, head : /\ Lowest(Unacked, n) \subseteq Unacked
              /\ PendingOfBatch(head) \subseteq Unacked
  BY DEF Lowest, PendingOfBatch

(* The payload that _rows reads is what the row holds. *)
LEMMA ReadPayload ==
  ASSUME TypeOK, NEW q \in Seqs
  PROVE  [seq |-> q, rev |-> PayloadRev(q)] \in Event
  BY BoundAssumption DEF TypeOK, Event, PayloadRev

(* The events of a call keep the rows they were made from. *)
LEMMA WithPayloadFacts ==
  ASSUME NEW call \in SyncerState, NEW q
  PROVE  LET new == WithPayload(call, q) IN
         /\ new.pc = call.pc
         /\ new.todo = call.todo \ {q}
         /\ SeqsOf(new.events) = SeqsOf(call.events) \cup {q}
         /\ new.events # {}
<1> DEFINE e == [seq |-> q, rev |-> PayloadRev(q)]
           new == WithPayload(call, q)
<1>1. new.pc = call.pc /\ new.todo = call.todo \ {q} /\ new.events = call.events \cup {e}
  BY DEF WithPayload, SyncerState
<1>2. e.seq = q
  OBVIOUS
<1> HIDE DEF e, new
<1>3. SeqsOf(new.events) = SeqsOf(call.events) \cup {q}
  BY <1>1, <1>2 DEF SeqsOf
<1> QED
  BY <1>1, <1>3 DEF new

-----------------------------------------------------------------------------
(* Every variable keeps its type. *)
LEMMA TypeStep ==
  ASSUME TypeOK, [Next]_vars
  PROVE  TypeOK'
<1> USE DEF TypeOK
<1>1. ASSUME NEW q \in Seqs, WriteVersion(q)
      PROVE  TypeOK'
  BY <1>1 DEF WriteVersion, Append, CanAppear, Sources, remoteVars
<1>2. ASSUME NEW s \in Sessions, NEW q \in Seqs, NEW r \in 0 .. MaxRev, IngestEvent(s, q, r)
      PROVE  TypeOK'
  BY <1>2 DEF IngestEvent, Append, CanAppear, Sources, remoteVars
<1>3. ASSUME NEW s \in Sessions, IngestSessionChange(s)
      PROVE  TypeOK'
  <2>1. rev[s] + 1 \in 0 .. MaxRev
    BY <1>3, BoundAssumption DEF IngestSessionChange
  <2> QED
    BY <1>3, <2>1 DEF IngestSessionChange, remoteVars
<1>4. ASSUME NEW p \in Syncers, ReadPendingSQLite(p)
      PROVE  TypeOK'
  <2>1. Lowest(Unacked, Limit) \in SUBSET Seqs
    BY PendingIsUnacked DEF Unacked
  <2>2. syncer' \in [Syncers -> SyncerState]
    BY <1>4, <2>1, BeginFacts DEF ReadPendingSQLite
  <2> QED
    BY <1>4, <2>2 DEF ReadPendingSQLite, localVars, remoteVars
<1>5. ASSUME NEW p \in Syncers, ReadHeadPostgres(p)
      PROVE  TypeOK'
  <2>1. PICK q \in Unacked :
          syncer' = [syncer EXCEPT ![p] = [Idle EXCEPT !.pc = "head", !.head = batch[q]]]
    BY <1>5 DEF ReadHeadPostgres
  <2>2. [Idle EXCEPT !.pc = "head", !.head = batch[q]] \in SyncerState
    BY <2>1, IdleIsState DEF Idle, SyncerState, Unacked
  <2> QED
    BY <1>5, <2>1, <2>2 DEF ReadHeadPostgres, localVars, remoteVars
<1>6. ASSUME NEW p \in Syncers, ReadPendingPostgres(p)
      PROVE  TypeOK'
  <2>1. PendingOfBatch(syncer[p].head) \in SUBSET Seqs
    BY PendingIsUnacked DEF Unacked
  <2>2. syncer' \in [Syncers -> SyncerState]
    BY <1>6, <2>1, BeginFacts DEF ReadPendingPostgres
  <2> QED
    BY <1>6, <2>2 DEF ReadPendingPostgres, localVars, remoteVars
<1>7. ASSUME NEW p \in Syncers, NEW q \in Seqs, ResolveEvent(p, q)
      PROVE  TypeOK'
  <2>1. [seq |-> q, rev |-> PayloadRev(q)] \in Event
    BY ReadPayload
  <2>2. syncer[p] \in SyncerState
    OBVIOUS
  <2>3. WithPayload(syncer[p], q) \in SyncerState
    BY <2>1, <2>2 DEF SyncerState, Batch, WithPayload
  <2>4. syncer' \in [Syncers -> SyncerState]
    BY <1>7, <2>3 DEF ResolveEvent
  <2> QED
    BY <1>7, <2>4 DEF ResolveEvent, localVars, remoteVars
<1>8. ASSUME NEW p \in Syncers, AssignBatch(p)
      PROVE  TypeOK'
  <2>1. syncer[p].events \in Batch
    BY DEF SyncerState
  <2>2. batch' \in [Seqs -> Batch]
    BY <1>8, <2>1 DEF AssignBatch, Assigned
  <2>3. syncer' \in [Syncers -> SyncerState]
    BY <1>8 DEF AssignBatch, SyncerState
  <2> QED
    BY <1>8, <2>2, <2>3 DEF AssignBatch, remoteVars
<1>9. ASSUME NEW p \in Syncers, RejectIdentity(p)
      PROVE  TypeOK'
  BY <1>9, IdleIsState DEF RejectIdentity, localVars, remoteVars
<1>10. ASSUME NEW p \in Syncers, Push(p)
       PROVE  TypeOK'
  <2>1. syncer[p].events \in Batch
    BY DEF SyncerState
  <2>2. archive' \subseteq Event /\ manifests' \subseteq Batch
    BY <1>10, <2>1 DEF Push, Batch, remoteVars
  <2>3. syncer' \in [Syncers -> SyncerState]
    BY <1>10 DEF Push, SyncerState
  <2> QED
    BY <1>10, <2>2, <2>3 DEF Push, localVars
<1>11. ASSUME NEW p \in Syncers, Acknowledge(p)
       PROVE  TypeOK'
  BY <1>11, IdleIsState DEF Acknowledge, Acknowledged, remoteVars
<1>12. ASSUME NEW p \in Syncers, Stop(p)
       PROVE  TypeOK'
  <2>1. stops + 1 \in 0 .. MaxStops
    BY <1>12, BoundAssumption DEF Stop
  <2> QED
    BY <1>12, <2>1, IdleIsState DEF Stop, localVars, remoteVars
<1>13. ASSUME NEW p \in Syncers, LosePushRace(p)
       PROVE  TypeOK'
  BY <1>13, IdleIsState DEF LosePushRace, localVars, remoteVars
<1>14. CASE UNCHANGED vars
  BY <1>14 DEF vars, localVars, remoteVars
<1> QED
  BY <1>1, <1>2, <1>3, <1>4, <1>5, <1>6, <1>7, <1>8, <1>9, <1>10, <1>11, <1>12, <1>13, <1>14
     DEF Next, Local, Start, Continue

(* Type correctness: for every value of the constants, the outbox, the     *)
(* archive and the local variables of each call keep their types.          *)
THEOREM TypeCorrect == Spec => []TypeOK
<1>1. Init => TypeOK
  BY BoundAssumption, IdleIsState DEF Init, TypeOK, Sources, Batch, NoBatch
<1>2. TypeOK /\ [Next]_vars => TypeOK'
  BY TypeStep
<1> QED
  BY <1>1, <1>2, PTL DEF Spec
-----------------------------------------------------------------------------
(* A step that changes no call and keeps the rows and manifests, or adds   *)
(* to them, keeps what the calls know.                                     *)
LEMMA OtherCallsKnow ==
  ASSUME CallsKnow, NEW p \in Syncers,
         rows \subseteq rows', manifests \subseteq manifests',
         syncer'[p] = syncer[p]
  PROVE  CallKnows(p)'
  BY DEF CallsKnow, CallKnows, SeqsOf

(* A call that ends has nothing left to know. *)
LEMMA IdleKnows ==
  ASSUME NEW p \in Syncers, syncer'[p] = Idle
  PROVE  CallKnows(p)'
  BY DEF CallKnows, Idle, SeqsOf

(* A step of call p: what the others know survives. *)
LEMMA CallStep ==
  ASSUME TypeOK, CallsKnow, NEW p \in Syncers, NEW call,
         syncer' = [syncer EXCEPT ![p] = call],
         rows' = rows, manifests \subseteq manifests',
         CallKnows(p)'
  PROVE  CallsKnow'
<1> SUFFICES ASSUME NEW x \in Syncers, x # p
             PROVE  CallKnows(x)'
  BY DEF CallsKnow
<1>1. syncer'[x] = syncer[x]
  BY DEF TypeOK
<1> QED
  BY <1>1, OtherCallsKnow

(* Facts about the archive survive when the archive, the manifests, the    *)
(* batches and the acknowledgements are left alone and rows are only added.*)
LEMMA ArchiveUntouched ==
  ASSUME BatchNamesRow, ManifestIsArchived, ArchiveIsLocal, AckedHasManifest,
         rows \subseteq rows', UNCHANGED <<batch, acked, archive, manifests>>
  PROVE  BatchNamesRow' /\ ManifestIsArchived' /\ ArchiveIsLocal' /\ AckedHasManifest'
  BY DEF BatchNamesRow, ManifestIsArchived, ArchiveIsLocal, AckedHasManifest,
         Archived, SeqsOf

(* Every step preserves the inductive invariant. *)
LEMMA IndStep ==
  ASSUME IndInv, [Next]_vars
  PROVE  IndInv'
<1> USE DEF IndInv
<1>0. TypeOK'
  BY TypeStep
<1>1. ASSUME rows \subseteq rows', UNCHANGED <<batch, acked, remoteVars, syncer>>
      PROVE  IndInv'
  <2>1. CallsKnow'
    BY <1>1, OtherCallsKnow DEF remoteVars, CallsKnow
  <2> QED
    BY <1>0, <1>1, <2>1, ArchiveUntouched DEF remoteVars
<1>2. ASSUME NEW p \in Syncers, NEW found \in SUBSET Unacked,
             Begin(p, found), UNCHANGED <<localVars, remoteVars>>
      PROVE  IndInv'
  <2>1. found \in SUBSET Seqs
    BY DEF Unacked, TypeOK
  <2>2. CallKnows(p)'
    BY <1>2, <2>1, BeginFacts DEF CallKnows, localVars, Unacked, SeqsOf
  <2>3. CallsKnow'
    BY <1>2, <2>2, CallStep DEF Begin, localVars, remoteVars
  <2> QED
    BY <1>0, <1>2, <2>3, ArchiveUntouched DEF localVars, remoteVars
<1>3. ASSUME NEW p \in Syncers, ReadHeadPostgres(p)
      PROVE  IndInv'
  <2>1. PICK h \in Batch :
          syncer' = [syncer EXCEPT ![p] = [Idle EXCEPT !.pc = "head", !.head = h]]
    BY <1>3 DEF ReadHeadPostgres, TypeOK, Unacked
  <2>2. syncer'[p] = [Idle EXCEPT !.pc = "head", !.head = h]
    BY <2>1 DEF TypeOK
  <2>3. CallKnows(p)'
    BY <2>2 DEF CallKnows, Idle, SeqsOf
  <2>4. CallsKnow'
    BY <1>3, <2>1, <2>3, CallStep DEF ReadHeadPostgres, localVars, remoteVars
  <2> QED
    BY <1>0, <1>3, <2>4, ArchiveUntouched DEF ReadHeadPostgres, localVars, remoteVars
<1>4. ASSUME NEW p \in Syncers, NEW q \in Seqs, ResolveEvent(p, q)
      PROVE  IndInv'
  <2>1. syncer'[p] = WithPayload(syncer[p], q) /\ syncer[p] \in SyncerState
    BY <1>4 DEF ResolveEvent, TypeOK
  <2>2. /\ syncer'[p].pc = "resolving"
        /\ syncer'[p].todo \subseteq syncer[p].todo
        /\ SeqsOf(syncer'[p].events) = SeqsOf(syncer[p].events) \cup {q}
        /\ syncer'[p].events # {}
    BY <1>4, <2>1, WithPayloadFacts DEF ResolveEvent
  <2>3. q \in rows /\ CallKnows(p)
    BY <1>4 DEF ResolveEvent, CallsKnow, CallKnows
  <2>5. CallKnows(p)'
    BY <1>4, <2>2, <2>3 DEF CallKnows, ResolveEvent, localVars
  <2>6. CallsKnow'
    BY <1>4, <2>5, CallStep DEF ResolveEvent, localVars, remoteVars
  <2> QED
    BY <1>0, <1>4, <2>6, ArchiveUntouched DEF ResolveEvent, localVars, remoteVars
<1>5. ASSUME NEW p \in Syncers, AssignBatch(p)
      PROVE  IndInv'
  <2> DEFINE call == [syncer[p] EXCEPT !.pc = "assigned"]
  <2>1. syncer[p] \in SyncerState /\ CallKnows(p)
    BY DEF TypeOK, CallsKnow
  <2>2. syncer' = [syncer EXCEPT ![p] = call] /\ syncer'[p] = call
    BY <1>5 DEF AssignBatch, TypeOK
  <2>3. call.pc = "assigned" /\ call.todo = {} /\ call.events = syncer[p].events
    BY <1>5, <2>1 DEF AssignBatch, SyncerState
  <2>4. call.events # {}
    BY <1>5, <2>1, <2>3 DEF AssignBatch, CallKnows
  <2> HIDE DEF call
  <2>5. CallKnows(p)'
    BY <1>5, <2>1, <2>2, <2>3, <2>4 DEF AssignBatch, CallKnows, SeqsOf
  <2>6. CallsKnow'
    BY <1>5, <2>2, <2>5, CallStep DEF AssignBatch, remoteVars
  <2>7. BatchNamesRow'
    BY <1>5 DEF AssignBatch, Assigned, BatchNamesRow, SeqsOf
  <2>8. AckedHasManifest'
    BY <1>5 DEF AssignBatch, Assigned, AckedHasManifest, Unacked, remoteVars, TypeOK
  <2>9. ManifestIsArchived' /\ ArchiveIsLocal'
    BY <1>5 DEF AssignBatch, remoteVars, ManifestIsArchived, ArchiveIsLocal, Archived
  <2> QED
    BY <1>0, <2>6, <2>7, <2>8, <2>9
<1>6. ASSUME NEW p \in Syncers, Push(p)
      PROVE  IndInv'
  <2> DEFINE call == [syncer[p] EXCEPT !.pc = "pushed"]
  <2>1. syncer[p] \in SyncerState /\ CallKnows(p)
    BY DEF TypeOK, CallsKnow
  <2>2. syncer' = [syncer EXCEPT ![p] = call] /\ syncer'[p] = call
    BY <1>6 DEF Push, TypeOK
  <2>3. call.pc = "pushed" /\ call.todo = syncer[p].todo /\ call.events = syncer[p].events
    BY <2>1 DEF SyncerState
  <2> HIDE DEF call
  <2>4. /\ manifests' = manifests \cup {syncer[p].events}
        /\ archive' \subseteq archive \cup syncer[p].events
        /\ archive \subseteq archive'
    BY <1>6 DEF Push, remoteVars
  <2>5. CallKnows(p)'
    BY <1>6, <2>1, <2>2, <2>3, <2>4 DEF Push, CallKnows, localVars, SeqsOf
  <2>6. CallsKnow'
    BY <1>6, <2>2, <2>4, <2>5, CallStep DEF Push, localVars
  <2>7. ManifestIsArchived'
    BY <1>6, <2>4 DEF Push, ManifestIsArchived, Archived, remoteVars
  <2>8. ArchiveIsLocal'
    BY <1>6, <2>1, <2>4 DEF Push, ArchiveIsLocal, CallKnows, SeqsOf, localVars
  <2>9. BatchNamesRow' /\ AckedHasManifest'
    BY <1>6, <2>4 DEF Push, BatchNamesRow, AckedHasManifest, localVars, SeqsOf
  <2> QED
    BY <1>0, <2>6, <2>7, <2>8, <2>9
<1>7. ASSUME NEW p \in Syncers, Acknowledge(p)
      PROVE  IndInv'
  <2>1. syncer'[p] = Idle
    BY <1>7 DEF Acknowledge, TypeOK
  <2>2. CallsKnow'
    BY <1>7, <2>1, IdleKnows, CallStep DEF Acknowledge, remoteVars
  <2>3. syncer[p].events # {} /\ syncer[p].events \in manifests
    BY <1>7 DEF Acknowledge, CallsKnow, CallKnows
  <2>4. AckedHasManifest'
    BY <1>7, <2>3 DEF Acknowledge, Acknowledged, AckedHasManifest, NoBatch, remoteVars
  <2>5. BatchNamesRow' /\ ManifestIsArchived' /\ ArchiveIsLocal'
    BY <1>7 DEF Acknowledge, remoteVars, BatchNamesRow, ManifestIsArchived,
                ArchiveIsLocal, Archived, SeqsOf
  <2> QED
    BY <1>0, <2>2, <2>4, <2>5
<1>8. ASSUME NEW p \in Syncers, syncer' = [syncer EXCEPT ![p] = Idle],
             UNCHANGED <<localVars, remoteVars>>
      PROVE  IndInv'
  <2>1. syncer'[p] = Idle
    BY <1>8 DEF TypeOK
  <2>2. CallsKnow'
    BY <1>8, <2>1, IdleKnows, CallStep DEF localVars, remoteVars
  <2> QED
    BY <1>0, <1>8, <2>2, ArchiveUntouched DEF localVars, remoteVars
<1>9. CASE Local
  BY <1>1, <1>9 DEF Local, WriteVersion, IngestEvent, IngestSessionChange, Append
<1>10. ASSUME NEW p \in Syncers, Start(p)
       PROVE  IndInv'
  BY <1>2, <1>3, <1>10, PendingIsUnacked DEF Start, ReadPendingSQLite
<1>11. ASSUME NEW p \in Syncers, Continue(p)
       PROVE  IndInv'
  BY <1>2, <1>4, <1>5, <1>6, <1>7, <1>8, <1>11, PendingIsUnacked
     DEF Continue, ReadPendingPostgres, RejectIdentity, LosePushRace
<1>12. ASSUME NEW p \in Syncers, Stop(p)
       PROVE  IndInv'
  BY <1>8, <1>12 DEF Stop
<1>13. CASE UNCHANGED vars
  BY <1>1, <1>13 DEF vars, localVars
<1> QED
  BY <1>9, <1>10, <1>11, <1>12, <1>13 DEF Next

(* The inductive invariant holds in every state. *)
THEOREM Invariance == Spec => []IndInv
<1>1. Init => IndInv
  <2> SUFFICES ASSUME Init
               PROVE  IndInv
    OBVIOUS
  <2>1. TypeOK
    BY BoundAssumption, IdleIsState DEF Init, TypeOK, Sources, Batch, NoBatch
  <2>2. CallsKnow
    BY DEF Init, CallsKnow, CallKnows, Idle, SeqsOf
  <2>3. BatchNamesRow /\ ManifestIsArchived /\ ArchiveIsLocal /\ AckedHasManifest
    BY DEF Init, BatchNamesRow, ManifestIsArchived, ArchiveIsLocal, AckedHasManifest
  <2> QED
    BY <2>1, <2>2, <2>3 DEF IndInv
<1>2. IndInv /\ [Next]_vars => IndInv'
  BY IndStep
<1> QED
  BY <1>1, <1>2, PTL DEF Spec

-----------------------------------------------------------------------------
(* A row the local store regards as delivered is in the archive, under a   *)
(* manifest that names it (acknowledge_outbox_batch after _push_batch).    *)
LEMMA InvImpliesAckedIsArchived ==
  ASSUME IndInv
  PROVE  AckedIsArchived
<1> SUFFICES ASSUME NEW q \in acked
             PROVE  Archived(q) /\ batch[q] \in manifests /\ q \in SeqsOf(batch[q])
  BY DEF AckedIsArchived
<1>1. batch[q] # NoBatch /\ batch[q] \in manifests /\ q \in Seqs
  BY DEF IndInv, AckedHasManifest, TypeOK
<1>2. q \in SeqsOf(batch[q])
  BY <1>1 DEF IndInv, BatchNamesRow
<1>3. Archived(q)
  BY <1>1, <1>2 DEF IndInv, ManifestIsArchived, SeqsOf
<1> QED
  BY <1>1, <1>2, <1>3

(* AckedIsArchived holds for any number of syncers, rows and stops. *)
THEOREM AckedIsArchivedAlways == Spec => []AckedIsArchived
  BY Invariance, InvImpliesAckedIsArchived, PTL

(* A row keeps its batch and an acknowledgement is never undone            *)
(* (assign_outbox_batch writes only rows with no other batch).             *)
THEOREM BatchIsFinalAlways == Spec => BatchIsFinal
<1>1. TypeOK /\ [Next]_vars =>
        [ /\ \A q \in Seqs : batch[q] # NoBatch => batch'[q] = batch[q]
          /\ acked \subseteq acked' ]_vars
  <2> SUFFICES ASSUME TypeOK, [Next]_vars
               PROVE  /\ \A q \in Seqs : batch[q] # NoBatch => batch'[q] = batch[q]
                      /\ acked \subseteq acked'
    OBVIOUS
  <2>1. ASSUME NEW p \in Syncers, AssignBatch(p)
        PROVE  \A q \in Seqs : batch[q] # NoBatch => batch'[q] = batch[q]
    BY <2>1 DEF AssignBatch, Assigned
  <2>2. ASSUME NEW p \in Syncers, Acknowledge(p)
        PROVE  acked \subseteq acked'
    BY <2>2 DEF Acknowledge, Acknowledged
  <2> QED
    BY <2>1, <2>2
       DEF Next, Local, Start, Continue, vars, localVars, remoteVars,
           WriteVersion, IngestEvent, IngestSessionChange, ReadPendingSQLite,
           ReadHeadPostgres, ReadPendingPostgres, ResolveEvent, AssignBatch,
           RejectIdentity, Push, LosePushRace, Acknowledge, Stop
<1> QED
  BY <1>1, TypeCorrect, PTL DEF Spec, BatchIsFinal
-----------------------------------------------------------------------------
(* ArchiveSync implements ReliableArchive: a local commit is a Write, a    *)
(* push archives the rows of its batch, an acknowledgement covers only     *)
(* archived rows, and every other step changes nothing a reader of the     *)
(* abstract archive can see.                                               *)
THEOREM Refinement == Spec => ImplementsReliableArchive
<1> DEFINE Stored == {q \in Seqs : Archived(q)}
<1>1. Init => Abstract!Init
  BY DEF Init, Abstract!Init, Archived
<1>2. IndInv /\ [Next]_vars => [Abstract!Next]_(Abstract!vars)
  <2> SUFFICES ASSUME IndInv, [Next]_vars
               PROVE  [Abstract!Next]_(Abstract!vars)
    OBVIOUS
  <2>1. ASSUME NEW q \in Seqs, rows' = rows \cup {q}, UNCHANGED <<archive, acked>>
        PROVE  Abstract!Write({q})
    BY <2>1 DEF Abstract!Write, Archived
  <2>2. ASSUME NEW p \in Syncers, Push(p)
        PROVE  Abstract!Archive(SeqsOf(syncer[p].events)) /\ SeqsOf(syncer[p].events) \in SUBSET Seqs
    <3> DEFINE events == syncer[p].events
    <3>1. events \in Batch /\ SeqsOf(events) \subseteq rows /\ rows \subseteq Seqs
      BY DEF IndInv, TypeOK, SyncerState, CallsKnow, CallKnows
    <3>2. CASE events \in manifests
      <4>1. SeqsOf(events) \subseteq Stored
        BY <3>1, <3>2 DEF IndInv, ManifestIsArchived, SeqsOf, Batch, Event
      <4>2. UNCHANGED <<archive, rows, acked>>
        BY <2>2, <3>2 DEF Push, remoteVars, localVars
      <4>3. Stored' = Stored
        BY <4>2 DEF Archived
      <4> QED
        BY <3>1, <4>1, <4>2, <4>3 DEF Abstract!Archive
    <3>3. CASE events \notin manifests
      <4>1. /\ archive' = archive \cup {e \in events : ~ Archived(e.seq)}
            /\ UNCHANGED <<rows, acked>>
        BY <2>2, <3>3 DEF Push, localVars
      <4>2. Stored' = Stored \cup SeqsOf(events)
        <5>1. \A q \in Seqs : Archived(q)' <=> (Archived(q) \/ q \in SeqsOf(events))
          BY <4>1 DEF Archived, SeqsOf
        <5> QED
          BY <3>1, <5>1
      <4> QED
        BY <3>1, <4>1, <4>2 DEF Abstract!Archive
    <3> QED
      BY <3>1, <3>2, <3>3
  <2>3. ASSUME NEW p \in Syncers, Acknowledge(p)
        PROVE  \E S \in SUBSET Seqs : Abstract!Acknowledge(S)
    <3> DEFINE done == {q \in rows : batch[q] = syncer[p].events}
    <3>1. syncer[p].events \in manifests /\ syncer[p].events # NoBatch /\ rows \subseteq Seqs
      BY <2>3 DEF Acknowledge, IndInv, TypeOK, CallsKnow, CallKnows, NoBatch
    <3>2. done \subseteq Stored
      <4> SUFFICES ASSUME NEW q \in done
                   PROVE  q \in Seqs /\ Archived(q)
        OBVIOUS
      <4>1. q \in SeqsOf(syncer[p].events)
        BY <3>1 DEF IndInv, BatchNamesRow
      <4> QED
        BY <3>1, <4>1 DEF IndInv, ManifestIsArchived, SeqsOf
    <3>3. acked' = acked \cup done /\ UNCHANGED <<rows, archive>>
      BY <2>3 DEF Acknowledge, Acknowledged, remoteVars
    <3>4. Stored' = Stored
      BY <3>3 DEF Archived
    <3>5. done \in SUBSET Seqs
      BY <3>1
    <3> QED
      BY <3>2, <3>3, <3>4, <3>5 DEF Abstract!Acknowledge
  <2>4. ASSUME UNCHANGED <<rows, archive, acked>>
        PROVE  UNCHANGED Abstract!vars
    BY <2>4 DEF Abstract!vars, Archived
  <2>5. CASE Local
    BY <2>1, <2>4, <2>5
       DEF Local, WriteVersion, IngestEvent, IngestSessionChange, Append,
           Abstract!Next, remoteVars
  <2>6. ASSUME NEW p \in Syncers, Continue(p)
        PROVE  [Abstract!Next]_(Abstract!vars)
    <3>1. CASE Push(p)
      BY <2>2, <3>1 DEF Abstract!Next
    <3>2. CASE Acknowledge(p)
      BY <2>3, <3>2 DEF Abstract!Next
    <3>3. CASE ~ Push(p) /\ ~ Acknowledge(p)
      BY <2>4, <2>6, <3>3
         DEF Continue, ReadPendingPostgres, ResolveEvent, AssignBatch,
             RejectIdentity, LosePushRace, localVars, remoteVars
    <3> QED
      BY <3>1, <3>2, <3>3
  <2>7. ASSUME NEW p \in Syncers, Start(p) \/ Stop(p)
        PROVE  UNCHANGED Abstract!vars
    BY <2>4, <2>7
       DEF Start, ReadPendingSQLite, ReadHeadPostgres, Stop, localVars, remoteVars
  <2>8. CASE UNCHANGED vars
    BY <2>4, <2>8 DEF vars, localVars, remoteVars
  <2> QED
    BY <2>5, <2>6, <2>7, <2>8 DEF Next
<1> QED
  BY <1>1, <1>2, Invariance, PTL DEF Spec, Abstract!Spec, ImplementsReliableArchive
-----------------------------------------------------------------------------
(* THE ARCHIVE OF SQLITE GROWS IN THE ORDER OF THE OUTBOX.                 *)
(* A call holds the lowest rows that were pending when it read them; what  *)
(* it left out below them was delivered before.  The payloads change, the  *)
(* rows do not.                                                            *)
Mine(p) == SeqsOf(syncer[p].events) \cup syncer[p].todo

Complete(p) ==
  /\ syncer[p].pc # "head"
  /\ syncer[p].pc \in {"assigned", "pushed"} => syncer[p].todo = {}
  /\ \A q \in Mine(p), r \in rows : r < q => Archived(r) \/ r \in Mine(p)

DenseRows == \E n \in Nat : rows = 1 .. n

OrderInv == DenseRows /\ (\A p \in Syncers : Complete(p)) /\ ArchiveIsPrefix

(* The lowest n of a set leave nothing below them out (ORDER BY sequence   *)
(* LIMIT n).                                                               *)
LEMMA LowestIsPrefix ==
  ASSUME NEW S \in SUBSET Seqs, NEW n \in Nat, NEW q \in Lowest(S, n), NEW r \in S, r < q
  PROVE  r \in Lowest(S, n)
<1> DEFINE below(x) == {y \in S : y < x}
<1>1. S \subseteq 1 .. MaxSeq /\ IsFiniteSet(1 .. MaxSeq)
  BY BoundAssumption, FS_Interval DEF Seqs
<1>2. IsFiniteSet(S)
  BY <1>1, FS_Subset
<1>3. q \in S /\ Cardinality(below(q)) < n
  BY DEF Lowest
<1>4. \A x \in S : x \in Int
  BY <1>1
<1>5. below(r) \subseteq below(q)
  BY <1>3, <1>4
<1>6. IsFiniteSet(below(q)) /\ IsFiniteSet(below(r))
  BY <1>2, FS_Subset
<1>7. Cardinality(below(r)) <= Cardinality(below(q))
  BY <1>5, <1>6, FS_Subset
<1>8. Cardinality(below(r)) \in Nat /\ Cardinality(below(q)) \in Nat
  BY <1>6, FS_CardinalityType
<1>9. Cardinality(below(r)) < n
  BY <1>3, <1>7, <1>8
<1> QED BY <1>9 DEF Lowest

(* A row that appears in SQLite is above all others. *)
LEMMA NewRowIsLast ==
  ASSUME DenseRows, Backend = "sqlite", NEW q \in Seqs, CanAppear(q), rows' = rows \cup {q}
  PROVE  DenseRows' /\ q \notin rows /\ \A r \in rows : r < q
<1>1. PICK n \in Nat : rows = 1 .. n
  BY DEF DenseRows
<1>2. Cardinality(rows) = n
  BY <1>1, FS_Interval
<1>3. q = n + 1
  BY <1>2 DEF CanAppear
<1>4. rows' = 1 .. n + 1
  BY <1>1, <1>3
<1> QED BY <1>1, <1>3, <1>4 DEF DenseRows

(* What a call is complete about survives steps that do not touch it. *)
LEMMA StillComplete ==
  ASSUME NEW p \in Syncers, Complete(p), syncer'[p] = syncer[p], archive \subseteq archive',
         \A q \in Mine(p), r \in rows' \ rows : ~ (r < q)
  PROVE  Complete(p)'
<1>1. Mine(p)' = Mine(p)
  BY DEF Mine, SeqsOf
<1>2. \A r : Archived(r) => Archived(r)'
  BY DEF Archived
<1> QED BY <1>1, <1>2 DEF Complete

(* The prefix depends on rows and archive only. *)
LEMMA PrefixStays ==
  ASSUME ArchiveIsPrefix, archive' = archive, rows' = rows
  PROVE  ArchiveIsPrefix'
  BY DEF ArchiveIsPrefix, Archived

(* A step of one call that changes neither rows nor archive. *)
LEMMA OneCallMoves ==
  ASSUME TypeOK, OrderInv, NEW p \in Syncers, NEW call, syncer' = [syncer EXCEPT ![p] = call],
         rows' = rows, archive' = archive, Complete(p)'
  PROVE  OrderInv'
<1>1. ASSUME NEW x \in Syncers, x # p PROVE Complete(x)'
  <2>1. syncer'[x] = syncer[x]
    BY <1>1 DEF TypeOK
  <2> QED BY <2>1, StillComplete DEF OrderInv
<1>2. DenseRows'
  BY DEF OrderInv, DenseRows
<1> QED BY <1>1, <1>2, PrefixStays DEF OrderInv

(* Every step keeps OrderInv. *)
LEMMA OrderStep ==
  ASSUME Backend = "sqlite", IndInv, OrderInv, [Next]_vars
  PROVE  OrderInv'
<1>t. TypeOK
  BY DEF IndInv
<1>1. ASSUME UNCHANGED <<rows, archive, syncer>> PROVE OrderInv'
  <2>1. \A x \in Syncers : Complete(x)'
    BY <1>1, StillComplete DEF OrderInv
  <2>2. DenseRows'
    BY <1>1 DEF OrderInv, DenseRows
  <2> QED BY <1>1, <2>1, <2>2, PrefixStays DEF OrderInv
<1>2. ASSUME NEW q \in Seqs, NEW from, Append(q, from), UNCHANGED <<archive, syncer>>
      PROVE  OrderInv'
  <2>1. rows' = rows \cup {q} /\ CanAppear(q)
    BY <1>2 DEF Append
  <2>2. DenseRows' /\ q \notin rows /\ \A r \in rows : r < q
    BY <2>1, NewRowIsLast DEF OrderInv
  <2>3. rows \subseteq Seqs /\ \A r \in Seqs : r \in Int
    BY <1>t DEF TypeOK, Seqs
  <2>4. ASSUME NEW x \in Syncers PROVE Complete(x)'
    <3>1. Mine(x) \subseteq rows
      BY DEF Mine, IndInv, CallsKnow, CallKnows
    <3>2. \A m \in Mine(x), r \in rows' \ rows : ~ (r < m)
      BY <2>1, <2>2, <2>3, <3>1
    <3>3. Complete(x)
      BY DEF OrderInv
    <3> QED BY <1>2, <3>2, <3>3, StillComplete
  <2>5. ~ Archived(q)
    BY <2>2 DEF Archived, IndInv, ArchiveIsLocal
  <2>6. \A r : Archived(r)' <=> Archived(r)
    BY <1>2 DEF Archived
  <2>7. ArchiveIsPrefix'
    <3> SUFFICES ASSUME NEW m \in rows', NEW r \in rows', Archived(m), r < m PROVE Archived(r)
      BY <2>6 DEF ArchiveIsPrefix
    <3>1. m \in rows
      BY <2>1, <2>5
    <3>2. r \in rows
      BY <2>1, <2>2, <2>3, <3>1
    <3> QED BY <3>1, <3>2 DEF OrderInv, ArchiveIsPrefix
  <2> QED BY <2>2, <2>4, <2>7 DEF OrderInv
<1>3. ASSUME NEW p \in Syncers, syncer' = [syncer EXCEPT ![p] = Idle], rows' = rows, archive' = archive
      PROVE  OrderInv'
  <2>1. syncer'[p] = Idle
    BY <1>3, <1>t DEF TypeOK
  <2>2. Complete(p)'
    BY <2>1 DEF Complete, Idle, Mine, SeqsOf
  <2> QED BY <1>3, <1>t, <2>2, OneCallMoves
<1>4. ASSUME NEW p \in Syncers, ReadPendingSQLite(p) PROVE OrderInv'
  <2> DEFINE found == Lowest(Unacked, Limit)
  <2>1. found # {} => syncer' = [syncer EXCEPT ![p] =
          [Idle EXCEPT !.pc = "resolving", !.seen = {batch[q] : q \in found} \ {NoBatch}, !.todo = found]]
    BY <1>4 DEF ReadPendingSQLite, Begin
  <2>2. rows' = rows /\ archive' = archive
    BY <1>4 DEF ReadPendingSQLite, localVars, remoteVars
  <2>3. CASE found = {}
    <3>1. syncer' = [syncer EXCEPT ![p] = Idle]
      BY <1>4, <2>3 DEF ReadPendingSQLite, Begin
    <3> QED BY <1>3, <2>2, <3>1
  <2>4. CASE found # {}
    <3> DEFINE call == [Idle EXCEPT !.pc = "resolving",
                                    !.seen = {batch[q] : q \in found} \ {NoBatch}, !.todo = found]
    <3>1. syncer' = [syncer EXCEPT ![p] = call] /\ syncer'[p] = call
      BY <1>t, <2>1, <2>4 DEF TypeOK
    <3>2. call.pc = "resolving" /\ call.todo = found /\ call.events = {}
      BY DEF Idle
    <3> HIDE DEF call
    <3>3. Mine(p)' = found
      BY <3>1, <3>2 DEF Mine, SeqsOf
    <3>4. ASSUME NEW q \in found, NEW r \in rows, r < q PROVE Archived(r) \/ r \in found
      <4>1. CASE r \in acked
        BY <4>1, InvImpliesAckedIsArchived DEF AckedIsArchived
      <4>2. CASE r \notin acked
        <5>1. r \in Unacked /\ Unacked \in SUBSET Seqs /\ Limit \in Nat
          BY <1>t, <4>2, LimitAssumption DEF Unacked, TypeOK
        <5> QED BY <3>4, <5>1, LowestIsPrefix
      <4> QED BY <4>1, <4>2
    <3> HIDE DEF found
    <3>5. \A r : Archived(r)' <=> Archived(r)
      BY <2>2 DEF Archived
    <3>6. Complete(p)'
      BY <2>2, <3>1, <3>2, <3>3, <3>4, <3>5 DEF Complete
    <3> QED BY <1>t, <2>2, <3>1, <3>6, OneCallMoves
  <2> QED BY <2>3, <2>4
<1>5. ASSUME NEW p \in Syncers, NEW q \in Seqs, ResolveEvent(p, q) PROVE OrderInv'
  <2>1. rows' = rows /\ archive' = archive /\ q \in syncer[p].todo /\ syncer[p].pc = "resolving"
        /\ syncer' = [syncer EXCEPT ![p] = WithPayload(syncer[p], q)]
    BY <1>5 DEF ResolveEvent, localVars, remoteVars
  <2>2. syncer'[p] = WithPayload(syncer[p], q) /\ syncer[p] \in SyncerState
    BY <1>t, <2>1 DEF TypeOK
  <2>3. /\ syncer'[p].pc = "resolving" /\ syncer'[p].todo = syncer[p].todo \ {q}
        /\ SeqsOf(syncer'[p].events) = SeqsOf(syncer[p].events) \cup {q}
    <3>1. PICK new : new = WithPayload(syncer[p], q)
      OBVIOUS
    <3>2. /\ new.pc = syncer[p].pc /\ new.todo = syncer[p].todo \ {q}
          /\ SeqsOf(new.events) = SeqsOf(syncer[p].events) \cup {q}
      BY <2>2, <3>1, WithPayloadFacts
    <3> QED BY <2>1, <2>2, <3>1, <3>2
  <2>4. Mine(p)' = Mine(p)
    <3>1. Mine(p)' = SeqsOf(syncer'[p].events) \cup syncer'[p].todo
      BY DEF Mine, SeqsOf
    <3> QED BY <2>1, <2>3, <3>1 DEF Mine
  <2>5. \A r : Archived(r)' <=> Archived(r)
    BY <2>1 DEF Archived
  <2>6. Complete(p)
    BY DEF OrderInv
  <2>7. Complete(p)'
    BY <2>1, <2>3, <2>4, <2>5, <2>6 DEF Complete
  <2> QED BY <1>t, <2>1, <2>7, OneCallMoves
<1>6. ASSUME NEW p \in Syncers, AssignBatch(p) PROVE OrderInv'
  <2>1. syncer[p] \in SyncerState /\ syncer[p].todo = {} /\ syncer' = [syncer EXCEPT ![p].pc = "assigned"]
        /\ rows' = rows /\ archive' = archive
    BY <1>t, <1>6 DEF AssignBatch, TypeOK, remoteVars
  <2>2. PICK call : call = [syncer[p] EXCEPT !.pc = "assigned"]
    OBVIOUS
  <2>3. call.pc = "assigned" /\ call.todo = {} /\ call.events = syncer[p].events
    BY <2>1, <2>2 DEF SyncerState
  <2>4. syncer' = [syncer EXCEPT ![p] = call] /\ syncer'[p] = call
    BY <1>t, <2>1, <2>2 DEF TypeOK
  <2>5. Mine(p)' = Mine(p) /\ \A r : Archived(r)' <=> Archived(r)
    BY <2>1, <2>3, <2>4 DEF Mine, SeqsOf, Archived
  <2>6. Complete(p)
    BY DEF OrderInv
  <2>7. Complete(p)'
    BY <2>1, <2>3, <2>4, <2>5, <2>6 DEF Complete
  <2> QED BY <1>t, <2>1, <2>4, <2>7, OneCallMoves
<1>7. ASSUME NEW p \in Syncers, Push(p) PROVE OrderInv'
  <2>1. /\ syncer[p] \in SyncerState /\ syncer[p].todo = {} /\ rows' = rows
        /\ syncer' = [syncer EXCEPT ![p].pc = "pushed"]
    BY <1>t, <1>7 DEF Push, TypeOK, localVars, OrderInv, Complete
  <2>2. \A r : Archived(r)' <=> Archived(r) \/ r \in SeqsOf(syncer[p].events)
    <3>1. CASE syncer[p].events \in manifests
      BY <1>7, <3>1 DEF Push, remoteVars, IndInv, ManifestIsArchived, SeqsOf, Archived
    <3>2. CASE syncer[p].events \notin manifests
      BY <1>7, <3>2 DEF Push, SeqsOf, Archived
    <3> QED BY <3>1, <3>2
  <2>3. archive \subseteq archive'
    BY <1>7 DEF Push, remoteVars
  <2>4. PICK call : call = [syncer[p] EXCEPT !.pc = "pushed"]
    OBVIOUS
  <2>5. call.pc = "pushed" /\ call.todo = {} /\ call.events = syncer[p].events
    BY <2>1, <2>4 DEF SyncerState
  <2>6. syncer'[p] = call /\ \A x \in Syncers : x # p => syncer'[x] = syncer[x]
    BY <1>t, <2>1, <2>4 DEF TypeOK
  <2>7. Complete(p) /\ Mine(p) = SeqsOf(syncer[p].events)
    BY <2>1 DEF OrderInv, Mine
  <2>8. Mine(p)' = Mine(p)
    BY <2>1, <2>5, <2>6 DEF Mine, SeqsOf
  <2>9. Complete(p)'
    BY <2>1, <2>2, <2>5, <2>6, <2>7, <2>8 DEF Complete
  <2>10. ASSUME NEW x \in Syncers PROVE Complete(x)'
    <3>1. CASE x = p
      BY <2>9, <3>1
    <3>2. CASE x # p
      BY <2>1, <2>3, <2>6, <3>2, StillComplete DEF OrderInv
    <3> QED BY <3>1, <3>2
  <2>11. ArchiveIsPrefix'
    BY <2>1, <2>2, <2>7 DEF OrderInv, ArchiveIsPrefix, Complete
  <2>12. DenseRows'
    BY <2>1 DEF OrderInv, DenseRows
  <2> QED BY <2>10, <2>11, <2>12 DEF OrderInv
<1>8. CASE Local
  BY <1>1, <1>2, <1>8 DEF Local, WriteVersion, IngestEvent, IngestSessionChange, remoteVars
<1>9. ASSUME NEW p \in Syncers, ReadHeadPostgres(p) \/ ReadPendingPostgres(p) PROVE FALSE
  BY <1>9 DEF ReadHeadPostgres, ReadPendingPostgres, OrderInv, Complete
<1>10. ASSUME NEW p \in Syncers, RejectIdentity(p) \/ LosePushRace(p) \/ Acknowledge(p) \/ Stop(p)
       PROVE  OrderInv'
  BY <1>3, <1>10 DEF RejectIdentity, LosePushRace, Acknowledge, Stop, localVars, remoteVars
<1>11. CASE UNCHANGED vars
  BY <1>1, <1>11 DEF vars, localVars, remoteVars
<1> QED BY <1>4, <1>5, <1>6, <1>7, <1>8, <1>9, <1>10, <1>11 DEF Next, Start, Continue

(* With SQLite, the archive never holds a row while an earlier committed   *)
(* row is missing, for any number of syncers, stops and limits             *)
(* (pending_outbox ORDER BY sequence): remote maintenance may take a       *)
(* sequence number as a watermark.                                         *)
THEOREM ArchiveGrowsInOrder ==
  ASSUME Backend = "sqlite"
  PROVE  Spec => []ArchiveIsPrefix
<1>1. Init => OrderInv
  <2> SUFFICES ASSUME Init PROVE OrderInv
    OBVIOUS
  <2>1. rows = 1 .. 0
    BY DEF Init
  <2>2. DenseRows
    BY <2>1 DEF DenseRows
  <2>3. \A p \in Syncers : Complete(p)
    BY DEF Init, Complete, Idle, Mine, SeqsOf
  <2>4. ArchiveIsPrefix
    BY DEF Init, ArchiveIsPrefix
  <2> QED BY <2>2, <2>3, <2>4 DEF OrderInv
<1>2. IndInv /\ OrderInv /\ [Next]_vars => OrderInv'
  BY OrderStep
<1>3. OrderInv => ArchiveIsPrefix
  BY DEF OrderInv
<1> QED BY <1>1, <1>2, <1>3, Invariance, PTL DEF Spec
-----------------------------------------------------------------------------
(* A SINGLE SYNCER KEEPS BATCHES WHOLE.                                    *)
(* Nobody else assigns or acknowledges between two steps of the call: its  *)
(* rows are pending and belong to no batch but those it has seen, and once *)
(* it assigned them they are its batch.                                    *)
Holds(p) ==
  LET c == syncer[p] IN
  /\ c.pc = "resolving" => \A q \in Mine(p) : q \in Unacked /\ (batch[q] = NoBatch \/ batch[q] \in c.seen)
  /\ c.pc \in {"assigned", "pushed"} => \A q \in SeqsOf(c.events) : batch[q] = c.events

WholeBatches ==
  \A q \in rows : batch[q] # NoBatch =>
    \A r \in SeqsOf(batch[q]) :
      /\ r \in rows /\ batch[r] = batch[q]
      /\ (r \in acked) = (q \in acked)

OnlyRows        == \A q \in Seqs \ rows : batch[q] = NoBatch
ArchivedInBatch == \A e \in archive : batch[e.seq] # NoBatch /\ batch[e.seq] \in manifests

SingleInv ==
  /\ \A p \in Syncers : Holds(p)
  /\ WholeBatches /\ OnlyRows /\ ArchivedInBatch /\ ManifestDescribesArchive

(* Without a change to batches, acknowledgements and archive, only the     *)
(* calls matter.                                                           *)
LEMMA BatchesUntouched ==
  ASSUME TypeOK', SingleInv, rows \subseteq rows', UNCHANGED <<batch, acked, archive, manifests>>,
         \A p \in Syncers : Holds(p)'
  PROVE  SingleInv'
<1>1. OnlyRows'
  BY DEF SingleInv, OnlyRows
<1>2. WholeBatches'
  <2> SUFFICES ASSUME NEW q \in rows', batch[q] # NoBatch, NEW r \in SeqsOf(batch[q])
               PROVE  r \in rows' /\ batch[r] = batch[q] /\ (r \in acked) = (q \in acked)
    BY DEF WholeBatches, SeqsOf
  <2>1. CASE q \in rows
    BY <2>1 DEF SingleInv, WholeBatches
  <2>2. CASE q \notin rows /\ q \in Seqs
    BY <2>2 DEF SingleInv, OnlyRows
  <2> QED BY <2>1, <2>2 DEF TypeOK
<1>3. ArchivedInBatch' /\ ManifestDescribesArchive'
  BY DEF SingleInv, ArchivedInBatch, ManifestDescribesArchive
<1> QED BY <1>1, <1>2, <1>3 DEF SingleInv

(* Every step keeps SingleInv: nobody else acts between the steps of the   *)
(* call.                                                                   *)
LEMMA SingleStep ==
  ASSUME Syncers = {Background}, IndInv, SingleInv, [Next]_vars
  PROVE  SingleInv'
<1>t. TypeOK /\ TypeOK'
  BY TypeStep DEF IndInv
<1>1. ASSUME rows \subseteq rows', UNCHANGED <<batch, acked, archive, manifests, syncer>> PROVE SingleInv'
  <2>1. ASSUME NEW p \in Syncers PROVE Holds(p)'
    BY <1>1 DEF SingleInv, Holds, Mine, SeqsOf, Unacked
  <2> QED BY <1>1, <1>t, <2>1, BatchesUntouched
<1>2. ASSUME NEW p \in Syncers, UNCHANGED <<rows, batch, acked, archive, manifests>>, Holds(p)'
      PROVE  SingleInv'
  <2>1. \A x \in Syncers : x = p
    OBVIOUS
  <2>2. \A x \in Syncers : Holds(x)'
    BY <1>2, <2>1
  <2> QED BY <1>2, <1>t, <2>2, BatchesUntouched
<1>3. ASSUME NEW p \in Syncers, syncer' = [syncer EXCEPT ![p] = Idle]
      PROVE  Holds(p)'
  <2>1. syncer'[p] = Idle
    BY <1>3, <1>t DEF TypeOK
  <2> QED BY <2>1 DEF Holds, Idle
<1>4. ASSUME NEW p \in Syncers, NEW found \in SUBSET Unacked, Begin(p, found),
             UNCHANGED <<localVars, remoteVars>>
      PROVE  SingleInv'
  <2>1. CASE found = {}
    <3>1. Holds(p)'
      BY <1>3, <1>4, <2>1 DEF Begin
    <3> QED BY <1>2, <1>4, <3>1 DEF localVars, remoteVars
  <2>2. CASE found # {}
    <3>1. PICK call : call = [Idle EXCEPT !.pc = "resolving",
                                          !.seen = {batch[q] : q \in found} \ {NoBatch}, !.todo = found]
      OBVIOUS
    <3>2. syncer'[p] = call
      BY <1>4, <1>t, <2>2, <3>1 DEF Begin, TypeOK
    <3>3. /\ call.pc = "resolving" /\ call.todo = found /\ call.events = {}
          /\ call.seen = {batch[q] : q \in found} \ {NoBatch}
      BY <3>1 DEF Idle
    <3>4. Mine(p)' = found
      BY <3>2, <3>3 DEF Mine, SeqsOf
    <3>5. Unacked' = Unacked /\ batch' = batch
      BY <1>4 DEF localVars, Unacked
    <3>6. Holds(p)'
      BY <1>4, <3>2, <3>3, <3>4, <3>5 DEF Holds
    <3> QED BY <1>2, <1>4, <3>6 DEF localVars, remoteVars
  <2> QED BY <2>1, <2>2
<1>5. ASSUME NEW p \in Syncers, ReadHeadPostgres(p) PROVE SingleInv'
  <2>1. PICK h : syncer' = [syncer EXCEPT ![p] = [Idle EXCEPT !.pc = "head", !.head = h]]
    BY <1>5 DEF ReadHeadPostgres
  <2>2. syncer'[p].pc = "head"
    BY <1>t, <2>1 DEF TypeOK, Idle
  <2>3. Holds(p)'
    BY <2>2 DEF Holds
  <2> QED BY <1>2, <1>5, <2>3 DEF ReadHeadPostgres, localVars, remoteVars
<1>6. ASSUME NEW p \in Syncers, NEW q \in Seqs, ResolveEvent(p, q) PROVE SingleInv'
  <2>1. /\ q \in syncer[p].todo /\ syncer[p].pc = "resolving" /\ UNCHANGED <<localVars, remoteVars>>
        /\ syncer' = [syncer EXCEPT ![p] = WithPayload(syncer[p], q)]
    BY <1>6 DEF ResolveEvent
  <2>2. PICK new : new = WithPayload(syncer[p], q)
    OBVIOUS
  <2>3. syncer'[p] = new /\ syncer[p] \in SyncerState
    BY <1>t, <2>1, <2>2 DEF TypeOK
  <2>4. /\ new.pc = "resolving" /\ new.todo = syncer[p].todo \ {q}
        /\ SeqsOf(new.events) = SeqsOf(syncer[p].events) \cup {q}
    <3>1. /\ new.pc = syncer[p].pc /\ new.todo = syncer[p].todo \ {q}
          /\ SeqsOf(new.events) = SeqsOf(syncer[p].events) \cup {q}
      <4>1. syncer[p] \in SyncerState
        BY <2>3
      <4> QED BY <2>2, <4>1, WithPayloadFacts
    <3> QED BY <2>1, <3>1
  <2>5. new.seen = syncer[p].seen
    BY <2>2, <2>3 DEF WithPayload, SyncerState
  <2>6. Mine(p)' = Mine(p)
    <3>1. Mine(p)' = SeqsOf(syncer'[p].events) \cup syncer'[p].todo
      BY DEF Mine, SeqsOf
    <3> QED BY <2>1, <2>3, <2>4, <3>1 DEF Mine
  <2>7. Unacked' = Unacked /\ batch' = batch
    BY <2>1 DEF localVars, Unacked
  <2>8. Holds(p)'
    BY <2>1, <2>3, <2>4, <2>5, <2>6, <2>7 DEF SingleInv, Holds
  <2> QED BY <1>2, <2>1, <2>8 DEF localVars, remoteVars
<1>7. ASSUME NEW p \in Syncers, AssignBatch(p) PROVE SingleInv'
  <2>1. PICK events : events = syncer[p].events
    OBVIOUS
  <2>2. /\ syncer[p].pc = "resolving" /\ syncer[p].todo = {}
        /\ syncer[p].seen = {} \/ syncer[p].seen = {events}
        /\ batch' = Assigned(events) /\ syncer' = [syncer EXCEPT ![p].pc = "assigned"]
        /\ UNCHANGED <<rows, acked, archive, manifests>>
    BY <1>7, <2>1 DEF AssignBatch, IdentityMatches, remoteVars
  <2>3. events # {} /\ SeqsOf(events) \subseteq rows /\ rows \subseteq Seqs
    BY <1>t, <2>1, <2>2 DEF IndInv, CallsKnow, CallKnows, TypeOK
  <2>4. ASSUME NEW q \in SeqsOf(events) PROVE q \in Unacked /\ batch[q] \in {NoBatch, events}
    <3>1. q \in Mine(p)
      BY <2>1 DEF Mine
    <3>2. q \in Unacked /\ (batch[q] = NoBatch \/ batch[q] \in syncer[p].seen)
      BY <2>2, <3>1 DEF SingleInv, Holds
    <3> QED BY <2>2, <3>2
  <2>5. \A q \in Seqs : batch'[q] = IF q \in SeqsOf(events) THEN events ELSE batch[q]
    BY <2>2, <2>4 DEF Assigned
  <2>6. \A x \in Syncers : Holds(x)'
    <3>1. PICK call : call = [syncer[p] EXCEPT !.pc = "assigned"]
      OBVIOUS
    <3>2. syncer'[p] = call /\ call.pc = "assigned" /\ call.events = events
      BY <1>t, <2>1, <2>2, <3>1 DEF TypeOK, SyncerState
    <3>3. \A q \in SeqsOf(events) : batch'[q] = events
      BY <2>3, <2>5
    <3>4. SeqsOf(call.events)' = SeqsOf(events)
      BY <3>2 DEF SeqsOf
    <3>5. Holds(p)'
      BY <3>2, <3>3, <3>4 DEF Holds, SeqsOf
    <3> QED BY <3>5
  <2>7. OnlyRows'
    BY <2>2, <2>3, <2>5 DEF OnlyRows, SingleInv
  <2>8. WholeBatches'
    <3> SUFFICES ASSUME NEW q \in rows, batch'[q] # NoBatch, NEW r \in SeqsOf(batch'[q])
                 PROVE  r \in rows /\ batch'[r] = batch'[q] /\ (r \in acked) = (q \in acked)
      BY <2>2 DEF WholeBatches, SeqsOf
    <3>1. CASE q \in SeqsOf(events)
      <4>1. batch'[q] = events /\ r \in SeqsOf(events)
        BY <2>3, <2>5, <3>1
      <4>2. batch'[r] = events /\ r \in rows
        BY <2>3, <2>5, <4>1
      <4>3. q \notin acked /\ r \notin acked
        BY <2>4, <3>1, <4>1 DEF Unacked
      <4> QED BY <4>1, <4>2, <4>3
    <3>2. CASE q \notin SeqsOf(events)
      <4>1. batch'[q] = batch[q]
        BY <2>3, <2>5, <3>2
      <4>2. r \in rows /\ batch[r] = batch[q] /\ (r \in acked) = (q \in acked)
        BY <4>1 DEF SingleInv, WholeBatches
      <4>3. q \in SeqsOf(batch[q])
        BY <2>3, <4>1 DEF IndInv, BatchNamesRow
      <4>4. r \notin SeqsOf(events)
        BY <2>4, <3>2, <4>1, <4>2, <4>3
      <4>5. batch'[r] = batch[r]
        BY <2>3, <2>5, <4>2, <4>4
      <4> QED BY <4>1, <4>2, <4>5
    <3> QED BY <3>1, <3>2
  <2>9. ArchivedInBatch'
    <3> SUFFICES ASSUME NEW e \in archive PROVE batch'[e.seq] # NoBatch /\ batch'[e.seq] \in manifests
      BY <2>2 DEF ArchivedInBatch
    <3>1. batch[e.seq] # NoBatch /\ batch[e.seq] \in manifests /\ e.seq \in Seqs
      BY <2>3 DEF SingleInv, ArchivedInBatch, IndInv, ArchiveIsLocal
    <3>2. batch'[e.seq] = batch[e.seq]
      BY <2>4, <2>5, <3>1
    <3> QED BY <3>1, <3>2
  <2>10. ManifestDescribesArchive'
    BY <2>2 DEF SingleInv, ManifestDescribesArchive
  <2> QED BY <2>6, <2>7, <2>8, <2>9, <2>10 DEF SingleInv
<1>8. ASSUME NEW p \in Syncers, Push(p) PROVE SingleInv'
  <2>1. PICK events : events = syncer[p].events
    OBVIOUS
  <2>2. /\ syncer[p].pc = "assigned" /\ syncer' = [syncer EXCEPT ![p].pc = "pushed"]
        /\ UNCHANGED <<rows, batch, acked>>
    BY <1>8 DEF Push, localVars
  <2>3. events # {} /\ \A q \in SeqsOf(events) : batch[q] = events
    BY <2>1, <2>2 DEF IndInv, CallsKnow, CallKnows, SingleInv, Holds
  <2>4. manifests' = manifests \cup {events} /\ archive \subseteq archive'
        /\ archive' \subseteq archive \cup events
    BY <1>8, <2>1 DEF Push, remoteVars
  <2>5. events \subseteq archive'
    <3>1. CASE events \in manifests
      BY <2>4, <3>1 DEF SingleInv, ManifestDescribesArchive
    <3>2. CASE events \notin manifests
      <4>1. ASSUME NEW e \in events, NEW a \in archive, a.seq = e.seq PROVE FALSE
        <5>1. batch[e.seq] = events
          BY <2>3 DEF SeqsOf
        <5>2. batch[a.seq] \in manifests
          BY DEF SingleInv, ArchivedInBatch
        <5> QED BY <3>2, <4>1, <5>1, <5>2
      <4>2. \A e \in events : ~ Archived(e.seq)
        BY <4>1 DEF Archived
      <4> QED BY <1>8, <2>1, <3>2, <4>2 DEF Push
    <3> QED BY <3>1, <3>2
  <2>6. ManifestDescribesArchive'
    BY <2>4, <2>5 DEF SingleInv, ManifestDescribesArchive
  <2>7. ArchivedInBatch'
    <3> SUFFICES ASSUME NEW e \in archive' PROVE batch[e.seq] # NoBatch /\ batch[e.seq] \in manifests'
      BY <2>2 DEF ArchivedInBatch
    <3>1. CASE e \in archive
      BY <2>4, <3>1 DEF SingleInv, ArchivedInBatch
    <3>2. CASE e \in events
      BY <2>3, <2>4, <3>2 DEF SeqsOf, NoBatch
    <3> QED BY <2>4, <3>1, <3>2
  <2>8. \A x \in Syncers : Holds(x)'
    <3>1. PICK call : call = [syncer[p] EXCEPT !.pc = "pushed"]
      OBVIOUS
    <3>2. syncer'[p] = call /\ call.pc = "pushed" /\ call.events = events
      BY <1>t, <2>1, <2>2, <3>1 DEF TypeOK, SyncerState
    <3>3. Holds(p)'
      BY <2>2, <2>3, <3>2 DEF Holds, SeqsOf
    <3> QED BY <3>3
  <2>9. WholeBatches' /\ OnlyRows'
    BY <2>2 DEF SingleInv, WholeBatches, OnlyRows, SeqsOf
  <2> QED BY <2>6, <2>7, <2>8, <2>9 DEF SingleInv
<1>9. ASSUME NEW p \in Syncers, Acknowledge(p) PROVE SingleInv'
  <2>1. /\ syncer' = [syncer EXCEPT ![p] = Idle] /\ UNCHANGED <<rows, batch, archive, manifests>>
        /\ acked' = acked \cup {q \in rows : batch[q] = syncer[p].events}
    BY <1>9 DEF Acknowledge, Acknowledged, remoteVars
  <2>2. \A x \in Syncers : Holds(x)'
    BY <1>3, <2>1
  <2>3. WholeBatches'
    <3> SUFFICES ASSUME NEW q \in rows, batch[q] # NoBatch, NEW r \in SeqsOf(batch[q])
                 PROVE  r \in rows /\ batch[r] = batch[q] /\ (r \in acked') = (q \in acked')
      BY <2>1 DEF WholeBatches, SeqsOf
    <3>1. r \in rows /\ batch[r] = batch[q] /\ (r \in acked) = (q \in acked)
      BY DEF SingleInv, WholeBatches
    <3> QED BY <2>1, <3>1
  <2>4. OnlyRows' /\ ArchivedInBatch' /\ ManifestDescribesArchive'
    BY <2>1 DEF SingleInv, OnlyRows, ArchivedInBatch, ManifestDescribesArchive
  <2> QED BY <2>2, <2>3, <2>4 DEF SingleInv
<1>10. ASSUME NEW p \in Syncers, RejectIdentity(p) \/ LosePushRace(p) \/ Stop(p) PROVE SingleInv'
  <2>1. Holds(p)'
    BY <1>3, <1>10 DEF RejectIdentity, LosePushRace, Stop
  <2> QED BY <1>2, <1>10, <2>1 DEF RejectIdentity, LosePushRace, Stop, localVars, remoteVars
<1>11. CASE Local
  BY <1>1, <1>11 DEF Local, WriteVersion, IngestEvent, IngestSessionChange, Append, remoteVars
<1>12. ASSUME NEW p \in Syncers, ReadPendingSQLite(p) \/ ReadPendingPostgres(p) PROVE SingleInv'
  BY <1>4, <1>12, PendingIsUnacked DEF ReadPendingSQLite, ReadPendingPostgres
<1>13. CASE UNCHANGED vars
  BY <1>1, <1>13 DEF vars, localVars, remoteVars
<1> QED BY <1>5, <1>6, <1>7, <1>8, <1>9, <1>10, <1>11, <1>12, <1>13 DEF Next, Start, Continue

(* SingleInv always holds when the background syncer is alone. *)
LEMMA SingleInvariant ==
  ASSUME Syncers = {Background}
  PROVE  Spec => []SingleInv
<1>1. Init => SingleInv
  BY DEF Init, SingleInv, Holds, Idle, WholeBatches, OnlyRows, ArchivedInBatch, ManifestDescribesArchive
<1>2. IndInv /\ SingleInv /\ [Next]_vars => SingleInv'
  BY SingleStep
<1> QED BY <1>1, <1>2, Invariance, PTL DEF Spec

(* With one syncer, the rows of a batch are acknowledged together, and the *)
(* pending rows of a batch are the whole batch, so that a retry after a    *)
(* stop can recompute its id (assign_outbox_batch,                         *)
(* acknowledge_outbox_batch).                                              *)
THEOREM BatchesStayWhole ==
  ASSUME Syncers = {Background}
  PROVE  Spec => []BatchIsWhole
<1>1. SingleInv => BatchIsWhole
  BY DEF SingleInv, WholeBatches, BatchIsWhole
<1> QED BY <1>1, SingleInvariant, PTL

(* With one syncer, every manifest describes what the archive holds, also  *)
(* when session payloads change between a stop and the retry               *)
(* (_push_batch).                                                          *)
THEOREM ManifestsDescribeArchive ==
  ASSUME Syncers = {Background}
  PROVE  Spec => []ManifestDescribesArchive
<1>1. SingleInv => ManifestDescribesArchive
  BY DEF SingleInv
<1> QED BY <1>1, SingleInvariant, PTL
=============================================================================
