--------------------------- MODULE ReliableArchive ---------------------------
(***************************************************************************)
(* What archive sync promises, without batches, processes or failures.     *)
(* A version is written locally, later it is in the remote archive, and    *)
(* only then does the local store note it as acknowledged.  Nothing is     *)
(* ever taken back: the archive is append-only and an acknowledgement is   *)
(* final.  ArchiveSync implements this specification.                      *)
(***************************************************************************)
CONSTANT Seqs         \* outbox sequence numbers

VARIABLES
  written,            \* sequences whose local transaction has committed
  archived,           \* sequences the remote archive holds
  acked               \* sequences the local store regards as delivered

vars == <<written, archived, acked>>

Init == written = {} /\ archived = {} /\ acked = {}

Write(S) ==
  /\ written' = written \cup S
  /\ UNCHANGED <<archived, acked>>

Archive(S) ==
  /\ S \subseteq written
  /\ archived' = archived \cup S
  /\ UNCHANGED <<written, acked>>

Acknowledge(S) ==
  /\ S \subseteq archived
  /\ acked' = acked \cup S
  /\ UNCHANGED <<written, archived>>

Next == \E S \in SUBSET Seqs : Write(S) \/ Archive(S) \/ Acknowledge(S)

Spec == Init /\ [][Next]_vars
=============================================================================
