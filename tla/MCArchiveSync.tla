---- MODULE MCArchiveSync ----
(* ArchiveSync on small instances. *)
EXTENDS ArchiveSync, TLC

CONSTANTS bg, cli, s1

OneSyncer  == {bg}
TwoSyncers == {bg, cli}
OneSession == {s1}
NoSession  == {}

(* ArchiveSync never compares sessions or syncers other than Background, so *)
(* nothing else is symmetric on instances this small.                      *)
====
