SPECIFICATION FairSpec
CONSTANTS
  bg = bg
  cli = cli
  s1 = s1
  Immutable = Immutable
  Background = bg
  Backend = "sqlite"
  Syncers <- TwoSyncers
  Sessions <- OneSession
  Limit = 2
  MaxSeq = 3
  MaxRev = 1
  MaxStops = 1
CHECK_DEADLOCK FALSE
INVARIANTS AckedIsArchived ArchiveIsPrefix
PROPERTIES BatchIsFinal ImplementsReliableArchive OutboxDrainsWithoutStop
