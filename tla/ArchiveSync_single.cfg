SPECIFICATION FairSpec
CONSTANTS
  bg = bg
  cli = cli
  s1 = s1
  Immutable = Immutable
  Background = bg
  Backend = "postgres"
  Syncers <- OneSyncer
  Sessions <- OneSession
  Limit = 2
  MaxSeq = 4
  MaxRev = 1
  MaxStops = 2
CHECK_DEADLOCK FALSE
INVARIANTS TypeOK BatchIsWhole ManifestDescribesArchive
PROPERTIES OutboxDrains
