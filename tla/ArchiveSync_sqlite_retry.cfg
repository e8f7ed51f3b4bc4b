SPECIFICATION FairSpec
CONSTANTS
  bg = bg
  cli = cli
  s1 = s1
  Immutable = Immutable
  Background = bg
  Backend = "sqlite"
  Syncers <- OneSyncer
  Sessions <- NoSession
  Limit = 2
  MaxSeq = 3
  MaxRev = 0
  MaxStops = 1
CHECK_DEADLOCK FALSE
PROPERTIES OutboxDrains
