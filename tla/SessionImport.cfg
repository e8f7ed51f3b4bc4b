SPECIFICATION FairSpec
CONSTANTS
  e1 = e1  e2 = e2
  bg = bg  cli = cli
  Absent = Absent
  Sessions = {1, 2}
  Events = {e1, e2}
  Contents <- TwoTexts
  Record <- Revisions
  Deployments <- Deployed
  Repairers = {bg, cli}
  Background = bg
  MayFail <- FirstFails
  Unsyncable <- SkippedTwo
  Limits = {0}
  MaxClock = 2
  MaxLate = 1
  MaxBackups = 1
  MaxRestores = 1
  MaxPrunes = 1
  MaxStops = 1
  ChunkBytes = 4
  MaxHits = 4
CHECK_DEADLOCK FALSE
INVARIANTS  ReadsBackRecord SearchableUnlessRestored RepairNeverRaises NothingLost CursorCovers ChunksCoverText ResultFilled
PROPERTIES SearchRepaired
