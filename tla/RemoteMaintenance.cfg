SPECIFICATION FairSpec
CONSTANTS
  Replicas = {1, 2}
  Paths = {1, 2}
  Streams <- TwoReplicas
  Answers <- SomeAnswers
  MaxInput = 2
  MaxIndexPages = 1
  MaxEmbed = 2
  MaxQueries = 1
  PagesPerQuery = 1
  MaxReplicas = 1
  MaxBatches = 2
  MaxEvents = 2
  MaxPages = 2
  MaxFailures = 1
CHECK_DEADLOCK FALSE
INVARIANTS TypeOK EvidenceCovered AnalyzedOnce BasesAtWatermark GroupsWhole
PROPERTIES CaughtUp
