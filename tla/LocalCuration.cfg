SPECIFICATION Spec
CONSTANTS
  night = night
  other = other
  procA = procA
  procB = procB
  Topics <- MCTopics
  Sizes <- MCSizes
  AgentSizes = {1, 3}
  Settings <- MCSettings
  Sessions = {1, 2, 3}
  Folder <- MCFolder
  Container = container
  NoTopic = none
  Unrouted = unrouted
  Curators = {night, other}
  Nightly = night
  MaxProjects = 2
  MaxRoutes = 1
  MaxWindow = 1
  Runners = {procA, procB}
  Operator = operator
  Nobody = nobody
  Mentions <- MCMentions
  TTL = 2
  RemoteEvery = 2
  LocalEvery = 2
  MaxCycle = 3
  MaxFails = 1
INVARIANTS
  TypeOK
  
  NeverHalved
  LeaseExclusive
PROPERTIES
  RoutesStay
  AttemptsSpaced
  
  WikiTended
CHECK_DEADLOCK FALSE
