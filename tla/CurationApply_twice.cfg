SPECIFICATION FairSpec
CONSTANTS
  a = a  b = b  c = c  c0 = c0  c1 = c1  c2 = c2
  x1 = x1  x2 = x2  x3 = x3  x4 = x4  x5 = x5  x6 = x6  x7 = x7  x8 = x8
  g1 = g1  g2 = g2  g3 = g3  g4 = g4
  r1 = r1  r2 = r2  r3 = r3  r4 = r4
  bg = bg  cli = cli  human = human
  NoPath = NoPath  Agent = Agent  Free = Free
  Paths = {a, b}
  Contents = {c0, c1, c2}
  InitialPages = {a, b}
  InitialContent = c0
  Patches = {x1, x2, x3}
  Patch <- TwicePatch
  Groups = {g1, g2}
  Members <- TwiceMembers
  RunOrder <- TwoRuns
  Plan <- TwicePlan
  Workers = {bg}
  AutoWorkers = {bg}
  Background = bg
  ApplyPolicy = "safe"
  MaxRuns = 2
  MaxWrites = 0
  MaxStops = 0
CHECK_DEADLOCK FALSE
PROPERTIES LowRiskRunsApplied
