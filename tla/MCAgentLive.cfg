SPECIFICATION FairSpec
CONSTANTS
  a = a
  b = b
  c = c
  t = t
  u = u
  None = None
  Chains <- ModelOrTwo
  Streams = TRUE
  Retries = 1
  Actions <- MCOne
  MayHang = TRUE
  Tasks = {t}
  MaxSteps = 3
  ToolOf <- MCToolOf
  RepeatAt = {2}
  NameAt = {3}
  ConvergeAt = {2}
  Keep = 2
  Compacts = TRUE
  MayBeBulky = TRUE
  ThinkTimeout = TRUE
  Plans = TRUE
  Reflects = TRUE
  MaxRuns = 1
  MaxLate = 1
  MaxStops = 0
CHECK_DEADLOCK FALSE
INVARIANTS
  NoneMeansAllTried
  NothingForgotten
PROPERTIES
  RunEnds
