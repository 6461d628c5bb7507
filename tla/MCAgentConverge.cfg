SPECIFICATION Spec
CONSTANTS
  a = a
  b = b
  c = c
  t = t
  u = u
  None = None
  Chains <- OneModel
  Streams = FALSE
  Retries = 0
  Actions <- MCActions
  MayHang = FALSE
  Tasks = {t}
  MaxSteps = 7
  ToolOf <- MCToolOf
  RepeatAt = {3}
  NameAt = {4}
  ConvergeAt = {5}
  Keep = 4
  Compacts = TRUE
  MayBeBulky = FALSE
  ThinkTimeout = FALSE
  Plans = FALSE
  Reflects = TRUE
  MaxRuns = 1
  MaxLate = 0
  MaxStops = 0
CHECK_DEADLOCK FALSE
INVARIANT NonConvergenceIsTold
