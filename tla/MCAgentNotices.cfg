SPECIFICATION Spec
CONSTANTS
  a = a
  b = b
  c = c
  t = t
  u = u
  None = None
  Chains <- OneModel
  Streams = FALSE
  Retries = 0
  Actions <- MCActions
  MayHang = TRUE
  Tasks = {t, u}
  MaxSteps = 3
  ToolOf <- MCToolOf
  RepeatAt = {2}
  NameAt = {3}
  ConvergeAt = {3}
  Keep = 4
  Compacts = TRUE
  MayBeBulky = FALSE
  ThinkTimeout = TRUE
  Plans = FALSE
  Reflects = TRUE
  MaxRuns = 2
  MaxLate = 0
  MaxStops = 1
CHECK_DEADLOCK FALSE
INVARIANT NoticesAreMine
