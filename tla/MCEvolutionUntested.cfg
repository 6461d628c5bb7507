SPECIFICATION Spec
CONSTANTS
  q1 = q1
  q2 = q2
  q3 = q3
  x = x
  t = t
  None = None
  Questions = {q1, q2}
  Contradictions = {x}
  Claims = {t}
  Seed <- MCSeed
  MinOpen <- MCMinOpen
  MaxRuns <- MCMaxRuns
  MaxDepth = 1
  RoundsBetweenDreams = 3
  Window = 50
  SedimentWindow = 500
  MinTheories = 2
  HasReflector = TRUE
  MaxAnswers = 1
  MaxStops = 1
  MaxCommands = 2
CHECK_DEADLOCK FALSE
INVARIANTS
  ResolvedHasTrial
