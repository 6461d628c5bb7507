SPECIFICATION FairSpec
CONSTANTS
  q1 = q1
  q2 = q2
  q3 = q3
  x = x
  t = t
  None = None
  Questions = {q1, q2, q3}
  Contradictions = {}
  Claims = {}
  Seed <- MCSeed
  MinOpen <- MCMinOpen
  MaxRuns <- MCMaxRuns
  MaxDepth = 2
  RoundsBetweenDreams = 3
  Window = 2
  SedimentWindow = 500
  MinTheories = 2
  HasReflector = TRUE
  MaxAnswers = 2
  MaxStops = 0
  MaxCommands = 1
CHECK_DEADLOCK FALSE
INVARIANTS
  TreeSound
  OldestFirst
PROPERTIES
  OpenIsExplored
  PickedIsConcluded
