SPECIFICATION FairSpec
CONSTANTS
  run = run
  run2 = run2
  resume = resume
  retry = retry
  cancel = cancel
  g1 = g1
  g2 = g2
  Nobody = Nobody
  Goals = {g1}
  Drivers = {run, retry, cancel}
  KindOf <- MCKindOf
  GoalOf <- MCGoalOf
  MaxSubs = 1
  PreStarted = FALSE
  MaxCrashes = 0
  PoolSize = 2
  Overlap = TRUE
CHECK_DEADLOCK FALSE
INVARIANTS
  TypeOK
  DoneIsEarned
  RunVerdictIsEarned
PROPERTY
  CallsEnd
