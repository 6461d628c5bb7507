SPECIFICATION Spec
CONSTANTS
  run = run
  run2 = run2
  resume = resume
  retry = retry
  cancel = cancel
  g1 = g1
  g2 = g2
  Nobody = Nobody
  Goals = {g1}
  Drivers = {run, resume}
  KindOf <- MCKindOf
  GoalOf <- MCGoalOf
  MaxSubs = 1
  PreStarted = TRUE
  MaxCrashes = 1
  PoolSize = 2
  Overlap = FALSE
CHECK_DEADLOCK FALSE
INVARIANT ResumedHasPlan
