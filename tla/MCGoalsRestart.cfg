SPECIFICATION Spec
CONSTANTS
  run = run
  run2 = run2
  resume = resume
  retry = retry
  cancel = cancel
  g1 = g1
  g2 = g2
  Nobody = Nobody
  Goals = {g1}
  Drivers = {run, resume}
  KindOf <- MCKindOf
  GoalOf <- MCGoalOf
  MaxSubs = 2
  PreStarted = FALSE
  MaxCrashes = 1
  PoolSize = 2
  Overlap = FALSE
CHECK_DEADLOCK FALSE
INVARIANTS
  SequentialUnlessLate
  StoreInStep
  FollowUpVerdictIsEarned
  NeverStranded
PROPERTIES
  VerdictStands
  RunsKeepTheirPromise
