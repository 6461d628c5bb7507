SPECIFICATION FairSpec
CONSTANTS
  once = once
  every = every
  cron = cron
  JobIds = {once, cron}
  MaxGen = 1
  Kind <- MCKind
  Period <- MCPeriod
  MaxRunning <- Mixed
  Coroutines = {}
  Poll = 2
  MaxOrphans = 1
  Trigger = "running"
  SaveMayFail = FALSE
INVARIANTS
  OneShotRunsOnce
  NoOversleep
PROPERTY
  DueIsStarted
