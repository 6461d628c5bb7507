SPECIFICATION Spec
CONSTANTS
  once = once
  every = every
  cron = cron
  JobIds = {once}
  MaxGen = 1
  Kind <- MCKind
  Period <- MCPeriod
  MaxRunning <- Two
  Coroutines = {}
  Poll = 1
  MaxOrphans = 1
  Trigger = "never"
  SaveMayFail = FALSE
INVARIANTS
  OneShotRunsOnce
