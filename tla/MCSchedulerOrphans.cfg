SPECIFICATION Spec
CONSTANTS
  once = once
  every = every
  cron = cron
  JobIds = {every}
  MaxGen = 1
  Kind <- MCKind
  Period <- MCPeriod
  MaxRunning <- One
  Coroutines = {}
  Poll = 1
  MaxOrphans = 1
  Trigger = "never"
  SaveMayFail = FALSE
INVARIANTS
  ExecutionsWithinMax
