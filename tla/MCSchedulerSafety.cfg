SPECIFICATION Spec
CONSTANTS
  once = once
  every = every
  cron = cron
  JobIds = {every}
  MaxGen = 2
  Kind <- MCKind
  Period <- MCPeriod
  MaxRunning <- Two
  Coroutines = {}
  Poll = 1
  MaxOrphans = 1
  Trigger = "running"
  SaveMayFail = TRUE
INVARIANTS
  TypeOK
  CountIsLive
PROPERTY
  ImplementsExecutor
