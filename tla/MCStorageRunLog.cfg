SPECIFICATION Spec
CONSTANTS
  p = p
  q = q
  v = v
  m = m
  w1 = w1
  w2 = w2
  key = key
  violations = violations
  memory = memory
  Absent = Absent
  Free = Free
  NoWriter = NoWriter
  Threads = {p, q}
  Keys = {key, violations, memory}
  Recs = {1, 2, 3}
  KeyOf <- MCKeyOf
  Use <- MCUse
  Backends = {"one"}
  BackendOf <- Same
  Writers = {w1, w2}
  Lines = {1, 2, 3, 4}
  Wide = {}
  Split = {}
  LockOf <- OwnLock
  MaxCrashes = 2
CHECK_DEADLOCK FALSE
INVARIANT FinishedLinesLoad
