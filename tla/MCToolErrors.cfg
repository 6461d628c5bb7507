SPECIFICATION FairSpec
CONSTANTS
  a = a
  b = b
  e1 = e1
  e2 = e2
  e3 = e3
  w = w
  r = r
  x = x
  y = y
  i = i
  u = u
  f = f
  m1 = m1
  m2 = m2
  Nobody = Nobody
  Agents = {a, b}
  Calls = {e1, e2, e3, w, r, x, y, i, u}
  Paths = {f}
  Batches <- MCBatches
  Kind <- MCKind
  PathOf <- MCPathOf
  Needs <- MCNeeds
  Base = {m1, m2}
  Workers = 2
  MayFail = TRUE
CHECK_DEADLOCK FALSE
PROPERTY ErrorChangesNothing
