SPECIFICATION Spec
CONSTANTS
  s0 = s0
  s1 = s1
  s2 = s2
  m1 = m1
  m2 = m2
  m3 = m3
  t1 = t1
  t2 = t2
  Reply = Reply
  SessionOf <- MCSessionOf
  SessionIds = {s1}
  Messages = {t1}
  Turns = {t1}
  Streamed = {t1}
  Blank = {}
  Unsafe = {}
  MaxConsumers = 1
  MaxStops = 0
  FactoryMayRaise = FALSE
CHECK_DEADLOCK FALSE
INVARIANT StopIsAnAnswer
