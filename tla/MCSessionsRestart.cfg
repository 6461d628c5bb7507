SPECIFICATION FairSpec
CONSTANTS
  s0 = s0
  s1 = s1
  s2 = s2
  m1 = m1
  m2 = m2
  m3 = m3
  t1 = t1
  t2 = t2
  Reply = Reply
  SessionOf <- MCSessionOf
  SessionIds = {s0, s1}
  Messages = {m1, m2, m3, t1}
  Turns = {t1}
  Streamed = {t1}
  Blank = {m2}
  Unsafe = {}
  MaxConsumers = 3
  MaxStops = 1
  FactoryMayRaise = TRUE
CHECK_DEADLOCK FALSE
INVARIANTS
  OneConsumer
  InOrder
  AnswerIsMine
  NothingTwice
PROPERTY
  MessagesAreServed
