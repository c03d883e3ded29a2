\* Two methods under a cap of the server, one of them registered late.
SPECIFICATION FairSpec
CONSTANTS
  r1 = r1
  r2 = r2
  r3 = r3
  m1 = m1
  m2 = m2
  Request = {r1, r3}
  Method = {m1, m2}
  MethodOf <- TwoMethods
  Cap <- OneAtATime
  GlobalCap = 1
  Early = {m1}
  Changing = {m2}
  Leaving = {}
  MaxStarts = 1
  MaxLimiters = 2
CHECK_DEADLOCK FALSE
INVARIANTS
  NoMissedWake
PROPERTIES
  QueuedIsServed
  StopReturns
