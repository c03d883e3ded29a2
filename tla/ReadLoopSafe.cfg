\* Two requests of a method that is registered anew; stop() and start() again.
SPECIFICATION Spec
CONSTANTS
  r1 = r1
  r2 = r2
  r3 = r3
  m1 = m1
  m2 = m2
  Request = {r1, r2}
  Method = {m1}
  MethodOf <- OneMethod
  Cap <- OneAtATime
  GlobalCap = 2
  Early = {m1}
  Changing = {m1}
  Leaving = {m1}
  MaxStarts = 2
  MaxLimiters = 2
SYMMETRY CallSymmetry
CHECK_DEADLOCK FALSE
INVARIANTS
  TypeOK
  CapUntilRegisteredAnew
  SlotsAccounted
  NoMissedWake
