\* The only method is registered after start().
SPECIFICATION FairSpec
CONSTANTS
  r1 = r1
  r2 = r2
  r3 = r3
  m1 = m1
  m2 = m2
  Request = {r1}
  Method = {m1}
  MethodOf <- OneMethod
  Cap <- OneAtATime
  GlobalCap = 1
  Early = {}
  Changing = {m1}
  Leaving = {m1}
  MaxStarts = 1
  MaxLimiters = 1
CHECK_DEADLOCK FALSE
PROPERTIES
  TakenIsHandled
