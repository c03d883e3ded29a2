\* Two calls of one client share its reap lock, two servers share a queue.
SPECIFICATION Spec
CONSTANTS
  s1 = s1
  s2 = s2
  c1 = c1
  r1 = r1
  r2 = r2
  m1 = m1
  Server = {s1, s2}
  Client = {c1}
  Request = {r1, r2}
  Method = {m1}
  NoServer = NoServer
  NoRequest = NoRequest
  MethodOf <- OneMethod
  ClientOf <- OneClient
  Serves <- AllServe
  Crashable = {s1}
  Stoppable = {}
  Stallable = {}
  Impatient = {}
  MaxFaults = 0
SYMMETRY RequestSymmetry
INVARIANTS
  LostOnlyIfAbsent
  LostMeansDead
  AtMostOneLost
  NoneVanishes
PROPERTIES
  TakenOnce
