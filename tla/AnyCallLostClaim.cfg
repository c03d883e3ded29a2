\* A reaper is killed between its claim and its push.
SPECIFICATION Spec
CONSTANTS
  s1 = s1
  s2 = s2
  c1 = c1
  r1 = r1
  r2 = r2
  m1 = m1
  Server = {s1, s2}
  Client = {c1}
  Request = {r1}
  Method = {m1}
  NoServer = NoServer
  NoRequest = NoRequest
  MethodOf <- OneMethod
  ClientOf <- OneClient
  Serves <- AllServe
  Crashable = {s1, s2}
  Stoppable = {}
  Stallable = {}
  Impatient = {}
  MaxFaults = 0
CHECK_DEADLOCK FALSE
INVARIANTS
  CrashLeavesTrace
