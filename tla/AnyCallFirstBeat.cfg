\* The first heartbeat of a server fails.
SPECIFICATION Spec
CONSTANTS
  s1 = s1
  s2 = s2
  c1 = c1
  r1 = r1
  r2 = r2
  m1 = m1
  Server = {s1, s2}
  Client = {c1}
  Request = {r1}
  Method = {m1}
  NoServer = NoServer
  NoRequest = NoRequest
  MethodOf <- OneMethod
  ClientOf <- OneClient
  Serves <- AllServe
  Crashable = {}
  Stoppable = {}
  Stallable = {}
  Impatient = {}
  MaxFaults = 1
PROPERTIES
  TakerIsAlive
