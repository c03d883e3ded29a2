\* One call, two servers, the one that serves it may be killed, watched over a connection that may fail.
SPECIFICATION VisSpec
CONSTANTS
  s1 = s1
  s2 = s2
  c1 = c1
  r1 = r1
  m1 = m1
  Server = {s1, s2}
  Client = {c1}
  Request = {r1}
  Method = {m1}
  NoServer = NoServer
  NoRequest = NoRequest
  MethodOf <- OneMethod
  ClientOf <- OneClient
  Serves <- OneServes
  Crashable = {s1}
  Stoppable = {}
  Stallable = {}
  Impatient = {}
  MaxFaults = 0
  RowOrder <- ById
CHECK_DEADLOCK FALSE
INVARIANTS
  VisTypeOK
  GoneIsTrue
  ToldOnceInOrder
PROPERTIES
  FalseGoneIsBrief
  SelectionStays
