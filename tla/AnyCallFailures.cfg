\* One call; a server that may be killed or stopped, one whose heartbeats come late,
\* a client with a timeout, one Redis call that fails.
SPECIFICATION Spec
CONSTANTS
  s1 = s1
  s2 = s2
  c1 = c1
  r1 = r1
  r2 = r2
  m1 = m1
  Server = {s1, s2}
  Client = {c1}
  Request = {r1}
  Method = {m1}
  NoServer = NoServer
  NoRequest = NoRequest
  MethodOf <- OneMethod
  ClientOf <- OneClient
  Serves <- AllServe
  Crashable = {s1}
  Stoppable = {s1}
  Stallable = {s2}
  Impatient = {c1}
  MaxFaults = 1
CHECK_DEADLOCK FALSE
INVARIANTS
  TypeOK
  LostOnlyIfAbsent
  AtMostOneLost
  FirstWriteWins
  RefusedNeverRuns
  NoneVanishes
  InflightIsBusy
  UnreadExpires
PROPERTIES
  KeepsContract
