\* Two servers, a call with a timeout and one without; every period small.
SPECIFICATION Spec
CONSTANTS
  s1 = s1
  s2 = s2
  c1 = c1
  c2 = c2
  Server = {s1, s2}
  Call = {c1, c2}
  NoServer = NoServer
  Period = 1
  Ttl = 2
  Quiet = 3
  Slice = 3
  Timeout <- OnePatient
  MaxTime = 10
SYMMETRY ServerSymmetry
CHECK_DEADLOCK FALSE
INVARIANTS
  TypeOK
  ReapedByServer
  ReapedByClient
  EndsInTime
PROPERTIES
  LivingIsNeverLost
