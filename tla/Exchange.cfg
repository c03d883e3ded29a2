\* Two threads that call or register three times in all, one foreign request.
SPECIFICATION Spec
CONSTANTS
  t1 = t1
  t2 = t2
  A = A
  B = B
  f1 = f1
  Thread = {t1, t2}
  MaxUses = 3
  Limit = {0, 1}
  MaxDepth = 1
  Type = {A, B}
  NoType = NoType
  Returned = A
  Foreign = {f1}
  Unknown = Unknown
SYMMETRY ThreadSymmetry
CHECK_DEADLOCK FALSE
INVARIANTS
  TypeOK
  DepthBounded
  TypesAgree
  NothingLeftInflight
  CallerIsTold
