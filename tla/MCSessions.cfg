SPECIFICATION Spec
CONSTANTS
  u1 = u1
  Users = {u1}
  f1 = f1
  f2 = f2
  Families = {f1, f2}
  t1 = t1
  t2 = t2
  t3 = t3
  t4 = t4
  Tokens = {t1, t2, t3, t4}
  c1 = c1
  c2 = c2
  Calls = {c1, c2}
  NoUser = NoUser
  NoFamily = NoFamily
  NoToken = NoToken
  CanCrash = TRUE
SYMMETRY Symmetry
INVARIANTS
  TypeOK
  ForkNeedsOverlap
  HonestIsNeverRevoked
PROPERTIES
  RevokedIsOver
