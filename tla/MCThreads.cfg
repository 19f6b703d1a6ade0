SPECIFICATION ThreadsSpec
CONSTANTS
  u1 = u1
  u2 = u2
  Users = {u1, u2}
  p1 = p1
  PingIds = {p1}
  r1 = r1
  r2 = r2
  Reqs = {r1, r2}
  m1 = m1
  Msgs = {m1}
  t1 = t1
  t2 = t2
  Tabs = {t1, t2}
  NoUser = NoUser
  NoPing = NoPing
  NoMsg = NoMsg
  MaxPerDay = 1
  Endpoints = {"send", "accept", "withdraw", "block"}
  CanCrash = FALSE
  TabsCrash = TRUE
SYMMETRY Symmetry
INVARIANTS
  ThreadsTypeOK
  ConsentBeforeMessage
  BlockHonoured
  BlocksCloseThreads
