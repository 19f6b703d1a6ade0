SPECIFICATION FairSpec
CONSTANTS
  u1 = u1
  Users = {u1}
  q1 = q1
  q2 = q2
  Requests = {q1, q2}
  e1 = e1
  e2 = e2
  Events = {e1, e2}
  c1 = c1
  c2 = c2
  Calls = {c1, c2}
  NoUser = NoUser
  NoRequest = NoRequest
  NoEvent = NoEvent
  Admins = TRUE
  CanCrash = TRUE
INVARIANTS
  TypeOK
PROPERTIES
  SettledForGood
  NoSecondAttempt
  PendingEnds
