SPECIFICATION Spec
CONSTANTS
  u1 = u1
  Users = {u1}
  q1 = q1
  Requests = {q1}
  e1 = e1
  Events = {e1}
  c1 = c1
  c2 = c2
  Calls = {c1, c2}
  NoUser = NoUser
  NoRequest = NoRequest
  NoEvent = NoEvent
  Admins = TRUE
  CanCrash = FALSE
INVARIANTS
  VerifiedIsApproved
