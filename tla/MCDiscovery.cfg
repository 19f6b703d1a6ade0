SPECIFICATION Spec
CONSTANTS
  u1 = u1
  u2 = u2
  Users = {u1, u2}
  Viewers = {u1}
  Owners = {u2}
  r1 = r1
  Reqs = {r1}
  NoUser = NoUser
INVARIANTS
  DiscoveryTypeOK
  UnlockIsOwners
  BlockedSeesNothing
  WelcomeIsShown
  TraceIsMutual
