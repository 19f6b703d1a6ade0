SPECIFICATION Spec
CONSTANTS
  u1 = u1
  u2 = u2
  Users = {u1, u2}
  p1 = p1
  p2 = p2
  PingIds = {p1, p2}
  r1 = r1
  r2 = r2
  Reqs = {r1, r2}
  NoUser = NoUser
  NoPing = NoPing
  MaxPerDay = 1
  Endpoints = {"send", "accept", "reject", "withdraw"}
  CanCrash = TRUE
SYMMETRY Symmetry
INVARIANTS
  TypeOK
  OnePerPair
  WithinBudget
PROPERTIES
  OnlyTheEntitledDecide
  SettledForGood
  ImplementsPairSlot
