SPECIFICATION Spec
CONSTANTS
  c1 = c1
  c2 = c2
  Calls = {c1, c2}
  h1 = h1
  h2 = h2
  h3 = h3
  Challenges = {h1, h2, h3}
  NoChallenge = NoChallenge
  MaxAttempts = 1
  MaxPerHour = 1
  MaxTries = 2
  Endpoints = {"request", "verify", "register"}
  CanCrash = TRUE
SYMMETRY Symmetry
INVARIANTS
  TypeOK
  GuessesAreBounded
  OverlapsAreBounded
PROPERTIES
  SpentIsSpent
