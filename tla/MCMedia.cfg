SPECIFICATION PartSpec
CONSTANTS
  a1 = a1
  a2 = a2
  Assets = {a1, a2}
  Photos = {a1}
  c1 = c1
  c2 = c2
  Calls = {c1, c2}
  w1 = w1
  w2 = w2
  Workers = {w1, w2}
  NoAsset = NoAsset
  NoWorker = NoWorker
  MaxPhotos = 1
  MaxTries = 2
  MaxStalls = 1
  StorageFails = TRUE
  CanCrash = TRUE
INVARIANTS
  TypeOK
  SealedIsSanitised
PROPERTIES
  SettledForGood
  NothingIsStranded
