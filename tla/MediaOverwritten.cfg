SPECIFICATION Spec
CONSTANTS
  a1 = a1
  Assets = {a1}
  Photos = {a1}
  c1 = c1
  Calls = {c1}
  w1 = w1
  Workers = {w1}
  NoAsset = NoAsset
  NoWorker = NoWorker
  MaxPhotos = 1
  MaxTries = 1
  MaxStalls = 0
  StorageFails = FALSE
  CanCrash = FALSE
INVARIANTS
  ServedIsSanitised
