SPECIFICATION Spec
CONSTANTS
  s1 = s1
  s2 = s2
  m1 = m1
  m2 = m2
  m3 = m3
  Places = {0, 1, 3}
  NoPlace = NoPlace
  Reports = {s1, s2}
  DebounceMeters = 1
  DebounceSeconds = 1
  OnlineWindow = 6
  Period = 2
  Latency = 2
  People = {1, 2, 3}
  Points = {0, 1000, 2500}
  Away = Away
  NoOne = NoOne
  Radius = 1000
  Limit = 1
  Roaming = {2}
  Fickle = {1}
  Mails = {m1, m2, m3}
  Take = 1
  LastStamp = 3
  NoMail = NoMail
INVARIANTS
  TypeOK
  StoredIsRecent
  ActiveIsOnline
  RadiusTellsTheLabel
  ActivityLags
PROPERTIES
  NearbyIsListing
  ThreadIsListing
