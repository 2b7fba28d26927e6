SPECIFICATION LiveSpec
CONSTANTS
  Components = {"JobGroups", "Kobo", "Ona", "Cleanup", "Sync", "Delta", "Picture", "Again", "Validation"}
  Jobs = {j1, j2}
  Workers = {k1, k2}
  Groups = {g1}
  NoGroup = NoGroup
  GroupOf <- OneGroup
  Requests = TRUE
  MaxDeaths = 1
  MaxRedeliveries = 1
  j1 = j1  j2 = j2  g1 = g1  i1 = i1  b1 = b1  NoReference = NoReference
  s1 = s1  o1 = o1  p1 = p1  north = north  south = south  town = town  NoArea = NoArea
  q1 = q1  r1 = r1  r2 = r2  k1 = k1  k2 = k2  NoKey = NoKey  u1 = u1  NoPicture = NoPicture
  NoMapping = NoMapping  c1 = c1  c2 = c2
PROPERTIES
  JobsEnd
  WorkEnds
CHECK_DEADLOCK FALSE
