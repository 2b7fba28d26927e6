SPECIFICATION SpecAll
CONSTANTS
  Components = {"JobGroups", "Cleanup", "Config", "Alone", "Cache", "CacheCalm", "Sync", "SyncAll", "Delta", "Overlaps", "Up", "Down", "Scripts"}
  Jobs = {j1, j2, j3}
  Workers = {k1, k2, k3}
  Groups = {g1}
  NoGroup = NoGroup
  GroupOf <- TwoOfThree
  Requests = TRUE
  MaxDeaths = 1
  MaxRedeliveries = 1
  j1 = j1  j2 = j2  j3 = j3  g1 = g1
  ImportJobs = {i1}  BiometricJobs = {b1}  References = {"old", "new"}  First = "old"
  NoReference = NoReference  MaxRenames = 1  MaxFaults = 2
  x1 = x1  x2 = x2  PageRequests = {x1, x2}  Aliens = {a1, a2}  MaxVersion = 2  MaxSettings = 1
  Clients = {y1, y2}  Writers = {w1, w2}  CalmWriters = {w1}  PageTTL = 1  VersionTTL = 3
  SetTTL = 2  CalmTTL = 9  MaxWrites = 2  CalmWrites = 3  MaxNow = 3
  Syncs = {s1, s2}  LoneSyncs = {s3}  Offices = {o1}  Programs = {p1}  OfficeOf <- TheOffice
  Areas = {north, south, town}  Level <- LevelOf  Coded = {north, town}  NoArea = NoArea
  MaxChanges = 2  AreaChanges = 3  MaxDay = 3  OverlapDays = 2  MaxFails = 1  OverlapFails = 0
  MaxKills = 1  o1 = o1  p1 = p1  north = north  south = south  town = town
  N = 3  Num <- NumOf  Late = {2}  Irreversible = {3}  Deployers = {c1, c2}  c1 = c1  MaxDowns = 2
SYMMETRY Symmetry
INVARIANTS
  TypesOK
  OneOfAGroup
  
PROPERTIES
  CleanupIsThorough
  
  
  ScriptsRepeat
CHECK_DEADLOCK FALSE
