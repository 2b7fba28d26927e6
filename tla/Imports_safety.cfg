SPECIFICATION SpecAll
CONSTANTS
  Components = {"Collectors", "Kobo", "Aurora", "Ona", "OnaCalm", "Picture", "Flex", "FlexForm", "Blobs"}
  Imports = {1, 2, 3}
  KoboPosted = 3  KoboRequests = 2  KoboJobs = 3  KoboFaults = 1
  FaultPosted = 2  FaultRequests = 1  FaultJobs = 2
  AuroraRecords = 2  AuroraRuns = 3  AuroraCrashes = 2
  OnaPosted = 3  OnaPage = 2  OnaRequests = 2  OnaJobs = 2  OnaRedelivered = 0  OnaCrashes = 1  OnaDeleted = 1
  OncePosted = 2  OncePage = 1  OnceRequests = 2  OnceJobs = 3  OnceRedelivered = 1  OnceDeleted = 0
  PictureRequests <- Archives  PictureUsers = {u1}  PictureJobs = {j1, j2}  PictureCrashes = 1
  Portrayed = {r1, r2, r3}  MatchKeys = {k1, k2}  ArchiveFiles <- Contained  MatchKeyOf <- MatchKey
  FlexRecords = 3  FlexRows = 4  FlexRuns = 2  FlexForms = 1  FlexContents = {f1, f2}  FlexBatch = 2
  FlexReverse = TRUE  FormRows = 3
  BlobFields = {photo, doc}  PhotoField = photo  Images = {f1, f2}  BlobEdits = 4  BlobFails = 1  BlobMoves = 1
  f1 = f1  f2 = f2  photo = photo  doc = doc  NoImage = NoImage
  r1 = r1  r2 = r2  r3 = r3  k1 = k1  k2 = k2  NoKey = NoKey
  u1 = u1  u2 = u2  j1 = j1  j2 = j2  NoPicture = NoPicture
  NoOne = NoOne
  People = {"ann", "bob"}
  Sheets <- MCSheets
SYMMETRY Symmetry
INVARIANTS
  TypesOK
  OneCollectorPerPerson
  RolesArePeople
  PinnedBatchStays
  ImportsComplete
PROPERTIES
  ImportsOnce
  NothingUsedIsLost
CHECK_DEADLOCK FALSE
