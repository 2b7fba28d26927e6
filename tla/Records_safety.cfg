SPECIFICATION SpecAll
CONSTANTS
  Components = {"BatchIdentity", "Checks", "Updates", "Validation", "Again", "Edited"}
  Records = {s1, s2, s3}
  Values = {x1, x2}
  Blank = Blank
  MaxEdits = 2
  w1 = w1  w2 = w2  hh = hh  ind = ind
  Actors = {w1, w2, w3}  Beneficiaries = {hh, ind}  Parents = {hh}  HouseholdMembers <- MembersOf
  Collided = {hh}  RefusedEdits <- RefusedBy  MaxChecker = 1
  r1 = r1  r2 = r2  Updated = {r1, r2}  FieldTypes <- TypeOf  FirstData <- Starting  Exported <- Selecting
  TypedCells <- Typings  UpdateJobs <- Jobs  ReadableCells <- ReadableAs  UpperCase <- UpperOf
  LowerCase <- LowerOf  NameParts <- ParsedAs  MaxUpdates = 2  MaxUpdateCrashes = 1
  Chunks = {c1, c2}  MaxSize = 1  MaxDeletes = 1  MaxRedeliver = 1  MaxExpire = 1
  Batches = {1, 2}  SourceOf <- SourceIs  People = {1, 2, 3, 4}  BatchOf <- BatchIs  Outside = {3}
  RowNumber <- RowIs  Sheets <- SheetOf  ImportedRefs <- ImportedBy  RawParts <- PartOf
  Mappings = {"other"}  MappedParts <- MappedTo  TypedParts <- TypedBy  NoMapping = NoMapping
  Reprocessings = 1
INVARIANTS
  TypesOK
  AlikeAreHeld
  
PROPERTIES
  UpdatesAreSafe
  
CHECK_DEADLOCK FALSE
