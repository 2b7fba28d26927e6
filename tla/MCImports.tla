------------------------------ MODULE MCImports ------------------------------
(*****************************************************************************)
(* What comes into a program: collectors shared by imports (Collectors), Kobo,*)
(* Aurora and ONA imports, pictures, flexible files and the images for HOPE. A*)
(* behaviour is one of one of these components, which its first state picks:  *)
(* they share no state at this level, and side by side would only multiply    *)
(* each other's states. The variables of a component take the places v1, v2,  *)
(* ...; those left over stay 0.                                               *)
(*****************************************************************************)
EXTENDS Collectors, TLC

CONSTANTS
  Components,   \* the components that the run exercises
  KoboPosted, KoboRequests, KoboJobs, KoboFaults,        \* Kobo: their bounds
  FaultPosted, FaultRequests, FaultJobs,                 \* Kobo: the smaller ones with a fault
  AuroraRecords, AuroraRuns, AuroraCrashes,              \* Aurora
  OnaPosted, OnaPage, OnaRequests, OnaJobs, OnaRedelivered, OnaCrashes, OnaDeleted,
  OncePosted, OncePage, OnceRequests, OnceJobs, OnceRedelivered, OnceDeleted,   \* OnaCalm
  PictureRequests, PictureUsers, PictureJobs, Portrayed, MatchKeys, NoKey, NoPicture,   \* Picture
  ArchiveFiles, MatchKeyOf, PictureCrashes,
  FlexRecords, FlexRows, FlexRuns, FlexForms, FlexContents, FlexBatch, FlexReverse,   \* Flex, FlexForm
  FormRows,                \* FlexForm: the smaller bound on rows
  BlobFields, PhotoField, Images, NoImage, BlobEdits, BlobFails, BlobMoves,   \* Blobs
  f1, f2,                  \* files and images
  photo, doc,              \* image fields
  r1, r2, r3, k1, k2, u1, u2, j1, j2   \* records, match keys, users, jobs

(* Files that name the same people in opposite order and under swapped        *)
(* references.                                                                *)
Row1(h) == [ref |-> 1, who |-> h]
Row2(h) == [ref |-> 2, who |-> h]
MCSheets ==
  {[rows |-> <<Row1("ann"), Row2("bob")>>, primary |-> 1, alternate |-> 2, member |-> 1],
   [rows |-> <<Row1("bob"), Row2("ann")>>, primary |-> 2, alternate |-> 3, member |-> 1],
   [rows |-> <<Row2("ann")>>, primary |-> 3, alternate |-> 2, member |-> NoOne]}

(* Three archives, one of them with a key twice, one empty; two of the three  *)
(* persons share a key.                                                       *)
Archives  == {"first", "second", "empty"}
Contained == [first |-> <<k1, k2>>, second |-> <<k2, NoKey, k1, k1>>, empty |-> <<>>]
MatchKey  == (r1 :> k1) @@ (r2 :> k2) @@ (r3 :> k1)

Symmetry == Permutations({f1, f2})

VARIABLES component, v1, v2, v3, v4, v5, v6, v7, v8, v9, v10, v11, v12

slots == <<v1, v2, v3, v4, v5, v6, v7, v8, v9, v10, v11, v12>>
all == <<component, slots, vars>>
In(part) == component = part

Kobo == INSTANCE KoboImport WITH MaxPosted <- KoboPosted, MaxRequests <- KoboRequests,
  MaxJobs <- KoboJobs, MaxFaults <- KoboFaults, posted <- v1, mark <- v2, jobs <- v3,
  queued <- v4, runs <- v5, holder <- v6, status <- v7, made <- v8, requests <- v9,
  faults <- v10, wanted <- v11, disturbed <- v12
KoboInit == In("Kobo") /\ Kobo!Init
\* a behaviour with a fault has smaller bounds
KoboFits == v10 = 0 \/ (v1 <= FaultPosted /\ v9 <= FaultRequests /\ Len(v3) <= FaultJobs)
KoboNext == In("Kobo") /\ Kobo!Next /\ KoboFits' /\ UNCHANGED <<component, vars>>

Aurora == INSTANCE AuroraImport WITH MaxRecords <- AuroraRecords, MaxRuns <- AuroraRuns,
  MaxCrashes <- AuroraCrashes, records <- v1, mark <- v2, queued <- v3, runs <- v4,
  status <- v5, made <- v6, crashes <- v7, wanted <- v8, overlapped <- v9
AuroraInit == In("Aurora") /\ Aurora!Init /\ v10 = 0 /\ v11 = 0 /\ v12 = 0
AuroraNext == In("Aurora") /\ Aurora!Next /\ UNCHANGED <<component, vars, v10, v11, v12>>

Ona == INSTANCE OnaImport WITH MaxPosted <- OnaPosted, PageSize <- OnaPage,
  MaxRequests <- OnaRequests, MaxJobs <- OnaJobs, MaxRedelivered <- OnaRedelivered,
  MaxCrashes <- OnaCrashes, MaxDeleted <- OnaDeleted, posted <- v1, deleted <- v2, cursor <- v3,
  jobs <- v4, queued <- v5, runs <- v6, lock <- v7, status <- v8, made <- v9, requests <- v10,
  redelivered <- v11, crashes <- v12
OnaInit == In("Ona") /\ Ona!Init
OnaNext == In("Ona") /\ Ona!Next /\ UNCHANGED <<component, vars>>

OnaCalm == INSTANCE OnaImport WITH MaxPosted <- OncePosted, PageSize <- OncePage,
  MaxRequests <- OnceRequests, MaxJobs <- OnceJobs, MaxRedelivered <- OnceRedelivered,
  MaxCrashes <- 0, MaxDeleted <- OnceDeleted, posted <- v1, deleted <- v2, cursor <- v3,
  jobs <- v4, queued <- v5, runs <- v6, lock <- v7, status <- v8, made <- v9, requests <- v10,
  redelivered <- v11, crashes <- v12
OnaCalmInit == In("OnaCalm") /\ OnaCalm!Init
OnaCalmNext == In("OnaCalm") /\ OnaCalm!Next /\ UNCHANGED <<component, vars>>

Picture == INSTANCE PictureImport WITH Requests <- PictureRequests, Users <- PictureUsers,
  Jobs <- PictureJobs, Records <- Portrayed, Keys <- MatchKeys, NoKey <- NoKey,
  None <- NoPicture, Files <- ArchiveFiles, KeyOf <- MatchKeyOf, MaxCrashes <- PictureCrashes,
  draft <- v1, zips <- v2, req <- v3, job <- v4, pic <- v5, removed <- v6, reset <- v7,
  due <- v8, crashes <- v9
PictureInit == In("Picture") /\ Picture!Init /\ v10 = 0 /\ v11 = 0 /\ v12 = 0
PictureNext == In("Picture") /\ Picture!Next /\ UNCHANGED <<component, vars, v10, v11, v12>>

Flex == INSTANCE FlexFiles WITH MaxRecords <- FlexRecords, MaxRows <- FlexRows,
  MaxRuns <- FlexRuns, MaxForms <- FlexForms, Contents <- FlexContents, BatchSize <- FlexBatch,
  Reverse <- FlexReverse, Concurrent <- FALSE, Nested <- FALSE, records <- v1, last <- v2,
  rows <- v3, used <- v4, meant <- v5, cmd <- v6, hint <- v7, done <- v8, form <- v9,
  runs <- v10, forms <- v11
FlexInit == In("Flex") /\ Flex!Init /\ v12 = 0
FlexNext == In("Flex") /\ Flex!Next /\ UNCHANGED <<component, vars, v12>>

FlexForm == INSTANCE FlexFiles WITH MaxRecords <- FlexRecords, MaxRows <- FormRows,
  MaxRuns <- FlexRuns, MaxForms <- FlexForms, Contents <- FlexContents, BatchSize <- FlexBatch,
  Reverse <- FALSE, Concurrent <- TRUE, Nested <- TRUE, records <- v1, last <- v2, rows <- v3,
  used <- v4, meant <- v5, cmd <- v6, hint <- v7, done <- v8, form <- v9, runs <- v10,
  forms <- v11
FlexFormInit == In("FlexForm") /\ FlexForm!Init /\ v12 = 0
FlexFormNext == In("FlexForm") /\ FlexForm!Next /\ UNCHANGED <<component, vars, v12>>

Blobs == INSTANCE HopeBlobs WITH Fields <- BlobFields, Photo <- PhotoField, Contents <- Images,
  None <- NoImage, MaxEdits <- BlobEdits, MaxFails <- BlobFails, MaxMoves <- BlobMoves,
  image <- v1, hashes <- v2, place <- v3, blobs <- v4, sync <- v5, edits <- v6, fails <- v7
BlobsInit == In("Blobs") /\ Blobs!Init /\ v8 = 0 /\ v9 = 0 /\ v10 = 0 /\ v11 = 0 /\ v12 = 0
BlobsNext == In("Blobs") /\ Blobs!Next /\ UNCHANGED <<component, vars, v8, v9, v10, v11, v12>>

CollectorsInit == In("Collectors") /\ v1 = 0 /\ v2 = 0 /\ v3 = 0 /\ v4 = 0 /\ v5 = 0 /\ v6 = 0
    /\ v7 = 0 /\ v8 = 0 /\ v9 = 0 /\ v10 = 0 /\ v11 = 0 /\ v12 = 0
CollectorsNext == In("Collectors") /\ Next /\ UNCHANGED <<component, slots>>

InitAll ==
  /\ component \in Components /\ Init
  /\ \/ CollectorsInit \/ KoboInit \/ AuroraInit \/ OnaInit \/ OnaCalmInit \/ PictureInit
     \/ FlexInit \/ FlexFormInit \/ BlobsInit
NextAll ==
  \/ CollectorsNext \/ KoboNext \/ AuroraNext \/ OnaNext \/ OnaCalmNext \/ PictureNext
  \/ FlexNext \/ FlexFormNext \/ BlobsNext
SpecAll == InitAll /\ [][NextAll]_all

ASSUME BoundsAssumption ==
  Kobo!KoboAssumption /\ Aurora!AuroraAssumption /\ Ona!OnaAssumption /\ OnaCalm!OnaAssumption
    /\ Picture!PictureAssumption /\ Flex!FlexFilesAssumption /\ FlexForm!FlexFilesAssumption
    /\ Blobs!BlobsAssumption

------------------------------------------------------------------------------
(* The type invariants of the components.                                     *)
TypesOK ==
  /\ TypeOK
  /\ In("Kobo") => Kobo!TypeOK
  /\ In("Aurora") => Aurora!TypeOK
  /\ In("Ona") => Ona!TypeOK
  /\ In("OnaCalm") => OnaCalm!TypeOK
  /\ In("Picture") => Picture!TypeOK
  /\ In("Flex") => Flex!TypeOK
  /\ In("FlexForm") => FlexForm!TypeOK
  /\ In("Blobs") => Blobs!TypeOK

(* What an import says it has done is done, once.  The watermarks of Kobo and *)
(* Aurora never pass what was not imported, a complete batch has all there    *)
(* was when it was created, ONA loses no more than was deleted there, and     *)
(* records are created again by dead workers and overlapping runs only; the   *)
(* households of a batch are numbered without a gap.                          *)
ImportsComplete ==
  /\ In("Kobo") => Kobo!NothingSkipped /\ Kobo!CompleteIsAll /\ Kobo!OnceInOrder
  /\ In("Aurora") => Aurora!NothingSkipped /\ Aurora!CompleteIsAll /\ Aurora!RepeatsAreCrashes
  /\ In("Ona") => Ona!SkipsAreDeletions /\ Ona!RepeatsAreCrashes

(* Unless a worker dies, overlapping and redelivered ONA imports of a form    *)
(* implement ImportOnce: the submissions are imported in order, each once.    *)
Promise == INSTANCE ImportOnce WITH
  imported <- IF In("OnaCalm") THEN OnaCalm!ImportedIds ELSE <<>>,
  cursor <- IF In("OnaCalm") THEN v3 ELSE 0,
  MaxId <- OncePosted
ImportsOnce == Promise!Spec

(* Files stay with their owners: an archive that a user is asked to confirm   *)
(* exists and gives nobody another's picture, flexible files keep what was    *)
(* put into them through conversions that stop, fail and go back, references  *)
(* find their rows, and a key in a payload leads to the image of the record.  *)
(* A collector that a cleanup has seen referred to stays too.                 *)
NothingUsedIsLost ==
  /\ [](/\ In("Picture") => Picture!DraftHasZip /\ Picture!NotTwoPersons
        /\ In("Flex") => Flex!ContentKept /\ Flex!EndedRunIsComplete
        /\ In("FlexForm") => FlexForm!ReferencesResolve
        /\ In("Blobs") => Blobs!CalmKeysHoldImages)
  /\ [][In("Collectors") => ReadReferencesSurvive]_all
==============================================================================
