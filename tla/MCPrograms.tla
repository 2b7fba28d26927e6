------------------------------ MODULE MCPrograms ------------------------------
(*****************************************************************************)
(* A program and what surrounds it: its jobs (JobGroups), its cleanup         *)
(* (ProgramCleanup), the pages that configure it (ProgramConfig), the pages   *)
(* that are cached for it (CacheVersion), the data HOPE gives it (RefSync,    *)
(* AreaSync) and the scripts of a release that change its fields (Versioning, *)
(* FieldScripts). A behaviour is one of one of these components, as in        *)
(* MCImports.                                                                 *)
(*****************************************************************************)
EXTENDS JobGroups, TLC

CONSTANTS
  Components,   \* the components that the run exercises
  j1, j2, j3, g1,                            \* jobs and their group
  ImportJobs, BiometricJobs, References, First, NoReference,   \* of ProgramCleanup
  MaxRenames, MaxFaults,
  PageRequests, x1, x2, Aliens, MaxVersion, MaxSettings,       \* of ProgramConfig
  Clients, Writers, CalmWriters, PageTTL, VersionTTL, SetTTL,  \* of CacheVersion
  CalmTTL, MaxWrites, CalmWrites, MaxNow,
  Syncs, LoneSyncs, Offices, Programs, OfficeOf,               \* of RefSync and AreaSync
  Areas, Level, Coded, NoArea,
  MaxChanges, AreaChanges, MaxDay, OverlapDays, MaxFails, OverlapFails, MaxKills,
  o1, p1, north, south, town,                                  \* their values
  N, Num, Late, Irreversible, Deployers, c1, MaxDowns          \* of Versioning

TwoOfThree == (j1 :> g1) @@ (j2 :> g1) @@ (j3 :> NoGroup)
TheOffice == p1 :> o1
NumOf == <<1, 2, 2>>
LevelOf == (north :> 1) @@ (south :> 1) @@ (town :> 2)

(* Definitions of every kind a country may use for a field of its own:        *)
(* retired ones, ones that scripts share, and one of HOPE.                    *)
OwnNames == {"PhoneNo", "Phone No", "Photo", "Village", "HOPE IND MaritalStatus", "Household ID",
             "Full Name Latin"}

(* With every write counted no version expires within the horizon.          *)
ASSUME CalmAssumption == CalmTTL > MaxNow

\* Requests to the pages of a program are interchangeable, and so are synchronisations.
Symmetry == Permutations({x1, x2}) \cup Permutations(Syncs)

VARIABLES component, v1, v2, v3, v4, v5, v6, v7, v8, v9, v10, v11, v12, v13, v14

slots == <<v1, v2, v3, v4, v5, v6, v7, v8, v9, v10, v11, v12, v13, v14>>
all == <<component, slots, vars>>
In(part) == component = part

Cleanup == INSTANCE ProgramCleanup WITH flag <- v1, reference <- v2, stored <- v3, clean <- v4,
  todo <- v5, job <- v6, deleted <- v7, batches <- v8, groups <- v9, rdp <- v10, rdi <- v11,
  late <- v12, renames <- v13, faults <- v14
CleanupInit == In("Cleanup") /\ Cleanup!Init
CleanupNext == In("Cleanup") /\ Cleanup!Next /\ UNCHANGED <<component, vars>>

Config == INSTANCE ProgramConfig WITH Requests <- PageRequests, Aliens <- {}, MaxSettings <- 0,
  program <- v1, request <- v2, rdp <- v3, pushed <- v4, engine <- v5, settings <- v6
ConfigInit == In("Config") /\ Config!Init /\ v7 = 0 /\ v8 = 0 /\ v9 = 0 /\ v10 = 0 /\ v11 = 0
    /\ v12 = 0 /\ v13 = 0 /\ v14 = 0
ConfigNext == In("Config") /\ Config!Next
    /\ UNCHANGED <<component, vars, v7, v8, v9, v10, v11, v12, v13, v14>>

Alone == INSTANCE ProgramConfig WITH Requests <- {x1}, program <- v1, request <- v2, rdp <- v3,
  pushed <- v4, engine <- v5, settings <- v6
AloneInit == In("Alone") /\ Alone!Init /\ v7 = 0 /\ v8 = 0 /\ v9 = 0 /\ v10 = 0 /\ v11 = 0
    /\ v12 = 0 /\ v13 = 0 /\ v14 = 0
AloneNext == In("Alone") /\ Alone!Next
    /\ UNCHANGED <<component, vars, v7, v8, v9, v10, v11, v12, v13, v14>>

Cache == INSTANCE CacheVersion WITH Overlap <- TRUE, Silent <- TRUE, data <- v1, version <- v2,
  pages <- v3, client <- v4, req <- v5, writer <- v6, writes <- v7, now <- v8
CacheInit == In("Cache") /\ Cache!Init /\ v9 = 0 /\ v10 = 0 /\ v11 = 0 /\ v12 = 0 /\ v13 = 0
    /\ v14 = 0
CacheNext == In("Cache") /\ Cache!Next
    /\ UNCHANGED <<component, vars, v9, v10, v11, v12, v13, v14>>

CacheCalm == INSTANCE CacheVersion WITH Writers <- CalmWriters, Overlap <- FALSE,
  Silent <- FALSE, VersionTTL <- CalmTTL, SetTTL <- CalmTTL, MaxWrites <- CalmWrites,
  data <- v1, version <- v2, pages <- v3, client <- v4, req <- v5, writer <- v6, writes <- v7,
  now <- v8
CacheCalmInit == In("CacheCalm") /\ CacheCalm!Init /\ v9 = 0 /\ v10 = 0 /\ v11 = 0 /\ v12 = 0
    /\ v13 = 0 /\ v14 = 0
CacheCalmNext == In("CacheCalm") /\ CacheCalm!Next
    /\ UNCHANGED <<component, vars, v9, v10, v11, v12, v13, v14>>

Sync == INSTANCE RefSync WITH Deactivation <- FALSE, Closing <- FALSE, Midnight <- FALSE,
  hope <- v1, local <- v2, log <- v3, lock <- v4, sync <- v5, day <- v6, changes <- v7,
  fails <- v8, kills <- v9
SyncInit == In("Sync") /\ Sync!Init /\ v10 = 0 /\ v11 = 0 /\ v12 = 0 /\ v13 = 0 /\ v14 = 0
SyncNext == In("Sync") /\ Sync!Next /\ UNCHANGED <<component, vars, v10, v11, v12, v13, v14>>

SyncAll == INSTANCE RefSync WITH Syncs <- LoneSyncs, Deactivation <- TRUE, Closing <- TRUE,
  Midnight <- TRUE, hope <- v1, local <- v2, log <- v3, lock <- v4, sync <- v5, day <- v6,
  changes <- v7, fails <- v8, kills <- v9
SyncAllInit == In("SyncAll") /\ SyncAll!Init /\ v10 = 0 /\ v11 = 0 /\ v12 = 0 /\ v13 = 0
    /\ v14 = 0
SyncAllNext == In("SyncAll") /\ SyncAll!Next
    /\ UNCHANGED <<component, vars, v10, v11, v12, v13, v14>>

Delta == INSTANCE AreaSync WITH Syncs <- LoneSyncs, MaxChanges <- AreaChanges, Overlap <- FALSE,
  Roots <- FALSE, KillSteps <- {"waiting", "locked", "listed"}, hope <- v1, local <- v2,
  log <- v3, lock <- v4, sync <- v5, choices <- v6, day <- v7, changes <- v8, fails <- v9,
  kills <- v10
DeltaInit == In("Delta") /\ Delta!Init /\ v11 = 0 /\ v12 = 0 /\ v13 = 0 /\ v14 = 0
DeltaNext == In("Delta") /\ Delta!Next /\ UNCHANGED <<component, vars, v11, v12, v13, v14>>

Overlaps == INSTANCE AreaSync WITH MaxDay <- OverlapDays, MaxFails <- OverlapFails,
  Overlap <- TRUE, Roots <- TRUE, KillSteps <- {"waiting", "locked", "listed", "parents"},
  hope <- v1, local <- v2, log <- v3, lock <- v4, sync <- v5, choices <- v6, day <- v7,
  changes <- v8, fails <- v9, kills <- v10
OverlapsInit == In("Overlaps") /\ Overlaps!Init /\ v11 = 0 /\ v12 = 0 /\ v13 = 0 /\ v14 = 0
OverlapsNext == In("Overlaps") /\ Overlaps!Next
    /\ UNCHANGED <<component, vars, v11, v12, v13, v14>>

Up == INSTANCE Versioning WITH Procs <- Deployers, Fakes <- FALSE, MaxDowns <- 0, folder <- v1,
  applied <- v2, effect <- v3, proc <- v4, downs <- v5, faults <- v6
UpInit == In("Up") /\ Up!Init /\ v7 = 0 /\ v8 = 0 /\ v9 = 0 /\ v10 = 0 /\ v11 = 0 /\ v12 = 0
    /\ v13 = 0 /\ v14 = 0
UpNext == In("Up") /\ Up!Next
    /\ UNCHANGED <<component, vars, v7, v8, v9, v10, v11, v12, v13, v14>>

Down == INSTANCE Versioning WITH Procs <- {c1}, Fakes <- FALSE, MaxFaults <- 0, folder <- v1,
  applied <- v2, effect <- v3, proc <- v4, downs <- v5, faults <- v6
DownInit == In("Down") /\ Down!Init /\ v7 = 0 /\ v8 = 0 /\ v9 = 0 /\ v10 = 0 /\ v11 = 0
    /\ v12 = 0 /\ v13 = 0 /\ v14 = 0
DownNext == In("Down") /\ Down!Next
    /\ UNCHANGED <<component, vars, v7, v8, v9, v10, v11, v12, v13, v14>>

Scripts == INSTANCE FieldScripts WITH OwnDefs <- OwnNames, Floor <- 9, MaxDowns <- 1, db <- v1,
  at <- v2, up <- v3, downs <- v4, seen <- v5
ScriptsInit == In("Scripts") /\ Scripts!Init /\ v6 = 0 /\ v7 = 0 /\ v8 = 0 /\ v9 = 0 /\ v10 = 0
    /\ v11 = 0 /\ v12 = 0 /\ v13 = 0 /\ v14 = 0
ScriptsNext == In("Scripts") /\ Scripts!Next
    /\ UNCHANGED <<component, vars, v6, v7, v8, v9, v10, v11, v12, v13, v14>>

JobGroupsInit == In("JobGroups") /\ v1 = 0 /\ v2 = 0 /\ v3 = 0 /\ v4 = 0 /\ v5 = 0 /\ v6 = 0
    /\ v7 = 0 /\ v8 = 0 /\ v9 = 0 /\ v10 = 0 /\ v11 = 0 /\ v12 = 0 /\ v13 = 0 /\ v14 = 0
JobGroupsNext == In("JobGroups") /\ Next /\ UNCHANGED <<component, slots>>

InitAll ==
  /\ component \in Components /\ Init
  /\ \/ JobGroupsInit \/ CleanupInit \/ ConfigInit \/ AloneInit \/ CacheInit \/ CacheCalmInit
     \/ SyncInit \/ SyncAllInit \/ DeltaInit \/ OverlapsInit \/ UpInit \/ DownInit
     \/ ScriptsInit
NextAll ==
  \/ JobGroupsNext \/ CleanupNext \/ ConfigNext \/ AloneNext \/ CacheNext \/ CacheCalmNext
  \/ SyncNext \/ SyncAllNext \/ DeltaNext \/ OverlapsNext \/ UpNext \/ DownNext \/ ScriptsNext
SpecAll == InitAll /\ [][NextAll]_all

ASSUME BoundsAssumption ==
  Cleanup!CleanupAssumption /\ Config!ConfigAssumption /\ Alone!ConfigAssumption
    /\ Cache!CacheAssumption /\ CacheCalm!CacheAssumption /\ Sync!SyncAssumption
    /\ SyncAll!SyncAssumption /\ Delta!AreaAssumption /\ Overlaps!AreaAssumption
    /\ Up!VersionAssumption /\ Down!VersionAssumption /\ Scripts!ScriptsAssumption

------------------------------------------------------------------------------
(* The type invariants of the components.                                     *)
TypesOK ==
  /\ TypeOK
  /\ In("Cleanup") => Cleanup!TypeOK
  /\ In("Config") => Config!TypeOK
  /\ In("Alone") => Alone!TypeOK
  /\ In("Cache") => Cache!TypeOK
  /\ In("CacheCalm") => CacheCalm!TypeOK
  /\ In("Sync") => Sync!TypeOK
  /\ In("SyncAll") => SyncAll!TypeOK
  /\ In("Delta") => Delta!TypeOK
  /\ In("Overlaps") => Overlaps!TypeOK
  /\ In("Up") => Up!TypeOK
  /\ In("Down") => Down!TypeOK
  /\ In("Scripts") => Scripts!TypeOK

(* A cleanup is thorough and alone: no push runs while it deletes, and what   *)
(* it leaves is the work of jobs it could not see.  A job that is told to end *)
(* while it waits for its turn does not start.                                *)
CleanupIsThorough ==
  /\ [](In("Cleanup") => Cleanup!NoPushWhileDeleting)
  /\ [][In("Cleanup") => Cleanup!OnlyLateBatchesSurvive /\ Cleanup!GroupsAreDeleted]_all
  /\ [][In("JobGroups") => RequestedNeverStarts]_all

(* Pages that save one row of Program lose nothing of each other: of two      *)
(* forms one is saved, and the page of a scope replaces that scope only.      *)
PagesSerialize ==
  [][/\ In("Config") => Config!FormsSerialize
     /\ In("Alone") => Alone!OnlyThatScope]_all

(* A page is never older than its lifetime, and while writes are seen an ETag *)
(* that matches means that the client has the current data.                   *)
PagesAreFresh ==
  /\ In("Cache") => Cache!PagesAreYoung
  /\ In("CacheCalm") => CacheCalm!EtagTells

(* A failure never hides a change of HOPE from the next delta, a program has  *)
(* its office, and an area that has a parent keeps one, the right one.        *)
SyncsMissNothing ==
  /\ [](/\ In("Sync") => Sync!NextDeltaFetches
        /\ In("SyncAll") => SyncAll!ProgramsHaveOffices
        /\ In("Delta") => Delta!ParentsKeptUp)
  /\ [][In("Overlaps") => Overlaps!NeverOrphaned]_all

(* A script that is recorded has run, in its order, what is recorded is in    *)
(* force, and going up, down and up again the scripts of the fields neither   *)
(* fail nor lose a field.                                                     *)
ScriptsRepeat ==
  /\ [](/\ In("Up") => Up!RecordedHaveRun /\ Up!InOrder
        /\ In("Down") => Down!TableIsTrue
        /\ In("Scripts") => /\ Scripts!NothingFails /\ Scripts!NamesDistinct
                            /\ Scripts!SameFields /\ Scripts!AllLabelled)
  /\ [][In("Scripts") => Scripts!OwnFieldsStay]_all
==============================================================================
