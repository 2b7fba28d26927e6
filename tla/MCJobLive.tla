------------------------------ MODULE MCJobLive ------------------------------
(*****************************************************************************)
(* What the jobs of the workspace end: jobs of a group (JobGroups), Kobo and  *)
(* ONA imports, the cleanup of a program, the synchronisation with HOPE, a    *)
(* picture import, a reprocessing and a validation. A behaviour is one of one *)
(* of these components, as in MCImports.                                      *)
(*****************************************************************************)
EXTENDS JobGroups, TLC

CONSTANTS
  Components,   \* the components that the run exercises
  j1, j2, g1, i1, b1, NoReference,   \* jobs, their group, the jobs of a program
  s1, o1, p1, north, south, town, NoArea,
  q1, r1, r2, k1, k2, NoKey, u1, NoPicture, NoMapping, c1, c2

OneGroup   == (j1 :> g1) @@ (j2 :> g1)
LevelOf    == (north :> 1) @@ (south :> 1) @@ (town :> 2)
Contained  == [one |-> <<k1, k2>>, two |-> <<k2, NoKey, k1, k1>>]

(* Reprocess: as in MCRecords.                                                *)
SheetOf == [b \in 1..2 |-> [head |-> 1, primary |-> 2, alternate |-> IF b = 2 THEN 3 ELSE 0]]
ImportedBy == <<[head |-> 1, primary |-> 3, alternate |-> 0], [head |-> 2, primary |-> 3, alternate |-> 4]>>
Role(r, s) == [role |-> r, rel |-> s]
PartOf == <<Role("NONE", "HEAD"), Role("NONE", "HEAD"), Role("PRIMARY", "NON_BENEFICIARY"), Role("ALTERNATE", "MEMBER")>>
MappedTo == [other |-> <<Role("PRIMARY", "HEAD"), Role("PRIMARY", "NON_BENEFICIARY"),
                         Role("NONE", "MEMBER"), Role("NONE", "MEMBER")>>]

VARIABLES component, v1, v2, v3, v4, v5, v6, v7, v8, v9, v10, v11, v12, v13, v14

slots == <<v1, v2, v3, v4, v5, v6, v7, v8, v9, v10, v11, v12, v13, v14>>
all == <<component, slots, vars>>
In(part) == component = part

Kobo == INSTANCE KoboImport WITH MaxPosted <- 3, MaxRequests <- 1, MaxJobs <- 4, MaxFaults <- 0,
  posted <- v1, mark <- v2, jobs <- v3, queued <- v4, runs <- v5, holder <- v6, status <- v7,
  made <- v8, requests <- v9, faults <- v10, wanted <- v11, disturbed <- v12
KoboInit == In("Kobo") /\ Kobo!Init /\ v13 = 0 /\ v14 = 0
KoboNext == In("Kobo") /\ Kobo!Next /\ UNCHANGED <<component, vars, v13, v14>>

Ona == INSTANCE OnaImport WITH MaxPosted <- 2, PageSize <- 1, MaxRequests <- 2, MaxJobs <- 3,
  MaxRedelivered <- 0, MaxCrashes <- 0, MaxDeleted <- 0, posted <- v1, deleted <- v2,
  cursor <- v3, jobs <- v4, queued <- v5, runs <- v6, lock <- v7, status <- v8, made <- v9,
  requests <- v10, redelivered <- v11, crashes <- v12
OnaInit == In("Ona") /\ Ona!Init /\ v13 = 0 /\ v14 = 0
OnaNext == In("Ona") /\ Ona!Next /\ UNCHANGED <<component, vars, v13, v14>>

Cleanup == INSTANCE ProgramCleanup WITH ImportJobs <- {i1}, BiometricJobs <- {b1},
  References <- {"old", "new"}, First <- "old", NoReference <- NoReference, MaxRenames <- 0,
  MaxFaults <- 1, flag <- v1, reference <- v2, stored <- v3, clean <- v4, todo <- v5, job <- v6,
  deleted <- v7, batches <- v8, groups <- v9, rdp <- v10, rdi <- v11, late <- v12,
  renames <- v13, faults <- v14
CleanupInit == In("Cleanup") /\ Cleanup!Init
CleanupNext == In("Cleanup") /\ Cleanup!Next /\ UNCHANGED <<component, vars>>

Sync == INSTANCE RefSync WITH Syncs <- {s1}, Offices <- {o1}, Programs <- {p1},
  OfficeOf <- (p1 :> o1), Deactivation <- FALSE, Closing <- FALSE, Midnight <- FALSE,
  MaxChanges <- 2, MaxDay <- 3, MaxFails <- 1, MaxKills <- 0, hope <- v1, local <- v2,
  log <- v3, lock <- v4, sync <- v5, day <- v6, changes <- v7, fails <- v8, kills <- v9
SyncInit == In("Sync") /\ Sync!Init /\ v10 = 0 /\ v11 = 0 /\ v12 = 0 /\ v13 = 0 /\ v14 = 0
SyncNext == In("Sync") /\ Sync!Next /\ UNCHANGED <<component, vars, v10, v11, v12, v13, v14>>

Delta == INSTANCE AreaSync WITH Syncs <- {s1}, Areas <- {north, south, town}, Level <- LevelOf,
  Coded <- {north, town}, NoArea <- NoArea, Overlap <- FALSE, Roots <- FALSE, KillSteps <- {},
  MaxChanges <- 2, MaxDay <- 2, MaxFails <- 1, MaxKills <- 0, hope <- v1, local <- v2,
  log <- v3, lock <- v4, sync <- v5, choices <- v6, day <- v7, changes <- v8, fails <- v9,
  kills <- v10
DeltaInit == In("Delta") /\ Delta!Init /\ v11 = 0 /\ v12 = 0 /\ v13 = 0 /\ v14 = 0
DeltaNext == In("Delta") /\ Delta!Next /\ UNCHANGED <<component, vars, v11, v12, v13, v14>>

Picture == INSTANCE PictureImport WITH Requests <- {"one", "two"}, Users <- {u1}, Jobs <- {j1},
  Records <- {r1, r2}, Keys <- {k1, k2}, NoKey <- NoKey, None <- NoPicture, Files <- Contained,
  KeyOf <- (r1 :> k1) @@ (r2 :> k2), MaxCrashes <- 0, draft <- v1, zips <- v2, req <- v3,
  job <- v4, pic <- v5, removed <- v6, reset <- v7, due <- v8, crashes <- v9
PictureInit == In("Picture") /\ Picture!Init /\ v10 = 0 /\ v11 = 0 /\ v12 = 0 /\ v13 = 0
    /\ v14 = 0
PictureNext == In("Picture") /\ Picture!Next
    /\ UNCHANGED <<component, vars, v10, v11, v12, v13, v14>>

Again == INSTANCE Reprocess WITH Batches <- {1, 2}, Source <- <<"RDI", "KOBO">>, People <- 1..4,
  Own <- <<1, 2, 1, 2>>, Outside <- {3}, RowId <- <<1, 1, 2, 3>>, Sheet <- SheetOf,
  Imported <- ImportedBy, Parts <- PartOf, Mappings <- {"other"}, Mapped <- MappedTo,
  Typed <- {}, NoMapping <- NoMapping, Actions <- {"die", "raise"}, MaxJobs <- 1, refs <- v1,
  part <- v2, mark <- v3, imark <- v4, merged <- v5, job <- v6, left <- v7, vjob <- v8,
  edited <- v9, late <- v10
AgainInit == In("Again") /\ Again!Init /\ v11 = 0 /\ v12 = 0 /\ v13 = 0 /\ v14 = 0
AgainNext == In("Again") /\ Again!Next /\ UNCHANGED <<component, vars, v11, v12, v13, v14>>

Validation == INSTANCE ValidationRun WITH Chunks <- {c1, c2}, MaxSize <- 2, MaxDeletes <- 0,
  MaxRedeliver <- 0, MaxExpire <- 0, run <- v1, records <- v2, at <- v3, found <- v4,
  cache <- v5, reports <- v6, faults <- v7
ValidationInit == In("Validation") /\ Validation!Init /\ v8 = 0 /\ v9 = 0 /\ v10 = 0 /\ v11 = 0
    /\ v12 = 0 /\ v13 = 0 /\ v14 = 0
ValidationNext == In("Validation") /\ Validation!Next
    /\ UNCHANGED <<component, vars, v8, v9, v10, v11, v12, v13, v14>>

JobGroupsInit == In("JobGroups") /\ v1 = 0 /\ v2 = 0 /\ v3 = 0 /\ v4 = 0 /\ v5 = 0 /\ v6 = 0
    /\ v7 = 0 /\ v8 = 0 /\ v9 = 0 /\ v10 = 0 /\ v11 = 0 /\ v12 = 0 /\ v13 = 0 /\ v14 = 0
JobGroupsNext == In("JobGroups") /\ Next /\ UNCHANGED <<component, slots>>

InitAll ==
  /\ component \in Components /\ Init
  /\ \/ JobGroupsInit \/ KoboInit \/ OnaInit \/ CleanupInit \/ SyncInit \/ DeltaInit
     \/ PictureInit \/ AgainInit \/ ValidationInit
NextAll ==
  \/ JobGroupsNext \/ KoboNext \/ OnaNext \/ CleanupNext \/ SyncNext \/ DeltaNext \/ PictureNext
  \/ AgainNext \/ ValidationNext
SpecAll == InitAll /\ [][NextAll]_all

ASSUME BoundsAssumption ==
  Kobo!KoboAssumption /\ Ona!OnaAssumption /\ Cleanup!CleanupAssumption /\ Sync!SyncAssumption
    /\ Delta!AreaAssumption /\ Picture!PictureAssumption /\ Again!ReprocessAssumption
    /\ Validation!ValidationAssumption

(* The messages of jobs are delivered, workers work, locks and leases expire, *)
(* and staff repeat a cleanup that failed or queue what was not queued.  The  *)
(* periodic task runs again and again, and so are forms built.                *)
KoboFairness ==
  /\ WF_(Kobo!vars)(In("Kobo") /\ \E j \in 1..4 : Kobo!Deliver(j))
  /\ \A r \in Kobo!Runs : WF_(Kobo!vars)(In("Kobo") /\ Kobo!Work(r))
    /\ WF_(Kobo!vars)(In("Kobo") /\ Kobo!Expire(r))
OnaFairness ==
  /\ WF_(Ona!vars)(In("Ona") /\ \E j \in 1..3 : Ona!Deliver(j))
  /\ \A r \in Ona!Runs : WF_(Ona!vars)(In("Ona") /\ (Ona!Enter(r) \/ Ona!Work(r)))
CleanupFairness ==
  /\ WF_(Cleanup!vars)(In("Cleanup") /\ Cleanup!CleanStep) /\ WF_(Cleanup!vars)(In("Cleanup")
    /\ Cleanup!RequeueClean)
  /\ \A j \in {i1, b1} : WF_(Cleanup!vars)(In("Cleanup") /\ Cleanup!JobStep(j))
SyncFairness == WF_(Sync!vars)(In("Sync") /\ Sync!Step(s1))
DeltaFairness ==
  /\ WF_(Delta!vars)(In("Delta") /\ Delta!Step(s1))
  /\ \A l \in {1, 2} : WF_(Delta!vars)(In("Delta") /\ Delta!ReadChoices(l))
    /\ WF_(Delta!vars)(In("Delta") /\ Delta!Expire(l))
PictureFairness == WF_(Picture!vars)(In("Picture") /\ Picture!JobStep(j1))
AgainFairness ==
  \A b \in {1, 2} : WF_(Again!vars)(In("Again") /\ Again!Job(b)) /\ WF_(Again!vars)(In("Again")
    /\ Again!ValidateBatch(b))
ValidationFairness ==
  /\ WF_(Validation!vars)(In("Validation") /\ Validation!CreateJobs)
  /\ WF_(Validation!vars)(In("Validation")
    /\ \E c \in {c1, c2} : Validation!QueueNext(c) \/ Validation!QueueByHand(c))
  /\ \A w \in Validation!Deliverers : WF_(Validation!vars)(In("Validation") /\ Validation!Work(w))
LiveSpec ==
  /\ SpecAll /\ Fairness
  /\ KoboFairness /\ OnaFairness /\ CleanupFairness /\ SyncFairness /\ DeltaFairness
  /\ PictureFairness /\ AgainFairness /\ ValidationFairness

------------------------------------------------------------------------------
(* An import leaves LOADING unless one of its runs fails, a cleanup ends      *)
(* although jobs run in its way and it is interrupted, what differs from HOPE *)
(* comes to agree with it and is offered, the archive of a picture import is  *)
(* removed, reprocessed households are validated, and a validation reports.   *)
KoboLoads(b)   == In("Kobo") /\ Kobo!Loading(b)
OnaLoads(b)    == In("Ona") /\ Ona!Loading(b)
Cleans         == In("Cleanup") /\ Cleanup!Cleaning
Differs(r)     == In("Sync") /\ ~Sync!Same(r)
Misplaced(a)   == In("Delta") /\ Delta!Misplaced(a)
Unlisted(a)    == In("Delta") /\ Delta!Unlisted(a)
Reads(z)       == In("Picture") /\ \E j \in {j1} : Picture!Reading(j, z)
Stores(z)      == In("Picture") /\ Picture!Stored(z)
Reprocessed(b) == In("Again") /\ Again!Scheduled(b)
Treats(b)      == In("Again") /\ Again!Treated(b)
Unreported     == In("Validation") /\ Validation!Unreported

WorkEnds ==
  /\ \A b \in 1..4 : KoboLoads(b) ~> ~KoboLoads(b)
  /\ \A b \in 1..3 : OnaLoads(b) ~> ~OnaLoads(b)
  /\ Cleans ~> ~Cleans
  /\ \A r \in {o1, p1} : Differs(r) ~> ~Differs(r)
  /\ \A a \in {north, south, town} : Misplaced(a) ~> ~Misplaced(a)
  /\ \A a \in {north, town} : Unlisted(a) ~> ~Unlisted(a)
  /\ \A z \in {"one", "two"} : Reads(z) ~> ~Stores(z)
  /\ \A b \in {1, 2} : Reprocessed(b) ~> Treats(b)
  /\ Unreported ~> ~Unreported
==============================================================================
