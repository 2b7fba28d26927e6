--------------------------- MODULE ProgramCleanup ---------------------------
(***************************************************************************)
(* The cleanup of a whole program (admin/program.py, tasks.py) among the   *)
(* other jobs of the program and its RDPs.                                 *)
(*                                                                         *)
(* The job deletes without a transaction, one step after the other, and    *)
(* may fail or be terminated between any two; the flag on the program      *)
(* stays set until staff have the job finish.  Another job is an import,   *)
(* which leaves a batch, or a biometric run, which leaves a group of sets  *)
(* in DedupEngine under the reference id that the program has at the time. *)
(***************************************************************************)
EXTENDS Naturals

CONSTANTS
  ImportJobs, BiometricJobs,   \* the other jobs the program may get
  References,                  \* reference ids (Program.unicef_id)
  First,                       \* the first of them
  NoReference,
  MaxRenames,                  \* bound on changes of the program's code
  MaxFaults                    \* bound on failures and terminations of the cleanup

CleanupAssumption ==
  /\ ImportJobs \cap BiometricJobs = {}
  /\ First \in References /\ NoReference \notin References
  /\ MaxRenames \in Nat /\ MaxFaults \in Nat

VARIABLES
  flag,        \* Program.cleanup_in_progress
  reference,   \* Program.unicef_id
  stored,      \* the reference id in the config of the cleanup job
  clean,       \* next step of the cleanup job
  todo,        \* batch_ids
  job,         \* job -> where it is
  deleted,     \* jobs whose row is deleted
  batches,     \* import jobs whose batch exists
  groups,      \* reference ids with a group in DedupEngine
  rdp,         \* status of the RDP of the program
  rdi,         \* whether there is an Rdi
  late,        \* jobs the cleanup did not look at, see CleanCheck
  renames, faults

vars == <<flag, reference, stored, clean, todo, job, deleted, batches, groups, rdp,
          rdi, late, renames, faults>>

AllJobs    == ImportJobs \cup BiometricJobs
JobSteps   == {"none", "requested", "created", "queued", "running", "checked", "done", "failed"}
Deleting   == {"group", "current", "list", "batches", "rdps", "rdis", "jobs", "clear"}
CleanSteps == {"none", "queued", "check", "failed", "done"} \cup Deleting

Init ==
  /\ flag = FALSE /\ reference = First /\ stored = NoReference
  /\ clean = "none" /\ todo = {}
  /\ job = [j \in AllJobs|-> "none"] /\ deleted = {}
  /\ batches = {} /\ groups = {} /\ rdp = "none" /\ rdi = FALSE
  /\ late = {} /\ renames = 0 /\ faults = 0

cleanup == <<flag, stored, clean, todo, late, faults>>
data    == <<batches, groups>>
rdps    == <<rdp, rdi>>
names   == <<reference, renames>>

-----------------------------------------------------------------------------
(* The other jobs.                                                         *)

\* a page of the workspace that starts an import: the guard comes before the view
RequestImport(j) ==
  /\ j \in ImportJobs /\ job[j] = "none"
  /\ ~flag
  /\ job' = [job EXCEPT ![j] = "requested"]
  /\ UNCHANGED <<cleanup, deleted, data, rdps, names>>

\* the view creates the job of the import; retry_failed_rdp_operations checks again
CreateJob(j) ==
  /\ \/ j \in ImportJobs /\ job[j] = "requested"
     \/ j \in BiometricJobs /\ job[j] = "none" /\ ~flag /\ rdp = "unfinished"
  /\ job' = [job EXCEPT ![j] = "created"]
  /\ UNCHANGED <<cleanup, deleted, data, rdps, names>>

\* job.queue sets curr_async_result_id
QueueJob(j) ==
  /\ job[j] = "created" /\ j \notin deleted
  /\ job' = [job EXCEPT ![j] = "queued"]
  /\ UNCHANGED <<cleanup, deleted, data, rdps, names>>

\* staff queue a failed job again: CountryJobAdmin.has_queue_permission
RequeueJob(j) ==
  /\ job[j] = "failed" /\ j \notin deleted
  /\ ~flag
  /\ faults < MaxFaults /\ faults' = faults + 1
  /\ job' = [job EXCEPT ![j] = "queued"]
  /\ UNCHANGED <<flag, stored, clean, todo, late, deleted, data, rdps, names>>

\* a worker takes the job; each look at the cancellation fails once the row is gone
Work(j) ==
  /\ \/ job[j] = "queued"  /\ job' = [job EXCEPT ![j] = IF j \in deleted THEN "failed" ELSE "running"]
     \/ job[j] = "running" /\ job' = [job EXCEPT ![j] = IF j \in deleted THEN "failed" ELSE "checked"]
  /\ UNCHANGED <<cleanup, deleted, data, rdps, names>>

\* after the last look the job commits
Finish(j) ==
  /\ job[j] = "checked"
  /\ job' = [job EXCEPT ![j] = "done"]
  /\ IF j \in ImportJobs
     THEN batches' = batches \cup {j} /\ UNCHANGED groups
     ELSE groups' = groups \cup {reference} /\ UNCHANGED batches
  /\ UNCHANGED <<cleanup, deleted, rdps, names>>

\* the job fails or is cancelled
FailJob(j) ==
  /\ job[j] \in {"queued", "running", "checked"}
  /\ job' = [job EXCEPT ![j] = "failed"]
  /\ UNCHANGED <<cleanup, deleted, data, rdps, names>>

-----------------------------------------------------------------------------
(* RDPs and the code of the program.                                       *)

\* create_rdp_core
CreateRdp ==
  /\ ~flag
  /\ rdp \in {"none", "final"}
  /\ rdp' = "unfinished"
  /\ UNCHANGED <<cleanup, job, deleted, data, rdi, names>>

\* evaluate_rdp_for_push and RdpPushPolicy.retry_check, which need the program not in cleanup
StartPush ==
  /\ rdp = "unfinished"
  /\ ~flag
  /\ rdp' = "push"
  /\ UNCHANGED <<cleanup, job, deleted, data, rdi, names>>

\* the push succeeds, with an Rdi, or fails
EndPush ==
  /\ rdp = "push"
  /\ \/ rdp' = "final" /\ rdi' = TRUE
     \/ rdp' = "unfinished" /\ UNCHANGED rdi
  /\ UNCHANGED <<cleanup, job, deleted, data, names>>

\* cancel_rdp is allowed during a cleanup
CancelRdp ==
  /\ rdp = "unfinished"
  /\ rdp' = "final"
  /\ UNCHANGED <<cleanup, job, deleted, data, rdi, names>>

\* a synchronisation with HOPE changes the code
Rename ==
  /\ renames < MaxRenames /\ renames' = renames + 1
  /\ \E r \in References \ {reference} : reference' = r
  /\ UNCHANGED <<cleanup, job, deleted, data, rdps>>

-----------------------------------------------------------------------------
(* The cleanup.                                                            *)

\* clean_program: the flag and the job are saved together, the job is queued on commit
CleanProgram ==
  /\ ~flag
  /\ rdp # "push"
  /\ flag' = TRUE
  /\ stored' = reference
  /\ clean' = "queued"
  /\ late' = {} /\ todo' = {}
  /\ UNCHANGED <<faults, job, deleted, data, rdps, names>>

\* Mutant of RequeueClean: treated like every other job.
RequeueCleanLikeOthers ==
  /\ clean = "failed" /\ ~flag
  /\ clean' = "queued"
  /\ UNCHANGED <<flag, stored, todo, late, faults, job, deleted, data, rdps, names>>

\* staff queue the cleanup again
RequeueClean ==
  /\ clean = "failed" /\ flag
  /\ clean' = "queued"
  /\ UNCHANGED <<flag, stored, todo, late, faults, job, deleted, data, rdps, names>>

CleanTake ==
  /\ clean = "queued"
  /\ clean' = "check"
  /\ UNCHANGED <<flag, stored, todo, late, faults, job, deleted, data, rdps, names>>

\* Mutant of Active: only jobs of the RDPs of the program are looked at.
ActiveRdpJobs(j) ==
  /\ j \in BiometricJobs \ deleted
  /\ job[j] \in {"queued", "running", "checked"}

\* a job with curr_async_result_id whose task has not completed
Active(j) == j \notin deleted /\ job[j] \in {"queued", "running", "checked"}

\* what the query for active jobs cannot see: jobs without a task, requests that are past
\* the guard, and jobs at work whose row an earlier cleanup has deleted
Unseen(j) == \/ job[j] \in {"requested", "created"}
             \/ j \in deleted /\ job[j] \in {"queued", "running", "checked"}

\* clean_program_data looks at the other jobs and at the pushes
CleanCheck ==
  /\ clean = "check"
  /\ IF rdp = "push" \/ \E j \in AllJobs: Active(j)
     THEN clean' = "failed" /\ UNCHANGED late
     ELSE clean' = "group" /\ late' = late \cup {j \in AllJobs: Unseen(j)}
  /\ UNCHANGED <<flag, stored, todo, faults, job, deleted, data, rdps, names>>

\* delete_deduplication_set_group for the stored and for the current reference id
CleanGroups ==
  /\ \/ clean = "group"   /\ clean' = "current" /\ groups' = groups \ {stored}
     \/ clean = "current" /\ clean' = "list"    /\ groups' = groups \ {reference}
  /\ UNCHANGED <<flag, stored, todo, late, faults, job, deleted, batches, rdps, names>>

CleanList ==
  /\ clean = "list" /\ clean' = "batches"
  /\ todo' = batches
  /\ UNCHANGED <<flag, stored, late, faults, job, deleted, data, rdps, names>>

\* _cleanup_batches: the job of an import goes with its batch
CleanBatches ==
  /\ clean = "batches"
  /\ IF todo = {}
     THEN clean' = "rdps" /\ UNCHANGED <<todo, batches, deleted>>
     ELSE \E b \in todo : /\ todo' = todo \ {b} /\ batches' = batches \ {b}
                          /\ deleted' = deleted \cup {b} /\ UNCHANGED clean
  /\ UNCHANGED <<flag, stored, late, faults, job, groups, rdps, names>>

CleanRdps ==
  /\ \/ clean = "rdps" /\ clean' = "rdis" /\ rdp' = "none" /\ UNCHANGED rdi
     \/ clean = "rdis" /\ clean' = "jobs" /\ rdi' = FALSE  /\ UNCHANGED rdp
  /\ UNCHANGED <<flag, stored, todo, late, faults, job, deleted, data, names>>

CleanJobs ==
  /\ clean = "jobs" /\ clean' = "clear"
  /\ deleted' = deleted \cup {j \in AllJobs: job[j] \notin {"none", "requested"}}
  /\ UNCHANGED <<flag, stored, todo, late, faults, job, data, rdps, names>>

CleanEnd ==
  /\ clean = "clear" /\ clean' = "done"
  /\ flag' = FALSE
  /\ UNCHANGED <<stored, todo, late, faults, job, deleted, data, rdps, names>>

\* the job fails, is terminated or loses DedupEngine, after which a re-run begins anew
CleanStop ==
  /\ clean \in {"queued", "check"} \cup Deleting
  /\ faults < MaxFaults /\ faults' = faults + 1
  /\ clean' = "failed"
  /\ UNCHANGED <<flag, stored, todo, late, job, deleted, data, rdps, names>>

-----------------------------------------------------------------------------
CleanStep == CleanTake \/ CleanCheck \/ CleanGroups \/ CleanList \/ CleanBatches
               \/ CleanRdps \/ CleanJobs \/ CleanEnd
JobStep(j) == QueueJob(j) \/ Work(j) \/ Finish(j)
RdpStep    == CreateRdp \/ StartPush \/ EndPush \/ CancelRdp

Next ==
  \/ CleanProgram \/ RequeueClean \/ CleanStep \/ CleanStop \/ Rename \/ RdpStep
  \/ \E j \in AllJobs: RequestImport(j) \/ CreateJob(j) \/ RequeueJob(j) \/ JobStep(j) \/ FailJob(j)

Spec == Init /\ [][Next]_vars

-----------------------------------------------------------------------------
(* Properties.                                                             *)

\* The types, and: the cleanup acts only while the flag is set.
TypeOK ==
  /\ flag \in BOOLEAN
  /\ reference \in References /\ stored \in References \cup {NoReference}
  /\ clean \in CleanSteps
  /\ todo \subseteq ImportJobs /\ batches \subseteq ImportJobs
  /\ job \in [AllJobs-> JobSteps]
  /\ deleted \subseteq AllJobs/\ late \subseteq AllJobs
  /\ groups \subseteq References
  /\ rdp \in {"none", "unfinished", "push", "final"} /\ rdi \in BOOLEAN
  /\ renames \in Nat /\ faults \in Nat
  /\ flag <=> clean \notin {"none", "done"}

\* No push runs while data is deleted, however often the cleanup is interrupted and
\* repeated (clean_program, the check of the job and the policies of RDPs together).
NoPushWhileDeleting == flag => rdp # "push"

\* What a cleanup leaves of the batches is the work of jobs that it could not see when it
\* looked at the jobs of the program (tasks.py:292).
OnlyLateBatchesSurvive == clean' = "done" /\ clean = "clear" => batches \subseteq late

\* A cleanup leaves no group in DedupEngine, neither under the reference id of the program
\* when it was requested nor under the present one, but by a job it could not see.
GroupsAreDeleted ==
  clean = "clear" /\ clean' = "done" =>
    \/ {stored, reference} \cap groups = {}
    \/ renames > 1 \/ late \cap BiometricJobs # {}

\* A cleanup is under way.  It comes to its end although jobs run in its way and it is
\* interrupted.
Cleaning == clean \notin {"none", "done"}

\* "Continuing will erase all the data from this program" (admin/program.py:115).
CleanedIsEmpty == [][clean = "clear" /\ clean' = "done" => batches = {}]_vars

\* Why a cleanup is thorough.  A job that may still commit is one that it could not see; what
\* is left of the batches is listed, or of such a job; with one rename at most, groups are
\* those of the first reference id until it happens, so that a rename finds none.
Pending(j) == job[j] \in {"requested", "created", "queued", "running", "checked"}

LateGroups == late \cap BiometricJobs # {}

CleanInv ==
  /\ TypeOK /\ NoPushWhileDeleting
  /\ clean \in Deleting => \A j \in AllJobs : Pending(j) => j \in late
  /\ clean = "batches" => batches \subseteq todo \cup late
  /\ clean \in {"rdps", "rdis", "jobs", "clear"} => batches \subseteq late
  /\ renames = 0 => groups \subseteq {First} /\ reference = First /\ stored \in {First, NoReference}
  /\ clean \in Deleting \ {"group"} => stored \notin groups \/ LateGroups
  /\ clean \in Deleting \ {"group", "current"} => reference \notin groups \/ renames > 1 \/ LateGroups
=============================================================================
