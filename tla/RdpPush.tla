------------------------------ MODULE RdpPush ------------------------------
(***************************************************************************)
(* The push of one RDP to HOPE Core: rdp/push/workflow.py with the row     *)
(* updates of models/rdp.py and rdp/push/repository.py.                    *)
(*                                                                         *)
(* A push attempt is a preparation job (push_existing_rdp_core), possibly  *)
(* a callback from HOPE (handle_push_ready_callback), and a data job       *)
(* (push_rdp_data_core).  Jobs are delivered to Celery workers at least    *)
(* once.  A worker runs its job in steps: each database transaction and    *)
(* each call to HOPE is one step, so that other jobs, callbacks, users and *)
(* HOPE itself act in between.                                             *)
(*                                                                         *)
(* The model starts when the operations of the RDP are complete (an RDP    *)
(* without operations starts there; RdpDedup models the others).           *)
(***************************************************************************)
EXTENDS Naturals

CONSTANTS
  Attempts,    \* values uuid4() can give a push attempt
  Rdis,        \* ids HOPE can give an RDI
  Workers,     \* Celery worker processes
  NoAttempt,   \* push_attempt_id is NULL
  NoRdi,       \* hope_rdi_id is NULL, or a Python None in its place
  NA,          \* hope_rdi_id is "N/A"
  MaxFaults    \* bound on crashes, lost deliveries and redeliveries

ASSUME ConstantsAssumption ==
  /\ NoAttempt \notin Attempts
  /\ NoRdi \notin Rdis
  /\ NA \notin Rdis
  /\ NoRdi # NA
  /\ MaxFaults \in Nat

VARIABLES
  status, attempt, hopeRdi,   \* the RDP row
  removed,     \* the beneficiaries of the RDP are marked as removed
  cleanup,     \* Program.cleanup_in_progress
  resetId,     \* attempt -> rdi_id_to_reset in the config of its preparation job
  prepJobs,    \* attempts with a preparation job
  dataJobs,    \* attempts with a data job
  queue,       \* deliveries waiting in the broker
  pc, task, mine,   \* per worker: next step, attempt, processor.hope_rdi_id
  rdi,         \* HOPE: RDI -> its state
  resets,      \* HOPE: accepted reset requests <<RDI, attempt in the token>>
  callbacks,   \* attempts for which HOPE has sent a push-ready callback
  faults       \* crashes, lost deliveries and redeliveries so far

row  == <<status, attempt, hopeRdi>>
jobs == <<resetId, prepJobs, dataJobs>>
work == <<pc, task, mine>>
hope == <<rdi, resets, callbacks>>
vars == <<row, removed, cleanup, jobs, queue, work, hope, faults>>

Statuses ==
  {"PENDING", "REVIEW_PENDING", "PUSH_PENDING", "SUCCESS", "FAILURE", "CANCELLED"}
PrepSteps == {"prep_lock", "prep_reset", "prep_schedule", "prep_merged"}
DataSteps == {"data_claim", "data_create", "data_save", "data_push", "data_complete", "data_finish"}
Steps     == {"idle", "prep_fail", "data_fail"} \cup PrepSteps \cup DataSteps
RdiStates == {"absent", "open", "complete", "merging", "merged", "deleted"}
Deliveries == [kind : {"prep", "data"}, attempt : Attempts]

Prep(a) == [kind |-> "prep", attempt |-> a]
Data(a) == [kind |-> "data", attempt |-> a]

Init ==
  /\ status = "PENDING" /\ attempt = NoAttempt /\ hopeRdi = NoRdi
  /\ removed = FALSE /\ cleanup = FALSE
  /\ resetId = [a \in Attempts |-> NoRdi] /\ prepJobs = {} /\ dataJobs = {}
  /\ queue = {}
  /\ pc = [w \in Workers |-> "idle"]
  /\ task = [w \in Workers |-> NoAttempt]
  /\ mine = [w \in Workers |-> NoRdi]
  /\ rdi = [r \in Rdis |-> "absent"] /\ resets = {} /\ callbacks = {}
  /\ faults = 0

-----------------------------------------------------------------------------
(* Transactions on the RDP row.                                            *)

\* Mutant of Active: the attempt id is not part of the query.
ActiveAnyAttempt(a) == status = "PUSH_PENDING"

\* lock_rdp_push_attempt finds the row.
Active(a) == status = "PUSH_PENDING" /\ attempt = a

\* Mutant of StartPush: "N/A" is passed on as an RDI to reset.
StartPushResetsNA(a) ==
  /\ a \notin prepJobs
  /\ status' = "PUSH_PENDING"
  /\ attempt' = a
  /\ prepJobs' = prepJobs \cup {a}
  /\ resetId' = [resetId EXCEPT ![a] = hopeRdi]
  /\ queue' = queue \cup {Prep(a)}
  /\ UNCHANGED <<hopeRdi, removed, cleanup, dataJobs, work, hope, faults>>

\* start_push_attempt with a fresh attempt, then _schedule_push_preparation.
StartPush(a) ==
  /\ a \notin prepJobs
  /\ status' = "PUSH_PENDING"
  /\ attempt' = a
  /\ prepJobs' = prepJobs \cup {a}
  /\ resetId' = [resetId EXCEPT ![a] = IF hopeRdi = NA THEN NoRdi ELSE hopeRdi]
  /\ queue' = queue \cup {Prep(a)}
  /\ UNCHANGED <<hopeRdi, removed, cleanup, dataJobs, work, hope, faults>>

\* Mutant of FailPendingPush: the caller's RDI overwrites the one of the row.
FailPendingPushOverwrites(a, r) ==
  IF Active(a)
  THEN /\ status' = "FAILURE"
       /\ attempt' = NoAttempt
       /\ hopeRdi' = IF r \in Rdis THEN r ELSE NA
  ELSE UNCHANGED row

\* _fail_pending_push: an RDI the row already names wins over the caller's.
FailPendingPush(a, r) ==
  IF Active(a)
  THEN /\ status' = "FAILURE"
       /\ attempt' = NoAttempt
       /\ hopeRdi' = IF hopeRdi \in Rdis THEN hopeRdi
                     ELSE IF r \in Rdis THEN r ELSE NA
  ELSE UNCHANGED row

\* _schedule_push_data with get_or_create_rdp_push_data_job.
SchedulePushData(a) ==
  IF Active(a) /\ ~cleanup
  THEN /\ dataJobs' = dataJobs \cup {a}
       /\ hopeRdi' = IF a \in dataJobs THEN hopeRdi ELSE NoRdi
       /\ queue' = IF hopeRdi' = NoRdi THEN queue \cup {Data(a)} ELSE queue
       /\ UNCHANGED <<status, attempt>>
  ELSE UNCHANGED <<row, dataJobs, queue>>

\* _finish_successful_push for the locked row.
FinishSuccessfulPush(r) ==
  /\ status' = "SUCCESS"
  /\ attempt' = NoAttempt
  /\ hopeRdi' = r
  /\ removed' = TRUE

-----------------------------------------------------------------------------
(* Users and staff.                                                        *)

\* evaluate_rdp_for_push: to review when the findings exceed the threshold.
Evaluate ==
  /\ status = "PENDING"
  /\ ~cleanup
  /\ \/ /\ status' = "REVIEW_PENDING"
        /\ UNCHANGED <<attempt, hopeRdi, removed, cleanup, jobs, queue, work, hope, faults>>
     \/ \E a \in Attempts : StartPush(a)

\* claim_review_rdp_push
ReviewPush ==
  /\ status = "REVIEW_PENDING"
  /\ ~cleanup
  /\ \E a \in Attempts : StartPush(a)

\* Mutant of RetryPush: the cleanup flag is not checked.
RetryPushDuringCleanup ==
  /\ status = "FAILURE"
  /\ \E a \in Attempts : StartPush(a)

\* retry_rdp_push
RetryPush ==
  /\ status = "FAILURE"
  /\ ~cleanup
  /\ \E a \in Attempts : StartPush(a)

\* fail_stuck_rdp_push
FailStuck(a) ==
  /\ Active(a)
  /\ a \in prepJobs
  /\ a \notin dataJobs
  /\ FailPendingPush(a, hopeRdi)
  /\ UNCHANGED <<removed, cleanup, jobs, queue, work, hope, faults>>

\* mark_cancelled
MarkCancelled ==
  /\ status' = "CANCELLED"
  /\ attempt' = NoAttempt
  /\ hopeRdi' = IF hopeRdi = NoRdi THEN NA ELSE hopeRdi

\* Mutant of Cancel: every unfinished RDP can be cancelled.
CancelUnfinished ==
  /\ status \in {"PENDING", "FAILURE", "REVIEW_PENDING", "PUSH_PENDING"}
  /\ MarkCancelled
  /\ UNCHANGED <<removed, cleanup, jobs, queue, work, hope, faults>>

\* cancel_rdp, its DedupEngine part aside
Cancel ==
  /\ status \in {"PENDING", "FAILURE", "REVIEW_PENDING"}
  /\ MarkCancelled
  /\ UNCHANGED <<removed, cleanup, jobs, queue, work, hope, faults>>

\* reset_rdp
Reset ==
  /\ status = "SUCCESS"
  /\ ~cleanup
  /\ MarkCancelled
  /\ removed' = FALSE
  /\ UNCHANGED <<cleanup, jobs, queue, work, hope, faults>>

\* clean_program: the flag is set under the lock of the program
CleanProgram ==
  /\ ~cleanup
  /\ status # "PUSH_PENDING"
  /\ cleanup' = TRUE
  /\ UNCHANGED <<row, removed, jobs, queue, work, hope, faults>>

-----------------------------------------------------------------------------
(* Workers.                                                                *)

Goto(w, step) == pc' = [pc EXCEPT ![w] = step] /\ UNCHANGED <<task, mine>>

\* sync_job_task starts a delivered job
Take(w, d) ==
  /\ pc[w] = "idle"
  /\ d \in queue
  /\ queue' = queue \ {d}
  /\ pc' = [pc EXCEPT ![w] = IF d.kind = "prep" THEN "prep_lock" ELSE "data_claim"]
  /\ task' = [task EXCEPT ![w] = d.attempt]
  /\ mine' = [mine EXCEPT ![w] = NoRdi]
  /\ UNCHANGED <<row, removed, cleanup, jobs, hope, faults>>

\* push_existing_rdp_core: the attempt must be current; the lock is released at once
PrepLock(w) ==
  /\ pc[w] = "prep_lock"
  /\ Goto(w, IF ~Active(task[w]) THEN "prep_fail"
             ELSE IF resetId[task[w]] = NoRdi THEN "prep_schedule" ELSE "prep_reset")
  /\ UNCHANGED <<row, removed, cleanup, jobs, queue, hope, faults>>

\* HopeApi.reset_rdi and the handling of its result.  An accepted and an
\* unconfirmed reset both end the job; whether HOPE acted on an unconfirmed one
\* the caller cannot tell.
PrepReset(w) ==
  LET r == resetId[task[w]] IN
  /\ pc[w] = "prep_reset"
  /\ \/ /\ rdi[r] \in {"open", "complete"}
        /\ resets' = resets \cup {<<r, task[w]>>}
        /\ Goto(w, "idle")
     \/ /\ rdi[r] = "deleted" /\ Goto(w, "prep_schedule") /\ UNCHANGED resets
     \/ /\ rdi[r] = "merging" /\ Goto(w, "prep_fail") /\ UNCHANGED resets
     \/ /\ rdi[r] = "merged" /\ Goto(w, "prep_merged") /\ UNCHANGED resets
     \/ /\ Goto(w, "idle") /\ UNCHANGED resets
  /\ UNCHANGED <<row, removed, cleanup, jobs, queue, rdi, callbacks, faults>>

\* the last statement of push_existing_rdp_core
PrepSchedule(w) ==
  /\ pc[w] = "prep_schedule"
  /\ SchedulePushData(task[w])
  /\ Goto(w, "idle")
  /\ UNCHANGED <<removed, cleanup, resetId, prepJobs, hope, faults>>

\* _finish_already_merged_push
PrepMerged(w) ==
  /\ pc[w] = "prep_merged"
  /\ IF Active(task[w]) THEN FinishSuccessfulPush(resetId[task[w]])
     ELSE UNCHANGED <<row, removed>>
  /\ Goto(w, "idle")
  /\ UNCHANGED <<cleanup, jobs, queue, hope, faults>>

\* the except clause of push_existing_rdp_core
PrepFail(w) ==
  /\ pc[w] = "prep_fail"
  /\ FailPendingPush(task[w], resetId[task[w]])
  /\ Goto(w, "idle")
  /\ UNCHANGED <<removed, cleanup, jobs, queue, hope, faults>>

\* Mutant of DataClaim: the claim does not look at hope_rdi_id.
DataClaimAgain(w) ==
  /\ pc[w] = "data_claim"
  /\ IF Active(task[w])
     THEN hopeRdi' = NA /\ Goto(w, "data_create") /\ UNCHANGED <<status, attempt>>
     ELSE Goto(w, "idle") /\ UNCHANGED row
  /\ UNCHANGED <<removed, cleanup, jobs, queue, hope, faults>>

\* claim_rdp_data_push
DataClaim(w) ==
  /\ pc[w] = "data_claim"
  /\ IF Active(task[w]) /\ hopeRdi = NoRdi
     THEN hopeRdi' = NA /\ Goto(w, "data_create") /\ UNCHANGED <<status, attempt>>
     ELSE Goto(w, "idle") /\ UNCHANGED row
  /\ UNCHANGED <<removed, cleanup, jobs, queue, hope, faults>>

\* rdi_create: HOPE creates the RDI, its answer arrives or is lost
DataCreate(w) ==
  /\ pc[w] = "data_create"
  /\ \E r \in Rdis :
       /\ rdi[r] = "absent"
       /\ rdi' = [rdi EXCEPT ![r] = "open"]
       /\ \/ /\ mine' = [mine EXCEPT ![w] = r]
             /\ pc' = [pc EXCEPT ![w] = "data_save"]
             /\ UNCHANGED task
          \/ Goto(w, "data_fail")
  /\ UNCHANGED <<row, removed, cleanup, jobs, queue, resets, callbacks, faults>>

\* the transaction that stores the new RDI
DataSave(w) ==
  /\ pc[w] = "data_save"
  /\ IF Active(task[w])
     THEN hopeRdi' = mine[w] /\ Goto(w, "data_push") /\ UNCHANGED <<status, attempt>>
     ELSE Goto(w, "data_fail") /\ UNCHANGED row
  /\ UNCHANGED <<removed, cleanup, jobs, queue, hope, faults>>

\* Mutant of DataPush: the RDI is never completed.
DataPushSkipsCompletion(w) ==
  /\ pc[w] = "data_push"
  /\ Goto(w, IF rdi[mine[w]] = "open" THEN "data_finish" ELSE "data_fail")
  /\ UNCHANGED <<row, removed, cleanup, jobs, queue, hope, faults>>

\* the beneficiary steps of _push_data_steps: HOPE takes data of an open RDI
DataPush(w) ==
  /\ pc[w] = "data_push"
  /\ Goto(w, IF rdi[mine[w]] = "open" THEN "data_complete" ELSE "data_fail")
  /\ UNCHANGED <<row, removed, cleanup, jobs, queue, hope, faults>>

\* rdi_complete: HOPE completes an open RDI, its answer arrives or is lost
DataComplete(w) ==
  /\ pc[w] = "data_complete"
  /\ IF rdi[mine[w]] = "open"
     THEN /\ rdi' = [rdi EXCEPT ![mine[w]] = "complete"]
          /\ Goto(w, "data_finish") \/ Goto(w, "data_fail")
     ELSE Goto(w, "data_fail") /\ UNCHANGED rdi
  /\ UNCHANGED <<row, removed, cleanup, jobs, queue, resets, callbacks, faults>>

\* the final transaction of push_rdp_data_core
DataFinish(w) ==
  /\ pc[w] = "data_finish"
  /\ IF Active(task[w]) /\ hopeRdi = mine[w]
     THEN FinishSuccessfulPush(mine[w]) /\ Goto(w, "idle")
     ELSE UNCHANGED <<row, removed>> /\ Goto(w, "data_fail")
  /\ UNCHANGED <<cleanup, jobs, queue, hope, faults>>

\* Mutant of DataFail: the failure is not recorded.
DataFailSilently(w) ==
  /\ pc[w] = "data_fail"
  /\ Goto(w, "idle")
  /\ UNCHANGED <<row, removed, cleanup, jobs, queue, hope, faults>>

\* the except clause of push_rdp_data_core
DataFail(w) ==
  /\ pc[w] = "data_fail"
  /\ FailPendingPush(task[w], mine[w])
  /\ Goto(w, "idle")
  /\ UNCHANGED <<removed, cleanup, jobs, queue, hope, faults>>

\* A step raises: a failed preflight, an error answer of HOPE or a database error,
\* whose transaction is rolled back.
Raise(w) ==
  /\ \/ pc[w] \in PrepSteps /\ Goto(w, "prep_fail")
     \/ pc[w] \in DataSteps /\ Goto(w, "data_fail")
  /\ UNCHANGED <<row, removed, cleanup, jobs, queue, hope, faults>>

\* What a live worker does with the job it has.
Run(w) ==
  \/ PrepLock(w) \/ PrepReset(w) \/ PrepSchedule(w) \/ PrepMerged(w) \/ PrepFail(w)
  \/ DataClaim(w) \/ DataCreate(w) \/ DataSave(w) \/ DataPush(w)
  \/ DataComplete(w) \/ DataFinish(w) \/ DataFail(w) \/ Raise(w)

-----------------------------------------------------------------------------
(* HOPE Core (external) and its callback.                                  *)

\* HOPE finishes a reset: the RDI is gone, the signed tokens are sent back.
HopeResetDone(r) ==
  /\ rdi[r] \in {"open", "complete"}
  /\ \E q \in resets : q[1] = r
  /\ rdi' = [rdi EXCEPT ![r] = "deleted"]
  /\ callbacks' = callbacks \cup {q[2] : q \in {p \in resets : p[1] = r}}
  /\ resets' = {p \in resets : p[1] # r}
  /\ UNCHANGED <<row, removed, cleanup, jobs, queue, work, faults>>

\* HOPE drops a reset it had accepted: no callback.
HopeResetFails ==
  /\ \E q \in resets : resets' = resets \ {q}
  /\ UNCHANGED <<row, removed, cleanup, jobs, queue, work, rdi, callbacks, faults>>

\* HOPE merges a completed RDI into its population, or gives the merge up.
HopeMerge(r) ==
  /\ \/ rdi[r] = "complete" /\ rdi' = [rdi EXCEPT ![r] = "merging"]
     \/ rdi[r] = "merging" /\ \E s \in {"complete", "merged"} : rdi' = [rdi EXCEPT ![r] = s]
  /\ UNCHANGED <<row, removed, cleanup, jobs, queue, work, resets, callbacks, faults>>

\* handle_push_ready_callback; a callback may come late, again, or never.
Callback(a) ==
  /\ a \in callbacks
  /\ SchedulePushData(a)
  /\ UNCHANGED <<removed, cleanup, resetId, prepJobs, work, hope, faults>>

\* its except clause: the transaction of _schedule_push_data failed
CallbackRaises(a) ==
  /\ a \in callbacks
  /\ FailPendingPush(a, NoRdi)
  /\ UNCHANGED <<removed, cleanup, jobs, queue, work, hope, faults>>

-----------------------------------------------------------------------------
(* Celery: a worker dies, a delivery is lost, a job is delivered again.    *)

Fault ==
  /\ faults < MaxFaults
  /\ faults' = faults + 1
  /\ UNCHANGED <<row, removed, cleanup, jobs, hope>>

\* Acknowledged late, the job of a dead worker comes back, unless the pool that
\* lost only a child process acknowledged it.
Crash(w) ==
  /\ pc[w] # "idle"
  /\ Fault
  /\ Goto(w, "idle")
  /\ \/ UNCHANGED queue
     \/ queue' = queue \cup {IF pc[w] \in PrepSteps \cup {"prep_fail"}
                             THEN Prep(task[w]) ELSE Data(task[w])}

LoseDelivery ==
  /\ Fault
  /\ \E d \in queue : queue' = queue \ {d}
  /\ UNCHANGED work

Redeliver ==
  /\ Fault
  /\ \/ \E a \in prepJobs : queue' = queue \cup {Prep(a)}
     \/ \E a \in dataJobs : queue' = queue \cup {Data(a)}
  /\ UNCHANGED work

Users == Evaluate \/ ReviewPush \/ RetryPush \/ Cancel \/ Reset \/ CleanProgram

Next ==
  \/ Users
  \/ \E a \in Attempts : FailStuck(a) \/ Callback(a) \/ CallbackRaises(a)
  \/ \E w \in Workers : Run(w) \/ Crash(w) \/ (\E d \in queue : Take(w, d))
  \/ \E r \in Rdis : HopeResetDone(r) \/ HopeMerge(r)
  \/ HopeResetFails \/ LoseDelivery \/ Redeliver

Spec == Init /\ [][Next]_vars

\* Celery workers run what they took and take what is delivered; staff recover
\* a stuck push.  Users and HOPE owe nothing.
Fairness ==
  /\ \A w \in Workers : WF_vars(Run(w))
  /\ WF_vars(\E w \in Workers, d \in queue : Take(w, d))
  /\ WF_vars(\E a \in Attempts : FailStuck(a))

FairSpec == Spec /\ Fairness

-----------------------------------------------------------------------------
(* Properties.                                                             *)

\* Every variable keeps its type.
TypeOK ==
  /\ status \in Statuses
  /\ attempt \in Attempts \cup {NoAttempt}
  /\ hopeRdi \in Rdis \cup {NoRdi, NA}
  /\ removed \in BOOLEAN /\ cleanup \in BOOLEAN
  /\ resetId \in [Attempts -> Rdis \cup {NoRdi}]
  /\ prepJobs \subseteq Attempts /\ dataJobs \subseteq Attempts
  /\ queue \subseteq Deliveries
  /\ pc \in [Workers -> Steps]
  /\ task \in [Workers -> Attempts \cup {NoAttempt}]
  /\ mine \in [Workers -> Rdis \cup {NoRdi}]
  /\ rdi \in [Rdis -> RdiStates]
  /\ resets \subseteq Rdis \X Attempts /\ callbacks \subseteq Attempts
  /\ faults \in 0..MaxFaults

\* HOPE holds the data of RDI r.
Landed(r) == rdi[r] \in {"complete", "merging", "merged"}

\* Workspace never loses sight of data HOPE holds: a completed RDI is the one the
\* RDP row names, so that a retry resets it.  In particular HOPE never holds the
\* beneficiaries of the RDP twice, whatever answers, callbacks and jobs were lost,
\* late or repeated.
TrackedImport == \A r \in Rdis : Landed(r) => hopeRdi = r

\* SUCCESS tells the truth: the RDI the row names holds the data in HOPE, and the
\* beneficiaries are hidden from the workspace exactly as long as that is announced.
SuccessIsDelivered ==
  /\ status = "SUCCESS" => hopeRdi \in Rdis /\ Landed(hopeRdi)
  /\ removed <=> status = "SUCCESS"

\* claim_rdp_data_push admits one sender per attempt, however often the data job is
\* delivered and however often callbacks and preparation schedule it again.
Sending(w) == pc[w] \in DataSteps \ {"data_claim"}

OneSenderPerAttempt ==
  \A v, w \in Workers : Sending(v) /\ Sending(w) /\ task[v] = task[w] => v = w

\* A program cleanup and a push in progress exclude each other: the flag is checked
\* where a push starts, and the pending push where the flag is set.
NoPushDuringCleanup == ~(cleanup /\ status = "PUSH_PENDING")

\* A job that outlived its attempt changes nothing of the RDP any more.
StaleJobsAreInert ==
  [][\A w \in Workers :
       pc[w] # "idle" /\ task[w] # attempt /\ pc'[w] # pc[w]
         => UNCHANGED <<row, removed>>]_vars

\* The status diagram and the meaning of SUCCESS (module RdpStatus).
Promise == INSTANCE RdpStatus WITH delivered <- \E r \in Rdis : Landed(r)
PromiseSpec == Promise!Spec

\* A scheduled data push ends its attempt when no worker dies and no delivery is lost.
DataPushEnds ==
  \A a \in Attempts : (Active(a) /\ a \in dataJobs) ~> ~Active(a)

\* With staff recovery every attempt ends: what Fail stuck push refuses ends by itself.
AttemptEnds == \A a \in Attempts : Active(a) ~> ~Active(a)

\* docs/src/rdp/troubleshooting.md offers Fail stuck push when a push can no longer
\* continue: also a push whose data job was claimed ends, by itself or by staff.
ClaimedPushEnds ==
  \A a \in Attempts : (Active(a) /\ a \in dataJobs /\ hopeRdi # NoRdi) ~> ~Active(a)

\* docs/src/rdp/lifecycle.md: a cancelled RDP sees no further processing, so no RDI
\* of it is created or completed any more.
CancelledIsInert ==
  [][status = "CANCELLED" =>
       \A r \in Rdis : /\ rdi[r] = "absent" => rdi'[r] = "absent"
                       /\ rdi[r] = "open" => rdi'[r] # "complete"]_vars
=============================================================================
