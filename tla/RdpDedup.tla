------------------------------ MODULE RdpDedup ------------------------------
(***************************************************************************)
(* The RDPs of one program until they are pushed: creation, the biometric  *)
(* deduplication operation, its evaluation, review, cancellation and the   *)
(* clean replacement (rdp/lifecycle.py, rdp/operations, rdp/deduplication, *)
(* api/callbacks/dedup_engine).  The push itself is RdpPush; here it is    *)
(* what RdpStatus promises of it.                                          *)
(*                                                                         *)
(* A process is whatever executes code of the workspace: a Celery worker   *)
(* with a job, a request of a user, or a callback of DedupEngine.  Each    *)
(* database transaction and each call to DedupEngine is one step of it.    *)
(*                                                                         *)
(* The set of an RDP in DedupEngine has the id of the RDP's operation.     *)
(* States of a set that the code always treats alike are one state here.   *)
(* Every RDP has that one operation, the only type there is, and members:  *)
(* the errors for RDPs without are left out.                               *)
(***************************************************************************)
EXTENDS Naturals

CONSTANTS
  Rdps,        \* the RDPs the program may get
  Procs,       \* worker processes and requests under way
  NoRdp,
  MaxFaults    \* bound on crashes, lost and repeated callbacks, lost answers

ASSUME ConstantsAssumption == NoRdp \notin Rdps /\ MaxFaults \in Nat

VARIABLES
  status,      \* RDP -> Rdp.status, or "absent"
  op,          \* RDP -> status of its biometric operation
  cleanup,     \* Program.cleanup_in_progress
  jobs,        \* the jobs created so far
  queue,       \* jobs waiting in the broker
  pc, job,     \* process -> next step, what it works on
  de,          \* DedupEngine: RDP -> state of its set
  notify,      \* DedupEngine: sets with a state change to announce
  faults

vars == <<status, op, cleanup, jobs, queue, pc, job, de, notify, faults>>

NonTerminal == {"PENDING", "FAILURE", "REVIEW_PENDING", "PUSH_PENDING"}
Statuses    == NonTerminal \cup {"absent", "SUCCESS", "CANCELLED"}
OpStatuses  == {"PENDING", "RUNNING", "SUCCESS", "FAILURE"}

\* "uploading": Empty, Uploading in progress.  "ready": Ready, Encoded.
\* "processing": the two in progress.  "failed": the two failures.
SetStates   == {"none", "uploading", "ready", "processing", "failed",
                "deduplicated", "approved", "rejected"}
NonBlocking == {"none", "failed", "approved", "rejected"}
Processable == {"ready", "failed"}

RunSteps    == {"run_claim", "run_state", "run_create", "run_upload", "run_ready",
                "run_process", "run_fail"}
SyncSteps   == {"sync_read", "sync_state", "sync_fail", "sync_complete"}
RejectSteps == {"reject_check", "reject_state", "reject_call", "reject_next"}
UserSteps   == {"cancel_state", "cancel_keep", "cancel_reject", "cancel_refused", "clean_lock"}
Steps       == RunSteps \cup SyncSteps \cup RejectSteps \cup UserSteps
                 \cup {"idle", "evaluate", "approve"}

Kinds == {"run", "evaluate", "reject", "sync", "cancel", "clean", "push"}
Jobs  == [kind : Kinds, rdp : Rdps, clean : Rdps \cup {NoRdp}]

Job(kind, r)    == [kind |-> kind, rdp |-> r, clean |-> NoRdp]
Rejection(r, c) == [kind |-> "reject", rdp |-> r, clean |-> c]
NoJob           == [kind |-> "none", rdp |-> NoRdp, clean |-> NoRdp]
Rdp(p)          == job[p].rdp

Init ==
  /\ status = [r \in Rdps |-> "absent"]
  /\ op = [r \in Rdps |-> "PENDING"]
  /\ cleanup = FALSE
  /\ jobs = {} /\ queue = {}
  /\ pc = [p \in Procs |-> "idle"]
  /\ job = [p \in Procs |-> NoJob]
  /\ de = [r \in Rdps |-> "none"] /\ notify = {}
  /\ faults = 0

-----------------------------------------------------------------------------
Goto(p, step) ==
  /\ pc' = [pc EXCEPT ![p] = step]
  /\ job' = IF step = "idle" THEN [job EXCEPT ![p] = NoJob] ELSE job

\* A process begins to work on j.
Begin(p, step, j) ==
  /\ pc[p] = "idle"
  /\ pc' = [pc EXCEPT ![p] = step]
  /\ job' = [job EXCEPT ![p] = j]

\* A job is created and queued on commit.
Schedule(j) == jobs' = jobs \cup {j} /\ queue' = queue \cup {j}

rows   == <<status, op, cleanup>>
broker == <<jobs, queue>>
engine == <<de, notify>>

SetState(r, s) == de' = [de EXCEPT ![r] = s] /\ notify' = notify \cup {r}

\* uniq_non_terminal_rdp_per_program lets r be inserted once the RDPs in gone are gone
Insertable(r, gone) ==
  status[r] = "absent" /\ \A s \in Rdps \ gone : status[s] \notin NonTerminal

-----------------------------------------------------------------------------
(* Users.                                                                  *)

\* create_rdp_core for a selection that passes the preflight
CreateRdp(r) ==
  /\ ~cleanup
  /\ Insertable(r, {})
  /\ status' = [status EXCEPT ![r] = "PENDING"]
  /\ Schedule(Job("run", r))
  /\ UNCHANGED <<op, cleanup, pc, job, engine, faults>>

\* retry_failed_rdp_operations
RetryOperation(r) ==
  /\ ~cleanup
  /\ status[r] = "PENDING"
  /\ op[r] = "FAILURE"
  /\ Schedule(Job("run", r))
  /\ UNCHANGED <<rows, pc, job, engine, faults>>

\* cancel_check
Cancellable(r) == status[r] \in {"PENDING", "FAILURE", "REVIEW_PENDING"} /\ op[r] # "RUNNING"

\* cancel_rdp up to the call of DedupEngine, which a program in cleanup is spared
CancelBegin(p, r) ==
  /\ Cancellable(r)
  /\ Begin(p, IF cleanup THEN "cancel_keep" ELSE "cancel_state", Job("cancel", r))
  /\ UNCHANGED <<rows, broker, engine, faults>>

\* _biometric_rejection_check
CancelState(p) ==
  /\ pc[p] = "cancel_state"
  /\ Goto(p, CASE de[Rdp(p)] = "deduplicated" -> "cancel_reject"
               [] de[Rdp(p)] \in NonBlocking  -> "cancel_keep"
               [] OTHER                       -> "cancel_refused")
  /\ UNCHANGED <<rows, broker, engine, faults>>

\* Mutant of CancelLock: the check before the lock is relied on.
CancelLockUnchecked(p) ==
  LET r == Rdp(p) IN
  /\ pc[p] \in {"cancel_keep", "cancel_reject"}
  /\ status' = [status EXCEPT ![r] = "CANCELLED"]
  /\ IF pc[p] = "cancel_reject" /\ ~cleanup
     THEN Schedule(Job("reject", r)) ELSE UNCHANGED broker
  /\ Goto(p, "idle")
  /\ UNCHANGED <<op, cleanup, engine, faults>>

\* the transaction of cancel_rdp
CancelLock(p) ==
  LET r == Rdp(p) IN
  /\ pc[p] \in {"cancel_keep", "cancel_reject"}
  /\ IF Cancellable(r)
     THEN /\ status' = [status EXCEPT ![r] = "CANCELLED"]
          /\ IF pc[p] = "cancel_reject" /\ ~cleanup
             THEN Schedule(Job("reject", r)) ELSE UNCHANGED broker
     ELSE UNCHANGED <<status, broker>>
  /\ Goto(p, "idle")
  /\ UNCHANGED <<op, cleanup, engine, faults>>

CancelRefused(p) ==
  /\ pc[p] = "cancel_refused"
  /\ Goto(p, "idle")
  /\ UNCHANGED <<rows, broker, engine, faults>>

\* create_clean_rdp up to its transaction: _clean_rdp_check and the selection
CleanBegin(p, r) ==
  /\ ~cleanup
  /\ status[r] = "REVIEW_PENDING"
  /\ op[r] = "SUCCESS"
  /\ de[r] = "deduplicated"
  /\ Begin(p, "clean_lock", Job("clean", r))
  /\ UNCHANGED <<rows, broker, engine, faults>>

\* Mutant of CleanLock: the operations of the clean RDP are scheduled at once.
CleanLockRunsAtOnce(p) ==
  LET r == Rdp(p) IN
  /\ pc[p] = "clean_lock"
  /\ \/ /\ ~cleanup /\ status[r] = "REVIEW_PENDING" /\ op[r] = "SUCCESS"
        /\ \E c \in Rdps :
             /\ Insertable(c, {r})
             /\ status' = [status EXCEPT ![r] = "CANCELLED", ![c] = "PENDING"]
             /\ jobs' = jobs \cup {Rejection(r, c), Job("run", c)}
             /\ queue' = queue \cup {Rejection(r, c), Job("run", c)}
     \/ UNCHANGED <<status, broker>>
  /\ Goto(p, "idle")
  /\ UNCHANGED <<op, cleanup, engine, faults>>

\* the transaction of create_clean_rdp, or its refusal: a changed selection, a failed
\* preflight
CleanLock(p) ==
  LET r == Rdp(p) IN
  /\ pc[p] = "clean_lock"
  /\ \/ /\ ~cleanup /\ status[r] = "REVIEW_PENDING" /\ op[r] = "SUCCESS"
        /\ \E c \in Rdps :
             /\ Insertable(c, {r})
             /\ status' = [status EXCEPT ![r] = "CANCELLED", ![c] = "PENDING"]
             /\ Schedule(Rejection(r, c))
     \/ UNCHANGED <<status, broker>>
  /\ Goto(p, "idle")
  /\ UNCHANGED <<op, cleanup, engine, faults>>

\* clean_program sets the flag
CleanProgram ==
  /\ ~cleanup
  /\ \A r \in Rdps : status[r] # "PUSH_PENDING"
  /\ cleanup' = TRUE
  /\ UNCHANGED <<status, op, broker, pc, job, engine, faults>>

-----------------------------------------------------------------------------
(* The push, as RdpStatus has it.                                          *)

\* claim_review_rdp_push and retry_rdp_push
StartPush(r) ==
  /\ ~cleanup
  /\ \/ status[r] = "REVIEW_PENDING"
     \/ status[r] = "FAILURE" /\ op[r] = "SUCCESS"
  /\ status' = [status EXCEPT ![r] = "PUSH_PENDING"]
  /\ UNCHANGED <<op, cleanup, broker, pc, job, engine, faults>>

FailPush(r) ==
  /\ status[r] = "PUSH_PENDING"
  /\ status' = [status EXCEPT ![r] = "FAILURE"]
  /\ UNCHANGED <<op, cleanup, broker, pc, job, engine, faults>>

\* _finish_successful_push; the set is approved after the commit
FinishPush(p, r) ==
  /\ status[r] = "PUSH_PENDING"
  /\ status' = [status EXCEPT ![r] = "SUCCESS"]
  /\ Begin(p, "approve", Job("push", r))
  /\ UNCHANGED <<op, cleanup, broker, engine, faults>>

-----------------------------------------------------------------------------
(* Jobs.                                                                   *)

FirstStep == [run |-> "run_claim", evaluate |-> "evaluate", reject |-> "reject_check"]

\* sync_job_task starts a delivered job
Take(p, j) ==
  /\ j \in queue
  /\ queue' = queue \ {j}
  /\ Begin(p, FirstStep[j.kind], j)
  /\ UNCHANGED <<rows, jobs, engine, faults>>

\* Mutant of Claim: the status of the RDP is not looked at.
ClaimAnyRdp(p) ==
  LET r == Rdp(p) IN
  /\ pc[p] = "run_claim"
  /\ IF op[r] \in {"PENDING", "FAILURE"}
     THEN op' = [op EXCEPT ![r] = "RUNNING"] /\ Goto(p, "run_state")
     ELSE UNCHANGED op /\ Goto(p, "idle")
  /\ UNCHANGED <<status, cleanup, broker, engine, faults>>

\* claim_rdp_operation
Claim(p) ==
  LET r == Rdp(p) IN
  /\ pc[p] = "run_claim"
  /\ IF status[r] = "PENDING" /\ op[r] \in {"PENDING", "FAILURE"}
     THEN op' = [op EXCEPT ![r] = "RUNNING"] /\ Goto(p, "run_state")
     ELSE UNCHANGED op /\ Goto(p, "idle")
  /\ UNCHANGED <<status, cleanup, broker, engine, faults>>

\* Mutant of RunState: a finished set is waited for.
RunStateWaits(p) ==
  /\ pc[p] = "run_state"
  /\ Goto(p, CASE de[Rdp(p)] = "none"                          -> "run_create"
               [] de[Rdp(p)] = "uploading"                     -> "run_upload"
               [] de[Rdp(p)] \in {"processing", "deduplicated"} -> "idle"
               [] de[Rdp(p)] \in Processable                   -> "run_process"
               [] OTHER                                        -> "run_fail")
  /\ UNCHANGED <<rows, broker, engine, faults>>

\* run_biometric_deduplication resumes the set from the state it is in
RunState(p) ==
  /\ pc[p] = "run_state"
  /\ Goto(p, CASE de[Rdp(p)] = "none"         -> "run_create"
               [] de[Rdp(p)] = "uploading"    -> "run_upload"
               [] de[Rdp(p)] = "deduplicated" -> "sync_read"
               [] de[Rdp(p)] = "processing"   -> "idle"
               [] de[Rdp(p)] \in Processable  -> "run_process"
               [] OTHER                       -> "run_fail")
  /\ UNCHANGED <<rows, broker, engine, faults>>

\* the creation of the set: its id is new, and one set of the group may be open
RunCreate(p) ==
  /\ pc[p] = "run_create"
  /\ IF de[Rdp(p)] = "none" /\ \A r \in Rdps : de[r] \in NonBlocking
     THEN SetState(Rdp(p), "uploading") /\ Goto(p, "run_upload")
     ELSE Goto(p, "run_fail") /\ UNCHANGED engine
  /\ UNCHANGED <<rows, broker, faults>>

\* upload_images
RunUpload(p) ==
  /\ pc[p] = "run_upload"
  /\ Goto(p, IF de[Rdp(p)] = "uploading" THEN "run_ready" ELSE "run_fail")
  /\ UNCHANGED <<rows, broker, engine, faults>>

RunReady(p) ==
  /\ pc[p] = "run_ready"
  /\ IF de[Rdp(p)] = "uploading"
     THEN SetState(Rdp(p), "ready") /\ Goto(p, "run_process")
     ELSE Goto(p, "run_fail") /\ UNCHANGED engine
  /\ UNCHANGED <<rows, broker, faults>>

\* client.process: the answer arrives, or is lost
RunProcess(p) ==
  /\ pc[p] = "run_process"
  /\ IF de[Rdp(p)] \in Processable
     THEN /\ SetState(Rdp(p), "processing")
          /\ \/ Goto(p, "idle") /\ UNCHANGED faults
             \/ Goto(p, "run_fail") /\ faults < MaxFaults /\ faults' = faults + 1
     ELSE Goto(p, "run_fail") /\ UNCHANGED <<engine, faults>>
  /\ UNCHANGED <<rows, broker>>

\* fail_rdp_operation
FailOperation(r) ==
  op' = IF op[r] = "RUNNING" THEN [op EXCEPT ![r] = "FAILURE"] ELSE op

\* the except clause of run_rdp_operation_core, and the failures sync reports
Fail(p) ==
  /\ pc[p] \in {"run_fail", "sync_fail"}
  /\ FailOperation(Rdp(p))
  /\ Goto(p, "idle")
  /\ UNCHANGED <<status, cleanup, broker, engine, faults>>

\* A call of the runner raises: no image, an error answer, DedupEngine unavailable.
Raise(p) ==
  /\ pc[p] \in RunSteps \ {"run_claim", "run_fail"}
  /\ Goto(p, "run_fail")
  /\ UNCHANGED <<rows, broker, engine, faults>>

\* evaluate_rdp_for_push: review when the findings exceed the threshold
Evaluate(p) ==
  LET r == Rdp(p) IN
  /\ pc[p] = "evaluate"
  /\ IF status[r] = "PENDING" /\ ~cleanup /\ op[r] = "SUCCESS"
     THEN \E s \in {"REVIEW_PENDING", "PUSH_PENDING"} : status' = [status EXCEPT ![r] = s]
     ELSE UNCHANGED status
  /\ Goto(p, "idle")
  /\ UNCHANGED <<op, cleanup, broker, engine, faults>>

\* reject_cancelled_rdp_set_core
RejectCheck(p) ==
  /\ pc[p] = "reject_check"
  /\ Goto(p, IF status[Rdp(p)] = "CANCELLED" THEN "reject_state" ELSE "idle")
  /\ UNCHANGED <<rows, broker, engine, faults>>

RejectState(p) ==
  /\ pc[p] = "reject_state"
  /\ Goto(p, CASE de[Rdp(p)] = "deduplicated"         -> "reject_call"
               [] de[Rdp(p)] \in {"none", "rejected"} -> "reject_next"
               [] OTHER                               -> "idle")
  /\ UNCHANGED <<rows, broker, engine, faults>>

\* reject_deduplication_set: the answer arrives, or is lost and the job fails
RejectCall(p) ==
  /\ pc[p] = "reject_call"
  /\ IF de[Rdp(p)] = "deduplicated"
     THEN /\ SetState(Rdp(p), "rejected")
          /\ \/ Goto(p, "reject_next") /\ UNCHANGED faults
             \/ Goto(p, "idle") /\ faults < MaxFaults /\ faults' = faults + 1
     ELSE Goto(p, "idle") /\ UNCHANGED <<engine, faults>>
  /\ UNCHANGED <<rows, broker>>

\* Mutant of RejectNext: it is not asked whether there is a clean replacement.
RejectNextAlways(p) ==
  LET c == job[p].clean IN
  /\ pc[p] = "reject_next"
  /\ IF ~cleanup THEN Schedule(Job("run", c)) ELSE UNCHANGED broker
  /\ Goto(p, "idle")
  /\ UNCHANGED <<rows, engine, faults>>

\* the clean replacement starts, if there is one and it still waits
RejectNext(p) ==
  LET c == job[p].clean IN
  /\ pc[p] = "reject_next"
  /\ IF c # NoRdp /\ ~cleanup /\ status[c] = "PENDING"
     THEN Schedule(Job("run", c)) ELSE UNCHANGED broker
  /\ Goto(p, "idle")
  /\ UNCHANGED <<rows, engine, faults>>

\* approve_deduplication_set_after_successful_push: an error is logged only
Approve(p) ==
  /\ pc[p] = "approve"
  /\ \/ /\ de[Rdp(p)] = "deduplicated" /\ SetState(Rdp(p), "approved") /\ UNCHANGED faults
     \/ /\ faults < MaxFaults /\ faults' = faults + 1 /\ UNCHANGED engine
  /\ Goto(p, "idle")
  /\ UNCHANGED <<rows, broker>>

-----------------------------------------------------------------------------
(* sync_biometric_deduplication_result, in a callback or called by the runner. *)

\* DedupEngine calls back
Callback(p, r) ==
  /\ r \in notify
  /\ notify' = notify \ {r}
  /\ Begin(p, "sync_read", Job("sync", r))
  /\ UNCHANGED <<rows, broker, de, faults>>

\* get_rdp_operation, not locked
SyncRead(p) ==
  /\ pc[p] = "sync_read"
  /\ Goto(p, IF op[Rdp(p)] = "RUNNING" THEN "sync_state" ELSE "idle")
  /\ UNCHANGED <<rows, broker, engine, faults>>

\* Mutant of SyncState: the set need not be deduplicated.
SyncStateUnfinished(p) ==
  /\ pc[p] = "sync_state"
  /\ Goto(p, IF de[Rdp(p)] \in {"none", "failed"} THEN "sync_fail" ELSE "sync_complete")
  /\ UNCHANGED <<rows, broker, engine, faults>>

\* The state of the set, and its findings.  A call that fails, system errors among the
\* findings or a wrong count of them fail the operation.
SyncState(p) ==
  /\ pc[p] = "sync_state"
  /\ \/ Goto(p, "sync_fail")
     \/ de[Rdp(p)] = "deduplicated" /\ Goto(p, "sync_complete")
     \/ de[Rdp(p)] \notin {"none", "failed", "deduplicated"} /\ Goto(p, "idle")
  /\ UNCHANGED <<rows, broker, engine, faults>>

\* complete_rdp_operation: one transaction, or an exception
SyncComplete(p) ==
  LET r == Rdp(p) IN
  /\ pc[p] = "sync_complete"
  /\ \/ /\ IF op[r] = "RUNNING"
           THEN /\ op' = [op EXCEPT ![r] = "SUCCESS"]
                /\ IF cleanup THEN UNCHANGED broker ELSE Schedule(Job("evaluate", r))
           ELSE UNCHANGED <<op, broker>>
        /\ Goto(p, "idle")
     \/ Goto(p, "sync_fail") /\ UNCHANGED <<op, broker>>
  /\ UNCHANGED <<status, cleanup, engine, faults>>

-----------------------------------------------------------------------------
(* DedupEngine (external) and faults.                                      *)

\* A processed set ends in a result or in a failure.
EngineStep(r) ==
  /\ de[r] = "processing"
  /\ \E s \in {"failed", "deduplicated"} : SetState(r, s)
  /\ UNCHANGED <<rows, broker, pc, job, faults>>

Fault ==
  /\ faults < MaxFaults
  /\ faults' = faults + 1
  /\ UNCHANGED rows

LoseCallback ==
  /\ Fault
  /\ \E r \in notify : notify' = notify \ {r}
  /\ UNCHANGED <<broker, pc, job, de>>

RepeatCallback ==
  /\ Fault
  /\ \E r \in Rdps : de[r] # "none" /\ notify' = notify \cup {r}
  /\ UNCHANGED <<broker, pc, job, de>>

\* A process dies, or an error ends a request or a job that handles none.  The job of a
\* dead worker may come back.
Crash(p) ==
  /\ pc[p] # "idle"
  /\ Fault
  /\ Goto(p, "idle")
  /\ \/ UNCHANGED queue
     \/ job[p] \in jobs /\ queue' = queue \cup {job[p]}
  /\ UNCHANGED <<jobs, engine>>

\* A job is delivered once more: by the broker, or because staff queue it again.
Requeue ==
  /\ Fault
  /\ \E j \in jobs : queue' = queue \cup {j}
  /\ UNCHANGED <<jobs, pc, job, engine>>

Run(p) ==
  \/ CancelState(p) \/ CancelLock(p) \/ CancelRefused(p) \/ CleanLock(p)
  \/ Claim(p) \/ RunState(p) \/ RunCreate(p) \/ RunUpload(p) \/ RunReady(p)
  \/ RunProcess(p) \/ Raise(p) \/ Fail(p) \/ Evaluate(p)
  \/ RejectCheck(p) \/ RejectState(p) \/ RejectCall(p) \/ RejectNext(p) \/ Approve(p)
  \/ SyncRead(p) \/ SyncState(p) \/ SyncComplete(p)

Users(r) ==
  \/ CreateRdp(r) \/ RetryOperation(r) \/ StartPush(r) \/ FailPush(r)
  \/ \E p \in Procs : CancelBegin(p, r) \/ CleanBegin(p, r) \/ FinishPush(p, r)

Next ==
  \/ \E r \in Rdps : Users(r) \/ EngineStep(r) \/ (\E p \in Procs : Callback(p, r))
  \/ \E p \in Procs : Run(p) \/ Crash(p) \/ (\E j \in queue : Take(p, j))
  \/ CleanProgram \/ LoseCallback \/ RepeatCallback \/ Requeue

Spec == Init /\ [][Next]_vars

\* Some process takes a job of kind k of r (the fairness of the jobs is about this).
TakeSome(r, k) == \E p \in Procs, j \in queue : j.rdp = r /\ j.kind = k /\ Take(p, j)

-----------------------------------------------------------------------------
(* Properties.                                                             *)

\* Every variable keeps its type.
TypeOK ==
  /\ status \in [Rdps -> Statuses]
  /\ op \in [Rdps -> OpStatuses]
  /\ cleanup \in BOOLEAN
  /\ jobs \subseteq Jobs /\ queue \subseteq jobs
  /\ pc \in [Procs -> Steps]
  /\ job \in [Procs -> Jobs \cup {NoJob}]
  /\ \A p \in Procs : pc[p] = "idle" <=> job[p] = NoJob
  /\ de \in [Rdps -> SetStates]
  /\ notify \subseteq Rdps
  /\ faults \in 0..MaxFaults

\* An operation runs only for a pending RDP: claiming looks at the RDP, cancelling and
\* evaluating look at the operation.
RunningIsPending == \A r \in Rdps : op[r] = "RUNNING" => status[r] = "PENDING"

\* Review and push rest on a result that DedupEngine still holds: no late, repeated or
\* stale synchronisation, retry, cancellation or rejection takes it away.
ResultBehindPush ==
  \A r \in Rdps : status[r] \in {"REVIEW_PENDING", "PUSH_PENDING", "FAILURE", "SUCCESS"} =>
    op[r] = "SUCCESS" /\ de[r] \in {"deduplicated", "approved"}

\* A clean replacement starts only when the set it would collide with is released.
CleanAfterRelease ==
  \A j \in jobs : j.kind = "reject" /\ j.clean \in Rdps /\ op[j.clean] # "PENDING" =>
    de[j.rdp] \in NonBlocking

\* Of a cancelled RDP, no operation starts or ends any more.
CancelledIsFrozen ==
  [][\A r \in Rdps : status[r] = "CANCELLED" => status'[r] = "CANCELLED" /\ op'[r] = op[r]]_vars

\* An operation runs.  It ends: no state change of the set escapes both the runner, which
\* reads the state after it claimed, and the callback, which reads the operation after
\* the state changed.
Running(r) == op[r] = "RUNNING"

\* A pending RDP waits.  It moves on by itself, unless its operation failed and waits
\* for a user.
Waiting(r) == status[r] = "PENDING" /\ op[r] # "FAILURE" /\ ~cleanup

\* A clean replacement c waits for the set of r.  It starts once that set is rejected.
Replacing(r, c) ==
  Rejection(r, c) \in jobs /\ op[c] = "PENDING" /\ status[c] = "PENDING" /\ ~cleanup

\* docs/src/rdp/operations/deduplication.md: the operation remains RUNNING while
\* DedupEngine processes the set.
RunningWhileProcessing == \A r \in Rdps : de[r] = "processing" => op[r] = "RUNNING"

\* docs/src/rdp/lifecycle.md: cancellation is blocked only while an operation is RUNNING.
RefusedOnlyWhileRunning ==
  \A p \in Procs : pc[p] = "cancel_refused" => op[Rdp(p)] = "RUNNING"

\* docs/src/rdp/lifecycle.md: for a cancelled RDP the cleanup of its set is scheduled
\* when required, that is, when the set blocks the group.
CancelledSetReleased ==
  \A r \in Rdps : status[r] = "CANCELLED" /\ de[r] \notin NonBlocking =>
    cleanup \/ \E j \in jobs : j.kind = "reject" /\ j.rdp = r
=============================================================================
