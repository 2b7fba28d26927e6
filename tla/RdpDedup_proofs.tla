-------------------------- MODULE RdpDedup_proofs --------------------------
(***************************************************************************)
(* Theorems about RdpDedup, for every number of RDPs, processes and        *)
(* faults.                                                                 *)
(*                                                                         *)
(* RunningIsPending carries itself.  The others need to know what the jobs *)
(* and processes under way rely on: a rejection on a cancelled RDP, a      *)
(* completion on a finished set, a clean replacement on its rejection job. *)
(***************************************************************************)
EXTENDS RdpDedup, TLAPS

Finished == {"deduplicated", "approved", "rejected"}
Pushed   == {"REVIEW_PENDING", "PUSH_PENDING", "FAILURE", "SUCCESS"}

\* What a process relies on: the job it was given, that the set it rejects is the one of
\* a cancelled RDP, that the result it stores is there.
ProcInv(p) ==
  /\ pc[p] \in RejectSteps => job[p] \in jobs
  /\ pc[p] = "run_claim" => Job("run", Rdp(p)) \in jobs
  /\ pc[p] \in RejectSteps \ {"reject_check"} => status[Rdp(p)] = "CANCELLED"
  /\ pc[p] = "reject_next" /\ job[p].clean \in Rdps => de[Rdp(p)] = "rejected"
  /\ pc[p] = "sync_complete" => de[Rdp(p)] \in Finished

\* The broker has jobs of three kinds; a clean replacement comes with rejections only.
KindInv ==
  \A j \in jobs : j.kind \in DOMAIN FirstStep /\ (j.kind # "reject" => j.clean = NoRdp)

\* A result is stored for a finished set, and nothing moves on without; only sets of
\* cancelled RDPs are rejected.
ResultInv ==
  \A r \in Rdps :
    /\ op[r] = "SUCCESS" => de[r] \in Finished
    /\ status[r] \in Pushed => op[r] = "SUCCESS"
    /\ de[r] = "rejected" => status[r] = "CANCELLED"

\* An RDP not yet created has no job and no operation under way.
FreshInv ==
  \A r \in Rdps : status[r] = "absent" =>
    /\ op[r] = "PENDING"
    /\ Job("run", r) \notin jobs
    /\ \A j \in jobs : j.clean # r

\* A clean replacement has one rejection job and waits for it.
CleanInv ==
  \A j \in jobs : j.clean \in Rdps =>
    /\ de[j.rdp] \in Finished
    /\ \A k \in jobs : k.clean = j.clean => k = j
    /\ op[j.clean] # "PENDING" \/ Job("run", j.clean) \in jobs => de[j.rdp] # "deduplicated"

IInv ==
  /\ TypeOK
  /\ RunningIsPending
  /\ \A p \in Procs : ProcInv(p)
  /\ KindInv
  /\ ResultInv
  /\ FreshInv
  /\ CleanInv

\* No step takes back what the processes rely on.
Monotone ==
  /\ jobs \subseteq jobs'
  /\ \A r \in Rdps :
       /\ status[r] = "CANCELLED" => status'[r] = "CANCELLED"
       /\ de[r] \in Finished => de'[r] \in Finished
       /\ de[r] = "rejected" => de'[r] = "rejected"

-----------------------------------------------------------------------------
(* Helpers.                                                                *)

\* Initially there is no RDP, no job and no set.
LEMMA InitIInv == Init => IInv
<1> SUFFICES ASSUME Init PROVE IInv
  OBVIOUS
<1>1. TypeOK
  <2>1. faults \in 0..MaxFaults
    BY ConstantsAssumption DEF Init
  <2>2. status \in [Rdps -> Statuses] /\ op \in [Rdps -> OpStatuses] /\ de \in [Rdps -> SetStates]
    BY DEF Init, Statuses, OpStatuses, SetStates
  <2>3. pc \in [Procs -> Steps] /\ job \in [Procs -> Jobs \cup {NoJob}]
    BY DEF Init, Steps
  <2>4. QED
    BY <2>1, <2>2, <2>3 DEF TypeOK, Init
<1>2. RunningIsPending /\ KindInv /\ ResultInv /\ FreshInv /\ CleanInv
  BY DEF Init, RunningIsPending, KindInv, ResultInv, FreshInv, CleanInv, Pushed
<1>3. \A p \in Procs : ProcInv(p)
  BY DEF Init, ProcInv, RejectSteps
<1>4. QED
  BY <1>1, <1>2, <1>3 DEF IInv

\* "No job" is not a job.
LEMMA NoJobIsNone == NoJob \notin Jobs
BY DEF NoJob, Jobs, Kinds

\* A process goes on with its job, or is done with it; the others stay where they are.
LEMMA GotoEffect ==
  ASSUME TypeOK, NEW p \in Procs, NEW s \in Steps, Goto(p, s), pc[p] # "idle"
  PROVE  /\ pc' \in [Procs -> Steps]
         /\ job' \in [Procs -> Jobs \cup {NoJob}]
         /\ \A q \in Procs : pc'[q] = "idle" <=> job'[q] = NoJob
         /\ pc'[p] = s
         /\ s # "idle" => job' = job
         /\ \A q \in Procs \ {p} : pc'[q] = pc[q] /\ job'[q] = job[q]
BY DEF TypeOK, Goto

\* An idle process begins to work on a job; the others stay where they are.
LEMMA BeginEffect ==
  ASSUME TypeOK, NEW p \in Procs, NEW s \in Steps \ {"idle"}, NEW j \in Jobs, Begin(p, s, j)
  PROVE  /\ pc' \in [Procs -> Steps]
         /\ job' \in [Procs -> Jobs \cup {NoJob}]
         /\ \A q \in Procs : pc'[q] = "idle" <=> job'[q] = NoJob
         /\ pc[p] = "idle" /\ pc'[p] = s /\ job'[p] = j
         /\ \A q \in Procs \ {p} : pc'[q] = pc[q] /\ job'[q] = job[q]
BY NoJobIsNone DEF TypeOK, Begin

\* A process that does not move keeps what it relies on.
LEMMA OthersKeep ==
  ASSUME TypeOK, Monotone, NEW q \in Procs, ProcInv(q), pc'[q] = pc[q], job'[q] = job[q]
  PROVE  ProcInv(q)'
<1>1. pc[q] # "idle" => Rdp(q) \in Rdps
  BY DEF TypeOK, Jobs, NoJob, Rdp
<1>2. Rdp(q)' = Rdp(q)
  BY DEF Rdp
<1>3. QED
  BY <1>1, <1>2, Zenon DEF Monotone, ProcInv, RejectSteps

\* When only the process changes, only it has to be looked at.
LEMMA MoveKeeps ==
  ASSUME IInv, NEW p \in Procs, NEW s \in Steps, Goto(p, s), pc[p] # "idle", ProcInv(p)',
         UNCHANGED <<rows, jobs, de>>, queue' \subseteq jobs, notify' \subseteq Rdps,
         faults' \in 0..MaxFaults
  PROVE  IInv'
<1> USE DEF rows
<1>1. TypeOK'
  BY GotoEffect DEF IInv, TypeOK
<1>2. Monotone
  BY DEF Monotone
<1>3. \A q \in Procs : ProcInv(q)'
  BY <1>2, GotoEffect, OthersKeep DEF IInv
<1>4. (RunningIsPending /\ KindInv /\ ResultInv /\ FreshInv /\ CleanInv)'
  BY DEF IInv, RunningIsPending, KindInv, ResultInv, FreshInv, CleanInv, Job
<1>5. QED
  BY <1>1, <1>3, <1>4 DEF IInv

\* The same of a process that begins to work on a job.
LEMMA BeginKeeps ==
  ASSUME IInv, NEW p \in Procs, NEW s \in Steps \ {"idle"}, NEW j \in Jobs, Begin(p, s, j),
         ProcInv(p)', UNCHANGED <<rows, jobs, de>>, queue' \subseteq jobs,
         notify' \subseteq Rdps, faults' \in 0..MaxFaults
  PROVE  IInv'
<1> USE DEF rows
<1>1. TypeOK'
  BY BeginEffect DEF IInv, TypeOK
<1>2. Monotone
  BY DEF Monotone
<1>3. \A q \in Procs : ProcInv(q)'
  BY <1>2, BeginEffect, OthersKeep DEF IInv
<1>4. (RunningIsPending /\ KindInv /\ ResultInv /\ FreshInv /\ CleanInv)'
  BY DEF IInv, RunningIsPending, KindInv, ResultInv, FreshInv, CleanInv, Job
<1>5. QED
  BY <1>1, <1>3, <1>4 DEF IInv

-----------------------------------------------------------------------------
(* Steps that only move a process.                                         *)

\* Processes go on as they read.
LEMMA MovePreserves ==
  ASSUME IInv, NEW p \in Procs,
         \/ CancelState(p) \/ CancelRefused(p) \/ RunState(p) \/ RunUpload(p) \/ Raise(p)
         \/ RejectCheck(p) \/ RejectState(p) \/ SyncRead(p) \/ SyncState(p)
  PROVE  IInv'
<1> DEFINE Same == UNCHANGED <<rows, broker, engine, faults>>
<1> USE DEF Steps, RunSteps, SyncSteps, RejectSteps, UserSteps
<1>1. ASSUME NEW s \in Steps, Goto(p, s), pc[p] # "idle", Same, ProcInv(p)'
      PROVE  IInv'
  BY <1>1, MoveKeeps DEF IInv, TypeOK, rows, broker, engine
<1>2. ASSUME NEW s \in Steps \ (RejectSteps \cup {"run_claim", "sync_complete"}),
             Goto(p, s), pc[p] # "idle", Same
      PROVE  IInv'
  <2>1. ProcInv(p)'
    BY <1>2, GotoEffect DEF IInv, ProcInv
  <2>2. QED
    BY <1>2, <2>1, <1>1
<1>3. CASE CancelState(p)
  BY <1>2, <1>3 DEF CancelState
<1>4. CASE CancelRefused(p)
  BY <1>2, <1>4 DEF CancelRefused
<1>5. CASE RunState(p)
  BY <1>2, <1>5 DEF RunState
<1>6. CASE RunUpload(p)
  BY <1>2, <1>6 DEF RunUpload
<1>7. CASE Raise(p)
  BY <1>2, <1>7 DEF Raise
<1>8. CASE RejectCheck(p)
  <2>1. pc[p] = "reject_check" /\ Same
    BY <1>8 DEF RejectCheck
  <2>2. CASE Goto(p, "reject_state") /\ status[Rdp(p)] = "CANCELLED"
    <3>1. pc'[p] = "reject_state" /\ job' = job
      BY <2>1, <2>2, GotoEffect DEF IInv
    <3>2. ProcInv(p)'
      BY <2>1, <2>2, <3>1 DEF IInv, ProcInv, Rdp, rows, broker
    <3>3. QED
      BY <2>1, <2>2, <3>2, <1>1
  <2>3. CASE Goto(p, "idle")
    BY <2>1, <2>3, <1>2
  <2>4. QED
    BY <1>8, <2>2, <2>3 DEF RejectCheck
<1>9. CASE RejectState(p)
  <2>1. pc[p] = "reject_state" /\ Same
    BY <1>9 DEF RejectState
  <2>2. CASE Goto(p, "reject_call")
    <3>1. pc'[p] = "reject_call" /\ job' = job
      BY <2>1, <2>2, GotoEffect DEF IInv
    <3>2. ProcInv(p)'
      BY <2>1, <3>1 DEF IInv, ProcInv, Rdp, rows, broker
    <3>3. QED
      BY <2>1, <2>2, <3>2, <1>1
  <2>3. CASE Goto(p, "reject_next") /\ de[Rdp(p)] \in {"none", "rejected"}
    <3>1. pc'[p] = "reject_next" /\ job' = job /\ job[p] \in jobs
      BY <2>1, <2>3, GotoEffect DEF IInv, ProcInv
    <3>2. job[p].clean \in Rdps => de[Rdp(p)] = "rejected"
      BY <2>3, <3>1 DEF IInv, CleanInv, Finished, Rdp
    <3>3. ProcInv(p)'
      BY <2>1, <3>1, <3>2 DEF IInv, ProcInv, Rdp, rows, broker, engine
    <3>4. QED
      BY <2>1, <2>3, <3>3, <1>1
  <2>4. CASE Goto(p, "idle")
    BY <2>1, <2>4, <1>2
  <2>5. QED
    BY <1>9, <2>2, <2>3, <2>4 DEF RejectState
<1>10. CASE SyncRead(p)
  BY <1>2, <1>10 DEF SyncRead
<1>11. CASE SyncState(p)
  <2>1. pc[p] = "sync_state" /\ Same
    BY <1>11 DEF SyncState
  <2>2. CASE Goto(p, "sync_complete") /\ de[Rdp(p)] = "deduplicated"
    <3>1. pc'[p] = "sync_complete" /\ job' = job
      BY <2>1, <2>2, GotoEffect DEF IInv
    <3>2. ProcInv(p)'
      BY <2>1, <2>2, <3>1 DEF IInv, ProcInv, Finished, Rdp, engine
    <3>3. QED
      BY <2>1, <2>2, <3>2, <1>1
  <2>3. CASE Goto(p, "sync_fail") \/ Goto(p, "idle")
    BY <2>1, <2>3, <1>2
  <2>4. QED
    BY <1>11, <2>2, <2>3 DEF SyncState
<1>12. QED
  BY <1>3, <1>4, <1>5, <1>6, <1>7, <1>8, <1>9, <1>10, <1>11

\* A process begins with what the rows, the broker or DedupEngine show it.
LEMMA BeginPreserves ==
  ASSUME IInv, NEW p \in Procs,
         \/ \E r \in Rdps : CancelBegin(p, r) \/ CleanBegin(p, r) \/ Callback(p, r)
         \/ \E j \in queue : Take(p, j)
  PROVE  IInv'
<1> DEFINE Harmless == {"cancel_keep", "cancel_state", "clean_lock", "sync_read"}
<1> USE DEF Steps, RunSteps, SyncSteps, RejectSteps, UserSteps
<1>1. ASSUME NEW s \in Harmless, NEW j \in Jobs, Begin(p, s, j),
             UNCHANGED <<rows, broker, de, faults>>, notify' \subseteq notify
      PROVE  IInv'
  <2>1. ProcInv(p)'
    BY <1>1, BeginEffect DEF IInv, ProcInv
  <2>2. QED
    BY <1>1, <2>1, BeginKeeps DEF IInv, TypeOK, rows, broker
<1>2. ASSUME NEW r \in Rdps
      PROVE  \A k \in {"cancel", "clean", "sync"} : Job(k, r) \in Jobs
  BY <1>2 DEF Job, Jobs, Kinds
<1>3. ASSUME NEW r \in Rdps, CancelBegin(p, r)
      PROVE  IInv'
  BY <1>1, <1>2, <1>3 DEF CancelBegin, engine, broker
<1>4. ASSUME NEW r \in Rdps, CleanBegin(p, r)
      PROVE  IInv'
  BY <1>1, <1>2, <1>4 DEF CleanBegin, engine, broker
<1>5. ASSUME NEW r \in Rdps, Callback(p, r)
      PROVE  IInv'
  BY <1>1, <1>2, <1>5 DEF Callback, broker
<1>6. ASSUME NEW j \in queue, Take(p, j)
      PROVE  IInv'
  <2>1. j \in jobs /\ j \in Jobs /\ j.kind \in {"run", "evaluate", "reject"}
    BY DEF IInv, TypeOK, KindInv, FirstStep
  <2>2. FirstStep[j.kind] = CASE j.kind = "run"      -> "run_claim"
                              [] j.kind = "evaluate" -> "evaluate"
                              [] j.kind = "reject"   -> "reject_check"
    BY <2>1 DEF FirstStep
  <2>3. FirstStep[j.kind] \in Steps \ {"idle"}
    BY <2>1, <2>2
  <2>4. j.kind = "run" => j = Job("run", j.rdp)
    BY <2>1 DEF IInv, KindInv, Job, Jobs
  <2>5. pc'[p] = FirstStep[j.kind] /\ job'[p] = j /\ jobs' = jobs
    BY <1>6, <2>1, <2>3, BeginEffect DEF Take, IInv
  <2>6. ProcInv(p)'
    BY <2>1, <2>2, <2>4, <2>5 DEF ProcInv, Rdp
  <2>7. QED
    BY <1>6, <2>1, <2>3, <2>6, BeginKeeps DEF Take, IInv, TypeOK, rows, engine
<1>7. QED
  BY <1>3, <1>4, <1>5, <1>6

-----------------------------------------------------------------------------
(* Steps that change what processes rely on.                               *)

\* As long as nothing they rely on is taken back, all processes go on as they may.
LEMMA ProcsKeep ==
  ASSUME IInv, Monotone,
         \/ UNCHANGED <<pc, job>>
         \/ \E p \in Procs, s \in Steps \ (RejectSteps \cup {"run_claim", "sync_complete"}) :
              pc[p] # "idle" /\ Goto(p, s)
  PROVE  /\ pc' \in [Procs -> Steps]
         /\ job' \in [Procs -> Jobs \cup {NoJob}]
         /\ \A q \in Procs : pc'[q] = "idle" <=> job'[q] = NoJob
         /\ \A q \in Procs : ProcInv(q)'
<1>1. CASE UNCHANGED <<pc, job>>
  BY <1>1, OthersKeep DEF IInv, TypeOK
<1>2. ASSUME NEW p \in Procs, pc[p] # "idle",
             NEW s \in Steps \ (RejectSteps \cup {"run_claim", "sync_complete"}), Goto(p, s)
      PROVE  /\ pc' \in [Procs -> Steps]
             /\ job' \in [Procs -> Jobs \cup {NoJob}]
             /\ \A q \in Procs : pc'[q] = "idle" <=> job'[q] = NoJob
             /\ \A q \in Procs : ProcInv(q)'
  <2>1. ProcInv(p)'
    BY <1>2, GotoEffect DEF IInv, ProcInv, RejectSteps
  <2>2. QED
    BY <1>2, <2>1, GotoEffect, OthersKeep DEF IInv
<1>3. QED
  BY <1>1, <1>2

\* The creation of an RDP, which nobody knows before.
LEMMA CreateRdpPreserves ==
  ASSUME IInv, NEW r \in Rdps, CreateRdp(r)
  PROVE  IInv'
<1> USE DEF IInv, CreateRdp, Schedule, Insertable, engine
<1>1. Job("run", r) \in Jobs /\ Job("run", r).clean = NoRdp /\ Job("run", r).kind = "run"
  BY DEF Job, Jobs, Kinds
<1>2. TypeOK'
  BY <1>1 DEF TypeOK, Statuses, NonTerminal
<1>3. Monotone
  BY DEF Monotone, TypeOK
<1>4. RunningIsPending'
  BY DEF RunningIsPending, TypeOK
<1>5. KindInv'
  BY <1>1 DEF KindInv, FirstStep
<1>6. ResultInv'
  BY DEF ResultInv, TypeOK, Pushed, FreshInv
<1>7. FreshInv'
  BY <1>1, ConstantsAssumption DEF FreshInv, TypeOK, Job
<1>8. CleanInv'
  BY <1>1, ConstantsAssumption DEF CleanInv, FreshInv, TypeOK, Job
<1>9. QED
  BY <1>2, <1>3, <1>4, <1>5, <1>6, <1>7, <1>8, ProcsKeep

\* The retry of a failed operation.
LEMMA RetryOperationPreserves ==
  ASSUME IInv, NEW r \in Rdps, RetryOperation(r)
  PROVE  IInv'
<1> USE DEF IInv, RetryOperation, Schedule, engine, rows
<1>1. Job("run", r) \in Jobs /\ Job("run", r).clean = NoRdp /\ Job("run", r).kind = "run"
  BY DEF Job, Jobs, Kinds
<1>2. TypeOK'
  BY <1>1 DEF TypeOK
<1>3. Monotone
  BY DEF Monotone
<1>4. RunningIsPending' /\ ResultInv'
  BY DEF RunningIsPending, ResultInv
<1>5. KindInv'
  BY <1>1 DEF KindInv, FirstStep
<1>6. FreshInv'
  BY <1>1, ConstantsAssumption DEF FreshInv, Job
<1>7. CleanInv'
  BY <1>1, ConstantsAssumption DEF CleanInv, Job
<1>8. QED
  BY <1>2, <1>3, <1>4, <1>5, <1>6, <1>7, ProcsKeep

\* Claiming an operation: it was scheduled, and its RDP is pending.
LEMMA ClaimPreserves ==
  ASSUME IInv, NEW p \in Procs, Claim(p)
  PROVE  IInv'
<1> DEFINE r == Rdp(p)
<1> USE DEF IInv, Claim, broker, engine
<1>1. r \in Rdps /\ Job("run", r) \in jobs /\ pc[p] # "idle"
  BY DEF ProcInv, TypeOK, NoJob, Jobs, Rdp
<1>2. {"run_state", "idle"} \subseteq Steps \ (RejectSteps \cup {"run_claim", "sync_complete"})
  BY DEF Steps, RunSteps, RejectSteps
<1>3. op' = op \/ (status[r] = "PENDING" /\ op' = [op EXCEPT ![r] = "RUNNING"])
  OBVIOUS
<1>4. Monotone
  BY DEF Monotone
<1>5. /\ pc' \in [Procs -> Steps]
      /\ job' \in [Procs -> Jobs \cup {NoJob}]
      /\ \A q \in Procs : pc'[q] = "idle" <=> job'[q] = NoJob
      /\ \A q \in Procs : ProcInv(q)'
  BY <1>1, <1>2, <1>4, ProcsKeep
<1>6. TypeOK'
  BY <1>1, <1>3, <1>5 DEF TypeOK, OpStatuses
<1>7. RunningIsPending'
  BY <1>1, <1>3 DEF RunningIsPending, TypeOK
<1>8. ResultInv' /\ KindInv'
  BY <1>1, <1>3 DEF ResultInv, KindInv, TypeOK, Pushed
<1>9. FreshInv'
  BY <1>1, <1>3 DEF FreshInv, TypeOK, Job
<1>10. CleanInv'
  BY <1>1, <1>3 DEF CleanInv, TypeOK, Job
<1>11. QED
  BY <1>5, <1>6, <1>7, <1>8, <1>9, <1>10

\* A failure ends a running operation.
LEMMA FailPreserves ==
  ASSUME IInv, NEW p \in Procs, Fail(p)
  PROVE  IInv'
<1> DEFINE r == Rdp(p)
<1> USE DEF IInv, Fail, broker, engine
<1>1. r \in Rdps /\ pc[p] # "idle"
  BY DEF TypeOK, NoJob, Jobs, Rdp
<1>2. "idle" \in Steps \ (RejectSteps \cup {"run_claim", "sync_complete"})
  BY DEF Steps, RejectSteps
<1>3. op' = op \/ (op[r] = "RUNNING" /\ op' = [op EXCEPT ![r] = "FAILURE"])
  BY DEF FailOperation
<1>4. Monotone
  BY DEF Monotone
<1>5. /\ pc' \in [Procs -> Steps]
      /\ job' \in [Procs -> Jobs \cup {NoJob}]
      /\ \A q \in Procs : pc'[q] = "idle" <=> job'[q] = NoJob
      /\ \A q \in Procs : ProcInv(q)'
  BY <1>1, <1>2, <1>4, ProcsKeep
<1>6. TypeOK'
  BY <1>1, <1>3, <1>5 DEF TypeOK, OpStatuses
<1>7. RunningIsPending' /\ ResultInv' /\ KindInv'
  BY <1>1, <1>3 DEF RunningIsPending, ResultInv, KindInv, TypeOK, Pushed
<1>8. FreshInv'
  BY <1>1, <1>3 DEF FreshInv, TypeOK, Job
<1>9. CleanInv'
  BY <1>1, <1>3 DEF CleanInv, TypeOK, Job
<1>10. QED
  BY <1>5, <1>6, <1>7, <1>8, <1>9

\* A completion finds the set finished, however long ago the runner or the callback
\* looked, and schedules the evaluation.
LEMMA SyncCompletePreserves ==
  ASSUME IInv, NEW p \in Procs, SyncComplete(p)
  PROVE  IInv'
<1> DEFINE r == Rdp(p)
<1> DEFINE e == Job("evaluate", r)
<1> USE DEF IInv, SyncComplete, Schedule, broker, engine
<1>1. r \in Rdps /\ pc[p] # "idle" /\ de[r] \in Finished
  BY DEF TypeOK, NoJob, Jobs, Rdp, ProcInv
<1>2. {"sync_fail", "idle"} \subseteq Steps \ (RejectSteps \cup {"run_claim", "sync_complete"})
  BY DEF Steps, SyncSteps, RejectSteps
<1>3. e \in Jobs /\ e.kind = "evaluate" /\ e.clean = NoRdp
  BY <1>1 DEF Job, Jobs, Kinds
<1>4. /\ op' = op \/ (op[r] = "RUNNING" /\ op' = [op EXCEPT ![r] = "SUCCESS"])
      /\ \/ UNCHANGED <<jobs, queue>>
         \/ jobs' = jobs \cup {e} /\ queue' = queue \cup {e}
  OBVIOUS
<1>5. Monotone
  BY <1>4 DEF Monotone
<1>6. /\ pc' \in [Procs -> Steps]
      /\ job' \in [Procs -> Jobs \cup {NoJob}]
      /\ \A q \in Procs : pc'[q] = "idle" <=> job'[q] = NoJob
      /\ \A q \in Procs : ProcInv(q)'
  BY <1>1, <1>2, <1>5, ProcsKeep
<1>7. TypeOK'
  BY <1>1, <1>3, <1>4, <1>6 DEF TypeOK, OpStatuses
<1>8. RunningIsPending' /\ ResultInv'
  BY <1>1, <1>4 DEF RunningIsPending, ResultInv, TypeOK, Pushed
<1>9. KindInv'
  BY <1>3, <1>4 DEF KindInv, FirstStep
<1>10. FreshInv'
  BY <1>1, <1>3, <1>4, ConstantsAssumption DEF FreshInv, TypeOK, Job
<1>11. CleanInv'
  BY <1>1, <1>3, <1>4, ConstantsAssumption DEF CleanInv, TypeOK, Job
<1>12. QED
  BY <1>6, <1>7, <1>8, <1>9, <1>10, <1>11

\* The evaluation moves an RDP on that has its result.
LEMMA EvaluatePreserves ==
  ASSUME IInv, NEW p \in Procs, Evaluate(p)
  PROVE  IInv'
<1> DEFINE r == Rdp(p)
<1> USE DEF IInv, Evaluate, broker, engine
<1>1. r \in Rdps /\ pc[p] # "idle"
  BY DEF TypeOK, NoJob, Jobs, Rdp
<1>2. "idle" \in Steps \ (RejectSteps \cup {"run_claim", "sync_complete"})
  BY DEF Steps, RejectSteps
<1>3. \/ status' = status
      \/ /\ status[r] = "PENDING" /\ op[r] = "SUCCESS"
         /\ \E s \in {"REVIEW_PENDING", "PUSH_PENDING"} : status' = [status EXCEPT ![r] = s]
  OBVIOUS
<1>4. Monotone
  BY <1>1, <1>3 DEF Monotone, TypeOK
<1>5. /\ pc' \in [Procs -> Steps]
      /\ job' \in [Procs -> Jobs \cup {NoJob}]
      /\ \A q \in Procs : pc'[q] = "idle" <=> job'[q] = NoJob
      /\ \A q \in Procs : ProcInv(q)'
  BY <1>1, <1>2, <1>4, ProcsKeep
<1>6. TypeOK'
  BY <1>1, <1>3, <1>5 DEF TypeOK, Statuses, NonTerminal
<1>7. RunningIsPending' /\ ResultInv' /\ KindInv'
  BY <1>1, <1>3 DEF RunningIsPending, ResultInv, KindInv, TypeOK, Pushed
<1>8. FreshInv' /\ CleanInv'
  BY <1>1, <1>3 DEF FreshInv, CleanInv, TypeOK, Job
<1>9. QED
  BY <1>5, <1>6, <1>7, <1>8

\* The cancellation looks again under the lock.
LEMMA CancelLockPreserves ==
  ASSUME IInv, NEW p \in Procs, CancelLock(p)
  PROVE  IInv'
<1> DEFINE r == Rdp(p)
<1> DEFINE j == Job("reject", r)
<1> USE DEF IInv, CancelLock, Schedule, broker, engine
<1>1. r \in Rdps /\ pc[p] # "idle"
  BY DEF TypeOK, NoJob, Jobs, Rdp
<1>2. "idle" \in Steps \ (RejectSteps \cup {"run_claim", "sync_complete"})
  BY DEF Steps, RejectSteps
<1>3. j \in Jobs /\ j.kind = "reject" /\ j.clean = NoRdp
  BY <1>1 DEF Job, Jobs, Kinds
<1>4. /\ status' = status \/ (Cancellable(r) /\ status' = [status EXCEPT ![r] = "CANCELLED"])
      /\ \/ UNCHANGED <<jobs, queue>>
         \/ jobs' = jobs \cup {j} /\ queue' = queue \cup {j}
  OBVIOUS
<1>5. Monotone
  BY <1>1, <1>4 DEF Monotone, TypeOK
<1>6. /\ pc' \in [Procs -> Steps]
      /\ job' \in [Procs -> Jobs \cup {NoJob}]
      /\ \A q \in Procs : pc'[q] = "idle" <=> job'[q] = NoJob
      /\ \A q \in Procs : ProcInv(q)'
  BY <1>1, <1>2, <1>5, ProcsKeep
<1>7. TypeOK'
  BY <1>1, <1>3, <1>4, <1>6 DEF TypeOK, Statuses
<1>8. RunningIsPending' /\ ResultInv'
  BY <1>1, <1>4 DEF RunningIsPending, ResultInv, TypeOK, Pushed, Cancellable
<1>9. KindInv'
  BY <1>3, <1>4 DEF KindInv, FirstStep
<1>10. FreshInv'
  BY <1>1, <1>3, <1>4, ConstantsAssumption DEF FreshInv, TypeOK, Job
<1>11. CleanInv'
  BY <1>1, <1>3, <1>4, ConstantsAssumption DEF CleanInv, TypeOK, Job
<1>12. QED
  BY <1>6, <1>7, <1>8, <1>9, <1>10, <1>11

\* The clean replacement is new: nobody but its rejection job knows it.
LEMMA CleanLockPreserves ==
  ASSUME IInv, NEW p \in Procs, CleanLock(p)
  PROVE  IInv'
<1> DEFINE r == Rdp(p)
<1> USE DEF IInv
<1>1. r \in Rdps /\ pc[p] # "idle" /\ Goto(p, "idle") /\ UNCHANGED <<op, cleanup, de, notify, faults>>
  BY DEF CleanLock, TypeOK, NoJob, Jobs, Rdp, engine
<1>2. "idle" \in Steps \ (RejectSteps \cup {"run_claim", "sync_complete"})
  BY DEF Steps, RejectSteps
<1>3. CASE UNCHANGED <<status, jobs, queue>>
  <2>1. UNCHANGED <<rows, jobs, de>> /\ queue' \subseteq jobs /\ notify' \subseteq Rdps
        /\ faults' \in 0..MaxFaults
    BY <1>1, <1>3 DEF TypeOK, rows
  <2>2. ProcInv(p)'
    BY <1>1, <1>2, GotoEffect DEF ProcInv, RejectSteps
  <2>3. QED
    BY <1>1, <1>2, <2>1, <2>2, MoveKeeps
<1>4. ASSUME NEW c \in Rdps, status[r] = "REVIEW_PENDING", op[r] = "SUCCESS",
             status[c] = "absent", status' = [status EXCEPT ![r] = "CANCELLED", ![c] = "PENDING"],
             jobs' = jobs \cup {Rejection(r, c)}, queue' = queue \cup {Rejection(r, c)}
      PROVE  IInv'
  <2> DEFINE j == Rejection(r, c)
  <2>1. /\ j \in Jobs /\ j.kind = "reject" /\ j.rdp = r /\ j.clean = c
        /\ \A s \in Rdps : j # Job("run", s)
    BY <1>1 DEF Rejection, Job, Jobs, Kinds
  <2>2. c # r
    BY <1>4
  <2>3. Monotone
    BY <1>1, <1>4 DEF Monotone, TypeOK
  <2>4. /\ pc' \in [Procs -> Steps]
        /\ job' \in [Procs -> Jobs \cup {NoJob}]
        /\ \A q \in Procs : pc'[q] = "idle" <=> job'[q] = NoJob
        /\ \A q \in Procs : ProcInv(q)'
    BY <1>1, <1>2, <2>3, ProcsKeep
  <2>5. TypeOK'
    BY <1>1, <1>4, <2>1, <2>4 DEF TypeOK, Statuses, NonTerminal
  <2>6. RunningIsPending' /\ ResultInv'
    BY <1>1, <1>4, <2>2 DEF RunningIsPending, ResultInv, FreshInv, TypeOK, Pushed
  <2>7. KindInv'
    BY <1>4, <2>1 DEF KindInv, FirstStep
  <2>8. FreshInv'
    BY <1>1, <1>4, <2>1, <2>2 DEF FreshInv, TypeOK, Job
  <2>9. CleanInv'
    <3>1. ASSUME NEW i \in jobs
          PROVE  i.clean # c
      BY <1>4, <3>1 DEF FreshInv
    <3>2. op[c] = "PENDING" /\ Job("run", c) \notin jobs /\ de[r] \in Finished
      BY <1>1, <1>4 DEF FreshInv, ResultInv
    <3>3. \A s \in Rdps : Job("run", s)' = Job("run", s)
      BY DEF Job
    <3>4. QED
      BY <1>1, <1>4, <2>1, <3>1, <3>2, <3>3 DEF CleanInv
  <2>10. QED
    BY <2>4, <2>5, <2>6, <2>7, <2>8, <2>9
<1>5. QED
  BY <1>3, <1>4 DEF CleanLock, Insertable, Schedule, broker

\* The flag, and the steps of a push that only change the status of its RDP.
LEMMA StatusPreserves ==
  ASSUME IInv,
         CleanProgram \/ \E r \in Rdps : StartPush(r) \/ FailPush(r)
  PROVE  IInv'
<1> USE DEF IInv, broker, engine
<1>1. /\ \/ status' = status
         \/ \E r \in Rdps, s \in {"PUSH_PENDING", "FAILURE"} :
              status[r] \in Pushed /\ status' = [status EXCEPT ![r] = s]
      /\ UNCHANGED <<op, jobs, queue, pc, job, de, notify, faults>> /\ cleanup' \in BOOLEAN
  BY Zenon DEF CleanProgram, StartPush, FailPush, Pushed, TypeOK
<1>2. Monotone
  BY <1>1 DEF Monotone, TypeOK, Pushed
<1>3. TypeOK'
  BY <1>1 DEF TypeOK, Statuses, NonTerminal
<1>4. RunningIsPending' /\ ResultInv' /\ KindInv'
  BY <1>1 DEF RunningIsPending, ResultInv, KindInv, TypeOK, Pushed
<1>5. FreshInv' /\ CleanInv'
  BY <1>1 DEF FreshInv, CleanInv, TypeOK, Pushed, Job
<1>6. QED
  BY <1>1, <1>2, <1>3, <1>4, <1>5, ProcsKeep

\* The push succeeds, and its set is to be approved.
LEMMA FinishPushPreserves ==
  ASSUME IInv, NEW p \in Procs, NEW r \in Rdps, FinishPush(p, r)
  PROVE  IInv'
<1> USE DEF IInv, FinishPush, broker, engine
<1>1. Job("push", r) \in Jobs /\ "approve" \in Steps \ {"idle"}
  BY DEF Job, Jobs, Kinds, Steps
<1>2. Monotone
  BY DEF Monotone, TypeOK
<1>3. ProcInv(p)'
  BY <1>1, BeginEffect DEF ProcInv, RejectSteps
<1>4. \A q \in Procs : ProcInv(q)'
  BY <1>1, <1>2, <1>3, BeginEffect, OthersKeep
<1>5. TypeOK'
  BY <1>1, BeginEffect DEF TypeOK, Statuses
<1>6. RunningIsPending' /\ ResultInv' /\ KindInv'
  BY DEF RunningIsPending, ResultInv, KindInv, TypeOK, Pushed
<1>7. FreshInv' /\ CleanInv'
  BY DEF FreshInv, CleanInv, TypeOK, Job
<1>8. QED
  BY <1>4, <1>5, <1>6, <1>7

\* The clean replacement is scheduled after the rejection of the only set it waits for.
LEMMA RejectNextPreserves ==
  ASSUME IInv, NEW p \in Procs, RejectNext(p)
  PROVE  IInv'
<1> DEFINE c == job[p].clean
<1> DEFINE j == Job("run", c)
<1> USE DEF IInv
<1>1. /\ pc[p] = "reject_next" /\ Goto(p, "idle")
      /\ UNCHANGED <<status, op, cleanup, de, notify, faults>>
      /\ \/ UNCHANGED <<jobs, queue>>
         \/ /\ c # NoRdp /\ status[c] = "PENDING"
            /\ jobs' = jobs \cup {j} /\ queue' = queue \cup {j}
  BY DEF RejectNext, Schedule, rows, broker, engine
<1>2. job[p] \in jobs /\ c \in Rdps \cup {NoRdp}
  BY <1>1 DEF ProcInv, RejectSteps, TypeOK, Jobs
<1>3. "idle" \in Steps \ (RejectSteps \cup {"run_claim", "sync_complete"})
  BY DEF Steps, RejectSteps
<1>4. Monotone
  BY <1>1 DEF Monotone
<1>5. /\ pc' \in [Procs -> Steps]
      /\ job' \in [Procs -> Jobs \cup {NoJob}]
      /\ \A q \in Procs : pc'[q] = "idle" <=> job'[q] = NoJob
      /\ \A q \in Procs : ProcInv(q)'
  BY <1>1, <1>3, <1>4, ProcsKeep
<1>6. RunningIsPending' /\ ResultInv'
  BY <1>1 DEF RunningIsPending, ResultInv
<1>7. c \in Rdps => j \in Jobs /\ j.kind = "run" /\ j.clean = NoRdp
  BY DEF Job, Jobs, Kinds
<1>8. TypeOK' /\ KindInv'
  BY <1>1, <1>2, <1>5, <1>7 DEF TypeOK, KindInv, FirstStep
<1>9. FreshInv'
  BY <1>1, <1>2, <1>7, ConstantsAssumption DEF FreshInv, Job
<1>10. CleanInv'
  <2>1. c \in Rdps => \A i \in jobs : i.clean = c => de[i.rdp] # "deduplicated"
    BY <1>1, <1>2 DEF CleanInv, ProcInv, Rdp
  <2>2. QED
    BY <1>1, <1>2, <1>7, <2>1, ConstantsAssumption DEF CleanInv, Job
<1>11. QED
  BY <1>5, <1>6, <1>8, <1>9, <1>10

-----------------------------------------------------------------------------
(* Steps of the sets in DedupEngine, and faults.                           *)

\* A set gets its result once, and only the set of a cancelled RDP is rejected.
LEMMA SetKeeps ==
  ASSUME IInv, NEW r \in Rdps, NEW s \in SetStates, SetState(r, s), UNCHANGED <<rows, jobs>>,
         \/ de[r] \notin Finished /\ s # "rejected"
         \/ s \in {"approved", "rejected"} /\ de[r] = "deduplicated",
         s = "rejected" => status[r] = "CANCELLED"
  PROVE  /\ Monotone
         /\ de' \in [Rdps -> SetStates] /\ notify' \subseteq Rdps
         /\ RunningIsPending' /\ KindInv' /\ ResultInv' /\ FreshInv' /\ CleanInv'
<1> USE DEF IInv, SetState, rows
<1>1. Monotone
  BY DEF Monotone, TypeOK, Finished
<1>2. de' \in [Rdps -> SetStates] /\ notify' \subseteq Rdps
  BY DEF TypeOK
<1>3. RunningIsPending' /\ KindInv' /\ FreshInv'
  BY DEF RunningIsPending, KindInv, FreshInv, Job
<1>4. ResultInv'
  BY DEF ResultInv, TypeOK, Finished
<1>5. CleanInv'
  BY DEF CleanInv, TypeOK, Finished, Job
<1>6. QED
  BY <1>1, <1>2, <1>3, <1>4, <1>5

\* The runner, DedupEngine and the end of a push change a set.
LEMMA SetPreserves ==
  ASSUME IInv,
         \/ \E p \in Procs : RunCreate(p) \/ RunReady(p) \/ RunProcess(p) \/ Approve(p)
         \/ \E r \in Rdps : EngineStep(r)
  PROVE  IInv'
<1> DEFINE Safe == Steps \ (RejectSteps \cup {"run_claim", "sync_complete"})
<1> USE DEF IInv
<1>1. {"idle", "run_upload", "run_fail", "run_process"} \subseteq Safe
  BY DEF Steps, RunSteps, RejectSteps
<1>2. ASSUME NEW r \in Rdps, NEW s \in SetStates \ {"rejected"}, SetState(r, s),
             UNCHANGED <<rows, broker>>, faults' \in 0..MaxFaults,
             \/ de[r] \notin Finished
             \/ s = "approved" /\ de[r] = "deduplicated",
             \/ UNCHANGED <<pc, job>>
             \/ \E p \in Procs, t \in Safe : pc[p] # "idle" /\ Goto(p, t)
      PROVE  IInv'
  <2>1. /\ Monotone
        /\ de' \in [Rdps -> SetStates] /\ notify' \subseteq Rdps
        /\ RunningIsPending' /\ KindInv' /\ ResultInv' /\ FreshInv' /\ CleanInv'
    BY <1>2, SetKeeps DEF broker
  <2>2. /\ pc' \in [Procs -> Steps]
        /\ job' \in [Procs -> Jobs \cup {NoJob}]
        /\ \A q \in Procs : pc'[q] = "idle" <=> job'[q] = NoJob
        /\ \A q \in Procs : ProcInv(q)'
    BY <1>2, <2>1, ProcsKeep
  <2>3. TypeOK'
    BY <1>2, <2>1, <2>2 DEF TypeOK, rows, broker
  <2>4. QED
    BY <2>1, <2>2, <2>3
<1>3. ASSUME NEW p \in Procs, NEW t \in Safe, pc[p] # "idle", Goto(p, t),
             UNCHANGED <<rows, broker, engine>>, faults' \in 0..MaxFaults
      PROVE  IInv'
  <2>1. ProcInv(p)'
    BY <1>3, GotoEffect DEF ProcInv, RejectSteps
  <2>2. QED
    BY <1>3, <2>1, MoveKeeps DEF TypeOK, broker, engine
<1>4. faults \in 0..MaxFaults /\ (faults < MaxFaults => faults + 1 \in 0..MaxFaults)
  BY ConstantsAssumption DEF TypeOK
<1>5. ASSUME NEW p \in Procs, pc[p] # "idle"
      PROVE  Rdp(p) \in Rdps
  BY <1>5 DEF TypeOK, NoJob, Jobs, Rdp
<1>6. ASSUME NEW p \in Procs, RunCreate(p)
      PROVE  IInv'
  <2>1. pc[p] # "idle" /\ UNCHANGED <<rows, broker, faults>>
    BY <1>6 DEF RunCreate
  <2>2. CASE de[Rdp(p)] = "none" /\ SetState(Rdp(p), "uploading") /\ Goto(p, "run_upload")
    BY <2>1, <2>2, <1>1, <1>2, <1>4, <1>5 DEF SetStates, Finished
  <2>3. CASE Goto(p, "run_fail") /\ UNCHANGED engine
    BY <2>1, <2>3, <1>1, <1>3, <1>4
  <2>4. QED
    BY <1>6, <2>2, <2>3 DEF RunCreate
<1>7. ASSUME NEW p \in Procs, RunReady(p)
      PROVE  IInv'
  <2>1. pc[p] # "idle" /\ UNCHANGED <<rows, broker, faults>>
    BY <1>7 DEF RunReady
  <2>2. CASE de[Rdp(p)] = "uploading" /\ SetState(Rdp(p), "ready") /\ Goto(p, "run_process")
    BY <2>1, <2>2, <1>1, <1>2, <1>4, <1>5 DEF SetStates, Finished
  <2>3. CASE Goto(p, "run_fail") /\ UNCHANGED engine
    BY <2>1, <2>3, <1>1, <1>3, <1>4
  <2>4. QED
    BY <1>7, <2>2, <2>3 DEF RunReady
<1>8. ASSUME NEW p \in Procs, RunProcess(p)
      PROVE  IInv'
  <2>1. /\ pc[p] # "idle" /\ UNCHANGED <<rows, broker>> /\ faults' \in 0..MaxFaults
        /\ Goto(p, "idle") \/ Goto(p, "run_fail")
    BY <1>8, <1>4 DEF RunProcess
  <2>2. CASE de[Rdp(p)] \in Processable /\ SetState(Rdp(p), "processing")
    BY <2>1, <2>2, <1>1, <1>2, <1>5 DEF SetStates, Finished, Processable
  <2>3. CASE UNCHANGED engine
    BY <2>1, <2>3, <1>1, <1>3
  <2>4. QED
    BY <1>8, <2>2, <2>3 DEF RunProcess
<1>9. ASSUME NEW p \in Procs, Approve(p)
      PROVE  IInv'
  <2>1. /\ pc[p] # "idle" /\ UNCHANGED <<rows, broker>> /\ faults' \in 0..MaxFaults
        /\ Goto(p, "idle")
    BY <1>9, <1>4 DEF Approve
  <2>2. CASE de[Rdp(p)] = "deduplicated" /\ SetState(Rdp(p), "approved")
    BY <2>1, <2>2, <1>1, <1>2, <1>5 DEF SetStates
  <2>3. CASE UNCHANGED engine
    BY <2>1, <2>3, <1>1, <1>3
  <2>4. QED
    BY <1>9, <2>2, <2>3 DEF Approve
<1>10. ASSUME NEW r \in Rdps, EngineStep(r)
       PROVE  IInv'
  BY <1>10, <1>2, <1>4 DEF EngineStep, SetStates, Finished
<1>11. QED
  BY <1>6, <1>7, <1>8, <1>9, <1>10

\* A rejection is of the set of a cancelled RDP.
LEMMA RejectCallPreserves ==
  ASSUME IInv, NEW p \in Procs, RejectCall(p)
  PROVE  IInv'
<1> DEFINE r == Rdp(p)
<1> USE DEF IInv
<1>1. /\ pc[p] = "reject_call" /\ job[p] \in jobs /\ r \in Rdps /\ status[r] = "CANCELLED"
      /\ UNCHANGED <<rows, broker>> /\ faults' \in 0..MaxFaults
  BY ConstantsAssumption DEF RejectCall, ProcInv, RejectSteps, TypeOK, Jobs, Rdp
<1>2. {"reject_next", "idle"} \subseteq Steps
  BY DEF Steps, RejectSteps
<1>3. CASE Goto(p, "idle") /\ UNCHANGED engine
  <2>1. ProcInv(p)'
    BY <1>1, <1>2, <1>3, GotoEffect DEF ProcInv, RejectSteps
  <2>2. QED
    BY <1>1, <1>2, <1>3, <2>1, MoveKeeps DEF TypeOK, broker, engine
<1>4. CASE /\ de[r] = "deduplicated" /\ SetState(r, "rejected")
           /\ Goto(p, "reject_next") \/ Goto(p, "idle")
  <2>1. /\ Monotone
        /\ de' \in [Rdps -> SetStates] /\ notify' \subseteq Rdps
        /\ RunningIsPending' /\ KindInv' /\ ResultInv' /\ FreshInv' /\ CleanInv'
    BY <1>1, <1>4, SetKeeps DEF broker, SetStates
  <2>2. /\ pc' \in [Procs -> Steps]
        /\ job' \in [Procs -> Jobs \cup {NoJob}]
        /\ \A q \in Procs : pc'[q] = "idle" <=> job'[q] = NoJob
        /\ pc'[p] = "idle" \/ (pc'[p] = "reject_next" /\ job' = job)
        /\ \A q \in Procs \ {p} : pc'[q] = pc[q] /\ job'[q] = job[q]
    BY <1>1, <1>2, <1>4, GotoEffect
  <2>3. ProcInv(p)'
    BY <1>1, <1>4, <2>2 DEF ProcInv, RejectSteps, Rdp, rows, broker, SetState, TypeOK
  <2>4. \A q \in Procs : ProcInv(q)'
    BY <2>1, <2>2, <2>3, OthersKeep
  <2>5. TypeOK'
    BY <1>1, <2>1, <2>2 DEF TypeOK, rows, broker
  <2>6. QED
    BY <2>1, <2>4, <2>5
<1>5. QED
  BY <1>3, <1>4 DEF RejectCall

\* A crash loses the work of a process, never a job; calls repeated or lost change no row.
LEMMA FaultPreserves ==
  ASSUME IInv,
         LoseCallback \/ RepeatCallback \/ Requeue \/ \E p \in Procs : Crash(p)
  PROVE  IInv'
<1> USE DEF IInv, Fault
<1>1. faults' \in 0..MaxFaults /\ UNCHANGED rows
  BY ConstantsAssumption DEF LoseCallback, RepeatCallback, Requeue, Crash, TypeOK
<1>2. CASE LoseCallback \/ RepeatCallback \/ Requeue
  <2>1. UNCHANGED <<status, op, cleanup, jobs, pc, job, de>>
        /\ queue' \subseteq jobs /\ notify' \subseteq Rdps
    BY <1>1, <1>2 DEF LoseCallback, RepeatCallback, Requeue, rows, broker, engine, TypeOK
  <2>2. Monotone
    BY <2>1 DEF Monotone
  <2>3. \A q \in Procs : ProcInv(q)'
    BY <2>1, <2>2, ProcsKeep
  <2>4. TypeOK'
    BY <1>1, <2>1 DEF TypeOK
  <2>5. RunningIsPending' /\ KindInv' /\ ResultInv' /\ FreshInv' /\ CleanInv'
    BY <2>1 DEF RunningIsPending, KindInv, ResultInv, FreshInv, CleanInv, Job
  <2>6. QED
    BY <2>3, <2>4, <2>5
<1>3. ASSUME NEW p \in Procs, Crash(p)
      PROVE  IInv'
  <2>1. "idle" \in Steps
    BY DEF Steps
  <2>2. ProcInv(p)'
    BY <1>3, <2>1, GotoEffect DEF Crash, ProcInv, RejectSteps
  <2>3. QED
    BY <1>1, <1>3, <2>1, <2>2, MoveKeeps DEF Crash, engine, TypeOK
<1>4. QED
  BY <1>2, <1>3

-----------------------------------------------------------------------------
(* The invariant, and what follows from it.                                *)

\* Every step preserves the invariant.
LEMMA NextIInv == IInv /\ [Next]_vars => IInv'
<1> SUFFICES ASSUME IInv, [Next]_vars PROVE IInv'
  OBVIOUS
<1>1. ASSUME NEW r \in Rdps, Users(r)
      PROVE  IInv'
  <2>1. CASE CreateRdp(r)
    BY <2>1, CreateRdpPreserves
  <2>2. CASE RetryOperation(r)
    BY <2>2, RetryOperationPreserves
  <2>3. CASE StartPush(r) \/ FailPush(r)
    BY <2>3, StatusPreserves
  <2>4. CASE \E p \in Procs : CancelBegin(p, r) \/ CleanBegin(p, r)
    BY <2>4, BeginPreserves
  <2>5. CASE \E p \in Procs : FinishPush(p, r)
    BY <2>5, FinishPushPreserves
  <2>6. QED
    BY <1>1, <2>1, <2>2, <2>3, <2>4, <2>5 DEF Users
<1>2. ASSUME NEW p \in Procs, Run(p)
      PROVE  IInv'
  <2>1. CASE \/ CancelState(p) \/ CancelRefused(p) \/ RunState(p) \/ RunUpload(p) \/ Raise(p)
             \/ RejectCheck(p) \/ RejectState(p) \/ SyncRead(p) \/ SyncState(p)
    BY <2>1, MovePreserves
  <2>2. CASE CancelLock(p)
    BY <2>2, CancelLockPreserves
  <2>3. CASE CleanLock(p)
    BY <2>3, CleanLockPreserves
  <2>4. CASE Claim(p)
    BY <2>4, ClaimPreserves
  <2>5. CASE RunCreate(p) \/ RunReady(p) \/ RunProcess(p) \/ Approve(p)
    BY <2>5, SetPreserves
  <2>6. CASE Fail(p)
    BY <2>6, FailPreserves
  <2>7. CASE Evaluate(p)
    BY <2>7, EvaluatePreserves
  <2>8. CASE RejectCall(p)
    BY <2>8, RejectCallPreserves
  <2>9. CASE RejectNext(p)
    BY <2>9, RejectNextPreserves
  <2>10. CASE SyncComplete(p)
    BY <2>10, SyncCompletePreserves
  <2>11. QED
    BY <1>2, <2>1, <2>2, <2>3, <2>4, <2>5, <2>6, <2>7, <2>8, <2>9, <2>10 DEF Run
<1>3. CASE \E r \in Rdps, p \in Procs : Callback(p, r)
  BY <1>3, BeginPreserves
<1>4. CASE \E p \in Procs, j \in queue : Take(p, j)
  BY <1>4, BeginPreserves
<1>5. CASE \E r \in Rdps : EngineStep(r)
  BY <1>5, SetPreserves
<1>6. CASE LoseCallback \/ RepeatCallback \/ Requeue \/ \E p \in Procs : Crash(p)
  BY <1>6, FaultPreserves
<1>7. CASE CleanProgram
  BY <1>7, StatusPreserves
<1>8. CASE UNCHANGED vars
  <2>1. Monotone
    BY <1>8 DEF Monotone, vars
  <2>2. \A q \in Procs : ProcInv(q)'
    BY <1>8, <2>1, ProcsKeep DEF vars
  <2>3. QED
    BY <1>8, <2>2 DEF IInv, TypeOK, RunningIsPending, KindInv, ResultInv, FreshInv, CleanInv,
                      Job, vars
<1>9. QED
  BY <1>1, <1>2, <1>3, <1>4, <1>5, <1>6, <1>7, <1>8 DEF Next

\* The invariant holds of every reachable state.
THEOREM Invariance == Spec => []IInv
<1>1. Init => IInv
  BY InitIInv
<1>2. IInv /\ [Next]_vars => IInv'
  BY NextIInv
<1>3. QED
  BY <1>1, <1>2, PTL DEF Spec

\* Every variable keeps its type, whatever steps RDPs, jobs and callbacks take.
THEOREM TypeCorrect == Spec => []TypeOK
<1>1. IInv => TypeOK
  BY DEF IInv
<1>2. QED
  BY <1>1, Invariance, PTL

\* claim_rdp_operation, cancel_rdp and evaluate_rdp_for_push, each under the lock of the
\* RDP, let an operation run for a pending RDP only.
THEOREM RunningOnlyWhilePending == Spec => []RunningIsPending
<1>1. IInv => RunningIsPending
  BY DEF IInv
<1>2. QED
  BY <1>1, Invariance, PTL

\* What is under review, pushed or to be pushed again has its biometric result, and
\* DedupEngine still holds it.
THEOREM ResultKept == Spec => []ResultBehindPush
<1>1. IInv => ResultBehindPush
  BY DEF IInv, ResultInv, ResultBehindPush, Pushed, Finished
<1>2. QED
  BY <1>1, Invariance, PTL

\* reject_cancelled_rdp_set_core starts the clean replacement only when the set of the
\* replaced RDP no longer blocks the group.
THEOREM CleanWaits == Spec => []CleanAfterRelease
<1>1. IInv => CleanAfterRelease
  BY DEF IInv, CleanInv, CleanAfterRelease, NonBlocking, Finished
<1>2. QED
  BY <1>1, Invariance, PTL

\* Claims, completions and failures that were under way when an RDP was cancelled leave
\* its operation alone.
THEOREM CancelledStays == Spec => CancelledIsFrozen
<1> DEFINE Frozen(r) == status[r] = "CANCELLED" => status'[r] = "CANCELLED" /\ op'[r] = op[r]
<1>1. ASSUME IInv, [Next]_vars, NEW r \in Rdps
      PROVE  Frozen(r)
  <2> USE DEF IInv, TypeOK
  <2>1. status[r] = "CANCELLED" => op[r] # "RUNNING"
    BY <1>1 DEF RunningIsPending
  <2>2. CASE UNCHANGED rows
    BY <2>2 DEF rows
  <2>3. ASSUME NEW s \in Rdps, CreateRdp(s) \/ StartPush(s) \/ FailPush(s)
        PROVE  Frozen(r)
    BY <1>1, <2>3 DEF CreateRdp, Insertable, StartPush, FailPush
  <2>4. ASSUME NEW p \in Procs, NEW s \in Rdps, FinishPush(p, s)
        PROVE  Frozen(r)
    BY <1>1, <2>4 DEF FinishPush
  <2>5. CASE CleanProgram
    BY <2>5 DEF CleanProgram
  <2>6. ASSUME NEW p \in Procs, CancelLock(p) \/ CleanLock(p) \/ Evaluate(p)
        PROVE  Frozen(r)
    BY <1>1, <2>6 DEF CancelLock, CleanLock, Insertable, Evaluate
  <2>7. ASSUME NEW p \in Procs, Claim(p) \/ Fail(p) \/ SyncComplete(p)
        PROVE  Frozen(r)
    BY <1>1, <2>1, <2>7 DEF Claim, Fail, FailOperation, SyncComplete
  <2>8. ASSUME NEW s \in Rdps,
               \/ RetryOperation(s) \/ EngineStep(s)
               \/ \E p \in Procs : CancelBegin(p, s) \/ CleanBegin(p, s) \/ Callback(p, s)
        PROVE  UNCHANGED rows
    BY <2>8 DEF RetryOperation, CancelBegin, CleanBegin, EngineStep, Callback
  <2>9. ASSUME NEW p \in Procs,
               \/ CancelState(p) \/ CancelRefused(p) \/ RunState(p) \/ RunCreate(p)
               \/ RunUpload(p) \/ RunReady(p) \/ RunProcess(p) \/ Raise(p) \/ RejectCheck(p)
               \/ RejectState(p) \/ RejectCall(p) \/ RejectNext(p) \/ Approve(p)
               \/ SyncRead(p) \/ SyncState(p) \/ Crash(p) \/ (\E j \in queue : Take(p, j))
        PROVE  UNCHANGED rows
    BY <2>9 DEF CancelState, CancelRefused, RunState, RunCreate, RunUpload, RunReady,
       RunProcess, Raise, RejectCheck, RejectState, RejectCall, RejectNext, Approve, SyncRead,
       SyncState, Crash, Fault, Take
  <2>10. LoseCallback \/ RepeatCallback \/ Requeue => UNCHANGED rows
    BY DEF LoseCallback, RepeatCallback, Requeue, Fault
  <2>11. UNCHANGED vars => UNCHANGED rows
    BY DEF vars, rows
  <2>12. QED
    BY <1>1, <2>2, <2>3, <2>4, <2>5, <2>6, <2>7, <2>8, <2>9, <2>10, <2>11
       DEF Next, Users, Run
<1>2. IInv /\ [Next]_vars => [\A r \in Rdps : Frozen(r)]_vars
  BY <1>1
<1>3. QED
  BY <1>2, Invariance, PTL DEF Spec, CancelledIsFrozen
=============================================================================
