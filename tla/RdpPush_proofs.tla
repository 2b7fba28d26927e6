--------------------------- MODULE RdpPush_proofs ---------------------------
(***************************************************************************)
(* Theorems about RdpPush, for every set of attempts, RDIs and workers and *)
(* every number of faults.                                                 *)
(*                                                                         *)
(* The safety properties of RdpPush are not inductive: that HOPE holds no  *)
(* data but that of the RDI the row names depends on what every job that   *)
(* is still under way, current or stale, may yet do with the RDI it made.  *)
(* IInv says it.                                                           *)
(***************************************************************************)
EXTENDS RdpPush, TLAPS

PrepTask(w) == pc[w] \in PrepSteps \cup {"prep_fail"}
DataTask(w) == pc[w] \in DataSteps \cup {"data_fail"}
HasRdi(w)   == pc[w] \in {"data_save", "data_push", "data_complete", "data_finish"}

\* The attempt of the row exists exactly while a push is pending; a first attempt
\* ends the phases before it; users see beneficiaries as removed on success only.
RowInv ==
  /\ status = "PUSH_PENDING" <=> attempt # NoAttempt
  /\ attempt # NoAttempt => attempt \in prepJobs
  /\ status \in {"PENDING", "REVIEW_PENDING"} => prepJobs = {}
  /\ removed <=> status = "SUCCESS"
  /\ NoPushDuringCleanup

\* Whatever is queued or running belongs to a job of the database.
JobInv ==
  /\ dataJobs \subseteq prepJobs
  /\ \A a \in Attempts : Prep(a) \in queue => a \in prepJobs
  /\ \A a \in Attempts : Data(a) \in queue => a \in dataJobs
  /\ \A w \in Workers : PrepTask(w) => task[w] \in prepJobs
  /\ \A w \in Workers : DataTask(w) => task[w] \in dataJobs

\* HOPE resets only what a preparation job asked it to, and calls back afterwards.
HopeInv ==
  /\ \A q \in resets : q[2] \in prepJobs /\ resetId[q[2]] = q[1]
  /\ \A a \in callbacks :
       a \in prepJobs /\ resetId[a] \in Rdis /\ rdi[resetId[a]] = "deleted"

\* An RDI that HOPE has not created is known to nobody.
FreshInv ==
  \A r \in Rdis : rdi[r] = "absent" =>
    /\ hopeRdi # r
    /\ \A a \in Attempts : resetId[a] # r
    /\ \A w \in Workers : mine[w] # r

\* The preparation reaches its later steps only with the answer of HOPE for them,
\* and until data is scheduled the RDI of the row is the one to be reset.
PrepInv ==
  /\ \A w \in Workers : pc[w] = "prep_reset" => resetId[task[w]] \in Rdis
  /\ \A w \in Workers : pc[w] = "prep_schedule" /\ resetId[task[w]] \in Rdis =>
       rdi[resetId[task[w]]] = "deleted"
  /\ \A w \in Workers : pc[w] = "prep_merged" =>
       resetId[task[w]] \in Rdis /\ rdi[resetId[task[w]]] = "merged"
  /\ status = "PUSH_PENDING" /\ attempt \notin dataJobs /\ hopeRdi \in Rdis
       => resetId[attempt] = hopeRdi

\* The sender of the current attempt and the row agree, and nobody resets its RDI.
SenderInv ==
  \A w \in Workers : Active(task[w]) =>
    /\ pc[w] \in {"data_create", "data_save"} => hopeRdi = NA
    /\ pc[w] \in {"data_push", "data_complete", "data_finish"} => hopeRdi = mine[w]
    /\ pc[w] = "data_finish" => Landed(mine[w])
    /\ HasRdi(w) => \A b \in Attempts : resetId[b] # mine[w]

\* A sender, even a stale one, that can still complete its RDI has it in the row.
OpenInv ==
  \A w \in Workers :
    /\ HasRdi(w) => mine[w] \in Rdis
    /\ pc[w] \in {"data_push", "data_complete"} /\ rdi[mine[w]] = "open"
         => hopeRdi = mine[w]

\* The RDI of a successful RDP is beyond the reach of any reset.
SuccessInv ==
  status = "SUCCESS" =>
    /\ hopeRdi \in Rdis
    /\ Landed(hopeRdi)
    /\ rdi[hopeRdi] = "merged" \/ \A b \in Attempts : resetId[b] # hopeRdi

IInv ==
  /\ TypeOK
  /\ RowInv
  /\ JobInv
  /\ HopeInv
  /\ FreshInv
  /\ PrepInv
  /\ SenderInv
  /\ OpenInv
  /\ OneSenderPerAttempt
  /\ TrackedImport
  /\ SuccessInv

-----------------------------------------------------------------------------
(* Every step preserves IInv.                                              *)

\* A pending RDP without attempts satisfies the invariant.
LEMMA InitIInv == Init => IInv
<1> SUFFICES ASSUME Init PROVE IInv
  OBVIOUS
<1> USE ConstantsAssumption DEF Init
<1>1. TypeOK
  <2>1. faults \in 0..MaxFaults
    OBVIOUS
  <2>2. resetId \in [Attempts -> Rdis \cup {NoRdi}] /\ rdi \in [Rdis -> RdiStates]
    BY DEF RdiStates
  <2>3. /\ pc \in [Workers -> Steps]
        /\ task \in [Workers -> Attempts \cup {NoAttempt}]
        /\ mine \in [Workers -> Rdis \cup {NoRdi}]
    BY DEF Steps
  <2>4. QED
    BY <2>1, <2>2, <2>3 DEF TypeOK, Statuses
<1>2. RowInv
  BY DEF RowInv, NoPushDuringCleanup
<1>3. JobInv /\ HopeInv /\ FreshInv /\ PrepInv
  BY DEF JobInv, HopeInv, FreshInv, PrepInv, PrepTask, DataTask, PrepSteps, DataSteps
<1>4. SenderInv /\ OpenInv /\ OneSenderPerAttempt /\ TrackedImport /\ SuccessInv
  BY DEF SenderInv, OpenInv, OneSenderPerAttempt, TrackedImport, SuccessInv, HasRdi,
         Sending, Landed, Active, DataSteps
<1>5. QED
  BY <1>1, <1>2, <1>3, <1>4 DEF IInv

\* A fresh attempt inherits no job, no reset and no sender.
LEMMA StartPushPreserves ==
  ASSUME IInv, ~cleanup, NEW a \in Attempts, StartPush(a),
         status \in {"PENDING", "REVIEW_PENDING", "FAILURE"}
  PROVE  IInv'
<1> USE DEF IInv, TypeOK, StartPush, jobs, work, hope
<1>1. \A w \in Workers : (PrepTask(w) \/ DataTask(w)) => task[w] # a
  BY DEF JobInv
<1>2. a \notin callbacks /\ \A q \in resets : q[2] # a
  BY DEF HopeInv
<1>3. TypeOK'
  BY DEF Statuses, Deliveries, Prep
<1>4. RowInv'
  BY ConstantsAssumption DEF RowInv, NoPushDuringCleanup
<1>5. JobInv'
  BY DEF JobInv, PrepTask, DataTask, Prep, Data
<1>6. HopeInv'
  BY <1>2 DEF HopeInv
<1>7. FreshInv'
  BY ConstantsAssumption DEF FreshInv
<1>8. PrepInv'
  BY <1>1, ConstantsAssumption DEF PrepInv, PrepTask, PrepSteps
<1>9. SenderInv'
  BY <1>1 DEF SenderInv, Active, HasRdi, Landed, DataTask, DataSteps
<1>10. OpenInv' /\ OneSenderPerAttempt' /\ TrackedImport' /\ SuccessInv'
  BY DEF OpenInv, OneSenderPerAttempt, TrackedImport, SuccessInv, HasRdi, Sending, Landed
<1>11. QED
  BY <1>3, <1>4, <1>5, <1>6, <1>7, <1>8, <1>9, <1>10

\* Data is scheduled for an attempt whose previous RDI, if any, HOPE has deleted: the
\* row may forget that RDI.
LEMMA SchedulePreserves ==
  ASSUME IInv, NEW a \in prepJobs, SchedulePushData(a),
         resetId[a] \in Rdis => rdi[resetId[a]] = "deleted",
         pc' = pc \/ \E w \in Workers : pc' = [pc EXCEPT ![w] = "idle"],
         UNCHANGED <<removed, cleanup, resetId, prepJobs, task, mine, hope, faults>>
  PROVE  IInv'
<1> USE DEF IInv, TypeOK, SchedulePushData, row, hope
<1>1. \A w \in Workers : pc'[w] # "idle" => pc'[w] = pc[w]
  OBVIOUS
<1>2. hopeRdi' # hopeRdi => /\ Active(a) /\ a \notin dataJobs /\ hopeRdi' = NoRdi
                            /\ hopeRdi \in Rdis => rdi[hopeRdi] = "deleted"
  BY DEF PrepInv, Active
<1>3. hopeRdi' # hopeRdi => \A w \in Workers : DataTask(w) => ~Active(task[w])
  BY <1>2 DEF JobInv, Active
<1>4. TypeOK'
  BY <1>1 DEF Deliveries, Data, Steps
<1>5. RowInv' /\ HopeInv'
  BY DEF RowInv, HopeInv, NoPushDuringCleanup
<1>6. JobInv'
  BY <1>1 DEF JobInv, PrepTask, DataTask, Prep, Data, PrepSteps, DataSteps
<1>7. FreshInv'
  BY ConstantsAssumption DEF FreshInv
<1>8. PrepInv'
  BY <1>1, ConstantsAssumption DEF PrepInv
<1>9. SenderInv'
  BY <1>1, <1>3 DEF SenderInv, Active, HasRdi, Landed, DataTask, DataSteps
<1>10. OpenInv'
  BY <1>1, <1>2 DEF OpenInv, HasRdi
<1>11. OneSenderPerAttempt'
  BY <1>1 DEF OneSenderPerAttempt, Sending, DataSteps
<1>12. TrackedImport'
  BY <1>2 DEF TrackedImport, Landed
<1>13. SuccessInv'
  BY <1>2 DEF SuccessInv, Landed, Active
<1>14. QED
  BY <1>4, <1>5, <1>6, <1>7, <1>8, <1>9, <1>10, <1>11, <1>12, <1>13

\* A failed attempt leaves the RDI of the row in place, or names one that HOPE created.
LEMMA FailPreserves ==
  ASSUME IInv, NEW a \in Attempts, NEW r, FailPendingPush(a, r),
         r \in Rdis => rdi[r] # "absent",
         pc' = pc \/ \E w \in Workers : pc' = [pc EXCEPT ![w] = "idle"],
         UNCHANGED <<removed, cleanup, jobs, queue, task, mine, hope, faults>>
  PROVE  IInv'
<1> USE DEF IInv, TypeOK, FailPendingPush, row, jobs, hope
<1>1. \A w \in Workers : pc'[w] # "idle" => pc'[w] = pc[w]
  OBVIOUS
<1>2. hopeRdi' # hopeRdi => hopeRdi \notin Rdis /\ status' = "FAILURE"
  OBVIOUS
<1>3. TypeOK'
  BY <1>1 DEF Statuses, Steps
<1>4. RowInv' /\ HopeInv'
  BY ConstantsAssumption DEF RowInv, HopeInv, NoPushDuringCleanup, Active
<1>5. JobInv' /\ OneSenderPerAttempt'
  BY <1>1 DEF JobInv, OneSenderPerAttempt, PrepTask, DataTask, Sending, PrepSteps, DataSteps
<1>6. FreshInv'
  BY ConstantsAssumption DEF FreshInv
<1>7. PrepInv'
  BY <1>1 DEF PrepInv
<1>8. SenderInv'
  BY <1>1, <1>2 DEF SenderInv, Active, HasRdi, Landed
<1>9. OpenInv' /\ TrackedImport'
  BY <1>1, <1>2 DEF OpenInv, TrackedImport, HasRdi, Landed
<1>10. SuccessInv'
  BY <1>2 DEF SuccessInv, Landed
<1>11. QED
  BY <1>3, <1>4, <1>5, <1>6, <1>7, <1>8, <1>9, <1>10

\* Cancelling an RDP without a pending push.
LEMMA CancelPreserves ==
  ASSUME IInv, status # "PUSH_PENDING", MarkCancelled, removed' = FALSE,
         UNCHANGED <<cleanup, jobs, queue, work, hope, faults>>
  PROVE  IInv'
<1> USE DEF IInv, TypeOK, MarkCancelled, jobs, work, hope
<1>1. hopeRdi' # hopeRdi => hopeRdi = NoRdi /\ hopeRdi' = NA
  OBVIOUS
<1>2. TypeOK' /\ RowInv'
  BY DEF Statuses, RowInv, NoPushDuringCleanup
<1>3. JobInv' /\ HopeInv' /\ PrepInv' /\ OneSenderPerAttempt'
  BY DEF JobInv, HopeInv, PrepInv, OneSenderPerAttempt, PrepTask, DataTask, Sending
<1>4. SenderInv' /\ SuccessInv'
  BY DEF SenderInv, SuccessInv, Active
<1>5. FreshInv' /\ OpenInv' /\ TrackedImport'
  BY <1>1, ConstantsAssumption DEF FreshInv, OpenInv, TrackedImport, HasRdi, Landed
<1>6. QED
  BY <1>2, <1>3, <1>4, <1>5

\* What users and the evaluation start, cancel or reset.
LEMMA UsersPreserve == ASSUME IInv, Users PROVE IInv'
<1>1. CASE Evaluate
  <2>1. CASE \E a \in Attempts : StartPush(a)
    BY <1>1, <2>1, StartPushPreserves DEF Evaluate
  <2>2. CASE /\ status' = "REVIEW_PENDING"
             /\ UNCHANGED <<attempt, hopeRdi, removed, cleanup, jobs, queue, work, hope, faults>>
    BY <1>1, <2>2 DEF Evaluate, IInv, TypeOK, RowInv, JobInv, HopeInv, FreshInv, PrepInv,
       SenderInv, OpenInv, OneSenderPerAttempt, TrackedImport, SuccessInv,
       NoPushDuringCleanup, PrepTask, DataTask, HasRdi, Sending, Landed, Active, Statuses,
       jobs, work, hope
  <2>3. QED
    BY <1>1, <2>1, <2>2 DEF Evaluate
<1>2. CASE ReviewPush
  BY <1>2, StartPushPreserves DEF ReviewPush
<1>3. CASE RetryPush
  BY <1>3, StartPushPreserves DEF RetryPush
<1>4. CASE Cancel
  <2>1. removed' = FALSE
    BY <1>4 DEF Cancel, IInv, TypeOK, RowInv
  <2>2. QED
    BY <1>4, <2>1, CancelPreserves DEF Cancel
<1>5. CASE Reset
  BY <1>5, CancelPreserves DEF Reset
<1>6. CASE CleanProgram
  BY <1>6 DEF CleanProgram, IInv, TypeOK, RowInv, JobInv, HopeInv, FreshInv, PrepInv,
     SenderInv, OpenInv, OneSenderPerAttempt, TrackedImport, SuccessInv,
     NoPushDuringCleanup, PrepTask, DataTask, HasRdi, Sending, Landed, Active,
     row, jobs, work, hope
<1>7. QED
  BY <1>1, <1>2, <1>3, <1>4, <1>5, <1>6 DEF Users

\* The preparation job passes on only answers HOPE has given.
LEMMA PrepPreserves ==
  ASSUME IInv, NEW w \in Workers,
         PrepLock(w) \/ PrepReset(w) \/ PrepSchedule(w) \/ PrepMerged(w) \/ PrepFail(w)
  PROVE  IInv'
<1> USE DEF IInv
<1>1. CASE PrepLock(w)
  <2>1. task[w] \in prepJobs /\ resetId[task[w]] \in Rdis \cup {NoRdi}
    BY <1>1 DEF PrepLock, TypeOK, JobInv, PrepTask, PrepSteps
  <2>2. QED
    BY <1>1, <2>1, ConstantsAssumption DEF PrepLock, Goto, row, jobs, hope, TypeOK, RowInv, JobInv, HopeInv, FreshInv, PrepInv, SenderInv, OpenInv,
       OneSenderPerAttempt, TrackedImport, SuccessInv, NoPushDuringCleanup, PrepTask,
       DataTask, HasRdi, Sending, Landed, Active, Steps, PrepSteps, DataSteps
<1>2. CASE PrepReset(w)
  BY <1>2 DEF PrepReset, Goto, row, jobs, RdiStates, TypeOK, RowInv, JobInv, HopeInv, FreshInv, PrepInv, SenderInv, OpenInv,
     OneSenderPerAttempt, TrackedImport, SuccessInv, NoPushDuringCleanup, PrepTask,
     DataTask, HasRdi, Sending, Landed, Active, Steps, PrepSteps, DataSteps
<1>3. CASE PrepSchedule(w)
  <2>1. task[w] \in prepJobs
    BY <1>3 DEF PrepSchedule, JobInv, PrepTask, PrepSteps
  <2>2. resetId[task[w]] \in Rdis => rdi[resetId[task[w]]] = "deleted"
    BY <1>3 DEF PrepSchedule, PrepInv
  <2>3. QED
    BY <1>3, <2>1, <2>2, SchedulePreserves DEF PrepSchedule, Goto
<1>4. CASE PrepMerged(w)
  <2> USE <1>4 DEF PrepMerged, Goto, FinishSuccessfulPush, row, jobs, hope
  <2>1. /\ task[w] \in prepJobs /\ prepJobs \subseteq Attempts
        /\ resetId[task[w]] \in Rdis
        /\ rdi[resetId[task[w]]] = "merged"
    BY DEF TypeOK, JobInv, PrepInv, PrepTask, PrepSteps
  <2>2. hopeRdi = resetId[task[w]]
    BY <2>1 DEF TrackedImport, Landed
  <2>3. TypeOK'
    <3>1. removed' \in BOOLEAN
      BY DEF TypeOK
    <3>2. status' \in Statuses /\ attempt' \in Attempts \cup {NoAttempt}
          /\ hopeRdi' \in Rdis \cup {NoRdi, NA}
      BY <2>1 DEF TypeOK, Statuses
    <3>3. QED
      BY <3>1, <3>2 DEF TypeOK, Steps
  <2>4. RowInv' /\ HopeInv' /\ FreshInv'
    BY <2>1, <2>2 DEF TypeOK, RowInv, HopeInv, FreshInv, NoPushDuringCleanup, Active
  <2>5. JobInv' /\ PrepInv' /\ OneSenderPerAttempt'
    BY <2>1, <2>2 DEF TypeOK, JobInv, PrepInv, OneSenderPerAttempt, PrepTask, DataTask,
       Sending, PrepSteps, DataSteps
  <2>6. SenderInv' /\ OpenInv' /\ TrackedImport' /\ SuccessInv'
    BY <2>1, <2>2 DEF TypeOK, SenderInv, OpenInv, TrackedImport, SuccessInv, Active, HasRdi,
       Landed
  <2>7. QED
    BY <2>3, <2>4, <2>5, <2>6
<1>5. CASE PrepFail(w)
  <2>1. task[w] \in Attempts
    BY <1>5 DEF PrepFail, TypeOK, JobInv, PrepTask
  <2>2. resetId[task[w]] \in Rdis => rdi[resetId[task[w]]] # "absent"
    BY <2>1 DEF FreshInv
  <2>3. QED
    BY <1>5, <2>1, <2>2, FailPreserves DEF PrepFail, Goto
<1>6. QED
  BY <1>1, <1>2, <1>3, <1>4, <1>5

\* The data job works on an RDI of its own, which the row names until the job is done.
LEMMA DataPreserves ==
  ASSUME IInv, NEW w \in Workers,
         \/ DataClaim(w) \/ DataCreate(w) \/ DataSave(w) \/ DataPush(w)
         \/ DataComplete(w) \/ DataFinish(w) \/ DataFail(w)
  PROVE  IInv'
<1> USE DEF IInv
\* The claim finds no other sender of the attempt: the row would name "N/A" or an RDI.
<1>1. CASE DataClaim(w)
  BY <1>1, ConstantsAssumption DEF DataClaim, Goto, row, jobs, hope, TypeOK, RowInv, JobInv, HopeInv, FreshInv, PrepInv, SenderInv, OpenInv,
     OneSenderPerAttempt, TrackedImport, SuccessInv, NoPushDuringCleanup, PrepTask,
     DataTask, HasRdi, Sending, Landed, Active, Steps, PrepSteps, DataSteps
<1>2. CASE DataCreate(w)
  BY <1>2 DEF DataCreate, Goto, row, jobs, RdiStates, TypeOK, RowInv, JobInv, HopeInv, FreshInv, PrepInv, SenderInv, OpenInv,
     OneSenderPerAttempt, TrackedImport, SuccessInv, NoPushDuringCleanup, PrepTask,
     DataTask, HasRdi, Sending, Landed, Active, Steps, PrepSteps, DataSteps
<1>3. CASE DataSave(w)
  <2> USE <1>3 DEF DataSave, Goto, row, jobs, hope
  <2>1. mine[w] \in Rdis /\ rdi[mine[w]] # "absent" /\ task[w] \in dataJobs
    BY DEF OpenInv, HasRdi, TypeOK, FreshInv, JobInv, DataTask, DataSteps
  \* the row names no RDI that the new one could displace
  <2>2. Active(task[w]) => hopeRdi = NA /\ hopeRdi' = mine[w]
    BY DEF SenderInv
  <2>3. hopeRdi' # hopeRdi => Active(task[w])
    OBVIOUS
  <2>4. TypeOK' /\ RowInv' /\ HopeInv'
    BY <2>1 DEF TypeOK, RowInv, HopeInv, NoPushDuringCleanup, Active, Steps, DataSteps
  <2>5. JobInv' /\ OneSenderPerAttempt'
    BY DEF TypeOK, JobInv, OneSenderPerAttempt, PrepTask, DataTask, Sending, PrepSteps,
       DataSteps
  <2>6. FreshInv' /\ PrepInv'
    BY <2>1, <2>2, <2>3 DEF TypeOK, FreshInv, PrepInv, Active
  <2>7. SenderInv'
    BY <2>2, <2>3 DEF TypeOK, SenderInv, OneSenderPerAttempt, Active, Sending, HasRdi, Landed,
       DataSteps
  <2>8. OpenInv' /\ TrackedImport' /\ SuccessInv'
    BY <2>2, <2>3, ConstantsAssumption DEF TypeOK, OpenInv, TrackedImport, SuccessInv, HasRdi,
       Landed, Active
  <2>9. QED
    BY <2>4, <2>5, <2>6, <2>7, <2>8
<1>4. CASE DataPush(w)
  BY <1>4 DEF DataPush, Goto, row, jobs, hope, TypeOK, RowInv, JobInv, HopeInv, FreshInv, PrepInv, SenderInv, OpenInv,
     OneSenderPerAttempt, TrackedImport, SuccessInv, NoPushDuringCleanup, PrepTask,
     DataTask, HasRdi, Sending, Landed, Active, Steps, PrepSteps, DataSteps
<1>5. CASE DataComplete(w)
  <2> USE <1>5 DEF DataComplete, Goto, row, jobs
  <2>1. mine[w] \in Rdis
    BY DEF OpenInv, HasRdi
  \* an RDI that can still be completed is the one of the row
  <2>2. rdi' # rdi => /\ hopeRdi = mine[w]
                      /\ rdi[mine[w]] = "open"
                      /\ rdi' = [rdi EXCEPT ![mine[w]] = "complete"]
    BY DEF OpenInv
  <2>3. TypeOK'
    BY DEF TypeOK, Steps, DataSteps, RdiStates
  <2>4. RowInv' /\ JobInv' /\ OneSenderPerAttempt'
    BY DEF TypeOK, RowInv, JobInv, OneSenderPerAttempt, NoPushDuringCleanup, PrepTask,
       DataTask, Sending, PrepSteps, DataSteps
  <2>5. HopeInv' /\ FreshInv' /\ PrepInv'
    BY <2>1, <2>2 DEF TypeOK, HopeInv, FreshInv, PrepInv
  <2>6. SenderInv'
    BY <2>1, <2>2 DEF TypeOK, SenderInv, Active, HasRdi, Landed
  <2>7. OpenInv' /\ TrackedImport' /\ SuccessInv'
    BY <2>1, <2>2 DEF TypeOK, OpenInv, TrackedImport, SuccessInv, HasRdi, Landed
  <2>8. QED
    BY <2>3, <2>4, <2>5, <2>6, <2>7
<1>6. CASE DataFinish(w)
  <2> USE <1>6 DEF DataFinish, Goto, FinishSuccessfulPush, row, jobs, hope
  <2>1. task[w] \in dataJobs
    BY DEF JobInv, DataTask, DataSteps
  <2>2. CASE ~(Active(task[w]) /\ hopeRdi = mine[w])
    BY <2>1, <2>2 DEF TypeOK, RowInv, JobInv, HopeInv, FreshInv, PrepInv, SenderInv, OpenInv,
       OneSenderPerAttempt, TrackedImport, SuccessInv, NoPushDuringCleanup, PrepTask,
       DataTask, HasRdi, Sending, Landed, Active, Steps, PrepSteps, DataSteps
  <2>3. CASE Active(task[w]) /\ hopeRdi = mine[w]
    <3>1. mine[w] \in Rdis /\ Landed(mine[w]) /\ \A b \in Attempts : resetId[b] # mine[w]
      BY <2>3 DEF SenderInv, OpenInv, HasRdi
    <3>2. removed' \in BOOLEAN
      BY <2>3
    <3>3. TypeOK'
      BY <2>3, <3>1, <3>2 DEF TypeOK, Statuses, Steps
    <3>4. RowInv' /\ HopeInv' /\ FreshInv'
      BY <2>3, <3>1 DEF RowInv, HopeInv, FreshInv, NoPushDuringCleanup, Active
    <3>5. JobInv' /\ PrepInv' /\ OneSenderPerAttempt'
      BY <2>3 DEF TypeOK, JobInv, PrepInv, OneSenderPerAttempt, PrepTask, DataTask,
         Sending, PrepSteps, DataSteps
    <3>6. SenderInv' /\ OpenInv' /\ TrackedImport' /\ SuccessInv'
      BY <2>3, <3>1 DEF TypeOK, SenderInv, OpenInv, TrackedImport, SuccessInv, Active,
         HasRdi, Landed
    <3>7. QED
      BY <3>3, <3>4, <3>5, <3>6
  <2>4. QED
    BY <2>2, <2>3
<1>7. CASE DataFail(w)
  <2>1. task[w] \in Attempts
    BY <1>7 DEF DataFail, TypeOK, JobInv, DataTask
  <2>2. mine[w] \in Rdis => rdi[mine[w]] # "absent"
    BY DEF FreshInv
  <2>3. QED
    BY <1>7, <2>1, <2>2, FailPreserves DEF DataFail, Goto
<1>8. QED
  BY <1>1, <1>2, <1>3, <1>4, <1>5, <1>6, <1>7

\* Starting, failing or losing a job changes only what is queued and running.
LEMMA WorkerPreserves ==
  ASSUME IInv, NEW w \in Workers, Raise(w) \/ Crash(w) \/ \E d \in queue : Take(w, d)
  PROVE  IInv'
<1> USE DEF IInv
<1>1. CASE Raise(w)
  BY <1>1 DEF Raise, Goto, row, jobs, hope, Steps, PrepSteps, DataSteps, TypeOK, RowInv, JobInv, HopeInv, FreshInv, PrepInv, SenderInv, OpenInv,
     OneSenderPerAttempt, TrackedImport, SuccessInv, NoPushDuringCleanup, PrepTask,
     DataTask, HasRdi, Sending, Landed, Active
<1>2. CASE Crash(w)
  <2>1. task[w] \in prepJobs /\ task[w] \in Attempts
    BY <1>2 DEF Crash, TypeOK, JobInv, PrepTask, DataTask, Steps
  <2>2. PrepTask(w) \/ DataTask(w)
    BY <1>2 DEF Crash, TypeOK, PrepTask, DataTask, Steps
  <2>3. QED
    BY <1>2, <2>1, <2>2, ConstantsAssumption DEF Crash, Fault, Goto, row, jobs, hope, Prep,
       Data, Deliveries, Steps, PrepSteps, DataSteps, TypeOK, RowInv, JobInv, HopeInv, FreshInv, PrepInv, SenderInv, OpenInv,
     OneSenderPerAttempt, TrackedImport, SuccessInv, NoPushDuringCleanup, PrepTask,
     DataTask, HasRdi, Sending, Landed, Active
<1>3. CASE \E d \in queue : Take(w, d)
  <2>1. PICK d \in queue : Take(w, d)
    BY <1>3
  <2>2. /\ d.attempt \in Attempts
        /\ d.kind = "prep" => d = Prep(d.attempt)
        /\ d.kind # "prep" => d = Data(d.attempt)
    BY DEF TypeOK, Deliveries, Prep, Data
  <2>3. QED
    BY <2>1, <2>2, ConstantsAssumption DEF Take, row, jobs, hope, Prep, Data, Deliveries,
       Steps, PrepSteps, DataSteps, TypeOK, RowInv, JobInv, HopeInv, FreshInv, PrepInv, SenderInv, OpenInv,
     OneSenderPerAttempt, TrackedImport, SuccessInv, NoPushDuringCleanup, PrepTask,
     DataTask, HasRdi, Sending, Landed, Active
<1>4. QED
  BY <1>1, <1>2, <1>3

\* A lost delivery queues less, a repeated one only jobs of the database.
LEMMA QueuePreserves ==
  ASSUME IInv, LoseDelivery \/ Redeliver
  PROVE  IInv'
BY ConstantsAssumption DEF LoseDelivery, Redeliver, Fault, IInv, row, jobs, work, hope, Prep,
   Data, Deliveries, TypeOK, RowInv, JobInv, HopeInv, FreshInv, PrepInv, SenderInv, OpenInv,
   OneSenderPerAttempt, TrackedImport, SuccessInv, NoPushDuringCleanup, PrepTask,
   DataTask, HasRdi, Sending, Landed, Active

\* HOPE deletes an RDI only on a request it got: never one that a current sender or a
\* successful RDP needs.
LEMMA HopePreserves ==
  ASSUME IInv,
         HopeResetFails \/ \E r \in Rdis : HopeResetDone(r) \/ HopeMerge(r)
  PROVE  IInv'
<1> USE DEF IInv
<1>1. CASE HopeResetFails
  BY <1>1 DEF HopeResetFails, row, jobs, work, TypeOK, RowInv, JobInv, HopeInv, FreshInv, PrepInv, SenderInv, OpenInv,
     OneSenderPerAttempt, TrackedImport, SuccessInv, NoPushDuringCleanup, PrepTask,
     DataTask, HasRdi, Sending, Landed, Active
<1>2. ASSUME NEW r \in Rdis, HopeMerge(r) PROVE IInv'
  BY <1>2 DEF HopeMerge, row, jobs, work, RdiStates, TypeOK, RowInv, JobInv, HopeInv, FreshInv, PrepInv, SenderInv, OpenInv,
     OneSenderPerAttempt, TrackedImport, SuccessInv, NoPushDuringCleanup, PrepTask,
     DataTask, HasRdi, Sending, Landed, Active
<1>3. ASSUME NEW r \in Rdis, HopeResetDone(r) PROVE IInv'
  <2> USE <1>3 DEF HopeResetDone, row, jobs, work
  <2>1. /\ rdi' = [rdi EXCEPT ![r] = "deleted"]
        /\ rdi[r] \in {"open", "complete"}
        /\ \E b \in Attempts : resetId[b] = r
    BY DEF TypeOK, HopeInv
  <2>2. TypeOK' /\ RowInv' /\ JobInv'
    BY DEF TypeOK, RowInv, JobInv, NoPushDuringCleanup, PrepTask, DataTask, RdiStates
  <2>3. HopeInv'
    BY DEF TypeOK, HopeInv
  <2>4. FreshInv' /\ PrepInv' /\ OneSenderPerAttempt'
    BY <2>1 DEF TypeOK, FreshInv, PrepInv, OneSenderPerAttempt, Sending
  <2>5. SenderInv' /\ OpenInv' /\ TrackedImport' /\ SuccessInv'
    BY <2>1 DEF TypeOK, SenderInv, OpenInv, TrackedImport, SuccessInv, HasRdi, Landed, Active
  <2>6. QED
    BY <2>2, <2>3, <2>4, <2>5
<1>4. QED
  BY <1>1, <1>2, <1>3

\* One case per action of Next.
LEMMA NextPreserves == IInv /\ [Next]_vars => IInv'
<1> SUFFICES ASSUME IInv, [Next]_vars PROVE IInv'
  OBVIOUS
<1>1. CASE Users
  BY <1>1, UsersPreserve
<1>2. ASSUME NEW a \in Attempts, FailStuck(a) \/ CallbackRaises(a) PROVE IInv'
  <2>1. hopeRdi \in Rdis => rdi[hopeRdi] # "absent"
    BY DEF IInv, FreshInv
  <2>2. CASE FailStuck(a)
    BY <2>1, <2>2, FailPreserves DEF FailStuck, work
  <2>3. CASE CallbackRaises(a)
    BY <2>3, FailPreserves, ConstantsAssumption DEF CallbackRaises, work
  <2>4. QED
    BY <1>2, <2>2, <2>3
<1>3. ASSUME NEW a \in Attempts, Callback(a) PROVE IInv'
  <2>1. a \in prepJobs /\ rdi[resetId[a]] = "deleted"
    BY <1>3 DEF Callback, IInv, HopeInv
  <2>2. QED
    BY <1>3, <2>1, SchedulePreserves DEF Callback, work
<1>4. ASSUME NEW w \in Workers, Run(w) PROVE IInv'
  BY <1>4, PrepPreserves, DataPreserves, WorkerPreserves DEF Run
<1>5. ASSUME NEW w \in Workers, Crash(w) \/ \E d \in queue : Take(w, d) PROVE IInv'
  BY <1>5, WorkerPreserves
<1>6. CASE HopeResetFails \/ \E r \in Rdis : HopeResetDone(r) \/ HopeMerge(r)
  BY <1>6, HopePreserves
<1>7. CASE LoseDelivery \/ Redeliver
  BY <1>7, QueuePreserves
<1>8. CASE UNCHANGED vars
  BY <1>8 DEF vars, IInv, row, jobs, work, hope, TypeOK, RowInv, JobInv, HopeInv, FreshInv, PrepInv, SenderInv, OpenInv,
     OneSenderPerAttempt, TrackedImport, SuccessInv, NoPushDuringCleanup, PrepTask,
     DataTask, HasRdi, Sending, Landed, Active
<1>9. QED
  BY <1>1, <1>2, <1>3, <1>4, <1>5, <1>6, <1>7, <1>8 DEF Next

-----------------------------------------------------------------------------
(* The theorems.                                                           *)

\* The inductive invariant holds throughout.
LEMMA Invariance == Spec => []IInv
BY InitIInv, NextPreserves, PTL DEF Spec

\* The variables of RdpPush keep their types.
THEOREM TypeCorrect == Spec => []TypeOK
BY Invariance, PTL DEF IInv

\* No data in HOPE but that of the RDI the row names.
THEOREM ImportTracked == Spec => []TrackedImport
BY Invariance, PTL DEF IInv

\* SUCCESS is announced exactly for delivered, hidden beneficiaries.
THEOREM SuccessDelivered == Spec => []SuccessIsDelivered
<1>1. IInv => SuccessIsDelivered
  BY DEF IInv, RowInv, SuccessInv, SuccessIsDelivered
<1>2. QED
  BY <1>1, Invariance, PTL

\* One sender per attempt, however often its data job is delivered.
THEOREM SingleSender == Spec => []OneSenderPerAttempt
BY Invariance, PTL DEF IInv

\* A cleanup and a pending push exclude each other.
THEOREM CleanupExcludesPush == Spec => []NoPushDuringCleanup
BY Invariance, PTL DEF IInv, RowInv

\* A step of a worker whose attempt is not the one of the row leaves row and removal alone.
THEOREM StaleInert == Spec => StaleJobsAreInert
<1> DEFINE Stale(w) == pc[w] # "idle" /\ task[w] # attempt /\ pc'[w] # pc[w]
<1>1. ASSUME TypeOK, Next, NEW w \in Workers, Stale(w)
      PROVE  UNCHANGED <<row, removed>>
  <2> USE DEF TypeOK, row
  <2>1. ASSUME NEW v \in Workers, Run(v) PROVE UNCHANGED <<row, removed>>
    <3>1. CASE v # w
      <4>1. pc'[w] = pc[w]
        BY <1>1, <2>1, <3>1 DEF Run, PrepLock, PrepReset, PrepSchedule, PrepMerged, PrepFail,
           DataClaim, DataCreate, DataSave, DataPush, DataComplete, DataFinish, DataFail,
           Raise, Goto
      <4>2. QED
        BY <1>1, <4>1
    <3>2. CASE v = w
      <4>1. ~Active(task[v])
        BY <1>1, <3>2 DEF Active
      <4>2. QED
        BY <2>1, <4>1 DEF Run, PrepLock, PrepReset, PrepSchedule, PrepMerged, PrepFail,
           DataClaim, DataCreate, DataSave, DataPush, DataComplete, DataFinish, DataFail,
           Raise, SchedulePushData, FailPendingPush
    <3>3. QED
      BY <3>1, <3>2
  <2>2. ASSUME NEW v \in Workers, Crash(v) \/ \E d \in queue : Take(v, d)
        PROVE  UNCHANGED <<row, removed>>
    BY <2>2 DEF Crash, Fault, Take
  <2>3. ASSUME pc' = pc PROVE FALSE
    BY <1>1, <2>3
  <2>4. Users => pc' = pc
    BY DEF Users, Evaluate, ReviewPush, RetryPush, Cancel, Reset, CleanProgram, StartPush, work
  <2>5. \A a \in Attempts : FailStuck(a) \/ Callback(a) \/ CallbackRaises(a) => pc' = pc
    BY DEF FailStuck, Callback, CallbackRaises, work
  <2>6. \A r \in Rdis : HopeResetDone(r) \/ HopeMerge(r) => pc' = pc
    BY DEF HopeResetDone, HopeMerge, work
  <2>7. HopeResetFails \/ LoseDelivery \/ Redeliver => pc' = pc
    BY DEF HopeResetFails, LoseDelivery, Redeliver, work
  <2>8. QED
    BY <1>1, <2>1, <2>2, <2>3, <2>4, <2>5, <2>6, <2>7 DEF Next
<1>2. TypeOK /\ [Next]_vars
        => [\A w \in Workers : Stale(w) => UNCHANGED <<row, removed>>]_vars
  BY <1>1
<1>3. QED
  BY <1>2, TypeCorrect, PTL DEF Spec, StaleJobsAreInert

\* RdpPush implements the promise of RdpStatus.
THEOREM PromiseKept == Spec => PromiseSpec
<1> DEFINE Delivered == \E r \in Rdis : Landed(r)
<1>1. Init => Promise!Init
  BY DEF Init, Promise!Init, Landed
<1>2. ASSUME NEW a, NEW r, FailPendingPush(a, r)
      PROVE  status' = status \/ (status = "PUSH_PENDING" /\ status' = "FAILURE")
  BY <1>2 DEF FailPendingPush, Active, row
<1>3. ASSUME NEW a, SchedulePushData(a) PROVE status' = status
  BY <1>3 DEF SchedulePushData, row
<1>4. ASSUME IInv, Next PROVE [Promise!Next]_Promise!vars
  <2> USE <1>4 DEF Delivered
  <2>1. CASE Users
    <3>1. Delivered' = Delivered
      BY <2>1 DEF Users, Evaluate, ReviewPush, RetryPush, Cancel, Reset, CleanProgram,
         StartPush, Landed, hope
    <3>2. \/ status' = status
          \/ status \in {"PENDING", "REVIEW_PENDING", "FAILURE"} /\ status' = "PUSH_PENDING"
          \/ status = "PENDING" /\ status' = "REVIEW_PENDING"
          \/ /\ status \in {"PENDING", "FAILURE", "REVIEW_PENDING", "SUCCESS"}
             /\ status' = "CANCELLED"
      BY <2>1 DEF Users, Evaluate, ReviewPush, RetryPush, Cancel, Reset, CleanProgram,
         StartPush, MarkCancelled, row
    <3>3. QED
      BY <3>1, <3>2 DEF Promise!Next, Promise!vars, Promise!StartPush, Promise!RequireReview,
         Promise!Cancel
  <2>2. ASSUME NEW a \in Attempts, FailStuck(a) \/ Callback(a) \/ CallbackRaises(a)
        PROVE  [Promise!Next]_Promise!vars
    <3>1. Delivered' = Delivered
      BY <2>2 DEF FailStuck, Callback, CallbackRaises, Landed, hope
    <3>2. status' = status \/ (status = "PUSH_PENDING" /\ status' = "FAILURE")
      BY <2>2, <1>2, <1>3 DEF FailStuck, Callback, CallbackRaises
    <3>3. QED
      BY <3>1, <3>2 DEF Promise!Next, Promise!vars, Promise!Fail
  <2>3. ASSUME NEW w \in Workers,
               PrepLock(w) \/ PrepReset(w) \/ PrepSchedule(w) \/ PrepFail(w) \/ DataClaim(w)
                 \/ DataSave(w) \/ DataPush(w) \/ DataFail(w) \/ Raise(w) \/ Crash(w)
                 \/ \E d \in queue : Take(w, d)
        PROVE  [Promise!Next]_Promise!vars
    <3>1. Delivered' = Delivered
      BY <2>3 DEF PrepLock, PrepReset, PrepSchedule, PrepFail, DataClaim, DataSave, DataPush,
         DataFail, Raise, Crash, Fault, Take, Landed, hope
    <3>2. status' = status \/ (status = "PUSH_PENDING" /\ status' = "FAILURE")
      BY <2>3, <1>2, <1>3 DEF PrepLock, PrepReset, PrepSchedule, PrepFail, DataClaim, DataSave,
         DataPush, DataFail, Raise, Crash, Fault, Take, row
    <3>3. QED
      BY <3>1, <3>2 DEF Promise!Next, Promise!vars, Promise!Fail
  \* The two ways to SUCCESS: HOPE holds the data.
  <2>4. ASSUME NEW w \in Workers, PrepMerged(w) \/ DataFinish(w)
        PROVE  [Promise!Next]_Promise!vars
    <3>1. Delivered' = Delivered
      BY <2>4 DEF PrepMerged, DataFinish, Landed, hope
    <3>2. CASE status' # status
      <4>1. Active(task[w]) /\ status' = "SUCCESS"
        BY <2>4, <3>2 DEF PrepMerged, DataFinish, FinishSuccessfulPush, row
      <4>2. Delivered
        <5>1. CASE PrepMerged(w)
          BY <5>1 DEF PrepMerged, IInv, PrepInv, Landed
        <5>2. CASE DataFinish(w)
          BY <4>1, <5>2 DEF DataFinish, IInv, SenderInv, OpenInv, HasRdi
        <5>3. QED
          BY <2>4, <5>1, <5>2
      <4>3. QED
        BY <3>1, <4>1, <4>2 DEF Promise!Next, Promise!Succeed, Active
    <3>3. QED
      BY <3>1, <3>2 DEF Promise!vars
  <2>5. ASSUME NEW w \in Workers, DataCreate(w)
        PROVE  [Promise!Next]_Promise!vars
    <3>1. Delivered' = Delivered
      BY <2>5 DEF DataCreate, Landed, IInv, TypeOK
    <3>2. QED
      BY <2>5, <3>1 DEF DataCreate, row, Promise!vars
  <2>6. ASSUME NEW w \in Workers, DataComplete(w)
        PROVE  [Promise!Next]_Promise!vars
    <3>1. status' = status
      BY <2>6 DEF DataComplete, row
    <3>2. CASE rdi' = rdi
      BY <3>1, <3>2 DEF Landed, Promise!vars
    <3>3. CASE rdi' # rdi
      <4>1. mine[w] \in Rdis /\ rdi' = [rdi EXCEPT ![mine[w]] = "complete"]
        BY <2>6, <3>3 DEF DataComplete, IInv, OpenInv, HasRdi
      <4>2. Delivered'
        BY <4>1 DEF IInv, TypeOK, Landed
      <4>3. status \notin {"PENDING", "REVIEW_PENDING"}
        BY <2>6 DEF DataComplete, IInv, RowInv, JobInv, DataTask, DataSteps
      <4>4. QED
        BY <3>1, <4>2, <4>3 DEF Promise!Next, Promise!Deliver
    <3>4. QED
      BY <3>2, <3>3
  <2>7. ASSUME NEW r \in Rdis, HopeMerge(r)
        PROVE  [Promise!Next]_Promise!vars
    <3>1. Delivered' = Delivered
      BY <2>7 DEF HopeMerge, Landed, IInv, TypeOK
    <3>2. QED
      BY <2>7, <3>1 DEF HopeMerge, row, Promise!vars
  \* A reset never touches the RDI of a successful RDP.
  <2>8. ASSUME NEW r \in Rdis, HopeResetDone(r)
        PROVE  [Promise!Next]_Promise!vars
    <3>1. /\ status' = status
          /\ rdi' = [rdi EXCEPT ![r] = "deleted"]
          /\ \E b \in prepJobs : resetId[b] = r
          /\ rdi[r] # "merged"
      BY <2>8 DEF HopeResetDone, row, IInv, HopeInv
    <3>2. CASE Delivered' = Delivered
      BY <3>1, <3>2 DEF Promise!vars
    <3>3. CASE Delivered' # Delivered
      <4>1. Delivered' => Delivered
        BY <3>1 DEF IInv, TypeOK, Landed
      <4>2. Delivered' = FALSE
        BY <3>3, <4>1
      <4>3. status # "SUCCESS"
        BY <3>1, <4>2 DEF IInv, TypeOK, SuccessInv, Landed
      <4>4. status \notin {"PENDING", "REVIEW_PENDING"}
        BY <3>1 DEF IInv, RowInv
      <4>5. QED
        BY <3>1, <4>2, <4>3, <4>4 DEF IInv, TypeOK, Statuses, Promise!Next, Promise!Withdraw
    <3>4. QED
      BY <3>2, <3>3
  <2>9. CASE HopeResetFails \/ LoseDelivery \/ Redeliver
    BY <2>9 DEF HopeResetFails, LoseDelivery, Redeliver, Fault, Landed, row, hope,
       Promise!vars
  <2>10. QED
    BY <2>1, <2>2, <2>3, <2>4, <2>5, <2>6, <2>7, <2>8, <2>9 DEF Next, Run
<1>5. UNCHANGED vars => UNCHANGED Promise!vars
  BY DEF vars, row, hope, Promise!vars, Landed
<1>6. IInv /\ [Next]_vars => [Promise!Next]_Promise!vars
  BY <1>4, <1>5
<1>7. QED
  BY <1>1, <1>6, Invariance, PTL DEF Spec, PromiseSpec, Promise!Spec
=============================================================================
