----------------------------- MODULE KoboImport -----------------------------
(***************************************************************************)
(* The incremental import of one Kobo project into one program             *)
(* (contrib/kobo/sync.py): submissions that Kobo numbers upwards, the      *)
(* watermark that SyncLog keeps for the project, jobs that stop at the end *)
(* of a timebox and queue a continuation for their batch.                  *)
(*                                                                         *)
(* A run is one execution of a job by a worker.  Messages are acknowledged *)
(* late, so the broker delivers a job again when its worker dies or takes  *)
(* longer than the visibility timeout.  A batch is named after the run     *)
(* that creates it.  Kobo is assumed to list submissions by ascending id.  *)
(***************************************************************************)
EXTENDS Naturals, Sequences, FiniteSets

CONSTANTS
  MaxPosted,     \* bound on submissions in Kobo
  MaxRequests,   \* bound on imports that users request
  MaxJobs,       \* bound on jobs, continuations included
  MaxFaults      \* bound on dead workers and early redeliveries

KoboAssumption == {MaxPosted, MaxRequests, MaxJobs, MaxFaults} \subseteq Nat

VARIABLES
  posted,      \* the last submission in Kobo
  mark,        \* SyncLog.last_id, 0 if there is none
  jobs,        \* the AsyncJobs: [batch, grouped]
  queued,      \* jobs that have a message to deliver
  runs,        \* the executions: [job, at, batch, base, last, next]
  holder,      \* batch -> the run that holds lock:batch:<pk>
  status,      \* Batch.status
  made,        \* the households: [id, batch, number, run]
  requests, faults,
  wanted,      \* batch -> submissions in Kobo when it was created
  disturbed    \* whether runs overlapped, or a worker died

vars == <<posted, mark, jobs, queued, runs, holder, status, made, requests, faults,
          wanted, disturbed>>

MaxRuns == MaxJobs + MaxFaults
Runs    == 1..MaxRuns
None    == 0
Working == {"setup", "begin", "import", "timebox", "drained"}
Ended   == {"done", "failed", "dead"}

Init ==
  /\ posted = 0 /\ mark = 0 /\ jobs = <<>> /\ queued = {} /\ runs = <<>>
  /\ holder = [b \in Runs |-> None]
  /\ status = [b \in Runs |-> "none"]
  /\ made = {} /\ requests = 0 /\ faults = 0
  /\ wanted = [b \in Runs |-> 0] /\ disturbed = FALSE

At(r, step)   == r \in DOMAIN runs /\ runs[r].at = step
Active        == {r \in DOMAIN runs : runs[r].at \in Working}
BatchOf(r)    == runs[r].batch
Go(r, step)   == runs' = [runs EXCEPT ![r].at = step]
\* a run that ends forgets its counters
End(r, step)  == runs' = [runs EXCEPT ![r] = [@ EXCEPT !.at = step, !.base = 0, !.last = 0, !.next = 0]]
bounds        == <<requests, faults>>
history       == <<wanted, disturbed>>

-----------------------------------------------------------------------------
(* Kobo, the user and the broker.                                          *)

Submit ==
  /\ posted < MaxPosted
  /\ posted' = posted + 1
  /\ UNCHANGED <<mark, jobs, queued, runs, holder, status, made, bounds, history>>

NewJob(j) == jobs' = Append(jobs, j) /\ queued' = queued \cup {Len(jobs) + 1}

\* the import page creates the job and queues it
RequestImport ==
  /\ requests < MaxRequests /\ Len(jobs) < MaxJobs
  /\ requests' = requests + 1
  /\ NewJob([batch |-> None, grouped |-> FALSE])
  /\ UNCHANGED <<posted, mark, runs, holder, status, made, faults, history>>

\* sync_job_task loads the job; lock_job waits for the lock of its group, if it has one
Deliver(j) ==
  /\ j \in queued /\ Len(runs) < MaxRuns
  /\ queued' = queued \ {j}
  /\ LET r == Len(runs) + 1
         b == jobs[j].batch IN
     /\ runs' = Append(runs, [job |-> j, at |-> "setup", batch |-> b,
                              base |-> 0, last |-> 0, next |-> 0])
     /\ IF jobs[j].grouped THEN holder[b] = None /\ holder' = [holder EXCEPT ![b] = r]
                           ELSE UNCHANGED holder
  /\ disturbed' = (disturbed \/ Active # {})
  /\ UNCHANGED <<posted, mark, jobs, status, made, bounds, wanted>>

\* the message of a job that still runs is delivered again
Redeliver(r) ==
  /\ r \in Active /\ faults < MaxFaults
  /\ faults' = faults + 1
  /\ queued' = queued \cup {runs[r].job}
  /\ UNCHANGED <<posted, mark, jobs, runs, holder, status, made, requests, history>>

\* the worker dies, and its message is delivered again
Crash(r) ==
  /\ r \in Active /\ faults < MaxFaults
  /\ faults' = faults + 1
  /\ End(r, "dead")
  /\ queued' = queued \cup {runs[r].job}
  /\ disturbed' = TRUE
  /\ UNCHANGED <<posted, mark, jobs, holder, status, made, requests, wanted>>

\* the lock of a run that has failed or died expires
Expire(b) ==
  /\ holder[b] # None /\ runs[holder[b]].at \in Ended
  /\ holder' = [holder EXCEPT ![b] = None]
  /\ UNCHANGED <<posted, mark, jobs, queued, runs, status, made, bounds, history>>

-----------------------------------------------------------------------------
(* The job.                                                                *)

HouseholdsOf(b) == {h \in made : h.batch = b}

\* import_data: create or lock the batch, and count its households.  The job keeps the
\* batch but not the group key, which save(update_fields=["batch"]) leaves out.
Setup(r) ==
  LET b == IF BatchOf(r) = None THEN r ELSE BatchOf(r) IN
  /\ At(r, "setup")
  /\ runs' = [runs EXCEPT ![r].at = "begin", ![r].batch = b,
                          ![r].next = Cardinality(HouseholdsOf(b)) + 1]
  /\ jobs' = [jobs EXCEPT ![runs[r].job].batch = b]
  /\ status' = [status EXCEPT ![b] = "LOADING"]
  /\ wanted' = [wanted EXCEPT ![b] = IF b = r THEN posted ELSE @]
  /\ UNCHANGED <<posted, mark, queued, holder, made, bounds, disturbed>>

\* import_asset reads the watermark, once
Begin(r) ==
  /\ At(r, "begin")
  /\ runs' = [runs EXCEPT ![r].at = "import", ![r].base = mark, ![r].last = mark]
  /\ UNCHANGED <<posted, mark, jobs, queued, holder, status, made, bounds, history>>

\* the next submission: household, individuals and roles in one transaction
ImportSubmission(r) ==
  LET s == runs[r].last + 1 IN
  /\ At(r, "import") /\ s <= posted
  /\ made' = made \cup {[id |-> s, batch |-> BatchOf(r), number |-> runs[r].next, run |-> r]}
  /\ runs' = [runs EXCEPT ![r].last = s, ![r].next = @ + 1]
  /\ UNCHANGED <<posted, mark, jobs, queued, holder, status, bounds, history>>

\* Mutant of Save: the submission that stopped the run is counted.
SaveCurrent(r) == mark' = IF runs[r].last < posted THEN runs[r].last + 1 ELSE mark

\* the finally clause of import_asset
Save(r) == mark' = IF runs[r].last > runs[r].base THEN runs[r].last ELSE mark

\* the time is up after a submission
Timebox(r) ==
  /\ At(r, "import") /\ runs[r].last > runs[r].base
  /\ Go(r, "timebox") /\ Save(r)
  /\ UNCHANGED <<posted, jobs, queued, holder, status, made, bounds, history>>

\* Kobo has no more submissions
Drain(r) ==
  /\ At(r, "import") /\ runs[r].last >= posted
  /\ Go(r, "drained") /\ Save(r)
  /\ UNCHANGED <<posted, jobs, queued, holder, status, made, bounds, history>>

\* a submission cannot be imported, or the job is cancelled before it
Fail(r) ==
  /\ At(r, "import")
  /\ End(r, "failed") /\ Save(r)
  /\ UNCHANGED <<posted, jobs, queued, holder, status, made, bounds, history>>

\* an error or a cancellation before or after the loop.  The lock is not released.
Stop(r) ==
  /\ r \in Active \ {q \in Active : At(q, "import")}
  /\ End(r, "failed")
  /\ UNCHANGED <<posted, mark, jobs, queued, holder, status, made, bounds, history>>

Released(r) == [b \in Runs |-> IF holder[b] = r THEN None ELSE holder[b]]

\* a continuation for the batch, which AsyncJob.save gives the key of the batch
Continue(r) ==
  /\ At(r, "timebox") /\ Len(jobs) < MaxJobs
  /\ NewJob([batch |-> BatchOf(r), grouped |-> TRUE])
  /\ End(r, "done") /\ holder' = Released(r)
  /\ UNCHANGED <<posted, mark, status, made, bounds, history>>

\* post-processing, validation jobs, COMPLETE
Complete(r) ==
  /\ At(r, "drained")
  /\ status' = [status EXCEPT ![BatchOf(r)] = "COMPLETE"]
  /\ End(r, "done") /\ holder' = Released(r)
  /\ UNCHANGED <<posted, mark, jobs, queued, made, bounds, history>>

-----------------------------------------------------------------------------
Work(r) ==
  \/ Setup(r) \/ Begin(r) \/ ImportSubmission(r) \/ Timebox(r) \/ Drain(r)
  \/ Fail(r) \/ Stop(r) \/ Continue(r) \/ Complete(r)

Next ==
  \/ Submit \/ RequestImport
  \/ \E j \in 1..MaxJobs : Deliver(j)
  \/ \E r \in Runs : Work(r) \/ Redeliver(r) \/ Crash(r) \/ Expire(r)

Spec == Init /\ [][Next]_vars

-----------------------------------------------------------------------------
(* Properties.                                                             *)

\* The types, and: a run that imports has a batch that is marked LOADING or was completed.
TypeOK ==
  /\ posted \in 0..MaxPosted /\ mark \in 0..MaxPosted
  /\ \A j \in DOMAIN jobs : jobs[j].batch \in Runs \cup {None} /\ jobs[j].grouped \in BOOLEAN
  /\ \A j \in DOMAIN jobs : jobs[j].grouped => jobs[j].batch # None
  /\ queued \subseteq DOMAIN jobs
  /\ \A r \in DOMAIN runs : runs[r].job \in DOMAIN jobs /\ runs[r].at \in Working \cup Ended
  /\ holder \in [Runs -> {None} \cup Runs]
  /\ status \in [Runs -> {"none", "LOADING", "COMPLETE"}]
  /\ \A h \in made : h.id \in 1..MaxPosted /\ status[h.batch] # "none"

\* Whatever overlaps, dies or fails: the watermark never passes a submission that was not
\* imported (import_asset saves the last submission it has committed).
NothingSkipped == \A s \in 1..mark : \E h \in made : h.id = s

\* A complete batch means that all that was in Kobo when it was created is imported, over
\* however many runs (import_data completes only the run that has seen the end).
CompleteIsAll ==
  \A b \in Runs : status[b] = "COMPLETE" =>
    \A s \in 1..wanted[b] : \E h \in made : h.id = s

\* While runs neither overlap nor die, a submission is imported once and the households of
\* a batch are numbered 1, 2, ... in the order of the submissions, across continuations.
OnceInOrder ==
  ~disturbed =>
    /\ \A g, h \in made : g.id = h.id => g = h
    /\ \A b \in Runs : {h.number : h \in HouseholdsOf(b)} = 1..Cardinality(HouseholdsOf(b))
    /\ \A g, h \in made : g.batch = h.batch /\ g.id < h.id => g.number < h.number

\* A batch is loading and none of its runs has failed.  An import ends: this does not last.
Loading(b) == status[b] = "LOADING" /\ \A r \in DOMAIN runs : runs[r].batch = b => runs[r].at # "failed"

\* Submissions that were already imported are not created again (kobo.md).
NotCreatedAgain == \A g, h \in made : g.id = h.id => g = h

\* The next run resumes after the last successful submission (comment at sync.py:349).
MarkStays == [][mark' >= mark]_vars

\* household_id is sequential in a batch (get_id_generator).
NumbersDiffer ==
  \A g, h \in made : g.batch = h.batch /\ g.number = h.number => g = h

-----------------------------------------------------------------------------
(* The inductive invariants.                                               *)

Done(s) == \E h \in made : h.id = s

RunRows == [job : Nat, at : Working \cup Ended, batch : Runs \cup {None},
            base : Nat, last : Nat, next : Nat]

\* A batch is named after the run that has set it up.
SetUp(b) == b \in DOMAIN runs /\ runs[b].at # "setup" /\ runs[b].batch = b

Shape ==
  /\ posted \in 0..MaxPosted /\ mark \in 0..posted
  /\ jobs \in Seq([batch : Runs \cup {None}, grouped : BOOLEAN]) /\ queued \subseteq DOMAIN jobs
  /\ runs \in Seq(RunRows) /\ Len(runs) <= MaxRuns
  /\ holder \in [Runs -> Runs \cup {None}]
  /\ status \in [Runs -> {"none", "LOADING", "COMPLETE"}] /\ wanted \in [Runs -> 0..posted]
  /\ \A j \in DOMAIN jobs :
       /\ jobs[j].grouped => jobs[j].batch # None
       /\ jobs[j].batch # None => SetUp(jobs[j].batch)
  /\ \A r \in DOMAIN runs :
       /\ runs[r].job \in DOMAIN jobs
       /\ runs[r].batch # None => SetUp(runs[r].batch)
       /\ runs[r].at \in Working \ {"setup"} => runs[r].batch # None /\ status[runs[r].batch] # "none"
  /\ made \subseteq [id : 1..posted, batch : Runs, number : Nat, run : Runs]
  /\ \A h \in made : status[h.batch] # "none"

\* What a run has gone through is imported, whoever did it.
KoboInv ==
  /\ Shape
  /\ \A s \in 1..mark : Done(s)
  /\ \A r \in DOMAIN runs :
       /\ runs[r].at = "import" => runs[r].last <= posted /\ \A s \in 1..runs[r].last : Done(s)
       /\ runs[r].at = "drained" => \A s \in 1..wanted[runs[r].batch] : Done(s)
  /\ CompleteIsAll

\* How far the imports are while they neither overlap nor die: the run that imports, or the mark.
Reached(n) ==
  IF \E r \in DOMAIN runs : runs[r].at = "import"
  THEN \A r \in DOMAIN runs : runs[r].at = "import" => n = runs[r].last /\ mark = runs[r].base /\ mark <= n
  ELSE n = mark

\* Then a run counts on from the households of its batch.
CalmInv ==
  /\ Shape /\ IsFiniteSet(made)
  /\ ~disturbed =>
       /\ OnceInOrder
       /\ \A q, r \in Active : q = r
       /\ \E n \in 0..posted : Reached(n) /\ {h.id : h \in made} = 1..n
       /\ \A r \in DOMAIN runs : runs[r].at \in {"begin", "import"} =>
            runs[r].next = Cardinality(HouseholdsOf(BatchOf(r))) + 1
=============================================================================
