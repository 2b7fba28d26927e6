------------------------------ MODULE OnaImport ------------------------------
(***************************************************************************)
(* The incremental import of one ONA / INFORM form into one program        *)
(* (contrib/ona): pages of submissions that ONA sorts by id, a cursor in   *)
(* SyncLog, a timebox with continuations, and a lock in Redis that admits  *)
(* one import of the form at a time to the loop over the submissions.      *)
(*                                                                         *)
(* A run is one execution of a job by a worker, and a batch is named after *)
(* the run that creates it.  As for Kobo, the broker may deliver a message *)
(* more than once.  The lock of the group of jobs is left out: it delays a *)
(* continuation, which the lock of the form does anyway.                   *)
(***************************************************************************)
EXTENDS Naturals, Sequences, FiniteSets

CONSTANTS
  MaxPosted,       \* bound on submissions
  PageSize,        \* OnaClient.page_size
  MaxRequests,     \* bound on imports that users request
  MaxJobs,         \* bound on jobs, continuations included
  MaxRedelivered,  \* bound on messages delivered again while the job runs
  MaxCrashes,      \* bound on dead workers
  MaxDeleted       \* bound on submissions that are deleted in ONA

OnaAssumption ==
  /\ {MaxPosted, MaxRequests, MaxJobs, MaxRedelivered, MaxCrashes, MaxDeleted} \subseteq Nat
  /\ PageSize \in Nat \ {0}

VARIABLES
  posted,      \* the last id ONA has given
  deleted,     \* ids of deleted submissions
  cursor,      \* SyncLog.last_id, 0 if there is none
  jobs,        \* the AsyncJobs: the batch of each
  queued,      \* jobs that have a message to deliver
  runs,        \* the executions: [job, at, batch, base, last, page, start]
  lock,        \* the run that holds lock:ona-import
  status,      \* Batch.status
  made,        \* the imported submissions in order: [id, batch]
  requests, redelivered, crashes

vars == <<posted, deleted, cursor, jobs, queued, runs, lock, status, made, requests,
          redelivered, crashes>>

MaxRuns == MaxJobs + MaxRedelivered + MaxCrashes
Runs    == 1..MaxRuns
None    == 0
InLoop  == {"page", "import"}
Working == {"setup", "lock", "timebox", "drained"} \cup InLoop
Ended   == {"done", "failed", "dead"}

Init ==
  /\ posted = 0 /\ deleted = {} /\ cursor = 0
  /\ jobs = <<>> /\ queued = {} /\ runs = <<>> /\ lock = None
  /\ status = [b \in Runs |-> "none"] /\ made = <<>>
  /\ requests = 0 /\ redelivered = 0 /\ crashes = 0

At(r, step) == r \in DOMAIN runs /\ runs[r].at = step
Active      == {r \in DOMAIN runs : runs[r].at \in Working}
BatchOf(r)  == runs[r].batch
Go(r, step) == runs' = [runs EXCEPT ![r].at = step]
\* a run that leaves the loop forgets its place
Leave(r, step) ==
  runs' = [runs EXCEPT ![r] = [@ EXCEPT !.at = step, !.base = 0, !.last = 0,
                                        !.page = {}, !.start = 0]]
source == <<posted, deleted>>
bounds == <<requests, redelivered, crashes>>

-----------------------------------------------------------------------------
(* ONA, the user and the broker.                                           *)

Submit ==
  /\ posted < MaxPosted
  /\ posted' = posted + 1
  /\ UNCHANGED <<deleted, cursor, jobs, queued, runs, lock, status, made, bounds>>

Delete(id) ==
  /\ id \in (1..posted) \ deleted /\ Cardinality(deleted) < MaxDeleted
  /\ deleted' = deleted \cup {id}
  /\ UNCHANGED <<posted, cursor, jobs, queued, runs, lock, status, made, bounds>>

NewJob(b) == jobs' = Append(jobs, b) /\ queued' = queued \cup {Len(jobs) + 1}

\* the import page creates the job and queues it
RequestImport ==
  /\ requests < MaxRequests /\ Len(jobs) < MaxJobs
  /\ requests' = requests + 1
  /\ NewJob(None)
  /\ UNCHANGED <<source, cursor, runs, lock, status, made, redelivered, crashes>>

Deliver(j) ==
  /\ j \in queued /\ Len(runs) < MaxRuns
  /\ queued' = queued \ {j}
  /\ runs' = Append(runs, [job |-> j, at |-> "setup", batch |-> jobs[j],
                           base |-> 0, last |-> 0, page |-> {}, start |-> 0])
  /\ UNCHANGED <<source, cursor, jobs, lock, status, made, bounds>>

Redeliver(r) ==
  /\ r \in Active /\ redelivered < MaxRedelivered
  /\ redelivered' = redelivered + 1
  /\ queued' = queued \cup {runs[r].job}
  /\ UNCHANGED <<source, cursor, jobs, runs, lock, status, made, requests, crashes>>

\* the worker dies; its message is delivered again
Crash(r) ==
  /\ r \in Active /\ crashes < MaxCrashes
  /\ crashes' = crashes + 1
  /\ Leave(r, "dead")
  /\ queued' = queued \cup {runs[r].job}
  /\ UNCHANGED <<source, cursor, jobs, lock, status, made, requests, redelivered>>

\* nobody renews the lock of a dead worker
Expire ==
  /\ lock # None /\ runs[lock].at = "dead"
  /\ lock' = None
  /\ UNCHANGED <<source, cursor, jobs, queued, runs, status, made, bounds>>

-----------------------------------------------------------------------------
(* The job.                                                                *)

\* import_data: create or lock the batch, LOADING
Setup(r) ==
  LET b == IF BatchOf(r) = None THEN r ELSE BatchOf(r) IN
  /\ At(r, "setup")
  /\ runs' = [runs EXCEPT ![r].at = "lock", ![r].batch = b]
  /\ jobs' = [jobs EXCEPT ![runs[r].job] = b]
  /\ status' = [status EXCEPT ![b] = "LOADING"]
  /\ UNCHANGED <<source, cursor, queued, lock, made, bounds>>

\* Mutant of Enter: the loop does not ask for the lock.
EnterUnlocked(r) ==
  /\ At(r, "lock")
  /\ lock' = r
  /\ runs' = [runs EXCEPT ![r].at = "page", ![r].base = cursor, ![r].last = cursor]
  /\ UNCHANGED <<source, cursor, jobs, queued, status, made, bounds>>

\* takes the lock of the form and reads the cursor
Enter(r) ==
  /\ At(r, "lock")
  /\ lock = None /\ lock' = r
  /\ runs' = [runs EXCEPT ![r].at = "page", ![r].base = cursor, ![r].last = cursor]
  /\ UNCHANGED <<source, cursor, jobs, queued, status, made, bounds>>

\* what ONA answers: submissions after the cursor, by id, a page from the offset on
Listed(r)    == {id \in (1..posted) \ deleted : id > runs[r].base}
Place(r, id) == Cardinality({k \in Listed(r) : k <= id})
Page(r)      == {id \in Listed(r) : runs[r].start < Place(r, id) /\ Place(r, id) <= runs[r].start + PageSize}

\* iter_submissions: the offset moves on by what came
FetchPage(r) ==
  /\ At(r, "page") /\ Page(r) # {}
  /\ runs' = [runs EXCEPT ![r].at = "import", ![r].page = Page(r),
                          ![r].start = @ + Cardinality(Page(r))]
  /\ UNCHANGED <<source, cursor, jobs, queued, lock, status, made, bounds>>

\* the next submission of the page, in its own transaction; those up to the cursor are skipped
ImportSubmission(r) ==
  /\ At(r, "import")
  /\ \E id \in runs[r].page :
       LET rest == runs[r].page \ {id}
           new  == id > runs[r].base IN
       /\ \A k \in runs[r].page : id <= k
       /\ made' = IF new THEN Append(made, [id |-> id, batch |-> BatchOf(r)]) ELSE made
       /\ runs' = [runs EXCEPT ![r].at = IF rest = {} THEN "page" ELSE "import",
                               ![r].page = rest, ![r].last = IF new THEN id ELSE @]
  /\ UNCHANGED <<source, cursor, jobs, queued, lock, status, bounds>>

\* the finally clause of import_submissions
Save(r) == cursor' = IF runs[r].last # runs[r].base THEN runs[r].last ELSE cursor

\* leaves the loop: the cursor is saved and the lock released
LeaveLoop(r, step) ==
  /\ Leave(r, step) /\ Save(r)
  /\ lock' = IF lock = r THEN None ELSE lock
  /\ UNCHANGED <<source, jobs, queued, status, made, bounds>>

\* the time is up after a submission
Timebox(r) == (At(r, "import") \/ At(r, "page")) /\ runs[r].last > runs[r].base /\ LeaveLoop(r, "timebox")

Drain(r) == At(r, "page") /\ Page(r) = {} /\ LeaveLoop(r, "drained")

\* a page or a submission fails, or the job is cancelled
Fail(r) == (At(r, "import") \/ At(r, "page")) /\ LeaveLoop(r, "failed")

\* a cancellation or an error outside of the loop
Stop(r) ==
  /\ r \in Active /\ runs[r].at \notin InLoop
  /\ Go(r, "failed")
  /\ UNCHANGED <<source, cursor, jobs, queued, lock, status, made, bounds>>

\* a continuation for the batch
Continue(r) ==
  /\ At(r, "timebox") /\ Len(jobs) < MaxJobs
  /\ NewJob(BatchOf(r))
  /\ Go(r, "done")
  /\ UNCHANGED <<source, cursor, lock, status, made, bounds>>

\* post-processing, validation jobs, COMPLETE
Complete(r) ==
  /\ At(r, "drained")
  /\ status' = [status EXCEPT ![BatchOf(r)] = "COMPLETE"]
  /\ Go(r, "done")
  /\ UNCHANGED <<source, cursor, jobs, queued, lock, made, bounds>>

-----------------------------------------------------------------------------
Work(r) ==
  \/ Setup(r) \/ FetchPage(r) \/ ImportSubmission(r) \/ Timebox(r) \/ Drain(r)
  \/ Fail(r) \/ Stop(r) \/ Continue(r) \/ Complete(r)

Next ==
  \/ Submit \/ RequestImport \/ Expire
  \/ \E id \in 1..MaxPosted : Delete(id)
  \/ \E j \in 1..MaxJobs : Deliver(j)
  \/ \E r \in Runs : Enter(r) \/ Work(r) \/ Redeliver(r) \/ Crash(r)

Spec == Init /\ [][Next]_vars

-----------------------------------------------------------------------------
(* Properties.                                                             *)

ImportedIds == [n \in DOMAIN made |-> made[n].id]
Copies(id)  == Cardinality({n \in DOMAIN made : made[n].id = id})

\* The types, and: the lock belongs to a run in the loop or to a dead one.
TypeOK ==
  /\ posted \in 0..MaxPosted /\ cursor \in 0..MaxPosted
  /\ \A j \in DOMAIN jobs : jobs[j] \in Runs \cup {None}
  /\ queued \subseteq DOMAIN jobs
  /\ \A r \in DOMAIN runs : runs[r].at \in Working \cup Ended
  /\ status \in [Runs -> {"none", "LOADING", "COMPLETE"}]
  /\ lock = None \/ runs[lock].at \in InLoop \cup {"dead"}
  /\ \A r \in DOMAIN runs : runs[r].at \in InLoop => lock = r

\* A submission behind the cursor is missing only when a submission before it was deleted
\* in ONA (iter_submissions counts an offset in a list that a deletion shortens): there are
\* never more of the former than of the latter.
SkipsAreDeletions ==
  LET skipped == {id \in 1..cursor : id \notin deleted /\ Copies(id) = 0} IN
  Cardinality(skipped) <= Cardinality(deleted)

\* A submission is created again only by what a dead worker had not saved, however often
\* jobs are delivered and imports overlap (the lock of the form in import_data).
RepeatsAreCrashes == \A id \in 1..posted : Copies(id) <= 1 + crashes

\* Unless a worker dies, overlapping imports of the form implement ImportOnce.
Once == INSTANCE ImportOnce WITH imported <- ImportedIds, cursor <- cursor, MaxId <- MaxPosted
ImportsOnce == Once!Spec

\* A batch is loading and none of its runs has failed.  An import ends: this does not last.
Loading(b) == status[b] = "LOADING" /\ \A r \in DOMAIN runs : runs[r].batch = b => runs[r].at # "failed"

\* A batch is completed only after the import is fully complete (ona.md:80).
NothingAfterCompletion ==
  [][\A n \in DOMAIN made' : n > Len(made) => status[made'[n].batch] # "COMPLETE"]_vars

-----------------------------------------------------------------------------
(* The inductive invariants.                                               *)

Ids == {made[n].id : n \in DOMAIN made}
Looping(r) == r \in DOMAIN runs /\ runs[r].at \in InLoop

RunRows ==
  [job : Nat, at : Working \cup Ended, batch : Runs \cup {None}, base : Nat, last : Nat,
   page : SUBSET Nat, start : Nat]

Shape ==
  /\ posted \in 0..MaxPosted /\ deleted \subseteq 1..posted /\ cursor \in 0..posted /\ crashes \in Nat
  /\ Ids \subseteq 1..posted
  /\ jobs \in Seq(Runs \cup {None}) /\ queued \subseteq DOMAIN jobs
  /\ runs \in Seq(RunRows) /\ Len(runs) <= MaxRuns
  /\ status \in [Runs -> {"none", "LOADING", "COMPLETE"}]
  /\ made \in Seq([id : Nat, batch : Runs \cup {None}])
  /\ lock \in Nat /\ (lock # None => lock \in DOMAIN runs /\ runs[lock].at \in InLoop \cup {"dead"})
  /\ \A r \in DOMAIN runs : runs[r].job \in DOMAIN jobs
  /\ \A r \in DOMAIN runs : Looping(r) => lock = r /\ runs[r].base = cursor
  /\ \A r \in DOMAIN runs : ~Looping(r) => runs[r].page = {} /\ runs[r].start = 0

\* What the listing of run r has passed over, up to x, when it has fetched P.
Passed(r, P, x) == (runs[r].base + 1)..x \ (deleted \cup P)

\* A run has fetched P, all of it up to top: the pages it has passed over hold no more than
\* was deleted of what it has fetched.
Fetched(r, P, top) ==
  /\ P \subseteq (runs[r].base + 1)..top /\ top \in runs[r].base..posted
  /\ Cardinality(P) = runs[r].start
  /\ runs[r].page \subseteq P /\ (runs[r].at = "page" => runs[r].page = {})
  /\ \A id \in P \ runs[r].page : id <= runs[r].last /\ id \in Ids
  /\ \A id \in runs[r].page : id > runs[r].last
  /\ runs[r].last = runs[r].base \/ runs[r].last \in P \ runs[r].page
  /\ Cardinality(Passed(r, P, top)) <= Cardinality(P \cap deleted)
  /\ \A x \in runs[r].base..top :
       Cardinality(Passed(r, P, x)) <= Cardinality(deleted \cap (runs[r].base + 1)..x)

\* Up to every id behind the cursor no more is missing than is deleted.
Missing(x) == {id \in 1..x : id \notin deleted \cup Ids}
MissingInv == \A x \in 0..cursor : Cardinality(Missing(x)) <= Cardinality(deleted \cap 1..x)

\* How far the imports are: one in the loop, or else the cursor.
Reached(n) == IF \E r \in DOMAIN runs : Looping(r) THEN n = runs[lock].last ELSE n = cursor

\* An id is imported once and once more for every crash, one ahead once less; without
\* crashes the imports go upwards.
CopiesInv ==
  \E n \in 0..posted :
    /\ Reached(n)
    /\ \A id \in 1..posted : Copies(id) <= 1 + crashes /\ (id > n => Copies(id) <= crashes)
    /\ crashes = 0 => n = IF made = <<>> THEN 0 ELSE made[Len(made)].id

Fetching(r) == \E top \in 0..posted : \E P \in SUBSET (1..top) : Fetched(r, P, top)

OnaInv ==
  /\ Shape /\ MissingInv /\ CopiesInv
  /\ \A r \in DOMAIN runs : Looping(r) => Fetching(r)
=============================================================================
