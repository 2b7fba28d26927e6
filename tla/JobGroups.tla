------------------------------ MODULE JobGroups ------------------------------
(***************************************************************************)
(* Background jobs and the locks of their groups: the jobs of a batch run    *)
(* one after the other, whatever workers take them.  A lock is a lease of 60 *)
(* seconds that a thread of the worker renews; only a job that ends without  *)
(* an exception gives it back.                                               *)
(***************************************************************************)
EXTENDS Naturals, FiniteSets

CONSTANTS
  Jobs, Workers, Groups, NoGroup,
  GroupOf,                        \* "batch:<id>", or none without a batch
  Requests,                       \* staff ask for jobs to be terminated
  MaxDeaths, MaxRedeliveries      \* bounds

ASSUME GroupAssumption ==
  /\ NoGroup \notin Groups
  /\ GroupOf \in [Jobs -> Groups \cup {NoGroup}]
  /\ Requests \in BOOLEAN /\ {MaxDeaths, MaxRedeliveries} \subseteq Nat

Free == [owner |-> "free"]
Idle == [at |-> "idle"]
Outcomes == {"done", "failed", "cancelled"}

VARIABLES
  status,     \* what is known of a job
  queue,      \* messages with the broker
  requested,  \* termination is requested
  worker,     \* the processes: [at, job]
  lock,       \* the lease of every group: [owner, renewed]
  deaths, redeliveries

vars == <<status, queue, requested, worker, lock, deaths, redeliveries>>

Init ==
  /\ status = [j \in Jobs |-> "new"]
  /\ queue = {} /\ requested = {}
  /\ worker = [w \in Workers |-> Idle]
  /\ lock = [g \in Groups |-> Free]
  /\ deaths = 0 /\ redeliveries = 0

-----------------------------------------------------------------------------
\* Mutant of Queue: the job is saved after its message is sent.
QueueUnsaved(j) ==
  /\ status[j] = "new"
  /\ queue' = queue \cup {j}
  /\ UNCHANGED <<status, requested, worker, lock, deaths, redeliveries>>

Queue(j) ==
  /\ status[j] = "new"
  /\ status' = [status EXCEPT ![j] = "queued"]
  /\ queue' = queue \cup {j}
  /\ UNCHANGED <<requested, worker, lock, deaths, redeliveries>>

(* The flag is kept with the task. *)
Request(j) ==
  /\ Requests /\ status[j] = "queued"
  /\ requested' = requested \cup {j}
  /\ UNCHANGED <<status, queue, worker, lock, deaths, redeliveries>>

Take(w, j) ==
  /\ worker[w] = Idle /\ j \in queue
  /\ queue' = queue \ {j}
  /\ worker' = [worker EXCEPT ![w] = [at |-> "taken", job |-> j]]
  /\ UNCHANGED <<status, requested, lock, deaths, redeliveries>>

Group(w) == GroupOf[worker[w].job]

\* Mutant of Acquire: the lease is not renewed.
AcquireForAMinute(w) ==
  /\ worker[w].at = "taken"
  /\ Group(w) # NoGroup => lock[Group(w)] = Free
  /\ lock' = [g \in Groups |-> IF g = Group(w) THEN [owner |-> w, renewed |-> FALSE] ELSE lock[g]]
  /\ worker' = [worker EXCEPT ![w].at = "started"]
  /\ UNCHANGED <<status, queue, requested, deaths, redeliveries>>

(* A worker waits here, and takes no other job meanwhile. *)
Acquire(w) ==
  /\ worker[w].at = "taken"
  /\ Group(w) # NoGroup => lock[Group(w)] = Free
  /\ lock' = [g \in Groups |-> IF g = Group(w) THEN [owner |-> w, renewed |-> TRUE] ELSE lock[g]]
  /\ worker' = [worker EXCEPT ![w].at = "started"]
  /\ UNCHANGED <<status, queue, requested, deaths, redeliveries>>

(* ensure_not_cancelled, again at the steps of a job that ask. *)
Proceed(w) ==
  /\ worker[w].at = "started" /\ worker[w].job \notin requested
  /\ worker' = [worker EXCEPT ![w].at = "running"]
  /\ UNCHANGED <<status, queue, requested, lock, deaths, redeliveries>>

(* An exception skips the release: the lease is renewed no more once the     *)
(* lock is collected.                                                        *)
Dropped(w) == [g \in Groups |-> IF g = Group(w) THEN [lock[g] EXCEPT !.renewed = FALSE] ELSE lock[g]]

Leave(w, outcome) ==
  /\ status' = [status EXCEPT ![worker[w].job] = outcome]
  /\ worker' = [worker EXCEPT ![w] = Idle]
  /\ UNCHANGED <<queue, requested, deaths, redeliveries>>

Cancel(w) ==
  /\ worker[w].at \in {"started", "running"} /\ worker[w].job \in requested
  /\ lock' = Dropped(w)
  /\ Leave(w, "cancelled")

\* Mutant of Fail: the lock is kept, and its thread goes on.
FailHolding(w) ==
  /\ worker[w].at = "running"
  /\ UNCHANGED lock
  /\ Leave(w, "failed")

Fail(w) ==
  /\ worker[w].at = "running"
  /\ lock' = Dropped(w)
  /\ Leave(w, "failed")

Finish(w) ==
  /\ worker[w].at = "running"
  /\ lock' = [g \in Groups |-> IF g = Group(w) THEN Free ELSE lock[g]]
  /\ Leave(w, "done")

Expire(g) ==
  /\ lock[g] # Free /\ ~lock[g].renewed
  /\ lock' = [lock EXCEPT ![g] = Free]
  /\ UNCHANGED <<status, queue, requested, worker, deaths, redeliveries>>

-----------------------------------------------------------------------------
(* The process dies with its thread; its message comes back (acks_late). *)
Die(w) ==
  /\ worker[w] # Idle /\ deaths < MaxDeaths
  /\ lock' = IF worker[w].at = "taken" THEN lock ELSE Dropped(w)
  /\ queue' = queue \cup {worker[w].job}
  /\ worker' = [worker EXCEPT ![w] = Idle]
  /\ deaths' = deaths + 1
  /\ UNCHANGED <<status, requested, redeliveries>>

(* The broker takes a long job for lost. *)
Redeliver(w) ==
  /\ worker[w] # Idle /\ redeliveries < MaxRedeliveries
  /\ queue' = queue \cup {worker[w].job}
  /\ redeliveries' = redeliveries + 1
  /\ UNCHANGED <<status, requested, worker, lock, deaths>>

Work(w) ==
  \/ \E j \in Jobs : Take(w, j)
  \/ Acquire(w) \/ Proceed(w)
  \/ Cancel(w) \/ Fail(w) \/ Finish(w)

Next ==
  \/ \E j \in Jobs : Queue(j) \/ Request(j)
  \/ \E w \in Workers : Work(w) \/ Die(w) \/ Redeliver(w)
  \/ \E g \in Groups : Expire(g)

Spec == Init /\ [][Next]_vars

(* Workers work and leases expire. *)
Fairness ==
  /\ \A w \in Workers : WF_vars(Work(w))
  /\ \A g \in Groups : WF_vars(Expire(g))

-----------------------------------------------------------------------------
(* Properties *)

(* The type invariant; only jobs that are queued or ended are worked at.      *)
TypeOK ==
  /\ status \in [Jobs -> {"new", "queued"} \cup Outcomes]
  /\ queue \subseteq Jobs /\ requested \subseteq Jobs
  /\ deaths \in 0..MaxDeaths /\ redeliveries \in 0..MaxRedeliveries
  /\ \A j \in queue \cup {worker[w].job : w \in {v \in Workers : worker[v] # Idle}} : status[j] # "new"

Running(g) == {w \in Workers : worker[w].at \in {"started", "running"} /\ Group(w) = g}

(* Two jobs of a batch never run at the same time, not even two deliveries   *)
(* of one job, or one that follows another whose worker died.                *)
OneOfAGroup == \A g \in Groups : Cardinality(Running(g)) <= 1

(* A job whose termination was requested before it started does not start,   *)
(* though it may have waited for the lock of its group meanwhile.            *)
RequestedNeverStarts ==
  \A w \in Workers : worker'[w].at = "running" /\ worker[w].at # "running"
    => worker[w].job \notin requested

(* Every job that is queued ends, whatever the jobs of its group did before. *)
JobsEnd == \A j \in Jobs : status[j] = "queued" ~> status[j] \in Outcomes
=============================================================================
