--------------------------- MODULE Programs_proofs ---------------------------
(***************************************************************************)
(* Theorems about a program and what surrounds it (MCPrograms), for any     *)
(* number of jobs, workers, batches, requests, clients, writers, offices,   *)
(* programs, areas and scripts:                                              *)
(*   - JobGroups: the lease of a group is its one worker's as long as that  *)
(*     one is at work: it is renewed until the job ends, and only then may  *)
(*     it expire;                                                            *)
(*   - CacheVersion: pages are fresh, and no version is counted twice;      *)
(*   - ProgramConfig and ProgramCleanup: pages serialize, a cleanup is alone *)
(*     and thorough;                                                         *)
(*   - RefSync and AreaSync: what a synchronisation missed the next one     *)
(*     lists, and parents are kept;                                          *)
(*   - Versioning: what is recorded has run;                                 *)
(*   - FieldScripts: no script leaves a field whose definition is gone.     *)
(*                                                                         *)
(* A behaviour of MCPrograms is one of one of its components, so that an    *)
(* invariant of a component is one of SpecAll.  In the proofs about a       *)
(* component the slots v1, v2, ... stand for its variables.                 *)
(***************************************************************************)
EXTENDS MCPrograms, FiniteSetTheorems, WellFoundedInduction, TLAPS

\* A worker is idle or has a job.
WorkerType ==
  /\ DOMAIN worker = Workers /\ worker = [w \in Workers |-> worker[w]]
  /\ \A w \in Workers :
       \/ worker[w] = Idle
       \/ /\ worker[w].at \in {"taken", "started", "running"} /\ worker[w].job \in Jobs
          /\ worker[w] = [at |-> worker[w].at, job |-> worker[w].job]

\* Every group has a lock.
LockType == DOMAIN lock = Groups /\ lock = [g \in Groups |-> lock[g]]

Active(w) == worker[w].at \in {"started", "running"}

\* Who is at work has the lock, and renews it.
HoldsInv ==
  \A w \in Workers : Active(w) /\ Group(w) \in Groups =>
    lock[Group(w)] = [owner |-> w, renewed |-> TRUE]

\* What the types of the invariant need of the jobs.
StatusInv ==
  /\ status \in [Jobs -> {"new", "queued"} \cup Outcomes]
  /\ queue \subseteq Jobs /\ requested \subseteq Jobs
  /\ deaths \in 0..MaxDeaths /\ redeliveries \in 0..MaxRedeliveries
  /\ \A j \in queue : status[j] # "new"
  /\ \A w \in Workers : worker[w] # Idle => status[worker[w].job] # "new"

IInv == WorkerType /\ LockType /\ HoldsInv /\ StatusInv

-----------------------------------------------------------------------------
\* A lease tells who has it.
LEMMA LeaseFact ==
  /\ \A w, b : [owner |-> w, renewed |-> b] # Free
  /\ \A v, w, b, c : [owner |-> v, renewed |-> b] = [owner |-> w, renewed |-> c] => v = w
<1>1. \A w, b : DOMAIN [owner |-> w, renewed |-> b] = {"owner", "renewed"}
  OBVIOUS
<1>2. DOMAIN Free = {"owner"}
  BY DEF Free
<1>3. \A w, b : [owner |-> w, renewed |-> b].owner = w
  OBVIOUS
<1>4. QED
  BY <1>1, <1>2, <1>3

\* Initially no worker has a job and no group is locked.
LEMMA InitIInv == Init => IInv
<1> SUFFICES ASSUME Init PROVE IInv
  OBVIOUS
<1>1. WorkerType /\ LockType
  BY DEF Init, WorkerType, LockType
<1>2. HoldsInv
  BY DEF Init, HoldsInv, Active, Idle
<1>3. StatusInv
  BY GroupAssumption DEF Init, StatusInv
<1>4. QED
  BY <1>1, <1>2, <1>3 DEF IInv

\* Jobs are queued and requested to end while workers do what they do.
LEMMA QueueStep ==
  ASSUME IInv, NEW j \in Jobs, Queue(j) \/ Request(j)
  PROVE  IInv'
BY DEF IInv, Queue, Request, WorkerType, LockType, HoldsInv, Active, Group, StatusInv

\* A worker that takes a job is not at work yet.
LEMMA TakeStep ==
  ASSUME IInv, NEW w \in Workers, NEW j \in Jobs, Take(w, j)
  PROVE  IInv'
<1>1. /\ j \in queue /\ queue' = queue \ {j} /\ worker' = [worker EXCEPT ![w] = [at |-> "taken", job |-> j]]
      /\ UNCHANGED <<status, requested, lock, deaths, redeliveries>>
  BY DEF Take
<1>2. \A v \in Workers : worker'[v] = IF v = w THEN [at |-> "taken", job |-> j] ELSE worker[v]
  BY <1>1 DEF IInv, WorkerType
<1>3. WorkerType'
  BY <1>1, <1>2 DEF IInv, WorkerType
<1>4. HoldsInv'
  BY <1>1, <1>2 DEF IInv, HoldsInv, Active, Group
<1>5. StatusInv'
  BY <1>1, <1>2 DEF IInv, StatusInv
<1>6. QED
  BY <1>1, <1>3, <1>4, <1>5 DEF IInv, LockType

\* A free lock is nobody's, so who acquires it is alone.
LEMMA AcquireStep ==
  ASSUME IInv, NEW w \in Workers, Acquire(w)
  PROVE  IInv'
<1>1. /\ worker[w].at = "taken" /\ worker' = [worker EXCEPT ![w].at = "started"]
      /\ Group(w) # NoGroup => lock[Group(w)] = Free
      /\ lock' = [g \in Groups |-> IF g = Group(w) THEN [owner |-> w, renewed |-> TRUE] ELSE lock[g]]
      /\ UNCHANGED <<status, queue, requested, deaths, redeliveries>>
  BY DEF Acquire
<1>2. /\ worker[w].job \in Jobs /\ worker[w] # Idle
      /\ worker[w] = [at |-> "taken", job |-> worker[w].job]
  BY <1>1 DEF IInv, WorkerType, Idle
<1>3. \A v \in Workers : worker'[v] = IF v = w THEN [at |-> "started", job |-> worker[w].job] ELSE worker[v]
  BY <1>1, <1>2 DEF IInv, WorkerType
<1>4. WorkerType'
  BY <1>1, <1>2, <1>3 DEF IInv, WorkerType
<1>5. LockType'
  BY <1>1 DEF IInv, LockType
<1>6. \A v \in Workers \ {w} : Active(v) /\ Group(v) \in Groups => Group(v) # Group(w)
  BY <1>1, GroupAssumption, LeaseFact DEF IInv, HoldsInv
<1>7. HoldsInv'
  <2>1. \A v \in Workers : Group(v)' = Group(v) /\ (v # w => Active(v)' = Active(v))
    BY <1>2, <1>3 DEF Group, Active
  <2>2. SUFFICES ASSUME NEW v \in Workers, Active(v)', Group(v) \in Groups
                 PROVE  lock'[Group(v)] = [owner |-> v, renewed |-> TRUE]
    BY <2>1 DEF HoldsInv
  <2>3. CASE v = w
    BY <1>1, <2>2, <2>3
  <2>4. CASE v # w
    BY <1>1, <1>6, <2>1, <2>2, <2>4 DEF IInv, HoldsInv
  <2>5. QED
    BY <2>3, <2>4
<1>8. StatusInv'
  BY <1>1, <1>2, <1>3 DEF IInv, StatusInv
<1>9. QED
  BY <1>4, <1>5, <1>7, <1>8 DEF IInv

\* A job that goes on keeps its lock.
LEMMA ProceedStep ==
  ASSUME IInv, NEW w \in Workers, Proceed(w)
  PROVE  IInv'
<1>1. /\ worker[w].at = "started" /\ worker' = [worker EXCEPT ![w].at = "running"]
      /\ UNCHANGED <<status, queue, requested, lock, deaths, redeliveries>>
  BY DEF Proceed
<1>2. worker[w] # Idle /\ worker[w] = [at |-> "started", job |-> worker[w].job] /\ worker[w].job \in Jobs
  BY <1>1 DEF IInv, WorkerType, Idle
<1>3. \A v \in Workers : worker'[v] = IF v = w THEN [at |-> "running", job |-> worker[w].job] ELSE worker[v]
  BY <1>1, <1>2 DEF IInv, WorkerType
<1>4. WorkerType'
  BY <1>1, <1>2, <1>3 DEF IInv, WorkerType
<1>5. HoldsInv'
  BY <1>1, <1>3 DEF IInv, HoldsInv, Active, Group
<1>6. StatusInv'
  BY <1>1, <1>2, <1>3 DEF IInv, StatusInv
<1>7. QED
  BY <1>1, <1>4, <1>5, <1>6 DEF IInv, LockType

\* A worker that ends, or dies, is not at work, and its lock is not another's.
LEMMA EndStep ==
  ASSUME IInv, NEW w \in Workers, Cancel(w) \/ Fail(w) \/ Finish(w) \/ Die(w)
  PROVE  IInv'
<1>1. worker' = [worker EXCEPT ![w] = Idle] /\ worker[w] # Idle
  BY DEF Cancel, Fail, Finish, Die, Leave, Idle
<1>2. \A v \in Workers : worker'[v] = IF v = w THEN Idle ELSE worker[v]
  BY <1>1 DEF IInv, WorkerType
<1>3. WorkerType'
  BY <1>1, <1>2 DEF IInv, WorkerType
<1>4. LockType'
  BY DEF Cancel, Fail, Finish, Die, Dropped, IInv, LockType
<1>5. lock' = lock \/ (Active(w) /\ \A g \in Groups : g # Group(w) => lock'[g] = lock[g])
  BY DEF Cancel, Fail, Finish, Die, Dropped, Active, IInv, WorkerType
<1>6. \A v \in Workers \ {w} : Active(v) /\ Group(v) \in Groups /\ Active(w) => Group(v) # Group(w)
  <2> SUFFICES ASSUME NEW v \in Workers, Active(v), Active(w), Group(v) \in Groups, Group(v) = Group(w)
               PROVE  v = w
    OBVIOUS
  <2>1. lock[Group(v)] = [owner |-> v, renewed |-> TRUE] /\ lock[Group(v)] = [owner |-> w, renewed |-> TRUE]
    BY DEF IInv, HoldsInv
  <2>2. QED
    BY <2>1, LeaseFact
<1>7. HoldsInv'
  BY <1>2, <1>5, <1>6 DEF IInv, HoldsInv, Active, Group, Idle
<1>8. StatusInv'
  <2>1. worker[w].job \in Jobs
    BY <1>1 DEF IInv, WorkerType
  <2>2. status[worker[w].job] # "new"
    BY <1>1 DEF IInv, StatusInv
  <2>3. /\ queue' \in {queue, queue \cup {worker[w].job}} /\ UNCHANGED <<requested, redeliveries>>
        /\ deaths' \in 0..MaxDeaths
        /\ status' = status \/ \E o \in Outcomes : status' = [status EXCEPT ![worker[w].job] = o]
    BY GroupAssumption DEF Cancel, Fail, Finish, Die, Leave, Outcomes, IInv, StatusInv
  <2>4. \A j \in Jobs : status[j] # "new" => status'[j] # "new"
    BY <2>3 DEF Outcomes, IInv, StatusInv
  <2>5. \A v \in Workers : worker'[v] # Idle => worker'[v] = worker[v] /\ worker[v].job \in Jobs
    BY <1>2 DEF IInv, WorkerType
  <2>6. QED
    BY <2>1, <2>2, <2>3, <2>4, <2>5 DEF IInv, StatusInv
<1>9. QED
  BY <1>3, <1>4, <1>7, <1>8 DEF IInv

\* Only a lock that is not renewed expires, and messages come twice.
LEMMA OutsideStep ==
  ASSUME IInv, (\E g \in Groups : Expire(g)) \/ (\E w \in Workers : Redeliver(w))
  PROVE  IInv'
<1>1. CASE \E g \in Groups : Expire(g)
  <2>1. PICK g \in Groups : Expire(g)
    BY <1>1
  <2>2. /\ ~lock[g].renewed /\ lock' = [lock EXCEPT ![g] = Free]
        /\ UNCHANGED <<status, queue, requested, worker, deaths, redeliveries>>
    BY <2>1 DEF Expire
  <2>3. HoldsInv'
    BY <2>2 DEF IInv, HoldsInv, LockType, Active, Group
  <2>4. LockType'
    BY <2>2 DEF IInv, LockType
  <2>5. QED
    BY <2>2, <2>3, <2>4 DEF IInv, WorkerType, StatusInv
<1>2. CASE \E w \in Workers : Redeliver(w)
  <2>1. PICK w \in Workers : Redeliver(w)
    BY <1>2
  <2>2. /\ worker[w] # Idle /\ queue' = queue \cup {worker[w].job} /\ redeliveries' \in 0..MaxRedeliveries
        /\ UNCHANGED <<status, requested, worker, lock, deaths>>
    BY <2>1, GroupAssumption DEF Redeliver, IInv, StatusInv
  <2>3. StatusInv'
    BY <2>2 DEF IInv, StatusInv, WorkerType
  <2>4. QED
    BY <2>2, <2>3 DEF IInv, WorkerType, LockType, HoldsInv, Active, Group
<1>3. QED
  BY <1>1, <1>2

\* Every step keeps the invariant.
LEMMA NextIInv == IInv /\ [Next]_vars => IInv'
<1>1. ASSUME IInv, UNCHANGED vars PROVE IInv'
  BY <1>1 DEF vars, IInv, WorkerType, LockType, HoldsInv, Active, Group, StatusInv
<1>2. QED
  BY <1>1, QueueStep, TakeStep, AcquireStep, ProceedStep, EndStep, OutsideStep DEF Next, Work

-----------------------------------------------------------------------------
\* Two jobs of a batch never run at the same time, whatever the number of workers,
\* deliveries and deaths (lock_job).
THEOREM OneAtATime == Spec => []OneOfAGroup
<1>1. IInv => OneOfAGroup
  <2> SUFFICES ASSUME IInv, NEW g \in Groups PROVE Cardinality(Running(g)) <= 1
    BY DEF OneOfAGroup
  <2>1. Running(g) \subseteq {lock[g].owner}
    <3> SUFFICES ASSUME NEW w \in Running(g) PROVE w = lock[g].owner
      OBVIOUS
    <3>1. lock[g] = [owner |-> w, renewed |-> TRUE]
      BY DEF IInv, HoldsInv, Running, Active
    <3>2. QED
      BY <3>1
  <2>2. IsFiniteSet({lock[g].owner}) /\ Cardinality({lock[g].owner}) = 1
    BY FS_Singleton
  <2>3. QED
    BY <2>1, <2>2, FS_Subset
<1>2. QED
  BY InitIInv, NextIInv, <1>1, PTL DEF Spec

\* Only jobs that were saved are delivered and worked at (AsyncJob.queue).
THEOREM TypeCorrect == Spec => []TypeOK
<1>1. IInv => TypeOK
  BY DEF IInv, StatusInv, TypeOK
<1>2. QED
  BY InitIInv, NextIInv, <1>1, PTL DEF Spec

-----------------------------------------------------------------------------
(* CacheVersion.                                                           *)

\* The component of a behaviour does not change, and a step is one of it.
LEMMA StepOfComponent ==
  ASSUME [NextAll]_all
  PROVE  /\ component' = component
         /\ In("Cache") => [Cache!Next]_(Cache!vars)
         /\ In("CacheCalm") => [CacheCalm!Next]_(CacheCalm!vars)
         /\ In("Config") => [Config!Next]_(Config!vars)
         /\ In("Alone") => [Alone!Next]_(Alone!vars)
         /\ In("Cleanup") => [Cleanup!Next]_(Cleanup!vars)
         /\ In("JobGroups") => [Next]_vars
         /\ In("Sync") => [Sync!Next]_(Sync!vars)
         /\ In("SyncAll") => [SyncAll!Next]_(SyncAll!vars)
         /\ In("Delta") => [Delta!Next]_(Delta!vars)
         /\ In("Overlaps") => [Overlaps!Next]_(Overlaps!vars)
         /\ In("Up") => [Up!Next]_(Up!vars)
         /\ In("Down") => [Down!Next]_(Down!vars)
         /\ In("Scripts") => [Scripts!Next]_(Scripts!vars)
BY DEF NextAll, all, slots, In, vars, Cache!vars, CacheCalm!vars, Config!vars, Alone!vars, Cleanup!vars,
  Sync!vars, SyncAll!vars, Delta!vars, Overlaps!vars, Up!vars, Down!vars, Scripts!vars,
  JobGroupsNext, CleanupNext, ConfigNext,
  AloneNext, CacheNext, CacheCalmNext, SyncNext, SyncAllNext, DeltaNext, OverlapsNext, UpNext,
  DownNext, ScriptsNext

\* A request keeps what is rendered no longer than a tick.
LEMMA YoungRequest ==
  ASSUME Cache!YoungInv, NEW c \in Clients, Cache!Request(c)
  PROVE  Cache!YoungInv'
<1> DEFINE data == v1  pages == v3  req == v5  now == v8
<1>1. CASE Cache!NotModified(c) \/ Cache!FromCache(c)
  BY <1>1 DEF Cache!NotModified, Cache!FromCache, Cache!YoungInv
<1>2. CASE Cache!Render(c)
  <2>1. req' = [req EXCEPT ![c] = [at |-> "rendered", data |-> data, asOf |-> now]]
          /\ UNCHANGED <<data, pages, now>>
    BY <1>2 DEF Cache!Render
  <2>2. QED
    BY <2>1 DEF Cache!YoungInv
<1>3. CASE Cache!Respond(c)
  <2> DEFINE v0 == Cache!Read.value
             page == [data |-> req[c].data, asOf |-> req[c].asOf, left |-> PageTTL]
  <2>1. /\ req[c] # Cache!Idle /\ req' = [req EXCEPT ![c] = Cache!Idle] /\ UNCHANGED <<data, now>>
        /\ pages' = [v \in DOMAIN pages \cup {v0} |-> IF v = v0 THEN page ELSE pages[v]]
    BY <1>3 DEF Cache!Respond
  <2>2. page \in [data : Nat, asOf : Nat, left : Nat \ {0}] /\ now + page.left <= page.asOf + PageTTL + 1
    BY <2>1, BoundsAssumption DEF Cache!YoungInv, Cache!CacheAssumption
  <2>3. DOMAIN pages' = DOMAIN pages \cup {v0} /\ pages'[v0] = page
    BY <2>1
  <2>4. \A v \in DOMAIN pages : v # v0 => pages'[v] = pages[v]
    BY <2>1
  <2>5. \A v \in DOMAIN pages' : pages'[v] \in [data : Nat, asOf : Nat, left : Nat \ {0}]
                                /\ now + pages'[v].left <= pages'[v].asOf + PageTTL + 1
    BY <2>2, <2>3, <2>4 DEF Cache!YoungInv
  <2>6. QED
    BY <2>1, <2>5 DEF Cache!YoungInv
<1>4. CASE Cache!Invalidate(c)
  BY <1>4 DEF Cache!Invalidate, Cache!YoungInv
<1>5. QED
  BY <1>1, <1>2, <1>3, <1>4 DEF Cache!Request

LEMMA YoungNext == Cache!YoungInv /\ [Cache!Next]_(Cache!vars) => Cache!YoungInv'
<1> DEFINE data == v1  version == v2  pages == v3  req == v5  now == v8
<1> SUFFICES ASSUME Cache!YoungInv, [Cache!Next]_(Cache!vars) PROVE Cache!YoungInv'
  OBVIOUS
<1>1. CASE UNCHANGED Cache!vars
  BY <1>1 DEF Cache!vars, Cache!YoungInv
<1>2. ASSUME NEW w \in Writers, Cache!Write(w) PROVE Cache!YoungInv'
  <2>1. UNCHANGED <<pages, req, now>> /\ data' \in {data, data + 1}
    BY <1>2 DEF Cache!Write, Cache!Save, Cache!Commit, Cache!Rollback, Cache!Bulk, Cache!Count, Cache!Uncounted
  <2>2. QED
    BY <2>1 DEF Cache!YoungInv
<1>3. CASE Cache!Tick
  <2>1. /\ \A c \in Clients : req[c] # Cache!Idle => req[c].asOf = now
        /\ now' = now + 1 /\ UNCHANGED <<data, req>>
        /\ pages' = [v \in {u \in DOMAIN pages : pages[u].left > 1} |-> [pages[v] EXCEPT !.left = @ - 1]]
    BY <1>3 DEF Cache!Tick
  <2>2. ASSUME NEW v \in DOMAIN pages'
        PROVE  pages'[v] \in [data : Nat, asOf : Nat, left : Nat \ {0}]
                 /\ now' + pages'[v].left <= pages'[v].asOf + PageTTL + 1
    <3>1. v \in DOMAIN pages /\ pages[v].left > 1 /\ pages'[v] = [pages[v] EXCEPT !.left = @ - 1]
      BY <2>1
    <3>2. PageTTL \in Nat
      BY BoundsAssumption DEF Cache!CacheAssumption
    <3>3. QED
      BY <2>1, <3>1, <3>2 DEF Cache!YoungInv
  <2>3. \A c \in Clients : req'[c] # Cache!Idle => now' <= req'[c].asOf + 1
    BY <2>1 DEF Cache!YoungInv
  <2>4. data' \in Nat /\ now' \in Nat
    BY <2>1 DEF Cache!YoungInv
  <2>5. req' \in [Clients -> {Cache!Idle} \cup [at : {"rendered"}, data : Nat, asOf : Nat]]
    BY <2>1 DEF Cache!YoungInv
  <2>6. QED
    BY <2>2, <2>3, <2>4, <2>5 DEF Cache!YoungInv
<1>4. QED
  BY <1>1, <1>2, <1>3, YoungRequest DEF Cache!Next

\* Reading the version creates it, once; counting makes one that nobody has.
LEMMA VersionFacts ==
  ASSUME CacheCalm!CalmInv
  PROVE  /\ CacheCalm!Read \in [value : Nat \ {0}, left : Nat] /\ CacheCalm!Read.left + v8 > MaxNow
         /\ CacheCalm!Counted \in [value : Nat \ {0}, left : Nat] /\ CacheCalm!Counted.left + v8 > MaxNow
         /\ CacheCalm!Counted.value = CacheCalm!Read.value + 1
         /\ v2' = CacheCalm!Read => CacheCalm!Read' = CacheCalm!Read
         /\ v2' = CacheCalm!Counted => CacheCalm!Read' = CacheCalm!Counted
<1> DEFINE version == v2  now == v8
<1>1. now \in 0..MaxNow /\ MaxNow \in Nat /\ CalmTTL \in Nat \ {0} /\ CalmTTL > MaxNow
  BY BoundsAssumption, CalmAssumption DEF CacheCalm!CalmInv, CacheCalm!CacheAssumption
<1>2. CASE version = CacheCalm!Missing
  <2>1. CacheCalm!Read = [value |-> 1, left |-> CalmTTL] /\ CacheCalm!Counted = [value |-> 2, left |-> CalmTTL]
    BY <1>2 DEF CacheCalm!Read, CacheCalm!Counted
  <2>2. CacheCalm!Read # CacheCalm!Missing /\ CacheCalm!Counted # CacheCalm!Missing
    BY <2>1 DEF CacheCalm!Missing
  <2>3. QED
    BY <1>1, <2>1, <2>2 DEF CacheCalm!Read
<1>3. CASE version # CacheCalm!Missing
  <2>1. /\ CacheCalm!Read = version /\ CacheCalm!Counted = [version EXCEPT !.value = @ + 1]
        /\ version \in [value : Nat \ {0}, left : Nat] /\ version.left + now > MaxNow
    BY <1>3 DEF CacheCalm!Read, CacheCalm!Counted, CacheCalm!CalmInv
  <2>2. /\ CacheCalm!Counted \in [value : Nat \ {0}, left : Nat] /\ CacheCalm!Counted.left = version.left
        /\ CacheCalm!Counted.value = version.value + 1
    BY <2>1
  <2>3. CacheCalm!Read # CacheCalm!Missing /\ CacheCalm!Counted # CacheCalm!Missing
    BY <2>1, <2>2 DEF CacheCalm!Missing
  <2>4. QED
    BY <1>1, <2>1, <2>2, <2>3 DEF CacheCalm!Read
<1>4. QED
  BY <1>2, <1>3

\* Requests give the present version to nobody but with the present data.
LEMMA CalmRequest ==
  ASSUME CacheCalm!CalmInv, NEW c \in Clients, CacheCalm!Request(c)
  PROVE  CacheCalm!CalmInv'
<1> DEFINE data == v1  version == v2  pages == v3  client == v4  req == v5  writer == v6  now == v8
           key == CacheCalm!Read.value
<1>1. version' = CacheCalm!Read /\ UNCHANGED <<data, writer, now>>
  BY DEF CacheCalm!Request, CacheCalm!NotModified, CacheCalm!FromCache, CacheCalm!Render,
    CacheCalm!Respond, CacheCalm!Invalidate
<1>2. /\ CacheCalm!Read' = CacheCalm!Read /\ version' \in [value : Nat \ {0}, left : Nat]
      /\ version'.left + now > MaxNow
  BY <1>1, VersionFacts
<1>3. /\ CacheCalm!Quiet' = CacheCalm!Quiet
      /\ \A step : CacheCalm!At(step)' = CacheCalm!At(step)
  BY <1>1 DEF CacheCalm!Quiet, CacheCalm!At
<1>4. CASE CacheCalm!NotModified(c)
  BY <1>1, <1>2, <1>3, <1>4 DEF CacheCalm!NotModified, CacheCalm!CalmInv, CacheCalm!Unseen
<1>5. CASE CacheCalm!FromCache(c)
  <2>1. /\ key \in DOMAIN pages /\ UNCHANGED <<pages, req>>
        /\ client' = [client EXCEPT ![c] = [etag |-> key, data |-> pages[key].data]]
    BY <1>5 DEF CacheCalm!FromCache
  <2>2. ~CacheCalm!At("saved")
    BY <2>1 DEF CacheCalm!CalmInv, CacheCalm!Unseen
  <2>3. [etag |-> key, data |-> pages[key].data] \in [etag : Nat, data : Nat]
    BY <2>1, VersionFacts DEF CacheCalm!CalmInv
  <2>4. client' \in [Clients -> [etag : Nat, data : Nat]] /\ \A d \in Clients : client'[d].etag <= key
    BY <2>1, <2>3, VersionFacts DEF CacheCalm!CalmInv
  <2>5. CacheCalm!Quiet => \A d \in Clients : client'[d].etag = key => client'[d].data = data
    BY <2>1 DEF CacheCalm!CalmInv
  <2>6. QED
    BY <1>1, <1>2, <1>3, <2>1, <2>2, <2>4, <2>5 DEF CacheCalm!CalmInv
<1>6. CASE CacheCalm!Render(c)
  <2>1. /\ CacheCalm!Quiet /\ UNCHANGED <<pages, client>>
        /\ req' = [req EXCEPT ![c] = [at |-> "rendered", data |-> data, asOf |-> now]]
    BY <1>6 DEF CacheCalm!Render
  <2>2. /\ req' \in [Clients -> {CacheCalm!Idle} \cup [at : {"rendered"}, data : Nat, asOf : Nat]]
        /\ \A d \in Clients : req'[d] # CacheCalm!Idle => req'[d].data = data
    BY <2>1 DEF CacheCalm!CalmInv
  <2>3. QED
    BY <1>1, <1>2, <1>3, <2>1, <2>2 DEF CacheCalm!CalmInv, CacheCalm!Unseen
<1>7. CASE CacheCalm!Respond(c)
  <2> DEFINE page == [data |-> req[c].data, asOf |-> req[c].asOf, left |-> PageTTL]
  <2>1. /\ req[c] # CacheCalm!Idle /\ req' = [req EXCEPT ![c] = CacheCalm!Idle]
        /\ client' = [client EXCEPT ![c] = [etag |-> key, data |-> req[c].data]]
        /\ pages' = [v \in DOMAIN pages \cup {key} |-> IF v = key THEN page ELSE pages[v]]
    BY <1>7 DEF CacheCalm!Respond
  <2>2. /\ CacheCalm!Quiet /\ req[c].data = data
        /\ page \in [data : Nat, asOf : Nat, left : Nat] /\ [etag |-> key, data |-> req[c].data] \in [etag : Nat, data : Nat]
    BY <2>1, VersionFacts, BoundsAssumption DEF CacheCalm!CalmInv, CacheCalm!CacheAssumption
  <2>3. ~CacheCalm!At("saved")
    BY <2>2 DEF CacheCalm!Quiet, CacheCalm!At, CacheCalm!Idle
  <2>4. DOMAIN pages' = DOMAIN pages \cup {key} /\ pages'[key] = page
    BY <2>1
  <2>5. \A v \in DOMAIN pages : v # key => pages'[v] = pages[v]
    BY <2>1
  <2>6. \A v \in DOMAIN pages' : v \in Nat /\ v <= key /\ pages'[v] \in [data : Nat, asOf : Nat, left : Nat]
    BY <2>2, <2>4, <2>5, VersionFacts DEF CacheCalm!CalmInv
  <2>7. /\ client' \in [Clients -> [etag : Nat, data : Nat]] /\ \A d \in Clients : client'[d].etag <= key
        /\ \A d \in Clients : client'[d].etag = key => client'[d].data = data
    BY <2>1, <2>2, VersionFacts DEF CacheCalm!CalmInv
  <2>8. /\ req' \in [Clients -> {CacheCalm!Idle} \cup [at : {"rendered"}, data : Nat, asOf : Nat]]
        /\ \A d \in Clients : req'[d] # CacheCalm!Idle => req'[d].data = data
    BY <2>1 DEF CacheCalm!CalmInv
  <2>9. QED
    BY <1>1, <1>2, <1>3, <2>2, <2>3, <2>4, <2>6, <2>7, <2>8 DEF CacheCalm!CalmInv
<1>8. CASE CacheCalm!Invalidate(c)
  <2>1. pages' = [v \in DOMAIN pages \ {key} |-> pages[v]] /\ UNCHANGED <<client, req>>
    BY <1>8 DEF CacheCalm!Invalidate
  <2>2. DOMAIN pages' = DOMAIN pages \ {key} /\ \A v \in DOMAIN pages' : pages'[v] = pages[v]
    BY <2>1
  <2>3. QED
    BY <1>1, <1>2, <1>3, <2>1, <2>2 DEF CacheCalm!CalmInv, CacheCalm!Unseen
<1>9. QED
  BY <1>4, <1>5, <1>6, <1>7, <1>8 DEF CacheCalm!Request

\* A write outdates what is there before others can see that it has ended.
LEMMA CalmWrite ==
  ASSUME CacheCalm!CalmInv, NEW w \in CalmWriters, CacheCalm!Write(w)
  PROVE  CacheCalm!CalmInv'
<1> DEFINE data == v1  version == v2  pages == v3  client == v4  req == v5  writer == v6  now == v8
<1>1. UNCHANGED <<pages, client, req, now>> /\ data' \in {data, data + 1} /\ data' \in Nat
  BY DEF CacheCalm!Write, CacheCalm!Save, CacheCalm!Commit, CacheCalm!Rollback, CacheCalm!Bulk,
    CacheCalm!Count, CacheCalm!Uncounted, CacheCalm!CalmInv
<1>2. \A c \in Clients : req[c] = CacheCalm!Idle
  <2>1. \/ writer[w] # CacheCalm!Idle
        \/ \A c \in Clients : req[c] = CacheCalm!Idle
    BY DEF CacheCalm!Write, CacheCalm!Save, CacheCalm!Commit, CacheCalm!Rollback, CacheCalm!Bulk,
      CacheCalm!Count, CacheCalm!Uncounted, CacheCalm!MayWrite, CacheCalm!Idle
  <2>2. QED
    BY <2>1 DEF CacheCalm!CalmInv, CacheCalm!Quiet
<1>3. /\ writer' \in [CalmWriters -> {CacheCalm!Idle} \cup [at : {"saved", "written"}]]
      /\ \E t \in {CacheCalm!Idle} \cup [at : {"saved", "written"}] : writer' = [writer EXCEPT ![w] = t]
  BY DEF CacheCalm!Write, CacheCalm!Save, CacheCalm!Commit, CacheCalm!Rollback, CacheCalm!Bulk,
    CacheCalm!Count, CacheCalm!Uncounted, CacheCalm!CalmInv
<1>4. CASE CacheCalm!Save(w) \/ CacheCalm!Count(w)
  <2>1. version' = CacheCalm!Counted
    BY <1>4 DEF CacheCalm!Save, CacheCalm!Count
  <2>2. /\ CacheCalm!Read' = CacheCalm!Counted /\ CacheCalm!Read'.value = CacheCalm!Read.value + 1
        /\ version' \in [value : Nat \ {0}, left : Nat] /\ version'.left + now > MaxNow
    BY <2>1, VersionFacts
  <2>3. /\ \A v \in DOMAIN pages : v \in Nat /\ v <= CacheCalm!Read.value
        /\ \A c \in Clients : client[c].etag \in Nat /\ client[c].etag <= CacheCalm!Read.value
        /\ CacheCalm!Read.value \in Nat
    BY VersionFacts DEF CacheCalm!CalmInv
  <2>4. /\ \A v \in DOMAIN pages : v \in Nat /\ v <= CacheCalm!Read'.value /\ v # CacheCalm!Read'.value
        /\ \A c \in Clients : client[c].etag <= CacheCalm!Read'.value /\ client[c].etag # CacheCalm!Read'.value
    BY <2>2, <2>3
  <2>5. CacheCalm!Unseen'
    BY <1>1, <2>4 DEF CacheCalm!Unseen
  <2>6. QED
    BY <1>1, <1>2, <1>3, <2>2, <2>4, <2>5 DEF CacheCalm!CalmInv, CacheCalm!Unseen
<1>5. CASE CacheCalm!Commit(w) \/ CacheCalm!Rollback(w)
  <2>1. CacheCalm!At("saved") /\ version' = version
    BY <1>5 DEF CacheCalm!Commit, CacheCalm!Rollback, CacheCalm!At
  <2>2. CacheCalm!Unseen /\ CacheCalm!Unseen' /\ CacheCalm!Read' = CacheCalm!Read
    BY <1>1, <2>1 DEF CacheCalm!CalmInv, CacheCalm!Unseen, CacheCalm!Read
  <2>3. QED
    BY <1>1, <1>2, <1>3, <2>1, <2>2 DEF CacheCalm!CalmInv, CacheCalm!Unseen
<1>6. CASE CacheCalm!Bulk(w)
  <2>1. version' = version /\ writer' = [writer EXCEPT ![w] = [at |-> "written"]] /\ writer[w] = CacheCalm!Idle
    BY <1>6 DEF CacheCalm!Bulk, CacheCalm!MayWrite
  <2>2. ~CacheCalm!Quiet' /\ (CacheCalm!At("saved")' => CacheCalm!At("saved"))
    BY <2>1 DEF CacheCalm!Quiet, CacheCalm!At, CacheCalm!Idle, CacheCalm!CalmInv
  <2>3. CacheCalm!Read' = CacheCalm!Read /\ CacheCalm!Unseen' = CacheCalm!Unseen
    BY <1>1, <2>1 DEF CacheCalm!Read, CacheCalm!Unseen
  <2>4. QED
    BY <1>1, <1>2, <1>3, <2>1, <2>2, <2>3 DEF CacheCalm!CalmInv
<1>7. QED
  BY <1>4, <1>5, <1>6 DEF CacheCalm!Write, CacheCalm!Uncounted

LEMMA CalmNext == CacheCalm!CalmInv /\ [CacheCalm!Next]_(CacheCalm!vars) => CacheCalm!CalmInv'
<1> DEFINE data == v1  version == v2  pages == v3  client == v4  req == v5  writer == v6  now == v8
<1> SUFFICES ASSUME CacheCalm!CalmInv, [CacheCalm!Next]_(CacheCalm!vars) PROVE CacheCalm!CalmInv'
  OBVIOUS
<1>1. CASE UNCHANGED CacheCalm!vars
  BY <1>1 DEF CacheCalm!vars, CacheCalm!CalmInv, CacheCalm!Unseen, CacheCalm!Read, CacheCalm!Quiet, CacheCalm!At
<1>2. CASE CacheCalm!Tick
  <2>1. /\ now < MaxNow /\ now' = now + 1 /\ UNCHANGED <<data, client, req, writer>>
        /\ version' = IF version.left <= 1 THEN CacheCalm!Missing ELSE [version EXCEPT !.left = @ - 1]
        /\ pages' = [v \in {u \in DOMAIN pages : pages[u].left > 1} |-> [pages[v] EXCEPT !.left = @ - 1]]
    BY <1>2 DEF CacheCalm!Tick
  <2>2. MaxNow \in Nat /\ now \in Nat
    BY BoundsAssumption DEF CacheCalm!CacheAssumption, CacheCalm!CalmInv
  <2>3. /\ version' # CacheCalm!Missing => version' \in [value : Nat \ {0}, left : Nat] /\ version'.left + now' > MaxNow
        /\ CacheCalm!Read'.value = CacheCalm!Read.value
    <3>1. CASE version = CacheCalm!Missing
      BY <2>1, <3>1 DEF CacheCalm!Missing, CacheCalm!Read
    <3>2. CASE version # CacheCalm!Missing
      <4>1. version \in [value : Nat \ {0}, left : Nat] /\ version.left + now > MaxNow
        BY <3>2 DEF CacheCalm!CalmInv
      <4>2. version' = [version EXCEPT !.left = @ - 1] /\ version.left > 1
        BY <2>1, <2>2, <4>1
      <4>3. version' # CacheCalm!Missing
        BY <4>1, <4>2 DEF CacheCalm!Missing
      <4>4. QED
        BY <2>1, <2>2, <3>2, <4>1, <4>2, <4>3 DEF CacheCalm!Read
    <3>3. QED
      BY <3>1, <3>2
  <2>4. /\ DOMAIN pages' \subseteq DOMAIN pages
        /\ \A v \in DOMAIN pages' : pages[v].left > 1 /\ pages'[v] = [pages[v] EXCEPT !.left = @ - 1]
    BY <2>1
  <2>5. \A v \in DOMAIN pages' : pages'[v] \in [data : Nat, asOf : Nat, left : Nat] /\ pages'[v].data = pages[v].data
    BY <2>4 DEF CacheCalm!CalmInv
  <2>6. /\ CacheCalm!Quiet' = CacheCalm!Quiet /\ CacheCalm!At("saved")' = CacheCalm!At("saved")
        /\ CacheCalm!Unseen => CacheCalm!Unseen'
    BY <2>1, <2>3, <2>4 DEF CacheCalm!Quiet, CacheCalm!At, CacheCalm!Unseen
  <2>7. /\ CacheCalm!Quiet' /\ CacheCalm!Read'.value \in DOMAIN pages' => pages'[CacheCalm!Read'.value].data = data'
        /\ CacheCalm!Quiet' => \A c \in Clients : client'[c].etag = CacheCalm!Read'.value => client'[c].data = data'
    BY <2>1, <2>3, <2>4, <2>5, <2>6 DEF CacheCalm!CalmInv
  <2>8. /\ \A c \in Clients : client'[c].etag <= CacheCalm!Read'.value
        /\ \A v \in DOMAIN pages' : v \in Nat /\ v <= CacheCalm!Read'.value
    BY <2>1, <2>3, <2>4 DEF CacheCalm!CalmInv
  <2>9. /\ \A c \in Clients : req'[c] # CacheCalm!Idle => CacheCalm!Quiet' /\ req'[c].data = data'
        /\ data' \in Nat /\ now' \in 0..MaxNow
    BY <2>1, <2>2, <2>6 DEF CacheCalm!CalmInv
  <2>10. QED
    BY <2>1, <2>3, <2>5, <2>6, <2>7, <2>8, <2>9 DEF CacheCalm!CalmInv
<1>3. QED
  BY <1>1, <1>2, CalmRequest, CalmWrite DEF CacheCalm!Next

\* What the cached pages of a program show.
FreshInv == (In("Cache") => Cache!YoungInv) /\ (In("CacheCalm") => CacheCalm!CalmInv)

LEMMA InitFresh == InitAll => FreshInv
<1>1. ASSUME CacheInit PROVE Cache!YoungInv
  BY <1>1 DEF CacheInit, Cache!Init, Cache!YoungInv
<1>2. ASSUME CacheCalmInit PROVE CacheCalm!CalmInv
  <2>1. CacheCalm!Read.value = 1 /\ MaxNow \in Nat
    BY <1>2, BoundsAssumption DEF CacheCalmInit, CacheCalm!Init, CacheCalm!Read, CacheCalm!CacheAssumption
  <2>2. \A w \in CalmWriters : v6[w].at # "saved"
    BY <1>2 DEF CacheCalmInit, CacheCalm!Init, CacheCalm!Idle
  <2>3. QED
    BY <1>2, <2>1, <2>2 DEF CacheCalmInit, CacheCalm!Init, CacheCalm!CalmInv, CacheCalm!At, CacheCalm!None
<1>3. QED
  BY <1>1, <1>2 DEF InitAll, FreshInv, In, JobGroupsInit, CleanupInit, ConfigInit, AloneInit, CacheInit,
    CacheCalmInit, SyncInit, SyncAllInit, DeltaInit, OverlapsInit, UpInit, DownInit, ScriptsInit

\* No page is older than its lifetime, whatever runs meanwhile; and while every write is
\* counted (FetchFromCacheMiddleware and post_save), a client whose ETag still matches has
\* the present data.
THEOREM PagesStayFresh == SpecAll => []PagesAreFresh
<1>1. FreshInv /\ [NextAll]_all => FreshInv'
  BY StepOfComponent, YoungNext, CalmNext DEF FreshInv, In
<1>2. FreshInv => PagesAreFresh
  <2>1. Cache!YoungInv => Cache!PagesAreYoung
    <3>1. PageTTL \in Nat
      BY BoundsAssumption DEF Cache!CacheAssumption
    <3>2. QED
      BY <3>1 DEF Cache!YoungInv, Cache!PagesAreYoung
  <2>2. CacheCalm!CalmInv => CacheCalm!EtagTells
    BY DEF CacheCalm!CalmInv, CacheCalm!EtagTells
  <2>3. QED
    BY <2>1, <2>2 DEF FreshInv, PagesAreFresh
<1>3. QED
  BY InitFresh, <1>1, <1>2, PTL DEF SpecAll

-----------------------------------------------------------------------------
(* ProgramConfig: many pages at a time.                                     *)

\* What a page goes by is a row.
LEMMA ConfigRead ==
  ASSUME Config!TypeOK, NEW p \in Config!Pages
  PROVE  /\ Config!Read(p) \in Config!Rows /\ Config!Read(p).version = v1.version
         /\ p = "form" => Config!Read(p) = v1
         /\ p \in Config!Scopes => Config!Read(p).defaults = v1.defaults
<1> DEFINE program == v1
<1>1. program \in Config!Rows /\ program.version \in 0..MaxVersion
  BY DEF Config!TypeOK, Config!Rows
<1>2. /\ Config!Fresh \in [form : Config!Authors, columns : Config!Authors, aliens : SUBSET {},
                           defaults : [Config!Scopes -> Config!Authors], cleanup : BOOLEAN, version : {0}]
      /\ program.defaults \in [Config!Scopes -> Config!Authors] /\ program.aliens \in SUBSET {}
  BY <1>1 DEF Config!Fresh, Config!Authors, Config!Rows
<1>3. QED
  BY <1>1, <1>2 DEF Config!Read, Config!Rows, Config!Scopes

\* What a request r does.
ConfigRequest(r) ==
  \/ \E p \in Config!Pages : Config!Open(r, p)
  \/ Config!SaveForm(r) \/ Config!SaveColumns(r) \/ Config!SaveDefaults(r) \/ Config!Leave(r)
  \/ \E off, on \in SUBSET {} : Config!SaveAliens(r, off, on)
  \/ \E answered \in BOOLEAN : Config!PostSettings(r, answered)

\* A request saves the row that it read, or columns of its own, and only if the row has still
\* the version that it read; or it reads the row.
LEMMA ConfigSaves ==
  ASSUME Config!TypeOK, NEW r \in PageRequests, ConfigRequest(r)
  PROVE  /\ UNCHANGED <<v3, v4, v5>> /\ v6' \in 0..0
         /\ \/ \E p \in Config!Pages :
                 v1' = v1 /\ v2' = [v2 EXCEPT ![r] = [page |-> p, row |-> Config!Read(p)]]
            \/ /\ v2' = [v2 EXCEPT ![r] = Config!Free]
               /\ \/ v1' = v1
                  \/ /\ v2[r].page = "form" /\ Config!Current(r) /\ v1.version < MaxVersion
                     /\ v1' = [v2[r].row EXCEPT !.form = r, !.version = @ + 1]
                  \/ v1' = [v1 EXCEPT !.columns = r]
                  \/ \E a \in SUBSET {} : v1' = [v1 EXCEPT !.aliens = a]
                  \/ /\ v2[r].page \in Config!Scopes
                     /\ v1' = [v1 EXCEPT !.defaults = [v2[r].row.defaults EXCEPT ![v2[r].page] = r]]
<1> DEFINE program == v1  request == v2  rdp == v3  pushed == v4  engine == v5  settings == v6
<1>1. settings \in 0..0 /\ 0 \in Nat
  BY BoundsAssumption DEF Config!TypeOK, Config!ConfigAssumption
<1>2. CASE \E p \in Config!Pages : Config!Open(r, p)
  BY <1>1, <1>2 DEF Config!Open
<1>3. CASE Config!SaveForm(r)
  BY <1>1, <1>3 DEF Config!SaveForm, Config!Close
<1>4. CASE Config!SaveColumns(r) \/ Config!Leave(r)
  BY <1>1, <1>4 DEF Config!SaveColumns, Config!Leave, Config!Close
<1>5. CASE Config!SaveDefaults(r)
  BY <1>1, <1>5 DEF Config!SaveDefaults, Config!Close
<1>6. CASE \E off, on \in SUBSET {} : Config!SaveAliens(r, off, on)
  <2>1. PICK off \in SUBSET {}, on \in SUBSET {} : Config!SaveAliens(r, off, on)
    BY <1>6
  <2>2. request[r].row.aliens \in SUBSET {}
    BY DEF Config!TypeOK, Config!Rows
  <2>3. (request[r].row.aliens \ off) \cup on \in SUBSET {}
    BY <2>2
  <2>4. QED
    BY <1>1, <2>1, <2>3 DEF Config!SaveAliens, Config!Close
<1>7. CASE \E answered \in BOOLEAN : Config!PostSettings(r, answered)
  BY <1>1, <1>7 DEF Config!PostSettings, Config!Close
<1>8. QED
  BY <1>2, <1>3, <1>4, <1>5, <1>6, <1>7 DEF ConfigRequest

\* Every row that is saved is a row, and is not older than the one it replaces.
LEMMA ConfigRequestType ==
  ASSUME Config!TypeOK, NEW r \in PageRequests, ConfigRequest(r)
  PROVE  Config!TypeOK'
<1> DEFINE program == v1  request == v2
<1>1. /\ program \in Config!Rows /\ request[r].row \in Config!Rows /\ request[r].page \in Config!Pages \cup {"none"}
      /\ r \in Config!Authors /\ MaxVersion \in Nat
      /\ \A q \in PageRequests : request[q].row.version \in Nat /\ request[q].row.version <= program.version
  BY BoundsAssumption DEF Config!TypeOK, Config!Rows, Config!Authors, Config!ConfigAssumption
<1>2. /\ program' \in Config!Rows /\ program.version <= program'.version
      /\ program.version \in Nat /\ program'.version \in Nat
  <2>1. CASE program' = program
    BY <1>1, <2>1 DEF Config!Rows
  <2>2. CASE /\ Config!Current(r) /\ program.version < MaxVersion
             /\ program' = [request[r].row EXCEPT !.form = r, !.version = @ + 1]
    <3>1. request[r].row.version = program.version /\ request[r].row.version + 1 \in 0..MaxVersion
      BY <1>1, <2>2 DEF Config!Current, Config!Rows
    <3>2. /\ program'.form = r /\ program'.columns = request[r].row.columns
          /\ program'.aliens = request[r].row.aliens /\ program'.defaults = request[r].row.defaults
          /\ program'.cleanup = request[r].row.cleanup /\ program'.version = request[r].row.version + 1
      BY <1>1, <2>2 DEF Config!Rows
    <3>3. program' \in Config!Rows
      BY <1>1, <2>2, <3>1 DEF Config!Rows
    <3>4. QED
      BY <1>1, <3>1, <3>2, <3>3 DEF Config!Rows
  <2>3. CASE program' = [program EXCEPT !.columns = r]
    BY <1>1, <2>3 DEF Config!Rows
  <2>4. CASE \E a \in SUBSET {} : program' = [program EXCEPT !.aliens = a]
    BY <1>1, <2>4 DEF Config!Rows
  <2>5. CASE program' = [program EXCEPT !.defaults = [request[r].row.defaults EXCEPT ![request[r].page] = r]]
    <3>1. [request[r].row.defaults EXCEPT ![request[r].page] = r] \in [Config!Scopes -> Config!Authors]
      BY <1>1 DEF Config!Rows
    <3>2. QED
      BY <1>1, <2>5, <3>1 DEF Config!Rows
  <2>6. QED
    BY <2>1, <2>2, <2>3, <2>4, <2>5, ConfigSaves
<1>3. Config!Free \in [page : Config!Pages \cup {"none"}, row : Config!Rows] /\ Config!Free.row.version = 0
  BY <1>1 DEF Config!Free, Config!Fresh, Config!Rows, Config!Authors
<1>4. /\ request' \in [PageRequests -> [page : Config!Pages \cup {"none"}, row : Config!Rows]]
      /\ \A q \in PageRequests : request'[q].row.version <= program'.version
  <2>1. CASE request' = [request EXCEPT ![r] = Config!Free]
    BY <1>1, <1>2, <1>3, <2>1 DEF Config!TypeOK
  <2>2. CASE \E p \in Config!Pages :
               program' = program /\ request' = [request EXCEPT ![r] = [page |-> p, row |-> Config!Read(p)]]
    BY <1>1, <1>2, <2>2, ConfigRead DEF Config!TypeOK
  <2>3. QED
    BY <2>1, <2>2, ConfigSaves
<1>5. QED
  BY <1>2, <1>4, ConfigSaves DEF Config!TypeOK

\* The rest of the program's life does not touch what a page saves.
LEMMA ConfigOutside ==
  ASSUME Config!TypeOK, [Config!Next]_(Config!vars), ~\E r \in PageRequests : ConfigRequest(r)
  PROVE  /\ Config!TypeOK' /\ v2' = v2
         /\ \E b \in BOOLEAN : v1' = [v1 EXCEPT !.cleanup = b]
<1> DEFINE program == v1  request == v2
<1>1. request' = request /\ \E b \in BOOLEAN : program' = [program EXCEPT !.cleanup = b]
  <2>1. program = [program EXCEPT !.cleanup = program.cleanup] /\ program.cleanup \in BOOLEAN
    BY DEF Config!TypeOK, Config!Rows
  <2>2. QED
    BY <2>1 DEF ConfigRequest, Config!Next, Config!vars, Config!BeginCleanup, Config!EndCleanup, Config!CreateRdp, Config!MoveRdp,
      Config!OpenSet, Config!CloseSet
<1>2. program' \in Config!Rows /\ program'.version = program.version
  BY <1>1 DEF Config!TypeOK, Config!Rows
<1>3. v3' \in Config!RdpStatuses /\ v4' \in BOOLEAN /\ v5' \in {"none", "open", "closed"} /\ v6' = v6
  BY DEF ConfigRequest, Config!Next, Config!vars, Config!BeginCleanup, Config!EndCleanup, Config!CreateRdp, Config!MoveRdp,
    Config!OpenSet, Config!CloseSet, Config!TypeOK, Config!RdpStatuses
<1>4. QED
  BY <1>1, <1>2, <1>3 DEF Config!TypeOK

\* Of the forms that were read together the first that is saved outdates the others.
LEMMA FormStep ==
  ASSUME Config!FormInv, [Config!Next]_(Config!vars)
  PROVE  Config!FormInv' /\ Config!FormsSerialize
<1> DEFINE program == v1  request == v2
<1>1. Config!TypeOK /\ program \in Config!Rows /\ program.version \in Nat
  BY DEF Config!FormInv, Config!TypeOK, Config!Rows
<1>2. CASE \E r \in PageRequests : ConfigRequest(r)
  <2>1. PICK r \in PageRequests : ConfigRequest(r)
    BY <1>2
  <2>2. Config!TypeOK'
    BY <1>1, <2>1, ConfigRequestType
  <2>3. \A q \in PageRequests : /\ request[q].row \in Config!Rows /\ request[q].row.version \in Nat
                                /\ request[q].row.version <= program.version
    BY <1>1 DEF Config!TypeOK, Config!Rows
  <2>4. ASSUME NEW p \in Config!Pages, program' = program,
               request' = [request EXCEPT ![r] = [page |-> p, row |-> Config!Read(p)]]
        PROVE  Config!FormInv' /\ Config!FormsSerialize
    BY <1>1, <2>2, <2>4, ConfigRead DEF Config!FormInv, Config!FormsSerialize, Config!TypeOK, Config!Current
  <2>5. CASE request' = [request EXCEPT ![r] = Config!Free] /\ program'.version = program.version /\ program'.form = program.form
    <3>1. \A q \in PageRequests : request'[q].page = "form" => request'[q] = request[q]
      BY <1>1, <2>5 DEF Config!TypeOK, Config!Free
    <3>2. QED
      BY <2>2, <2>5, <3>1 DEF Config!FormInv, Config!FormsSerialize, Config!Current
  <2>6. CASE /\ request' = [request EXCEPT ![r] = Config!Free]
             /\ request[r].page = "form" /\ Config!Current(r) /\ program.version < MaxVersion
             /\ program' = [request[r].row EXCEPT !.form = r, !.version = @ + 1]
    <3>1. program'.version = program.version + 1 /\ program'.form = r
      BY <2>3, <2>6 DEF Config!Current, Config!Rows
    <3>2. \A q \in PageRequests : request'[q].page = "form" => request'[q] = request[q]
      BY <1>1, <2>6 DEF Config!TypeOK, Config!Free
    <3>3. \A q \in PageRequests : request'[q].page = "form" => request'[q].row.version # program'.version
      BY <1>1, <2>3, <3>1, <3>2
    <3>4. QED
      BY <2>2, <2>6, <3>1, <3>3 DEF Config!FormInv, Config!FormsSerialize, Config!Current
  <2>7. \/ \E p \in Config!Pages :
             program' = program /\ request' = [request EXCEPT ![r] = [page |-> p, row |-> Config!Read(p)]]
        \/ /\ request' = [request EXCEPT ![r] = Config!Free]
           /\ \/ program'.version = program.version /\ program'.form = program.form
              \/ /\ request[r].page = "form" /\ Config!Current(r) /\ program.version < MaxVersion
                 /\ program' = [request[r].row EXCEPT !.form = r, !.version = @ + 1]
    BY <1>1, <2>1, ConfigSaves DEF Config!Rows
  <2>8. QED
    BY <2>4, <2>5, <2>6, <2>7
<1>3. CASE ~\E r \in PageRequests : ConfigRequest(r)
  <2>1. Config!TypeOK' /\ request' = request /\ program'.version = program.version /\ program'.form = program.form
    BY <1>1, <1>3, ConfigOutside DEF Config!Rows
  <2>2. QED
    BY <2>1 DEF Config!FormInv, Config!FormsSerialize, Config!Current
<1>4. QED
  BY <1>2, <1>3

-----------------------------------------------------------------------------
(* ProgramConfig: one page at a time.                                       *)

\* What a page goes by is a row.
LEMMA AloneRead ==
  ASSUME Alone!TypeOK, NEW p \in Alone!Pages
  PROVE  /\ Alone!Read(p) \in Alone!Rows /\ Alone!Read(p).version = v1.version
         /\ p = "form" => Alone!Read(p) = v1
         /\ p \in Alone!Scopes => Alone!Read(p).defaults = v1.defaults
<1> DEFINE program == v1
<1>1. program \in Alone!Rows /\ program.version \in 0..MaxVersion
  BY DEF Alone!TypeOK, Alone!Rows
<1>2. /\ Alone!Fresh \in [form : Alone!Authors, columns : Alone!Authors, aliens : SUBSET Aliens,
                           defaults : [Alone!Scopes -> Alone!Authors], cleanup : BOOLEAN, version : {0}]
      /\ program.defaults \in [Alone!Scopes -> Alone!Authors] /\ program.aliens \in SUBSET Aliens
  BY <1>1 DEF Alone!Fresh, Alone!Authors, Alone!Rows
<1>3. QED
  BY <1>1, <1>2 DEF Alone!Read, Alone!Rows, Alone!Scopes

\* What a request r does.
AloneRequest(r) ==
  \/ \E p \in Alone!Pages : Alone!Open(r, p)
  \/ Alone!SaveForm(r) \/ Alone!SaveColumns(r) \/ Alone!SaveDefaults(r) \/ Alone!Leave(r)
  \/ \E off, on \in SUBSET Aliens : Alone!SaveAliens(r, off, on)
  \/ \E answered \in BOOLEAN : Alone!PostSettings(r, answered)

\* A request saves the row that it read, or columns of its own, and only if the row has still
\* the version that it read; or it reads the row.
LEMMA AloneSaves ==
  ASSUME Alone!TypeOK, NEW r \in {x1}, AloneRequest(r)
  PROVE  /\ UNCHANGED <<v3, v4, v5>> /\ v6' \in 0..MaxSettings
         /\ \/ \E p \in Alone!Pages :
                 v1' = v1 /\ v2' = [v2 EXCEPT ![r] = [page |-> p, row |-> Alone!Read(p)]]
            \/ /\ v2' = [v2 EXCEPT ![r] = Alone!Free]
               /\ \/ v1' = v1
                  \/ /\ v2[r].page = "form" /\ Alone!Current(r) /\ v1.version < MaxVersion
                     /\ v1' = [v2[r].row EXCEPT !.form = r, !.version = @ + 1]
                  \/ v1' = [v1 EXCEPT !.columns = r]
                  \/ \E a \in SUBSET Aliens : v1' = [v1 EXCEPT !.aliens = a]
                  \/ /\ v2[r].page \in Alone!Scopes
                     /\ v1' = [v1 EXCEPT !.defaults = [v2[r].row.defaults EXCEPT ![v2[r].page] = r]]
<1> DEFINE program == v1  request == v2  rdp == v3  pushed == v4  engine == v5  settings == v6
<1>1. settings \in 0..MaxSettings /\ MaxSettings \in Nat
  BY BoundsAssumption DEF Alone!TypeOK, Alone!ConfigAssumption
<1>2. CASE \E p \in Alone!Pages : Alone!Open(r, p)
  BY <1>1, <1>2 DEF Alone!Open
<1>3. CASE Alone!SaveForm(r)
  BY <1>1, <1>3 DEF Alone!SaveForm, Alone!Close
<1>4. CASE Alone!SaveColumns(r) \/ Alone!Leave(r)
  BY <1>1, <1>4 DEF Alone!SaveColumns, Alone!Leave, Alone!Close
<1>5. CASE Alone!SaveDefaults(r)
  BY <1>1, <1>5 DEF Alone!SaveDefaults, Alone!Close
<1>6. CASE \E off, on \in SUBSET Aliens : Alone!SaveAliens(r, off, on)
  <2>1. PICK off \in SUBSET Aliens, on \in SUBSET Aliens : Alone!SaveAliens(r, off, on)
    BY <1>6
  <2>2. request[r].row.aliens \in SUBSET Aliens
    BY DEF Alone!TypeOK, Alone!Rows
  <2>3. (request[r].row.aliens \ off) \cup on \in SUBSET Aliens
    BY <2>2
  <2>4. QED
    BY <1>1, <2>1, <2>3 DEF Alone!SaveAliens, Alone!Close
<1>7. CASE \E answered \in BOOLEAN : Alone!PostSettings(r, answered)
  BY <1>1, <1>7 DEF Alone!PostSettings, Alone!Close
<1>8. QED
  BY <1>2, <1>3, <1>4, <1>5, <1>6, <1>7 DEF AloneRequest

\* Every row that is saved is a row, and is not older than the one it replaces.
LEMMA AloneRequestType ==
  ASSUME Alone!TypeOK, NEW r \in {x1}, AloneRequest(r)
  PROVE  Alone!TypeOK'
<1> DEFINE program == v1  request == v2
<1>1. /\ program \in Alone!Rows /\ request[r].row \in Alone!Rows /\ request[r].page \in Alone!Pages \cup {"none"}
      /\ r \in Alone!Authors /\ MaxVersion \in Nat
      /\ \A q \in {x1} : request[q].row.version \in Nat /\ request[q].row.version <= program.version
  BY BoundsAssumption DEF Alone!TypeOK, Alone!Rows, Alone!Authors, Alone!ConfigAssumption
<1>2. /\ program' \in Alone!Rows /\ program.version <= program'.version
      /\ program.version \in Nat /\ program'.version \in Nat
  <2>1. CASE program' = program
    BY <1>1, <2>1 DEF Alone!Rows
  <2>2. CASE /\ Alone!Current(r) /\ program.version < MaxVersion
             /\ program' = [request[r].row EXCEPT !.form = r, !.version = @ + 1]
    <3>1. request[r].row.version = program.version /\ request[r].row.version + 1 \in 0..MaxVersion
      BY <1>1, <2>2 DEF Alone!Current, Alone!Rows
    <3>2. /\ program'.form = r /\ program'.columns = request[r].row.columns
          /\ program'.aliens = request[r].row.aliens /\ program'.defaults = request[r].row.defaults
          /\ program'.cleanup = request[r].row.cleanup /\ program'.version = request[r].row.version + 1
      BY <1>1, <2>2 DEF Alone!Rows
    <3>3. program' \in Alone!Rows
      BY <1>1, <2>2, <3>1 DEF Alone!Rows
    <3>4. QED
      BY <1>1, <3>1, <3>2, <3>3 DEF Alone!Rows
  <2>3. CASE program' = [program EXCEPT !.columns = r]
    BY <1>1, <2>3 DEF Alone!Rows
  <2>4. CASE \E a \in SUBSET Aliens : program' = [program EXCEPT !.aliens = a]
    BY <1>1, <2>4 DEF Alone!Rows
  <2>5. CASE program' = [program EXCEPT !.defaults = [request[r].row.defaults EXCEPT ![request[r].page] = r]]
    <3>1. [request[r].row.defaults EXCEPT ![request[r].page] = r] \in [Alone!Scopes -> Alone!Authors]
      BY <1>1 DEF Alone!Rows
    <3>2. QED
      BY <1>1, <2>5, <3>1 DEF Alone!Rows
  <2>6. QED
    BY <2>1, <2>2, <2>3, <2>4, <2>5, AloneSaves
<1>3. Alone!Free \in [page : Alone!Pages \cup {"none"}, row : Alone!Rows] /\ Alone!Free.row.version = 0
  BY <1>1 DEF Alone!Free, Alone!Fresh, Alone!Rows, Alone!Authors
<1>4. /\ request' \in [{x1} -> [page : Alone!Pages \cup {"none"}, row : Alone!Rows]]
      /\ \A q \in {x1} : request'[q].row.version <= program'.version
  <2>1. CASE request' = [request EXCEPT ![r] = Alone!Free]
    BY <1>1, <1>2, <1>3, <2>1 DEF Alone!TypeOK
  <2>2. CASE \E p \in Alone!Pages :
               program' = program /\ request' = [request EXCEPT ![r] = [page |-> p, row |-> Alone!Read(p)]]
    BY <1>1, <1>2, <2>2, AloneRead DEF Alone!TypeOK
  <2>3. QED
    BY <2>1, <2>2, AloneSaves
<1>5. QED
  BY <1>2, <1>4, AloneSaves DEF Alone!TypeOK

\* The rest of the program's life does not touch what a page saves.
LEMMA AloneOutside ==
  ASSUME Alone!TypeOK, [Alone!Next]_(Alone!vars), ~\E r \in {x1} : AloneRequest(r)
  PROVE  /\ Alone!TypeOK' /\ v2' = v2
         /\ \E b \in BOOLEAN : v1' = [v1 EXCEPT !.cleanup = b]
<1> DEFINE program == v1  request == v2
<1>1. request' = request /\ \E b \in BOOLEAN : program' = [program EXCEPT !.cleanup = b]
  <2>1. program = [program EXCEPT !.cleanup = program.cleanup] /\ program.cleanup \in BOOLEAN
    BY DEF Alone!TypeOK, Alone!Rows
  <2>2. QED
    BY <2>1 DEF AloneRequest, Alone!Next, Alone!vars, Alone!BeginCleanup, Alone!EndCleanup, Alone!CreateRdp, Alone!MoveRdp,
      Alone!OpenSet, Alone!CloseSet
<1>2. program' \in Alone!Rows /\ program'.version = program.version
  BY <1>1 DEF Alone!TypeOK, Alone!Rows
<1>3. v3' \in Alone!RdpStatuses /\ v4' \in BOOLEAN /\ v5' \in {"none", "open", "closed"} /\ v6' = v6
  BY DEF AloneRequest, Alone!Next, Alone!vars, Alone!BeginCleanup, Alone!EndCleanup, Alone!CreateRdp, Alone!MoveRdp,
    Alone!OpenSet, Alone!CloseSet, Alone!TypeOK, Alone!RdpStatuses
<1>4. QED
  BY <1>1, <1>2, <1>3 DEF Alone!TypeOK

\* What the one page read is what there is when it saves.
LEMMA AloneStep ==
  ASSUME Alone!AloneInv, [Alone!Next]_(Alone!vars)
  PROVE  Alone!AloneInv' /\ Alone!OnlyThatScope
<1> DEFINE program == v1  request == v2
<1>1. Alone!TypeOK /\ program \in Alone!Rows /\ program.defaults \in [Alone!Scopes -> Alone!Authors]
  BY DEF Alone!AloneInv, Alone!TypeOK, Alone!Rows
<1>2. CASE \E r \in {x1} : AloneRequest(r)
  <2>1. AloneRequest(x1) /\ x1 \in {x1}
    BY <1>2
  <2>2. Alone!TypeOK'
    BY <1>1, <2>1, AloneRequestType
  <2>3. ASSUME NEW p \in Alone!Pages, program' = program,
               request' = [request EXCEPT ![x1] = [page |-> p, row |-> Alone!Read(p)]]
        PROVE  Alone!AloneInv' /\ Alone!OnlyThatScope
    BY <1>1, <2>2, <2>3, AloneRead DEF Alone!AloneInv, Alone!OnlyThatScope, Alone!TypeOK
  <2>4. CASE request' = [request EXCEPT ![x1] = Alone!Free]
    <3>1. request'[x1].page = "none" /\ "none" \notin {"form"} \cup Alone!Scopes
      BY <1>1, <2>4 DEF Alone!TypeOK, Alone!Free, Alone!Scopes
    <3>2. Alone!AloneInv'
      BY <2>2, <3>1 DEF Alone!AloneInv
    <3>3. request[x1].row \in Alone!Rows /\ request[x1].page \in Alone!Pages \cup {"none"}
      BY <1>1 DEF Alone!TypeOK
    <3>4. \/ program'.defaults = program.defaults
          \/ /\ request[x1].page \in Alone!Scopes
             /\ program'.defaults = [program.defaults EXCEPT ![request[x1].page] = x1]
      <4>1. request[x1].page \in {"form"} \cup Alone!Scopes => request[x1].row.defaults = program.defaults
        BY DEF Alone!AloneInv
      <4>2. "none" \notin Alone!Scopes
        BY <3>1
      <4>3. QED
        BY <1>1, <2>1, <2>4, <3>3, <4>1, AloneSaves DEF Alone!Rows
    <3>5. QED
      BY <1>1, <3>2, <3>4 DEF Alone!OnlyThatScope
  <2>5. QED
    BY <1>1, <2>1, <2>3, <2>4, AloneSaves
<1>3. CASE ~\E r \in {x1} : AloneRequest(r)
  <2>1. Alone!TypeOK' /\ request' = request /\ program'.defaults = program.defaults
    BY <1>1, <1>3, AloneOutside DEF Alone!Rows
  <2>2. QED
    BY <2>1 DEF Alone!AloneInv, Alone!OnlyThatScope
<1>4. QED
  BY <1>2, <1>3

PagesInv == (In("Config") => Config!FormInv) /\ (In("Alone") => Alone!AloneInv)

LEMMA InitPages == InitAll => PagesInv
<1>1. ASSUME ConfigInit PROVE Config!FormInv
  <2>1. MaxVersion \in Nat
    BY BoundsAssumption DEF Config!ConfigAssumption
  <2>2. Config!Fresh \in Config!Rows /\ Config!Fresh.version = 0
    BY <2>1 DEF Config!Fresh, Config!Rows, Config!Authors
  <2>3. Config!Free \in [page : Config!Pages \cup {"none"}, row : Config!Rows] /\ Config!Free.row.version = 0 /\ Config!Free.page = "none"
    BY <2>2 DEF Config!Free
  <2>4. Config!TypeOK
    <3>1. /\ v1 = Config!Fresh /\ v2 = [r \in PageRequests |-> Config!Free] /\ v3 = "NONE" /\ v4 = FALSE /\ v5 = "none" /\ v6 = 0
      BY <1>1 DEF ConfigInit, Config!Init
    <3>2. v2 \in [PageRequests -> [page : Config!Pages \cup {"none"}, row : Config!Rows]] /\ \A r \in PageRequests : v2[r].row.version <= v1.version
      BY <2>2, <2>3, <3>1
    <3>3. v4 \in BOOLEAN
      BY <3>1, Zenon
    <3>4. v6 \in 0..0
      BY <2>1, <3>1
    <3>5. v3 \in Config!RdpStatuses /\ v5 \in {"none", "open", "closed"}
      BY <3>1 DEF Config!RdpStatuses
    <3>6. QED
      BY <2>2, <3>1, <3>2, <3>3, <3>4, <3>5 DEF Config!TypeOK
  <2>5. QED
    BY <1>1, <2>3, <2>4 DEF ConfigInit, Config!Init, Config!FormInv
<1>2. ASSUME AloneInit PROVE Alone!AloneInv
  <2>1. MaxVersion \in Nat /\ MaxSettings \in Nat
    BY BoundsAssumption DEF Alone!ConfigAssumption
  <2>2. Alone!Fresh \in Alone!Rows /\ Alone!Fresh.version = 0
    BY <2>1 DEF Alone!Fresh, Alone!Rows, Alone!Authors
  <2>3. Alone!Free \in [page : Alone!Pages \cup {"none"}, row : Alone!Rows] /\ Alone!Free.row.version = 0 /\ Alone!Free.page = "none"
    BY <2>2 DEF Alone!Free
  <2>4. Alone!TypeOK
    <3>1. /\ v1 = Alone!Fresh /\ v2 = [r \in {x1} |-> Alone!Free] /\ v3 = "NONE" /\ v4 = FALSE /\ v5 = "none" /\ v6 = 0
      BY <1>2 DEF AloneInit, Alone!Init
    <3>2. v2 \in [{x1} -> [page : Alone!Pages \cup {"none"}, row : Alone!Rows]] /\ \A r \in {x1} : v2[r].row.version <= v1.version
      BY <2>2, <2>3, <3>1
    <3>3. v4 \in BOOLEAN
      BY <3>1, Zenon
    <3>4. v6 \in 0..MaxSettings
      BY <2>1, <3>1
    <3>5. v3 \in Alone!RdpStatuses /\ v5 \in {"none", "open", "closed"}
      BY <3>1 DEF Alone!RdpStatuses
    <3>6. QED
      BY <2>2, <3>1, <3>2, <3>3, <3>4, <3>5 DEF Alone!TypeOK
  <2>5. QED
    BY <1>2, <2>3, <2>4 DEF AloneInit, Alone!Init, Alone!AloneInv, Alone!Scopes
<1>3. QED
  BY <1>1, <1>2 DEF InitAll, PagesInv, In, JobGroupsInit, CleanupInit, ConfigInit, AloneInit, CacheInit,
    CacheCalmInit, SyncInit, SyncAllInit, DeltaInit, OverlapsInit, UpInit, DownInit, ScriptsInit

\* Of two forms that were read together one is saved, and a page of a scope that is open
\* alone replaces that scope only (IntegerVersionField, save_default_fields_for).
THEOREM PagesAlwaysSerialize == SpecAll => PagesSerialize
<1>1. PagesInv /\ [NextAll]_all => PagesInv'
  BY StepOfComponent, FormStep, AloneStep DEF PagesInv, In
<1>2. PagesInv /\ [NextAll]_all => [(In("Config") => Config!FormsSerialize) /\ (In("Alone") => Alone!OnlyThatScope)]_all
  BY StepOfComponent, FormStep, AloneStep DEF PagesInv
<1>3. QED
  BY InitPages, <1>1, <1>2, PTL DEF SpecAll, PagesSerialize

-----------------------------------------------------------------------------
(* ProgramCleanup.                                                         *)

\* What the other jobs do: none of them starts anew while the flag is set, and only one that
\* has looked for the last time leaves something.
LEMMA JobMoves ==
  ASSUME Cleanup!TypeOK, NEW j \in Cleanup!AllJobs,
         \/ Cleanup!RequestImport(j) \/ Cleanup!CreateJob(j) \/ Cleanup!RequeueJob(j)
         \/ Cleanup!JobStep(j) \/ Cleanup!FailJob(j)
  PROVE  /\ UNCHANGED <<v1, v2, v3, v4, v5, v7, v10, v11, v12, v13>> /\ v14' \in Nat
         /\ v6' \in [Cleanup!AllJobs -> Cleanup!JobSteps]
         /\ v1 => \A k \in Cleanup!AllJobs : Cleanup!Pending(k)' => Cleanup!Pending(k)
         /\ \/ UNCHANGED <<v8, v9>>
            \/ Cleanup!Pending(j) /\ j \in ImportJobs /\ v8' = v8 \cup {j} /\ v9' = v9
            \/ Cleanup!Pending(j) /\ j \in BiometricJobs /\ v9' = v9 \cup {v2} /\ v8' = v8
<1> DEFINE flag == v1  job == v6  batches == v8  groups == v9  faults == v14
<1>1. job \in [Cleanup!AllJobs -> Cleanup!JobSteps] /\ faults \in Nat
  BY DEF Cleanup!TypeOK
<1>2. \E s \in Cleanup!JobSteps : /\ job' = [job EXCEPT ![j] = s]
                                  /\ flag /\ s \in {"requested", "created", "queued", "running", "checked"}
                                       => Cleanup!Pending(j)
  BY DEF Cleanup!RequestImport, Cleanup!CreateJob, Cleanup!RequeueJob, Cleanup!JobStep, Cleanup!FailJob,
    Cleanup!QueueJob, Cleanup!Work, Cleanup!Finish, Cleanup!JobSteps, Cleanup!Pending
<1>3. /\ job' \in [Cleanup!AllJobs -> Cleanup!JobSteps]
      /\ flag => \A k \in Cleanup!AllJobs : Cleanup!Pending(k)' => Cleanup!Pending(k)
  BY <1>1, <1>2 DEF Cleanup!Pending
<1>4. UNCHANGED <<v1, v2, v3, v4, v5, v7, v10, v11, v12, v13>> /\ faults' \in Nat
  BY <1>1 DEF Cleanup!RequestImport, Cleanup!CreateJob, Cleanup!RequeueJob, Cleanup!JobStep, Cleanup!FailJob,
    Cleanup!QueueJob, Cleanup!Work, Cleanup!Finish, Cleanup!cleanup, Cleanup!rdps, Cleanup!names
<1>5. \/ UNCHANGED <<batches, groups>>
      \/ Cleanup!Pending(j) /\ j \in ImportJobs /\ batches' = batches \cup {j} /\ groups' = groups
      \/ Cleanup!Pending(j) /\ j \in BiometricJobs /\ groups' = groups \cup {v2} /\ batches' = batches
  BY DEF Cleanup!RequestImport, Cleanup!CreateJob, Cleanup!RequeueJob, Cleanup!JobStep, Cleanup!FailJob,
    Cleanup!QueueJob, Cleanup!Work, Cleanup!Finish, Cleanup!data, Cleanup!Pending, Cleanup!AllJobs
<1>6. QED
  BY <1>3, <1>4, <1>5

\* The other jobs leave what a job that the cleanup could not see may leave.
LEMMA CleanJobMove ==
  ASSUME Cleanup!CleanInv, NEW j \in Cleanup!AllJobs,
         \/ Cleanup!RequestImport(j) \/ Cleanup!CreateJob(j) \/ Cleanup!RequeueJob(j)
         \/ Cleanup!JobStep(j) \/ Cleanup!FailJob(j)
  PROVE  Cleanup!CleanInv'
<1> DEFINE flag == v1  reference == v2  stored == v3  clean == v4  todo == v5  job == v6  batches == v8
           groups == v9  late == v12
<1>1. /\ UNCHANGED <<v1, v2, v3, v4, v5, v7, v10, v11, v12, v13>> /\ v14' \in Nat
      /\ v6' \in [Cleanup!AllJobs -> Cleanup!JobSteps]
      /\ flag => \A k \in Cleanup!AllJobs : Cleanup!Pending(k)' => Cleanup!Pending(k)
      /\ \/ UNCHANGED <<batches, groups>>
         \/ Cleanup!Pending(j) /\ j \in ImportJobs /\ batches' = batches \cup {j} /\ groups' = groups
         \/ Cleanup!Pending(j) /\ j \in BiometricJobs /\ groups' = groups \cup {reference} /\ batches' = batches
  BY JobMoves DEF Cleanup!CleanInv
<1>2. Cleanup!TypeOK'
  BY <1>1 DEF Cleanup!CleanInv, Cleanup!TypeOK
<1>3. Cleanup!NoPushWhileDeleting'
  BY <1>1 DEF Cleanup!CleanInv, Cleanup!NoPushWhileDeleting
<1>4. clean \in Cleanup!Deleting => flag /\ clean # "queued"
  BY DEF Cleanup!CleanInv, Cleanup!TypeOK, Cleanup!Deleting
<1>5. clean \in Cleanup!Deleting => \A k \in Cleanup!AllJobs : Cleanup!Pending(k)' => k \in late
  BY <1>1, <1>4 DEF Cleanup!CleanInv
<1>6. clean \in Cleanup!Deleting /\ Cleanup!Pending(j) => j \in late
  BY DEF Cleanup!CleanInv
<1>7. /\ clean = "batches" => batches' \subseteq todo \cup late
      /\ clean \in {"rdps", "rdis", "jobs", "clear"} => batches' \subseteq late
  BY <1>1, <1>6 DEF Cleanup!CleanInv, Cleanup!Deleting
<1>8. /\ clean \in Cleanup!Deleting \ {"group"} => stored \notin groups' \/ Cleanup!LateGroups
      /\ clean \in Cleanup!Deleting \ {"group", "current"} =>
           reference \notin groups' \/ v13 > 1 \/ Cleanup!LateGroups
  BY <1>1, <1>6 DEF Cleanup!CleanInv, Cleanup!LateGroups
<1>9. v13 = 0 => groups' \subseteq {First} /\ reference = First /\ stored \in {First, NoReference}
  BY <1>1 DEF Cleanup!CleanInv
<1>10. QED
  BY <1>1, <1>2, <1>3, <1>5, <1>7, <1>8, <1>9 DEF Cleanup!CleanInv, Cleanup!LateGroups

\* The types, and the flag follows the cleanup.
LEMMA CleanTypes ==
  ASSUME Cleanup!TypeOK,
         \/ Cleanup!CleanProgram \/ Cleanup!RequeueClean \/ Cleanup!CleanStep \/ Cleanup!CleanStop
         \/ Cleanup!Rename \/ Cleanup!RdpStep
  PROVE  Cleanup!TypeOK' /\ UNCHANGED v6
<1>1. CASE Cleanup!CleanProgram
  BY <1>1 DEF Cleanup!CleanProgram, Cleanup!TypeOK, Cleanup!data, Cleanup!rdps, Cleanup!names, Cleanup!CleanSteps
<1>2. CASE Cleanup!RequeueClean \/ Cleanup!CleanTake \/ Cleanup!CleanStop
  BY <1>2 DEF Cleanup!RequeueClean, Cleanup!CleanTake, Cleanup!CleanStop, Cleanup!TypeOK, Cleanup!data,
    Cleanup!rdps, Cleanup!names, Cleanup!CleanSteps, Cleanup!Deleting
<1>3. CASE Cleanup!CleanCheck
  BY <1>3 DEF Cleanup!CleanCheck, Cleanup!TypeOK, Cleanup!data, Cleanup!rdps, Cleanup!names,
    Cleanup!CleanSteps, Cleanup!Deleting
<1>4. CASE Cleanup!CleanGroups \/ Cleanup!CleanList
  BY <1>4 DEF Cleanup!CleanGroups, Cleanup!CleanList, Cleanup!TypeOK, Cleanup!data, Cleanup!rdps,
    Cleanup!names, Cleanup!CleanSteps, Cleanup!Deleting
<1>5. CASE Cleanup!CleanBatches
  BY <1>5 DEF Cleanup!CleanBatches, Cleanup!TypeOK, Cleanup!rdps, Cleanup!names, Cleanup!CleanSteps,
    Cleanup!Deleting, Cleanup!AllJobs
<1>6. CASE Cleanup!CleanRdps \/ Cleanup!CleanJobs
  BY <1>6 DEF Cleanup!CleanRdps, Cleanup!CleanJobs, Cleanup!TypeOK, Cleanup!data, Cleanup!rdps,
    Cleanup!names, Cleanup!CleanSteps, Cleanup!Deleting
<1>7. CASE Cleanup!CleanEnd
  BY <1>7 DEF Cleanup!CleanEnd, Cleanup!TypeOK, Cleanup!data, Cleanup!rdps, Cleanup!names, Cleanup!CleanSteps
<1>8. CASE Cleanup!Rename
  BY <1>8 DEF Cleanup!Rename, Cleanup!TypeOK, Cleanup!cleanup, Cleanup!data, Cleanup!rdps
<1>9. CASE Cleanup!RdpStep
  <2>1. UNCHANGED <<v1, v2, v3, v4, v5, v6, v7, v8, v9, v12, v13, v14>>
          /\ v10' \in {"none", "unfinished", "push", "final"}
    BY <1>9 DEF Cleanup!RdpStep, Cleanup!CreateRdp, Cleanup!StartPush, Cleanup!EndPush, Cleanup!CancelRdp,
      Cleanup!cleanup, Cleanup!data, Cleanup!names
  <2>2. v11' = v11 \/ v11' = TRUE
    BY <1>9 DEF Cleanup!RdpStep, Cleanup!CreateRdp, Cleanup!StartPush, Cleanup!EndPush, Cleanup!CancelRdp
  <2>3. v11' \in BOOLEAN
    BY <2>2 DEF Cleanup!TypeOK
  <2>4. QED
    BY <2>1, <2>3 DEF Cleanup!TypeOK
<1>10. QED
  BY <1>1, <1>2, <1>3, <1>4, <1>5, <1>6, <1>7, <1>8, <1>9 DEF Cleanup!CleanStep

\* The cleanup itself: it looks, deletes in its order, and stops anywhere.
LEMMA CleanMove ==
  ASSUME Cleanup!CleanInv,
         Cleanup!CleanProgram \/ Cleanup!RequeueClean \/ Cleanup!CleanStep \/ Cleanup!CleanStop
  PROVE  Cleanup!CleanInv'
<1> DEFINE flag == v1  reference == v2  stored == v3  clean == v4  todo == v5  job == v6  batches == v8
           groups == v9  rdp == v10  late == v12  renames == v13
<1>1. Cleanup!TypeOK' /\ UNCHANGED job /\ Cleanup!TypeOK
  BY CleanTypes DEF Cleanup!CleanInv
<1>2. \A k \in Cleanup!AllJobs : Cleanup!Pending(k)' = Cleanup!Pending(k)
  BY <1>1 DEF Cleanup!Pending
<1>3. UNCHANGED <<reference, renames>>
  BY DEF Cleanup!CleanProgram, Cleanup!RequeueClean, Cleanup!CleanStep, Cleanup!CleanStop, Cleanup!CleanTake,
    Cleanup!CleanCheck, Cleanup!CleanGroups, Cleanup!CleanList, Cleanup!CleanBatches, Cleanup!CleanRdps,
    Cleanup!CleanJobs, Cleanup!CleanEnd, Cleanup!names
<1>4. CASE Cleanup!CleanProgram \/ Cleanup!RequeueClean \/ Cleanup!CleanTake \/ Cleanup!CleanStop \/ Cleanup!CleanEnd
  <2>1. clean' \in {"queued", "check", "failed", "done"} /\ UNCHANGED <<groups, rdp>>
    BY <1>4 DEF Cleanup!CleanProgram, Cleanup!RequeueClean, Cleanup!CleanTake, Cleanup!CleanStop,
      Cleanup!CleanEnd, Cleanup!data, Cleanup!rdps
  <2>2. stored' \in {stored, reference} /\ (flag' => flag \/ rdp # "push")
    BY <1>4 DEF Cleanup!CleanProgram, Cleanup!RequeueClean, Cleanup!CleanTake, Cleanup!CleanStop, Cleanup!CleanEnd
  <2>3. clean' \notin Cleanup!Deleting
    BY <2>1 DEF Cleanup!Deleting
  <2>4. QED
    BY <1>1, <1>3, <2>1, <2>2, <2>3 DEF Cleanup!CleanInv, Cleanup!NoPushWhileDeleting, Cleanup!Deleting
<1>5. CASE Cleanup!CleanCheck
  <2>1. UNCHANGED <<flag, stored, batches, groups, rdp>> /\ clean' \in {"failed", "group"}
    BY <1>5 DEF Cleanup!CleanCheck, Cleanup!data, Cleanup!rdps
  <2>2. ASSUME clean' = "group", NEW k \in Cleanup!AllJobs, Cleanup!Pending(k) PROVE k \in late'
    <3>1. ~Cleanup!Active(k) /\ late' = late \cup {j \in Cleanup!AllJobs : Cleanup!Unseen(j)}
      BY <1>5, <2>2 DEF Cleanup!CleanCheck
    <3>2. Cleanup!Unseen(k)
      BY <2>2, <3>1 DEF Cleanup!Active, Cleanup!Unseen, Cleanup!Pending
    <3>3. QED
      BY <3>1, <3>2
  <2>3. QED
    BY <1>1, <1>2, <1>3, <2>1, <2>2 DEF Cleanup!CleanInv, Cleanup!NoPushWhileDeleting, Cleanup!Deleting
<1>6. CASE Cleanup!CleanGroups
  <2>1. /\ UNCHANGED <<flag, stored, batches, rdp, late>>
        /\ \/ clean = "group" /\ clean' = "current" /\ groups' = groups \ {stored}
           \/ clean = "current" /\ clean' = "list" /\ groups' = groups \ {reference}
    BY <1>6 DEF Cleanup!CleanGroups, Cleanup!rdps
  <2>2. QED
    BY <1>1, <1>2, <1>3, <2>1 DEF Cleanup!CleanInv, Cleanup!NoPushWhileDeleting, Cleanup!Deleting, Cleanup!LateGroups
<1>7. CASE Cleanup!CleanList \/ Cleanup!CleanBatches
  <2>1. /\ UNCHANGED <<flag, stored, groups, rdp, late>>
        /\ \/ clean = "list" /\ clean' = "batches" /\ todo' = batches /\ batches' = batches
           \/ clean = "batches" /\ clean' = "rdps" /\ todo = {} /\ batches' = batches
           \/ /\ clean = "batches" /\ clean' = clean
              /\ \E b \in todo : todo' = todo \ {b} /\ batches' = batches \ {b}
    BY <1>7 DEF Cleanup!CleanList, Cleanup!CleanBatches, Cleanup!data, Cleanup!rdps
  <2>2. /\ clean' = "batches" => batches' \subseteq todo' \cup late'
        /\ clean' = "rdps" => batches' \subseteq late'
    BY <2>1 DEF Cleanup!CleanInv
  <2>3. clean \in Cleanup!Deleting \ {"group", "current"} /\ clean' \in {"batches", "rdps"}
    BY <2>1 DEF Cleanup!Deleting
  <2>4. QED
    BY <1>1, <1>2, <1>3, <2>1, <2>2, <2>3 DEF Cleanup!CleanInv, Cleanup!NoPushWhileDeleting, Cleanup!LateGroups, Cleanup!Deleting
<1>8. CASE Cleanup!CleanRdps \/ Cleanup!CleanJobs
  <2>1. /\ UNCHANGED <<flag, stored, groups, batches, late>> /\ rdp' \in {rdp, "none"}
        /\ clean \in {"rdps", "rdis", "jobs"} /\ clean' \in {"rdis", "jobs", "clear"}
    BY <1>8 DEF Cleanup!CleanRdps, Cleanup!CleanJobs, Cleanup!data, Cleanup!rdps
  <2>2. clean \in Cleanup!Deleting \ {"group", "current"}
    BY <2>1 DEF Cleanup!Deleting
  <2>3. QED
    BY <1>1, <1>2, <1>3, <2>1, <2>2 DEF Cleanup!CleanInv, Cleanup!NoPushWhileDeleting, Cleanup!LateGroups, Cleanup!Deleting
<1>9. QED
  BY <1>4, <1>5, <1>6, <1>7, <1>8 DEF Cleanup!CleanStep

\* Before the first rename all groups are of the first reference id.
LEMMA CleanRename ==
  ASSUME Cleanup!CleanInv, Cleanup!Rename
  PROVE  Cleanup!CleanInv'
<1> DEFINE reference == v2  stored == v3  clean == v4  groups == v9  renames == v13
<1>1. /\ UNCHANGED <<v1, v3, v4, v5, v6, v7, v8, v9, v10, v11, v12, v14>>
      /\ reference' # reference /\ renames' = renames + 1
  BY DEF Cleanup!Rename, Cleanup!cleanup, Cleanup!data, Cleanup!rdps
<1>2. Cleanup!TypeOK' /\ renames \in Nat
  BY CleanTypes DEF Cleanup!CleanInv, Cleanup!TypeOK
<1>3. renames = 0 /\ reference \notin groups => groups = {}
  BY DEF Cleanup!CleanInv
<1>4. renames # 0 => renames' > 1
  BY <1>1, <1>2
<1>5. clean \in Cleanup!Deleting \ {"group", "current"} =>
        reference' \notin groups \/ renames' > 1 \/ Cleanup!LateGroups
  BY <1>1, <1>2, <1>3, <1>4 DEF Cleanup!CleanInv
<1>6. renames' # 0
  BY <1>1, <1>2
<1>7. QED
  BY <1>1, <1>2, <1>5, <1>6 DEF Cleanup!CleanInv, Cleanup!NoPushWhileDeleting, Cleanup!LateGroups, Cleanup!Pending

LEMMA CleanNext ==
  ASSUME Cleanup!CleanInv, [Cleanup!Next]_(Cleanup!vars)
  PROVE  /\ Cleanup!CleanInv'
         /\ Cleanup!OnlyLateBatchesSurvive /\ Cleanup!GroupsAreDeleted
<1>1. ASSUME UNCHANGED Cleanup!vars PROVE Cleanup!CleanInv'
  <2>1. UNCHANGED <<v1, v2, v3, v4, v5, v6, v7, v8, v9, v10, v11, v12, v13, v14>>
    BY <1>1 DEF Cleanup!vars
  <2>2. Cleanup!TypeOK' /\ Cleanup!NoPushWhileDeleting'
    BY <2>1 DEF Cleanup!CleanInv, Cleanup!TypeOK, Cleanup!NoPushWhileDeleting
  <2>3. \A k \in Cleanup!AllJobs : Cleanup!Pending(k)' = Cleanup!Pending(k)
    BY <2>1 DEF Cleanup!Pending
  <2>4. QED
    BY <2>1, <2>2, <2>3 DEF Cleanup!CleanInv, Cleanup!LateGroups
<1>2. ASSUME Cleanup!RdpStep PROVE Cleanup!CleanInv'
  <2>1. UNCHANGED <<v1, v2, v3, v4, v5, v6, v7, v8, v9, v12, v13>> /\ (v1 => v10' # "push" \/ v10 = "push")
    BY <1>2 DEF Cleanup!RdpStep, Cleanup!CreateRdp, Cleanup!StartPush, Cleanup!EndPush, Cleanup!CancelRdp,
      Cleanup!cleanup, Cleanup!data, Cleanup!names
  <2>2. Cleanup!TypeOK' /\ Cleanup!NoPushWhileDeleting'
    BY <1>2, <2>1, CleanTypes DEF Cleanup!CleanInv, Cleanup!NoPushWhileDeleting
  <2>3. \A k \in Cleanup!AllJobs : Cleanup!Pending(k)' = Cleanup!Pending(k)
    BY <2>1 DEF Cleanup!Pending
  <2>4. QED
    BY <2>1, <2>2, <2>3 DEF Cleanup!CleanInv, Cleanup!LateGroups
<1>3. Cleanup!CleanInv'
  BY <1>1, <1>2, CleanJobMove, CleanMove, CleanRename DEF Cleanup!Next
<1>4. v4 = "clear" => Cleanup!OnlyLateBatchesSurvive /\ Cleanup!GroupsAreDeleted
  BY DEF Cleanup!CleanInv, Cleanup!OnlyLateBatchesSurvive, Cleanup!GroupsAreDeleted, Cleanup!LateGroups, Cleanup!Deleting
<1>5. v4 # "clear" => Cleanup!OnlyLateBatchesSurvive /\ Cleanup!GroupsAreDeleted
  BY DEF Cleanup!OnlyLateBatchesSurvive, Cleanup!GroupsAreDeleted
<1>6. QED
  BY <1>3, <1>4, <1>5

\* A job that waits for the lock of its group looks again when it has it.
LEMMA NeverStarts ==
  ASSUME IInv, [Next]_vars
  PROVE  RequestedNeverStarts
<1> SUFFICES ASSUME NEW w \in Workers, worker'[w].at = "running", worker[w].at # "running"
             PROVE  worker[w].job \notin requested
  BY DEF RequestedNeverStarts
<1>1. \A t : \A v \in Workers : worker' = [worker EXCEPT ![v] = t] /\ t.at # "running" => worker'[w] = worker[w]
  BY DEF IInv, WorkerType
<1>2. ASSUME NEW v \in Workers, Proceed(v) PROVE worker[w].job \notin requested
  BY <1>2 DEF Proceed, IInv, WorkerType
<1>3. ASSUME NEW v \in Workers, NEW j \in Jobs, Take(v, j) PROVE FALSE
  BY <1>1, <1>3 DEF Take
<1>4. ASSUME NEW v \in Workers, Acquire(v) PROVE FALSE
  BY <1>4 DEF Acquire, IInv, WorkerType
<1>5. ASSUME NEW v \in Workers, Cancel(v) \/ Fail(v) \/ Finish(v) \/ Die(v) PROVE FALSE
  BY <1>1, <1>5 DEF Cancel, Fail, Finish, Die, Leave, Idle
<1>6. CASE UNCHANGED worker
  BY <1>6
<1>7. QED
  BY <1>2, <1>3, <1>4, <1>5, <1>6 DEF Next, Work, Queue, Request, Expire, Redeliver, vars

ThoroughInv == (In("Cleanup") => Cleanup!CleanInv) /\ (In("JobGroups") => IInv)

LEMMA InitThorough == InitAll => ThoroughInv
<1>1. ASSUME CleanupInit PROVE Cleanup!CleanInv
  <2>1. First \in References
    BY BoundsAssumption DEF Cleanup!CleanupAssumption
  <2>2. QED
    BY <1>1, <2>1 DEF CleanupInit, Cleanup!Init, Cleanup!CleanInv, Cleanup!TypeOK, Cleanup!NoPushWhileDeleting,
      Cleanup!Deleting, Cleanup!CleanSteps, Cleanup!JobSteps
<1>2. QED
  BY <1>1, InitIInv DEF InitAll, ThoroughInv, In, JobGroupsInit, CleanupInit, ConfigInit, AloneInit, CacheInit,
    CacheCalmInit, SyncInit, SyncAllInit, DeltaInit, OverlapsInit, UpInit, DownInit, ScriptsInit

\* No push runs while a cleanup deletes; what it leaves of batches and groups is the work of
\* jobs it could not see (clean_program_data); and a job whose end was requested while it
\* waited for its turn does not start.
THEOREM CleanupAlwaysThorough == SpecAll => CleanupIsThorough
<1>1. ThoroughInv /\ [NextAll]_all => ThoroughInv'
  BY StepOfComponent, CleanNext, NextIInv DEF ThoroughInv, In
<1>2. ThoroughInv => (In("Cleanup") => Cleanup!NoPushWhileDeleting)
  BY DEF ThoroughInv, Cleanup!CleanInv
<1>3. ThoroughInv /\ [NextAll]_all =>
        [In("Cleanup") => Cleanup!OnlyLateBatchesSurvive /\ Cleanup!GroupsAreDeleted]_all
  BY StepOfComponent, CleanNext DEF ThoroughInv
<1>4. ThoroughInv /\ [NextAll]_all => [In("JobGroups") => RequestedNeverStarts]_all
  BY StepOfComponent, NeverStarts DEF ThoroughInv
<1>5. QED
  BY InitThorough, <1>1, <1>2, <1>3, <1>4, PTL DEF SpecAll, CleanupIsThorough

-----------------------------------------------------------------------------
(* RefSync, with every status and day: offices and programs.               *)

\* What a synchronisation Ref writes keeps the types when its own row does.
LEMMA RefRow ==
  ASSUME Sync!SyncInv, NEW s \in Syncs, NEW t, v5' = [v5 EXCEPT ![s] = t],
         \/ t = Sync!Idle
         \/ /\ t \in Sync!Runs(DOMAIN t.left) /\ t.after <= v3'[t.entity]
            /\ DOMAIN t.left \subseteq Sync!Of(t.entity)
            /\ t.at \in {"locked", "listed"} => v4'[t.entity] = s,
         v3' \in [Sync!Entities -> Nat], \A e \in Sync!Entities : v3[e] <= v3'[e] /\ v3'[e] <= v6,
         v4' \in [Sync!Entities -> Syncs \cup {Sync!Free}],
         \A q \in Syncs \ {s} : v5[q].at \in {"locked", "listed"} => v4'[v5[q].entity] = q,
         v2' \in [Sync!Records -> Sync!Rows \cup {Sync!Unknown}],
         v8' \in 0..MaxFails, v9' \in 0..MaxKills, UNCHANGED <<v1, v6, v7>>
  PROVE  Sync!SyncInv'
<1>1. v5' = [q \in Syncs |-> v5'[q]] /\ \A q \in Syncs : v5'[q] = IF q = s THEN t ELSE v5[q]
  BY DEF Sync!SyncInv
<1>2. \A e \in Sync!Entities : v3'[e] \in 0..v6' /\ v4'[e] \in Syncs \cup {Sync!Free}
  BY DEF Sync!SyncInv, Sync!TypeOK
<1>3. \A q \in Syncs : v5'[q].at \in {"locked", "listed"} => v4'[v5'[q].entity] = q
  BY <1>1 DEF Sync!Idle
<1>4. Sync!TypeOK'
  BY <1>2, <1>3 DEF Sync!SyncInv, Sync!TypeOK
<1>5. ASSUME NEW q \in Syncs, v5'[q] # Sync!Idle
      PROVE  /\ v5'[q] \in Sync!Runs(DOMAIN v5'[q].left)
             /\ v5'[q].after <= v3'[v5'[q].entity] /\ DOMAIN v5'[q].left \subseteq Sync!Of(v5'[q].entity)
  <2>1. CASE q = s
    BY <1>1, <1>5, <2>1
  <2>2. CASE q # s
    <3>1. v5'[q] = v5[q] /\ v5[q] \in Sync!Runs(DOMAIN v5[q].left) /\ v5[q].after <= v3[v5[q].entity]
          /\ DOMAIN v5[q].left \subseteq Sync!Of(v5[q].entity)
      BY <1>1, <1>5, <2>2 DEF Sync!SyncInv
    <3>2. v5[q].entity \in Sync!Entities /\ v5[q].after \in Nat
      BY <3>1 DEF Sync!Runs
    <3>3. v3[v5[q].entity] \in Nat /\ v3'[v5[q].entity] \in Nat /\ v3[v5[q].entity] <= v3'[v5[q].entity]
      BY <3>2 DEF Sync!SyncInv
    <3>4. QED
      BY <3>1, <3>2, <3>3
  <2>3. QED
    BY <2>1, <2>2
<1>6. QED
  BY <1>1, <1>4, <1>5 DEF Sync!SyncInv

\* The row of a synchronisation at work.
LEMMA RefRun ==
  ASSUME Sync!SyncInv, NEW s \in Syncs, v5[s].at \in {"waiting", "locked", "listed"}
  PROVE  /\ v5[s] # Sync!Idle /\ v5[s] \in Sync!Runs(DOMAIN v5[s].left) /\ v5[s].entity \in Sync!Entities
         /\ v5[s].after \in Nat /\ v5[s].after <= v3[v5[s].entity] /\ DOMAIN v5[s].left \subseteq Sync!Of(v5[s].entity)
         /\ v5[s].at # "waiting" => v4[v5[s].entity] = s
         /\ v5[s].left \in [DOMAIN v5[s].left -> Sync!Rows]
<1>1. v5[s] # Sync!Idle
  BY DEF Sync!Idle
<1>2. v5[s] \in Sync!Runs(DOMAIN v5[s].left)
  BY <1>1 DEF Sync!SyncInv
<1>3. QED
  BY <1>1, <1>2 DEF Sync!SyncInv, Sync!TypeOK, Sync!Runs

LEMMA RefStarts ==
  ASSUME Sync!SyncInv, NEW s \in Syncs, NEW full \in BOOLEAN, Sync!Begin(s, full)
  PROVE  Sync!SyncInv'
<1> DEFINE t == Sync!Waiting("offices", full)
<1>1. /\ v5' = [v5 EXCEPT ![s] = t] /\ UNCHANGED <<v1, v2, v3, v4, v6, v7, v8, v9>>
  BY DEF Sync!Begin
<1>2. /\ t \in Sync!Runs(DOMAIN t.left) /\ t.after <= v3[t.entity] /\ DOMAIN t.left = {} /\ t.at = "waiting"
  BY DEF Sync!Waiting, Sync!Runs, Sync!SyncInv, Sync!Entities
<1> HIDE DEF t
<1>3. QED
  BY <1>1, <1>2, RefRow DEF Sync!SyncInv, Sync!TypeOK

LEMMA RefAcquires ==
  ASSUME Sync!SyncInv, NEW s \in Syncs, Sync!Acquire(s)
  PROVE  Sync!SyncInv'
<1> DEFINE t == [v5[s] EXCEPT !.at = "locked"]
<1>1. /\ v5[s].at = "waiting" /\ v4[v5[s].entity] = Sync!Free
      /\ v4' = [v4 EXCEPT ![v5[s].entity] = s] /\ UNCHANGED <<v1, v2, v3, v6, v7, v8, v9>>
      /\ v5' = [v5 EXCEPT ![s] = t]
  BY DEF Sync!Acquire
<1>2. /\ v5[s] \in Sync!Runs(DOMAIN v5[s].left) /\ v5[s].entity \in Sync!Entities
      /\ v5[s].after <= v3[v5[s].entity] /\ DOMAIN v5[s].left \subseteq Sync!Of(v5[s].entity)
  BY <1>1, RefRun
<1>3. t \in Sync!Runs(DOMAIN v5[s].left) /\ t.left = v5[s].left /\ t.entity = v5[s].entity /\ t.after = v5[s].after
  BY <1>2 DEF Sync!Runs
<1>4. \A q \in Syncs : q # Sync!Free
  BY BoundsAssumption DEF Sync!SyncAssumption, Sync!Free
<1>5. \A q \in Syncs \ {s} : v5[q].at \in {"locked", "listed"} =>
        v4[v5[q].entity] = q /\ v5[q].entity \in Sync!Entities /\ v5[q].entity # v5[s].entity
  BY <1>1, <1>4, RefRun
<1>6. v4' \in [Sync!Entities -> Syncs \cup {Sync!Free}] /\ v4'[v5[s].entity] = s
      /\ \A e \in Sync!Entities : e # v5[s].entity => v4'[e] = v4[e]
  BY <1>1, <1>2 DEF Sync!SyncInv
<1> HIDE DEF t
<1>7. \A q \in Syncs \ {s} : v5[q].at \in {"locked", "listed"} => v4'[v5[q].entity] = q
  BY <1>5, <1>6
<1>8. QED
  BY <1>1, <1>2, <1>3, <1>6, <1>7, RefRow DEF Sync!SyncInv, Sync!TypeOK

LEMMA RefFetches ==
  ASSUME Sync!SyncInv, NEW s \in Syncs, Sync!Fetch(s)
  PROVE  Sync!SyncInv'
<1> DEFINE l == [r \in {q \in Sync!Of(v5[s].entity) : v1[q].day >= v5[s].after} |-> Sync!Listed(r)]
           t == [v5[s] EXCEPT !.at = "listed", !.left = l]
<1>1. /\ v5[s].at = "locked" /\ UNCHANGED <<v1, v2, v3, v4, v6, v7, v8, v9>> /\ v5' = [v5 EXCEPT ![s] = t]
  BY DEF Sync!Fetch
<1>2. /\ v5[s] \in Sync!Runs(DOMAIN v5[s].left) /\ v5[s].entity \in Sync!Entities
      /\ v5[s].after <= v3[v5[s].entity] /\ v4[v5[s].entity] = s
  BY <1>1, RefRun
<1>3. /\ DOMAIN l \subseteq Sync!Of(v5[s].entity) /\ l \in [DOMAIN l -> Sync!Rows]
  <2>1. \A r \in Sync!Of(v5[s].entity) : Sync!Listed(r) \in Sync!Rows
    BY <1>2 DEF Sync!Of, Sync!Records, Sync!SyncInv, Sync!Listed, Sync!Rows
  <2>2. QED
    BY <2>1
<1> HIDE DEF l
<1>4. t \in Sync!Runs(DOMAIN l) /\ t.left = l /\ t.entity = v5[s].entity /\ t.after = v5[s].after
  BY <1>2, <1>3 DEF Sync!Runs
<1> HIDE DEF t
<1>5. \A q \in Syncs \ {s} : v5[q].at \in {"locked", "listed"} => v4'[v5[q].entity] = q
  BY <1>1 DEF Sync!SyncInv, Sync!TypeOK
<1>6. QED
  BY <1>1, <1>2, <1>3, <1>4, <1>5, RefRow DEF Sync!SyncInv, Sync!TypeOK

\* One record less is left.
LEMMA RefLess ==
  ASSUME Sync!SyncInv, NEW s \in Syncs, v5[s].at = "listed", NEW r
  PROVE  /\ Sync!Without(s, r) \in [DOMAIN Sync!Without(s, r) -> Sync!Rows]
         /\ DOMAIN Sync!Without(s, r) = DOMAIN v5[s].left \ {r}
         /\ \A q \in DOMAIN v5[s].left \ {r} : Sync!Without(s, r)[q] = v5[s].left[q]
<1>1. v5[s].left \in [DOMAIN v5[s].left -> Sync!Rows]
  BY RefRun
<1>2. QED
  BY <1>1 DEF Sync!Without

LEMMA RefApplies ==
  ASSUME Sync!SyncInv, NEW s \in Syncs, NEW r \in Sync!Records, Sync!Apply(s, r) \/ Sync!ApplyFails(s, r)
  PROVE  Sync!SyncInv'
<1> DEFINE l == Sync!Without(s, r)
<1>1. PICK f \in BOOLEAN : v5' = [v5 EXCEPT ![s] = [v5[s] EXCEPT !.left = l, !.failed = f]]
  <2>1. CASE Sync!Apply(s, r)
    <3>1. v5[s] \in Sync!Runs(DOMAIN v5[s].left)
      BY <2>1, RefRun DEF Sync!Apply
    <3>2. v5[s].failed \in BOOLEAN /\ [v5[s] EXCEPT !.left = l] = [v5[s] EXCEPT !.left = l, !.failed = v5[s].failed]
      BY <3>1 DEF Sync!Runs
    <3>3. v5' = [v5 EXCEPT ![s] = [v5[s] EXCEPT !.left = l]]
      BY <2>1 DEF Sync!Apply
    <3>4. QED
      BY <3>2, <3>3
  <2>2. CASE Sync!ApplyFails(s, r)
    BY <2>2 DEF Sync!ApplyFails
  <2>3. QED
    BY <2>1, <2>2
<1> DEFINE t == [v5[s] EXCEPT !.left = l, !.failed = f]
<1>2. v5[s].at = "listed" /\ r \in DOMAIN v5[s].left /\ UNCHANGED <<v1, v3, v4, v6, v7, v9>>
  BY DEF Sync!Apply, Sync!ApplyFails
<1>3. /\ v5[s] \in Sync!Runs(DOMAIN v5[s].left) /\ v5[s].entity \in Sync!Entities
      /\ v5[s].after <= v3[v5[s].entity] /\ v4[v5[s].entity] = s
      /\ DOMAIN v5[s].left \subseteq Sync!Of(v5[s].entity) /\ v5[s].left \in [DOMAIN v5[s].left -> Sync!Rows]
  BY <1>2, RefRun
<1>4. v5[s].left[r] \in Sync!Rows
  BY <1>2, <1>3
<1>5. v2' \in [Sync!Records -> Sync!Rows \cup {Sync!Unknown}]
  BY <1>4 DEF Sync!SyncInv, Sync!Apply, Sync!ApplyFails
<1>6. v8' \in 0..MaxFails
  <2>1. v8 \in 0..MaxFails /\ MaxFails \in Nat
    BY BoundsAssumption DEF Sync!SyncInv, Sync!TypeOK, Sync!SyncAssumption
  <2>2. v8' = v8 \/ (v8 < MaxFails /\ v8' = v8 + 1)
    BY DEF Sync!Apply, Sync!ApplyFails
  <2>3. QED
    BY <2>1, <2>2
<1>7. l \in [DOMAIN l -> Sync!Rows] /\ DOMAIN l = DOMAIN v5[s].left \ {r}
  BY <1>2, RefLess
<1> HIDE DEF l
<1>8. t \in Sync!Runs(DOMAIN l) /\ t.left = l /\ t.entity = v5[s].entity /\ t.after = v5[s].after
  BY <1>3, <1>7 DEF Sync!Runs
<1>9. v5' = [v5 EXCEPT ![s] = t]
  BY <1>1
<1> HIDE DEF t
<1>10. \A q \in Syncs \ {s} : v5[q].at \in {"locked", "listed"} => v4'[v5[q].entity] = q
  BY <1>2 DEF Sync!SyncInv, Sync!TypeOK
<1>11. QED
  BY <1>2, <1>3, <1>5, <1>6, <1>7, <1>8, <1>9, <1>10, RefRow DEF Sync!SyncInv, Sync!TypeOK

\* The lock a synchronisation releases is its own.
LEMMA RefReleases ==
  ASSUME Sync!SyncInv, NEW s \in Syncs, v5[s].at \in {"locked", "listed"}
  PROVE  /\ Sync!Unlocked(s) \in [Sync!Entities -> Syncs \cup {Sync!Free}]
         /\ \A q \in Syncs \ {s} : v5[q].at \in {"locked", "listed"} => Sync!Unlocked(s)[v5[q].entity] = q
<1>1. v4[v5[s].entity] = s /\ v5[s].entity \in Sync!Entities
  BY RefRun
<1>2. \A q \in Syncs \ {s} : v5[q].at \in {"locked", "listed"} =>
        v4[v5[q].entity] = q /\ v5[q].entity \in Sync!Entities /\ v5[q].entity # v5[s].entity
  BY <1>1, RefRun
<1>3. v4 \in [Sync!Entities -> Syncs \cup {Sync!Free}]
  BY DEF Sync!SyncInv
<1>4. QED
  BY <1>1, <1>2, <1>3 DEF Sync!Unlocked

LEMMA RefFinishes ==
  ASSUME Sync!SyncInv, NEW s \in Syncs, Sync!Finish(s)
  PROVE  Sync!SyncInv'
<1>1. /\ v5[s].at = "listed" /\ v4' = Sync!Unlocked(s) /\ UNCHANGED <<v1, v2, v6, v7, v8, v9>>
  BY DEF Sync!Finish
<1>2. /\ v5[s] \in Sync!Runs(DOMAIN v5[s].left) /\ v5[s].entity \in Sync!Entities
  BY <1>1, RefRun
<1>3. /\ v4' \in [Sync!Entities -> Syncs \cup {Sync!Free}]
      /\ \A q \in Syncs \ {s} : v5[q].at \in {"locked", "listed"} => v4'[v5[q].entity] = q
  BY <1>1, RefReleases
<1>4. v6 \in Nat /\ v3 \in [Sync!Entities -> Nat] /\ \A e \in Sync!Entities : v3[e] <= v6
  BY BoundsAssumption DEF Sync!SyncInv, Sync!TypeOK, Sync!SyncAssumption
<1>5. CASE v5[s].failed
  <2>1. v5' = [v5 EXCEPT ![s] = Sync!Idle] /\ UNCHANGED v3
    BY <1>5 DEF Sync!Finish
  <2>2. QED
    BY <1>1, <1>3, <1>4, <2>1, RefRow DEF Sync!SyncInv, Sync!TypeOK
<1>6. CASE ~v5[s].failed
  <2> DEFINE t == Sync!After(s)
  <2>1. v5' = [v5 EXCEPT ![s] = t] /\ v3' = [v3 EXCEPT ![v5[s].entity] = v6]
    BY <1>6 DEF Sync!Finish
  <2>2. v3' \in [Sync!Entities -> Nat] /\ \A e \in Sync!Entities : v3[e] <= v3'[e] /\ v3'[e] <= v6
    BY <1>2, <1>4, <2>1
  <2>3. \/ t = Sync!Idle
        \/ /\ t \in Sync!Runs(DOMAIN t.left) /\ t.after <= v3'[t.entity]
           /\ DOMAIN t.left \subseteq Sync!Of(t.entity)
           /\ t.at \in {"locked", "listed"} => v4'[t.entity] = s
    <3>1. CASE v5[s].entity = "offices"
      <4>1. t = Sync!Waiting("programs", v5[s].full) /\ v5[s].full \in BOOLEAN
        BY <1>2, <3>1 DEF Sync!After, Sync!Runs
      <4>2. v3["programs"] \in Nat /\ v3["programs"] <= v3'["programs"] /\ v3'["programs"] \in Nat
        BY <1>4, <2>2 DEF Sync!Entities
      <4>3. t \in Sync!Runs(DOMAIN t.left) /\ t.entity = "programs" /\ t.at = "waiting" /\ DOMAIN t.left = {}
            /\ t.after \in {0, v3["programs"]}
        BY <1>4, <4>1 DEF Sync!Waiting, Sync!Runs, Sync!Entities
      <4>4. QED
        BY <4>2, <4>3
    <3>2. CASE v5[s].entity # "offices"
      BY <3>2 DEF Sync!After
    <3>3. QED
      BY <3>1, <3>2
  <2> HIDE DEF t
  <2>4. QED
    BY <1>1, <1>3, <2>1, <2>2, <2>3, RefRow DEF Sync!SyncInv, Sync!TypeOK
<1>7. QED
  BY <1>5, <1>6

LEMMA RefFaults ==
  ASSUME Sync!SyncInv, NEW s \in Syncs, Sync!FetchFails(s) \/ Sync!Kill(s)
  PROVE  Sync!SyncInv'
<1>1. v5' = [v5 EXCEPT ![s] = Sync!Idle] /\ UNCHANGED <<v1, v2, v3, v6, v7>>
  BY DEF Sync!FetchFails, Sync!Kill
<1>2. v8' \in 0..MaxFails /\ v9' \in 0..MaxKills
  <2>1. v8 \in 0..MaxFails /\ MaxFails \in Nat /\ v9 \in 0..MaxKills /\ MaxKills \in Nat
    BY BoundsAssumption DEF Sync!SyncInv, Sync!TypeOK, Sync!SyncAssumption
  <2>2. (v8' = v8 \/ (v8 < MaxFails /\ v8' = v8 + 1)) /\ (v9' = v9 \/ (v9 < MaxKills /\ v9' = v9 + 1))
    BY DEF Sync!FetchFails, Sync!Kill
  <2>3. QED
    BY <2>1, <2>2
<1>3. /\ v4' \in [Sync!Entities -> Syncs \cup {Sync!Free}]
      /\ \A q \in Syncs \ {s} : v5[q].at \in {"locked", "listed"} => v4'[v5[q].entity] = q
  <2>1. CASE Sync!FetchFails(s)
    BY <2>1, RefReleases DEF Sync!FetchFails
  <2>2. CASE Sync!Kill(s)
    BY <2>2 DEF Sync!Kill, Sync!SyncInv, Sync!TypeOK
  <2>3. QED
    BY <2>1, <2>2
<1>4. v3 \in [Sync!Entities -> Nat] /\ \A e \in Sync!Entities : v3[e] <= v3[e] /\ v3[e] <= v6
  BY DEF Sync!SyncInv, Sync!TypeOK
<1>5. QED
  BY <1>1, <1>2, <1>3, <1>4, RefRow DEF Sync!SyncInv

\* HOPE changes a record, or a day passes.
LEMMA RefOutside ==
  ASSUME Sync!SyncInv,
         \/ \E r \in Sync!Records, st \in {"active", "inactive"} : Sync!Change(r, st)
         \/ Sync!NextDay
  PROVE  Sync!SyncInv'
<1> DEFINE Held == [status : {"active", "inactive"}, version : Nat, day : Nat]
<1>1. UNCHANGED <<v2, v3, v4, v5, v8, v9>>
  BY DEF Sync!Change, Sync!NextDay
<1>2. v6 \in 1..MaxDay /\ MaxDay \in Nat /\ v7 \in 0..MaxChanges /\ MaxChanges \in Nat
  BY BoundsAssumption DEF Sync!SyncInv, Sync!TypeOK, Sync!SyncAssumption
<1>3. v6' \in 1..MaxDay /\ v6 <= v6' /\ v7' \in 0..MaxChanges
  BY <1>2 DEF Sync!Change, Sync!NextDay
<1>4. v1' \in [Sync!Records -> Held]
  <2>1. v1 \in [Sync!Records -> Held]
    BY DEF Sync!SyncInv
  <2>2. ASSUME NEW r \in Sync!Records, NEW st \in {"active", "inactive"}, Sync!Change(r, st)
        PROVE  v1' \in [Sync!Records -> Held]
    <3>1. v1' = [v1 EXCEPT ![r] = [status |-> st, version |-> v1[r].version + 1, day |-> v6]]
      BY <2>2 DEF Sync!Change
    <3>2. v1[r].version + 1 \in Nat
      BY <2>1
    <3>3. QED
      BY <1>2, <2>1, <3>1, <3>2
  <2>3. QED
    BY <2>1, <2>2 DEF Sync!NextDay
<1>5. Sync!TypeOK'
  BY <1>1, <1>2, <1>3 DEF Sync!SyncInv, Sync!TypeOK
<1>6. QED
  BY <1>1, <1>4, <1>5 DEF Sync!SyncInv

LEMMA RefTypes ==
  ASSUME Sync!SyncInv, [Sync!Next]_(Sync!vars)
  PROVE  Sync!SyncInv'
<1>1. CASE UNCHANGED Sync!vars
  <2>1. UNCHANGED <<v1, v2, v3, v4, v5, v6, v7, v8, v9>>
    BY <1>1 DEF Sync!vars
  <2>2. QED
    BY <2>1 DEF Sync!SyncInv, Sync!TypeOK
<1>2. CASE Sync!Next
  BY <1>2, RefStarts, RefAcquires, RefFetches, RefApplies, RefFinishes, RefFaults, RefOutside
    DEF Sync!Next, Sync!Step, Sync!Fault
<1>3. QED
  BY <1>1, <1>2

LEMMA RefInit ==
  ASSUME Sync!Init
  PROVE  Sync!SyncInv
<1>1. /\ v6 = 1 /\ v7 = 0 /\ v8 = 0 /\ v9 = 0
      /\ v3 = [e \in Sync!Entities |-> 0] /\ v4 = [e \in Sync!Entities |-> Sync!Free]
      /\ v5 = [s \in Syncs |-> Sync!Idle]
  BY DEF Sync!Init
<1>2. Sync!TypeOK
  BY <1>1, BoundsAssumption DEF Sync!TypeOK, Sync!SyncAssumption, Sync!Idle
<1>3. v1 \in [Sync!Records -> [status : {"active", "inactive"}, version : Nat, day : Nat]]
      /\ v2 \in [Sync!Records -> Sync!Rows \cup {Sync!Unknown}]
  BY DEF Sync!Init
<1>4. QED
  BY <1>1, <1>2, <1>3 DEF Sync!SyncInv

\* Offices and programs are different rows.
LEMMA EntityFacts ==
  /\ Sync!Entities = {"offices", "programs"} /\ Sync!Of("offices") = Offices /\ Sync!Of("programs") = Programs
  /\ Offices \cap Programs = {} /\ OfficeOf \in [Programs -> Offices] /\ Sync!Records = Offices \cup Programs
BY BoundsAssumption DEF Sync!SyncAssumption, Sync!Entities, Sync!Of, Sync!Records

\* What the row of a synchronisation says while it goes through the records.
GoneThrough(t, rows) ==
  \A r \in Sync!Of(t.entity) :
    /\ r \in DOMAIN t.left =>
         t.left[r].status = "active" /\ (t.left[r] = Sync!Listed(r) \/ v1[r].day = v6)
    /\ r \notin DOMAIN t.left =>
         t.failed \/ /\ rows[r] # Sync!Unknown
                     /\ (rows[r].status = v1[r].status /\ rows[r].version = v1[r].version) \/ v1[r].day = v6

\* A synchronisation disturbs no other: those that go through records have the lock.
LEMMA MissRow ==
  ASSUME Sync!MissInv, Sync!SyncInv', NEW s \in Syncs, NEW t, v5' = [v5 EXCEPT ![s] = t], UNCHANGED <<v1, v6>>,
         \A r \in Sync!Records :
           \/ v2'[r] = v2[r]
           \/ /\ Sync!Listing(s) /\ r \in Sync!Of(v5[s].entity) /\ Sync!Known(r)'
              /\ Sync!Same(r)' \/ v1[r].day = v6,
         \A e \in Sync!Entities :
           \/ v3'[e] = v3[e]
           \/ /\ v3'[e] = v6 /\ \A r \in Sync!Of(e) : Sync!Known(r)' /\ (Sync!Same(r)' \/ v1[r].day = v6),
         t # Sync!Idle /\ t.entity = "programs" => v3'["offices"] > 0,
         t.at = "listed" => GoneThrough(t, v2')
  PROVE  Sync!MissInv'
<1>1. \A q \in Syncs : v5'[q] = IF q = s THEN t ELSE v5[q]
  BY DEF Sync!MissInv, Sync!SyncInv
<1>2. v6 \in Nat \ {0} /\ v3 \in [Sync!Entities -> Nat] /\ v3' \in [Sync!Entities -> Nat]
      /\ \A e \in Sync!Entities : v3[e] <= v6 /\ v3'[e] <= v6
      /\ v1 \in [Sync!Records -> [status : {"active", "inactive"}, version : Nat, day : Nat]]
  BY BoundsAssumption DEF Sync!MissInv, Sync!SyncInv, Sync!TypeOK, Sync!SyncAssumption
<1>3. \A r \in Sync!Records : v1'[r].status = "active" /\ v1'[r].day <= v6'
  BY DEF Sync!MissInv
<1>4. \A e \in Sync!Entities : \A r \in Sync!Of(e) : Sync!Same(r)' \/ v1'[r].day >= v3'[e]
  <2> SUFFICES ASSUME NEW e \in Sync!Entities, NEW r \in Sync!Of(e) PROVE Sync!Same(r)' \/ v1[r].day >= v3'[e]
    OBVIOUS
  <2>1. r \in Sync!Records /\ v1[r].day \in Nat /\ v3[e] \in Nat /\ v3'[e] \in Nat /\ v3'[e] <= v6
    BY <1>2, EntityFacts
  <2>2. Sync!Same(r) \/ v1[r].day >= v3[e]
    BY DEF Sync!MissInv
  <2>3. v2'[r] = v2[r] => Sync!Same(r)' = Sync!Same(r)
    BY DEF Sync!Same
  <2>4. QED
    BY <1>2, <2>1, <2>2, <2>3
<1>5. v3'["offices"] > 0 => \A r \in Offices : Sync!Known(r)'
  <2> SUFFICES ASSUME v3'["offices"] > 0, NEW r \in Offices PROVE Sync!Known(r)'
    OBVIOUS
  <2>1. r \in Sync!Of("offices") /\ r \in Sync!Records /\ "offices" \in Sync!Entities
    BY EntityFacts
  <2>2. CASE v3'["offices"] # v3["offices"]
    BY <2>1, <2>2
  <2>3. CASE v3'["offices"] = v3["offices"]
    BY <2>1, <2>3 DEF Sync!MissInv, Sync!Known
  <2>4. QED
    BY <2>2, <2>3
<1>6. v3["offices"] > 0 => v3'["offices"] > 0
  BY <1>2, EntityFacts
<1>7. ASSUME NEW q \in Syncs
      PROVE  /\ v5'[q] # Sync!Idle /\ v5'[q].entity = "programs" => v3'["offices"] > 0
             /\ v5'[q].at = "listed" => GoneThrough(v5'[q], v2')
  <2>1. CASE q = s
    BY <1>1, <2>1
  <2>2. CASE q # s
    <3>1. v5'[q] = v5[q]
      BY <1>1, <2>2
    <3>2. v5[q] # Sync!Idle /\ v5[q].entity = "programs" => v3["offices"] > 0
      BY DEF Sync!MissInv
    <3>3. ASSUME v5[q].at = "listed" PROVE GoneThrough(v5'[q], v2')
      <4>1. GoneThrough(v5[q], v2)
        BY <3>3 DEF Sync!MissInv, GoneThrough, Sync!Listing, Sync!Known, Sync!Same
      <4>2. v5[q].entity \in Sync!Entities /\ v4[v5[q].entity] = q
        BY <3>3, RefRun DEF Sync!MissInv
      <4>3. Sync!Listing(s) => v5[s].entity \in Sync!Entities /\ v4[v5[s].entity] = s
        BY RefRun DEF Sync!MissInv, Sync!Listing
      <4>4. \A r \in Sync!Of(v5[q].entity) : r \in Sync!Records /\ v2'[r] = v2[r]
        BY <2>2, <4>2, <4>3, EntityFacts
      <4>5. QED
        BY <3>1, <4>1, <4>4 DEF GoneThrough
    <3>4. QED
      BY <1>6, <3>1, <3>2, <3>3
  <2>3. QED
    BY <2>1, <2>2
<1>8. v1' = v1 /\ v6' = v6
  OBVIOUS
<1>9. ASSUME NEW q \in Syncs
      PROVE  Sync!Listing(q)' => \A r \in Sync!Of(v5'[q].entity) :
            /\ r \in DOMAIN v5'[q].left =>
                 v5'[q].left[r].status = "active" /\ (v5'[q].left[r] = Sync!Listed(r)' \/ v1'[r].day = v6')
            /\ r \notin DOMAIN v5'[q].left =>
                 v5'[q].failed \/ (Sync!Known(r)' /\ (Sync!Same(r)' \/ v1'[r].day = v6'))
  BY <1>7, <1>8 DEF Sync!Listing, GoneThrough, Sync!Listed, Sync!Known, Sync!Same
<1>10. QED
  BY <1>3, <1>4, <1>5, <1>7, <1>9 DEF Sync!MissInv

\* HOPE lists all that was changed since the last success: the rest is stored already.
LEMMA MissFetch ==
  ASSUME Sync!MissInv, Sync!SyncInv', NEW s \in Syncs, Sync!Fetch(s)
  PROVE  Sync!MissInv'
<1> DEFINE l == [r \in {q \in Sync!Of(v5[s].entity) : v1[q].day >= v5[s].after} |-> Sync!Listed(r)]
           t == [v5[s] EXCEPT !.at = "listed", !.left = l]
<1>1. /\ v5[s].at = "locked" /\ UNCHANGED <<v1, v2, v3, v6>> /\ v5' = [v5 EXCEPT ![s] = t]
  BY DEF Sync!Fetch
<1>2. /\ v5[s] # Sync!Idle /\ v5[s] \in Sync!Runs(DOMAIN v5[s].left) /\ v5[s].entity \in Sync!Entities
      /\ v5[s].after \in Nat /\ v5[s].after <= v3[v5[s].entity]
  BY <1>1, RefRun DEF Sync!MissInv
<1>3. /\ DOMAIN l = {q \in Sync!Of(v5[s].entity) : v1[q].day >= v5[s].after}
      /\ \A r \in DOMAIN l : l[r] = Sync!Listed(r)
  OBVIOUS
<1> HIDE DEF l
<1>4. t.left = l /\ t.entity = v5[s].entity
  BY <1>2 DEF Sync!Runs
<1> HIDE DEF t
<1>5. ASSUME NEW r \in Sync!Of(t.entity)
      PROVE  /\ r \in DOMAIN t.left =>
                  t.left[r].status = "active" /\ (t.left[r] = Sync!Listed(r) \/ v1[r].day = v6)
             /\ r \notin DOMAIN t.left =>
                  t.failed \/ (Sync!Known(r) /\ (Sync!Same(r) \/ v1[r].day = v6))
  <2>1. r \in Sync!Of(v5[s].entity) /\ r \in Sync!Records
    BY <1>2, <1>4, EntityFacts
  <2>2. CASE r \in DOMAIN t.left
    <3>1. t.left[r] = Sync!Listed(r) /\ v1[r].status = "active"
      BY <1>3, <1>4, <2>1, <2>2 DEF Sync!MissInv
    <3>2. QED
      BY <2>2, <3>1 DEF Sync!Listed
  <2>3. CASE r \notin DOMAIN t.left
    <3>1. v1[r].day \in Nat /\ v3[v5[s].entity] \in Nat
      BY <1>2, <2>1 DEF Sync!MissInv, Sync!SyncInv
    <3>2. ~(v1[r].day >= v5[s].after)
      BY <1>3, <1>4, <2>1, <2>3
    <3>3. Sync!Same(r)
      BY <1>2, <2>1, <3>1, <3>2 DEF Sync!MissInv
    <3>4. v1[r].status = "active"
      BY <2>1 DEF Sync!MissInv
    <3>5. Sync!Known(r)
      BY <3>3, <3>4 DEF Sync!Same, Sync!Known, Sync!Unknown
    <3>6. QED
      BY <2>3, <3>3, <3>5
  <2>4. QED
    BY <2>2, <2>3
<1>6. GoneThrough(t, v2')
  BY <1>1, <1>5 DEF GoneThrough, Sync!Known, Sync!Same
<1>7. v5[s].entity = "programs" => v3["offices"] > 0
  BY <1>2 DEF Sync!MissInv
<1>8. QED
  BY <1>1, <1>4, <1>6, <1>7, MissRow

\* A record is stored as HOPE listed it, or failed.
LEMMA MissApply ==
  ASSUME Sync!MissInv, Sync!SyncInv', NEW s \in Syncs, NEW r \in Sync!Records, Sync!Apply(s, r) \/ Sync!ApplyFails(s, r)
  PROVE  Sync!MissInv'
<1> DEFINE l == Sync!Without(s, r)
           t == v5'[s]
<1>1. /\ v5[s].at = "listed" /\ r \in DOMAIN v5[s].left /\ UNCHANGED <<v1, v3, v6>>
  BY DEF Sync!Apply, Sync!ApplyFails
<1>2. /\ v5[s] # Sync!Idle /\ v5[s] \in Sync!Runs(DOMAIN v5[s].left) /\ v5[s].entity \in Sync!Entities
      /\ DOMAIN v5[s].left \subseteq Sync!Of(v5[s].entity) /\ v5[s].left \in [DOMAIN v5[s].left -> Sync!Rows]
  BY <1>1, RefRun DEF Sync!MissInv
<1>3. /\ DOMAIN l = DOMAIN v5[s].left \ {r} /\ \A q \in DOMAIN v5[s].left \ {r} : l[q] = v5[s].left[q]
  BY <1>1, RefLess DEF Sync!MissInv
<1>4. v5 = [q \in Syncs |-> v5[q]]
  BY DEF Sync!MissInv, Sync!SyncInv
<1>5. /\ v5' = [v5 EXCEPT ![s] = t] /\ t.left = l /\ t.entity = v5[s].entity
      /\ t.failed = v5[s].failed \/ (t.failed /\ UNCHANGED v2)
  <2>1. CASE Sync!Apply(s, r)
    <3>1. v5' = [v5 EXCEPT ![s] = [v5[s] EXCEPT !.left = l]]
      BY <2>1 DEF Sync!Apply
    <3>2. t = [v5[s] EXCEPT !.left = l]
      BY <1>4, <3>1
    <3> HIDE DEF l
    <3>3. QED
      BY <1>2, <3>1, <3>2 DEF Sync!Runs
  <2>2. CASE Sync!ApplyFails(s, r)
    <3>1. v5' = [v5 EXCEPT ![s] = [v5[s] EXCEPT !.left = l, !.failed = TRUE]] /\ UNCHANGED v2
      BY <2>2 DEF Sync!ApplyFails
    <3>2. t = [v5[s] EXCEPT !.left = l, !.failed = TRUE]
      BY <1>4, <3>1
    <3> HIDE DEF l
    <3>3. t.failed
      BY <1>2, <3>2 DEF Sync!Runs
    <3>4. QED
      BY <1>2, <3>1, <3>2, <3>3 DEF Sync!Runs
  <2>3. QED
    BY <2>1, <2>2
<1> HIDE DEF l, t
<1>6. GoneThrough(v5[s], v2)
  BY <1>1, <1>2 DEF Sync!MissInv, Sync!Listing, GoneThrough, Sync!Known, Sync!Same
<1>7. v5[s].entity = "programs" => v3["offices"] > 0
  BY <1>2 DEF Sync!MissInv
<1>8. Sync!Apply(s, r) => Sync!Wanted(r, v5[s].left[r])
  <2>1. v5[s].left[r].status = "active"
    BY <1>1, <1>2 DEF Sync!MissInv, Sync!Listing
  <2>2. r \in Programs => Sync!Known(OfficeOf[r])
    BY <1>1, <1>2, <1>7, EntityFacts DEF Sync!MissInv
  <2>3. QED
    BY <2>1, <2>2 DEF Sync!Wanted, Sync!Known
<1>9. Sync!Apply(s, r) => v2' = [v2 EXCEPT ![r] = v5[s].left[r]]
  BY <1>8 DEF Sync!Apply
<1>10. Sync!Apply(s, r) => Sync!Known(r)' /\ (Sync!Same(r)' \/ v1[r].day = v6)
  <2> SUFFICES ASSUME Sync!Apply(s, r) PROVE Sync!Known(r)' /\ (Sync!Same(r)' \/ v1[r].day = v6)
    OBVIOUS
  <2>1. v2'[r] = v5[s].left[r]
    BY <1>9 DEF Sync!MissInv, Sync!SyncInv
  <2>2. v2'[r].status = "active"
    BY <1>1, <1>2, <2>1 DEF Sync!MissInv, Sync!Listing
  <2>3. v2'[r] = Sync!Listed(r) \/ v1[r].day = v6
    BY <1>1, <1>2, <2>1 DEF Sync!MissInv, Sync!Listing
  <2>4. QED
    BY <1>1, <2>2, <2>3 DEF Sync!Known, Sync!Unknown, Sync!Same, Sync!Listed
<1>11. \A q \in Sync!Records : v2'[q] = v2[q] \/ (q = r /\ Sync!Apply(s, r))
  BY <1>9 DEF Sync!MissInv, Sync!SyncInv, Sync!ApplyFails
<1>12. \A q \in Sync!Records :
         \/ v2'[q] = v2[q]
         \/ /\ Sync!Listing(s) /\ q \in Sync!Of(v5[s].entity) /\ Sync!Known(q)'
            /\ Sync!Same(q)' \/ v1[q].day = v6
  BY <1>1, <1>2, <1>10, <1>11 DEF Sync!Listing
<1>13. ASSUME NEW q \in Sync!Of(t.entity)
       PROVE  /\ q \in DOMAIN t.left =>
                   t.left[q].status = "active" /\ (t.left[q] = Sync!Listed(q) \/ v1[q].day = v6)
              /\ q \notin DOMAIN t.left =>
                   t.failed \/ (Sync!Known(q)' /\ (Sync!Same(q)' \/ v1[q].day = v6))
  <2>1. q \in Sync!Of(v5[s].entity) /\ q \in Sync!Records
    BY <1>2, <1>5, <1>13, EntityFacts
  <2>2. CASE q = r
    <3>1. q \notin DOMAIN t.left
      BY <1>3, <1>5, <2>2
    <3>2. Sync!ApplyFails(s, r) => t.failed
      <4>1. ASSUME Sync!ApplyFails(s, r) PROVE t.failed
        <5>1. v5'[s] = [v5[s] EXCEPT !.left = Sync!Without(s, r), !.failed = TRUE]
          BY <1>4, <4>1 DEF Sync!ApplyFails
        <5>2. \A x : [v5[s] EXCEPT !.left = x, !.failed = TRUE].failed
          BY <1>2 DEF Sync!Runs
        <5>3. QED
          BY <5>1, <5>2 DEF t
      <4>2. QED
        BY <4>1
    <3>3. QED
      BY <1>10, <2>2, <3>1, <3>2
  <2>3. CASE q # r
    <3>1. v2'[q] = v2[q]
      BY <1>11, <2>1, <2>3
    <3>2. Sync!Known(q)' = Sync!Known(q) /\ Sync!Same(q)' = Sync!Same(q)
      BY <1>1, <3>1 DEF Sync!Known, Sync!Same
    <3>3. /\ q \in DOMAIN v5[s].left =>
               v5[s].left[q].status = "active" /\ (v5[s].left[q] = Sync!Listed(q) \/ v1[q].day = v6)
          /\ q \notin DOMAIN v5[s].left =>
               v5[s].failed \/ (Sync!Known(q) /\ (Sync!Same(q) \/ v1[q].day = v6))
      BY <1>6, <2>1 DEF GoneThrough, Sync!Known, Sync!Same
    <3>4. q \in DOMAIN t.left => q \in DOMAIN v5[s].left /\ t.left[q] = v5[s].left[q]
      BY <1>3, <1>5, <2>3
    <3>5. q \notin DOMAIN t.left => q \notin DOMAIN v5[s].left
      BY <1>3, <1>5, <2>3
    <3>6. v5[s].failed => t.failed
      BY <1>5
    <3>7. QED
      BY <3>2, <3>3, <3>4, <3>5, <3>6
  <2>4. QED
    BY <2>2, <2>3
<1>14. GoneThrough(t, v2')
  BY <1>1, <1>13 DEF GoneThrough, Sync!Known, Sync!Same
<1>15. QED
  BY <1>1, <1>5, <1>7, <1>12, <1>14, MissRow

\* What a synchronisation RefAll writes keeps the types when its own row does.
LEMMA RefAllRow ==
  ASSUME SyncAll!SyncInv, NEW s \in LoneSyncs, NEW t, v5' = [v5 EXCEPT ![s] = t],
         \/ t = SyncAll!Idle
         \/ /\ t \in SyncAll!Runs(DOMAIN t.left) /\ t.after <= v3'[t.entity]
            /\ DOMAIN t.left \subseteq SyncAll!Of(t.entity)
            /\ t.at \in {"locked", "listed"} => v4'[t.entity] = s,
         v3' \in [SyncAll!Entities -> Nat], \A e \in SyncAll!Entities : v3[e] <= v3'[e] /\ v3'[e] <= v6,
         v4' \in [SyncAll!Entities -> LoneSyncs \cup {SyncAll!Free}],
         \A q \in LoneSyncs \ {s} : v5[q].at \in {"locked", "listed"} => v4'[v5[q].entity] = q,
         v2' \in [SyncAll!Records -> SyncAll!Rows \cup {SyncAll!Unknown}],
         v8' \in 0..MaxFails, v9' \in 0..MaxKills, UNCHANGED <<v1, v6, v7>>
  PROVE  SyncAll!SyncInv'
<1>1. v5' = [q \in LoneSyncs |-> v5'[q]] /\ \A q \in LoneSyncs : v5'[q] = IF q = s THEN t ELSE v5[q]
  BY DEF SyncAll!SyncInv
<1>2. \A e \in SyncAll!Entities : v3'[e] \in 0..v6' /\ v4'[e] \in LoneSyncs \cup {SyncAll!Free}
  BY DEF SyncAll!SyncInv, SyncAll!TypeOK
<1>3. \A q \in LoneSyncs : v5'[q].at \in {"locked", "listed"} => v4'[v5'[q].entity] = q
  BY <1>1 DEF SyncAll!Idle
<1>4. SyncAll!TypeOK'
  BY <1>2, <1>3 DEF SyncAll!SyncInv, SyncAll!TypeOK
<1>5. ASSUME NEW q \in LoneSyncs, v5'[q] # SyncAll!Idle
      PROVE  /\ v5'[q] \in SyncAll!Runs(DOMAIN v5'[q].left)
             /\ v5'[q].after <= v3'[v5'[q].entity] /\ DOMAIN v5'[q].left \subseteq SyncAll!Of(v5'[q].entity)
  <2>1. CASE q = s
    BY <1>1, <1>5, <2>1
  <2>2. CASE q # s
    <3>1. v5'[q] = v5[q] /\ v5[q] \in SyncAll!Runs(DOMAIN v5[q].left) /\ v5[q].after <= v3[v5[q].entity]
          /\ DOMAIN v5[q].left \subseteq SyncAll!Of(v5[q].entity)
      BY <1>1, <1>5, <2>2 DEF SyncAll!SyncInv
    <3>2. v5[q].entity \in SyncAll!Entities /\ v5[q].after \in Nat
      BY <3>1 DEF SyncAll!Runs
    <3>3. v3[v5[q].entity] \in Nat /\ v3'[v5[q].entity] \in Nat /\ v3[v5[q].entity] <= v3'[v5[q].entity]
      BY <3>2 DEF SyncAll!SyncInv
    <3>4. QED
      BY <3>1, <3>2, <3>3
  <2>3. QED
    BY <2>1, <2>2
<1>6. QED
  BY <1>1, <1>4, <1>5 DEF SyncAll!SyncInv

\* The row of a synchronisation at work.
LEMMA RefAllRun ==
  ASSUME SyncAll!SyncInv, NEW s \in LoneSyncs, v5[s].at \in {"waiting", "locked", "listed"}
  PROVE  /\ v5[s] # SyncAll!Idle /\ v5[s] \in SyncAll!Runs(DOMAIN v5[s].left) /\ v5[s].entity \in SyncAll!Entities
         /\ v5[s].after \in Nat /\ v5[s].after <= v3[v5[s].entity] /\ DOMAIN v5[s].left \subseteq SyncAll!Of(v5[s].entity)
         /\ v5[s].at # "waiting" => v4[v5[s].entity] = s
         /\ v5[s].left \in [DOMAIN v5[s].left -> SyncAll!Rows]
<1>1. v5[s] # SyncAll!Idle
  BY DEF SyncAll!Idle
<1>2. v5[s] \in SyncAll!Runs(DOMAIN v5[s].left)
  BY <1>1 DEF SyncAll!SyncInv
<1>3. QED
  BY <1>1, <1>2 DEF SyncAll!SyncInv, SyncAll!TypeOK, SyncAll!Runs

LEMMA RefAllStarts ==
  ASSUME SyncAll!SyncInv, NEW s \in LoneSyncs, NEW full \in BOOLEAN, SyncAll!Begin(s, full)
  PROVE  SyncAll!SyncInv'
<1> DEFINE t == SyncAll!Waiting("offices", full)
<1>1. /\ v5' = [v5 EXCEPT ![s] = t] /\ UNCHANGED <<v1, v2, v3, v4, v6, v7, v8, v9>>
  BY DEF SyncAll!Begin
<1>2. /\ t \in SyncAll!Runs(DOMAIN t.left) /\ t.after <= v3[t.entity] /\ DOMAIN t.left = {} /\ t.at = "waiting"
  BY DEF SyncAll!Waiting, SyncAll!Runs, SyncAll!SyncInv, SyncAll!Entities
<1> HIDE DEF t
<1>3. QED
  BY <1>1, <1>2, RefAllRow DEF SyncAll!SyncInv, SyncAll!TypeOK

LEMMA RefAllAcquires ==
  ASSUME SyncAll!SyncInv, NEW s \in LoneSyncs, SyncAll!Acquire(s)
  PROVE  SyncAll!SyncInv'
<1> DEFINE t == [v5[s] EXCEPT !.at = "locked"]
<1>1. /\ v5[s].at = "waiting" /\ v4[v5[s].entity] = SyncAll!Free
      /\ v4' = [v4 EXCEPT ![v5[s].entity] = s] /\ UNCHANGED <<v1, v2, v3, v6, v7, v8, v9>>
      /\ v5' = [v5 EXCEPT ![s] = t]
  BY DEF SyncAll!Acquire
<1>2. /\ v5[s] \in SyncAll!Runs(DOMAIN v5[s].left) /\ v5[s].entity \in SyncAll!Entities
      /\ v5[s].after <= v3[v5[s].entity] /\ DOMAIN v5[s].left \subseteq SyncAll!Of(v5[s].entity)
  BY <1>1, RefAllRun
<1>3. t \in SyncAll!Runs(DOMAIN v5[s].left) /\ t.left = v5[s].left /\ t.entity = v5[s].entity /\ t.after = v5[s].after
  BY <1>2 DEF SyncAll!Runs
<1>4. \A q \in LoneSyncs : q # SyncAll!Free
  BY BoundsAssumption DEF SyncAll!SyncAssumption, SyncAll!Free
<1>5. \A q \in LoneSyncs \ {s} : v5[q].at \in {"locked", "listed"} =>
        v4[v5[q].entity] = q /\ v5[q].entity \in SyncAll!Entities /\ v5[q].entity # v5[s].entity
  BY <1>1, <1>4, RefAllRun
<1>6. v4' \in [SyncAll!Entities -> LoneSyncs \cup {SyncAll!Free}] /\ v4'[v5[s].entity] = s
      /\ \A e \in SyncAll!Entities : e # v5[s].entity => v4'[e] = v4[e]
  BY <1>1, <1>2 DEF SyncAll!SyncInv
<1> HIDE DEF t
<1>7. \A q \in LoneSyncs \ {s} : v5[q].at \in {"locked", "listed"} => v4'[v5[q].entity] = q
  BY <1>5, <1>6
<1>8. QED
  BY <1>1, <1>2, <1>3, <1>6, <1>7, RefAllRow DEF SyncAll!SyncInv, SyncAll!TypeOK

LEMMA RefAllFetches ==
  ASSUME SyncAll!SyncInv, NEW s \in LoneSyncs, SyncAll!Fetch(s)
  PROVE  SyncAll!SyncInv'
<1> DEFINE l == [r \in {q \in SyncAll!Of(v5[s].entity) : v1[q].day >= v5[s].after} |-> SyncAll!Listed(r)]
           t == [v5[s] EXCEPT !.at = "listed", !.left = l]
<1>1. /\ v5[s].at = "locked" /\ UNCHANGED <<v1, v2, v3, v4, v6, v7, v8, v9>> /\ v5' = [v5 EXCEPT ![s] = t]
  BY DEF SyncAll!Fetch
<1>2. /\ v5[s] \in SyncAll!Runs(DOMAIN v5[s].left) /\ v5[s].entity \in SyncAll!Entities
      /\ v5[s].after <= v3[v5[s].entity] /\ v4[v5[s].entity] = s
  BY <1>1, RefAllRun
<1>3. /\ DOMAIN l \subseteq SyncAll!Of(v5[s].entity) /\ l \in [DOMAIN l -> SyncAll!Rows]
  <2>1. \A r \in SyncAll!Of(v5[s].entity) : SyncAll!Listed(r) \in SyncAll!Rows
    BY <1>2 DEF SyncAll!Of, SyncAll!Records, SyncAll!SyncInv, SyncAll!Listed, SyncAll!Rows
  <2>2. QED
    BY <2>1
<1> HIDE DEF l
<1>4. t \in SyncAll!Runs(DOMAIN l) /\ t.left = l /\ t.entity = v5[s].entity /\ t.after = v5[s].after
  BY <1>2, <1>3 DEF SyncAll!Runs
<1> HIDE DEF t
<1>5. \A q \in LoneSyncs \ {s} : v5[q].at \in {"locked", "listed"} => v4'[v5[q].entity] = q
  BY <1>1 DEF SyncAll!SyncInv, SyncAll!TypeOK
<1>6. QED
  BY <1>1, <1>2, <1>3, <1>4, <1>5, RefAllRow DEF SyncAll!SyncInv, SyncAll!TypeOK

\* One record less is left.
LEMMA RefAllLess ==
  ASSUME SyncAll!SyncInv, NEW s \in LoneSyncs, v5[s].at = "listed", NEW r
  PROVE  /\ SyncAll!Without(s, r) \in [DOMAIN SyncAll!Without(s, r) -> SyncAll!Rows]
         /\ DOMAIN SyncAll!Without(s, r) = DOMAIN v5[s].left \ {r}
         /\ \A q \in DOMAIN v5[s].left \ {r} : SyncAll!Without(s, r)[q] = v5[s].left[q]
<1>1. v5[s].left \in [DOMAIN v5[s].left -> SyncAll!Rows]
  BY RefAllRun
<1>2. QED
  BY <1>1 DEF SyncAll!Without

LEMMA RefAllApplies ==
  ASSUME SyncAll!SyncInv, NEW s \in LoneSyncs, NEW r \in SyncAll!Records, SyncAll!Apply(s, r) \/ SyncAll!ApplyFails(s, r)
  PROVE  SyncAll!SyncInv'
<1> DEFINE l == SyncAll!Without(s, r)
<1>1. PICK f \in BOOLEAN : v5' = [v5 EXCEPT ![s] = [v5[s] EXCEPT !.left = l, !.failed = f]]
  <2>1. CASE SyncAll!Apply(s, r)
    <3>1. v5[s] \in SyncAll!Runs(DOMAIN v5[s].left)
      BY <2>1, RefAllRun DEF SyncAll!Apply
    <3>2. v5[s].failed \in BOOLEAN /\ [v5[s] EXCEPT !.left = l] = [v5[s] EXCEPT !.left = l, !.failed = v5[s].failed]
      BY <3>1 DEF SyncAll!Runs
    <3>3. v5' = [v5 EXCEPT ![s] = [v5[s] EXCEPT !.left = l]]
      BY <2>1 DEF SyncAll!Apply
    <3>4. QED
      BY <3>2, <3>3
  <2>2. CASE SyncAll!ApplyFails(s, r)
    BY <2>2 DEF SyncAll!ApplyFails
  <2>3. QED
    BY <2>1, <2>2
<1> DEFINE t == [v5[s] EXCEPT !.left = l, !.failed = f]
<1>2. v5[s].at = "listed" /\ r \in DOMAIN v5[s].left /\ UNCHANGED <<v1, v3, v4, v6, v7, v9>>
  BY DEF SyncAll!Apply, SyncAll!ApplyFails
<1>3. /\ v5[s] \in SyncAll!Runs(DOMAIN v5[s].left) /\ v5[s].entity \in SyncAll!Entities
      /\ v5[s].after <= v3[v5[s].entity] /\ v4[v5[s].entity] = s
      /\ DOMAIN v5[s].left \subseteq SyncAll!Of(v5[s].entity) /\ v5[s].left \in [DOMAIN v5[s].left -> SyncAll!Rows]
  BY <1>2, RefAllRun
<1>4. v5[s].left[r] \in SyncAll!Rows
  BY <1>2, <1>3
<1>5. v2' \in [SyncAll!Records -> SyncAll!Rows \cup {SyncAll!Unknown}]
  BY <1>4 DEF SyncAll!SyncInv, SyncAll!Apply, SyncAll!ApplyFails
<1>6. v8' \in 0..MaxFails
  <2>1. v8 \in 0..MaxFails /\ MaxFails \in Nat
    BY BoundsAssumption DEF SyncAll!SyncInv, SyncAll!TypeOK, SyncAll!SyncAssumption
  <2>2. v8' = v8 \/ (v8 < MaxFails /\ v8' = v8 + 1)
    BY DEF SyncAll!Apply, SyncAll!ApplyFails
  <2>3. QED
    BY <2>1, <2>2
<1>7. l \in [DOMAIN l -> SyncAll!Rows] /\ DOMAIN l = DOMAIN v5[s].left \ {r}
  BY <1>2, RefAllLess
<1> HIDE DEF l
<1>8. t \in SyncAll!Runs(DOMAIN l) /\ t.left = l /\ t.entity = v5[s].entity /\ t.after = v5[s].after
  BY <1>3, <1>7 DEF SyncAll!Runs
<1>9. v5' = [v5 EXCEPT ![s] = t]
  BY <1>1
<1> HIDE DEF t
<1>10. \A q \in LoneSyncs \ {s} : v5[q].at \in {"locked", "listed"} => v4'[v5[q].entity] = q
  BY <1>2 DEF SyncAll!SyncInv, SyncAll!TypeOK
<1>11. QED
  BY <1>2, <1>3, <1>5, <1>6, <1>7, <1>8, <1>9, <1>10, RefAllRow DEF SyncAll!SyncInv, SyncAll!TypeOK

\* The lock a synchronisation releases is its own.
LEMMA RefAllReleases ==
  ASSUME SyncAll!SyncInv, NEW s \in LoneSyncs, v5[s].at \in {"locked", "listed"}
  PROVE  /\ SyncAll!Unlocked(s) \in [SyncAll!Entities -> LoneSyncs \cup {SyncAll!Free}]
         /\ \A q \in LoneSyncs \ {s} : v5[q].at \in {"locked", "listed"} => SyncAll!Unlocked(s)[v5[q].entity] = q
<1>1. v4[v5[s].entity] = s /\ v5[s].entity \in SyncAll!Entities
  BY RefAllRun
<1>2. \A q \in LoneSyncs \ {s} : v5[q].at \in {"locked", "listed"} =>
        v4[v5[q].entity] = q /\ v5[q].entity \in SyncAll!Entities /\ v5[q].entity # v5[s].entity
  BY <1>1, RefAllRun
<1>3. v4 \in [SyncAll!Entities -> LoneSyncs \cup {SyncAll!Free}]
  BY DEF SyncAll!SyncInv
<1>4. QED
  BY <1>1, <1>2, <1>3 DEF SyncAll!Unlocked

LEMMA RefAllFinishes ==
  ASSUME SyncAll!SyncInv, NEW s \in LoneSyncs, SyncAll!Finish(s)
  PROVE  SyncAll!SyncInv'
<1>1. /\ v5[s].at = "listed" /\ v4' = SyncAll!Unlocked(s) /\ UNCHANGED <<v1, v2, v6, v7, v8, v9>>
  BY DEF SyncAll!Finish
<1>2. /\ v5[s] \in SyncAll!Runs(DOMAIN v5[s].left) /\ v5[s].entity \in SyncAll!Entities
  BY <1>1, RefAllRun
<1>3. /\ v4' \in [SyncAll!Entities -> LoneSyncs \cup {SyncAll!Free}]
      /\ \A q \in LoneSyncs \ {s} : v5[q].at \in {"locked", "listed"} => v4'[v5[q].entity] = q
  BY <1>1, RefAllReleases
<1>4. v6 \in Nat /\ v3 \in [SyncAll!Entities -> Nat] /\ \A e \in SyncAll!Entities : v3[e] <= v6
  BY BoundsAssumption DEF SyncAll!SyncInv, SyncAll!TypeOK, SyncAll!SyncAssumption
<1>5. CASE v5[s].failed
  <2>1. v5' = [v5 EXCEPT ![s] = SyncAll!Idle] /\ UNCHANGED v3
    BY <1>5 DEF SyncAll!Finish
  <2>2. QED
    BY <1>1, <1>3, <1>4, <2>1, RefAllRow DEF SyncAll!SyncInv, SyncAll!TypeOK
<1>6. CASE ~v5[s].failed
  <2> DEFINE t == SyncAll!After(s)
  <2>1. v5' = [v5 EXCEPT ![s] = t] /\ v3' = [v3 EXCEPT ![v5[s].entity] = v6]
    BY <1>6 DEF SyncAll!Finish
  <2>2. v3' \in [SyncAll!Entities -> Nat] /\ \A e \in SyncAll!Entities : v3[e] <= v3'[e] /\ v3'[e] <= v6
    BY <1>2, <1>4, <2>1
  <2>3. \/ t = SyncAll!Idle
        \/ /\ t \in SyncAll!Runs(DOMAIN t.left) /\ t.after <= v3'[t.entity]
           /\ DOMAIN t.left \subseteq SyncAll!Of(t.entity)
           /\ t.at \in {"locked", "listed"} => v4'[t.entity] = s
    <3>1. CASE v5[s].entity = "offices"
      <4>1. t = SyncAll!Waiting("programs", v5[s].full) /\ v5[s].full \in BOOLEAN
        BY <1>2, <3>1 DEF SyncAll!After, SyncAll!Runs
      <4>2. v3["programs"] \in Nat /\ v3["programs"] <= v3'["programs"] /\ v3'["programs"] \in Nat
        BY <1>4, <2>2 DEF SyncAll!Entities
      <4>3. t \in SyncAll!Runs(DOMAIN t.left) /\ t.entity = "programs" /\ t.at = "waiting" /\ DOMAIN t.left = {}
            /\ t.after \in {0, v3["programs"]}
        BY <1>4, <4>1 DEF SyncAll!Waiting, SyncAll!Runs, SyncAll!Entities
      <4>4. QED
        BY <4>2, <4>3
    <3>2. CASE v5[s].entity # "offices"
      BY <3>2 DEF SyncAll!After
    <3>3. QED
      BY <3>1, <3>2
  <2> HIDE DEF t
  <2>4. QED
    BY <1>1, <1>3, <2>1, <2>2, <2>3, RefAllRow DEF SyncAll!SyncInv, SyncAll!TypeOK
<1>7. QED
  BY <1>5, <1>6

LEMMA RefAllFaults ==
  ASSUME SyncAll!SyncInv, NEW s \in LoneSyncs, SyncAll!FetchFails(s) \/ SyncAll!Kill(s)
  PROVE  SyncAll!SyncInv'
<1>1. v5' = [v5 EXCEPT ![s] = SyncAll!Idle] /\ UNCHANGED <<v1, v2, v3, v6, v7>>
  BY DEF SyncAll!FetchFails, SyncAll!Kill
<1>2. v8' \in 0..MaxFails /\ v9' \in 0..MaxKills
  <2>1. v8 \in 0..MaxFails /\ MaxFails \in Nat /\ v9 \in 0..MaxKills /\ MaxKills \in Nat
    BY BoundsAssumption DEF SyncAll!SyncInv, SyncAll!TypeOK, SyncAll!SyncAssumption
  <2>2. (v8' = v8 \/ (v8 < MaxFails /\ v8' = v8 + 1)) /\ (v9' = v9 \/ (v9 < MaxKills /\ v9' = v9 + 1))
    BY DEF SyncAll!FetchFails, SyncAll!Kill
  <2>3. QED
    BY <2>1, <2>2
<1>3. /\ v4' \in [SyncAll!Entities -> LoneSyncs \cup {SyncAll!Free}]
      /\ \A q \in LoneSyncs \ {s} : v5[q].at \in {"locked", "listed"} => v4'[v5[q].entity] = q
  <2>1. CASE SyncAll!FetchFails(s)
    BY <2>1, RefAllReleases DEF SyncAll!FetchFails
  <2>2. CASE SyncAll!Kill(s)
    BY <2>2 DEF SyncAll!Kill, SyncAll!SyncInv, SyncAll!TypeOK
  <2>3. QED
    BY <2>1, <2>2
<1>4. v3 \in [SyncAll!Entities -> Nat] /\ \A e \in SyncAll!Entities : v3[e] <= v3[e] /\ v3[e] <= v6
  BY DEF SyncAll!SyncInv, SyncAll!TypeOK
<1>5. QED
  BY <1>1, <1>2, <1>3, <1>4, RefAllRow DEF SyncAll!SyncInv

\* HOPE changes a record, or a day passes.
LEMMA RefAllOutside ==
  ASSUME SyncAll!SyncInv,
         \/ \E r \in SyncAll!Records, st \in {"active", "inactive"} : SyncAll!Change(r, st)
         \/ SyncAll!NextDay
  PROVE  SyncAll!SyncInv'
<1> DEFINE Held == [status : {"active", "inactive"}, version : Nat, day : Nat]
<1>1. UNCHANGED <<v2, v3, v4, v5, v8, v9>>
  BY DEF SyncAll!Change, SyncAll!NextDay
<1>2. v6 \in 1..MaxDay /\ MaxDay \in Nat /\ v7 \in 0..MaxChanges /\ MaxChanges \in Nat
  BY BoundsAssumption DEF SyncAll!SyncInv, SyncAll!TypeOK, SyncAll!SyncAssumption
<1>3. v6' \in 1..MaxDay /\ v6 <= v6' /\ v7' \in 0..MaxChanges
  BY <1>2 DEF SyncAll!Change, SyncAll!NextDay
<1>4. v1' \in [SyncAll!Records -> Held]
  <2>1. v1 \in [SyncAll!Records -> Held]
    BY DEF SyncAll!SyncInv
  <2>2. ASSUME NEW r \in SyncAll!Records, NEW st \in {"active", "inactive"}, SyncAll!Change(r, st)
        PROVE  v1' \in [SyncAll!Records -> Held]
    <3>1. v1' = [v1 EXCEPT ![r] = [status |-> st, version |-> v1[r].version + 1, day |-> v6]]
      BY <2>2 DEF SyncAll!Change
    <3>2. v1[r].version + 1 \in Nat
      BY <2>1
    <3>3. QED
      BY <1>2, <2>1, <3>1, <3>2
  <2>3. QED
    BY <2>1, <2>2 DEF SyncAll!NextDay
<1>5. SyncAll!TypeOK'
  BY <1>1, <1>2, <1>3 DEF SyncAll!SyncInv, SyncAll!TypeOK
<1>6. QED
  BY <1>1, <1>4, <1>5 DEF SyncAll!SyncInv

LEMMA RefAllTypes ==
  ASSUME SyncAll!SyncInv, [SyncAll!Next]_(SyncAll!vars)
  PROVE  SyncAll!SyncInv'
<1>1. CASE UNCHANGED SyncAll!vars
  <2>1. UNCHANGED <<v1, v2, v3, v4, v5, v6, v7, v8, v9>>
    BY <1>1 DEF SyncAll!vars
  <2>2. QED
    BY <2>1 DEF SyncAll!SyncInv, SyncAll!TypeOK
<1>2. CASE SyncAll!Next
  BY <1>2, RefAllStarts, RefAllAcquires, RefAllFetches, RefAllApplies, RefAllFinishes, RefAllFaults, RefAllOutside
    DEF SyncAll!Next, SyncAll!Step, SyncAll!Fault
<1>3. QED
  BY <1>1, <1>2

LEMMA RefAllInit ==
  ASSUME SyncAll!Init
  PROVE  SyncAll!SyncInv
<1>1. /\ v6 = 1 /\ v7 = 0 /\ v8 = 0 /\ v9 = 0
      /\ v3 = [e \in SyncAll!Entities |-> 0] /\ v4 = [e \in SyncAll!Entities |-> SyncAll!Free]
      /\ v5 = [s \in LoneSyncs |-> SyncAll!Idle]
  BY DEF SyncAll!Init
<1>2. SyncAll!TypeOK
  BY <1>1, BoundsAssumption DEF SyncAll!TypeOK, SyncAll!SyncAssumption, SyncAll!Idle
<1>3. v1 \in [SyncAll!Records -> [status : {"active", "inactive"}, version : Nat, day : Nat]]
      /\ v2 \in [SyncAll!Records -> SyncAll!Rows \cup {SyncAll!Unknown}]
  BY DEF SyncAll!Init
<1>4. QED
  BY <1>1, <1>2, <1>3 DEF SyncAll!SyncInv

\* The date of a success is registered when all that was listed is stored.
LEMMA MissFinish ==
  ASSUME Sync!MissInv, Sync!SyncInv', NEW s \in Syncs, Sync!Finish(s)
  PROVE  Sync!MissInv'
<1>1. /\ v5[s].at = "listed" /\ DOMAIN v5[s].left = {} /\ UNCHANGED <<v1, v2, v6>>
  BY DEF Sync!Finish
<1>2. /\ v5[s] # Sync!Idle /\ v5[s] \in Sync!Runs(DOMAIN v5[s].left) /\ v5[s].entity \in Sync!Entities
      /\ v5[s].full \in BOOLEAN
  BY <1>1, RefRun DEF Sync!MissInv, Sync!Runs
<1>3. v6 \in Nat \ {0} /\ v3 \in [Sync!Entities -> Nat]
  BY BoundsAssumption DEF Sync!MissInv, Sync!SyncInv, Sync!TypeOK, Sync!SyncAssumption
<1>4. CASE v5[s].failed
  <2>1. v5' = [v5 EXCEPT ![s] = Sync!Idle] /\ UNCHANGED v3 /\ Sync!Idle.at # "listed"
    BY <1>4 DEF Sync!Finish, Sync!Idle
  <2>2. QED
    BY <1>1, <2>1, MissRow
<1>5. CASE ~v5[s].failed
  <2> DEFINE t == Sync!After(s)
  <2>1. v5' = [v5 EXCEPT ![s] = t] /\ v3' = [v3 EXCEPT ![v5[s].entity] = v6]
    BY <1>5 DEF Sync!Finish
  <2>2. \A r \in Sync!Of(v5[s].entity) : Sync!Known(r) /\ (Sync!Same(r) \/ v1[r].day = v6)
    BY <1>1, <1>2, <1>5 DEF Sync!MissInv, Sync!Listing
  <2>3. \A r : Sync!Known(r)' = Sync!Known(r) /\ Sync!Same(r)' = Sync!Same(r)
    BY <1>1 DEF Sync!Known, Sync!Same
  <2>4. \A e \in Sync!Entities :
           \/ v3'[e] = v3[e]
           \/ v3'[e] = v6 /\ \A r \in Sync!Of(e) : Sync!Known(r)' /\ (Sync!Same(r)' \/ v1[r].day = v6)
    BY <1>3, <2>1, <2>2, <2>3
  <2>5. t.at # "listed" /\ (t # Sync!Idle /\ t.entity = "programs" => v3'["offices"] > 0)
    <3>1. CASE v5[s].entity = "offices"
      <4>1. t = Sync!Waiting("programs", v5[s].full) /\ v3'["offices"] > 0
        BY <1>3, <2>1, <3>1, EntityFacts DEF Sync!After
      <4>2. QED
        BY <4>1 DEF Sync!Waiting
    <3>2. CASE v5[s].entity # "offices"
      BY <3>2 DEF Sync!After, Sync!Idle
    <3>3. QED
      BY <3>1, <3>2
  <2> HIDE DEF t
  <2>6. QED
    BY <1>1, <2>1, <2>4, <2>5, MissRow
<1>6. QED
  BY <1>4, <1>5

\* The other steps of a synchronisation go through no records.
LEMMA MissOther ==
  ASSUME Sync!MissInv, Sync!SyncInv', NEW s \in Syncs,
         (\E full \in BOOLEAN : Sync!Begin(s, full)) \/ Sync!Acquire(s) \/ Sync!FetchFails(s) \/ Sync!Kill(s)
  PROVE  Sync!MissInv'
<1>1. UNCHANGED <<v1, v2, v3, v6>>
  BY DEF Sync!Begin, Sync!Acquire, Sync!FetchFails, Sync!Kill
<1>2. CASE \E full \in BOOLEAN : Sync!Begin(s, full)
  <2>1. PICK full \in BOOLEAN : v5' = [v5 EXCEPT ![s] = Sync!Waiting("offices", full)]
    BY <1>2 DEF Sync!Begin
  <2> DEFINE t == Sync!Waiting("offices", full)
  <2>2. t.at # "listed" /\ t.entity # "programs"
    BY DEF Sync!Waiting
  <2> HIDE DEF t
  <2>3. v5' = [v5 EXCEPT ![s] = t]
    BY <2>1 DEF t
  <2>4. QED
    BY <1>1, <2>2, <2>3, MissRow
<1>3. CASE Sync!Acquire(s)
  <2> DEFINE t == [v5[s] EXCEPT !.at = "locked"]
  <2>1. v5[s].at = "waiting" /\ v5' = [v5 EXCEPT ![s] = t]
    BY <1>3 DEF Sync!Acquire
  <2>2. v5[s] # Sync!Idle /\ v5[s] \in Sync!Runs(DOMAIN v5[s].left)
    BY <2>1, RefRun DEF Sync!MissInv
  <2>3. t.at # "listed" /\ t.entity = v5[s].entity
    BY <2>2 DEF Sync!Runs
  <2> HIDE DEF t
  <2>4. v5[s].entity = "programs" => v3["offices"] > 0
    BY <2>2 DEF Sync!MissInv
  <2>5. QED
    BY <1>1, <2>1, <2>3, <2>4, MissRow
<1>4. CASE Sync!FetchFails(s) \/ Sync!Kill(s)
  <2>1. v5' = [v5 EXCEPT ![s] = Sync!Idle] /\ Sync!Idle.at # "listed"
    BY <1>4 DEF Sync!FetchFails, Sync!Kill, Sync!Idle
  <2>2. QED
    BY <1>1, <2>1, MissRow
<1>5. QED
  BY <1>2, <1>3, <1>4

\* What HOPE changes is of today, and no day ends while records are listed.
LEMMA MissOutside ==
  ASSUME Sync!MissInv, Sync!SyncInv',
         \/ \E r \in Sync!Records, st \in {"active", "inactive"} : Sync!Change(r, st)
         \/ Sync!NextDay
  PROVE  Sync!MissInv'
<1>1. UNCHANGED <<v2, v3, v4, v5, v8, v9>>
  BY DEF Sync!Change, Sync!NextDay
<1>2. /\ v6 \in Nat /\ v1 \in [Sync!Records -> [status : {"active", "inactive"}, version : Nat, day : Nat]]
      /\ v3 \in [Sync!Entities -> Nat] /\ \A e \in Sync!Entities : v3[e] <= v6
  BY DEF Sync!MissInv, Sync!SyncInv, Sync!TypeOK
<1>3. \A r : Sync!Known(r)' = Sync!Known(r)
  BY <1>1 DEF Sync!Known
<1>4. CASE Sync!NextDay
  <2>1. v1' = v1 /\ v6' = v6 + 1 /\ \A s \in Syncs : ~Sync!Listing(s)'
    BY <1>1, <1>4 DEF Sync!NextDay, Sync!Listing
  <2>2. \A r : Sync!Same(r)' = Sync!Same(r)
    BY <1>1, <2>1 DEF Sync!Same
  <2>3. \A r \in Sync!Records : v1'[r].status = "active" /\ v1'[r].day <= v6'
    BY <1>2, <2>1 DEF Sync!MissInv
  <2>4. QED
    BY <1>1, <1>3, <2>1, <2>2, <2>3 DEF Sync!MissInv
<1>5. ASSUME NEW c \in Sync!Records, NEW st \in {"active", "inactive"}, Sync!Change(c, st)
      PROVE  Sync!MissInv'
  <2>1. /\ st = "active" /\ v6' = v6
        /\ v1' = [v1 EXCEPT ![c] = [status |-> st, version |-> v1[c].version + 1, day |-> v6]]
    BY <1>5 DEF Sync!Change
  <2>2. v1'[c].status = "active" /\ v1'[c].day = v6 /\ \A r \in Sync!Records \ {c} : v1'[r] = v1[r]
    BY <1>2, <2>1
  <2>3. \A r \in Sync!Records : v1'[r].status = "active" /\ v1'[r].day <= v6'
    BY <1>2, <2>1, <2>2 DEF Sync!MissInv
  <2>4. \A r \in Sync!Records \ {c} : Sync!Same(r)' = Sync!Same(r) /\ Sync!Listed(r)' = Sync!Listed(r)
    BY <1>1, <2>2 DEF Sync!Same, Sync!Listed
  <2>5. \A e \in Sync!Entities : \A r \in Sync!Of(e) : Sync!Same(r)' \/ v1'[r].day >= v3'[e]
    <3> SUFFICES ASSUME NEW e \in Sync!Entities, NEW r \in Sync!Of(e) PROVE Sync!Same(r)' \/ v1'[r].day >= v3'[e]
      OBVIOUS
    <3>1. r \in Sync!Records
      BY EntityFacts
    <3>2. CASE r = c
      BY <1>1, <1>2, <2>2, <3>2
    <3>3. CASE r # c
      BY <1>1, <2>2, <2>4, <3>1, <3>3 DEF Sync!MissInv
    <3>4. QED
      BY <3>2, <3>3
  <2>6. ASSUME NEW s \in Syncs, Sync!Listing(s), NEW r \in Sync!Of(v5[s].entity)
        PROVE  /\ r \in DOMAIN v5[s].left =>
                    v5[s].left[r].status = "active" /\ (v5[s].left[r] = Sync!Listed(r)' \/ v1'[r].day = v6')
               /\ r \notin DOMAIN v5[s].left =>
                    v5[s].failed \/ (Sync!Known(r) /\ (Sync!Same(r)' \/ v1'[r].day = v6'))
    <3>1. r \in Sync!Records
      BY <2>6, EntityFacts, RefRun DEF Sync!MissInv, Sync!Listing
    <3>2. /\ r \in DOMAIN v5[s].left =>
                v5[s].left[r].status = "active" /\ (v5[s].left[r] = Sync!Listed(r) \/ v1[r].day = v6)
          /\ r \notin DOMAIN v5[s].left =>
                v5[s].failed \/ (Sync!Known(r) /\ (Sync!Same(r) \/ v1[r].day = v6))
      BY <2>6 DEF Sync!MissInv
    <3>3. CASE r = c
      BY <2>1, <2>2, <3>2, <3>3
    <3>4. CASE r # c
      BY <2>1, <2>2, <2>4, <3>1, <3>2, <3>4
    <3>5. QED
      BY <3>3, <3>4
  <2>7. \A s \in Syncs : Sync!Listing(s)' = Sync!Listing(s)
    BY <1>1 DEF Sync!Listing
  <2>8. QED
    BY <1>1, <1>3, <2>3, <2>5, <2>6, <2>7 DEF Sync!MissInv
<1>6. QED
  BY <1>4, <1>5

LEMMA MissNext ==
  ASSUME Sync!MissInv, [Sync!Next]_(Sync!vars)
  PROVE  Sync!MissInv'
<1>1. Sync!SyncInv'
  BY RefTypes DEF Sync!MissInv
<1>2. CASE UNCHANGED Sync!vars
  <2>1. UNCHANGED <<v1, v2, v3, v4, v5, v6, v7, v8, v9>>
    BY <1>2 DEF Sync!vars
  <2>2. QED
    BY <1>1, <2>1 DEF Sync!MissInv, Sync!Known, Sync!Same, Sync!Listed, Sync!Listing
<1>3. CASE Sync!Next
  BY <1>1, <1>3, MissFetch, MissApply, MissFinish, MissOther, MissOutside DEF Sync!Next, Sync!Step, Sync!Fault
<1>4. QED
  BY <1>2, <1>3

LEMMA MissStarts ==
  ASSUME Sync!Init
  PROVE  Sync!MissInv
<1>1. Sync!SyncInv
  BY RefInit
<1>2. /\ v6 = 1 /\ v3 = [e \in Sync!Entities |-> 0] /\ v5 = [s \in Syncs |-> Sync!Idle]
      /\ v1 = [r \in Sync!Records |-> [status |-> "active", version |-> 1, day |-> 1]]
  BY DEF Sync!Init
<1>3. \A e \in Sync!Entities : \A r \in Sync!Of(e) : r \in Sync!Records
  BY EntityFacts
<1>4. \A r \in Sync!Records : v1[r].status = "active" /\ v1[r].day = 1
  BY <1>2
<1>5. "offices" \in Sync!Entities
  BY EntityFacts
<1>6. QED
  BY <1>1, <1>2, <1>3, <1>4, <1>5 DEF Sync!MissInv, Sync!Listing, Sync!Idle

\* A program is stored only when its office is.
LEMMA OfficesStep ==
  ASSUME SyncAll!SyncInv, SyncAll!ProgramsHaveOffices, [SyncAll!Next]_(SyncAll!vars)
  PROVE  SyncAll!ProgramsHaveOffices'
<1>1. \A p \in Programs : p \in SyncAll!Records /\ OfficeOf[p] \in SyncAll!Records
  BY BoundsAssumption DEF SyncAll!SyncAssumption, SyncAll!Records
<1>2. ASSUME NEW s \in LoneSyncs, NEW r \in SyncAll!Records, SyncAll!Apply(s, r)
      PROVE  SyncAll!ProgramsHaveOffices'
  <2>1. CASE SyncAll!Wanted(r, v5[s].left[r])
    <3>1. v2' = [v2 EXCEPT ![r] = v5[s].left[r]]
      BY <1>2, <2>1 DEF SyncAll!Apply
    <3>2. v5[s].left[r] # SyncAll!Unknown
      BY <2>1 DEF SyncAll!Wanted, SyncAll!Unknown
    <3>3. \A q \in SyncAll!Records : v2'[q] = IF q = r THEN v5[s].left[r] ELSE v2[q]
      BY <3>1 DEF SyncAll!SyncInv
    <3>4. QED
      BY <1>1, <2>1, <3>2, <3>3 DEF SyncAll!ProgramsHaveOffices, SyncAll!Wanted
  <2>2. CASE ~SyncAll!Wanted(r, v5[s].left[r])
    BY <1>2, <2>2 DEF SyncAll!Apply, SyncAll!ProgramsHaveOffices
  <2>3. QED
    BY <2>1, <2>2
<1>3. CASE UNCHANGED v2
  BY <1>3 DEF SyncAll!ProgramsHaveOffices
<1>4. QED
  BY <1>2, <1>3 DEF SyncAll!Next, SyncAll!Step, SyncAll!Fault, SyncAll!vars, SyncAll!Begin, SyncAll!Acquire,
    SyncAll!Fetch, SyncAll!Finish, SyncAll!FetchFails, SyncAll!Kill, SyncAll!ApplyFails, SyncAll!Change, SyncAll!NextDay

LEMMA OfficesStart ==
  ASSUME SyncAll!Init
  PROVE  SyncAll!ProgramsHaveOffices
BY BoundsAssumption DEF SyncAll!Init, SyncAll!ProgramsHaveOffices, SyncAll!SyncAssumption, SyncAll!Records

-----------------------------------------------------------------------------
(* AreaSync: one synchronisation at a time, and overlapping ones.          *)

\* What a synchronisation of areas writes keeps the types when its own row does.
LEMMA AreaRow ==
  ASSUME Delta!AreaInv, NEW s \in LoneSyncs, NEW t, v5' = [v5 EXCEPT ![s] = t],
         \/ t = Delta!Idle
         \/ Delta!IsRun(t) /\ (t.at \in {"locked", "listed"} => v4' = s),
         v2' \in [Areas -> Areas \cup {NoArea, Delta!Absent}], v3' \in {v3, v7}, v4' \in LoneSyncs \cup {Delta!Free},
         \A q \in LoneSyncs \ {s} : v5[q].at \in {"locked", "listed"} => v4' = q,
         v4' \in LoneSyncs /\ v10' = 0 => v5'[v4'].at \in {"locked", "listed"},
         v10' \in {v10, v10 + 1}, UNCHANGED <<v1, v7>>
  PROVE  Delta!AreaInv'
<1>1. v5' = [q \in LoneSyncs |-> v5'[q]] /\ \A q \in LoneSyncs : v5'[q] = IF q = s THEN t ELSE v5[q]
  BY DEF Delta!AreaInv
<1>2. v3' \in 0..v7' /\ v7' \in 1..MaxDay
  BY DEF Delta!AreaInv, Delta!TypeOK
<1>3. \A q \in LoneSyncs : v5'[q].at \in {"locked", "listed"} => v4' = q
  BY <1>1 DEF Delta!Idle
<1>4. Delta!TypeOK'
  BY <1>2, <1>3 DEF Delta!TypeOK
<1>5. \A q \in LoneSyncs : v5'[q] # Delta!Idle => Delta!IsRun(v5'[q])
  BY <1>1 DEF Delta!AreaInv
<1>6. v10' \in Nat
  BY DEF Delta!AreaInv
<1>7. QED
  BY <1>1, <1>4, <1>5, <1>6 DEF Delta!AreaInv

LEMMA AreaRun ==
  ASSUME Delta!AreaInv, NEW s \in LoneSyncs, v5[s].at \in {"waiting", "locked", "listed", "parents"}
  PROVE  /\ v5[s] # Delta!Idle /\ Delta!IsRun(v5[s]) /\ v5[s] \in Delta!Runs(DOMAIN v5[s].left, DOMAIN v5[s].parents)
         /\ DOMAIN v5[s].left \subseteq Areas \ DOMAIN v5[s].parents /\ DOMAIN v5[s].parents \subseteq Areas
         /\ v5[s].at \in {"waiting", "locked"} => DOMAIN v5[s].parents = {}
         /\ v5[s].after \in Nat /\ v5[s].failed \in BOOLEAN
         /\ v5[s].left \in [DOMAIN v5[s].left -> Areas \cup {NoArea}]
         /\ v5[s].parents \in [DOMAIN v5[s].parents -> Areas]
         /\ v5[s].at \in {"locked", "listed"} => v4 = s
<1>1. v5[s] # Delta!Idle
  BY DEF Delta!Idle
<1>2. Delta!IsRun(v5[s])
  BY <1>1 DEF Delta!AreaInv
<1>3. v5[s] \in Delta!Runs(DOMAIN v5[s].left, DOMAIN v5[s].parents)
  BY <1>2 DEF Delta!IsRun
<1>4. QED
  BY <1>1, <1>2, <1>3 DEF Delta!AreaInv, Delta!TypeOK, Delta!Runs, Delta!IsRun

LEMMA AreaStarts ==
  ASSUME Delta!AreaInv, NEW s \in LoneSyncs, NEW full \in BOOLEAN, Delta!Begin(s, full)
  PROVE  Delta!AreaInv'
<1> DEFINE t == [at |-> "waiting", after |-> IF full THEN 0 ELSE v3, left |-> <<>>, parents |-> <<>>, failed |-> FALSE]
<1>1. /\ v5[s] = Delta!Idle /\ v5' = [v5 EXCEPT ![s] = t] /\ UNCHANGED <<v1, v2, v3, v4, v7, v10>>
  BY DEF Delta!Begin
<1>2. t \in Delta!Runs(DOMAIN t.left, DOMAIN t.parents) /\ DOMAIN t.left = {} /\ DOMAIN t.parents = {} /\ t.at = "waiting"
  BY DEF Delta!Runs, Delta!AreaInv, Delta!TypeOK
<1> HIDE DEF t
<1>3. Delta!IsRun(t)
  BY <1>2 DEF Delta!IsRun
<1>4. v4' \in LoneSyncs /\ v10' = 0 => v4 # s /\ v5'[v4'].at \in {"locked", "listed"}
  BY <1>1 DEF Delta!AreaInv, Delta!TypeOK, Delta!Idle
<1>5. QED
  BY <1>1, <1>2, <1>3, <1>4, AreaRow DEF Delta!AreaInv, Delta!TypeOK

LEMMA AreaAcquires ==
  ASSUME Delta!AreaInv, NEW s \in LoneSyncs, Delta!Acquire(s)
  PROVE  Delta!AreaInv'
<1> DEFINE t == [v5[s] EXCEPT !.at = "locked"]
<1>1. /\ v5[s].at = "waiting" /\ v4 = Delta!Free /\ v4' = s /\ UNCHANGED <<v1, v2, v3, v7, v10>>
      /\ v5' = [v5 EXCEPT ![s] = t]
  BY DEF Delta!Acquire
<1>2. /\ Delta!IsRun(v5[s]) /\ v5[s] \in Delta!Runs(DOMAIN v5[s].left, DOMAIN v5[s].parents)
  BY <1>1, AreaRun
<1>3. /\ t \in Delta!Runs(DOMAIN v5[s].left, DOMAIN v5[s].parents) /\ t.at = "locked"
      /\ t.left = v5[s].left /\ t.parents = v5[s].parents
  BY <1>2 DEF Delta!Runs
<1>4. \A q \in LoneSyncs \ {s} : v5[q].at \notin {"locked", "listed"}
  BY <1>1, BoundsAssumption, AreaRun DEF Delta!AreaAssumption, Delta!Free
<1>5. v5'[s] = t
  BY <1>1 DEF Delta!AreaInv
<1> HIDE DEF t
<1>6. Delta!IsRun(t)
  BY <1>1, <1>2, <1>3 DEF Delta!IsRun
<1>7. QED
  BY <1>1, <1>3, <1>4, <1>5, <1>6, AreaRow DEF Delta!AreaInv, Delta!TypeOK

LEMMA AreaFetches ==
  ASSUME Delta!AreaInv, NEW s \in LoneSyncs, Delta!Fetch(s)
  PROVE  Delta!AreaInv'
<1> DEFINE l == [a \in {b \in Areas : v1[b].day > 0 /\ v1[b].day >= v5[s].after} |-> v1[a].parent]
           t == [v5[s] EXCEPT !.at = "listed", !.left = l]
<1>1. /\ v5[s].at = "locked" /\ UNCHANGED <<v1, v2, v3, v4, v7, v10>> /\ v5' = [v5 EXCEPT ![s] = t]
  BY DEF Delta!Fetch
<1>2. /\ v5[s] \in Delta!Runs(DOMAIN v5[s].left, DOMAIN v5[s].parents) /\ v4 = s /\ DOMAIN v5[s].parents = {}
  BY <1>1, AreaRun
<1>3. DOMAIN l \subseteq Areas /\ l \in [DOMAIN l -> Areas \cup {NoArea}]
  BY DEF Delta!AreaInv
<1> HIDE DEF l
<1>4. /\ t \in Delta!Runs(DOMAIN l, DOMAIN v5[s].parents) /\ t.at = "listed" /\ t.left = l /\ t.parents = v5[s].parents
  BY <1>2, <1>3 DEF Delta!Runs
<1>5. v5'[s] = t
  BY <1>1 DEF Delta!AreaInv
<1> HIDE DEF t
<1>6. Delta!IsRun(t)
  BY <1>2, <1>3, <1>4 DEF Delta!IsRun
<1>7. \A q \in LoneSyncs \ {s} : v5[q].at \in {"locked", "listed"} => v4' = q
  BY <1>1 DEF Delta!AreaInv, Delta!TypeOK
<1>8. QED
  BY <1>1, <1>2, <1>4, <1>5, <1>6, <1>7, AreaRow DEF Delta!AreaInv, Delta!TypeOK

\* One area less is left, and it gets a parent if it has one.
LEMMA AreaLess ==
  ASSUME Delta!AreaInv, NEW s \in LoneSyncs, v5[s].at = "listed", NEW a \in DOMAIN v5[s].left
  PROVE  /\ Delta!Without(s, a) \in [DOMAIN Delta!Without(s, a) -> Areas \cup {NoArea}]
         /\ DOMAIN Delta!Without(s, a) = DOMAIN v5[s].left \ {a}
         /\ \A b \in DOMAIN v5[s].left \ {a} : Delta!Without(s, a)[b] = v5[s].left[b]
         /\ Delta!Mapping(s, a) \in [DOMAIN Delta!Mapping(s, a) -> Areas]
         /\ DOMAIN Delta!Mapping(s, a) = DOMAIN v5[s].parents \cup (IF v5[s].left[a] = NoArea THEN {} ELSE {a})
         /\ a \in DOMAIN Delta!Mapping(s, a) => Delta!Mapping(s, a)[a] = v5[s].left[a]
         /\ \A b \in DOMAIN v5[s].parents : b # a /\ Delta!Mapping(s, a)[b] = v5[s].parents[b]
<1>1. /\ v5[s].left \in [DOMAIN v5[s].left -> Areas \cup {NoArea}]
      /\ v5[s].parents \in [DOMAIN v5[s].parents -> Areas] /\ a \notin DOMAIN v5[s].parents
  BY AreaRun
<1>2. /\ Delta!Without(s, a) \in [DOMAIN Delta!Without(s, a) -> Areas \cup {NoArea}]
      /\ DOMAIN Delta!Without(s, a) = DOMAIN v5[s].left \ {a}
      /\ \A b \in DOMAIN v5[s].left \ {a} : Delta!Without(s, a)[b] = v5[s].left[b]
  BY <1>1 DEF Delta!Without
<1> DEFINE D == DOMAIN v5[s].parents \cup (IF v5[s].left[a] = NoArea THEN {} ELSE {a})
           m == [b \in D |-> IF b = a THEN v5[s].left[a] ELSE v5[s].parents[b]]
<1>3. Delta!Mapping(s, a) = m
  BY DEF Delta!Mapping
<1>4. \A b \in D : m[b] \in Areas
  BY <1>1
<1>5. DOMAIN m = D /\ m \in [D -> Areas]
  BY <1>4
<1>6. QED
  BY <1>1, <1>2, <1>3, <1>5

LEMMA AreaApplies ==
  ASSUME Delta!AreaInv, NEW s \in LoneSyncs, NEW a \in Areas, Delta!Apply(s, a) \/ Delta!ApplyFails(s, a)
  PROVE  /\ Delta!AreaInv'
         /\ v5' = [v5 EXCEPT ![s] = v5'[s]] /\ v5'[s].at = "listed" /\ v5'[s].after = v5[s].after
         /\ v5'[s].left = Delta!Without(s, a) /\ v5'[s].parents = Delta!Mapping(s, a)
         /\ v5'[s].failed = (v5[s].failed \/ Delta!ApplyFails(s, a))
<1> DEFINE l == Delta!Without(s, a)
           m == Delta!Mapping(s, a)
           t == v5'[s]
<1>1. /\ v5[s].at = "listed" /\ a \in DOMAIN v5[s].left /\ UNCHANGED <<v1, v3, v4, v7, v10>>
  BY DEF Delta!Apply, Delta!ApplyFails
<1>2. /\ v5[s] \in Delta!Runs(DOMAIN v5[s].left, DOMAIN v5[s].parents) /\ v4 = s
      /\ DOMAIN v5[s].left \subseteq Areas \ DOMAIN v5[s].parents /\ DOMAIN v5[s].parents \subseteq Areas
  BY <1>1, AreaRun
<1>3. /\ l \in [DOMAIN l -> Areas \cup {NoArea}] /\ DOMAIN l = DOMAIN v5[s].left \ {a}
      /\ m \in [DOMAIN m -> Areas] /\ DOMAIN m \subseteq DOMAIN v5[s].parents \cup {a}
  <2>1. a \in DOMAIN v5[s].left /\ v5[s].at = "listed"
    BY <1>1
  <2>2. l \in [DOMAIN l -> Areas \cup {NoArea}] /\ DOMAIN l = DOMAIN v5[s].left \ {a}
    BY <2>1, AreaLess
  <2>3. /\ m \in [DOMAIN m -> Areas]
        /\ DOMAIN m = DOMAIN v5[s].parents \cup (IF v5[s].left[a] = NoArea THEN {} ELSE {a})
    BY <2>1, AreaLess
  <2> HIDE DEF l, m
  <2>4. QED
    BY <2>2, <2>3
<1>4. v5 = [q \in LoneSyncs |-> v5[q]]
  BY DEF Delta!AreaInv
<1>5. CASE Delta!ApplyFails(s, a)
  <2>1. v5' = [v5 EXCEPT ![s] = [v5[s] EXCEPT !.left = l, !.parents = m, !.failed = TRUE]]
    BY <1>5 DEF Delta!ApplyFails
  <2>2. t = [v5[s] EXCEPT !.left = l, !.parents = m, !.failed = TRUE]
    BY <1>4, <2>1
  <2>3. v5' = [v5 EXCEPT ![s] = t] /\ v2' = v2
    BY <1>5, <2>1, <2>2 DEF Delta!ApplyFails
  <2> HIDE DEF l, m
  <2>4. /\ t \in Delta!Runs(DOMAIN l, DOMAIN m) /\ t.at = "listed" /\ t.left = l /\ t.parents = m
        /\ t.after = v5[s].after /\ t.failed
    BY <1>1, <1>2, <1>3, <2>2 DEF Delta!Runs
  <2> HIDE DEF t
  <2>5. Delta!IsRun(t)
    BY <1>2, <1>3, <2>4 DEF Delta!IsRun
  <2>6. Delta!AreaInv'
    BY <1>1, <1>2, <2>3, <2>4, <2>5, AreaRow DEF Delta!AreaInv, Delta!TypeOK, t
  <2>7. t.failed = (v5[s].failed \/ Delta!ApplyFails(s, a))
    BY <1>2, <1>5, <2>4 DEF Delta!Runs
  <2>8. QED
    BY <2>3, <2>4, <2>6, <2>7 DEF t, l, m
<1>6. CASE Delta!Apply(s, a) /\ ~Delta!ApplyFails(s, a)
  <2>1. v5' = [v5 EXCEPT ![s] = [v5[s] EXCEPT !.left = l, !.parents = m]]
    BY <1>6 DEF Delta!Apply
  <2>2. t = [v5[s] EXCEPT !.left = l, !.parents = m]
    BY <1>4, <2>1
  <2>3. v5' = [v5 EXCEPT ![s] = t]
    BY <2>1, <2>2
  <2>4. v2' \in [Areas -> Areas \cup {NoArea, Delta!Absent}]
    BY <1>6 DEF Delta!Apply, Delta!AreaInv, Delta!TypeOK
  <2> HIDE DEF l, m
  <2>5. /\ t \in Delta!Runs(DOMAIN l, DOMAIN m) /\ t.at = "listed" /\ t.left = l /\ t.parents = m
        /\ t.after = v5[s].after /\ t.failed = v5[s].failed
    BY <1>1, <1>2, <1>3, <2>2 DEF Delta!Runs
  <2> HIDE DEF t
  <2>6. Delta!IsRun(t)
    BY <1>2, <1>3, <2>5 DEF Delta!IsRun
  <2>7. Delta!AreaInv'
    BY <1>1, <1>2, <2>3, <2>4, <2>5, <2>6, AreaRow DEF Delta!AreaInv, Delta!TypeOK, t
  <2>8. v5[s].failed \in BOOLEAN
    BY <1>2 DEF Delta!Runs
  <2>9. QED
    BY <1>6, <2>3, <2>5, <2>7, <2>8 DEF t, l, m
<1>7. QED
  BY <1>5, <1>6

LEMMA AreaFinishes ==
  ASSUME Delta!AreaInv, NEW s \in LoneSyncs, Delta!Finish(s)
  PROVE  Delta!AreaInv'
<1>1. /\ v5[s].at = "listed" /\ v4' = Delta!Free /\ UNCHANGED <<v1, v2, v7, v10>>
  BY DEF Delta!Finish
<1>2. /\ Delta!IsRun(v5[s]) /\ v5[s] \in Delta!Runs(DOMAIN v5[s].left, DOMAIN v5[s].parents)
      /\ v4 = s /\ Delta!Free \notin LoneSyncs
  BY <1>1, AreaRun, BoundsAssumption DEF Delta!AreaAssumption, Delta!Free
<1>3. \A q \in LoneSyncs \ {s} : v5[q].at \notin {"locked", "listed"}
  BY <1>2, AreaRun
<1>4. CASE v5[s].failed
  <2>1. v5' = [v5 EXCEPT ![s] = Delta!Idle] /\ UNCHANGED v3
    BY <1>4 DEF Delta!Finish
  <2>2. QED
    BY <1>1, <1>2, <1>3, <2>1, AreaRow DEF Delta!AreaInv, Delta!TypeOK
<1>5. CASE ~v5[s].failed
  <2> DEFINE t == [v5[s] EXCEPT !.at = "parents"]
  <2>1. v5' = [v5 EXCEPT ![s] = t] /\ v3' = v7
    BY <1>5 DEF Delta!Finish
  <2>2. /\ t \in Delta!Runs(DOMAIN v5[s].left, DOMAIN v5[s].parents) /\ t.at = "parents"
        /\ t.left = v5[s].left /\ t.parents = v5[s].parents
    BY <1>2 DEF Delta!Runs
  <2> HIDE DEF t
  <2>3. Delta!IsRun(t)
    BY <1>2, <2>2 DEF Delta!IsRun
  <2>4. QED
    BY <1>1, <1>2, <1>3, <2>1, <2>2, <2>3, AreaRow DEF Delta!AreaInv, Delta!TypeOK
<1>6. QED
  BY <1>4, <1>5

\* An area gets the parent that was listed, or keeps the one it has.
LEMMA AreaAssigns ==
  ASSUME Delta!AreaInv, NEW s \in LoneSyncs, Delta!AssignParents(s)
  PROVE  /\ Delta!AreaInv'
         /\ \A a \in Areas : v2'[a] = IF /\ a \in DOMAIN v5[s].parents
                                         /\ Delta!Absent \notin {v2[a], v2[v5[s].parents[a]]}
                                      THEN v5[s].parents[a] ELSE v2[a]
         /\ \A a \in DOMAIN v5[s].parents : v5[s].parents[a] \in Areas
<1>1. /\ v5[s].at = "parents" /\ v5' = [v5 EXCEPT ![s] = Delta!Idle] /\ UNCHANGED <<v1, v3, v4, v7, v10>>
      /\ v2' = [a \in Areas |-> IF /\ a \in DOMAIN v5[s].parents
                                   /\ Delta!Absent \notin {v2[a], v2[v5[s].parents[a]]}
                                THEN v5[s].parents[a] ELSE v2[a]]
  BY DEF Delta!AssignParents
<1>2. \A a \in DOMAIN v5[s].parents : v5[s].parents[a] \in Areas
  BY <1>1, AreaRun
<1>3. v2' \in [Areas -> Areas \cup {NoArea, Delta!Absent}]
  BY <1>1, <1>2 DEF Delta!AreaInv, Delta!TypeOK
<1>4. /\ \A q \in LoneSyncs \ {s} : v5[q].at \in {"locked", "listed"} => v4' = q
      /\ v4' \in LoneSyncs /\ v10' = 0 => v4' # s /\ v5[v4'].at \in {"locked", "listed"}
  BY <1>1 DEF Delta!AreaInv, Delta!TypeOK
<1>5. v4' \in LoneSyncs /\ v10' = 0 => v5'[v4'].at \in {"locked", "listed"}
  BY <1>1, <1>4 DEF Delta!AreaInv
<1>6. Delta!AreaInv'
  BY <1>1, <1>3, <1>4, <1>5, AreaRow DEF Delta!AreaInv
<1>7. QED
  BY <1>1, <1>2, <1>6

LEMMA AreaFaults ==
  ASSUME Delta!AreaInv, NEW s \in LoneSyncs, Delta!FetchFails(s) \/ Delta!Kill(s)
  PROVE  Delta!AreaInv'
<1>1. v5' = [v5 EXCEPT ![s] = Delta!Idle] /\ UNCHANGED <<v1, v2, v3, v7>>
  BY DEF Delta!FetchFails, Delta!Kill
<1>2. CASE Delta!FetchFails(s)
  <2>1. v5[s].at \in {"locked", "listed"} /\ v4' = Delta!Free /\ v10' = v10
    BY <1>2 DEF Delta!FetchFails
  <2>2. v4 = s /\ Delta!Free \notin LoneSyncs
    BY <2>1, AreaRun, BoundsAssumption DEF Delta!AreaAssumption, Delta!Free
  <2>3. \A q \in LoneSyncs \ {s} : v5[q].at \notin {"locked", "listed"}
    BY <2>2, AreaRun
  <2>4. QED
    BY <1>1, <2>1, <2>2, <2>3, AreaRow DEF Delta!AreaInv, Delta!TypeOK
<1>3. CASE Delta!Kill(s)
  <2>1. v4' = v4 /\ v10' = v10 + 1 /\ v10' # 0
    BY <1>3 DEF Delta!Kill, Delta!AreaInv
  <2>2. QED
    BY <1>1, <2>1, AreaRow DEF Delta!AreaInv, Delta!TypeOK
<1>4. QED
  BY <1>2, <1>3

\* Lists of choices are cached, HOPE changes an area, or a day passes.
LEMMA AreaOutside ==
  ASSUME Delta!AreaInv,
         \/ \E l \in Delta!Levels : Delta!ReadChoices(l) \/ Delta!Expire(l)
         \/ \E a \in Areas, p \in Areas \cup {NoArea} : Delta!Change(a, p)
         \/ Delta!NextDay
  PROVE  Delta!AreaInv'
<1>1. UNCHANGED <<v2, v3, v4, v5, v10>>
  BY DEF Delta!ReadChoices, Delta!Expire, Delta!Change, Delta!NextDay
<1>2. v7 \in 1..MaxDay /\ MaxDay \in Nat /\ v3 \in 0..v7
  BY BoundsAssumption DEF Delta!AreaInv, Delta!TypeOK, Delta!AreaAssumption
<1>3. v7' \in 1..MaxDay /\ v3' \in 0..v7'
  BY <1>1, <1>2 DEF Delta!ReadChoices, Delta!Expire, Delta!Change, Delta!NextDay
<1>4. v1' \in [Areas -> [parent : Areas \cup {NoArea}, day : Nat]]
  <2>1. v1 \in [Areas -> [parent : Areas \cup {NoArea}, day : Nat]]
    BY DEF Delta!AreaInv
  <2>2. ASSUME NEW a \in Areas, NEW p \in Areas \cup {NoArea}, Delta!Change(a, p)
        PROVE  v1' \in [Areas -> [parent : Areas \cup {NoArea}, day : Nat]]
    <3>1. v1' = [v1 EXCEPT ![a] = [parent |-> p, day |-> v7]]
      BY <2>2 DEF Delta!Change
    <3>2. QED
      BY <1>2, <2>1, <3>1
  <2>3. QED
    BY <2>1, <2>2 DEF Delta!ReadChoices, Delta!Expire, Delta!NextDay
<1>5. Delta!TypeOK'
  BY <1>1, <1>3 DEF Delta!AreaInv, Delta!TypeOK
<1>6. QED
  BY <1>1, <1>4, <1>5 DEF Delta!AreaInv

LEMMA AreaTypes ==
  ASSUME Delta!AreaInv, [Delta!Next]_(Delta!vars)
  PROVE  Delta!AreaInv'
<1>1. CASE UNCHANGED Delta!vars
  <2>1. UNCHANGED <<v1, v2, v3, v4, v5, v6, v7, v8, v9, v10>>
    BY <1>1 DEF Delta!vars
  <2>2. QED
    BY <2>1 DEF Delta!AreaInv, Delta!TypeOK
<1>2. CASE Delta!Next
  BY <1>2, AreaStarts, AreaAcquires, AreaFetches, AreaApplies, AreaFinishes, AreaAssigns, AreaFaults, AreaOutside
    DEF Delta!Next, Delta!Step, Delta!Fault
<1>3. QED
  BY <1>1, <1>2

LEMMA AreaBegins ==
  ASSUME Delta!Init
  PROVE  Delta!AreaInv
<1>1. /\ v7 = 1 /\ v3 = 0 /\ v4 = Delta!Free /\ v10 = 0 /\ v5 = [s \in LoneSyncs |-> Delta!Idle]
      /\ v1 = [a \in Areas |-> [parent |-> NoArea, day |-> 0]] /\ v2 = [a \in Areas |-> Delta!Absent]
  BY DEF Delta!Init
<1>2. Delta!Free \notin LoneSyncs /\ MaxDay \in Nat \ {0}
  BY BoundsAssumption DEF Delta!AreaAssumption, Delta!Free
<1>3. Delta!TypeOK
  BY <1>1, <1>2 DEF Delta!TypeOK, Delta!Idle
<1>4. QED
  BY <1>1, <1>3 DEF Delta!AreaInv

\* What a synchronisation of areas writes keeps the types when its own row does.
LEMMA OverlapRow ==
  ASSUME Overlaps!AreaInv, NEW s \in Syncs, NEW t, v5' = [v5 EXCEPT ![s] = t],
         \/ t = Overlaps!Idle
         \/ Overlaps!IsRun(t) /\ (t.at \in {"locked", "listed"} => v4' = s),
         v2' \in [Areas -> Areas \cup {NoArea, Overlaps!Absent}], v3' \in {v3, v7}, v4' \in Syncs \cup {Overlaps!Free},
         \A q \in Syncs \ {s} : v5[q].at \in {"locked", "listed"} => v4' = q,
         v4' \in Syncs /\ v10' = 0 => v5'[v4'].at \in {"locked", "listed"},
         v10' \in {v10, v10 + 1}, UNCHANGED <<v1, v7>>
  PROVE  Overlaps!AreaInv'
<1>1. v5' = [q \in Syncs |-> v5'[q]] /\ \A q \in Syncs : v5'[q] = IF q = s THEN t ELSE v5[q]
  BY DEF Overlaps!AreaInv
<1>2. v3' \in 0..v7' /\ v7' \in 1..OverlapDays
  BY DEF Overlaps!AreaInv, Overlaps!TypeOK
<1>3. \A q \in Syncs : v5'[q].at \in {"locked", "listed"} => v4' = q
  BY <1>1 DEF Overlaps!Idle
<1>4. Overlaps!TypeOK'
  BY <1>2, <1>3 DEF Overlaps!TypeOK
<1>5. \A q \in Syncs : v5'[q] # Overlaps!Idle => Overlaps!IsRun(v5'[q])
  BY <1>1 DEF Overlaps!AreaInv
<1>6. v10' \in Nat
  BY DEF Overlaps!AreaInv
<1>7. QED
  BY <1>1, <1>4, <1>5, <1>6 DEF Overlaps!AreaInv

LEMMA OverlapRun ==
  ASSUME Overlaps!AreaInv, NEW s \in Syncs, v5[s].at \in {"waiting", "locked", "listed", "parents"}
  PROVE  /\ v5[s] # Overlaps!Idle /\ Overlaps!IsRun(v5[s]) /\ v5[s] \in Overlaps!Runs(DOMAIN v5[s].left, DOMAIN v5[s].parents)
         /\ DOMAIN v5[s].left \subseteq Areas \ DOMAIN v5[s].parents /\ DOMAIN v5[s].parents \subseteq Areas
         /\ v5[s].at \in {"waiting", "locked"} => DOMAIN v5[s].parents = {}
         /\ v5[s].after \in Nat /\ v5[s].failed \in BOOLEAN
         /\ v5[s].left \in [DOMAIN v5[s].left -> Areas \cup {NoArea}]
         /\ v5[s].parents \in [DOMAIN v5[s].parents -> Areas]
         /\ v5[s].at \in {"locked", "listed"} => v4 = s
<1>1. v5[s] # Overlaps!Idle
  BY DEF Overlaps!Idle
<1>2. Overlaps!IsRun(v5[s])
  BY <1>1 DEF Overlaps!AreaInv
<1>3. v5[s] \in Overlaps!Runs(DOMAIN v5[s].left, DOMAIN v5[s].parents)
  BY <1>2 DEF Overlaps!IsRun
<1>4. QED
  BY <1>1, <1>2, <1>3 DEF Overlaps!AreaInv, Overlaps!TypeOK, Overlaps!Runs, Overlaps!IsRun

LEMMA OverlapStarts ==
  ASSUME Overlaps!AreaInv, NEW s \in Syncs, NEW full \in BOOLEAN, Overlaps!Begin(s, full)
  PROVE  Overlaps!AreaInv'
<1> DEFINE t == [at |-> "waiting", after |-> IF full THEN 0 ELSE v3, left |-> <<>>, parents |-> <<>>, failed |-> FALSE]
<1>1. /\ v5[s] = Overlaps!Idle /\ v5' = [v5 EXCEPT ![s] = t] /\ UNCHANGED <<v1, v2, v3, v4, v7, v10>>
  BY DEF Overlaps!Begin
<1>2. t \in Overlaps!Runs(DOMAIN t.left, DOMAIN t.parents) /\ DOMAIN t.left = {} /\ DOMAIN t.parents = {} /\ t.at = "waiting"
  BY DEF Overlaps!Runs, Overlaps!AreaInv, Overlaps!TypeOK
<1> HIDE DEF t
<1>3. Overlaps!IsRun(t)
  BY <1>2 DEF Overlaps!IsRun
<1>4. v4' \in Syncs /\ v10' = 0 => v4 # s /\ v5'[v4'].at \in {"locked", "listed"}
  BY <1>1 DEF Overlaps!AreaInv, Overlaps!TypeOK, Overlaps!Idle
<1>5. QED
  BY <1>1, <1>2, <1>3, <1>4, OverlapRow DEF Overlaps!AreaInv, Overlaps!TypeOK

LEMMA OverlapAcquires ==
  ASSUME Overlaps!AreaInv, NEW s \in Syncs, Overlaps!Acquire(s)
  PROVE  Overlaps!AreaInv'
<1> DEFINE t == [v5[s] EXCEPT !.at = "locked"]
<1>1. /\ v5[s].at = "waiting" /\ v4 = Overlaps!Free /\ v4' = s /\ UNCHANGED <<v1, v2, v3, v7, v10>>
      /\ v5' = [v5 EXCEPT ![s] = t]
  BY DEF Overlaps!Acquire
<1>2. /\ Overlaps!IsRun(v5[s]) /\ v5[s] \in Overlaps!Runs(DOMAIN v5[s].left, DOMAIN v5[s].parents)
  BY <1>1, OverlapRun
<1>3. /\ t \in Overlaps!Runs(DOMAIN v5[s].left, DOMAIN v5[s].parents) /\ t.at = "locked"
      /\ t.left = v5[s].left /\ t.parents = v5[s].parents
  BY <1>2 DEF Overlaps!Runs
<1>4. \A q \in Syncs \ {s} : v5[q].at \notin {"locked", "listed"}
  BY <1>1, BoundsAssumption, OverlapRun DEF Overlaps!AreaAssumption, Overlaps!Free
<1>5. v5'[s] = t
  BY <1>1 DEF Overlaps!AreaInv
<1> HIDE DEF t
<1>6. Overlaps!IsRun(t)
  BY <1>1, <1>2, <1>3 DEF Overlaps!IsRun
<1>7. QED
  BY <1>1, <1>3, <1>4, <1>5, <1>6, OverlapRow DEF Overlaps!AreaInv, Overlaps!TypeOK

LEMMA OverlapFetches ==
  ASSUME Overlaps!AreaInv, NEW s \in Syncs, Overlaps!Fetch(s)
  PROVE  Overlaps!AreaInv'
<1> DEFINE l == [a \in {b \in Areas : v1[b].day > 0 /\ v1[b].day >= v5[s].after} |-> v1[a].parent]
           t == [v5[s] EXCEPT !.at = "listed", !.left = l]
<1>1. /\ v5[s].at = "locked" /\ UNCHANGED <<v1, v2, v3, v4, v7, v10>> /\ v5' = [v5 EXCEPT ![s] = t]
  BY DEF Overlaps!Fetch
<1>2. /\ v5[s] \in Overlaps!Runs(DOMAIN v5[s].left, DOMAIN v5[s].parents) /\ v4 = s /\ DOMAIN v5[s].parents = {}
  BY <1>1, OverlapRun
<1>3. DOMAIN l \subseteq Areas /\ l \in [DOMAIN l -> Areas \cup {NoArea}]
  BY DEF Overlaps!AreaInv
<1> HIDE DEF l
<1>4. /\ t \in Overlaps!Runs(DOMAIN l, DOMAIN v5[s].parents) /\ t.at = "listed" /\ t.left = l /\ t.parents = v5[s].parents
  BY <1>2, <1>3 DEF Overlaps!Runs
<1>5. v5'[s] = t
  BY <1>1 DEF Overlaps!AreaInv
<1> HIDE DEF t
<1>6. Overlaps!IsRun(t)
  BY <1>2, <1>3, <1>4 DEF Overlaps!IsRun
<1>7. \A q \in Syncs \ {s} : v5[q].at \in {"locked", "listed"} => v4' = q
  BY <1>1 DEF Overlaps!AreaInv, Overlaps!TypeOK
<1>8. QED
  BY <1>1, <1>2, <1>4, <1>5, <1>6, <1>7, OverlapRow DEF Overlaps!AreaInv, Overlaps!TypeOK

\* One area less is left, and it gets a parent if it has one.
LEMMA OverlapLess ==
  ASSUME Overlaps!AreaInv, NEW s \in Syncs, v5[s].at = "listed", NEW a \in DOMAIN v5[s].left
  PROVE  /\ Overlaps!Without(s, a) \in [DOMAIN Overlaps!Without(s, a) -> Areas \cup {NoArea}]
         /\ DOMAIN Overlaps!Without(s, a) = DOMAIN v5[s].left \ {a}
         /\ \A b \in DOMAIN v5[s].left \ {a} : Overlaps!Without(s, a)[b] = v5[s].left[b]
         /\ Overlaps!Mapping(s, a) \in [DOMAIN Overlaps!Mapping(s, a) -> Areas]
         /\ DOMAIN Overlaps!Mapping(s, a) = DOMAIN v5[s].parents \cup (IF v5[s].left[a] = NoArea THEN {} ELSE {a})
         /\ a \in DOMAIN Overlaps!Mapping(s, a) => Overlaps!Mapping(s, a)[a] = v5[s].left[a]
         /\ \A b \in DOMAIN v5[s].parents : b # a /\ Overlaps!Mapping(s, a)[b] = v5[s].parents[b]
<1>1. /\ v5[s].left \in [DOMAIN v5[s].left -> Areas \cup {NoArea}]
      /\ v5[s].parents \in [DOMAIN v5[s].parents -> Areas] /\ a \notin DOMAIN v5[s].parents
  BY OverlapRun
<1>2. /\ Overlaps!Without(s, a) \in [DOMAIN Overlaps!Without(s, a) -> Areas \cup {NoArea}]
      /\ DOMAIN Overlaps!Without(s, a) = DOMAIN v5[s].left \ {a}
      /\ \A b \in DOMAIN v5[s].left \ {a} : Overlaps!Without(s, a)[b] = v5[s].left[b]
  BY <1>1 DEF Overlaps!Without
<1> DEFINE D == DOMAIN v5[s].parents \cup (IF v5[s].left[a] = NoArea THEN {} ELSE {a})
           m == [b \in D |-> IF b = a THEN v5[s].left[a] ELSE v5[s].parents[b]]
<1>3. Overlaps!Mapping(s, a) = m
  BY DEF Overlaps!Mapping
<1>4. \A b \in D : m[b] \in Areas
  BY <1>1
<1>5. DOMAIN m = D /\ m \in [D -> Areas]
  BY <1>4
<1>6. QED
  BY <1>1, <1>2, <1>3, <1>5

LEMMA OverlapApplies ==
  ASSUME Overlaps!AreaInv, NEW s \in Syncs, NEW a \in Areas, Overlaps!Apply(s, a) \/ Overlaps!ApplyFails(s, a)
  PROVE  /\ Overlaps!AreaInv'
         /\ v5' = [v5 EXCEPT ![s] = v5'[s]] /\ v5'[s].at = "listed" /\ v5'[s].after = v5[s].after
         /\ v5'[s].left = Overlaps!Without(s, a) /\ v5'[s].parents = Overlaps!Mapping(s, a)
         /\ v5'[s].failed = (v5[s].failed \/ Overlaps!ApplyFails(s, a))
<1> DEFINE l == Overlaps!Without(s, a)
           m == Overlaps!Mapping(s, a)
           t == v5'[s]
<1>1. /\ v5[s].at = "listed" /\ a \in DOMAIN v5[s].left /\ UNCHANGED <<v1, v3, v4, v7, v10>>
  BY DEF Overlaps!Apply, Overlaps!ApplyFails
<1>2. /\ v5[s] \in Overlaps!Runs(DOMAIN v5[s].left, DOMAIN v5[s].parents) /\ v4 = s
      /\ DOMAIN v5[s].left \subseteq Areas \ DOMAIN v5[s].parents /\ DOMAIN v5[s].parents \subseteq Areas
  BY <1>1, OverlapRun
<1>3. /\ l \in [DOMAIN l -> Areas \cup {NoArea}] /\ DOMAIN l = DOMAIN v5[s].left \ {a}
      /\ m \in [DOMAIN m -> Areas] /\ DOMAIN m \subseteq DOMAIN v5[s].parents \cup {a}
  <2>1. a \in DOMAIN v5[s].left /\ v5[s].at = "listed"
    BY <1>1
  <2>2. l \in [DOMAIN l -> Areas \cup {NoArea}] /\ DOMAIN l = DOMAIN v5[s].left \ {a}
    BY <2>1, OverlapLess
  <2>3. /\ m \in [DOMAIN m -> Areas]
        /\ DOMAIN m = DOMAIN v5[s].parents \cup (IF v5[s].left[a] = NoArea THEN {} ELSE {a})
    BY <2>1, OverlapLess
  <2> HIDE DEF l, m
  <2>4. QED
    BY <2>2, <2>3
<1>4. v5 = [q \in Syncs |-> v5[q]]
  BY DEF Overlaps!AreaInv
<1>5. CASE Overlaps!ApplyFails(s, a)
  <2>1. v5' = [v5 EXCEPT ![s] = [v5[s] EXCEPT !.left = l, !.parents = m, !.failed = TRUE]]
    BY <1>5 DEF Overlaps!ApplyFails
  <2>2. t = [v5[s] EXCEPT !.left = l, !.parents = m, !.failed = TRUE]
    BY <1>4, <2>1
  <2>3. v5' = [v5 EXCEPT ![s] = t] /\ v2' = v2
    BY <1>5, <2>1, <2>2 DEF Overlaps!ApplyFails
  <2> HIDE DEF l, m
  <2>4. /\ t \in Overlaps!Runs(DOMAIN l, DOMAIN m) /\ t.at = "listed" /\ t.left = l /\ t.parents = m
        /\ t.after = v5[s].after /\ t.failed
    BY <1>1, <1>2, <1>3, <2>2 DEF Overlaps!Runs
  <2> HIDE DEF t
  <2>5. Overlaps!IsRun(t)
    BY <1>2, <1>3, <2>4 DEF Overlaps!IsRun
  <2>6. Overlaps!AreaInv'
    BY <1>1, <1>2, <2>3, <2>4, <2>5, OverlapRow DEF Overlaps!AreaInv, Overlaps!TypeOK, t
  <2>7. t.failed = (v5[s].failed \/ Overlaps!ApplyFails(s, a))
    BY <1>2, <1>5, <2>4 DEF Overlaps!Runs
  <2>8. QED
    BY <2>3, <2>4, <2>6, <2>7 DEF t, l, m
<1>6. CASE Overlaps!Apply(s, a) /\ ~Overlaps!ApplyFails(s, a)
  <2>1. v5' = [v5 EXCEPT ![s] = [v5[s] EXCEPT !.left = l, !.parents = m]]
    BY <1>6 DEF Overlaps!Apply
  <2>2. t = [v5[s] EXCEPT !.left = l, !.parents = m]
    BY <1>4, <2>1
  <2>3. v5' = [v5 EXCEPT ![s] = t]
    BY <2>1, <2>2
  <2>4. v2' \in [Areas -> Areas \cup {NoArea, Overlaps!Absent}]
    BY <1>6 DEF Overlaps!Apply, Overlaps!AreaInv, Overlaps!TypeOK
  <2> HIDE DEF l, m
  <2>5. /\ t \in Overlaps!Runs(DOMAIN l, DOMAIN m) /\ t.at = "listed" /\ t.left = l /\ t.parents = m
        /\ t.after = v5[s].after /\ t.failed = v5[s].failed
    BY <1>1, <1>2, <1>3, <2>2 DEF Overlaps!Runs
  <2> HIDE DEF t
  <2>6. Overlaps!IsRun(t)
    BY <1>2, <1>3, <2>5 DEF Overlaps!IsRun
  <2>7. Overlaps!AreaInv'
    BY <1>1, <1>2, <2>3, <2>4, <2>5, <2>6, OverlapRow DEF Overlaps!AreaInv, Overlaps!TypeOK, t
  <2>8. v5[s].failed \in BOOLEAN
    BY <1>2 DEF Overlaps!Runs
  <2>9. QED
    BY <1>6, <2>3, <2>5, <2>7, <2>8 DEF t, l, m
<1>7. QED
  BY <1>5, <1>6

LEMMA OverlapFinishes ==
  ASSUME Overlaps!AreaInv, NEW s \in Syncs, Overlaps!Finish(s)
  PROVE  Overlaps!AreaInv'
<1>1. /\ v5[s].at = "listed" /\ v4' = Overlaps!Free /\ UNCHANGED <<v1, v2, v7, v10>>
  BY DEF Overlaps!Finish
<1>2. /\ Overlaps!IsRun(v5[s]) /\ v5[s] \in Overlaps!Runs(DOMAIN v5[s].left, DOMAIN v5[s].parents)
      /\ v4 = s /\ Overlaps!Free \notin Syncs
  BY <1>1, OverlapRun, BoundsAssumption DEF Overlaps!AreaAssumption, Overlaps!Free
<1>3. \A q \in Syncs \ {s} : v5[q].at \notin {"locked", "listed"}
  BY <1>2, OverlapRun
<1>4. CASE v5[s].failed
  <2>1. v5' = [v5 EXCEPT ![s] = Overlaps!Idle] /\ UNCHANGED v3
    BY <1>4 DEF Overlaps!Finish
  <2>2. QED
    BY <1>1, <1>2, <1>3, <2>1, OverlapRow DEF Overlaps!AreaInv, Overlaps!TypeOK
<1>5. CASE ~v5[s].failed
  <2> DEFINE t == [v5[s] EXCEPT !.at = "parents"]
  <2>1. v5' = [v5 EXCEPT ![s] = t] /\ v3' = v7
    BY <1>5 DEF Overlaps!Finish
  <2>2. /\ t \in Overlaps!Runs(DOMAIN v5[s].left, DOMAIN v5[s].parents) /\ t.at = "parents"
        /\ t.left = v5[s].left /\ t.parents = v5[s].parents
    BY <1>2 DEF Overlaps!Runs
  <2> HIDE DEF t
  <2>3. Overlaps!IsRun(t)
    BY <1>2, <2>2 DEF Overlaps!IsRun
  <2>4. QED
    BY <1>1, <1>2, <1>3, <2>1, <2>2, <2>3, OverlapRow DEF Overlaps!AreaInv, Overlaps!TypeOK
<1>6. QED
  BY <1>4, <1>5

\* An area gets the parent that was listed, or keeps the one it has.
LEMMA OverlapAssigns ==
  ASSUME Overlaps!AreaInv, NEW s \in Syncs, Overlaps!AssignParents(s)
  PROVE  /\ Overlaps!AreaInv'
         /\ \A a \in Areas : v2'[a] = IF /\ a \in DOMAIN v5[s].parents
                                         /\ Overlaps!Absent \notin {v2[a], v2[v5[s].parents[a]]}
                                      THEN v5[s].parents[a] ELSE v2[a]
         /\ \A a \in DOMAIN v5[s].parents : v5[s].parents[a] \in Areas
<1>1. /\ v5[s].at = "parents" /\ v5' = [v5 EXCEPT ![s] = Overlaps!Idle] /\ UNCHANGED <<v1, v3, v4, v7, v10>>
      /\ v2' = [a \in Areas |-> IF /\ a \in DOMAIN v5[s].parents
                                   /\ Overlaps!Absent \notin {v2[a], v2[v5[s].parents[a]]}
                                THEN v5[s].parents[a] ELSE v2[a]]
  BY DEF Overlaps!AssignParents
<1>2. \A a \in DOMAIN v5[s].parents : v5[s].parents[a] \in Areas
  BY <1>1, OverlapRun
<1>3. v2' \in [Areas -> Areas \cup {NoArea, Overlaps!Absent}]
  BY <1>1, <1>2 DEF Overlaps!AreaInv, Overlaps!TypeOK
<1>4. /\ \A q \in Syncs \ {s} : v5[q].at \in {"locked", "listed"} => v4' = q
      /\ v4' \in Syncs /\ v10' = 0 => v4' # s /\ v5[v4'].at \in {"locked", "listed"}
  BY <1>1 DEF Overlaps!AreaInv, Overlaps!TypeOK
<1>5. v4' \in Syncs /\ v10' = 0 => v5'[v4'].at \in {"locked", "listed"}
  BY <1>1, <1>4 DEF Overlaps!AreaInv
<1>6. Overlaps!AreaInv'
  BY <1>1, <1>3, <1>4, <1>5, OverlapRow DEF Overlaps!AreaInv
<1>7. QED
  BY <1>1, <1>2, <1>6

LEMMA OverlapFaults ==
  ASSUME Overlaps!AreaInv, NEW s \in Syncs, Overlaps!FetchFails(s) \/ Overlaps!Kill(s)
  PROVE  Overlaps!AreaInv'
<1>1. v5' = [v5 EXCEPT ![s] = Overlaps!Idle] /\ UNCHANGED <<v1, v2, v3, v7>>
  BY DEF Overlaps!FetchFails, Overlaps!Kill
<1>2. CASE Overlaps!FetchFails(s)
  <2>1. v5[s].at \in {"locked", "listed"} /\ v4' = Overlaps!Free /\ v10' = v10
    BY <1>2 DEF Overlaps!FetchFails
  <2>2. v4 = s /\ Overlaps!Free \notin Syncs
    BY <2>1, OverlapRun, BoundsAssumption DEF Overlaps!AreaAssumption, Overlaps!Free
  <2>3. \A q \in Syncs \ {s} : v5[q].at \notin {"locked", "listed"}
    BY <2>2, OverlapRun
  <2>4. QED
    BY <1>1, <2>1, <2>2, <2>3, OverlapRow DEF Overlaps!AreaInv, Overlaps!TypeOK
<1>3. CASE Overlaps!Kill(s)
  <2>1. v4' = v4 /\ v10' = v10 + 1 /\ v10' # 0
    BY <1>3 DEF Overlaps!Kill, Overlaps!AreaInv
  <2>2. QED
    BY <1>1, <2>1, OverlapRow DEF Overlaps!AreaInv, Overlaps!TypeOK
<1>4. QED
  BY <1>2, <1>3

\* Lists of choices are cached, HOPE changes an area, or a day passes.
LEMMA OverlapOutside ==
  ASSUME Overlaps!AreaInv,
         \/ \E l \in Overlaps!Levels : Overlaps!ReadChoices(l) \/ Overlaps!Expire(l)
         \/ \E a \in Areas, p \in Areas \cup {NoArea} : Overlaps!Change(a, p)
         \/ Overlaps!NextDay
  PROVE  Overlaps!AreaInv'
<1>1. UNCHANGED <<v2, v3, v4, v5, v10>>
  BY DEF Overlaps!ReadChoices, Overlaps!Expire, Overlaps!Change, Overlaps!NextDay
<1>2. v7 \in 1..OverlapDays /\ OverlapDays \in Nat /\ v3 \in 0..v7
  BY BoundsAssumption DEF Overlaps!AreaInv, Overlaps!TypeOK, Overlaps!AreaAssumption
<1>3. v7' \in 1..OverlapDays /\ v3' \in 0..v7'
  BY <1>1, <1>2 DEF Overlaps!ReadChoices, Overlaps!Expire, Overlaps!Change, Overlaps!NextDay
<1>4. v1' \in [Areas -> [parent : Areas \cup {NoArea}, day : Nat]]
  <2>1. v1 \in [Areas -> [parent : Areas \cup {NoArea}, day : Nat]]
    BY DEF Overlaps!AreaInv
  <2>2. ASSUME NEW a \in Areas, NEW p \in Areas \cup {NoArea}, Overlaps!Change(a, p)
        PROVE  v1' \in [Areas -> [parent : Areas \cup {NoArea}, day : Nat]]
    <3>1. v1' = [v1 EXCEPT ![a] = [parent |-> p, day |-> v7]]
      BY <2>2 DEF Overlaps!Change
    <3>2. QED
      BY <1>2, <2>1, <3>1
  <2>3. QED
    BY <2>1, <2>2 DEF Overlaps!ReadChoices, Overlaps!Expire, Overlaps!NextDay
<1>5. Overlaps!TypeOK'
  BY <1>1, <1>3 DEF Overlaps!AreaInv, Overlaps!TypeOK
<1>6. QED
  BY <1>1, <1>4, <1>5 DEF Overlaps!AreaInv

LEMMA OverlapTypes ==
  ASSUME Overlaps!AreaInv, [Overlaps!Next]_(Overlaps!vars)
  PROVE  Overlaps!AreaInv'
<1>1. CASE UNCHANGED Overlaps!vars
  <2>1. UNCHANGED <<v1, v2, v3, v4, v5, v6, v7, v8, v9, v10>>
    BY <1>1 DEF Overlaps!vars
  <2>2. QED
    BY <2>1 DEF Overlaps!AreaInv, Overlaps!TypeOK
<1>2. CASE Overlaps!Next
  BY <1>2, OverlapStarts, OverlapAcquires, OverlapFetches, OverlapApplies, OverlapFinishes, OverlapAssigns, OverlapFaults, OverlapOutside
    DEF Overlaps!Next, Overlaps!Step, Overlaps!Fault
<1>3. QED
  BY <1>1, <1>2

LEMMA OverlapBegins ==
  ASSUME Overlaps!Init
  PROVE  Overlaps!AreaInv
<1>1. /\ v7 = 1 /\ v3 = 0 /\ v4 = Overlaps!Free /\ v10 = 0 /\ v5 = [s \in Syncs |-> Overlaps!Idle]
      /\ v1 = [a \in Areas |-> [parent |-> NoArea, day |-> 0]] /\ v2 = [a \in Areas |-> Overlaps!Absent]
  BY DEF Overlaps!Init
<1>2. Overlaps!Free \notin Syncs /\ OverlapDays \in Nat \ {0}
  BY BoundsAssumption DEF Overlaps!AreaAssumption, Overlaps!Free
<1>3. Overlaps!TypeOK
  BY <1>1, <1>2 DEF Overlaps!TypeOK, Overlaps!Idle
<1>4. QED
  BY <1>1, <1>3 DEF Overlaps!AreaInv

\* One synchronisation runs: who holds a row is the one the invariant is about.
LEMMA ParentRow ==
  ASSUME Delta!AreaInv', Delta!Forest', NEW s \in LoneSyncs,
         \A q \in LoneSyncs \ {s} : v5'[q] = Delta!Idle,
         \A a \in Areas : Delta!Old(a, v3)' =>
           Delta!Stored(a)' /\ (v2'[a] = v1'[a].parent \/ v5'[s].at = "parents"),
         v5'[s] # Delta!Idle =>
           v5'[s].after <= v3' /\ \A a \in DOMAIN v5'[s].parents : Level[a] # 1,
         v5'[s].at = "listed" => \A a \in DOMAIN v5'[s].left : Level[a] = 1 => v5'[s].left[a] = NoArea,
         v5'[s].at = "listed" => \A a \in Areas : Delta!Old(a, v7)' =>
           /\ a \in DOMAIN v5'[s].left => v5'[s].left[a] = v1'[a].parent
           /\ a \notin DOMAIN v5'[s].left => v5'[s].failed \/ Delta!Settled(s, a)',
         v5'[s].at = "listed" => \A p \in Areas :
           /\ ~Delta!Stored(p)' /\ p \notin DOMAIN v5'[s].left
           /\ \/ \E a \in DOMAIN v5'[s].left : v5'[s].left[a] = p
              \/ \E a \in DOMAIN v5'[s].parents : v5'[s].parents[a] = p
           => v5'[s].failed,
         v5'[s].at = "parents" =>
           /\ \A a \in Areas : Delta!Old(a, v3)' => Delta!Settled(s, a)'
           /\ \A a \in DOMAIN v5'[s].parents : Delta!Stored(v5[s].parents[a])'
  PROVE  Delta!ParentInv'
<1>1. \A q \in LoneSyncs \ {s} : v5'[q].at = "idle"
  BY DEF Delta!Idle
<1>2. \A q \in LoneSyncs : v5'[q] # Delta!Idle => q = s
  OBVIOUS
<1>3. \A q \in LoneSyncs : v5'[q].at \in {"listed", "parents"} => q = s
  BY <1>1
<1>4. \A a \in Areas : Delta!Old(a, v3)' =>
        Delta!Stored(a)' /\ (v2'[a] = v1'[a].parent \/ \E q \in LoneSyncs : v5'[q].at = "parents")
  OBVIOUS
<1>5. QED
  BY <1>2, <1>3, <1>4 DEF Delta!ParentInv

\* While one synchronisation runs the others are idle, and before the parents are to be set
\* what was changed before the last success is as it is in HOPE.
LEMMA ParentFacts ==
  ASSUME Delta!ParentInv, NEW s \in LoneSyncs
  PROVE  /\ v5[s] # Delta!Idle => \A q \in LoneSyncs \ {s} : v5[q] = Delta!Idle
         /\ (\A q \in LoneSyncs \ {s} : v5[q] = Delta!Idle) /\ v5[s].at # "parents" =>
              \A a \in Areas : Delta!Old(a, v3) => Delta!Stored(a) /\ v2[a] = v1[a].parent
<1>1. v5[s] # Delta!Idle => \A q \in LoneSyncs \ {s} : v5[q] = Delta!Idle
  BY DEF Delta!ParentInv
<1>2. ASSUME \A q \in LoneSyncs \ {s} : v5[q] = Delta!Idle, v5[s].at # "parents"
      PROVE  \A q \in LoneSyncs : v5[q].at # "parents"
  BY <1>2 DEF Delta!Idle
<1>3. QED
  BY <1>1, <1>2 DEF Delta!ParentInv

\* A synchronisation that stops, or has not listed anything, leaves what is stored as it is.
LEMMA ParentQuiet ==
  ASSUME Delta!ParentInv, Delta!AreaInv', NEW s \in LoneSyncs,
         \A q \in LoneSyncs \ {s} : v5[q] = Delta!Idle, v5[s].at # "parents",
         v5' = [v5 EXCEPT ![s] = v5'[s]], UNCHANGED <<v1, v2, v3, v7>>, v5'[s].at \in {"idle", "waiting", "locked"},
         v5'[s] # Delta!Idle => v5'[s].after <= v3 /\ DOMAIN v5'[s].parents = {}
  PROVE  Delta!ParentInv'
<1>1. \A q \in LoneSyncs \ {s} : v5'[q] = Delta!Idle
  BY DEF Delta!ParentInv, Delta!AreaInv
<1>2. \A a \in Areas : Delta!Old(a, v3)' => Delta!Stored(a)' /\ v2'[a] = v1'[a].parent
  BY ParentFacts DEF Delta!Old, Delta!Stored
<1>3. Delta!Forest'
  BY DEF Delta!ParentInv, Delta!Forest
<1>4. QED
  BY <1>1, <1>2, <1>3, ParentRow

LEMMA ParentBegin ==
  ASSUME Delta!ParentInv, NEW s \in LoneSyncs, NEW full \in BOOLEAN, Delta!Begin(s, full)
  PROVE  Delta!ParentInv'
<1> DEFINE t == [at |-> "waiting", after |-> IF full THEN 0 ELSE v3, left |-> <<>>, parents |-> <<>>, failed |-> FALSE]
<1>1. /\ \A q \in LoneSyncs : v5[q] = Delta!Idle
      /\ v5' = [v5 EXCEPT ![s] = t] /\ UNCHANGED <<v1, v2, v3, v7>>
  BY DEF Delta!Begin
<1>2. v5[s].at # "parents"
  BY <1>1 DEF Delta!Idle
<1>3. v5'[s] = t /\ v5' = [v5 EXCEPT ![s] = v5'[s]]
  BY <1>1 DEF Delta!ParentInv, Delta!AreaInv
<1>4. t.at = "waiting" /\ t.after <= v3 /\ DOMAIN t.parents = {}
  BY DEF Delta!ParentInv, Delta!AreaInv, Delta!TypeOK
<1> HIDE DEF t
<1>5. Delta!AreaInv'
  BY AreaStarts DEF Delta!ParentInv
<1>6. QED
  BY <1>1, <1>2, <1>3, <1>4, <1>5, ParentQuiet

LEMMA ParentAcquire ==
  ASSUME Delta!ParentInv, NEW s \in LoneSyncs, Delta!Acquire(s)
  PROVE  Delta!ParentInv'
<1>1. /\ v5[s].at = "waiting" /\ v5' = [v5 EXCEPT ![s] = [v5[s] EXCEPT !.at = "locked"]] /\ UNCHANGED <<v1, v2, v3, v7>>
  BY DEF Delta!Acquire
<1>2. /\ v5[s] # Delta!Idle /\ v5[s] \in Delta!Runs(DOMAIN v5[s].left, DOMAIN v5[s].parents) /\ DOMAIN v5[s].parents = {}
  BY <1>1, AreaRun DEF Delta!ParentInv
<1>3. /\ v5' = [v5 EXCEPT ![s] = v5'[s]] /\ v5'[s] = [v5[s] EXCEPT !.at = "locked"]
  BY <1>1 DEF Delta!ParentInv, Delta!AreaInv
<1>4. v5'[s].at = "locked" /\ v5'[s].after = v5[s].after /\ v5'[s].parents = v5[s].parents
  BY <1>2, <1>3 DEF Delta!Runs
<1>5. v5[s].after <= v3
  BY <1>2 DEF Delta!ParentInv
<1>6. Delta!AreaInv'
  BY AreaAcquires DEF Delta!ParentInv
<1>7. QED
  BY <1>1, <1>2, <1>3, <1>4, <1>5, <1>6, ParentFacts, ParentQuiet

\* What a delta does not list is older than the last success, so it is as it is in HOPE; and
\* so is the parent of an area that is listed, when it is not.
LEMMA ParentFetch ==
  ASSUME Delta!ParentInv, NEW s \in LoneSyncs, Delta!Fetch(s)
  PROVE  Delta!ParentInv'
<1> DEFINE l == [a \in {b \in Areas : v1[b].day > 0 /\ v1[b].day >= v5[s].after} |-> v1[a].parent]
           t == v5'[s]
<1>1. /\ v5[s].at = "locked" /\ UNCHANGED <<v1, v2, v3, v7>>
      /\ v5' = [v5 EXCEPT ![s] = [v5[s] EXCEPT !.at = "listed", !.left = l]]
  BY DEF Delta!Fetch
<1>2. /\ v5[s] # Delta!Idle /\ v5[s] \in Delta!Runs(DOMAIN v5[s].left, DOMAIN v5[s].parents)
      /\ DOMAIN v5[s].parents = {} /\ v5[s].after \in Nat
  BY <1>1, AreaRun DEF Delta!ParentInv
<1>3. /\ t = [v5[s] EXCEPT !.at = "listed", !.left = l] /\ \A q \in LoneSyncs \ {s} : v5'[q] = Delta!Idle
  BY <1>1, <1>2, ParentFacts DEF Delta!ParentInv, Delta!AreaInv
<1>4. /\ DOMAIN l \subseteq Areas /\ \A a \in DOMAIN l : l[a] = v1[a].parent
      /\ \A a \in Areas : a \in DOMAIN l <=> v1[a].day > 0 /\ v1[a].day >= v5[s].after
  OBVIOUS
<1> HIDE DEF l
<1>5. t.at = "listed" /\ t.left = l /\ t.after = v5[s].after /\ t.parents = v5[s].parents
  BY <1>2, <1>3 DEF Delta!Runs
<1> HIDE DEF t
<1>6. \A a \in Areas : Delta!Old(a, v3) => Delta!Stored(a) /\ v2[a] = v1[a].parent
  BY <1>1, <1>2, ParentFacts
<1>7. v5[s].after <= v3 /\ v3 \in Nat /\ \A a \in Areas : v1[a].day \in Nat
  BY <1>2 DEF Delta!ParentInv, Delta!AreaInv, Delta!TypeOK
<1>8. \A a \in Areas : v1[a].day > 0 /\ a \notin DOMAIN l => Delta!Old(a, v3)
  BY <1>2, <1>4, <1>7 DEF Delta!Old
<1>9. Delta!Forest /\ Delta!Forest'
  BY <1>1 DEF Delta!ParentInv, Delta!Forest
<1>10. \A a \in DOMAIN l : Level[a] = 1 => l[a] = NoArea
  BY <1>4, <1>9 DEF Delta!Forest
<1>11. \A a \in Areas : Delta!Old(a, v7)' =>
         /\ a \in DOMAIN l => l[a] = v1'[a].parent
         /\ a \notin DOMAIN l => Delta!Settled(s, a)'
  <2> SUFFICES ASSUME NEW a \in Areas, Delta!Old(a, v7)', a \notin DOMAIN l PROVE Delta!Settled(s, a)'
    BY <1>1, <1>4
  <2>1. v1[a].day > 0
    BY <1>1, <1>7 DEF Delta!Old
  <2>2. Delta!Stored(a) /\ v2[a] = v1[a].parent /\ a \notin DOMAIN v5'[s].parents
    BY <1>2, <1>5, <1>6, <1>8, <2>1 DEF t
  <2>3. QED
    BY <1>1, <2>2 DEF Delta!Settled, Delta!Stored
<1>12. ASSUME NEW p \in Areas, p \notin DOMAIN l, NEW a \in DOMAIN l, l[a] = p
       PROVE  Delta!Stored(p)'
  <2>1. v1[a].day > 0 /\ v1[a].parent = p /\ NoArea \notin Areas
    BY <1>4, <1>12, BoundsAssumption DEF Delta!AreaAssumption
  <2>2. v1[p].day > 0
    BY <1>4, <1>9, <2>1 DEF Delta!Forest
  <2>3. QED
    BY <1>1, <1>6, <1>8, <1>12, <2>2 DEF Delta!Stored
<1>13. Delta!AreaInv'
  BY AreaFetches DEF Delta!ParentInv
<1>14. \A a \in Areas : Delta!Old(a, v3)' => Delta!Stored(a)' /\ v2'[a] = v1'[a].parent
  BY <1>1, <1>6 DEF Delta!Old, Delta!Stored
<1>15. v5'[s].after <= v3' /\ DOMAIN v5'[s].parents = {} /\ v5'[s].at = "listed" /\ v5'[s].left = l
  BY <1>1, <1>2, <1>5, <1>7 DEF t
<1>16. QED
  BY <1>3, <1>9, <1>10, <1>11, <1>12, <1>13, <1>14, <1>15, ParentRow

\* An area that is stored has its parent, or is to get it; one that is not has failed.
LEMMA ParentApplied ==
  ASSUME Delta!ParentInv, NEW s \in LoneSyncs, NEW a \in Areas, Delta!Apply(s, a) \/ Delta!ApplyFails(s, a)
  PROVE  /\ \A p \in Areas : Delta!Stored(p) => Delta!Stored(p)' /\ v2'[p] = v2[p]
         /\ \A p \in Areas \ {a} : v2'[p] = v2[p]
         /\ Delta!Apply(s, a) => Delta!Stored(a)' /\ v2'[a] \in {v2[a], NoArea}
         /\ UNCHANGED <<v1, v3, v7>> /\ Delta!Forest'
<1>1. UNCHANGED <<v1, v3, v7>>
  BY DEF Delta!Apply, Delta!ApplyFails
<1>2. v2' = v2 \/ v2' = [v2 EXCEPT ![a] = IF @ = Delta!Absent THEN NoArea ELSE @]
  BY DEF Delta!Apply, Delta!ApplyFails
<1>3. v2 \in [Areas -> Areas \cup {NoArea, Delta!Absent}] /\ NoArea # Delta!Absent
  BY BoundsAssumption DEF Delta!ParentInv, Delta!AreaInv, Delta!TypeOK, Delta!AreaAssumption, Delta!Absent
<1>4. /\ \A p \in Areas : v2[p] # Delta!Absent => v2'[p] = v2[p]
      /\ \A p \in Areas \ {a} : v2'[p] = v2[p]
      /\ v2'[a] \in {v2[a], NoArea}
  BY <1>2, <1>3
<1>5. Delta!Apply(s, a) => v2'[a] # Delta!Absent
  BY <1>3 DEF Delta!Apply
<1>6. Delta!Forest'
  <2>1. \A b \in Areas : Level[b] = 1 => v2'[b] \in {NoArea, Delta!Absent}
    BY <1>4 DEF Delta!ParentInv, Delta!Forest
  <2>2. QED
    BY <1>1, <2>1 DEF Delta!ParentInv, Delta!Forest
<1>7. QED
  BY <1>1, <1>4, <1>5, <1>6 DEF Delta!Stored

LEMMA ParentApply ==
  ASSUME Delta!ParentInv, NEW s \in LoneSyncs, NEW a \in Areas, Delta!Apply(s, a) \/ Delta!ApplyFails(s, a)
  PROVE  Delta!ParentInv'
<1> DEFINE t == v5'[s]
           old == v5[s]
<1>1. old.at = "listed" /\ a \in DOMAIN old.left /\ old # Delta!Idle
  BY DEF Delta!Apply, Delta!ApplyFails, Delta!Idle
<1>2. /\ Delta!AreaInv' /\ v5' = [v5 EXCEPT ![s] = t] /\ t.at = "listed" /\ t.after = old.after
      /\ t.left = Delta!Without(s, a) /\ t.parents = Delta!Mapping(s, a)
      /\ t.failed = (old.failed \/ Delta!ApplyFails(s, a))
  BY AreaApplies DEF Delta!ParentInv
<1>3. /\ DOMAIN t.left = DOMAIN old.left \ {a} /\ \A b \in DOMAIN old.left \ {a} : t.left[b] = old.left[b]
      /\ DOMAIN t.parents = DOMAIN old.parents \cup (IF old.left[a] = NoArea THEN {} ELSE {a})
      /\ a \in DOMAIN t.parents => t.parents[a] = old.left[a]
      /\ \A b \in DOMAIN old.parents : b # a /\ t.parents[b] = old.parents[b]
  <2> DEFINE l == Delta!Without(s, a)
             m == Delta!Mapping(s, a)
  <2>1. Delta!AreaInv /\ v5[s].at = "listed" /\ a \in DOMAIN v5[s].left
    BY <1>1 DEF Delta!ParentInv
  <2>2. DOMAIN l = DOMAIN old.left \ {a} /\ \A b \in DOMAIN old.left \ {a} : l[b] = old.left[b]
    BY <2>1, AreaLess
  <2>3. /\ DOMAIN m = DOMAIN old.parents \cup (IF old.left[a] = NoArea THEN {} ELSE {a})
        /\ a \in DOMAIN m => m[a] = old.left[a]
        /\ \A b \in DOMAIN old.parents : b # a /\ m[b] = old.parents[b]
    BY <2>1, AreaLess
  <2>4. t.left = l /\ t.parents = m
    BY <1>2
  <2> HIDE DEF l, m, t, old
  <2>5. QED
    BY <2>2, <2>3, <2>4
<1>4. \A q \in LoneSyncs \ {s} : v5'[q] = Delta!Idle
  BY <1>1, <1>2, ParentFacts DEF Delta!ParentInv, Delta!AreaInv
<1>5. /\ old.after <= v3 /\ \A b \in DOMAIN old.parents : Level[b] # 1
      /\ \A b \in DOMAIN old.left : Level[b] = 1 => old.left[b] = NoArea
  BY <1>1 DEF Delta!ParentInv
<1>6. \A b \in Areas : Delta!Old(b, v7) =>
        /\ b \in DOMAIN old.left => old.left[b] = v1[b].parent
        /\ b \notin DOMAIN old.left => old.failed \/ Delta!Settled(s, b)
  BY <1>1 DEF Delta!ParentInv
<1>7. \A p \in Areas : /\ ~Delta!Stored(p) /\ p \notin DOMAIN old.left
                       /\ \/ \E b \in DOMAIN old.left : old.left[b] = p
                          \/ \E b \in DOMAIN old.parents : old.parents[b] = p
                       => old.failed
  BY <1>1 DEF Delta!ParentInv
<1>8. /\ \A p \in Areas : Delta!Stored(p) => Delta!Stored(p)' /\ v2'[p] = v2[p]
      /\ \A p \in Areas \ {a} : v2'[p] = v2[p]
      /\ Delta!Apply(s, a) => Delta!Stored(a)' /\ v2'[a] \in {v2[a], NoArea}
      /\ UNCHANGED <<v1, v3, v7>> /\ Delta!Forest'
  BY ParentApplied
<1>9. Delta!Forest /\ old.failed \in BOOLEAN
  BY <1>1, AreaRun DEF Delta!ParentInv
<1>10. \A b \in Areas : Delta!Old(b, v3)' => Delta!Stored(b)' /\ v2'[b] = v1'[b].parent
  BY <1>1, <1>8, ParentFacts DEF Delta!Old
<1> HIDE DEF t, old
<1>11. t.after <= v3' /\ \A b \in DOMAIN t.parents : Level[b] # 1
  BY <1>1, <1>2, <1>3, <1>5, <1>8
<1>12. \A b \in DOMAIN t.left : Level[b] = 1 => t.left[b] = NoArea
  BY <1>3, <1>5
<1>13. ASSUME NEW b \in Areas, Delta!Old(b, v7)'
       PROVE  /\ b \in DOMAIN t.left => t.left[b] = v1'[b].parent
              /\ b \notin DOMAIN t.left => t.failed \/ Delta!Settled(s, b)'
  <2>1. Delta!Old(b, v7)
    BY <1>8, <1>13 DEF Delta!Old
  <2>2. b \in DOMAIN t.left => t.left[b] = v1'[b].parent
    BY <1>3, <1>6, <1>8, <2>1
  <2>3. ASSUME b \notin DOMAIN t.left, ~t.failed PROVE Delta!Settled(s, b)'
    <3>1. ~old.failed /\ Delta!Apply(s, a)
      BY <1>2, <1>9, <2>3
    <3>2. CASE b = a
      <4>1. old.left[a] = v1[a].parent /\ Delta!Stored(a)'
        BY <1>1, <1>6, <1>8, <2>1, <3>1, <3>2
      <4>2. CASE old.left[a] # NoArea
        <5>1. a \in DOMAIN t.parents /\ t.parents[a] = v1[a].parent
          BY <1>3, <4>1, <4>2
        <5>2. QED
          BY <1>8, <3>2, <4>1, <5>1 DEF Delta!Settled, t
      <4>3. CASE old.left[a] = NoArea
        <5>1. v1[a].day > 0 /\ NoArea \notin Areas
          BY <2>1, <3>2, BoundsAssumption DEF Delta!Old, Delta!AreaAssumption
        <5>2. Level[a] = 1
          BY <1>9, <4>1, <4>3, <5>1 DEF Delta!Forest
        <5>3. a \notin DOMAIN t.parents
          BY <1>5, <1>11, <5>2
        <5>4. v2'[a] = NoArea
          BY <1>8, <1>9, <3>1, <4>1, <5>2 DEF Delta!Forest, Delta!Stored
        <5>5. QED
          BY <1>8, <3>2, <4>1, <4>3, <5>3, <5>4 DEF Delta!Settled, t
      <4>4. QED
        BY <4>2, <4>3
    <3>3. CASE b # a
      <4>1. b \notin DOMAIN old.left
        BY <1>3, <2>3, <3>3
      <4>2. Delta!Settled(s, b)
        BY <1>6, <2>1, <3>1, <4>1
      <4>3. Delta!Stored(b) /\ IF b \in DOMAIN old.parents THEN old.parents[b] = v1[b].parent ELSE v2[b] = v1[b].parent
        BY <4>2 DEF Delta!Settled, old
      <4>4. b \in DOMAIN t.parents <=> b \in DOMAIN old.parents
        BY <1>3, <3>3
      <4>5. b \in DOMAIN old.parents => t.parents[b] = old.parents[b]
        BY <1>3
      <4>6. Delta!Stored(b)' /\ IF b \in DOMAIN t.parents THEN t.parents[b] = v1'[b].parent ELSE v2'[b] = v1'[b].parent
        BY <1>8, <4>3, <4>4, <4>5
      <4>7. QED
        BY <4>6 DEF Delta!Settled, t
    <3>4. QED
      BY <3>2, <3>3
  <2>4. QED
    BY <2>2, <2>3
<1>14. ASSUME NEW p \in Areas, ~Delta!Stored(p)', p \notin DOMAIN t.left,
              \/ \E b \in DOMAIN t.left : t.left[b] = p
              \/ \E b \in DOMAIN t.parents : t.parents[b] = p
       PROVE  t.failed
  <2>1. CASE Delta!ApplyFails(s, a)
    BY <1>2, <2>1
  <2>2. CASE Delta!Apply(s, a)
    <3>1. p # a /\ ~Delta!Stored(p) /\ p \notin DOMAIN old.left
      BY <1>3, <1>8, <1>14, <2>2
    <3>2. (\E b \in DOMAIN old.left : old.left[b] = p) \/ \E b \in DOMAIN old.parents : old.parents[b] = p
      <4>1. ASSUME NEW b \in DOMAIN t.left, t.left[b] = p PROVE \E c \in DOMAIN old.left : old.left[c] = p
        BY <1>3, <4>1
      <4>2. ASSUME NEW b \in DOMAIN t.parents, t.parents[b] = p, b = a PROVE \E c \in DOMAIN old.left : old.left[c] = p
        BY <1>1, <1>3, <4>2
      <4>3. ASSUME NEW b \in DOMAIN t.parents, t.parents[b] = p, b # a
            PROVE  \E c \in DOMAIN old.parents : old.parents[c] = p
        BY <1>3, <4>3
      <4>4. QED
        BY <1>14, <4>1, <4>2, <4>3
    <3>3. old.failed
      BY <1>7, <3>1, <3>2
    <3>4. QED
      BY <1>2, <3>3
  <2>3. QED
    BY <2>1, <2>2
<1>15. v5'[s].at = "listed" /\ v5'[s] = t
  BY <1>2 DEF t
<1>16. QED
  BY <1>2, <1>4, <1>8, <1>10, <1>11, <1>12, <1>13, <1>14, <1>15, ParentRow

\* Without an error all that was listed is settled when the success is registered.
LEMMA ParentFinish ==
  ASSUME Delta!ParentInv, NEW s \in LoneSyncs, Delta!Finish(s)
  PROVE  Delta!ParentInv'
<1> DEFINE old == v5[s]
           t == v5'[s]
<1>1. old.at = "listed" /\ DOMAIN old.left = {} /\ UNCHANGED <<v1, v2, v7>>
  BY DEF Delta!Finish
<1>2. /\ old # Delta!Idle /\ old \in Delta!Runs(DOMAIN old.left, DOMAIN old.parents) /\ old.after \in Nat
      /\ old.parents \in [DOMAIN old.parents -> Areas]
  BY <1>1, AreaRun DEF Delta!ParentInv
<1>3. \A q \in LoneSyncs \ {s} : v5[q] = Delta!Idle
  BY <1>2, ParentFacts
<1>4. Delta!AreaInv' /\ v5 = [q \in LoneSyncs |-> v5[q]]
  BY AreaFinishes DEF Delta!ParentInv, Delta!AreaInv
<1>5. CASE old.failed
  <2>1. v5' = [v5 EXCEPT ![s] = Delta!Idle] /\ UNCHANGED v3
    BY <1>5 DEF Delta!Finish
  <2>2. t = Delta!Idle /\ t.at = "idle"
    BY <1>4, <2>1 DEF Delta!Idle
  <2>3. QED
    BY <1>1, <1>3, <1>4, <2>1, <2>2, ParentQuiet
<1>6. CASE ~old.failed
  <2>1. v5' = [v5 EXCEPT ![s] = [old EXCEPT !.at = "parents"]] /\ v3' = v7
    BY <1>6 DEF Delta!Finish
  <2>2. t = [old EXCEPT !.at = "parents"] /\ \A q \in LoneSyncs \ {s} : v5'[q] = Delta!Idle
    BY <1>3, <1>4, <2>1
  <2>3. t.at = "parents" /\ t.after = old.after /\ t.parents = old.parents
    BY <1>2, <2>2 DEF Delta!Runs
  <2>4. old.after <= v3 /\ \A b \in DOMAIN old.parents : Level[b] # 1
    BY <1>2 DEF Delta!ParentInv
  <2>5. old.after <= v7
    BY <1>2, <2>4 DEF Delta!ParentInv, Delta!AreaInv, Delta!TypeOK
  <2>6. ASSUME NEW a \in Areas, Delta!Old(a, v3)' PROVE Delta!Settled(s, a)' /\ Delta!Stored(a)'
    <3>1. Delta!Old(a, v7)
      BY <1>1, <2>1, <2>6 DEF Delta!Old
    <3>2. Delta!Settled(s, a)
      BY <1>1, <1>6, <3>1 DEF Delta!ParentInv
    <3>3. v5'[s].parents = v5[s].parents
      BY <2>3
    <3>4. QED
      BY <1>1, <3>2, <3>3 DEF Delta!Settled, Delta!Stored
  <2>7. \A a \in DOMAIN v5'[s].parents : Delta!Stored(v5[s].parents[a])'
    <3>1. \A a \in DOMAIN old.parents : Delta!Stored(old.parents[a])
      BY <1>1, <1>2, <1>6 DEF Delta!ParentInv
    <3>2. QED
      BY <1>1, <2>3, <3>1 DEF Delta!Stored
  <2>8. Delta!Forest'
    BY <1>1 DEF Delta!ParentInv, Delta!Forest
  <2>9. v5'[s].after <= v3' /\ (\A b \in DOMAIN v5'[s].parents : Level[b] # 1) /\ v5'[s].at = "parents"
    BY <2>1, <2>3, <2>4, <2>5
  <2> HIDE DEF old, t
  <2>10. QED
    BY <1>4, <2>2, <2>6, <2>7, <2>8, <2>9, ParentRow
<1>7. QED
  BY <1>5, <1>6

\* The parents that were to be set are set.
LEMMA ParentAssign ==
  ASSUME Delta!ParentInv, NEW s \in LoneSyncs, Delta!AssignParents(s)
  PROVE  Delta!ParentInv'
<1> DEFINE m == v5[s].parents
<1>1. /\ v5[s].at = "parents" /\ v5' = [v5 EXCEPT ![s] = Delta!Idle] /\ UNCHANGED <<v1, v3, v7>>
  BY DEF Delta!AssignParents
<1>2. /\ Delta!AreaInv'
      /\ \A a \in Areas : v2'[a] = IF /\ a \in DOMAIN m
                                      /\ Delta!Absent \notin {v2[a], v2[m[a]]}
                                   THEN m[a] ELSE v2[a]
      /\ \A a \in DOMAIN m : m[a] \in Areas
  BY AreaAssigns DEF Delta!ParentInv
<1>3. v5[s] # Delta!Idle
  BY <1>1 DEF Delta!Idle
<1>4. /\ v5'[s] = Delta!Idle /\ \A q \in LoneSyncs \ {s} : v5'[q] = Delta!Idle
  BY <1>1, <1>3, ParentFacts DEF Delta!ParentInv, Delta!AreaInv
<1>5. /\ \A a \in DOMAIN m : Level[a] # 1 /\ Delta!Stored(m[a])
      /\ \A a \in Areas : Delta!Old(a, v3) => Delta!Settled(s, a)
  BY <1>1, <1>3 DEF Delta!ParentInv
<1>6. \A a \in Areas : Delta!Old(a, v3)' => Delta!Stored(a)' /\ v2'[a] = v1'[a].parent
  <2> SUFFICES ASSUME NEW a \in Areas, Delta!Old(a, v3)' PROVE Delta!Stored(a)' /\ v2'[a] = v1'[a].parent
    OBVIOUS
  <2>1. Delta!Settled(s, a)
    BY <1>1, <1>5 DEF Delta!Old
  <2>2. v2[a] # Delta!Absent /\ IF a \in DOMAIN m THEN m[a] = v1[a].parent ELSE v2[a] = v1[a].parent
    BY <2>1 DEF Delta!Settled, Delta!Stored
  <2>3. a \in DOMAIN m => v2[m[a]] # Delta!Absent /\ m[a] # Delta!Absent
    BY <1>2, <1>5, BoundsAssumption DEF Delta!Stored, Delta!AreaAssumption, Delta!Absent
  <2>4. v2'[a] = v1[a].parent /\ v2'[a] # Delta!Absent
    BY <1>2, <2>2, <2>3
  <2>5. QED
    BY <1>1, <2>4 DEF Delta!Stored
<1>7. Delta!Forest'
  <2>1. \A a \in Areas : Level[a] = 1 => v2'[a] = v2[a]
    BY <1>2, <1>5
  <2>2. QED
    BY <1>1, <2>1 DEF Delta!ParentInv, Delta!Forest
<1>8. v5'[s].at = "idle"
  BY <1>4 DEF Delta!Idle
<1>9. QED
  BY <1>2, <1>4, <1>6, <1>7, <1>8, ParentRow

\* HOPE does not answer, or the worker is killed before the parents are to be set.
LEMMA ParentFault ==
  ASSUME Delta!ParentInv, NEW s \in LoneSyncs, Delta!FetchFails(s) \/ Delta!Kill(s)
  PROVE  Delta!ParentInv'
<1>1. /\ v5' = [v5 EXCEPT ![s] = Delta!Idle] /\ UNCHANGED <<v1, v2, v3, v7>>
      /\ v5[s].at \in {"waiting", "locked", "listed"}
  BY DEF Delta!FetchFails, Delta!Kill
<1>2. v5[s] # Delta!Idle
  BY <1>1 DEF Delta!Idle
<1>3. v5'[s] = Delta!Idle /\ v5'[s].at = "idle" /\ Delta!AreaInv'
  BY <1>1, AreaFaults DEF Delta!ParentInv, Delta!AreaInv, Delta!Idle
<1>4. QED
  BY <1>1, <1>2, <1>3, ParentFacts, ParentQuiet

\* What HOPE changes today no success has covered yet.
LEMMA ParentChange ==
  ASSUME Delta!ParentInv, NEW a \in Areas, NEW p \in Areas \cup {NoArea}, Delta!Change(a, p)
  PROVE  Delta!ParentInv'
<1>1. /\ UNCHANGED <<v2, v3, v5, v7>> /\ v1' = [v1 EXCEPT ![a] = [parent |-> p, day |-> v7]]
      /\ IF p = NoArea THEN Level[a] = 1 ELSE v1[p].day > 0 /\ Level[p] = Level[a] - 1
  BY DEF Delta!Change
<1>2. /\ v1 \in [Areas -> [parent : Areas \cup {NoArea}, day : Nat]] /\ v7 \in Nat \ {0} /\ v3 \in 0..v7
      /\ Delta!Forest
  BY DEF Delta!ParentInv, Delta!AreaInv, Delta!TypeOK
<1>3. /\ v1'[a].parent = p /\ v1'[a].day = v7 /\ \A b \in Areas \ {a} : v1'[b] = v1[b]
  BY <1>1, <1>2
<1>4. \A b \in Areas : Level[b] \in Nat \ {0} /\ b # NoArea
  BY BoundsAssumption DEF Delta!AreaAssumption
<1>5. /\ Level[a] = 1 => p = NoArea
      /\ Level[a] # 1 => p \in Areas /\ v1[p].day > 0
  BY <1>1, <1>4
<1>6. \A b \in Areas : v1[b].day > 0 => v1'[b].day > 0
  BY <1>2, <1>3
<1>7. Delta!Forest'
  <2>1. \A b \in Areas : v1'[b].day <= v7'
    BY <1>1, <1>2, <1>3 DEF Delta!Forest
  <2>2. \A b \in Areas : Level[b] = 1 => v1'[b].parent = NoArea /\ v2'[b] \in {NoArea, Delta!Absent}
    BY <1>1, <1>2, <1>3, <1>5 DEF Delta!Forest
  <2>3. \A b \in Areas : Level[b] # 1 /\ v1'[b].day > 0 => v1'[b].parent \in Areas /\ v1'[v1'[b].parent].day > 0
    BY <1>2, <1>3, <1>5, <1>6 DEF Delta!Forest
  <2>4. QED
    BY <2>1, <2>2, <2>3 DEF Delta!Forest
<1>8. \A b \in Areas : \A d \in {v3, v7} : b \in Areas /\ v1'[b].day \in 1..(d - 1) => b # a
  BY <1>2, <1>3
<1>9. \A b \in Areas : /\ Delta!Old(b, v3)' => Delta!Old(b, v3) /\ v1'[b] = v1[b]
                       /\ Delta!Old(b, v7)' => Delta!Old(b, v7) /\ v1'[b] = v1[b]
  BY <1>1, <1>3, <1>8 DEF Delta!Old
<1>10. \A s \in LoneSyncs : \A b \in Areas : v1'[b] = v1[b] /\ Delta!Settled(s, b) => Delta!Settled(s, b)'
  BY <1>1 DEF Delta!Settled, Delta!Stored
<1>11. \A b : Delta!Stored(b)' <=> Delta!Stored(b)
  BY <1>1 DEF Delta!Stored
<1>12. Delta!AreaInv'
  BY AreaOutside DEF Delta!ParentInv
<1>13. QED
  BY <1>1, <1>7, <1>9, <1>10, <1>11, <1>12 DEF Delta!ParentInv

LEMMA ParentOutside ==
  ASSUME Delta!ParentInv, (\E l \in Delta!Levels : Delta!ReadChoices(l) \/ Delta!Expire(l)) \/ Delta!NextDay
  PROVE  Delta!ParentInv'
<1>1. UNCHANGED <<v1, v2, v3, v5>> /\ v7' \in {v7, v7 + 1}
  BY DEF Delta!ReadChoices, Delta!Expire, Delta!NextDay
<1>2. v7' = v7 \/ \A s \in LoneSyncs : v5[s].at # "listed"
  BY DEF Delta!ReadChoices, Delta!Expire, Delta!NextDay
<1>3. Delta!AreaInv' /\ v7 \in Nat /\ \A a \in Areas : v1[a].day \in Nat
  BY AreaOutside DEF Delta!ParentInv, Delta!AreaInv, Delta!TypeOK
<1>4. Delta!Forest'
  BY <1>1, <1>3 DEF Delta!ParentInv, Delta!Forest
<1>5. \A a : Delta!Stored(a)' <=> Delta!Stored(a)
  BY <1>1 DEF Delta!Stored
<1>6. \A a : Delta!Old(a, v3)' <=> Delta!Old(a, v3)
  BY <1>1 DEF Delta!Old
<1>7. \A s, a : Delta!Settled(s, a)' <=> Delta!Settled(s, a)
  BY <1>1 DEF Delta!Settled, Delta!Stored
<1>8. \A a : v7' = v7 => (Delta!Old(a, v7)' <=> Delta!Old(a, v7))
  BY <1>1 DEF Delta!Old
<1>9. QED
  BY <1>1, <1>2, <1>3, <1>4, <1>5, <1>6, <1>7, <1>8 DEF Delta!ParentInv

LEMMA ParentNext ==
  ASSUME Delta!ParentInv, [Delta!Next]_(Delta!vars)
  PROVE  Delta!ParentInv'
<1>1. CASE UNCHANGED Delta!vars
  <2>1. UNCHANGED <<v1, v2, v3, v4, v5, v6, v7, v8, v9, v10>>
    BY <1>1 DEF Delta!vars
  <2>2. QED
    BY <2>1 DEF Delta!ParentInv, Delta!AreaInv, Delta!TypeOK, Delta!Forest, Delta!Old, Delta!Stored, Delta!Settled
<1>2. CASE Delta!Next
  BY <1>2, ParentBegin, ParentAcquire, ParentFetch, ParentApply, ParentFinish, ParentAssign, ParentFault,
    ParentChange, ParentOutside DEF Delta!Next, Delta!Step, Delta!Fault
<1>3. QED
  BY <1>1, <1>2

LEMMA ParentBegins ==
  ASSUME Delta!Init
  PROVE  Delta!ParentInv
<1>1. Delta!AreaInv
  BY AreaBegins
<1>2. /\ v7 = 1 /\ v3 = 0 /\ v5 = [s \in LoneSyncs |-> Delta!Idle]
      /\ v1 = [a \in Areas |-> [parent |-> NoArea, day |-> 0]] /\ v2 = [a \in Areas |-> Delta!Absent]
  BY DEF Delta!Init
<1>3. Delta!Forest
  BY <1>2 DEF Delta!Forest
<1>4. \A a \in Areas : ~Delta!Old(a, v3)
  BY <1>2 DEF Delta!Old
<1>5. QED
  BY <1>1, <1>2, <1>3, <1>4 DEF Delta!ParentInv, Delta!Idle

\* While none runs the parents are as in HOPE.
LEMMA ParentTells == Delta!ParentInv => Delta!ParentsKeptUp
BY DEF Delta!ParentInv, Delta!ParentsKeptUp, Delta!Old, Delta!Idle

\* A parent is only ever replaced by another.
LEMMA OverlapOrphans ==
  ASSUME Overlaps!AreaInv, [Overlaps!Next]_(Overlaps!vars)
  PROVE  Overlaps!NeverOrphaned
<1> SUFFICES ASSUME NEW a \in Areas, v2[a] \in Areas PROVE v2'[a] \in Areas
  BY DEF Overlaps!NeverOrphaned
<1>1. v2[a] # Overlaps!Absent
  BY BoundsAssumption DEF Overlaps!AreaAssumption, Overlaps!Absent
<1>2. ASSUME NEW s \in Syncs, NEW b \in Areas, Overlaps!Apply(s, b) PROVE v2'[a] \in Areas
  BY <1>1, <1>2 DEF Overlaps!Apply, Overlaps!AreaInv, Overlaps!TypeOK
<1>3. ASSUME NEW s \in Syncs, Overlaps!AssignParents(s) PROVE v2'[a] \in Areas
  BY <1>3, OverlapAssigns
<1>4. CASE UNCHANGED v2
  BY <1>4
<1>5. QED
  BY <1>2, <1>3, <1>4 DEF Overlaps!Next, Overlaps!Step, Overlaps!Fault, Overlaps!Begin, Overlaps!Acquire,
    Overlaps!Fetch, Overlaps!Finish, Overlaps!FetchFails, Overlaps!Kill, Overlaps!ApplyFails,
    Overlaps!ReadChoices, Overlaps!Expire, Overlaps!Change, Overlaps!NextDay, Overlaps!vars

-----------------------------------------------------------------------------
SyncsInv ==
  /\ In("Sync") => Sync!MissInv
  /\ In("SyncAll") => SyncAll!SyncInv /\ SyncAll!ProgramsHaveOffices
  /\ In("Delta") => Delta!ParentInv
  /\ In("Overlaps") => Overlaps!AreaInv

LEMMA InitSyncs == InitAll => SyncsInv
BY MissStarts, RefAllInit, OfficesStart, ParentBegins, OverlapBegins
  DEF InitAll, SyncsInv, In, JobGroupsInit, CleanupInit, ConfigInit, AloneInit, CacheInit,
  CacheCalmInit, SyncInit, SyncAllInit, DeltaInit, OverlapsInit, UpInit, DownInit, ScriptsInit

\* A change of HOPE that a synchronisation missed is listed by the next one (SyncLog), a
\* program that is stored has its office, and an area that has a parent keeps one: the one
\* HOPE gave it, once no synchronisation runs (sync_admin_areas).
THEOREM SyncsStayComplete == SpecAll => SyncsMissNothing
<1>1. SyncsInv /\ [NextAll]_all => SyncsInv'
  BY StepOfComponent, MissNext, RefAllTypes, OfficesStep, ParentNext, OverlapTypes DEF SyncsInv, In
<1>2. SyncsInv => /\ In("Sync") => Sync!NextDeltaFetches
                  /\ In("SyncAll") => SyncAll!ProgramsHaveOffices
                  /\ In("Delta") => Delta!ParentsKeptUp
  BY ParentTells DEF SyncsInv, Sync!MissInv, Sync!NextDeltaFetches
<1>3. SyncsInv /\ [NextAll]_all => [In("Overlaps") => Overlaps!NeverOrphaned]_all
  BY StepOfComponent, OverlapOrphans DEF SyncsInv
<1>4. QED
  BY InitSyncs, <1>1, <1>2, <1>3, PTL DEF SpecAll, SyncsMissNothing

-----------------------------------------------------------------------------
(* Versioning: commands that go up, and one at a time that may go down.    *)

\* A part of the scripts that is not empty has a first and a last.
LEMMA FirstOf ==
  ASSUME NEW S \in SUBSET Nat, S # {}
  PROVE  \E m \in S : \A x \in S : m <= x
<1> DEFINE Rel == OpToRel(<, Nat)
<1>1. IsWellFoundedOn(Rel, Nat)
  BY NatLessThanWellFounded
<1>2. PICK m \in S : \A u \in S : ~(<<u, m>> \in Rel)
  BY <1>1, WFMin
<1>3. \A u \in S : ~(u < m)
  BY <1>2 DEF OpToRel
<1>4. QED
  BY <1>3

LEMMA LastOf ==
  ASSUME NEW n \in Nat, NEW S \in SUBSET (0..n), S # {}
  PROVE  \E m \in S : \A x \in S : m >= x
<1> DEFINE T == {n - x : x \in S}
<1>1. T \in SUBSET Nat /\ T # {}
  <2>1. \A x \in S : n - x \in Nat
    OBVIOUS
  <2>2. \A u \in T : \E x \in S : u = n - x
    OBVIOUS
  <2>3. PICK x \in S : TRUE
    OBVIOUS
  <2>4. n - x \in T
    OBVIOUS
  <2>5. QED
    BY <2>1, <2>2, <2>4
<1>2. PICK t \in T : \A u \in T : t <= u
  BY <1>1, FirstOf
<1>3. PICK m \in S : t = n - m
  OBVIOUS
<1>4. \A x \in S : n - m <= n - x
  BY <1>2, <1>3
<1>5. \A x \in S : m >= x
  BY <1>4
<1>6. QED
  BY <1>5

LEMMA UpPicks ==
  ASSUME NEW S \in SUBSET Up!Scripts, S # {}
  PROVE  /\ Up!Min(S) \in S /\ \A x \in S : Up!Min(S) <= x
         /\ Up!Max(S) \in S
<1>1. N \in Nat
  BY BoundsAssumption DEF Up!VersionAssumption
<1>2. S \in SUBSET Nat /\ S \in SUBSET (0..N)
  BY <1>1 DEF Up!Scripts
<1>3. \E m \in S : \A x \in S : m <= x
  BY <1>2, FirstOf
<1>4. \E m \in S : \A x \in S : m >= x
  BY <1>1, <1>2, LastOf
<1>5. QED
  BY <1>3, <1>4 DEF Up!Min, Up!Max

LEMMA UpHighest ==
  ASSUME NEW S \in SUBSET Up!Scripts
  PROVE  Up!Highest(S) \in Nat
<1> DEFINE T == {Num[s] : s \in S} \cup {0}
<1>1. /\ N \in Nat \ {0} /\ Num \in [1..N -> Nat \ {0}] /\ \A s \in 1..N : s < N => Num[s] <= Num[N]
  BY BoundsAssumption DEF Up!VersionAssumption, Up!Scripts
<1>2. N \in 1..N /\ Num[N] \in Nat
  BY <1>1
<1>3. \A s \in 1..N : Num[s] \in 0..Num[N]
  BY <1>1, <1>2
<1>4. T \in SUBSET (0..Num[N]) /\ T # {}
  BY <1>2, <1>3 DEF Up!Scripts
<1> HIDE DEF T
<1>5. \E m \in T : \A x \in T : m >= x
  BY <1>2, <1>4, LastOf
<1>6. Up!Max(T) \in T
  BY <1>5 DEF Up!Max
<1>7. Up!Highest(S) = Up!Max(T)
  BY DEF Up!Highest, T
<1>8. Up!Max(T) \in 0..Num[N]
  BY <1>4, <1>6
<1>9. QED
  BY <1>2, <1>7, <1>8

LEMMA UpProc ==
  ASSUME Up!VersionInv, NEW p \in Deployers, v4[p].at \in {"pick", "run", "record"}
  PROVE  /\ v4[p] # Up!Idle /\ v4[p] \in Up!Runs /\ v4[p].todo \subseteq v1 /\ v4[p].todo \subseteq Up!Scripts
         /\ Up!AtScript(p) => v4[p].script \in v1 /\ v4[p].script \in Up!Scripts /\ v4[p].op \in Up!Ops
<1>1. v4[p] # Up!Idle
  BY DEF Up!Idle
<1>2. QED
  BY <1>1 DEF Up!VersionInv, Up!TypeOK, Up!Runs

\* What a command does keeps the types when its own row does.
LEMMA UpRow ==
  ASSUME Up!VersionInv, NEW p \in Deployers, NEW t, v4' = [v4 EXCEPT ![p] = t],
         \/ t = Up!Idle
         \/ /\ t \in Up!Runs /\ t.todo \subseteq v1
            /\ t.at \in {"run", "record"} => t.script \in v1 /\ t.op \in Up!Ops,
         v1' = v1, v2' \subseteq v1, v3' \in [Up!Scripts -> [Up!Ops -> Nat]],
         v5' \in 0..0, v6' \in 0..MaxFaults
  PROVE  Up!VersionInv'
<1>1. v4' \in [Deployers -> {Up!Idle} \cup Up!Runs] /\ \A q \in Deployers : v4'[q] = IF q = p THEN t ELSE v4[q]
  BY DEF Up!VersionInv
<1>2. \A q \in Deployers : v4'[q] # Up!Idle => v4'[q].todo \subseteq v1'
  BY <1>1 DEF Up!VersionInv
<1>3. Up!Idle.at = "idle"
  BY DEF Up!Idle
<1>4. \A q \in Deployers : v4'[q].at \in {"run", "record"} => v4'[q].script \in v1' /\ v4'[q].op \in Up!Ops
  BY <1>1, <1>3 DEF Up!VersionInv, Up!AtScript
<1>5. Up!TypeOK'
  BY <1>4 DEF Up!VersionInv, Up!TypeOK
<1>6. QED
  BY <1>1, <1>2, <1>4, <1>5 DEF Up!VersionInv, Up!AtScript

\* A command starts with the rows and the files there are.
LEMMA UpStart ==
  ASSUME Up!VersionInv, NEW p \in Deployers, NEW n \in Up!Numbers, NEW fake \in BOOLEAN, Up!Start(p, n, fake)
  PROVE  /\ Up!VersionInv' /\ v4[p] = Up!Idle /\ UNCHANGED <<v1, v2, v3>>
         /\ v4' = [v4 EXCEPT ![p] = v4'[p]] /\ v4'[p] \in Up!Runs /\ v4'[p].at = "pick" /\ v4'[p].rows = v2
         /\ v4'[p].todo = IF v4'[p].up THEN v1 ELSE v2
         /\ ~v4'[p].up => v5 < 0
<1> DEFINE up == n >= Up!Highest(v2)
           to == IF up THEN Up!Goal(n) ELSE n
           t == [at |-> "pick", up |-> up, to |-> to, fake |-> fake, script |-> 0, op |-> 0,
                 rows |-> v2, todo |-> IF up THEN v1 ELSE v2]
<1>1. /\ v4[p] = Up!Idle /\ UNCHANGED <<v1, v2, v3, v6>> /\ v4' = [v4 EXCEPT ![p] = t]
      /\ (up \/ v5 < 0) /\ v5' = IF up THEN v5 ELSE v5 + 1
  BY DEF Up!Start
<1>2. /\ v1 \subseteq Up!Scripts /\ v2 \subseteq v1 /\ v5 \in 0..0 /\ v6 \in 0..MaxFaults /\ v4 = [q \in Deployers |-> v4[q]]
      /\ v3 \in [Up!Scripts -> [Up!Ops -> Nat]]
  BY DEF Up!VersionInv, Up!TypeOK
<1>3. n \in Nat /\ 0 \in Nat
  BY BoundsAssumption DEF Up!VersionAssumption, Up!Numbers
<1>4. to \in Nat
  BY <1>2, <1>3, UpHighest DEF Up!Goal
<1>5. up \in BOOLEAN
  OBVIOUS
<1>6. v4'[p] = t
  BY <1>1, <1>2
<1>7. v5' \in 0..0
  BY <1>1, <1>2, <1>3
<1> HIDE DEF up, to
<1>8. /\ t \in Up!Runs /\ t.at = "pick" /\ t.rows = v2 /\ t.todo = (IF up THEN v1 ELSE v2) /\ t.todo \subseteq v1
  BY <1>2, <1>4, <1>5 DEF Up!Runs
<1>9. t.up <=> up
  BY Zenon
<1> HIDE DEF t
<1>10. Up!VersionInv'
  BY <1>1, <1>2, <1>7, <1>8, UpRow
<1>11. QED
  BY <1>1, <1>6, <1>8, <1>9, <1>10

\* The next file is skipped, or is the script that is run.
LEMMA UpPick ==
  ASSUME Up!VersionInv, NEW p \in Deployers, Up!Pick(p)
  PROVE  /\ Up!VersionInv' /\ UNCHANGED <<v1, v2, v3>> /\ v4' = [v4 EXCEPT ![p] = v4'[p]] /\ v4'[p] \in Up!Runs
         /\ v4[p].at = "pick" /\ v4'[p].up = v4[p].up /\ v4'[p].rows = v4[p].rows
         /\ Up!NextFile(p) \in v4[p].todo /\ v4'[p].todo = v4[p].todo \ {Up!NextFile(p)}
         /\ v4[p].up => \A t \in v4[p].todo : Up!NextFile(p) <= t
         /\ \/ v4'[p].at = "pick" /\ v4[p].up /\ Up!NextFile(p) \in v4[p].rows
            \/ /\ v4'[p].at = "run" /\ v4'[p].script = Up!NextFile(p) /\ v4'[p].op = 1
               /\ v4[p].up => Up!NextFile(p) \notin v4[p].rows
<1> DEFINE f == Up!NextFile(p)
           old == v4[p]
           t == v4'[p]
           rest == [old EXCEPT !.todo = @ \ {f}]
<1>1. /\ old.at = "pick" /\ old.todo # {} /\ UNCHANGED <<v1, v2, v3, v5, v6>>
      /\ v4' = [v4 EXCEPT ![p] = IF Up!ToRun(p) THEN [rest EXCEPT !.at = "run", !.script = f, !.op = 1] ELSE rest]
  BY DEF Up!Pick, Up!Over
<1>2. /\ old \in Up!Runs /\ old.todo \subseteq v1 /\ old.todo \subseteq Up!Scripts
  BY <1>1, UpProc
<1>3. /\ v1 \subseteq Up!Scripts /\ v2 \subseteq v1 /\ v5 \in 0..0 /\ v6 \in 0..MaxFaults /\ v4 = [q \in Deployers |-> v4[q]]
      /\ v3 \in [Up!Scripts -> [Up!Ops -> Nat]]
  BY DEF Up!VersionInv, Up!TypeOK
<1>4. f \in old.todo /\ (old.up => \A s \in old.todo : f <= s)
  BY <1>1, <1>2, UpPicks DEF Up!NextFile
<1>5. t = IF Up!ToRun(p) THEN [rest EXCEPT !.at = "run", !.script = f, !.op = 1] ELSE rest
  BY <1>1, <1>3
<1>6. Up!ToRun(p) <=> (old.up => f \notin old.rows)
  BY DEF Up!ToRun
<1>7. v4' = [v4 EXCEPT ![p] = t]
  BY <1>1, <1>5
<1> HIDE DEF f, old
<1>8. /\ rest \in Up!Runs /\ rest.at = "pick" /\ rest.up = old.up /\ rest.rows = old.rows
      /\ rest.todo = old.todo \ {f}
  BY <1>1, <1>2 DEF Up!Runs
<1> HIDE DEF rest, t
<1>9. CASE Up!ToRun(p)
  <2>1. t = [rest EXCEPT !.at = "run", !.script = f, !.op = 1]
    BY <1>5, <1>9
  <2>2. /\ t \in Up!Runs /\ t.at = "run" /\ t.script = f /\ t.op = 1 /\ t.up = rest.up /\ t.rows = rest.rows
        /\ t.todo = rest.todo
    <3>1. f \in Up!Scripts /\ 1 \in Up!Ops
      BY <1>2, <1>4 DEF Up!Ops
    <3>2. t \in Up!Runs
      BY <1>8, <2>1, <3>1 DEF Up!Runs
    <3>3. /\ t.at = "run" /\ t.script = f /\ t.op = 1 /\ t.rows = rest.rows /\ t.todo = rest.todo
      BY <1>8, <2>1 DEF Up!Runs
    <3>4. t.up = rest.up
      BY <1>8, <2>1 DEF Up!Runs
    <3>5. QED
      BY <3>2, <3>3, <3>4
  <2>3. t.op \in Up!Ops /\ t.script \in v1 /\ t.todo \subseteq v1
    BY <1>2, <1>4, <1>8, <2>2 DEF Up!Ops
  <2>4. Up!VersionInv'
    BY <1>1, <1>3, <1>7, <2>2, <2>3, UpRow
  <2>5. t.up = old.up /\ t.rows = old.rows /\ t.todo = old.todo \ {f} /\ (old.up => f \notin old.rows)
    BY <1>6, <1>8, <1>9, <2>2
  <2>6. QED
    BY <1>1, <1>4, <1>7, <2>2, <2>4, <2>5 DEF t, old, f
<1>10. CASE ~Up!ToRun(p)
  <2>1. t = rest
    BY <1>5, <1>10
  <2>2. Up!VersionInv'
    BY <1>1, <1>2, <1>3, <1>7, <1>8, <2>1, UpRow
  <2>3. old.up /\ f \in old.rows
    BY <1>6, <1>10
  <2>4. t \in Up!Runs /\ t.at = "pick" /\ t.up = old.up /\ t.rows = old.rows /\ t.todo = old.todo \ {f}
    BY <1>8, <2>1
  <2>5. QED
    BY <1>1, <1>4, <1>7, <2>2, <2>3, <2>4 DEF t, old, f
<1>11. QED
  BY <1>9, <1>10

\* One operation is run, and after the last one the script is to be recorded.
LEMMA UpRuns ==
  ASSUME Up!VersionInv, NEW p \in Deployers, Up!Run(p)
  PROVE  /\ Up!VersionInv' /\ UNCHANGED <<v1, v2>> /\ v4' = [v4 EXCEPT ![p] = v4'[p]] /\ v4'[p] \in Up!Runs
         /\ v4[p].at = "run" /\ v4'[p].up = v4[p].up /\ v4'[p].rows = v4[p].rows
         /\ v4'[p].todo = v4[p].todo /\ v4'[p].script = v4[p].script
         /\ v4[p].op \in 1..2 /\ v4'[p].op \in 1..2
         /\ IF v4[p].op = 1 THEN v4'[p].at = "run" /\ v4'[p].op = 2 ELSE v4'[p].at = "record"
         /\ \A s \in Up!Scripts : \A k \in Up!Ops : v3'[s][k] =
              IF s = v4[p].script /\ k = v4[p].op
              THEN IF v4[p].up THEN v3[s][k] + 1 ELSE Up!Undone(s, v3[s][k])
              ELSE v3[s][k]
<1> DEFINE old == v4[p]
           t == v4'[p]
           s0 == old.script
           k0 == old.op
           n0 == IF old.up THEN v3[s0][k0] + 1 ELSE Up!Undone(s0, v3[s0][k0])
<1>1. /\ old.at = "run" /\ UNCHANGED <<v1, v2, v5, v6>>
      /\ v4' = [v4 EXCEPT ![p] = IF old.op \in Up!Ops \ {Up!Max(Up!Ops)} THEN [old EXCEPT !.op = old.op + 1]
                                 ELSE [old EXCEPT !.at = "record"]]
      /\ v3' = [v3 EXCEPT ![s0] = [v3[s0] EXCEPT ![k0] = n0]]
  <2>1. Up!Ran(p) = [v3 EXCEPT ![s0] = [v3[s0] EXCEPT ![k0] = n0]]
    BY DEF Up!Ran
  <2>2. v3' = Up!Ran(p)
    BY DEF Up!Run
  <2>3. /\ old.at = "run" /\ UNCHANGED <<v1, v2, v5, v6>>
        /\ v4' = [v4 EXCEPT ![p] = IF old.op \in Up!Ops \ {Up!Max(Up!Ops)} THEN [old EXCEPT !.op = old.op + 1]
                                   ELSE [old EXCEPT !.at = "record"]]
    BY DEF Up!Run
  <2> HIDE DEF n0, s0, k0, old
  <2>4. QED
    BY <2>1, <2>2, <2>3
<1>2. /\ old \in Up!Runs /\ old.todo \subseteq v1 /\ old.script \in v1 /\ old.script \in Up!Scripts
      /\ old.op \in Up!Ops
  BY <1>1, UpProc DEF Up!AtScript
<1>3. /\ v2 \subseteq v1 /\ v5 \in 0..0 /\ v6 \in 0..MaxFaults /\ v4 = [q \in Deployers |-> v4[q]]
      /\ v3 \in [Up!Scripts -> [Up!Ops -> Nat]]
  BY DEF Up!VersionInv, Up!TypeOK
<1>4. Up!Ops = 1..2 /\ Up!Max(Up!Ops) = 2
  BY DEF Up!Ops, Up!Max
<1>5. n0 \in Nat
  <2>1. v3[s0][k0] \in Nat
    BY <1>2, <1>3
  <2> HIDE DEF s0, k0
  <2>2. QED
    BY <2>1 DEF Up!Undone
<1>6. t = IF old.op = 1 THEN [old EXCEPT !.op = 2] ELSE [old EXCEPT !.at = "record"]
  BY <1>1, <1>2, <1>3, <1>4
<1>7. v4' = [v4 EXCEPT ![p] = t]
  BY <1>1, <1>3
<1> HIDE DEF n0
<1>8. v3' \in [Up!Scripts -> [Up!Ops -> Nat]]
  BY <1>1, <1>2, <1>3, <1>5
<1>9. \A s \in Up!Scripts : \A k \in Up!Ops : v3'[s][k] = IF s = s0 /\ k = k0 THEN n0 ELSE v3[s][k]
  BY <1>1, <1>2, <1>3
<1>10. \A s \in Up!Scripts : \A k \in Up!Ops : v3'[s][k] =
         IF s = s0 /\ k = k0 THEN IF old.up THEN v3[s][k] + 1 ELSE Up!Undone(s, v3[s][k]) ELSE v3[s][k]
  BY <1>9 DEF n0
<1> HIDE DEF t, old
<1>11. /\ t \in Up!Runs /\ t.up = old.up /\ t.rows = old.rows /\ t.todo = old.todo /\ t.script = old.script
       /\ old.op \in 1..2 /\ t.op \in 1..2
       /\ IF old.op = 1 THEN t.at = "run" /\ t.op = 2 ELSE t.at = "record"
  <2>1. CASE old.op = 1
    <3>1. t = [old EXCEPT !.op = 2]
      BY <1>6, <2>1
    <3>2. QED
      BY <1>1, <1>2, <1>4, <2>1, <3>1 DEF Up!Runs
  <2>2. CASE old.op # 1
    <3>1. t = [old EXCEPT !.at = "record"]
      BY <1>6, <2>2
    <3>2. QED
      BY <1>2, <1>4, <2>2, <3>1 DEF Up!Runs
  <2>3. QED
    BY <2>1, <2>2
<1>12. Up!VersionInv'
  BY <1>1, <1>2, <1>3, <1>4, <1>7, <1>8, <1>11, UpRow
<1>13. QED
  BY <1>1, <1>7, <1>10, <1>11, <1>12 DEF t, old

\* A script is recorded, or its row taken out; who comes second halts.
LEMMA UpRecord ==
  ASSUME Up!VersionInv, NEW p \in Deployers, Up!Record(p)
  PROVE  /\ Up!VersionInv' /\ v4[p].at = "record" /\ UNCHANGED <<v1, v3>> /\ v4' = [v4 EXCEPT ![p] = v4'[p]]
         /\ v4[p].script \in Up!Scripts
         /\ \/ v4'[p] = Up!Idle /\ v2' = v2 /\ (v4[p].script \in v2 <=> v4[p].up)
            \/ /\ v4'[p] \in Up!Runs /\ v4'[p].at = "pick" /\ v4'[p].up = v4[p].up
               /\ v4'[p].rows = v4[p].rows /\ v4'[p].todo = v4[p].todo /\ ~(v4[p].script \in v2 <=> v4[p].up)
               /\ v2' = IF v4[p].up THEN v2 \cup {v4[p].script} ELSE v2 \ {v4[p].script}
<1> DEFINE old == v4[p]
           t == v4'[p]
           next == [old EXCEPT !.at = "pick"]
<1>1. /\ old.at = "record" /\ UNCHANGED <<v1, v3, v5, v6>>
  BY DEF Up!Record
<1>2. /\ old \in Up!Runs /\ old.todo \subseteq v1 /\ old.script \in v1 /\ old.script \in Up!Scripts /\ old.up \in BOOLEAN
  BY <1>1, UpProc DEF Up!AtScript, Up!Runs
<1>3. /\ v2 \subseteq v1 /\ v5 \in 0..0 /\ v6 \in 0..MaxFaults /\ v4 = [q \in Deployers |-> v4[q]]
      /\ v3 \in [Up!Scripts -> [Up!Ops -> Nat]]
  BY DEF Up!VersionInv, Up!TypeOK
<1>4. CASE old.script \in v2 <=> old.up
  <2>1. v4' = [v4 EXCEPT ![p] = Up!Idle] /\ v2' = v2
    BY <1>2, <1>4 DEF Up!Record
  <2>2. t = Up!Idle
    BY <1>3, <2>1
  <2>3. Up!VersionInv'
    BY <1>1, <1>3, <2>1, UpRow
  <2>4. QED
    BY <1>1, <1>2, <1>4, <2>1, <2>2, <2>3
<1>5. CASE ~(old.script \in v2 <=> old.up)
  <2>1. /\ v4' = [v4 EXCEPT ![p] = next]
        /\ v2' = IF old.up THEN v2 \cup {old.script} ELSE v2 \ {old.script}
    BY <1>2, <1>5 DEF Up!Record
  <2>2. t = next /\ v4' = [v4 EXCEPT ![p] = t]
    BY <1>3, <2>1
  <2> HIDE DEF old
  <2>3. next \in Up!Runs /\ next.at = "pick" /\ next.up = old.up /\ next.rows = old.rows /\ next.todo = old.todo
    BY <1>2 DEF Up!Runs
  <2> HIDE DEF next, t
  <2>4. v2' \subseteq v1
    BY <1>2, <1>3, <2>1
  <2>5. Up!VersionInv'
    BY <1>1, <1>2, <1>3, <2>2, <2>3, <2>4, UpRow
  <2>6. QED
    BY <1>1, <1>2, <1>5, <2>1, <2>2, <2>3, <2>5 DEF old, t
<1>6. QED
  BY <1>4, <1>5

LEMMA UpStops ==
  ASSUME Up!VersionInv, NEW p \in Deployers, Up!End(p) \/ Up!Halt(p)
  PROVE  Up!VersionInv' /\ v4' = [v4 EXCEPT ![p] = Up!Idle] /\ UNCHANGED <<v1, v2, v3>>
<1>1. /\ v4' = [v4 EXCEPT ![p] = Up!Idle] /\ UNCHANGED <<v1, v2, v3, v5>>
      /\ v6' = v6 \/ (v6 < MaxFaults /\ v6' = v6 + 1)
  BY DEF Up!End, Up!Halt
<1>2. /\ v2 \subseteq v1 /\ v5 \in 0..0 /\ v6 \in 0..MaxFaults /\ v3 \in [Up!Scripts -> [Up!Ops -> Nat]]
  BY DEF Up!VersionInv, Up!TypeOK
<1>3. MaxFaults \in Nat
  BY BoundsAssumption DEF Up!VersionAssumption
<1>4. v6' \in 0..MaxFaults
  BY <1>1, <1>2, <1>3
<1>5. QED
  BY <1>1, <1>2, <1>4, UpRow

LEMMA UpRelease ==
  ASSUME Up!VersionInv, NEW s \in Up!Scripts, Up!Release(s)
  PROVE  Up!VersionInv' /\ UNCHANGED <<v2, v3, v4>>
<1>1. UNCHANGED <<v2, v3, v4, v5, v6>> /\ v1' = v1 \cup {s}
  BY DEF Up!Release
<1>2. QED
  BY <1>1 DEF Up!VersionInv, Up!TypeOK, Up!AtScript

\* Going up, all but the row of the one that moves stays: nothing is taken back.
LEMMA UpMoves ==
  ASSUME Up!UpInv, Up!VersionInv', NEW p \in Deployers, v4' = [v4 EXCEPT ![p] = v4'[p]], v2 \subseteq v2',
         \A s \in Up!Scripts : \A k \in Up!Ops : v3[s][k] <= v3'[s][k],
         \A s \in v2' : \A k \in Up!Ops : v3'[s][k] > 0,
         Up!InOrder',
         v4'[p] # Up!Idle =>
           /\ v4'[p].up /\ v4'[p].rows \subseteq v2'
           /\ \A t \in Up!Scripts \ Late : t \notin v4'[p].todo =>
                t \in v2' \/ (v4'[p].at \in {"run", "record"} /\ t = v4'[p].script),
         v4'[p].at \in {"run", "record"} =>
           /\ \A t \in Up!Scripts \ Late : t < v4'[p].script => t \notin v4'[p].todo
           /\ \A k \in Up!Ops : v4'[p].at = "record" \/ k < v4'[p].op => v3'[v4'[p].script][k] > 0
  PROVE  Up!UpInv'
<1>1. \A q \in Deployers \ {p} : v4'[q] = v4[q]
  BY DEF Up!UpInv, Up!VersionInv
<1>2. \A s \in Up!Scripts : \A k \in Up!Ops : v3[s][k] \in Nat /\ v3'[s][k] \in Nat
  BY DEF Up!UpInv, Up!VersionInv, Up!TypeOK
<1>3. ASSUME NEW q \in Deployers \ {p}, v4[q] # Up!Idle
      PROVE  /\ v4[q].up /\ v4[q].rows \subseteq v2'
             /\ \A t \in Up!Scripts \ Late : t \notin v4[q].todo =>
                  t \in v2' \/ (v4[q].at \in {"run", "record"} /\ t = v4[q].script)
  BY <1>3 DEF Up!UpInv, Up!AtScript
<1>4. ASSUME NEW q \in Deployers \ {p}, v4[q].at \in {"run", "record"}
      PROVE  /\ \A t \in Up!Scripts \ Late : t < v4[q].script => t \notin v4[q].todo
             /\ \A k \in Up!Ops : v4[q].at = "record" \/ k < v4[q].op => v3'[v4[q].script][k] > 0
  <2>1. /\ \A t \in Up!Scripts \ Late : t < v4[q].script => t \notin v4[q].todo
        /\ \A k \in Up!Ops : v4[q].at = "record" \/ k < v4[q].op => v3[v4[q].script][k] > 0
    BY <1>4 DEF Up!UpInv, Up!AtScript
  <2>2. v4[q].script \in Up!Scripts
    BY <1>4, UpProc DEF Up!UpInv, Up!AtScript
  <2>3. QED
    BY <1>2, <2>1, <2>2
<1>5. Up!RecordedHaveRun'
  BY DEF Up!RecordedHaveRun
<1>6. QED
  BY <1>1, <1>3, <1>4, <1>5 DEF Up!UpInv, Up!AtScript

LEMMA UpStarts ==
  ASSUME Up!UpInv, NEW p \in Deployers, NEW n \in Up!Numbers, NEW fake \in BOOLEAN, Up!Start(p, n, fake)
  PROVE  Up!UpInv'
<1> DEFINE t == v4'[p]
<1>1. /\ Up!VersionInv' /\ UNCHANGED <<v1, v2, v3>> /\ v4' = [v4 EXCEPT ![p] = t] /\ t.at = "pick" /\ t.rows = v2
      /\ t.todo = IF t.up THEN v1 ELSE v2
  BY UpStart DEF Up!UpInv
<1>2. t.up
  <2>1. v5 \in 0..0
    BY DEF Up!UpInv, Up!VersionInv, Up!TypeOK
  <2>2. ~t.up => v5 < 0
    BY UpStart DEF Up!UpInv
  <2>3. QED
    BY <2>1, <2>2
<1>3. Up!Scripts \ Late \subseteq v1
  BY DEF Up!UpInv, Up!VersionInv
<1>4. /\ \A s \in Up!Scripts : \A k \in Up!Ops : v3[s][k] <= v3'[s][k]
      /\ \A s \in v2 : \A k \in Up!Ops : v3[s][k] > 0
  BY <1>1 DEF Up!UpInv, Up!VersionInv, Up!TypeOK, Up!RecordedHaveRun
<1>5. Up!InOrder'
  BY <1>1 DEF Up!UpInv, Up!InOrder
<1> HIDE DEF t
<1>6. \A s \in Up!Scripts \ Late : s \in t.todo
  BY <1>1, <1>2, <1>3
<1>7. QED
  BY <1>1, <1>2, <1>4, <1>5, <1>6, UpMoves DEF t

LEMMA UpPicks2 ==
  ASSUME Up!UpInv, NEW p \in Deployers, Up!Pick(p)
  PROVE  Up!UpInv'
<1> DEFINE t == v4'[p]
           old == v4[p]
           f == Up!NextFile(p)
<1>1. /\ Up!VersionInv' /\ UNCHANGED <<v1, v2, v3>> /\ v4' = [v4 EXCEPT ![p] = t] /\ old.at = "pick"
      /\ t.up = old.up /\ t.rows = old.rows /\ f \in old.todo /\ t.todo = old.todo \ {f}
      /\ old.up => \A s \in old.todo : f <= s
      /\ \/ t.at = "pick" /\ old.up /\ f \in old.rows
         \/ /\ t.at = "run" /\ t.script = f /\ t.op = 1
            /\ old.up => f \notin old.rows
  BY UpPick DEF Up!UpInv
<1>2. old # Up!Idle /\ old.todo \subseteq Up!Scripts
  BY <1>1, UpProc DEF Up!UpInv
<1>3. /\ old.up /\ old.rows \subseteq v2
      /\ \A s \in Up!Scripts \ Late : s \notin old.todo => s \in v2
  BY <1>1, <1>2 DEF Up!UpInv, Up!AtScript
<1>4. /\ \A s \in Up!Scripts : \A k \in Up!Ops : v3[s][k] <= v3'[s][k]
      /\ \A s \in v2 : \A k \in Up!Ops : v3[s][k] > 0
  BY <1>1 DEF Up!UpInv, Up!VersionInv, Up!TypeOK, Up!RecordedHaveRun
<1>5. Up!InOrder'
  BY <1>1 DEF Up!UpInv, Up!InOrder
<1> HIDE DEF t, old, f
<1>6. \A s \in Up!Scripts \ Late : s \notin t.todo => s \in v2 \/ (t.at \in {"run", "record"} /\ s = t.script)
  BY <1>1, <1>3
<1>7. t.at \in {"run", "record"} => t.at = "run" /\ t.script = f /\ t.op = 1
  BY <1>1
<1>8. \A s \in Up!Scripts \ Late : s < f => s \notin t.todo
  <2>1. f \in Nat /\ \A s \in Up!Scripts : s \in Nat
    BY <1>1, <1>2 DEF Up!Scripts
  <2>2. QED
    BY <1>1, <1>3, <2>1
<1>9. \A k \in Up!Ops : ~(k < 1)
  BY DEF Up!Ops
<1>10. QED
  BY <1>1, <1>3, <1>4, <1>5, <1>6, <1>7, <1>8, <1>9, UpMoves DEF t

LEMMA UpRuns2 ==
  ASSUME Up!UpInv, NEW p \in Deployers, Up!Run(p)
  PROVE  Up!UpInv'
<1> DEFINE t == v4'[p]
           old == v4[p]
           f == old.script
<1>1. /\ Up!VersionInv' /\ UNCHANGED <<v1, v2>> /\ v4' = [v4 EXCEPT ![p] = t] /\ old.at = "run"
      /\ t.up = old.up /\ t.rows = old.rows /\ t.todo = old.todo /\ t.script = f
      /\ old.op \in 1..2 /\ t.op \in 1..2 /\ IF old.op = 1 THEN t.at = "run" /\ t.op = 2 ELSE t.at = "record"
      /\ \A s \in Up!Scripts : \A k \in Up!Ops : v3'[s][k] =
              IF s = f /\ k = old.op
              THEN IF old.up THEN v3[s][k] + 1 ELSE Up!Undone(s, v3[s][k])
              ELSE v3[s][k]
  BY UpRuns DEF Up!UpInv
<1>2. old # Up!Idle /\ f \in Up!Scripts /\ old.todo \subseteq Up!Scripts
  BY <1>1, UpProc DEF Up!UpInv, Up!AtScript
<1>3. /\ old.up /\ old.rows \subseteq v2
      /\ \A s \in Up!Scripts \ Late : s \notin old.todo => s \in v2 \/ s = f
      /\ \A s \in Up!Scripts \ Late : s < f => s \notin old.todo
      /\ \A k \in Up!Ops : k < old.op => v3[f][k] > 0
  BY <1>1, <1>2 DEF Up!UpInv, Up!AtScript
<1>4. \A s \in Up!Scripts : \A k \in Up!Ops : v3[s][k] \in Nat
  BY DEF Up!UpInv, Up!VersionInv, Up!TypeOK
<1>5. \A s \in v2 : s \in Up!Scripts /\ \A k \in Up!Ops : v3[s][k] > 0
  BY DEF Up!UpInv, Up!VersionInv, Up!TypeOK, Up!RecordedHaveRun
<1>6. Up!InOrder'
  BY <1>1 DEF Up!UpInv, Up!InOrder
<1> HIDE DEF t, old, f
<1>7. /\ \A s \in Up!Scripts : \A k \in Up!Ops : v3'[s][k] = IF s = f /\ k = old.op THEN v3[s][k] + 1 ELSE v3[s][k]
  BY <1>1, <1>3
<1>8. /\ \A s \in Up!Scripts : \A k \in Up!Ops : v3[s][k] <= v3'[s][k]
      /\ \A s \in v2 : \A k \in Up!Ops : v3'[s][k] > 0
  BY <1>4, <1>5, <1>7
<1>9. \A k \in Up!Ops : t.at = "record" \/ k < t.op => v3'[f][k] > 0
  <2>1. Up!Ops = 1..2
    BY DEF Up!Ops
  <2>2. ASSUME NEW k \in Up!Ops, t.at = "record" \/ k < t.op PROVE k <= old.op
    BY <1>1, <2>1, <2>2
  <2>3. QED
    BY <1>1, <1>2, <1>3, <1>4, <1>7, <2>1, <2>2
<1>10. t.at \in {"run", "record"}
  BY <1>1
<1>11. \A s \in Up!Scripts \ Late : s \notin t.todo => s \in v2' \/ s = t.script
  BY <1>1, <1>3
<1>12. \A s \in Up!Scripts \ Late : s < t.script => s \notin t.todo
  BY <1>1, <1>3
<1>13. QED
  BY <1>1, <1>3, <1>6, <1>8, <1>9, <1>10, <1>11, <1>12, UpMoves DEF t

LEMMA UpRecords ==
  ASSUME Up!UpInv, NEW p \in Deployers, Up!Record(p)
  PROVE  Up!UpInv'
<1> DEFINE t == v4'[p]
           old == v4[p]
           f == old.script
<1>1. /\ Up!VersionInv' /\ old.at = "record" /\ UNCHANGED <<v1, v3>> /\ v4' = [v4 EXCEPT ![p] = t]
      /\ \/ t = Up!Idle /\ v2' = v2
         \/ /\ t.at = "pick" /\ t.up = old.up /\ t.rows = old.rows /\ t.todo = old.todo
            /\ v2' = IF old.up THEN v2 \cup {f} ELSE v2 \ {f}
  BY UpRecord DEF Up!UpInv
<1>2. old # Up!Idle /\ f \in Up!Scripts
  BY <1>1, UpProc DEF Up!UpInv, Up!AtScript
<1>3. /\ old.up /\ old.rows \subseteq v2
      /\ \A s \in Up!Scripts \ Late : s \notin old.todo => s \in v2 \/ s = f
      /\ \A s \in Up!Scripts \ Late : s < f => s \notin old.todo
      /\ \A k \in Up!Ops : v3[f][k] > 0
  BY <1>1, <1>2 DEF Up!UpInv, Up!AtScript
<1>4. /\ \A s \in Up!Scripts : \A k \in Up!Ops : v3[s][k] <= v3'[s][k]
      /\ \A s \in v2 : \A k \in Up!Ops : v3[s][k] > 0
      /\ \A s \in v2, q \in Up!Scripts \ Late : q < s => q \in v2
  BY <1>1 DEF Up!UpInv, Up!VersionInv, Up!TypeOK, Up!RecordedHaveRun, Up!InOrder
<1>5. Up!Idle.at = "idle"
  BY DEF Up!Idle
<1> HIDE DEF t, old, f
<1>6. v2' = v2 \/ v2' = v2 \cup {f}
  BY <1>1, <1>3
<1>7. \A q \in Up!Scripts \ Late : q < f => q \in v2
  BY <1>2, <1>3 DEF Up!Scripts
<1>8. Up!InOrder'
  BY <1>4, <1>6, <1>7 DEF Up!InOrder
<1>9. v2 \subseteq v2' /\ \A s \in v2' : \A k \in Up!Ops : v3'[s][k] > 0
  BY <1>1, <1>3, <1>4, <1>6
<1>10. t.at \notin {"run", "record"}
  BY <1>1, <1>5
<1>11. t # Up!Idle => /\ t.up /\ t.rows \subseteq v2'
                      /\ \A s \in Up!Scripts \ Late : s \notin t.todo => s \in v2'
  BY <1>1, <1>3
<1>12. QED
  BY <1>1, <1>4, <1>8, <1>9, <1>10, <1>11, UpMoves DEF t

LEMMA UpSteps ==
  ASSUME Up!UpInv, [Up!Next]_(Up!vars)
  PROVE  Up!UpInv'
<1>1. ASSUME NEW p \in Deployers, Up!End(p) \/ Up!Halt(p) PROVE Up!UpInv'
  <2>1. Up!VersionInv' /\ v4' = [v4 EXCEPT ![p] = Up!Idle] /\ UNCHANGED <<v1, v2, v3>>
    BY <1>1, UpStops DEF Up!UpInv
  <2>2. v4'[p] = Up!Idle /\ v4'[p].at = "idle"
    BY <2>1 DEF Up!UpInv, Up!VersionInv, Up!Idle
  <2>3. /\ \A s \in Up!Scripts : \A k \in Up!Ops : v3[s][k] <= v3'[s][k]
        /\ \A s \in v2' : \A k \in Up!Ops : v3'[s][k] > 0
        /\ Up!InOrder'
    BY <2>1 DEF Up!UpInv, Up!VersionInv, Up!TypeOK, Up!RecordedHaveRun, Up!InOrder
  <2>4. QED
    BY <2>1, <2>2, <2>3, UpMoves
<1>2. ASSUME NEW s \in Up!Scripts, Up!Release(s) PROVE Up!UpInv'
  <2>1. Up!VersionInv' /\ UNCHANGED <<v2, v3, v4>>
    BY <1>2, UpRelease DEF Up!UpInv
  <2>2. QED
    BY <2>1 DEF Up!UpInv, Up!RecordedHaveRun, Up!InOrder, Up!AtScript
<1>3. CASE UNCHANGED Up!vars
  <2>1. UNCHANGED <<v1, v2, v3, v4, v5, v6>>
    BY <1>3 DEF Up!vars
  <2>2. QED
    BY <2>1 DEF Up!UpInv, Up!VersionInv, Up!TypeOK, Up!RecordedHaveRun, Up!InOrder, Up!AtScript
<1>4. QED
  BY <1>1, <1>2, <1>3, UpStarts, UpPicks2, UpRuns2, UpRecords DEF Up!Next, Up!Step

LEMMA UpBegins ==
  ASSUME Up!Init
  PROVE  Up!UpInv
<1>1. /\ v1 = Up!Scripts \ Late /\ v2 = {} /\ v3 = [s \in Up!Scripts |-> [k \in Up!Ops |-> 0]]
      /\ v4 = [p \in Deployers |-> Up!Idle] /\ v5 = 0 /\ v6 = 0
  BY DEF Up!Init
<1>2. MaxFaults \in Nat
  BY BoundsAssumption DEF Up!VersionAssumption
<1>3. Up!VersionInv
  BY <1>1, <1>2 DEF Up!VersionInv, Up!TypeOK, Up!AtScript, Up!Idle
<1>4. QED
  BY <1>1, <1>3 DEF Up!UpInv, Up!RecordedHaveRun, Up!InOrder, Up!AtScript, Up!Idle

LEMMA DownPicks ==
  ASSUME NEW S \in SUBSET Down!Scripts, S # {}
  PROVE  /\ Down!Min(S) \in S /\ \A x \in S : Down!Min(S) <= x
         /\ Down!Max(S) \in S
<1>1. N \in Nat
  BY BoundsAssumption DEF Down!VersionAssumption
<1>2. S \in SUBSET Nat /\ S \in SUBSET (0..N)
  BY <1>1 DEF Down!Scripts
<1>3. \E m \in S : \A x \in S : m <= x
  BY <1>2, FirstOf
<1>4. \E m \in S : \A x \in S : m >= x
  BY <1>1, <1>2, LastOf
<1>5. QED
  BY <1>3, <1>4 DEF Down!Min, Down!Max

LEMMA DownHighest ==
  ASSUME NEW S \in SUBSET Down!Scripts
  PROVE  Down!Highest(S) \in Nat
<1> DEFINE T == {Num[s] : s \in S} \cup {0}
<1>1. /\ N \in Nat \ {0} /\ Num \in [1..N -> Nat \ {0}] /\ \A s \in 1..N : s < N => Num[s] <= Num[N]
  BY BoundsAssumption DEF Down!VersionAssumption, Down!Scripts
<1>2. N \in 1..N /\ Num[N] \in Nat
  BY <1>1
<1>3. \A s \in 1..N : Num[s] \in 0..Num[N]
  BY <1>1, <1>2
<1>4. T \in SUBSET (0..Num[N]) /\ T # {}
  BY <1>2, <1>3 DEF Down!Scripts
<1> HIDE DEF T
<1>5. \E m \in T : \A x \in T : m >= x
  BY <1>2, <1>4, LastOf
<1>6. Down!Max(T) \in T
  BY <1>5 DEF Down!Max
<1>7. Down!Highest(S) = Down!Max(T)
  BY DEF Down!Highest, T
<1>8. Down!Max(T) \in 0..Num[N]
  BY <1>4, <1>6
<1>9. QED
  BY <1>2, <1>7, <1>8

LEMMA DownProc ==
  ASSUME Down!VersionInv, NEW p \in {c1}, v4[p].at \in {"pick", "run", "record"}
  PROVE  /\ v4[p] # Down!Idle /\ v4[p] \in Down!Runs /\ v4[p].todo \subseteq v1 /\ v4[p].todo \subseteq Down!Scripts
         /\ Down!AtScript(p) => v4[p].script \in v1 /\ v4[p].script \in Down!Scripts /\ v4[p].op \in Down!Ops
<1>1. v4[p] # Down!Idle
  BY DEF Down!Idle
<1>2. QED
  BY <1>1 DEF Down!VersionInv, Down!TypeOK, Down!Runs

\* What a command does keeps the types when its own row does.
LEMMA DownRow ==
  ASSUME Down!VersionInv, NEW p \in {c1}, NEW t, v4' = [v4 EXCEPT ![p] = t],
         \/ t = Down!Idle
         \/ /\ t \in Down!Runs /\ t.todo \subseteq v1
            /\ t.at \in {"run", "record"} => t.script \in v1 /\ t.op \in Down!Ops,
         v1' = v1, v2' \subseteq v1, v3' \in [Down!Scripts -> [Down!Ops -> Nat]],
         v5' \in 0..MaxDowns, v6' \in 0..0
  PROVE  Down!VersionInv'
<1>1. v4' \in [{c1} -> {Down!Idle} \cup Down!Runs] /\ \A q \in {c1} : v4'[q] = IF q = p THEN t ELSE v4[q]
  BY DEF Down!VersionInv
<1>2. \A q \in {c1} : v4'[q] # Down!Idle => v4'[q].todo \subseteq v1'
  BY <1>1 DEF Down!VersionInv
<1>3. Down!Idle.at = "idle"
  BY DEF Down!Idle
<1>4. \A q \in {c1} : v4'[q].at \in {"run", "record"} => v4'[q].script \in v1' /\ v4'[q].op \in Down!Ops
  BY <1>1, <1>3 DEF Down!VersionInv, Down!AtScript
<1>5. Down!TypeOK'
  BY <1>4 DEF Down!VersionInv, Down!TypeOK
<1>6. QED
  BY <1>1, <1>2, <1>4, <1>5 DEF Down!VersionInv, Down!AtScript

\* A command starts with the rows and the files there are.
LEMMA DownStart ==
  ASSUME Down!VersionInv, NEW p \in {c1}, NEW n \in Down!Numbers, NEW fake \in BOOLEAN, Down!Start(p, n, fake)
  PROVE  /\ Down!VersionInv' /\ v4[p] = Down!Idle /\ UNCHANGED <<v1, v2, v3>>
         /\ v4' = [v4 EXCEPT ![p] = v4'[p]] /\ v4'[p] \in Down!Runs /\ v4'[p].at = "pick" /\ v4'[p].rows = v2
         /\ v4'[p].todo = IF v4'[p].up THEN v1 ELSE v2
         /\ ~v4'[p].up => v5 < MaxDowns
<1> DEFINE up == n >= Down!Highest(v2)
           to == IF up THEN Down!Goal(n) ELSE n
           t == [at |-> "pick", up |-> up, to |-> to, fake |-> fake, script |-> 0, op |-> 0,
                 rows |-> v2, todo |-> IF up THEN v1 ELSE v2]
<1>1. /\ v4[p] = Down!Idle /\ UNCHANGED <<v1, v2, v3, v6>> /\ v4' = [v4 EXCEPT ![p] = t]
      /\ (up \/ v5 < MaxDowns) /\ v5' = IF up THEN v5 ELSE v5 + 1
  BY DEF Down!Start
<1>2. /\ v1 \subseteq Down!Scripts /\ v2 \subseteq v1 /\ v5 \in 0..MaxDowns /\ v6 \in 0..0 /\ v4 = [q \in {c1} |-> v4[q]]
      /\ v3 \in [Down!Scripts -> [Down!Ops -> Nat]]
  BY DEF Down!VersionInv, Down!TypeOK
<1>3. n \in Nat /\ MaxDowns \in Nat
  BY BoundsAssumption DEF Down!VersionAssumption, Down!Numbers
<1>4. to \in Nat
  BY <1>2, <1>3, DownHighest DEF Down!Goal
<1>5. up \in BOOLEAN
  OBVIOUS
<1>6. v4'[p] = t
  BY <1>1, <1>2
<1>7. v5' \in 0..MaxDowns
  BY <1>1, <1>2, <1>3
<1> HIDE DEF up, to
<1>8. /\ t \in Down!Runs /\ t.at = "pick" /\ t.rows = v2 /\ t.todo = (IF up THEN v1 ELSE v2) /\ t.todo \subseteq v1
  BY <1>2, <1>4, <1>5 DEF Down!Runs
<1>9. t.up <=> up
  BY Zenon
<1> HIDE DEF t
<1>10. Down!VersionInv'
  BY <1>1, <1>2, <1>7, <1>8, DownRow
<1>11. QED
  BY <1>1, <1>6, <1>8, <1>9, <1>10

\* The next file is skipped, or is the script that is run.
LEMMA DownPick ==
  ASSUME Down!VersionInv, NEW p \in {c1}, Down!Pick(p)
  PROVE  /\ Down!VersionInv' /\ UNCHANGED <<v1, v2, v3>> /\ v4' = [v4 EXCEPT ![p] = v4'[p]] /\ v4'[p] \in Down!Runs
         /\ v4[p].at = "pick" /\ v4'[p].up = v4[p].up /\ v4'[p].rows = v4[p].rows
         /\ Down!NextFile(p) \in v4[p].todo /\ v4'[p].todo = v4[p].todo \ {Down!NextFile(p)}
         /\ v4[p].up => \A t \in v4[p].todo : Down!NextFile(p) <= t
         /\ \/ v4'[p].at = "pick" /\ v4[p].up /\ Down!NextFile(p) \in v4[p].rows
            \/ /\ v4'[p].at = "run" /\ v4'[p].script = Down!NextFile(p) /\ v4'[p].op = 1
               /\ v4[p].up => Down!NextFile(p) \notin v4[p].rows
<1> DEFINE f == Down!NextFile(p)
           old == v4[p]
           t == v4'[p]
           rest == [old EXCEPT !.todo = @ \ {f}]
<1>1. /\ old.at = "pick" /\ old.todo # {} /\ UNCHANGED <<v1, v2, v3, v5, v6>>
      /\ v4' = [v4 EXCEPT ![p] = IF Down!ToRun(p) THEN [rest EXCEPT !.at = "run", !.script = f, !.op = 1] ELSE rest]
  BY DEF Down!Pick, Down!Over
<1>2. /\ old \in Down!Runs /\ old.todo \subseteq v1 /\ old.todo \subseteq Down!Scripts
  BY <1>1, DownProc
<1>3. /\ v1 \subseteq Down!Scripts /\ v2 \subseteq v1 /\ v5 \in 0..MaxDowns /\ v6 \in 0..0 /\ v4 = [q \in {c1} |-> v4[q]]
      /\ v3 \in [Down!Scripts -> [Down!Ops -> Nat]]
  BY DEF Down!VersionInv, Down!TypeOK
<1>4. f \in old.todo /\ (old.up => \A s \in old.todo : f <= s)
  BY <1>1, <1>2, DownPicks DEF Down!NextFile
<1>5. t = IF Down!ToRun(p) THEN [rest EXCEPT !.at = "run", !.script = f, !.op = 1] ELSE rest
  BY <1>1, <1>3
<1>6. Down!ToRun(p) <=> (old.up => f \notin old.rows)
  BY DEF Down!ToRun
<1>7. v4' = [v4 EXCEPT ![p] = t]
  BY <1>1, <1>5
<1> HIDE DEF f, old
<1>8. /\ rest \in Down!Runs /\ rest.at = "pick" /\ rest.up = old.up /\ rest.rows = old.rows
      /\ rest.todo = old.todo \ {f}
  BY <1>1, <1>2 DEF Down!Runs
<1> HIDE DEF rest, t
<1>9. CASE Down!ToRun(p)
  <2>1. t = [rest EXCEPT !.at = "run", !.script = f, !.op = 1]
    BY <1>5, <1>9
  <2>2. /\ t \in Down!Runs /\ t.at = "run" /\ t.script = f /\ t.op = 1 /\ t.up = rest.up /\ t.rows = rest.rows
        /\ t.todo = rest.todo
    <3>1. f \in Down!Scripts /\ 1 \in Down!Ops
      BY <1>2, <1>4 DEF Down!Ops
    <3>2. t \in Down!Runs
      BY <1>8, <2>1, <3>1 DEF Down!Runs
    <3>3. /\ t.at = "run" /\ t.script = f /\ t.op = 1 /\ t.rows = rest.rows /\ t.todo = rest.todo
      BY <1>8, <2>1 DEF Down!Runs
    <3>4. t.up = rest.up
      BY <1>8, <2>1 DEF Down!Runs
    <3>5. QED
      BY <3>2, <3>3, <3>4
  <2>3. t.op \in Down!Ops /\ t.script \in v1 /\ t.todo \subseteq v1
    BY <1>2, <1>4, <1>8, <2>2 DEF Down!Ops
  <2>4. Down!VersionInv'
    BY <1>1, <1>3, <1>7, <2>2, <2>3, DownRow
  <2>5. t.up = old.up /\ t.rows = old.rows /\ t.todo = old.todo \ {f} /\ (old.up => f \notin old.rows)
    BY <1>6, <1>8, <1>9, <2>2
  <2>6. QED
    BY <1>1, <1>4, <1>7, <2>2, <2>4, <2>5 DEF t, old, f
<1>10. CASE ~Down!ToRun(p)
  <2>1. t = rest
    BY <1>5, <1>10
  <2>2. Down!VersionInv'
    BY <1>1, <1>2, <1>3, <1>7, <1>8, <2>1, DownRow
  <2>3. old.up /\ f \in old.rows
    BY <1>6, <1>10
  <2>4. t \in Down!Runs /\ t.at = "pick" /\ t.up = old.up /\ t.rows = old.rows /\ t.todo = old.todo \ {f}
    BY <1>8, <2>1
  <2>5. QED
    BY <1>1, <1>4, <1>7, <2>2, <2>3, <2>4 DEF t, old, f
<1>11. QED
  BY <1>9, <1>10

\* One operation is run, and after the last one the script is to be recorded.
LEMMA DownRuns ==
  ASSUME Down!VersionInv, NEW p \in {c1}, Down!Run(p)
  PROVE  /\ Down!VersionInv' /\ UNCHANGED <<v1, v2>> /\ v4' = [v4 EXCEPT ![p] = v4'[p]] /\ v4'[p] \in Down!Runs
         /\ v4[p].at = "run" /\ v4'[p].up = v4[p].up /\ v4'[p].rows = v4[p].rows
         /\ v4'[p].todo = v4[p].todo /\ v4'[p].script = v4[p].script
         /\ v4[p].op \in 1..2 /\ v4'[p].op \in 1..2
         /\ IF v4[p].op = 1 THEN v4'[p].at = "run" /\ v4'[p].op = 2 ELSE v4'[p].at = "record"
         /\ \A s \in Down!Scripts : \A k \in Down!Ops : v3'[s][k] =
              IF s = v4[p].script /\ k = v4[p].op
              THEN IF v4[p].up THEN v3[s][k] + 1 ELSE Down!Undone(s, v3[s][k])
              ELSE v3[s][k]
<1> DEFINE old == v4[p]
           t == v4'[p]
           s0 == old.script
           k0 == old.op
           n0 == IF old.up THEN v3[s0][k0] + 1 ELSE Down!Undone(s0, v3[s0][k0])
<1>1. /\ old.at = "run" /\ UNCHANGED <<v1, v2, v5, v6>>
      /\ v4' = [v4 EXCEPT ![p] = IF old.op \in Down!Ops \ {Down!Max(Down!Ops)} THEN [old EXCEPT !.op = old.op + 1]
                                 ELSE [old EXCEPT !.at = "record"]]
      /\ v3' = [v3 EXCEPT ![s0] = [v3[s0] EXCEPT ![k0] = n0]]
  <2>1. Down!Ran(p) = [v3 EXCEPT ![s0] = [v3[s0] EXCEPT ![k0] = n0]]
    BY DEF Down!Ran
  <2>2. v3' = Down!Ran(p)
    BY DEF Down!Run
  <2>3. /\ old.at = "run" /\ UNCHANGED <<v1, v2, v5, v6>>
        /\ v4' = [v4 EXCEPT ![p] = IF old.op \in Down!Ops \ {Down!Max(Down!Ops)} THEN [old EXCEPT !.op = old.op + 1]
                                   ELSE [old EXCEPT !.at = "record"]]
    BY DEF Down!Run
  <2> HIDE DEF n0, s0, k0, old
  <2>4. QED
    BY <2>1, <2>2, <2>3
<1>2. /\ old \in Down!Runs /\ old.todo \subseteq v1 /\ old.script \in v1 /\ old.script \in Down!Scripts
      /\ old.op \in Down!Ops
  BY <1>1, DownProc DEF Down!AtScript
<1>3. /\ v2 \subseteq v1 /\ v5 \in 0..MaxDowns /\ v6 \in 0..0 /\ v4 = [q \in {c1} |-> v4[q]]
      /\ v3 \in [Down!Scripts -> [Down!Ops -> Nat]]
  BY DEF Down!VersionInv, Down!TypeOK
<1>4. Down!Ops = 1..2 /\ Down!Max(Down!Ops) = 2
  BY DEF Down!Ops, Down!Max
<1>5. n0 \in Nat
  <2>1. v3[s0][k0] \in Nat
    BY <1>2, <1>3
  <2> HIDE DEF s0, k0
  <2>2. QED
    BY <2>1 DEF Down!Undone
<1>6. t = IF old.op = 1 THEN [old EXCEPT !.op = 2] ELSE [old EXCEPT !.at = "record"]
  BY <1>1, <1>2, <1>3, <1>4
<1>7. v4' = [v4 EXCEPT ![p] = t]
  BY <1>1, <1>3
<1> HIDE DEF n0
<1>8. v3' \in [Down!Scripts -> [Down!Ops -> Nat]]
  BY <1>1, <1>2, <1>3, <1>5
<1>9. \A s \in Down!Scripts : \A k \in Down!Ops : v3'[s][k] = IF s = s0 /\ k = k0 THEN n0 ELSE v3[s][k]
  BY <1>1, <1>2, <1>3
<1>10. \A s \in Down!Scripts : \A k \in Down!Ops : v3'[s][k] =
         IF s = s0 /\ k = k0 THEN IF old.up THEN v3[s][k] + 1 ELSE Down!Undone(s, v3[s][k]) ELSE v3[s][k]
  BY <1>9 DEF n0
<1> HIDE DEF t, old
<1>11. /\ t \in Down!Runs /\ t.up = old.up /\ t.rows = old.rows /\ t.todo = old.todo /\ t.script = old.script
       /\ old.op \in 1..2 /\ t.op \in 1..2
       /\ IF old.op = 1 THEN t.at = "run" /\ t.op = 2 ELSE t.at = "record"
  <2>1. CASE old.op = 1
    <3>1. t = [old EXCEPT !.op = 2]
      BY <1>6, <2>1
    <3>2. QED
      BY <1>1, <1>2, <1>4, <2>1, <3>1 DEF Down!Runs
  <2>2. CASE old.op # 1
    <3>1. t = [old EXCEPT !.at = "record"]
      BY <1>6, <2>2
    <3>2. QED
      BY <1>2, <1>4, <2>2, <3>1 DEF Down!Runs
  <2>3. QED
    BY <2>1, <2>2
<1>12. Down!VersionInv'
  BY <1>1, <1>2, <1>3, <1>4, <1>7, <1>8, <1>11, DownRow
<1>13. QED
  BY <1>1, <1>7, <1>10, <1>11, <1>12 DEF t, old

\* A script is recorded, or its row taken out; who comes second halts.
LEMMA DownRecord ==
  ASSUME Down!VersionInv, NEW p \in {c1}, Down!Record(p)
  PROVE  /\ Down!VersionInv' /\ v4[p].at = "record" /\ UNCHANGED <<v1, v3>> /\ v4' = [v4 EXCEPT ![p] = v4'[p]]
         /\ v4[p].script \in Down!Scripts
         /\ \/ v4'[p] = Down!Idle /\ v2' = v2 /\ (v4[p].script \in v2 <=> v4[p].up)
            \/ /\ v4'[p] \in Down!Runs /\ v4'[p].at = "pick" /\ v4'[p].up = v4[p].up
               /\ v4'[p].rows = v4[p].rows /\ v4'[p].todo = v4[p].todo /\ ~(v4[p].script \in v2 <=> v4[p].up)
               /\ v2' = IF v4[p].up THEN v2 \cup {v4[p].script} ELSE v2 \ {v4[p].script}
<1> DEFINE old == v4[p]
           t == v4'[p]
           next == [old EXCEPT !.at = "pick"]
<1>1. /\ old.at = "record" /\ UNCHANGED <<v1, v3, v5, v6>>
  BY DEF Down!Record
<1>2. /\ old \in Down!Runs /\ old.todo \subseteq v1 /\ old.script \in v1 /\ old.script \in Down!Scripts /\ old.up \in BOOLEAN
  BY <1>1, DownProc DEF Down!AtScript, Down!Runs
<1>3. /\ v2 \subseteq v1 /\ v5 \in 0..MaxDowns /\ v6 \in 0..0 /\ v4 = [q \in {c1} |-> v4[q]]
      /\ v3 \in [Down!Scripts -> [Down!Ops -> Nat]]
  BY DEF Down!VersionInv, Down!TypeOK
<1>4. CASE old.script \in v2 <=> old.up
  <2>1. v4' = [v4 EXCEPT ![p] = Down!Idle] /\ v2' = v2
    BY <1>2, <1>4 DEF Down!Record
  <2>2. t = Down!Idle
    BY <1>3, <2>1
  <2>3. Down!VersionInv'
    BY <1>1, <1>3, <2>1, DownRow
  <2>4. QED
    BY <1>1, <1>2, <1>4, <2>1, <2>2, <2>3
<1>5. CASE ~(old.script \in v2 <=> old.up)
  <2>1. /\ v4' = [v4 EXCEPT ![p] = next]
        /\ v2' = IF old.up THEN v2 \cup {old.script} ELSE v2 \ {old.script}
    BY <1>2, <1>5 DEF Down!Record
  <2>2. t = next /\ v4' = [v4 EXCEPT ![p] = t]
    BY <1>3, <2>1
  <2> HIDE DEF old
  <2>3. next \in Down!Runs /\ next.at = "pick" /\ next.up = old.up /\ next.rows = old.rows /\ next.todo = old.todo
    BY <1>2 DEF Down!Runs
  <2> HIDE DEF next, t
  <2>4. v2' \subseteq v1
    BY <1>2, <1>3, <2>1
  <2>5. Down!VersionInv'
    BY <1>1, <1>2, <1>3, <2>2, <2>3, <2>4, DownRow
  <2>6. QED
    BY <1>1, <1>2, <1>5, <2>1, <2>2, <2>3, <2>5 DEF old, t
<1>6. QED
  BY <1>4, <1>5

LEMMA DownStops ==
  ASSUME Down!VersionInv, NEW p \in {c1}, Down!End(p) \/ Down!Halt(p)
  PROVE  Down!VersionInv' /\ v4' = [v4 EXCEPT ![p] = Down!Idle] /\ UNCHANGED <<v1, v2, v3>>
<1>1. /\ v4' = [v4 EXCEPT ![p] = Down!Idle] /\ UNCHANGED <<v1, v2, v3, v5>>
      /\ v6' = v6 \/ (v6 < 0 /\ v6' = v6 + 1)
  BY DEF Down!End, Down!Halt
<1>2. /\ v2 \subseteq v1 /\ v5 \in 0..MaxDowns /\ v6 \in 0..0 /\ v3 \in [Down!Scripts -> [Down!Ops -> Nat]]
  BY DEF Down!VersionInv, Down!TypeOK
<1>3. 0 \in Nat
  BY BoundsAssumption DEF Down!VersionAssumption
<1>4. v6' \in 0..0
  BY <1>1, <1>2, <1>3
<1>5. QED
  BY <1>1, <1>2, <1>4, DownRow

LEMMA DownRelease ==
  ASSUME Down!VersionInv, NEW s \in Down!Scripts, Down!Release(s)
  PROVE  Down!VersionInv' /\ UNCHANGED <<v2, v3, v4>>
<1>1. UNCHANGED <<v2, v3, v4, v5, v6>> /\ v1' = v1 \cup {s}
  BY DEF Down!Release
<1>2. QED
  BY <1>1 DEF Down!VersionInv, Down!TypeOK, Down!AtScript

\* With one command the invariant is about its row and the table.
LEMMA DownMoves ==
  ASSUME Down!VersionInv',
         \A s \in Down!Scripts \ Irreversible : \A k \in Down!Ops :
           v3'[s][k] = Down!InForce(s)' \/ (v4'[c1].at \in {"run", "record"} /\ v4'[c1].script = s),
         v4'[c1] # Down!Idle =>
           IF v4'[c1].up THEN v4'[c1].todo \cap v2' \subseteq v4'[c1].rows ELSE v4'[c1].todo \subseteq v2',
         v4'[c1].at \in {"run", "record"} =>
           /\ v4'[c1].script \notin v4'[c1].todo /\ (v4'[c1].up <=> v4'[c1].script \notin v2')
           /\ v4'[c1].script \notin Irreversible => \A k \in Down!Ops : v3'[v4'[c1].script][k] =
                IF v4'[c1].at = "run" /\ k >= v4'[c1].op THEN Down!InForce(v4[c1].script)'
                ELSE 1 - Down!InForce(v4[c1].script)'
  PROVE  Down!TableInv'
BY DEF Down!TableInv, Down!AtScript

LEMMA DownStarts ==
  ASSUME Down!TableInv, NEW n \in Down!Numbers, NEW fake \in BOOLEAN, Down!Start(c1, n, fake)
  PROVE  Down!TableInv'
<1> DEFINE t == v4'[c1]
<1>1. /\ Down!VersionInv' /\ UNCHANGED <<v1, v2, v3>> /\ t.at = "pick" /\ t.rows = v2 /\ v4[c1] = Down!Idle
      /\ t.todo = IF t.up THEN v1 ELSE v2
  BY DownStart DEF Down!TableInv
<1>2. v4[c1].at = "idle"
  BY <1>1 DEF Down!Idle
<1>3. \A s \in Down!Scripts \ Irreversible : \A k \in Down!Ops : v3[s][k] = Down!InForce(s)
  BY <1>2 DEF Down!TableInv, Down!AtScript
<1>4. \A s \in Down!Scripts \ Irreversible : \A k \in Down!Ops : v3'[s][k] = Down!InForce(s)'
  BY <1>1, <1>3 DEF Down!InForce
<1>5. IF t.up THEN t.todo \cap v2' \subseteq t.rows ELSE t.todo \subseteq v2'
  BY <1>1
<1>6. QED
  BY <1>1, <1>4, <1>5, DownMoves

LEMMA DownPicks2 ==
  ASSUME Down!TableInv, Down!Pick(c1)
  PROVE  Down!TableInv'
<1> DEFINE t == v4'[c1]
           old == v4[c1]
           f == Down!NextFile(c1)
<1>1. /\ Down!VersionInv' /\ UNCHANGED <<v1, v2, v3>> /\ old.at = "pick"
      /\ t.up = old.up /\ t.rows = old.rows /\ f \in old.todo /\ t.todo = old.todo \ {f}
      /\ \/ t.at = "pick" /\ old.up /\ f \in old.rows
         \/ /\ t.at = "run" /\ t.script = f /\ t.op = 1
            /\ old.up => f \notin old.rows
  BY DownPick DEF Down!TableInv
<1>2. old # Down!Idle /\ old.todo \subseteq Down!Scripts
  BY <1>1, DownProc DEF Down!TableInv
<1>3. IF old.up THEN old.todo \cap v2 \subseteq old.rows ELSE old.todo \subseteq v2
  BY <1>2 DEF Down!TableInv
<1>4. \A s \in Down!Scripts \ Irreversible : \A k \in Down!Ops : v3[s][k] = Down!InForce(s)
  BY <1>1 DEF Down!TableInv, Down!AtScript
<1>5. \A s \in Down!Scripts \ Irreversible : \A k \in Down!Ops : v3'[s][k] = Down!InForce(s)'
  BY <1>1, <1>4 DEF Down!InForce
<1>6. \A k \in Down!Ops : k >= 1
  BY DEF Down!Ops
<1>7. f \in Down!Scripts
  BY <1>1, <1>2
<1> HIDE DEF t, old, f
<1>8. IF t.up THEN t.todo \cap v2' \subseteq t.rows ELSE t.todo \subseteq v2'
  BY <1>1, <1>3
<1>9. t.at \in {"run", "record"} => /\ t.at = "run" /\ t.script = f /\ t.op = 1 /\ t.script \notin t.todo
                                    /\ (t.up <=> t.script \notin v2')
  BY <1>1, <1>3
<1>10. \A k \in Down!Ops : f \notin Irreversible => v3[f][k] = IF f \in v2 THEN 1 ELSE 0
  BY <1>4, <1>7 DEF Down!InForce
<1>11. \A k \in Down!Ops : t.at \in {"run", "record"} /\ t.script \notin Irreversible =>
         k >= t.op /\ v3'[t.script][k] = IF t.script \in v2' THEN 1 ELSE 0
  BY <1>1, <1>6, <1>9, <1>10
<1>12. QED
  BY <1>1, <1>5, <1>8, <1>9, <1>11, DownMoves DEF t, Down!InForce

LEMMA DownRuns2 ==
  ASSUME Down!TableInv, Down!Run(c1)
  PROVE  Down!TableInv'
<1> DEFINE t == v4'[c1]
           old == v4[c1]
           f == old.script
<1>1. /\ Down!VersionInv' /\ UNCHANGED <<v1, v2>> /\ old.at = "run"
      /\ t.up = old.up /\ t.rows = old.rows /\ t.todo = old.todo /\ t.script = f
      /\ old.op \in 1..2 /\ t.op \in 1..2 /\ IF old.op = 1 THEN t.at = "run" /\ t.op = 2 ELSE t.at = "record"
      /\ \A s \in Down!Scripts : \A k \in Down!Ops : v3'[s][k] =
              IF s = f /\ k = old.op
              THEN IF old.up THEN v3[s][k] + 1 ELSE Down!Undone(s, v3[s][k])
              ELSE v3[s][k]
  BY DownRuns DEF Down!TableInv
<1>2. old # Down!Idle /\ f \in Down!Scripts
  BY <1>1, DownProc DEF Down!TableInv, Down!AtScript
<1>3. /\ IF old.up THEN old.todo \cap v2 \subseteq old.rows ELSE old.todo \subseteq v2
      /\ f \notin old.todo /\ (old.up <=> f \notin v2)
      /\ f \notin Irreversible => \A k \in Down!Ops : v3[f][k] =
           IF k >= old.op THEN Down!InForce(f) ELSE 1 - Down!InForce(f)
      /\ \A s \in Down!Scripts \ Irreversible : s # f => \A k \in Down!Ops : v3[s][k] = Down!InForce(s)
  BY <1>1, <1>2 DEF Down!TableInv, Down!AtScript
<1>4. \A s : Down!InForce(s)' = Down!InForce(s)
  BY <1>1 DEF Down!InForce
<1> HIDE DEF t, old, f
<1>5. \A s \in Down!Scripts \ Irreversible : s # f => \A k \in Down!Ops : v3'[s][k] = Down!InForce(s)
  BY <1>1, <1>3
<1>6. ASSUME f \notin Irreversible, NEW k \in Down!Ops
      PROVE  v3'[f][k] = IF t.at = "run" /\ k >= t.op THEN Down!InForce(f) ELSE 1 - Down!InForce(f)
  <2>1. k \in 1..2
    BY DEF Down!Ops
  <2>2. CASE k = old.op
    <3>1. v3[f][k] = Down!InForce(f) /\ Down!InForce(f) = (IF old.up THEN 0 ELSE 1)
      BY <1>1, <1>3, <1>6, <2>1, <2>2 DEF Down!InForce
    <3>2. v3'[f][k] = IF old.up THEN v3[f][k] + 1 ELSE Down!Undone(f, v3[f][k])
      BY <1>1, <1>2, <2>2
    <3>3. v3'[f][k] = 1 - Down!InForce(f)
      BY <1>6, <3>1, <3>2 DEF Down!Undone
    <3>4. ~(t.at = "run" /\ k >= t.op)
      BY <1>1, <2>2
    <3>5. QED
      BY <3>3, <3>4
  <2>3. CASE k # old.op
    <3>1. v3'[f][k] = v3[f][k]
      BY <1>1, <1>2, <2>3
    <3>2. v3[f][k] = IF k >= old.op THEN Down!InForce(f) ELSE 1 - Down!InForce(f)
      BY <1>3, <1>6
    <3>3. (t.at = "run" /\ k >= t.op) <=> k >= old.op
      BY <1>1, <2>1, <2>3
    <3>4. QED
      BY <3>1, <3>2, <3>3
  <2>4. QED
    BY <2>2, <2>3
<1>7. t.at \in {"run", "record"}
  BY <1>1
<1>8. IF t.up THEN t.todo \cap v2' \subseteq t.rows ELSE t.todo \subseteq v2'
  BY <1>1, <1>3
<1>9. t.script \notin t.todo /\ (t.up <=> t.script \notin v2')
  BY <1>1, <1>3
<1>10. \A s \in Down!Scripts \ Irreversible : \A k \in Down!Ops :
         v3'[s][k] = Down!InForce(s)' \/ (t.at \in {"run", "record"} /\ t.script = s)
  BY <1>1, <1>4, <1>5, <1>7
<1>11. t.script \notin Irreversible => \A k \in Down!Ops : v3'[t.script][k] =
                IF t.at = "run" /\ k >= t.op THEN Down!InForce(v4[c1].script)'
                ELSE 1 - Down!InForce(v4[c1].script)'
  <2>1. Down!InForce(v4[c1].script)' = Down!InForce(f)
    BY <1>1 DEF Down!InForce, t, f, old
  <2>2. QED
    BY <1>1, <1>6, <2>1
<1>12. QED
  BY <1>1, <1>7, <1>8, <1>9, <1>10, <1>11, DownMoves DEF t

LEMMA DownRecords ==
  ASSUME Down!TableInv, Down!Record(c1)
  PROVE  Down!TableInv'
<1> DEFINE t == v4'[c1]
           old == v4[c1]
           f == old.script
<1>1. /\ Down!VersionInv' /\ old.at = "record" /\ UNCHANGED <<v1, v3>>
      /\ \/ t = Down!Idle /\ v2' = v2 /\ (f \in v2 <=> old.up)
         \/ /\ t.at = "pick" /\ t.up = old.up /\ t.rows = old.rows /\ t.todo = old.todo
            /\ v2' = IF old.up THEN v2 \cup {f} ELSE v2 \ {f}
  BY DownRecord DEF Down!TableInv
<1>2. old # Down!Idle /\ f \in Down!Scripts
  BY <1>1, DownProc DEF Down!TableInv, Down!AtScript
<1>3. /\ IF old.up THEN old.todo \cap v2 \subseteq old.rows ELSE old.todo \subseteq v2
      /\ f \notin old.todo /\ (old.up <=> f \notin v2)
      /\ f \notin Irreversible => \A k \in Down!Ops : v3[f][k] = 1 - Down!InForce(f)
      /\ \A s \in Down!Scripts \ Irreversible : s # f => \A k \in Down!Ops : v3[s][k] = Down!InForce(s)
  BY <1>1, <1>2 DEF Down!TableInv, Down!AtScript
<1> HIDE DEF t, old, f
<1>4. /\ t.at = "pick" /\ t.up = old.up /\ t.rows = old.rows /\ t.todo = old.todo
      /\ v2' = IF old.up THEN v2 \cup {f} ELSE v2 \ {f}
  BY <1>1, <1>3
<1>5. \A s \in Down!Scripts \ Irreversible : \A k \in Down!Ops : v3'[s][k] = Down!InForce(s)'
  BY <1>1, <1>3, <1>4 DEF Down!InForce
<1>6. IF t.up THEN t.todo \cap v2' \subseteq t.rows ELSE t.todo \subseteq v2'
  BY <1>3, <1>4
<1>7. QED
  BY <1>1, <1>4, <1>5, <1>6, DownMoves DEF t

LEMMA DownSteps ==
  ASSUME Down!TableInv, [Down!Next]_(Down!vars)
  PROVE  Down!TableInv'
<1>1. ASSUME Down!End(c1) PROVE Down!TableInv'
  <2>1. /\ Down!VersionInv' /\ v4' = [v4 EXCEPT ![c1] = Down!Idle] /\ UNCHANGED <<v1, v2, v3>> /\ v4[c1].at = "pick"
    BY <1>1, DownStops DEF Down!TableInv, Down!End
  <2>2. v4'[c1] = Down!Idle /\ v4'[c1].at = "idle"
    BY <2>1 DEF Down!TableInv, Down!VersionInv, Down!Idle
  <2>3. \A s \in Down!Scripts \ Irreversible : \A k \in Down!Ops : v3'[s][k] = Down!InForce(s)'
    BY <2>1 DEF Down!TableInv, Down!AtScript, Down!InForce
  <2>4. QED
    BY <2>1, <2>2, <2>3, DownMoves
<1>2. ASSUME NEW s \in Down!Scripts, Down!Release(s) PROVE Down!TableInv'
  <2>1. Down!VersionInv' /\ UNCHANGED <<v2, v3, v4>>
    BY <1>2, DownRelease DEF Down!TableInv
  <2>2. QED
    BY <2>1 DEF Down!TableInv, Down!InForce, Down!AtScript
<1>3. CASE UNCHANGED Down!vars
  <2>1. UNCHANGED <<v1, v2, v3, v4, v5, v6>>
    BY <1>3 DEF Down!vars
  <2>2. QED
    BY <2>1 DEF Down!TableInv, Down!VersionInv, Down!TypeOK, Down!InForce, Down!AtScript
<1>4. ~Down!Halt(c1)
  BY DEF Down!Halt, Down!TableInv, Down!VersionInv, Down!TypeOK
<1>5. QED
  BY <1>1, <1>2, <1>3, <1>4, DownStarts, DownPicks2, DownRuns2, DownRecords DEF Down!Next, Down!Step

LEMMA DownBegins ==
  ASSUME Down!Init
  PROVE  Down!TableInv
<1>1. /\ v1 = Down!Scripts \ Late /\ v2 = {} /\ v3 = [s \in Down!Scripts |-> [k \in Down!Ops |-> 0]]
      /\ v4 = [p \in {c1} |-> Down!Idle] /\ v5 = 0 /\ v6 = 0
  BY DEF Down!Init
<1>2. MaxDowns \in Nat
  BY BoundsAssumption DEF Down!VersionAssumption
<1>3. Down!VersionInv
  BY <1>1, <1>2 DEF Down!VersionInv, Down!TypeOK, Down!AtScript, Down!Idle
<1>4. QED
  BY <1>1, <1>3 DEF Down!TableInv, Down!InForce, Down!AtScript, Down!Idle

VersionsInv == (In("Up") => Up!UpInv) /\ (In("Down") => Down!TableInv)

LEMMA InitVersions == InitAll => VersionsInv
BY UpBegins, DownBegins
  DEF InitAll, VersionsInv, In, JobGroupsInit, CleanupInit, ConfigInit, AloneInit, CacheInit,
  CacheCalmInit, SyncInit, SyncAllInit, DeltaInit, OverlapsInit, UpInit, DownInit, ScriptsInit

\* Whatever fails, is killed or runs at the same time going up, a script is recorded only after
\* its operations were in force and after those before it; and with one command at a time, which
\* may go down, what the table says is what is in force (upgradescripts, Manager).
THEOREM RecordedScriptsHaveRun ==
  SpecAll => [](/\ In("Up") => Up!RecordedHaveRun /\ Up!InOrder
                /\ In("Down") => Down!TableIsTrue)
<1>1. VersionsInv /\ [NextAll]_all => VersionsInv'
  BY StepOfComponent, UpSteps, DownSteps DEF VersionsInv, In
<1>2. Down!TableInv => Down!TableIsTrue
  BY DEF Down!TableInv, Down!TableIsTrue, Down!AtScript, Down!Idle, Down!InForce
<1>3. VersionsInv => /\ In("Up") => Up!RecordedHaveRun /\ Up!InOrder
                     /\ In("Down") => Down!TableIsTrue
  BY <1>2 DEF VersionsInv, Up!UpInv
<1>4. QED
  BY InitVersions, <1>1, <1>3, PTL DEF SpecAll

-----------------------------------------------------------------------------
(* CacheVersion: what counts the versions.                                 *)

\* Each write counts once at most: the commits to come, and the counts, are among the writes.
CountsWriting(step) == {w \in Writers : v6[w].at = step}
CountsInv ==
  /\ v1 \in Nat /\ v7 \in 0..MaxWrites /\ v8 \in 0..MaxNow
  /\ v6 \in [Writers -> {Cache!Idle} \cup [at : {"saved", "written"}]]
  /\ \A step \in {"saved", "written"} : IsFiniteSet(CountsWriting(step))
  /\ v1 + Cardinality(CountsWriting("saved")) <= v7
  /\ Cardinality(CountsWriting("written")) <= v7
  /\ v2 = Cache!Missing \/ v2 \in [value : Nat \ {0}, left : Nat \ {0}]
  /\ v2.value + Cardinality(CountsWriting("written")) <= v7 + 1
  /\ v5 \in [Clients -> {Cache!Idle} \cup [at : {"rendered"}, data : Nat, asOf : Nat]]
  /\ \A c \in Clients : v5[c] # Cache!Idle => v5[c].data <= v1
  /\ v4 \in [Clients -> [etag : Nat, data : Nat]] /\ \A c \in Clients : v4[c].data <= v1
  /\ \A v \in DOMAIN v3 : /\ v \in 1..(v7 + 1)
                          /\ v3[v] \in [data : Nat, asOf : Nat, left : Nat \ {0}] /\ v3[v].data <= v1

LEMMA CountsVersions ==
  ASSUME CountsInv
  PROVE  /\ Cache!Read \in [value : Nat \ {0}, left : Nat \ {0}]
         /\ Cache!Counted \in [value : Nat \ {0}, left : Nat \ {0}]
         /\ Cache!Read.value + Cardinality(CountsWriting("written")) <= v7 + 1
         /\ Cache!Counted.value + Cardinality(CountsWriting("written")) <= v7 + 2
<1>1. /\ VersionTTL \in Nat \ {0} /\ SetTTL \in Nat \ {0} /\ CalmTTL \in Nat \ {0}
  BY BoundsAssumption DEF Cache!CacheAssumption, CacheCalm!CacheAssumption
<1>2. Cardinality(CountsWriting("written")) \in Nat /\ Cardinality(CountsWriting("written")) <= v7 /\ v7 \in Nat
  BY FS_CardinalityType DEF CountsInv
<1>3. CASE v2 = Cache!Missing
  BY <1>1, <1>2, <1>3 DEF Cache!Read, Cache!Counted, Cache!Missing
<1>4. CASE v2 # Cache!Missing
  <2>1. v2 \in [value : Nat \ {0}, left : Nat \ {0}] /\ v2.value + Cardinality(CountsWriting("written")) <= v7 + 1
    BY <1>4 DEF CountsInv
  <2>2. Cache!Read = v2 /\ Cache!Counted = [v2 EXCEPT !.value = @ + 1]
    BY <1>4 DEF Cache!Read, Cache!Counted
  <2>3. /\ Cache!Counted \in [value : Nat \ {0}, left : Nat \ {0}]
        /\ Cache!Counted.value = v2.value + 1
    BY <2>1, <2>2
  <2> HIDE DEF Cache!Counted
  <2>4. QED
    BY <1>2, <2>1, <2>2, <2>3
<1>5. QED
  BY <1>3, <1>4

\* A writer that moves is counted where it is.
LEMMA CountsMoves ==
  ASSUME CountsInv, NEW w \in Writers, NEW t, v6' = [v6 EXCEPT ![w] = t]
  PROVE  \A step \in {"saved", "written"} :
           /\ IsFiniteSet(CountsWriting(step)) /\ IsFiniteSet(CountsWriting(step)')
           /\ Cardinality(CountsWriting(step)) \in Nat
           /\ Cardinality(CountsWriting(step)') =
                IF t.at = step
                THEN IF v6[w].at = step THEN Cardinality(CountsWriting(step)) ELSE Cardinality(CountsWriting(step)) + 1
                ELSE IF v6[w].at = step THEN Cardinality(CountsWriting(step)) - 1 ELSE Cardinality(CountsWriting(step))
<1> SUFFICES ASSUME NEW step \in {"saved", "written"}
             PROVE  /\ IsFiniteSet(CountsWriting(step)) /\ IsFiniteSet(CountsWriting(step)')
                    /\ Cardinality(CountsWriting(step)) \in Nat
                    /\ Cardinality(CountsWriting(step)') =
                         IF t.at = step
                         THEN IF v6[w].at = step THEN Cardinality(CountsWriting(step)) ELSE Cardinality(CountsWriting(step)) + 1
                         ELSE IF v6[w].at = step THEN Cardinality(CountsWriting(step)) - 1 ELSE Cardinality(CountsWriting(step))
  OBVIOUS
<1> DEFINE S == CountsWriting(step)
<1>1. IsFiniteSet(S)
  BY DEF CountsInv
<1>2. w \in S <=> v6[w].at = step
  BY DEF CountsWriting
<1>3. v6 = [q \in Writers |-> v6[q]]
  BY DEF CountsInv
<1>4. S' = IF t.at = step THEN S \cup {w} ELSE S \ {w}
  BY <1>3 DEF CountsWriting
<1> HIDE DEF S
<1>5. /\ Cardinality(S) \in Nat /\ IsFiniteSet(S \cup {w}) /\ IsFiniteSet(S \ {w})
      /\ Cardinality(S \cup {w}) = IF w \in S THEN Cardinality(S) ELSE Cardinality(S) + 1
      /\ Cardinality(S \ {w}) = IF w \in S THEN Cardinality(S) - 1 ELSE Cardinality(S)
  BY <1>1, FS_CardinalityType, FS_AddElement, FS_RemoveElement
<1>6. QED
  BY <1>1, <1>2, <1>4, <1>5 DEF S

LEMMA CountsWrite ==
  ASSUME CountsInv, NEW w \in Writers, Cache!Write(w)
  PROVE  CountsInv'
<1> DEFINE W == Cardinality(CountsWriting("written"))
           S == Cardinality(CountsWriting("saved"))
<1>1. UNCHANGED <<v3, v4, v5, v8>>
  BY DEF Cache!Write, Cache!Save, Cache!Commit, Cache!Rollback, Cache!Bulk, Cache!Count, Cache!Uncounted
<1>2. /\ v1 \in Nat /\ v7 \in Nat /\ v1 + S <= v7 /\ W <= v7 /\ S \in Nat /\ W \in Nat
      /\ v2.value + W <= v7 + 1 /\ (v2 = Cache!Missing \/ v2 \in [value : Nat \ {0}, left : Nat \ {0}])
  BY FS_CardinalityType DEF CountsInv
<1>3. MaxWrites \in Nat /\ v7 <= MaxWrites
  BY BoundsAssumption DEF CountsInv, Cache!CacheAssumption
<1>4. /\ Cache!Counted \in [value : Nat \ {0}, left : Nat \ {0}]
      /\ Cache!Read.value + W <= v7 + 1 /\ Cache!Counted.value + W <= v7 + 2
  BY CountsVersions
<1>5. v2.value \in Nat /\ Cache!Counted.value \in Nat
  BY <1>2, <1>4 DEF Cache!Missing
<1>6. v6 \in [Writers -> {Cache!Idle} \cup [at : {"saved", "written"}]]
  BY DEF CountsInv
<1>7. v6[w] = Cache!Idle => v6[w].at = "idle"
  BY DEF Cache!Idle
<1>8. \E t \in {Cache!Idle, [at |-> "saved"], [at |-> "written"]} :
        /\ v6' = [v6 EXCEPT ![w] = t]
        /\ \/ v6[w].at = "idle" /\ t.at = "saved" /\ v7 < MaxWrites /\ v7' = v7 + 1 /\ v1' = v1 /\ v2' = Cache!Counted
           \/ v6[w].at = "saved" /\ t.at = "idle" /\ v7' = v7 /\ v1' \in {v1, v1 + 1} /\ v2' = v2
           \/ v6[w].at = "idle" /\ t.at = "written" /\ v7 < MaxWrites /\ v7' = v7 + 1 /\ v1' = v1 + 1 /\ v2' = v2
           \/ v6[w].at = "written" /\ t.at = "idle" /\ v7' = v7 /\ v1' = v1 /\ v2' \in {v2, Cache!Counted}
  <2>1. CASE Cache!Save(w)
    <3> WITNESS [at |-> "saved"] \in {Cache!Idle, [at |-> "saved"], [at |-> "written"]}
    <3>1. QED
      BY <1>7, <2>1 DEF Cache!Save, Cache!MayWrite
  <2>2. CASE Cache!Bulk(w)
    <3> WITNESS [at |-> "written"] \in {Cache!Idle, [at |-> "saved"], [at |-> "written"]}
    <3>1. QED
      BY <1>7, <2>2 DEF Cache!Bulk, Cache!MayWrite
  <2>3. CASE Cache!Commit(w) \/ Cache!Rollback(w) \/ Cache!Count(w) \/ Cache!Uncounted(w)
    <3> WITNESS Cache!Idle \in {Cache!Idle, [at |-> "saved"], [at |-> "written"]}
    <3>1. QED
      BY <2>3 DEF Cache!Commit, Cache!Rollback, Cache!Count, Cache!Uncounted, Cache!Idle
  <2>4. QED
    BY <2>1, <2>2, <2>3 DEF Cache!Write
<1>9. PICK t \in {Cache!Idle, [at |-> "saved"], [at |-> "written"]} :
        /\ v6' = [v6 EXCEPT ![w] = t]
        /\ \/ v6[w].at = "idle" /\ t.at = "saved" /\ v7 < MaxWrites /\ v7' = v7 + 1 /\ v1' = v1 /\ v2' = Cache!Counted
           \/ v6[w].at = "saved" /\ t.at = "idle" /\ v7' = v7 /\ v1' \in {v1, v1 + 1} /\ v2' = v2
           \/ v6[w].at = "idle" /\ t.at = "written" /\ v7 < MaxWrites /\ v7' = v7 + 1 /\ v1' = v1 + 1 /\ v2' = v2
           \/ v6[w].at = "written" /\ t.at = "idle" /\ v7' = v7 /\ v1' = v1 /\ v2' \in {v2, Cache!Counted}
  BY <1>8
<1>10. v6' \in [Writers -> {Cache!Idle} \cup [at : {"saved", "written"}]]
  BY <1>6, <1>9
<1>11. /\ \A step \in {"saved", "written"} : IsFiniteSet(CountsWriting(step)')
       /\ Cardinality(CountsWriting("saved")') = IF t.at = "saved"
            THEN IF v6[w].at = "saved" THEN S ELSE S + 1 ELSE IF v6[w].at = "saved" THEN S - 1 ELSE S
       /\ Cardinality(CountsWriting("written")') = IF t.at = "written"
            THEN IF v6[w].at = "written" THEN W ELSE W + 1 ELSE IF v6[w].at = "written" THEN W - 1 ELSE W
  BY <1>9, CountsMoves
<1> HIDE DEF S, W
<1>12. /\ v1' \in Nat /\ v1 <= v1' /\ v7' \in 0..MaxWrites /\ v7 <= v7'
       /\ v1' + Cardinality(CountsWriting("saved")') <= v7'
       /\ Cardinality(CountsWriting("written")') <= v7'
       /\ v2'.value + Cardinality(CountsWriting("written")') <= v7' + 1
  BY <1>2, <1>3, <1>4, <1>5, <1>9, <1>11
<1>13. v2' = Cache!Missing \/ v2' \in [value : Nat \ {0}, left : Nat \ {0}]
  BY <1>2, <1>4, <1>9
<1>14. /\ \A c \in Clients : v5'[c] # Cache!Idle => v5'[c].data <= v1'
       /\ \A c \in Clients : v4'[c].data <= v1'
  <2>1. \A c \in Clients : /\ v5[c] # Cache!Idle => v5[c].data \in Nat /\ v5[c].data <= v1
                           /\ v4[c].data \in Nat /\ v4[c].data <= v1
    BY DEF CountsInv
  <2>2. QED
    BY <1>1, <1>2, <1>12, <2>1
<1>15. \A v \in DOMAIN v3' : /\ v \in 1..(v7' + 1)
                             /\ v3'[v] \in [data : Nat, asOf : Nat, left : Nat \ {0}] /\ v3'[v].data <= v1'
  <2>1. \A v \in DOMAIN v3 : /\ v \in 1..(v7 + 1) /\ v3[v].data \in Nat
                             /\ v3[v] \in [data : Nat, asOf : Nat, left : Nat \ {0}] /\ v3[v].data <= v1
    BY DEF CountsInv
  <2>2. v7' \in Nat
    BY <1>2, <1>12
  <2>3. QED
    BY <1>1, <1>2, <1>12, <2>1, <2>2
<1>16. v8' \in 0..MaxNow /\ v5' \in [Clients -> {Cache!Idle} \cup [at : {"rendered"}, data : Nat, asOf : Nat]]
       /\ v4' \in [Clients -> [etag : Nat, data : Nat]]
  BY <1>1 DEF CountsInv
<1>17. QED
  BY <1>10, <1>11, <1>12, <1>13, <1>14, <1>15, <1>16 DEF CountsInv

LEMMA CountsRequest ==
  ASSUME CountsInv, NEW c \in Clients, Cache!Request(c)
  PROVE  CountsInv'
<1> DEFINE key == Cache!Read.value
<1>1. v2' = Cache!Read /\ UNCHANGED <<v1, v6, v7, v8>>
  BY DEF Cache!Request, Cache!NotModified, Cache!FromCache, Cache!Render, Cache!Respond, Cache!Invalidate
<1>2. /\ Cache!Read \in [value : Nat \ {0}, left : Nat \ {0}]
      /\ key + Cardinality(CountsWriting("written")) <= v7 + 1
  BY CountsVersions
<1>3. \A step : CountsWriting(step)' = CountsWriting(step)
  BY <1>1 DEF CountsWriting
<1>4. /\ v1 \in Nat /\ v7 \in Nat /\ v8 \in Nat /\ Cardinality(CountsWriting("written")) \in Nat
  BY FS_CardinalityType DEF CountsInv
<1>5. key \in 1..(v7 + 1) /\ key \in Nat
  BY <1>2, <1>4
<1> HIDE DEF key
<1>6. /\ v4 \in [Clients -> [etag : Nat, data : Nat]] /\ \A d \in Clients : v4[d].data <= v1
      /\ v5 \in [Clients -> {Cache!Idle} \cup [at : {"rendered"}, data : Nat, asOf : Nat]]
      /\ \A d \in Clients : v5[d] # Cache!Idle => v5[d].data <= v1
      /\ \A v \in DOMAIN v3 : /\ v \in 1..(v7 + 1)
                              /\ v3[v] \in [data : Nat, asOf : Nat, left : Nat \ {0}] /\ v3[v].data <= v1
  BY DEF CountsInv
<1>7. /\ v4' \in [Clients -> [etag : Nat, data : Nat]] /\ \A d \in Clients : v4'[d].data <= v1
      /\ v5' \in [Clients -> {Cache!Idle} \cup [at : {"rendered"}, data : Nat, asOf : Nat]]
      /\ \A d \in Clients : v5'[d] # Cache!Idle => v5'[d].data <= v1
      /\ \A v \in DOMAIN v3' : /\ v \in 1..(v7 + 1)
                               /\ v3'[v] \in [data : Nat, asOf : Nat, left : Nat \ {0}] /\ v3'[v].data <= v1
  <2>1. CASE Cache!NotModified(c)
    BY <1>6, <2>1 DEF Cache!NotModified
  <2>2. CASE Cache!FromCache(c)
    <3> DEFINE t == [etag |-> key, data |-> v3[key].data]
    <3>1. key \in DOMAIN v3 /\ UNCHANGED <<v3, v5>> /\ v4' = [v4 EXCEPT ![c] = t]
      BY <2>2 DEF Cache!FromCache, key
    <3>2. t \in [etag : Nat, data : Nat] /\ t.data <= v1
      BY <1>5, <1>6, <3>1
    <3> HIDE DEF t
    <3>3. QED
      BY <1>6, <3>1, <3>2
  <2>3. CASE Cache!Render(c)
    <3> DEFINE t == [at |-> "rendered", data |-> v1, asOf |-> v8]
    <3>1. UNCHANGED <<v3, v4>> /\ v5' = [v5 EXCEPT ![c] = t]
      BY <2>3 DEF Cache!Render
    <3>2. t \in [at : {"rendered"}, data : Nat, asOf : Nat] /\ t.data <= v1
      BY <1>4
    <3> HIDE DEF t
    <3>3. QED
      BY <1>6, <3>1, <3>2
  <2>4. CASE Cache!Respond(c)
    <3> DEFINE page == [data |-> v5[c].data, asOf |-> v5[c].asOf, left |-> PageTTL]
               t == [etag |-> key, data |-> v5[c].data]
    <3>1. /\ v5[c] # Cache!Idle /\ v5' = [v5 EXCEPT ![c] = Cache!Idle] /\ v4' = [v4 EXCEPT ![c] = t]
          /\ v3' = [v \in DOMAIN v3 \cup {key} |-> IF v = key THEN page ELSE v3[v]]
      BY <2>4 DEF Cache!Respond, key
    <3>2. PageTTL \in Nat \ {0}
      BY BoundsAssumption DEF Cache!CacheAssumption
    <3>3. v5[c] \in [at : {"rendered"}, data : Nat, asOf : Nat] /\ v5[c].data <= v1
      BY <1>6, <3>1
    <3>4. /\ page \in [data : Nat, asOf : Nat, left : Nat \ {0}] /\ page.data <= v1
          /\ t \in [etag : Nat, data : Nat] /\ t.data <= v1
      BY <1>5, <3>2, <3>3
    <3> HIDE DEF page, t
    <3>5. DOMAIN v3' = DOMAIN v3 \cup {key} /\ v3'[key] = page /\ \A v \in DOMAIN v3 : v # key => v3'[v] = v3[v]
      BY <3>1
    <3>6. \A v \in DOMAIN v3' : /\ v \in 1..(v7 + 1)
                                /\ v3'[v] \in [data : Nat, asOf : Nat, left : Nat \ {0}] /\ v3'[v].data <= v1
      BY <1>5, <1>6, <3>4, <3>5
    <3>7. QED
      BY <1>6, <3>1, <3>4, <3>6
  <2>5. CASE Cache!Invalidate(c)
    BY <1>6, <2>5 DEF Cache!Invalidate
  <2>6. QED
    BY <2>1, <2>2, <2>3, <2>4, <2>5 DEF Cache!Request
<1>8. v2'.value + Cardinality(CountsWriting("written")) <= v7 + 1
  BY <1>1, <1>2 DEF key
<1>9. QED
  BY <1>1, <1>2, <1>3, <1>7, <1>8 DEF CountsInv

LEMMA CountsTicks ==
  ASSUME CountsInv, Cache!Tick
  PROVE  CountsInv'
<1>1. /\ v8 < MaxNow /\ v8' = v8 + 1 /\ UNCHANGED <<v1, v4, v5, v6, v7>>
      /\ v2' = IF v2.left <= 1 THEN Cache!Missing ELSE [v2 EXCEPT !.left = @ - 1]
      /\ v3' = [v \in {u \in DOMAIN v3 : v3[u].left > 1} |-> [v3[v] EXCEPT !.left = @ - 1]]
  BY DEF Cache!Tick
<1>2. \A step : CountsWriting(step)' = CountsWriting(step)
  BY <1>1 DEF CountsWriting
<1>3. ASSUME NEW v \in DOMAIN v3'
      PROVE  /\ v \in 1..(v7 + 1)
             /\ v3'[v] \in [data : Nat, asOf : Nat, left : Nat \ {0}] /\ v3'[v].data <= v1
  <2>1. v \in DOMAIN v3 /\ v3[v].left > 1 /\ v3'[v] = [v3[v] EXCEPT !.left = @ - 1]
    BY <1>1
  <2>2. v3[v] \in [data : Nat, asOf : Nat, left : Nat \ {0}] /\ v3[v].data <= v1 /\ v \in 1..(v7 + 1)
    BY <2>1 DEF CountsInv
  <2>3. QED
    BY <2>1, <2>2
<1>4. /\ v2' = Cache!Missing \/ v2' \in [value : Nat \ {0}, left : Nat \ {0}]
      /\ v2'.value + Cardinality(CountsWriting("written")) <= v7 + 1
  <2>1. CASE v2.left <= 1
    <3>1. v2' = Cache!Missing
      BY <1>1, <2>1
    <3>2. Cardinality(CountsWriting("written")) \in Nat /\ Cardinality(CountsWriting("written")) <= v7 /\ v7 \in Nat
      BY FS_CardinalityType DEF CountsInv
    <3>3. QED
      BY <3>1, <3>2 DEF Cache!Missing
  <2>2. CASE ~(v2.left <= 1)
    <3>1. v2' = [v2 EXCEPT !.left = @ - 1] /\ v2 # Cache!Missing
      BY <1>1, <2>2 DEF Cache!Missing
    <3>2. v2 \in [value : Nat \ {0}, left : Nat \ {0}]
      BY <3>1 DEF CountsInv
    <3>3. v2' \in [value : Nat \ {0}, left : Nat \ {0}] /\ v2'.value = v2.value
      BY <2>2, <3>1, <3>2
    <3>4. QED
      BY <3>3 DEF CountsInv
  <2>3. QED
    BY <2>1, <2>2
<1>5. v8' \in 0..MaxNow
  BY <1>1, BoundsAssumption DEF CountsInv, Cache!CacheAssumption
<1>6. QED
  BY <1>1, <1>2, <1>3, <1>4, <1>5 DEF CountsInv

LEMMA CountsNext ==
  ASSUME CountsInv, [Cache!Next]_(Cache!vars)
  PROVE  CountsInv'
<1>1. CASE UNCHANGED Cache!vars
  BY <1>1 DEF Cache!vars, CountsInv, CountsWriting
<1>2. CASE Cache!Next
  BY <1>2, CountsWrite, CountsRequest, CountsTicks DEF Cache!Next
<1>3. QED
  BY <1>1, <1>2

LEMMA CountsBegins ==
  ASSUME Cache!Init
  PROVE  CountsInv
<1>1. /\ v1 = 0 /\ v2 = Cache!Missing /\ v3 = <<>> /\ v7 = 0 /\ v8 = 0
      /\ v4 = [c \in Clients |-> Cache!None] /\ v5 = [c \in Clients |-> Cache!Idle] /\ v6 = [w \in Writers |-> Cache!Idle]
  BY DEF Cache!Init
<1>2. \A step \in {"saved", "written"} : CountsWriting(step) = {}
  BY <1>1 DEF CountsWriting, Cache!Idle
<1>3. IsFiniteSet({}) /\ Cardinality({}) = 0
  BY FS_EmptySet
<1>4. MaxWrites \in Nat /\ MaxNow \in Nat
  BY BoundsAssumption DEF Cache!CacheAssumption
<1>5. v2.value = 0 /\ \A c \in Clients : v4[c] \in [etag : Nat, data : Nat] /\ v4[c].data = 0
  BY <1>1 DEF Cache!Missing, Cache!None
<1>6. /\ \A step \in {"saved", "written"} : IsFiniteSet(CountsWriting(step)) /\ Cardinality(CountsWriting(step)) = 0
  BY <1>2, <1>3
<1>7. /\ v6 \in [Writers -> {Cache!Idle} \cup [at : {"saved", "written"}]]
      /\ v5 \in [Clients -> {Cache!Idle} \cup [at : {"rendered"}, data : Nat, asOf : Nat]]
      /\ v4 \in [Clients -> [etag : Nat, data : Nat]] /\ DOMAIN v3 = {}
      /\ \A c \in Clients : v5[c] = Cache!Idle
  BY <1>1, <1>5
<1>8. v8 \in 0..MaxNow /\ v7 \in 0..MaxWrites
  BY <1>1, <1>4
<1>9. QED
  BY <1>1, <1>5, <1>6, <1>7, <1>8 DEF CountsInv

LEMMA CountsTells == CountsInv => Cache!TypeOK
<1> SUFFICES ASSUME CountsInv PROVE Cache!TypeOK
  OBVIOUS
<1>1. /\ Cardinality(CountsWriting("saved")) \in Nat /\ Cardinality(CountsWriting("written")) \in Nat
      /\ v1 + Cardinality(CountsWriting("saved")) <= v7 /\ v1 \in Nat /\ v7 \in 0..MaxWrites
      /\ v2.value + Cardinality(CountsWriting("written")) <= v7 + 1
  BY FS_CardinalityType DEF CountsInv
<1>2. v2.value \in Nat
  BY DEF CountsInv, Cache!Missing
<1>3. v1 \in 0..v7 /\ v2.value \in 0..(v7 + 1)
  BY <1>1, <1>2
<1>4. QED
  BY <1>1, <1>3 DEF CountsInv, Cache!TypeOK

\* Each write counts once at most: the commits to come, and the counts, are among the writes.
CalmCountsWriting(step) == {w \in CalmWriters : v6[w].at = step}
CalmCountsInv ==
  /\ v1 \in Nat /\ v7 \in 0..CalmWrites /\ v8 \in 0..MaxNow
  /\ v6 \in [CalmWriters -> {CacheCalm!Idle} \cup [at : {"saved", "written"}]]
  /\ \A step \in {"saved", "written"} : IsFiniteSet(CalmCountsWriting(step))
  /\ v1 + Cardinality(CalmCountsWriting("saved")) <= v7
  /\ Cardinality(CalmCountsWriting("written")) <= v7
  /\ v2 = CacheCalm!Missing \/ v2 \in [value : Nat \ {0}, left : Nat \ {0}]
  /\ v2.value + Cardinality(CalmCountsWriting("written")) <= v7 + 1
  /\ v5 \in [Clients -> {CacheCalm!Idle} \cup [at : {"rendered"}, data : Nat, asOf : Nat]]
  /\ \A c \in Clients : v5[c] # CacheCalm!Idle => v5[c].data <= v1
  /\ v4 \in [Clients -> [etag : Nat, data : Nat]] /\ \A c \in Clients : v4[c].data <= v1
  /\ \A v \in DOMAIN v3 : /\ v \in 1..(v7 + 1)
                          /\ v3[v] \in [data : Nat, asOf : Nat, left : Nat \ {0}] /\ v3[v].data <= v1

LEMMA CalmCountsVersions ==
  ASSUME CalmCountsInv
  PROVE  /\ CacheCalm!Read \in [value : Nat \ {0}, left : Nat \ {0}]
         /\ CacheCalm!Counted \in [value : Nat \ {0}, left : Nat \ {0}]
         /\ CacheCalm!Read.value + Cardinality(CalmCountsWriting("written")) <= v7 + 1
         /\ CacheCalm!Counted.value + Cardinality(CalmCountsWriting("written")) <= v7 + 2
<1>1. /\ VersionTTL \in Nat \ {0} /\ SetTTL \in Nat \ {0} /\ CalmTTL \in Nat \ {0}
  BY BoundsAssumption DEF Cache!CacheAssumption, CacheCalm!CacheAssumption
<1>2. Cardinality(CalmCountsWriting("written")) \in Nat /\ Cardinality(CalmCountsWriting("written")) <= v7 /\ v7 \in Nat
  BY FS_CardinalityType DEF CalmCountsInv
<1>3. CASE v2 = CacheCalm!Missing
  BY <1>1, <1>2, <1>3 DEF CacheCalm!Read, CacheCalm!Counted, CacheCalm!Missing
<1>4. CASE v2 # CacheCalm!Missing
  <2>1. v2 \in [value : Nat \ {0}, left : Nat \ {0}] /\ v2.value + Cardinality(CalmCountsWriting("written")) <= v7 + 1
    BY <1>4 DEF CalmCountsInv
  <2>2. CacheCalm!Read = v2 /\ CacheCalm!Counted = [v2 EXCEPT !.value = @ + 1]
    BY <1>4 DEF CacheCalm!Read, CacheCalm!Counted
  <2>3. /\ CacheCalm!Counted \in [value : Nat \ {0}, left : Nat \ {0}]
        /\ CacheCalm!Counted.value = v2.value + 1
    BY <2>1, <2>2
  <2> HIDE DEF CacheCalm!Counted
  <2>4. QED
    BY <1>2, <2>1, <2>2, <2>3
<1>5. QED
  BY <1>3, <1>4

\* A writer that moves is counted where it is.
LEMMA CalmCountsMoves ==
  ASSUME CalmCountsInv, NEW w \in CalmWriters, NEW t, v6' = [v6 EXCEPT ![w] = t]
  PROVE  \A step \in {"saved", "written"} :
           /\ IsFiniteSet(CalmCountsWriting(step)) /\ IsFiniteSet(CalmCountsWriting(step)')
           /\ Cardinality(CalmCountsWriting(step)) \in Nat
           /\ Cardinality(CalmCountsWriting(step)') =
                IF t.at = step
                THEN IF v6[w].at = step THEN Cardinality(CalmCountsWriting(step)) ELSE Cardinality(CalmCountsWriting(step)) + 1
                ELSE IF v6[w].at = step THEN Cardinality(CalmCountsWriting(step)) - 1 ELSE Cardinality(CalmCountsWriting(step))
<1> SUFFICES ASSUME NEW step \in {"saved", "written"}
             PROVE  /\ IsFiniteSet(CalmCountsWriting(step)) /\ IsFiniteSet(CalmCountsWriting(step)')
                    /\ Cardinality(CalmCountsWriting(step)) \in Nat
                    /\ Cardinality(CalmCountsWriting(step)') =
                         IF t.at = step
                         THEN IF v6[w].at = step THEN Cardinality(CalmCountsWriting(step)) ELSE Cardinality(CalmCountsWriting(step)) + 1
                         ELSE IF v6[w].at = step THEN Cardinality(CalmCountsWriting(step)) - 1 ELSE Cardinality(CalmCountsWriting(step))
  OBVIOUS
<1> DEFINE S == CalmCountsWriting(step)
<1>1. IsFiniteSet(S)
  BY DEF CalmCountsInv
<1>2. w \in S <=> v6[w].at = step
  BY DEF CalmCountsWriting
<1>3. v6 = [q \in CalmWriters |-> v6[q]]
  BY DEF CalmCountsInv
<1>4. S' = IF t.at = step THEN S \cup {w} ELSE S \ {w}
  BY <1>3 DEF CalmCountsWriting
<1> HIDE DEF S
<1>5. /\ Cardinality(S) \in Nat /\ IsFiniteSet(S \cup {w}) /\ IsFiniteSet(S \ {w})
      /\ Cardinality(S \cup {w}) = IF w \in S THEN Cardinality(S) ELSE Cardinality(S) + 1
      /\ Cardinality(S \ {w}) = IF w \in S THEN Cardinality(S) - 1 ELSE Cardinality(S)
  BY <1>1, FS_CardinalityType, FS_AddElement, FS_RemoveElement
<1>6. QED
  BY <1>1, <1>2, <1>4, <1>5 DEF S

LEMMA CalmCountsWrite ==
  ASSUME CalmCountsInv, NEW w \in CalmWriters, CacheCalm!Write(w)
  PROVE  CalmCountsInv'
<1> DEFINE W == Cardinality(CalmCountsWriting("written"))
           S == Cardinality(CalmCountsWriting("saved"))
<1>1. UNCHANGED <<v3, v4, v5, v8>>
  BY DEF CacheCalm!Write, CacheCalm!Save, CacheCalm!Commit, CacheCalm!Rollback, CacheCalm!Bulk, CacheCalm!Count, CacheCalm!Uncounted
<1>2. /\ v1 \in Nat /\ v7 \in Nat /\ v1 + S <= v7 /\ W <= v7 /\ S \in Nat /\ W \in Nat
      /\ v2.value + W <= v7 + 1 /\ (v2 = CacheCalm!Missing \/ v2 \in [value : Nat \ {0}, left : Nat \ {0}])
  BY FS_CardinalityType DEF CalmCountsInv
<1>3. CalmWrites \in Nat /\ v7 <= CalmWrites
  BY BoundsAssumption DEF CalmCountsInv, CacheCalm!CacheAssumption
<1>4. /\ CacheCalm!Counted \in [value : Nat \ {0}, left : Nat \ {0}]
      /\ CacheCalm!Read.value + W <= v7 + 1 /\ CacheCalm!Counted.value + W <= v7 + 2
  BY CalmCountsVersions
<1>5. v2.value \in Nat /\ CacheCalm!Counted.value \in Nat
  BY <1>2, <1>4 DEF CacheCalm!Missing
<1>6. v6 \in [CalmWriters -> {CacheCalm!Idle} \cup [at : {"saved", "written"}]]
  BY DEF CalmCountsInv
<1>7. v6[w] = CacheCalm!Idle => v6[w].at = "idle"
  BY DEF CacheCalm!Idle
<1>8. \E t \in {CacheCalm!Idle, [at |-> "saved"], [at |-> "written"]} :
        /\ v6' = [v6 EXCEPT ![w] = t]
        /\ \/ v6[w].at = "idle" /\ t.at = "saved" /\ v7 < CalmWrites /\ v7' = v7 + 1 /\ v1' = v1 /\ v2' = CacheCalm!Counted
           \/ v6[w].at = "saved" /\ t.at = "idle" /\ v7' = v7 /\ v1' \in {v1, v1 + 1} /\ v2' = v2
           \/ v6[w].at = "idle" /\ t.at = "written" /\ v7 < CalmWrites /\ v7' = v7 + 1 /\ v1' = v1 + 1 /\ v2' = v2
           \/ v6[w].at = "written" /\ t.at = "idle" /\ v7' = v7 /\ v1' = v1 /\ v2' \in {v2, CacheCalm!Counted}
  <2>1. CASE CacheCalm!Save(w)
    <3> WITNESS [at |-> "saved"] \in {CacheCalm!Idle, [at |-> "saved"], [at |-> "written"]}
    <3>1. QED
      BY <1>7, <2>1 DEF CacheCalm!Save, CacheCalm!MayWrite
  <2>2. CASE CacheCalm!Bulk(w)
    <3> WITNESS [at |-> "written"] \in {CacheCalm!Idle, [at |-> "saved"], [at |-> "written"]}
    <3>1. QED
      BY <1>7, <2>2 DEF CacheCalm!Bulk, CacheCalm!MayWrite
  <2>3. CASE CacheCalm!Commit(w) \/ CacheCalm!Rollback(w) \/ CacheCalm!Count(w) \/ CacheCalm!Uncounted(w)
    <3> WITNESS CacheCalm!Idle \in {CacheCalm!Idle, [at |-> "saved"], [at |-> "written"]}
    <3>1. QED
      BY <2>3 DEF CacheCalm!Commit, CacheCalm!Rollback, CacheCalm!Count, CacheCalm!Uncounted, CacheCalm!Idle
  <2>4. QED
    BY <2>1, <2>2, <2>3 DEF CacheCalm!Write
<1>9. PICK t \in {CacheCalm!Idle, [at |-> "saved"], [at |-> "written"]} :
        /\ v6' = [v6 EXCEPT ![w] = t]
        /\ \/ v6[w].at = "idle" /\ t.at = "saved" /\ v7 < CalmWrites /\ v7' = v7 + 1 /\ v1' = v1 /\ v2' = CacheCalm!Counted
           \/ v6[w].at = "saved" /\ t.at = "idle" /\ v7' = v7 /\ v1' \in {v1, v1 + 1} /\ v2' = v2
           \/ v6[w].at = "idle" /\ t.at = "written" /\ v7 < CalmWrites /\ v7' = v7 + 1 /\ v1' = v1 + 1 /\ v2' = v2
           \/ v6[w].at = "written" /\ t.at = "idle" /\ v7' = v7 /\ v1' = v1 /\ v2' \in {v2, CacheCalm!Counted}
  BY <1>8
<1>10. v6' \in [CalmWriters -> {CacheCalm!Idle} \cup [at : {"saved", "written"}]]
  BY <1>6, <1>9
<1>11. /\ \A step \in {"saved", "written"} : IsFiniteSet(CalmCountsWriting(step)')
       /\ Cardinality(CalmCountsWriting("saved")') = IF t.at = "saved"
            THEN IF v6[w].at = "saved" THEN S ELSE S + 1 ELSE IF v6[w].at = "saved" THEN S - 1 ELSE S
       /\ Cardinality(CalmCountsWriting("written")') = IF t.at = "written"
            THEN IF v6[w].at = "written" THEN W ELSE W + 1 ELSE IF v6[w].at = "written" THEN W - 1 ELSE W
  BY <1>9, CalmCountsMoves
<1> HIDE DEF S, W
<1>12. /\ v1' \in Nat /\ v1 <= v1' /\ v7' \in 0..CalmWrites /\ v7 <= v7'
       /\ v1' + Cardinality(CalmCountsWriting("saved")') <= v7'
       /\ Cardinality(CalmCountsWriting("written")') <= v7'
       /\ v2'.value + Cardinality(CalmCountsWriting("written")') <= v7' + 1
  BY <1>2, <1>3, <1>4, <1>5, <1>9, <1>11
<1>13. v2' = CacheCalm!Missing \/ v2' \in [value : Nat \ {0}, left : Nat \ {0}]
  BY <1>2, <1>4, <1>9
<1>14. /\ \A c \in Clients : v5'[c] # CacheCalm!Idle => v5'[c].data <= v1'
       /\ \A c \in Clients : v4'[c].data <= v1'
  <2>1. \A c \in Clients : /\ v5[c] # CacheCalm!Idle => v5[c].data \in Nat /\ v5[c].data <= v1
                           /\ v4[c].data \in Nat /\ v4[c].data <= v1
    BY DEF CalmCountsInv
  <2>2. QED
    BY <1>1, <1>2, <1>12, <2>1
<1>15. \A v \in DOMAIN v3' : /\ v \in 1..(v7' + 1)
                             /\ v3'[v] \in [data : Nat, asOf : Nat, left : Nat \ {0}] /\ v3'[v].data <= v1'
  <2>1. \A v \in DOMAIN v3 : /\ v \in 1..(v7 + 1) /\ v3[v].data \in Nat
                             /\ v3[v] \in [data : Nat, asOf : Nat, left : Nat \ {0}] /\ v3[v].data <= v1
    BY DEF CalmCountsInv
  <2>2. v7' \in Nat
    BY <1>2, <1>12
  <2>3. QED
    BY <1>1, <1>2, <1>12, <2>1, <2>2
<1>16. v8' \in 0..MaxNow /\ v5' \in [Clients -> {CacheCalm!Idle} \cup [at : {"rendered"}, data : Nat, asOf : Nat]]
       /\ v4' \in [Clients -> [etag : Nat, data : Nat]]
  BY <1>1 DEF CalmCountsInv
<1>17. QED
  BY <1>10, <1>11, <1>12, <1>13, <1>14, <1>15, <1>16 DEF CalmCountsInv

LEMMA CalmCountsRequest ==
  ASSUME CalmCountsInv, NEW c \in Clients, CacheCalm!Request(c)
  PROVE  CalmCountsInv'
<1> DEFINE key == CacheCalm!Read.value
<1>1. v2' = CacheCalm!Read /\ UNCHANGED <<v1, v6, v7, v8>>
  BY DEF CacheCalm!Request, CacheCalm!NotModified, CacheCalm!FromCache, CacheCalm!Render, CacheCalm!Respond, CacheCalm!Invalidate
<1>2. /\ CacheCalm!Read \in [value : Nat \ {0}, left : Nat \ {0}]
      /\ key + Cardinality(CalmCountsWriting("written")) <= v7 + 1
  BY CalmCountsVersions
<1>3. \A step : CalmCountsWriting(step)' = CalmCountsWriting(step)
  BY <1>1 DEF CalmCountsWriting
<1>4. /\ v1 \in Nat /\ v7 \in Nat /\ v8 \in Nat /\ Cardinality(CalmCountsWriting("written")) \in Nat
  BY FS_CardinalityType DEF CalmCountsInv
<1>5. key \in 1..(v7 + 1) /\ key \in Nat
  BY <1>2, <1>4
<1> HIDE DEF key
<1>6. /\ v4 \in [Clients -> [etag : Nat, data : Nat]] /\ \A d \in Clients : v4[d].data <= v1
      /\ v5 \in [Clients -> {CacheCalm!Idle} \cup [at : {"rendered"}, data : Nat, asOf : Nat]]
      /\ \A d \in Clients : v5[d] # CacheCalm!Idle => v5[d].data <= v1
      /\ \A v \in DOMAIN v3 : /\ v \in 1..(v7 + 1)
                              /\ v3[v] \in [data : Nat, asOf : Nat, left : Nat \ {0}] /\ v3[v].data <= v1
  BY DEF CalmCountsInv
<1>7. /\ v4' \in [Clients -> [etag : Nat, data : Nat]] /\ \A d \in Clients : v4'[d].data <= v1
      /\ v5' \in [Clients -> {CacheCalm!Idle} \cup [at : {"rendered"}, data : Nat, asOf : Nat]]
      /\ \A d \in Clients : v5'[d] # CacheCalm!Idle => v5'[d].data <= v1
      /\ \A v \in DOMAIN v3' : /\ v \in 1..(v7 + 1)
                               /\ v3'[v] \in [data : Nat, asOf : Nat, left : Nat \ {0}] /\ v3'[v].data <= v1
  <2>1. CASE CacheCalm!NotModified(c)
    BY <1>6, <2>1 DEF CacheCalm!NotModified
  <2>2. CASE CacheCalm!FromCache(c)
    <3> DEFINE t == [etag |-> key, data |-> v3[key].data]
    <3>1. key \in DOMAIN v3 /\ UNCHANGED <<v3, v5>> /\ v4' = [v4 EXCEPT ![c] = t]
      BY <2>2 DEF CacheCalm!FromCache, key
    <3>2. t \in [etag : Nat, data : Nat] /\ t.data <= v1
      BY <1>5, <1>6, <3>1
    <3> HIDE DEF t
    <3>3. QED
      BY <1>6, <3>1, <3>2
  <2>3. CASE CacheCalm!Render(c)
    <3> DEFINE t == [at |-> "rendered", data |-> v1, asOf |-> v8]
    <3>1. UNCHANGED <<v3, v4>> /\ v5' = [v5 EXCEPT ![c] = t]
      BY <2>3 DEF CacheCalm!Render
    <3>2. t \in [at : {"rendered"}, data : Nat, asOf : Nat] /\ t.data <= v1
      BY <1>4
    <3> HIDE DEF t
    <3>3. QED
      BY <1>6, <3>1, <3>2
  <2>4. CASE CacheCalm!Respond(c)
    <3> DEFINE page == [data |-> v5[c].data, asOf |-> v5[c].asOf, left |-> PageTTL]
               t == [etag |-> key, data |-> v5[c].data]
    <3>1. /\ v5[c] # CacheCalm!Idle /\ v5' = [v5 EXCEPT ![c] = CacheCalm!Idle] /\ v4' = [v4 EXCEPT ![c] = t]
          /\ v3' = [v \in DOMAIN v3 \cup {key} |-> IF v = key THEN page ELSE v3[v]]
      BY <2>4 DEF CacheCalm!Respond, key
    <3>2. PageTTL \in Nat \ {0}
      BY BoundsAssumption DEF CacheCalm!CacheAssumption
    <3>3. v5[c] \in [at : {"rendered"}, data : Nat, asOf : Nat] /\ v5[c].data <= v1
      BY <1>6, <3>1
    <3>4. /\ page \in [data : Nat, asOf : Nat, left : Nat \ {0}] /\ page.data <= v1
          /\ t \in [etag : Nat, data : Nat] /\ t.data <= v1
      BY <1>5, <3>2, <3>3
    <3> HIDE DEF page, t
    <3>5. DOMAIN v3' = DOMAIN v3 \cup {key} /\ v3'[key] = page /\ \A v \in DOMAIN v3 : v # key => v3'[v] = v3[v]
      BY <3>1
    <3>6. \A v \in DOMAIN v3' : /\ v \in 1..(v7 + 1)
                                /\ v3'[v] \in [data : Nat, asOf : Nat, left : Nat \ {0}] /\ v3'[v].data <= v1
      BY <1>5, <1>6, <3>4, <3>5
    <3>7. QED
      BY <1>6, <3>1, <3>4, <3>6
  <2>5. CASE CacheCalm!Invalidate(c)
    BY <1>6, <2>5 DEF CacheCalm!Invalidate
  <2>6. QED
    BY <2>1, <2>2, <2>3, <2>4, <2>5 DEF CacheCalm!Request
<1>8. v2'.value + Cardinality(CalmCountsWriting("written")) <= v7 + 1
  BY <1>1, <1>2 DEF key
<1>9. QED
  BY <1>1, <1>2, <1>3, <1>7, <1>8 DEF CalmCountsInv

LEMMA CalmCountsTicks ==
  ASSUME CalmCountsInv, CacheCalm!Tick
  PROVE  CalmCountsInv'
<1>1. /\ v8 < MaxNow /\ v8' = v8 + 1 /\ UNCHANGED <<v1, v4, v5, v6, v7>>
      /\ v2' = IF v2.left <= 1 THEN CacheCalm!Missing ELSE [v2 EXCEPT !.left = @ - 1]
      /\ v3' = [v \in {u \in DOMAIN v3 : v3[u].left > 1} |-> [v3[v] EXCEPT !.left = @ - 1]]
  BY DEF CacheCalm!Tick
<1>2. \A step : CalmCountsWriting(step)' = CalmCountsWriting(step)
  BY <1>1 DEF CalmCountsWriting
<1>3. ASSUME NEW v \in DOMAIN v3'
      PROVE  /\ v \in 1..(v7 + 1)
             /\ v3'[v] \in [data : Nat, asOf : Nat, left : Nat \ {0}] /\ v3'[v].data <= v1
  <2>1. v \in DOMAIN v3 /\ v3[v].left > 1 /\ v3'[v] = [v3[v] EXCEPT !.left = @ - 1]
    BY <1>1
  <2>2. v3[v] \in [data : Nat, asOf : Nat, left : Nat \ {0}] /\ v3[v].data <= v1 /\ v \in 1..(v7 + 1)
    BY <2>1 DEF CalmCountsInv
  <2>3. QED
    BY <2>1, <2>2
<1>4. /\ v2' = CacheCalm!Missing \/ v2' \in [value : Nat \ {0}, left : Nat \ {0}]
      /\ v2'.value + Cardinality(CalmCountsWriting("written")) <= v7 + 1
  <2>1. CASE v2.left <= 1
    <3>1. v2' = CacheCalm!Missing
      BY <1>1, <2>1
    <3>2. Cardinality(CalmCountsWriting("written")) \in Nat /\ Cardinality(CalmCountsWriting("written")) <= v7 /\ v7 \in Nat
      BY FS_CardinalityType DEF CalmCountsInv
    <3>3. QED
      BY <3>1, <3>2 DEF CacheCalm!Missing
  <2>2. CASE ~(v2.left <= 1)
    <3>1. v2' = [v2 EXCEPT !.left = @ - 1] /\ v2 # CacheCalm!Missing
      BY <1>1, <2>2 DEF CacheCalm!Missing
    <3>2. v2 \in [value : Nat \ {0}, left : Nat \ {0}]
      BY <3>1 DEF CalmCountsInv
    <3>3. v2' \in [value : Nat \ {0}, left : Nat \ {0}] /\ v2'.value = v2.value
      BY <2>2, <3>1, <3>2
    <3>4. QED
      BY <3>3 DEF CalmCountsInv
  <2>3. QED
    BY <2>1, <2>2
<1>5. v8' \in 0..MaxNow
  BY <1>1, BoundsAssumption DEF CalmCountsInv, CacheCalm!CacheAssumption
<1>6. QED
  BY <1>1, <1>2, <1>3, <1>4, <1>5 DEF CalmCountsInv

LEMMA CalmCountsNext ==
  ASSUME CalmCountsInv, [CacheCalm!Next]_(CacheCalm!vars)
  PROVE  CalmCountsInv'
<1>1. CASE UNCHANGED CacheCalm!vars
  BY <1>1 DEF CacheCalm!vars, CalmCountsInv, CalmCountsWriting
<1>2. CASE CacheCalm!Next
  BY <1>2, CalmCountsWrite, CalmCountsRequest, CalmCountsTicks DEF CacheCalm!Next
<1>3. QED
  BY <1>1, <1>2

LEMMA CalmCountsBegins ==
  ASSUME CacheCalm!Init
  PROVE  CalmCountsInv
<1>1. /\ v1 = 0 /\ v2 = CacheCalm!Missing /\ v3 = <<>> /\ v7 = 0 /\ v8 = 0
      /\ v4 = [c \in Clients |-> CacheCalm!None] /\ v5 = [c \in Clients |-> CacheCalm!Idle] /\ v6 = [w \in CalmWriters |-> CacheCalm!Idle]
  BY DEF CacheCalm!Init
<1>2. \A step \in {"saved", "written"} : CalmCountsWriting(step) = {}
  BY <1>1 DEF CalmCountsWriting, CacheCalm!Idle
<1>3. IsFiniteSet({}) /\ Cardinality({}) = 0
  BY FS_EmptySet
<1>4. CalmWrites \in Nat /\ MaxNow \in Nat
  BY BoundsAssumption DEF CacheCalm!CacheAssumption
<1>5. v2.value = 0 /\ \A c \in Clients : v4[c] \in [etag : Nat, data : Nat] /\ v4[c].data = 0
  BY <1>1 DEF CacheCalm!Missing, CacheCalm!None
<1>6. /\ \A step \in {"saved", "written"} : IsFiniteSet(CalmCountsWriting(step)) /\ Cardinality(CalmCountsWriting(step)) = 0
  BY <1>2, <1>3
<1>7. /\ v6 \in [CalmWriters -> {CacheCalm!Idle} \cup [at : {"saved", "written"}]]
      /\ v5 \in [Clients -> {CacheCalm!Idle} \cup [at : {"rendered"}, data : Nat, asOf : Nat]]
      /\ v4 \in [Clients -> [etag : Nat, data : Nat]] /\ DOMAIN v3 = {}
      /\ \A c \in Clients : v5[c] = CacheCalm!Idle
  BY <1>1, <1>5
<1>8. v8 \in 0..MaxNow /\ v7 \in 0..CalmWrites
  BY <1>1, <1>4
<1>9. QED
  BY <1>1, <1>5, <1>6, <1>7, <1>8 DEF CalmCountsInv

LEMMA CalmCountsTells == CalmCountsInv => CacheCalm!TypeOK
<1> SUFFICES ASSUME CalmCountsInv PROVE CacheCalm!TypeOK
  OBVIOUS
<1>1. /\ Cardinality(CalmCountsWriting("saved")) \in Nat /\ Cardinality(CalmCountsWriting("written")) \in Nat
      /\ v1 + Cardinality(CalmCountsWriting("saved")) <= v7 /\ v1 \in Nat /\ v7 \in 0..CalmWrites
      /\ v2.value + Cardinality(CalmCountsWriting("written")) <= v7 + 1
  BY FS_CardinalityType DEF CalmCountsInv
<1>2. v2.value \in Nat
  BY DEF CalmCountsInv, CacheCalm!Missing
<1>3. v1 \in 0..v7 /\ v2.value \in 0..(v7 + 1)
  BY <1>1, <1>2
<1>4. QED
  BY <1>1, <1>3 DEF CalmCountsInv, CacheCalm!TypeOK

-----------------------------------------------------------------------------
(* FieldScripts: what an operation of a script leaves.                     *)

\* An operation on definitions that keeps their names, or an operation on fields that leaves
\* them theirs, is sound.
LEMMA SoundRow ==
  ASSUME NEW d, Scripts!Sound(d), NEW e, DOMAIN e = {"defs", "fields", "links", "ok"}, e.ok => d.ok,
         \A f \in e.fields : DOMAIN f = {"fs", "name", "def", "label"},
         e.ok => \A f \in e.fields :
           f.def \in Scripts!DefNames(e) \/ \E g \in d.fields : g.def = f.def /\ g.def \in Scripts!DefNames(e)
  PROVE  Scripts!Sound(e)
BY DEF Scripts!Sound

LEMMA EnsureSound ==
  ASSUME NEW d, Scripts!Sound(d), NEW new
  PROVE  Scripts!Sound(Scripts!Ensure(d, new))
<1> DEFINE e == Scripts!Ensure(d, new)
<1>1. /\ DOMAIN e = {"defs", "fields", "links", "ok"} /\ e.fields = d.fields /\ (e.ok <=> d.ok)
      /\ d.defs \subseteq e.defs
  BY DEF Scripts!Ensure, Scripts!Sound
<1> HIDE DEF e
<1>2. Scripts!Sound(e)
  BY <1>1 DEF Scripts!Sound, Scripts!DefNames
<1>3. QED
  BY <1>2 DEF e

LEMMA CreateSound ==
  ASSUME NEW d, Scripts!Sound(d), NEW new
  PROVE  Scripts!Sound(Scripts!Create(d, new))
<1> DEFINE e == Scripts!Ensure(d, new)
           c == Scripts!Create(d, new)
<1>1. Scripts!Sound(e)
  BY EnsureSound
<1> HIDE DEF e
<1>2. /\ DOMAIN c = {"defs", "fields", "links", "ok"} /\ c.fields = e.fields /\ c.defs = e.defs
  BY <1>1 DEF Scripts!Create, Scripts!Sound, e
<1>3. c.ok => e.ok
  BY <1>1 DEF Scripts!Create, Scripts!Sound, e
<1> HIDE DEF c
<1>4. Scripts!Sound(c)
  BY <1>1, <1>2, <1>3 DEF Scripts!Sound, Scripts!DefNames
<1>5. QED
  BY <1>4 DEF c

LEMMA SetSound ==
  ASSUME NEW d, Scripts!Sound(d), NEW new
  PROVE  Scripts!Sound(Scripts!Set(d, new))
<1> DEFINE e == Scripts!Set(d, new)
<1>1. /\ DOMAIN e = {"defs", "fields", "links", "ok"} /\ e.fields = d.fields /\ (e.ok <=> d.ok)
      /\ e.defs = {x \in d.defs : x.name \notin {y.name : y \in new}} \cup new
  BY DEF Scripts!Set, Scripts!Sound
<1> HIDE DEF e
<1>2. \A x \in d.defs : \E y \in e.defs : y.name = x.name
  BY <1>1
<1>3. Scripts!Sound(e)
  BY <1>1, <1>2 DEF Scripts!Sound, Scripts!DefNames
<1>4. QED
  BY <1>3 DEF e

LEMMA RetypeSound ==
  ASSUME NEW d, Scripts!Sound(d), NEW names, NEW t
  PROVE  Scripts!Sound(Scripts!Retype(d, names, t))
<1> DEFINE e == Scripts!Retype(d, names, t)
<1>1. /\ DOMAIN e = {"defs", "fields", "links", "ok"} /\ e.fields = d.fields /\ (e.ok <=> d.ok)
      /\ e.defs = {IF x.name \in names THEN Scripts!Def(x.name, t) ELSE x : x \in d.defs}
  BY DEF Scripts!Retype, Scripts!Sound
<1> HIDE DEF e
<1>2. ASSUME NEW x \in d.defs
      PROVE  \E y \in e.defs : y.name = x.name
  <2> DEFINE y == IF x.name \in names THEN Scripts!Def(x.name, t) ELSE x
  <2>1. y \in e.defs
    BY <1>1
  <2>2. y.name = x.name
    BY DEF Scripts!Def
  <2>3. QED
    BY <2>1, <2>2
<1>3. Scripts!Sound(e)
  BY <1>1, <1>2 DEF Scripts!Sound, Scripts!DefNames
<1>4. QED
  BY <1>3 DEF e

LEMMA RepointSound ==
  ASSUME NEW d, Scripts!Sound(d), NEW from, NEW to
  PROVE  Scripts!Sound(Scripts!Repoint(d, from, to))
<1> DEFINE e == Scripts!Repoint(d, from, to)
<1>1. /\ DOMAIN e = {"defs", "fields", "links", "ok"} /\ e.fields = d.fields /\ (e.ok <=> d.ok)
      /\ e.defs = {IF x.type = from THEN Scripts!Def(x.name, to) ELSE x : x \in d.defs}
  BY DEF Scripts!Repoint, Scripts!Sound
<1> HIDE DEF e
<1>2. ASSUME NEW x \in d.defs
      PROVE  \E y \in e.defs : y.name = x.name
  <2> DEFINE y == IF x.type = from THEN Scripts!Def(x.name, to) ELSE x
  <2>1. y \in e.defs
    BY <1>1
  <2>2. y.name = x.name
    BY DEF Scripts!Def
  <2>3. QED
    BY <2>1, <2>2
<1>3. Scripts!Sound(e)
  BY <1>1, <1>2 DEF Scripts!Sound, Scripts!DefNames
<1>4. QED
  BY <1>3 DEF e

\* The fields of a definition go with it.
LEMMA DeleteSound ==
  ASSUME NEW d, Scripts!Sound(d), NEW names
  PROVE  Scripts!Sound(Scripts!Delete(d, names))
<1> DEFINE e == Scripts!Delete(d, names)
<1>1. /\ DOMAIN e = {"defs", "fields", "links", "ok"} /\ (e.ok <=> d.ok)
      /\ e.defs = {x \in d.defs : x.name \notin names} /\ e.fields = {f \in d.fields : f.def \notin names}
  BY DEF Scripts!Delete, Scripts!Sound
<1> HIDE DEF e
<1>2. Scripts!Sound(e)
  BY <1>1 DEF Scripts!Sound, Scripts!DefNames
<1>3. QED
  BY <1>2 DEF e

LEMMA DeleteUnusedSound ==
  ASSUME NEW d, Scripts!Sound(d), NEW names
  PROVE  Scripts!Sound(Scripts!DeleteUnused(d, names))
BY DeleteSound DEF Scripts!DeleteUnused

LEMMA RenameDefSound ==
  ASSUME NEW d, Scripts!Sound(d), NEW old, NEW new
  PROVE  Scripts!Sound(Scripts!RenameDef(d, old, new))
<1> DEFINE e == Scripts!RenameDef(d, old, new)
<1>1. /\ DOMAIN e = {"defs", "fields", "links", "ok"} /\ (e.ok <=> d.ok)
      /\ e.defs = {IF x.name = old THEN Scripts!Def(new, x.type) ELSE x : x \in d.defs}
      /\ e.fields = {IF f.def = old THEN [f EXCEPT !.def = new] ELSE f : f \in d.fields}
  BY DEF Scripts!RenameDef, Scripts!Sound
<1> HIDE DEF e
<1>2. ASSUME NEW x \in d.defs
      PROVE  \E y \in e.defs : y.name = IF x.name = old THEN new ELSE x.name
  <2> DEFINE y == IF x.name = old THEN Scripts!Def(new, x.type) ELSE x
  <2>1. y \in e.defs
    BY <1>1
  <2>2. y.name = IF x.name = old THEN new ELSE x.name
    BY DEF Scripts!Def
  <2>3. QED
    BY <2>1, <2>2
<1>3. \A f \in e.fields : /\ DOMAIN f = {"fs", "name", "def", "label"}
                          /\ \E g \in d.fields : f.def = IF g.def = old THEN new ELSE g.def
  BY <1>1 DEF Scripts!Sound
<1>4. Scripts!Sound(e)
  BY <1>1, <1>2, <1>3 DEF Scripts!Sound, Scripts!DefNames
<1>5. QED
  BY <1>4 DEF e

\* A field is put with a definition there is, or the script raises.
LEMMA PutSound ==
  ASSUME NEW d, Scripts!Sound(d), NEW fs, NEW specs
  PROVE  Scripts!Sound(Scripts!Put(d, fs, specs))
<1> DEFINE e == Scripts!Put(d, fs, specs)
<1>1. /\ DOMAIN e = {"defs", "fields", "links", "ok"} /\ e.defs = d.defs
      /\ e.fields = {f \in d.fields : f.fs = fs => f.name \notin {s.name : s \in specs}}
              \cup {[fs |-> fs, name |-> s.name, def |-> s.def, label |-> s.label] : s \in specs}
  BY DEF Scripts!Put, Scripts!Sound
<1>2. e.ok => d.ok /\ ~Scripts!Lacks(d, specs)
  BY DEF Scripts!Put, Scripts!Sound
<1> HIDE DEF e
<1>3. \A f \in e.fields : f \in d.fields \/ \E s \in specs : f.def = s.def /\ DOMAIN f = {"fs", "name", "def", "label"}
  BY <1>1
<1>4. Scripts!Sound(e)
  BY <1>1, <1>2, <1>3 DEF Scripts!Sound, Scripts!DefNames, Scripts!Lacks
<1>5. QED
  BY <1>4 DEF e

LEMMA PointSound ==
  ASSUME NEW d, Scripts!Sound(d), NEW fs, NEW specs
  PROVE  Scripts!Sound(Scripts!Point(d, fs, specs))
BY PutSound DEF Scripts!Point

LEMMA MissingSound ==
  ASSUME NEW d, Scripts!Sound(d), NEW fs, NEW specs
  PROVE  Scripts!Sound(Scripts!Missing(d, fs, specs))
<1> DEFINE rest == {s \in specs : ~\E f \in d.fields : f.fs = fs /\ f.name = s.name /\ f.def = s.def}
           e == Scripts!Put(d, fs, rest)
           m == Scripts!Missing(d, fs, specs)
<1>1. Scripts!Sound(e)
  BY PutSound
<1>2. m = [e EXCEPT !.ok = e.ok /\ \A s \in rest : \A f \in d.fields : f.fs = fs => f.name # s.name]
  BY DEF Scripts!Missing
<1> HIDE DEF m, e, rest
<1>3. /\ DOMAIN m = {"defs", "fields", "links", "ok"} /\ m.fields = e.fields /\ m.defs = e.defs
  BY <1>1, <1>2 DEF Scripts!Sound
<1>4. m.ok => e.ok
  BY <1>1, <1>2 DEF Scripts!Sound
<1>5. Scripts!Sound(m)
  BY <1>1, <1>3, <1>4 DEF Scripts!Sound, Scripts!DefNames
<1>6. QED
  BY <1>5 DEF m

\* Fields that are removed, moved, renamed or labelled have their definitions.
LEMMA FieldsSound ==
  ASSUME NEW d, Scripts!Sound(d), NEW e, DOMAIN e = {"defs", "fields", "links", "ok"}, e.ok => d.ok,
         e.defs = d.defs,
         \A f \in e.fields : DOMAIN f = {"fs", "name", "def", "label"} /\ \E g \in d.fields : g.def = f.def
  PROVE  Scripts!Sound(e)
BY DEF Scripts!Sound, Scripts!DefNames

LEMMA RemoveSound ==
  ASSUME NEW d, Scripts!Sound(d), NEW fs, NEW names
  PROVE  /\ Scripts!Sound(Scripts!Remove(d, fs, names))
         /\ Scripts!Sound(Scripts!RemoveFieldsets(d, names))
         /\ Scripts!Sound(Scripts!Everywhere(d, names))
<1>1. Scripts!Sound(Scripts!Remove(d, fs, names))
  <2> DEFINE e == Scripts!Remove(d, fs, names)
  <2>1. DOMAIN e = {"defs", "fields", "links", "ok"} /\ (e.ok <=> d.ok) /\ e.defs = d.defs /\ e.fields \subseteq d.fields
    BY DEF Scripts!Remove, Scripts!Sound
  <2> HIDE DEF e
  <2>2. Scripts!Sound(e)
    BY <2>1, FieldsSound DEF Scripts!Sound
  <2>3. QED
    BY <2>2 DEF e
<1>2. Scripts!Sound(Scripts!RemoveFieldsets(d, names))
  <2> DEFINE e == Scripts!RemoveFieldsets(d, names)
  <2>1. DOMAIN e = {"defs", "fields", "links", "ok"} /\ (e.ok <=> d.ok) /\ e.defs = d.defs /\ e.fields \subseteq d.fields
    BY DEF Scripts!RemoveFieldsets, Scripts!Sound
  <2> HIDE DEF e
  <2>2. Scripts!Sound(e)
    BY <2>1, FieldsSound DEF Scripts!Sound
  <2>3. QED
    BY <2>2 DEF e
<1>3. Scripts!Sound(Scripts!Everywhere(d, names))
  <2> DEFINE e == Scripts!Everywhere(d, names)
  <2>1. DOMAIN e = {"defs", "fields", "links", "ok"} /\ (e.ok <=> d.ok) /\ e.defs = d.defs /\ e.fields \subseteq d.fields
    BY DEF Scripts!Everywhere, Scripts!Sound
  <2> HIDE DEF e
  <2>2. Scripts!Sound(e)
    BY <2>1, FieldsSound DEF Scripts!Sound
  <2>3. QED
    BY <2>2 DEF e
<1>4. QED
  BY <1>1, <1>2, <1>3

LEMMA SameFieldsSound ==
  ASSUME NEW d, Scripts!Sound(d)
  PROVE  /\ Scripts!Sound(Scripts!Raised(d))
         /\ \A links : Scripts!Sound(Scripts!Linked(d, links)) /\ Scripts!Sound([d EXCEPT !.links = links])
<1>1. Scripts!Sound(Scripts!Raised(d))
  <2> DEFINE e == Scripts!Raised(d)
  <2>1. DOMAIN e = {"defs", "fields", "links", "ok"} /\ ~e.ok /\ e.fields = d.fields
    BY DEF Scripts!Raised, Scripts!Sound
  <2> HIDE DEF e
  <2>2. Scripts!Sound(e)
    BY <2>1 DEF Scripts!Sound
  <2>3. QED
    BY <2>2 DEF e
<1>2. ASSUME NEW links
      PROVE  Scripts!Sound([d EXCEPT !.links = links])
  <2> DEFINE e == [d EXCEPT !.links = links]
  <2>1. DOMAIN e = {"defs", "fields", "links", "ok"} /\ (e.ok <=> d.ok) /\ e.defs = d.defs /\ e.fields = d.fields
    BY DEF Scripts!Sound
  <2> HIDE DEF e
  <2>2. Scripts!Sound(e)
    BY <2>1, FieldsSound DEF Scripts!Sound
  <2>3. QED
    BY <2>2 DEF e
<1>3. ASSUME NEW links
      PROVE  Scripts!Sound(Scripts!Linked(d, links))
  <2>1. Scripts!Linked(d, links) = [d EXCEPT !.links = d.links \cup links]
    BY DEF Scripts!Linked
  <2>2. QED
    BY <1>2, <2>1
<1>4. QED
  BY <1>1, <1>2, <1>3

LEMMA Moved ==
  ASSUME NEW d, Scripts!Sound(d), NEW from, NEW to
  PROVE  Scripts!Sound(Scripts!MoveAreas(d, from, to))
<1> DEFINE e == Scripts!MoveAreas(d, from, to)
           Row(f) == IF f.fs = from /\ f.name = "admin1" THEN [f EXCEPT !.fs = to] ELSE f
<1>1. /\ DOMAIN e = {"defs", "fields", "links", "ok"} /\ (e.ok <=> d.ok) /\ e.defs = d.defs
      /\ e.fields = {Row(f) : f \in d.fields}
  BY DEF Scripts!MoveAreas, Scripts!Sound
<1>2. \A f \in d.fields : DOMAIN Row(f) = {"fs", "name", "def", "label"} /\ Row(f).def = f.def
  BY DEF Scripts!Sound
<1> HIDE DEF e, Row
<1>3. \A f \in e.fields : DOMAIN f = {"fs", "name", "def", "label"} /\ \E g \in d.fields : g.def = f.def
  BY <1>1, <1>2
<1>4. Scripts!Sound(e)
  BY <1>1, <1>3, FieldsSound
<1>5. QED
  BY <1>4 DEF e

LEMMA RenameInSound ==
  ASSUME NEW d, Scripts!Sound(d), NEW fs, NEW old, NEW new
  PROVE  Scripts!Sound(Scripts!RenameIn(d, fs, old, new))
<1> DEFINE e == Scripts!RenameIn(d, fs, old, new)
           Row(f) == IF f.fs = fs /\ f.name = old THEN [f EXCEPT !.name = new] ELSE f
<1>1. /\ DOMAIN e = {"defs", "fields", "links", "ok"} /\ (e.ok <=> d.ok) /\ e.defs = d.defs
      /\ e.fields = {Row(f) : f \in d.fields}
  BY DEF Scripts!RenameIn, Scripts!Sound
<1>2. \A f \in d.fields : DOMAIN Row(f) = {"fs", "name", "def", "label"} /\ Row(f).def = f.def
  BY DEF Scripts!Sound
<1> HIDE DEF e, Row
<1>3. \A f \in e.fields : DOMAIN f = {"fs", "name", "def", "label"} /\ \E g \in d.fields : g.def = f.def
  BY <1>1, <1>2
<1>4. Scripts!Sound(e)
  BY <1>1, <1>3, FieldsSound
<1>5. QED
  BY <1>4 DEF e

LEMMA LabelledSound ==
  ASSUME NEW d, Scripts!Sound(d), NEW names, NEW l
  PROVE  Scripts!Sound(Scripts!Labelled(d, names, l))
<1> DEFINE e == Scripts!Labelled(d, names, l)
           Row(f) == IF f.name \in names THEN [f EXCEPT !.label = l] ELSE f
<1>1. /\ DOMAIN e = {"defs", "fields", "links", "ok"} /\ (e.ok <=> d.ok) /\ e.defs = d.defs
      /\ e.fields = {Row(f) : f \in d.fields}
  BY DEF Scripts!Labelled, Scripts!Sound
<1>2. \A f \in d.fields : DOMAIN Row(f) = {"fs", "name", "def", "label"} /\ Row(f).def = f.def
  BY DEF Scripts!Sound
<1> HIDE DEF e, Row
<1>3. \A f \in e.fields : DOMAIN f = {"fs", "name", "def", "label"} /\ \E g \in d.fields : g.def = f.def
  BY <1>1, <1>2
<1>4. Scripts!Sound(e)
  BY <1>1, <1>3, FieldsSound
<1>5. QED
  BY <1>4 DEF e

LEMMA Populated ==
  ASSUME NEW d, Scripts!Sound(d)
  PROVE  Scripts!Sound(Scripts!PopulateLabels(d))
<1> DEFINE e == Scripts!PopulateLabels(d)
           Row(f) == IF f.name \in Scripts!Table /\ f.label = "none" THEN [f EXCEPT !.label = "table"] ELSE f
<1>1. /\ DOMAIN e = {"defs", "fields", "links", "ok"} /\ (e.ok <=> d.ok) /\ e.defs = d.defs
      /\ e.fields = {Row(f) : f \in d.fields}
  BY DEF Scripts!PopulateLabels, Scripts!Sound
<1>2. \A f \in d.fields : DOMAIN Row(f) = {"fs", "name", "def", "label"} /\ Row(f).def = f.def
  BY DEF Scripts!Sound
<1> HIDE DEF e, Row
<1>3. \A f \in e.fields : DOMAIN f = {"fs", "name", "def", "label"} /\ \E g \in d.fields : g.def = f.def
  BY <1>1, <1>2
<1>4. Scripts!Sound(e)
  BY <1>1, <1>3, FieldsSound
<1>5. QED
  BY <1>4 DEF e

LEMMA Popped ==
  ASSUME NEW d, Scripts!Sound(d)
  PROVE  Scripts!Sound(Scripts!PopLabels(d))
<1> DEFINE e == Scripts!PopLabels(d)
           Row(f) == IF f.name \in Scripts!Table /\ f.label = "table" THEN [f EXCEPT !.label = "none"] ELSE f
<1>1. /\ DOMAIN e = {"defs", "fields", "links", "ok"} /\ (e.ok <=> d.ok) /\ e.defs = d.defs
      /\ e.fields = {Row(f) : f \in d.fields}
  BY DEF Scripts!PopLabels, Scripts!Sound
<1>2. \A f \in d.fields : DOMAIN Row(f) = {"fs", "name", "def", "label"} /\ Row(f).def = f.def
  BY DEF Scripts!Sound
<1> HIDE DEF e, Row
<1>3. \A f \in e.fields : DOMAIN f = {"fs", "name", "def", "label"} /\ \E g \in d.fields : g.def = f.def
  BY <1>1, <1>2
<1>4. Scripts!Sound(e)
  BY <1>1, <1>3, FieldsSound
<1>5. QED
  BY <1>4 DEF e

LEMMA RenameSound ==
  ASSUME NEW d, Scripts!Sound(d), NEW map
  PROVE  Scripts!Sound(Scripts!Rename(d, map))
<1> DEFINE e == Scripts!Rename(d, map)
           Taken(f) == \E g \in d.fields : g.fs = f.fs /\ g.name = map[f.name]
           Row(f) == IF f.name \in DOMAIN map /\ ~Taken(f) THEN [f EXCEPT !.name = map[f.name]] ELSE f
<1>1. /\ DOMAIN e = {"defs", "fields", "links", "ok"} /\ (e.ok <=> d.ok) /\ e.defs = d.defs
      /\ e.fields = {Row(f) : f \in d.fields}
  BY DEF Scripts!Rename, Scripts!Sound
<1> HIDE DEF Taken
<1>2. \A f \in d.fields : DOMAIN Row(f) = {"fs", "name", "def", "label"} /\ Row(f).def = f.def
  BY DEF Scripts!Sound
<1> HIDE DEF e, Row
<1>3. \A f \in e.fields : DOMAIN f = {"fs", "name", "def", "label"} /\ \E g \in d.fields : g.def = f.def
  BY <1>1, <1>2
<1>4. Scripts!Sound(e)
  BY <1>1, <1>3, FieldsSound
<1>5. QED
  BY <1>4 DEF e

\* The fields of a definition that goes are given another one that is there.
LEMMA RenameGenderSound ==
  ASSUME NEW d, Scripts!Sound(d), NEW old, NEW new, NEW field
  PROVE  Scripts!Sound(Scripts!RenameGender(d, old, new, field))
<1> DEFINE Row(f) == IF f.def = old THEN [f EXCEPT !.name = field] ELSE f
           e == [d EXCEPT !.fields = {Row(f) : f \in d.fields}]
<1>1. /\ DOMAIN e = {"defs", "fields", "links", "ok"} /\ (e.ok <=> d.ok) /\ e.defs = d.defs
      /\ e.fields = {Row(f) : f \in d.fields}
  BY DEF Scripts!Sound
<1>2. \A f \in d.fields : DOMAIN Row(f) = {"fs", "name", "def", "label"} /\ Row(f).def = f.def
  BY DEF Scripts!Sound
<1>3. \/ Scripts!RenameGender(d, old, new, field) = d
      \/ Scripts!RenameGender(d, old, new, field) = Scripts!Raised(d)
      \/ Scripts!RenameGender(d, old, new, field) = Scripts!RenameDef(e, old, new)
  BY DEF Scripts!RenameGender
<1> HIDE DEF e, Row
<1>4. \A f \in e.fields : DOMAIN f = {"fs", "name", "def", "label"} /\ \E g \in d.fields : g.def = f.def
  BY <1>1, <1>2
<1>5. Scripts!Sound(e)
  BY <1>1, <1>4, FieldsSound
<1>6. Scripts!Sound(Scripts!RenameDef(e, old, new))
  BY <1>5, RenameDefSound
<1>7. QED
  BY <1>3, <1>6, SameFieldsSound

LEMMA RedefinedSound ==
  ASSUME NEW d, Scripts!Sound(d), NEW new \in Scripts!DefNames(d), NEW S
  PROVE  Scripts!Sound([d EXCEPT !.fields = {IF f \in S THEN [f EXCEPT !.def = new] ELSE f : f \in d.fields}])
<1> DEFINE Row(f) == IF f \in S THEN [f EXCEPT !.def = new] ELSE f
           e == [d EXCEPT !.fields = {Row(f) : f \in d.fields}]
<1>1. /\ DOMAIN e = {"defs", "fields", "links", "ok"} /\ (e.ok <=> d.ok) /\ e.defs = d.defs
      /\ e.fields = {Row(f) : f \in d.fields}
  BY DEF Scripts!Sound
<1>2. \A f \in d.fields : DOMAIN Row(f) = {"fs", "name", "def", "label"} /\ Row(f).def \in {f.def, new}
  BY DEF Scripts!Sound
<1> HIDE DEF e, Row
<1>3. \A f \in e.fields : /\ DOMAIN f = {"fs", "name", "def", "label"}
                          /\ f.def = new \/ \E g \in d.fields : g.def = f.def
  BY <1>1, <1>2
<1>4. Scripts!Sound(e)
  BY <1>1, <1>3 DEF Scripts!Sound, Scripts!DefNames
<1>5. QED
  BY <1>4 DEF e, Row

LEMMA TypePartnersSound ==
  ASSUME NEW d, Scripts!Sound(d)
  PROVE  Scripts!Sound(Scripts!TypePartners(d))
<1> DEFINE S == {f \in d.fields : f.fs = Scripts!HH /\ f.name \in Scripts!NamesOf(Scripts!PartnerFields)}
           e == [d EXCEPT !.fields = {IF f \in S THEN [f EXCEPT !.def = "CharField"] ELSE f : f \in d.fields}]
           names == Scripts!DefsOf(Scripts!PartnerFields)
<1>1. \/ Scripts!TypePartners(d) = Scripts!Raised(d)
      \/ /\ "CharField" \in Scripts!DefNames(d)
         /\ Scripts!TypePartners(d) = Scripts!Delete(e, names)
  <2> DEFINE A == {IF f \in S THEN [f EXCEPT !.def = "CharField"] ELSE f : f \in d.fields}
             B == {IF f.fs = Scripts!HH /\ f.name \in Scripts!NamesOf(Scripts!PartnerFields)
                   THEN [f EXCEPT !.def = "CharField"] ELSE f : f \in d.fields}
  <2>1. A = B
    OBVIOUS
  <2> HIDE DEF A
  <2>2. \/ Scripts!TypePartners(d) = Scripts!Raised(d)
        \/ /\ "CharField" \in Scripts!DefNames(d)
           /\ Scripts!TypePartners(d) = Scripts!Delete([d EXCEPT !.fields = B], names)
    BY DEF Scripts!TypePartners
  <2>3. QED
    BY <2>1, <2>2 DEF A
<1> HIDE DEF S, names
<1>2. "CharField" \in Scripts!DefNames(d) => Scripts!Sound(e)
  BY RedefinedSound
<1> HIDE DEF e
<1>3. QED
  BY <1>1, <1>2, DeleteSound, SameFieldsSound

LEMMA RenameOrMergeSound ==
  ASSUME NEW d, Scripts!Sound(d), NEW old, NEW new
  PROVE  Scripts!Sound(Scripts!RenameOrMerge(d, old, new))
<1> DEFINE S == {f \in d.fields : f.def = old}
           e == [d EXCEPT !.fields = {IF f \in S THEN [f EXCEPT !.def = new] ELSE f : f \in d.fields}]
<1>1. \/ Scripts!RenameOrMerge(d, old, new) = d
      \/ Scripts!RenameOrMerge(d, old, new) = Scripts!RenameDef(d, old, new)
      \/ /\ new \in Scripts!DefNames(d)
         /\ Scripts!RenameOrMerge(d, old, new) = Scripts!DeleteUnused(e, {old})
  <2> DEFINE A == {IF f \in S THEN [f EXCEPT !.def = new] ELSE f : f \in d.fields}
             B == {IF f.def = old THEN [f EXCEPT !.def = new] ELSE f : f \in d.fields}
  <2>1. A = B
    OBVIOUS
  <2> HIDE DEF A
  <2>2. \/ Scripts!RenameOrMerge(d, old, new) = d
        \/ Scripts!RenameOrMerge(d, old, new) = Scripts!RenameDef(d, old, new)
        \/ /\ new \in Scripts!DefNames(d)
           /\ Scripts!RenameOrMerge(d, old, new) = Scripts!DeleteUnused([d EXCEPT !.fields = B], {old})
    BY DEF Scripts!RenameOrMerge
  <2>3. QED
    BY <2>1, <2>2 DEF A
<1> HIDE DEF S
<1>2. new \in Scripts!DefNames(d) => Scripts!Sound(e)
  BY RedefinedSound
<1> HIDE DEF e
<1>3. QED
  BY <1>1, <1>2, DeleteUnusedSound, RenameDefSound

LEMMA CreateCheckersSound ==
  ASSUME NEW d, Scripts!Sound(d)
  PROVE  Scripts!Sound(Scripts!CreateCheckers(d))
BY MissingSound, SameFieldsSound DEF Scripts!CreateCheckers

LEMMA FixIndividualSound ==
  ASSUME NEW d, Scripts!Sound(d)
  PROVE  Scripts!Sound(Scripts!FixIndividual(d))
BY EnsureSound, MissingSound DEF Scripts!FixIndividual

LEMMA AdminTextSound ==
  ASSUME NEW d, Scripts!Sound(d)
  PROVE  Scripts!Sound(Scripts!AdminText(d))
BY CreateSound, PutSound DEF Scripts!AdminText

LEMMA ConsentSound ==
  ASSUME NEW d, Scripts!Sound(d)
  PROVE  Scripts!Sound(Scripts!ConsentSharing(d))
BY PutSound, SameFieldsSound DEF Scripts!ConsentSharing

LEMMA RequiredSound ==
  ASSUME NEW d, Scripts!Sound(d)
  PROVE  Scripts!Sound(Scripts!Required(d))
<1> DEFINE e == Scripts!Put(Scripts!Put(Scripts!Put(Scripts!Set(d, Scripts!HopeDefs), Scripts!HH,
                  Scripts!HopeSpecs(Scripts!HH)), Scripts!IND, Scripts!HopeSpecs(Scripts!IND)),
                  Scripts!PPL, Scripts!HopeSpecs(Scripts!PPL))
<1>1. Scripts!Sound(e)
  BY SetSound, PutSound
<1>2. \E links : Scripts!Required(d) = [e EXCEPT !.links = links]
  BY DEF Scripts!Required
<1> HIDE DEF e
<1>3. QED
  BY <1>1, <1>2, SameFieldsSound

LEMMA NotRequiredSound ==
  ASSUME NEW d, Scripts!Sound(d)
  PROVE  Scripts!Sound(Scripts!NotRequired(d))
BY RemoveSound, DeleteUnusedSound DEF Scripts!NotRequired

LEMMA AddDocumentsSound ==
  ASSUME NEW d, Scripts!Sound(d)
  PROVE  Scripts!Sound(Scripts!AddDocuments(d))
<1> DEFINE gone == Scripts!Create(Scripts!Remove(d, Scripts!IND, Scripts!Identity),
                     {Scripts!Def("FinancialInstitutionChoice", "Institution")})
<1>1. Scripts!Sound(gone)
  BY RemoveSound, CreateSound
<1>2. \/ Scripts!AddDocuments(d) = Scripts!Raised(d)
      \/ \E links, a, b : Scripts!AddDocuments(d) =
           Scripts!Missing(Scripts!Missing(Scripts!Linked(gone, links), Scripts!DOC, a), Scripts!ACC, b)
  BY DEF Scripts!AddDocuments
<1> HIDE DEF gone
<1>3. QED
  BY <1>1, <1>2, SameFieldsSound, MissingSound

LEMMA RemoveDocumentsSound ==
  ASSUME NEW d, Scripts!Sound(d)
  PROVE  Scripts!Sound(Scripts!RemoveDocuments(d))
BY RemoveSound, DeleteSound, CreateSound, MissingSound DEF Scripts!RemoveDocuments

LEMMA ExtractAreasSound ==
  ASSUME NEW d, Scripts!Sound(d)
  PROVE  Scripts!Sound(Scripts!ExtractAreas(d))
BY Moved, SameFieldsSound DEF Scripts!ExtractAreas

LEMMA ReturnAreasSound ==
  ASSUME NEW d, Scripts!Sound(d)
  PROVE  Scripts!Sound(Scripts!ReturnAreas(d))
BY Moved, RemoveSound DEF Scripts!ReturnAreas

LEMMA SetupPeopleSound ==
  ASSUME NEW d, Scripts!Sound(d)
  PROVE  Scripts!Sound(Scripts!SetupPeople(d))
BY EnsureSound, PointSound DEF Scripts!SetupPeople

LEMMA UnsetPeopleSound ==
  ASSUME NEW d, Scripts!Sound(d)
  PROVE  Scripts!Sound(Scripts!UnsetPeople(d))
BY RemoveSound, DeleteUnusedSound DEF Scripts!UnsetPeople

LEMMA ChoosePartnersSound ==
  ASSUME NEW d, Scripts!Sound(d)
  PROVE  Scripts!Sound(Scripts!ChoosePartners(d))
BY SetSound, PointSound DEF Scripts!ChoosePartners

LEMMA AddExtraSound ==
  ASSUME NEW d, Scripts!Sound(d)
  PROVE  Scripts!Sound(Scripts!AddExtra(d))
BY CreateSound, MissingSound DEF Scripts!AddExtra

LEMMA AddPhoneSound ==
  ASSUME NEW d, Scripts!Sound(d)
  PROVE  Scripts!Sound(Scripts!AddPhone(d))
BY EnsureSound, PointSound DEF Scripts!AddPhone

LEMMA RemovePhoneSound ==
  ASSUME NEW d, Scripts!Sound(d)
  PROVE  Scripts!Sound(Scripts!RemovePhone(d))
BY RemoveSound, DeleteSound DEF Scripts!RemovePhone

LEMMA AddReferencesSound ==
  ASSUME NEW d, Scripts!Sound(d)
  PROVE  Scripts!Sound(Scripts!AddReferences(d))
BY SetSound, PointSound DEF Scripts!AddReferences

LEMMA RemoveReferencesSound ==
  ASSUME NEW d, Scripts!Sound(d)
  PROVE  Scripts!Sound(Scripts!RemoveReferences(d))
BY RemoveSound, DeleteSound DEF Scripts!RemoveReferences

LEMMA AddHeadSound ==
  ASSUME NEW d, Scripts!Sound(d)
  PROVE  Scripts!Sound(Scripts!AddHead(d))
BY SetSound, PointSound, RemoveSound DEF Scripts!AddHead

LEMMA RemoveHeadSound ==
  ASSUME NEW d, Scripts!Sound(d)
  PROVE  Scripts!Sound(Scripts!RemoveHead(d))
BY PointSound, RemoveSound DEF Scripts!RemoveHead

LEMMA ChangeGroupsSound ==
  ASSUME NEW d, Scripts!Sound(d)
  PROVE  Scripts!Sound(Scripts!ChangeGroups(d))
BY RenameInSound, SameFieldsSound DEF Scripts!ChangeGroups

LEMMA RestoreGroupsSound ==
  ASSUME NEW d, Scripts!Sound(d)
  PROVE  Scripts!Sound(Scripts!RestoreGroups(d))
<1>1. \E links : Scripts!RestoreGroups(d) =
        [Scripts!RenameIn(d, Scripts!DOC, "image", "photo") EXCEPT !.links = links]
  BY DEF Scripts!RestoreGroups
<1>2. QED
  BY <1>1, RenameInSound, SameFieldsSound

LEMMA AddRowNumbersSound ==
  ASSUME NEW d, Scripts!Sound(d)
  PROVE  Scripts!Sound(Scripts!AddRowNumbers(d))
BY EnsureSound, PointSound DEF Scripts!AddRowNumbers

LEMMA RemoveRowNumbersSound ==
  ASSUME NEW d, Scripts!Sound(d)
  PROVE  Scripts!Sound(Scripts!RemoveRowNumbers(d))
BY RemoveSound, DeleteSound DEF Scripts!RemoveRowNumbers

LEMMA LabelConsentSound ==
  ASSUME NEW d, Scripts!Sound(d), NEW label
  PROVE  Scripts!Sound(Scripts!LabelConsent(d, label))
BY LabelledSound, SameFieldsSound DEF Scripts!LabelConsent

LEMMA AddHouseholdSound ==
  ASSUME NEW d, Scripts!Sound(d)
  PROVE  Scripts!Sound(Scripts!AddHousehold(d))
BY CreateSound, PutSound DEF Scripts!AddHousehold

LEMMA RemoveHouseholdSound ==
  ASSUME NEW d, Scripts!Sound(d)
  PROVE  Scripts!Sound(Scripts!RemoveHousehold(d))
BY RemoveSound, DeleteSound DEF Scripts!RemoveHousehold

LEMMA WantsSexSound ==
  ASSUME NEW d, Scripts!Sound(d)
  PROVE  Scripts!Sound(Scripts!WantsSex(d))
BY SameFieldsSound DEF Scripts!WantsSex

LEMMA AddBaseSound ==
  ASSUME NEW d, Scripts!Sound(d)
  PROVE  Scripts!Sound(Scripts!AddBase(d))
BY WantsSexSound, RemoveSound, SameFieldsSound, PutSound, CreateSound DEF Scripts!AddBase

LEMMA RemoveBaseSound ==
  ASSUME NEW d, Scripts!Sound(d)
  PROVE  Scripts!Sound(Scripts!RemoveBase(d))
BY WantsSexSound, RemoveSound, DeleteUnusedSound, PutSound, CreateSound DEF Scripts!RemoveBase

LEMMA CleanPhonesSound ==
  ASSUME NEW d, Scripts!Sound(d)
  PROVE  Scripts!Sound(Scripts!CleanPhones(d))
BY RetypeSound, DeleteSound DEF Scripts!CleanPhones

LEMMA RestorePhonesSound ==
  ASSUME NEW d, Scripts!Sound(d)
  PROVE  Scripts!Sound(Scripts!RestorePhones(d))
BY RetypeSound, EnsureSound DEF Scripts!RestorePhones

LEMMA RenameFreeSound ==
  ASSUME NEW d, Scripts!Sound(d), NEW old, NEW new
  PROVE  Scripts!Sound(Scripts!RenameFree(d, old, new))
BY RenameDefSound DEF Scripts!RenameFree

LEMMA SuffixRolesSound ==
  ASSUME NEW d, Scripts!Sound(d)
  PROVE  Scripts!Sound(Scripts!SuffixRoles(d))
BY RenameFreeSound, RenameSound, LabelledSound DEF Scripts!SuffixRoles

LEMMA PlainRolesSound ==
  ASSUME NEW d, Scripts!Sound(d)
  PROVE  Scripts!Sound(Scripts!PlainRoles(d))
BY RenameFreeSound, RenameSound DEF Scripts!PlainRoles

LEMMA AddLatinSound ==
  ASSUME NEW d, Scripts!Sound(d)
  PROVE  Scripts!Sound(Scripts!AddLatin(d))
BY CreateSound, PutSound DEF Scripts!AddLatin

LEMMA RemoveLatinSound ==
  ASSUME NEW d, Scripts!Sound(d)
  PROVE  Scripts!Sound(Scripts!RemoveLatin(d))
BY RemoveSound, DeleteUnusedSound DEF Scripts!RemoveLatin

LEMMA ReplaceImagesSound ==
  ASSUME NEW d, Scripts!Sound(d)
  PROVE  Scripts!Sound(Scripts!ReplaceImages(d))
BY RepointSound, RenameOrMergeSound DEF Scripts!ReplaceImages

LEMMA RestoreImagesSound ==
  ASSUME NEW d, Scripts!Sound(d)
  PROVE  Scripts!Sound(Scripts!RestoreImages(d))
BY RepointSound, RenameOrMergeSound DEF Scripts!RestoreImages

LEMMA PlainSound ==
  ASSUME NEW d, Scripts!Sound(d), NEW s
  PROVE  Scripts!Sound(Scripts!Plain(d, s))
<1>1. \/ Scripts!Plain(d, s) = Scripts!Create(d, Scripts!Registered)
      \/ Scripts!Plain(d, s) = Scripts!Create(d, Scripts!Hope)
      \/ Scripts!Plain(d, s) = Scripts!CreateCheckers(d)
      \/ Scripts!Plain(d, s) = Scripts!Create(d, {Scripts!Def("Base64ImageField", "Base64")})
      \/ Scripts!Plain(d, s) = Scripts!FixIndividual(d)
      \/ Scripts!Plain(d, s) = Scripts!AdminChoices(d)
      \/ Scripts!Plain(d, s) = Scripts!ConsentSharing(d)
      \/ Scripts!Plain(d, s) = Scripts!Required(d)
      \/ Scripts!Plain(d, s) = Scripts!AddDocuments(d)
      \/ Scripts!Plain(d, s) = Scripts!ExtractAreas(d)
      \/ Scripts!Plain(d, s) = Scripts!SetupPeople(d)
      \/ Scripts!Plain(d, s) = Scripts!Create(d, {Scripts!Def("PhoneNumberField", "Phone")})
      \/ Scripts!Plain(d, s) = Scripts!ChoosePartners(d)
      \/ Scripts!Plain(d, s) = Scripts!RemoveExtra(d)
      \/ Scripts!Plain(d, s) = Scripts!RenameGender(d, "HOPE IND Gender", "HOPE IND Sex", "sex")
      \/ Scripts!Plain(d, s) = Scripts!AddPhone(d)
      \/ Scripts!Plain(d, s) = Scripts!AddReferences(d)
      \/ Scripts!Plain(d, s) = Scripts!AddHead(d)
      \/ Scripts!Plain(d, s) = Scripts!ChangeGroups(d)
      \/ Scripts!Plain(d, s) = d
  BY DEF Scripts!Plain
<1>2. QED
  BY <1>1, CreateSound, CreateCheckersSound, FixIndividualSound, PutSound, ConsentSound,
     RequiredSound, AddDocumentsSound, ExtractAreasSound, SetupPeopleSound, ChoosePartnersSound,
     RemoveSound, RenameGenderSound, AddPhoneSound, AddReferencesSound, AddHeadSound,
     ChangeGroupsSound DEF Scripts!AdminChoices, Scripts!RemoveExtra

LEMMA LaterSound ==
  ASSUME NEW d, Scripts!Sound(d), NEW s
  PROVE  Scripts!Sound(Scripts!Later(d, s))
<1>1. \/ Scripts!Later(d, s) = Scripts!Rename(d, Scripts!Roles)
      \/ Scripts!Later(d, s) = Scripts!AddRowNumbers(d)
      \/ Scripts!Later(d, s) = Scripts!LabelConsent(d, "other")
      \/ Scripts!Later(d, s) = Scripts!Retype(d, {"PhoneNo"}, "Phone")
      \/ Scripts!Later(d, s) = Scripts!PopulateLabels(d)
      \/ Scripts!Later(d, s) = Scripts!AddHousehold(d)
      \/ Scripts!Later(d, s) = Scripts!AddBase(d)
      \/ Scripts!Later(d, s) = Scripts!CleanPhones(d)
      \/ Scripts!Later(d, s) = Scripts!Retype(d, Scripts!Upgraded, "ChoiceEmpty")
      \/ Scripts!Later(d, s) = Scripts!Retype(d, Scripts!Observed, "Observed")
      \/ Scripts!Later(d, s) = Scripts!SuffixRoles(d)
      \/ Scripts!Later(d, s) = Scripts!AddLatin(d)
      \/ Scripts!Later(d, s) = Scripts!ReplaceImages(d)
      \/ Scripts!Later(d, s) = Scripts!Retype(Scripts!Retype(d, Scripts!AnyCase, "ChoiceAnyCase"),
           Scripts!EmptyAnyCase, "ChoiceEmptyAnyCase")
      \/ Scripts!Later(d, s) = d
  BY DEF Scripts!Later
<1>2. QED
  BY <1>1, RenameSound, AddRowNumbersSound, LabelConsentSound, RetypeSound, Populated,
     AddHouseholdSound, AddBaseSound, CleanPhonesSound, SuffixRolesSound, AddLatinSound,
     ReplaceImagesSound

LEMMA UndoneSound ==
  ASSUME NEW d, Scripts!Sound(d), NEW s
  PROVE  Scripts!Sound(Scripts!Undone(d, s))
<1>1. \/ Scripts!Undone(d, s) = Scripts!Delete(d, Scripts!HopeNames)
      \/ Scripts!Undone(d, s) = [Scripts!RemoveFieldsets(d, Scripts!Core) EXCEPT !.links = {}]
      \/ Scripts!Undone(d, s) = Scripts!Delete(d, {"Base64ImageField"})
      \/ Scripts!Undone(d, s) = Scripts!Delete(d, {"HOPE IND Disability", "HOPE IND Gender"})
      \/ Scripts!Undone(d, s) = Scripts!AdminText(d)
      \/ Scripts!Undone(d, s) = Scripts!Everywhere(d, {"consent_sharing"})
      \/ Scripts!Undone(d, s) = Scripts!NotRequired(d)
      \/ Scripts!Undone(d, s) = Scripts!RemoveDocuments(d)
      \/ Scripts!Undone(d, s) = Scripts!ReturnAreas(d)
      \/ Scripts!Undone(d, s) = Scripts!UnsetPeople(d)
      \/ Scripts!Undone(d, s) = Scripts!Delete(d, {"PhoneNumberField"})
      \/ Scripts!Undone(d, s) = Scripts!TypePartners(d)
      \/ Scripts!Undone(d, s) = Scripts!AddExtra(d)
      \/ Scripts!Undone(d, s) = Scripts!RenameGender(d, "HOPE IND Sex", "HOPE IND Gender", "gender")
      \/ Scripts!Undone(d, s) = Scripts!RemovePhone(d)
      \/ Scripts!Undone(d, s) = Scripts!RemoveReferences(d)
      \/ Scripts!Undone(d, s) = Scripts!RemoveHead(d)
      \/ Scripts!Undone(d, s) = Scripts!RestoreGroups(d)
      \/ Scripts!Undone(d, s) = d
  BY DEF Scripts!Undone
<1>2. Scripts!Sound([Scripts!RemoveFieldsets(d, Scripts!Core) EXCEPT !.links = {}])
  BY RemoveSound, SameFieldsSound
<1>3. QED
  BY <1>1, <1>2, DeleteSound, RemoveSound, AdminTextSound, NotRequiredSound,
     RemoveDocumentsSound, ReturnAreasSound, UnsetPeopleSound, TypePartnersSound, AddExtraSound,
     RenameGenderSound, RemovePhoneSound, RemoveReferencesSound, RemoveHeadSound, RestoreGroupsSound

LEMMA LaterUndoneSound ==
  ASSUME NEW d, Scripts!Sound(d), NEW s
  PROVE  Scripts!Sound(Scripts!LaterUndone(d, s))
<1>1. \/ Scripts!LaterUndone(d, s) = Scripts!Rename(d, Scripts!Inverted(Scripts!Roles))
      \/ Scripts!LaterUndone(d, s) = Scripts!RemoveRowNumbers(d)
      \/ Scripts!LaterUndone(d, s) = Scripts!LabelConsent(d, "none")
      \/ Scripts!LaterUndone(d, s) = Scripts!Retype(d, {"PhoneNo"}, "Char")
      \/ Scripts!LaterUndone(d, s) = Scripts!PopLabels(d)
      \/ Scripts!LaterUndone(d, s) = Scripts!RemoveHousehold(d)
      \/ Scripts!LaterUndone(d, s) = Scripts!RemoveBase(d)
      \/ Scripts!LaterUndone(d, s) = Scripts!RestorePhones(d)
      \/ Scripts!LaterUndone(d, s) = Scripts!Retype(d, Scripts!Upgraded, "Choice")
      \/ Scripts!LaterUndone(d, s) = Scripts!Retype(d, Scripts!Observed, "Choice")
      \/ Scripts!LaterUndone(d, s) = Scripts!PlainRoles(d)
      \/ Scripts!LaterUndone(d, s) = Scripts!RemoveLatin(d)
      \/ Scripts!LaterUndone(d, s) = Scripts!RestoreImages(d)
      \/ Scripts!LaterUndone(d, s) = Scripts!Retype(Scripts!Retype(d, Scripts!AnyCase, "Choice"),
           Scripts!EmptyAnyCase, "ChoiceEmpty")
      \/ Scripts!LaterUndone(d, s) = d
  BY DEF Scripts!LaterUndone
<1>2. QED
  BY <1>1, RenameSound, RemoveRowNumbersSound, LabelConsentSound, RetypeSound, Popped,
     RemoveHouseholdSound, RemoveBaseSound, RestorePhonesSound, PlainRolesSound,
     RemoveLatinSound, RestoreImagesSound

LEMMA ScriptsTop == Scripts!Top \in Nat /\ Scripts!Top > 9
BY DEF Scripts!Top, Scripts!Scripts

LEMMA ForwardSound ==
  ASSUME NEW d, Scripts!Sound(d), NEW s
  PROVE  Scripts!Sound(Scripts!Forward(d, s)) /\ Scripts!Sound(Scripts!Backward(d, s))
BY PlainSound, LaterSound, UndoneSound, LaterUndoneSound DEF Scripts!Forward, Scripts!Backward

ScriptInv == Scripts!TypeOK /\ Scripts!Sound(v1)

LEMMA ScriptBegins == Scripts!Init => ScriptInv
<1> SUFFICES ASSUME Scripts!Init PROVE ScriptInv
  OBVIOUS
<1>1. /\ v1.fields = {} /\ DOMAIN v1 = {"defs", "fields", "links", "ok"} /\ v2 = 0 /\ v3 = TRUE /\ v4 = 0
      /\ DOMAIN v5 = 1..Scripts!Top
  BY DEF Scripts!Init, Scripts!Empty
<1>2. QED
  BY <1>1, ScriptsTop DEF ScriptInv, Scripts!TypeOK, Scripts!Sound

\* The transaction of a script that raises is taken back.
LEMMA ScriptOutcome ==
  ASSUME ScriptInv, NEW e, Scripts!Sound(e), v1' = Scripts!Outcome(v1, e)
  PROVE  Scripts!Sound(v1') /\ \A f \in v1'.fields : f.def \in Scripts!DefNames(v1')
<1>1. CASE e.ok
  BY <1>1 DEF Scripts!Outcome, Scripts!Sound
<1>2. CASE ~e.ok
  <2>1. v1' = Scripts!Raised(v1)
    BY <1>2 DEF Scripts!Outcome
  <2>2. v1'.fields = v1.fields /\ v1'.defs = v1.defs
    BY <2>1 DEF Scripts!Raised, ScriptInv, Scripts!Sound
  <2>3. Scripts!Sound(v1')
    BY <2>1, SameFieldsSound DEF ScriptInv
  <2>4. QED
    BY <2>2, <2>3 DEF ScriptInv, Scripts!TypeOK, Scripts!DefNames
<1>3. QED
  BY <1>1, <1>2

LEMMA ScriptSteps ==
  ASSUME ScriptInv, Scripts!Next
  PROVE  ScriptInv'
<1>1. CASE Scripts!Apply
  <2>1. Scripts!Sound(v1') /\ \A f \in v1'.fields : f.def \in Scripts!DefNames(v1')
    BY <1>1, ScriptOutcome, ForwardSound DEF Scripts!Apply, ScriptInv
  <2>2. v2' \in 0..Scripts!Top
    BY <1>1, ScriptsTop DEF Scripts!Apply, ScriptInv, Scripts!TypeOK
  <2>3. v3' \in BOOLEAN /\ v4' \in 0..1 /\ DOMAIN v5' = 1..Scripts!Top
    BY <1>1 DEF Scripts!Apply, ScriptInv, Scripts!TypeOK
  <2>4. QED
    BY <2>1, <2>2, <2>3 DEF ScriptInv, Scripts!TypeOK
<1>2. CASE Scripts!Discharge
  <2>1. Scripts!Sound(v1') /\ \A f \in v1'.fields : f.def \in Scripts!DefNames(v1')
    BY <1>2, ScriptOutcome, ForwardSound DEF Scripts!Discharge, ScriptInv
  <2>2. v2' \in 0..Scripts!Top
    BY <1>2, ScriptsTop DEF Scripts!Discharge, ScriptInv, Scripts!TypeOK
  <2>3. v3' \in BOOLEAN /\ v4' \in 0..1 /\ DOMAIN v5' = 1..Scripts!Top
    <3>1. v3' \in BOOLEAN /\ UNCHANGED v5
      BY <1>2 DEF Scripts!Discharge
    <3>2. v4 \in 0..1
      BY DEF ScriptInv, Scripts!TypeOK
    <3>3. (v3 => v4 < 1) /\ v4' = IF v3 THEN v4 + 1 ELSE v4
      BY <1>2 DEF Scripts!Discharge
    <3>4. QED
      BY <3>1, <3>2, <3>3 DEF ScriptInv, Scripts!TypeOK
  <2>4. QED
    BY <2>1, <2>2, <2>3 DEF ScriptInv, Scripts!TypeOK
<1>3. CASE \E n \in OwnNames : Scripts!AddOwn(n)
  <2> PICK n \in OwnNames : Scripts!AddOwn(n)
    BY <1>3
  <2> DEFINE own == [fs |-> Scripts!OWN, name |-> "extra", def |-> n, label |-> "none"]
  <2>1. /\ DOMAIN v1' = {"defs", "fields", "links", "ok"} /\ v1'.fields = v1.fields \cup {own}
        /\ v1'.defs = v1.defs /\ (v1'.ok <=> v1.ok)
    BY DEF Scripts!AddOwn, ScriptInv, Scripts!Sound
  <2>2. n \in Scripts!DefNames(v1) /\ v1.ok /\ UNCHANGED <<v2, v3, v4, v5>>
    BY DEF Scripts!AddOwn
  <2>3. own.def = n /\ DOMAIN own = {"fs", "name", "def", "label"}
    OBVIOUS
  <2> HIDE DEF own
  <2>4. \A f \in v1'.fields : f.def \in Scripts!DefNames(v1')
    BY <2>1, <2>2, <2>3 DEF ScriptInv, Scripts!TypeOK, Scripts!DefNames
  <2>5. Scripts!Sound(v1')
    BY <2>1, <2>3, <2>4 DEF ScriptInv, Scripts!Sound
  <2>6. QED
    BY <2>2, <2>4, <2>5 DEF ScriptInv, Scripts!TypeOK
<1>4. QED
  BY <1>1, <1>2, <1>3 DEF Scripts!Next

-----------------------------------------------------------------------------
(* The types of all.                                                       *)

\* A step of another component leaves the jobs alone.
LEMMA StepOfJobs == [NextAll]_all => [Next]_vars
BY DEF NextAll, all, slots, vars, JobGroupsNext, CleanupNext, ConfigNext, AloneNext, CacheNext, CacheCalmNext,
  SyncNext, SyncAllNext, DeltaNext, OverlapsNext, UpNext, DownNext, ScriptsNext

\* What the types need that no property above does: the counts of the versions, and the scripts.
CountsAndScripts ==
  /\ IInv
  /\ In("Cache") => CountsInv
  /\ In("CacheCalm") => CalmCountsInv
  /\ In("Scripts") => ScriptInv

LEMMA InitCountsAndScripts == InitAll => CountsAndScripts
BY InitIInv, CountsBegins, CalmCountsBegins, ScriptBegins
  DEF InitAll, CountsAndScripts, In, JobGroupsInit, CleanupInit, ConfigInit, AloneInit, CacheInit,
  CacheCalmInit, SyncInit, SyncAllInit, DeltaInit, OverlapsInit, UpInit, DownInit, ScriptsInit

LEMMA KeepsCountsAndScripts == CountsAndScripts /\ [NextAll]_all => CountsAndScripts'
<1> SUFFICES ASSUME CountsAndScripts, [NextAll]_all PROVE CountsAndScripts'
  OBVIOUS
<1>1. IInv'
  BY StepOfJobs, NextIInv DEF CountsAndScripts
<1>2. In("Cache") => CountsInv'
  BY StepOfComponent, CountsNext DEF CountsAndScripts
<1>3. In("CacheCalm") => CalmCountsInv'
  BY StepOfComponent, CalmCountsNext DEF CountsAndScripts
<1>4. In("Scripts") => ScriptInv'
  <2>1. ScriptInv /\ UNCHANGED Scripts!vars => ScriptInv'
    BY DEF Scripts!vars, ScriptInv, Scripts!TypeOK, Scripts!Sound, Scripts!DefNames
  <2>2. QED
    BY <2>1, StepOfComponent, ScriptSteps DEF CountsAndScripts
<1>5. QED
  BY <1>1, <1>2, <1>3, <1>4, StepOfComponent DEF CountsAndScripts, In

\* A variable always has its type: a request that looks at a program has read a version of it
\* (IntegerVersionField), a version of a cached page is at most the number of writes
\* (CacheManager), who synchronises has the lock of what it lists (SyncLog), and no script
\* leaves a field whose definition is gone (the scripts of versioning).
THEOREM TypesAlwaysOK == SpecAll => []TypesOK
<1>1. /\ CountsAndScripts /\ [NextAll]_all => CountsAndScripts'
      /\ InitAll => CountsAndScripts
  BY KeepsCountsAndScripts, InitCountsAndScripts
<1>2. ThoroughInv /\ [NextAll]_all => ThoroughInv'
  BY StepOfComponent, CleanNext, NextIInv DEF ThoroughInv, In
<1>3. PagesInv /\ [NextAll]_all => PagesInv'
  BY StepOfComponent, FormStep, AloneStep DEF PagesInv, In
<1>4. SyncsInv /\ [NextAll]_all => SyncsInv'
  BY StepOfComponent, MissNext, RefAllTypes, OfficesStep, ParentNext, OverlapTypes DEF SyncsInv, In
<1>5. VersionsInv /\ [NextAll]_all => VersionsInv'
  BY StepOfComponent, UpSteps, DownSteps DEF VersionsInv, In
<1>6. CountsAndScripts /\ ThoroughInv /\ PagesInv /\ SyncsInv /\ VersionsInv => TypesOK
  <2> SUFFICES ASSUME CountsAndScripts, ThoroughInv, PagesInv, SyncsInv, VersionsInv PROVE TypesOK
    OBVIOUS
  <2>1. TypeOK
    BY DEF CountsAndScripts, IInv, StatusInv, TypeOK
  <2>2. (In("Cache") => Cache!TypeOK) /\ (In("CacheCalm") => CacheCalm!TypeOK) /\ (In("Scripts") => Scripts!TypeOK)
    BY CountsTells, CalmCountsTells DEF CountsAndScripts, ScriptInv
  <2>3. In("Cleanup") => Cleanup!TypeOK
    BY DEF ThoroughInv, Cleanup!CleanInv
  <2>4. (In("Config") => Config!TypeOK) /\ (In("Alone") => Alone!TypeOK)
    BY DEF PagesInv, Config!FormInv, Alone!AloneInv
  <2>5. (In("Sync") => Sync!TypeOK) /\ (In("SyncAll") => SyncAll!TypeOK)
    BY DEF SyncsInv, Sync!MissInv, Sync!SyncInv, SyncAll!SyncInv
  <2>6. (In("Delta") => Delta!TypeOK) /\ (In("Overlaps") => Overlaps!TypeOK)
    BY DEF SyncsInv, Delta!ParentInv, Delta!AreaInv, Overlaps!AreaInv
  <2>7. (In("Up") => Up!TypeOK) /\ (In("Down") => Down!TypeOK)
    BY DEF VersionsInv, Up!UpInv, Up!VersionInv, Down!TableInv, Down!VersionInv
  <2>8. QED
    BY <2>1, <2>2, <2>3, <2>4, <2>5, <2>6, <2>7 DEF TypesOK
<1>7. QED
  BY InitThorough, InitPages, InitSyncs, InitVersions, <1>1, <1>2, <1>3, <1>4, <1>5, <1>6, PTL DEF SpecAll
=============================================================================
