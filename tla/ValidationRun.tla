---------------------------- MODULE ValidationRun ----------------------------
(***************************************************************************)
(* A validation of the records of a program, split into chunks: the jobs    *)
(* are created together and queued one by one, every worker adds what it    *)
(* found to counters in Redis, and the one that completes the run reports   *)
(* the totals to Bitcaster.  Jobs may be delivered twice, counters expire.  *)
(***************************************************************************)
EXTENDS Integers, Sequences, FiniteSets

CONSTANTS
  Chunks,        \* the chunks; the last one queued by the web process is any
  MaxSize,       \* bound on the records of a chunk
  MaxDeletes,    \* bound on the chunks whose records are deleted meanwhile
  MaxRedeliver,  \* bound on the chunks whose job is delivered a second time
  MaxExpire      \* bound on the expiries of the counters

ValidationAssumption ==
  IsFiniteSet(Chunks) /\ {MaxSize, MaxDeletes, MaxRedeliver, MaxExpire} \subseteq Nat

Deliveries == {1, 2}   \* of the job of a chunk

Missing == -1   \* a counter that is not in the cache

VARIABLES
  run,      \* the web process: "new", "created", "queued", "stopped"
  records,  \* [valid, invalid] of every chunk
  at,       \* what each delivery is doing
  found,    \* what each delivery counted
  cache,    \* the counters of the run
  reports,  \* the events: [valid, invalid, state]
  faults    \* deletions, redeliveries and expiries so far

vars == <<run, records, at, found, cache, reports, faults>>

Deliverers == Chunks \X Deliveries
Nothing == [valid |-> 0, invalid |-> 0]
NoCounters == [valid |-> Missing, invalid |-> Missing, completed |-> Missing]

Init ==
  /\ run = "new"
  /\ records \in [Chunks -> {r \in [valid : 0..MaxSize, invalid : 0..MaxSize] :
                               r.valid + r.invalid \in 1..MaxSize}]
  /\ at = [w \in Deliverers |-> "idle"]
  /\ found = [w \in Deliverers |-> Nothing]
  /\ cache = NoCounters /\ reports = <<>>
  /\ faults = [deleted |-> {}, again |-> {}, expired |-> 0]

GoTo(w, a) == at' = [at EXCEPT ![w] = a]

-----------------------------------------------------------------------------
(* create_validation_jobs: the jobs in one transaction, queued afterwards. *)
CreateJobs ==
  /\ run = "new"
  /\ run' = "created"
  /\ UNCHANGED <<records, at, found, cache, reports, faults>>

Queued(c) == at[<<c, 1>>] # "idle"

QueueNext(c) ==
  /\ run = "created" /\ ~Queued(c)
  /\ GoTo(<<c, 1>>, "queued")
  /\ run' = IF \A o \in Chunks \ {c} : Queued(o) THEN "queued" ELSE run
  /\ UNCHANGED <<records, found, cache, reports, faults>>

(* Queueing fails midway; staff queue the jobs that are left. *)
StopQueueing ==
  /\ run = "created"
  /\ run' = "stopped"
  /\ UNCHANGED <<records, at, found, cache, reports, faults>>

QueueByHand(c) ==
  /\ run = "stopped" /\ ~Queued(c)
  /\ GoTo(<<c, 1>>, "queued")
  /\ UNCHANGED <<run, records, found, cache, reports, faults>>

(* validate_queryset: a chunk whose records are gone adds nothing. *)
Validate(w) ==
  /\ at[w] = "queued"
  /\ found' = [found EXCEPT ![w] = records[w[1]]]
  /\ GoTo(w, IF records[w[1]] = Nothing THEN "done" ELSE "validated")
  /\ UNCHANGED <<run, records, cache, reports, faults>>

(* _aggregate_validation_result: the counters that are missing start at 0, *)
AddKeys(w) ==
  /\ at[w] = "validated"
  /\ cache' = [k \in DOMAIN cache |-> IF cache[k] = Missing THEN 0 ELSE cache[k]]
  /\ GoTo(w, "keys")
  /\ UNCHANGED <<run, records, found, reports, faults>>

(* are incremented (incr of a missing key raises) ... *)
Increment(w, from, key, n, to) ==
  /\ at[w] = from
  /\ cache' = IF cache[key] = Missing THEN cache ELSE [cache EXCEPT ![key] = @ + n]
  /\ GoTo(w, IF n > 0 /\ cache[key] = Missing THEN "failed" ELSE to)
  /\ UNCHANGED <<run, records, found, reports, faults>>

AddValid(w)   == Increment(w, "keys", "valid", found[w].valid, "valid")
AddInvalid(w) == Increment(w, "valid", "invalid", found[w].invalid, "invalid")

(* ... and the chunk that completes the run is the last one. *)
Complete(w) ==
  Increment(w, "invalid", "completed", 1,
            IF cache.completed + 1 < Cardinality(Chunks) THEN "done" ELSE "last")

OrZero(n) == IF n = Missing THEN 0 ELSE n

(* The totals go into validation_completed_signal, whose handler queues an *)
(* event for Bitcaster ...                                                  *)
Report(w) ==
  /\ at[w] = "last"
  /\ reports' = Append(reports, [valid |-> OrZero(cache.valid), invalid |-> OrZero(cache.invalid),
                                 state |-> "queued"])
  /\ GoTo(w, "emitted")
  /\ UNCHANGED <<run, records, found, cache, faults>>

(* ... and the counters are deleted. *)
DeleteKeys(w) ==
  /\ at[w] = "emitted"
  /\ cache' = NoCounters
  /\ GoTo(w, "done")
  /\ UNCHANGED <<run, records, found, reports, faults>>

(* send_bitcaster_event_task: an error of Bitcaster is logged, not retried. *)
Send(i) ==
  /\ reports[i].state = "queued"
  /\ \E s \in {"sent", "lost"} : reports' = [reports EXCEPT ![i].state = s]
  /\ UNCHANGED <<run, records, at, found, cache, faults>>

-----------------------------------------------------------------------------
(* Faults *)

(* The records of a chunk are deleted before its job reads them. *)
DeleteRecords(c) ==
  /\ Cardinality(faults.deleted) < MaxDeletes /\ run # "new"
  /\ records' = [records EXCEPT ![c] = Nothing]
  /\ faults' = [faults EXCEPT !.deleted = @ \cup {c}]
  /\ UNCHANGED <<run, at, found, cache, reports>>

(* The job is not acknowledged before it ends: it is delivered again when *)
(* its worker is lost or works longer than the visibility timeout.         *)
Redeliver(c) ==
  /\ Cardinality(faults.again) < MaxRedeliver /\ c \notin faults.again
  /\ at[<<c, 1>>] \notin {"idle", "done", "failed"}
  /\ \E lost \in BOOLEAN :
       at' = [at EXCEPT ![<<c, 2>>] = "queued", ![<<c, 1>>] = IF lost THEN "failed" ELSE @]
  /\ faults' = [faults EXCEPT !.again = @ \cup {c}]
  /\ UNCHANGED <<run, records, found, cache, reports>>

(* The counters expire, 24 hours after the first of them was set. *)
Expire ==
  /\ faults.expired < MaxExpire /\ cache # NoCounters
  /\ cache' = NoCounters
  /\ faults' = [faults EXCEPT !.expired = @ + 1]
  /\ UNCHANGED <<run, records, at, found, reports>>

Work(w) ==
  \/ Validate(w) \/ AddKeys(w) \/ AddValid(w) \/ AddInvalid(w) \/ Complete(w)
  \/ Report(w) \/ DeleteKeys(w)

Next ==
  \/ CreateJobs \/ StopQueueing \/ Expire
  \/ \E c \in Chunks : QueueNext(c) \/ QueueByHand(c) \/ DeleteRecords(c) \/ Redeliver(c)
  \/ \E w \in Deliverers : Work(w)
  \/ \E i \in DOMAIN reports : Send(i)

Spec == Init /\ [][Next]_vars

-----------------------------------------------------------------------------
(* Properties *)

(* The type invariant; no chunk is counted before its worker is through. *)
TypeOK ==
  /\ run \in {"new", "created", "queued", "stopped"}
  /\ at \in [Deliverers -> {"idle", "queued", "validated", "keys", "valid", "invalid", "last",
                         "emitted", "done", "failed"}]
  /\ cache.completed # Missing =>
       cache.completed <= Cardinality({w \in Deliverers : at[w] \in {"last", "emitted", "done", "failed"}})

\* The records of a result that the chunks have found, numbered within their chunk.
Found(field) == {p \in Chunks \X (1..MaxSize) : p[2] <= found[<<p[1], 1>>][field]}
Total(field) == Cardinality(Found(field))

(* When every job of a run is delivered once, in any order and however they *)
(* were queued, and the counters last, one job reports, once, what all have   *)
(* found.                                                                     *)
ReportIsRight ==
  faults.again = {} /\ faults.expired = 0 =>
    /\ Len(reports) <= 1
    /\ \A i \in DOMAIN reports : \A field \in {"valid", "invalid"} : reports[i][field] = Total(field)

(* notifications/signals.py: the report comes when all chunks have been *)
(* validated by some worker.                                              *)
ReportAfterAll ==
  reports # <<>> => \A c \in Chunks : \E d \in Deliveries : at[<<c, d>>] \notin {"idle", "queued"}

(* A validation that is started reports. *)
Unreported == reports = <<>>
=============================================================================
