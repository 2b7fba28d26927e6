---------------------------- MODULE AuroraImport ----------------------------
(***************************************************************************)
(* The incremental import of one Aurora registration into one program      *)
(* (contrib/aurora/import_processing.py).  Every run creates a batch, asks *)
(* for all records and reads the watermark again for each of them, so a    *)
(* batch is its run.  Nothing keeps two imports apart, and the broker may  *)
(* deliver a message more than once.  Aurora is assumed to list records by *)
(* ascending pk.                                                           *)
(***************************************************************************)
EXTENDS Naturals, Sequences, FiniteSets

CONSTANTS
  MaxRecords,    \* bound on records in Aurora
  MaxRuns,       \* bound on requests and redeliveries
  MaxCrashes     \* bound on dead workers

AuroraAssumption == {MaxRecords, MaxRuns, MaxCrashes} \subseteq Nat

VARIABLES
  records,     \* the last pk in Aurora
  mark,        \* SyncLog.last_id, 0 if there is none
  queued,      \* messages to deliver
  runs,        \* the executions: [at, next, base]
  status,      \* Batch.status of the batch of a run
  made,        \* the imported records: [pk, run]
  crashes,
  wanted,      \* run -> records in Aurora when it began
  overlapped   \* whether two runs were active at a time

vars == <<records, mark, queued, runs, status, made, crashes, wanted, overlapped>>

Runs    == 1..MaxRuns
Working == {"next", "checked", "committed", "listed"}
Ended   == {"done", "failed", "dead"}

Init ==
  /\ records = 0 /\ mark = 0 /\ queued = 0 /\ runs = <<>>
  /\ status = [r \in Runs |-> "none"] /\ made = {} /\ crashes = 0
  /\ wanted = [r \in Runs |-> 0] /\ overlapped = FALSE

At(r, step) == r \in DOMAIN runs /\ runs[r].at = step
Active      == {r \in DOMAIN runs : runs[r].at \in Working}
Go(r, step) == runs' = [runs EXCEPT ![r].at = step]
End(r, step) == runs' = [runs EXCEPT ![r] = [at |-> step, next |-> 0, base |-> 0]]
history     == <<wanted, overlapped>>

-----------------------------------------------------------------------------
Register ==
  /\ records < MaxRecords
  /\ records' = records + 1
  /\ UNCHANGED <<mark, queued, runs, status, made, crashes, history>>

\* the import page creates and queues a job; a message that is delivered twice is the same
RequestImport ==
  /\ Len(runs) + queued < MaxRuns
  /\ queued' = queued + 1
  /\ UNCHANGED <<records, mark, runs, status, made, crashes, history>>

\* import_data: the batch, and the list of records
Begin ==
  LET r == Len(runs) + 1 IN
  /\ queued > 0
  /\ queued' = queued - 1
  /\ runs' = Append(runs, [at |-> "next", next |-> 1, base |-> 0])
  /\ status' = [status EXCEPT ![r] = "LOADING"]
  /\ wanted' = [wanted EXCEPT ![r] = records]
  /\ overlapped' = (overlapped \/ Active # {})
  /\ UNCHANGED <<records, mark, made, crashes>>

\* the worker dies; its message may be delivered again
Crash(r) ==
  /\ r \in Active /\ crashes < MaxCrashes
  /\ crashes' = crashes + 1
  /\ End(r, "dead")
  /\ queued' = IF Len(runs) + queued < MaxRuns THEN queued + 1 ELSE queued
  /\ UNCHANGED <<records, mark, status, made, history>>

\* import_result reads the watermark and skips a record up to it
Check(r) ==
  LET pk == runs[r].next IN
  /\ At(r, "next") /\ pk <= records
  /\ runs' = [runs EXCEPT ![r] = IF pk <= mark
                THEN [@ EXCEPT !.next = pk + 1]
                ELSE [@ EXCEPT !.at = "checked", !.base = mark]]
  /\ UNCHANGED <<records, mark, queued, status, made, crashes, history>>

\* the transaction of the record: its household and individuals
Create(r) ==
  /\ At(r, "checked")
  /\ made' = made \cup {[pk |-> runs[r].next, run |-> r]}
  /\ Go(r, "committed")
  /\ UNCHANGED <<records, mark, queued, status, crashes, history>>

\* the finally clause, and on to the next record
Save(r) ==
  /\ At(r, "committed")
  /\ mark' = IF runs[r].next > runs[r].base THEN runs[r].next ELSE mark
  /\ runs' = [runs EXCEPT ![r] = [at |-> "next", next |-> runs[r].next + 1, base |-> 0]]
  /\ UNCHANGED <<records, queued, status, made, crashes, history>>

\* a record or a page fails, or the job is cancelled: nothing is to be saved
Fail(r) ==
  /\ At(r, "next") \/ At(r, "checked") \/ At(r, "listed")
  /\ End(r, "failed")
  /\ UNCHANGED <<records, mark, queued, status, made, crashes, history>>

\* Aurora has no more records: post-processing
Drain(r) ==
  /\ At(r, "next") /\ runs[r].next > records
  /\ Go(r, "listed")
  /\ UNCHANGED <<records, mark, queued, status, made, crashes, history>>

Complete(r) ==
  /\ At(r, "listed")
  /\ status' = [status EXCEPT ![r] = "COMPLETE"]
  /\ End(r, "done")
  /\ UNCHANGED <<records, mark, queued, made, crashes, history>>

-----------------------------------------------------------------------------
Work(r) == Check(r) \/ Create(r) \/ Save(r) \/ Drain(r) \/ Complete(r)

Next == \/ Register \/ RequestImport \/ Begin
        \/ \E r \in Runs : Work(r) \/ Fail(r) \/ Crash(r)

Spec == Init /\ [][Next]_vars

-----------------------------------------------------------------------------
(* Properties.                                                             *)

Imported == {m.pk : m \in made}

\* The types, and: every run has a batch.
TypeOK ==
  /\ records \in 0..MaxRecords /\ mark \in 0..MaxRecords
  /\ queued \in 0..MaxRuns
  /\ \A r \in DOMAIN runs : runs[r].at \in Working \cup Ended /\ status[r] # "none"
  /\ status \in [Runs -> {"none", "LOADING", "COMPLETE"}]

\* Whatever overlaps, dies or fails: the watermark never passes a record that was not
\* imported, although a slow run may set it back.
NothingSkipped == 1..mark \subseteq Imported

\* A complete batch means that all records that Aurora had when its run began are imported,
\* by that run or another.
CompleteIsAll ==
  \A r \in Runs : status[r] = "COMPLETE" => 1..wanted[r] \subseteq Imported

\* As long as runs do not overlap, records are created again only by crashes, and each
\* crash costs one at most: the watermark is saved after every record.
RepeatsAreCrashes ==
  ~overlapped => Cardinality(made) - Cardinality(Imported) <= crashes

\* Previously imported records are not created again (aurora.md:210).
NotCreatedAgain == Cardinality(made) = Cardinality(Imported)

-----------------------------------------------------------------------------
(* The inductive invariants.                                               *)

Shape ==
  /\ records \in 0..MaxRecords /\ mark \in 0..records /\ queued \in Nat /\ crashes \in Nat
  /\ runs \in Seq([at : Working \cup Ended, next : Nat, base : Nat])
  /\ Len(runs) + queued <= MaxRuns
  /\ status \in [Runs -> {"none", "LOADING", "COMPLETE"}] /\ wanted \in [Runs -> 0..records]
  /\ \A r \in Runs : status[r] = "none" <=> r \notin DOMAIN runs
  /\ made \subseteq [pk : 1..records, run : Runs]

\* What a run has gone through is imported, whoever did it.
AuroraInv ==
  /\ Shape /\ NothingSkipped /\ CompleteIsAll
  /\ \A r \in DOMAIN runs :
       /\ runs[r].at \in {"next", "checked", "committed"} =>
            runs[r].next > 0 /\ 1..(runs[r].next - 1) \subseteq Imported
       /\ runs[r].at = "checked" => runs[r].next <= records
       /\ runs[r].at = "committed" => runs[r].next \in Imported
       /\ runs[r].at = "listed" => 1..wanted[r] \subseteq Imported

\* A record is ahead of the watermark after a crash, until it is imported again.
Ahead == mark + 1 \in Imported /\ \A r \in DOMAIN runs : runs[r].at # "committed"

CalmInv ==
  /\ Shape /\ IsFiniteSet(made)
  /\ ~overlapped =>
       /\ \A q, r \in Active : q = r
       /\ Imported \subseteq 1..(mark + 1)
       /\ \A r \in DOMAIN runs :
            /\ runs[r].at = "next" => runs[r].next <= mark + 1
            /\ runs[r].at \in {"checked", "committed"} =>
                 runs[r].base = mark /\ runs[r].next = mark + 1
       /\ Cardinality(made) - Cardinality(Imported) + (IF Ahead THEN 1 ELSE 0) <= crashes
=============================================================================
