--------------------------- MODULE BatchIdentity ---------------------------
(***************************************************************************)
(* The identity errors of one batch of an RDI import: the one check that    *)
(* compares records with each other (contrib/hope/collision.py), and what   *)
(* the edits, validations and RDPs after it make of its result.             *)
(*                                                                          *)
(* The records are those of one kind.  Their other fields are right and     *)
(* clean, so that a validation finds and writes nothing else.               *)
(***************************************************************************)
EXTENDS Naturals, FiniteSets

CONSTANTS
  Records,
  Values,      \* of the identity field
  Blank,       \* None, "" and 0
  MaxEdits     \* bound on what users and the DataChecker change

ASSUME IdentityAssumption == Blank \notin Values /\ MaxEdits \in Nat

VARIABLES
  rec,      \* flex_fields[field_name], last_checked # None, errors
  job,      \* import_from_rdi after its transaction; the values it read, those shared
  check,    \* a validation under way, with the errors it read
  pushed,   \* the records that are sent to HOPE
  touched,  \* ghost: a value that is new, or an error removed, since the check
  edits

vars == <<rec, job, check, pushed, touched, edits>>

NoCheck == [at |-> "none"]

Init ==
  /\ \E f \in [Records -> Values \cup {Blank}] :
       rec = [r \in Records |-> [value |-> f[r], checked |-> FALSE, errors |-> {}]]
  /\ job = [at |-> "loaded"] /\ check = NoCheck
  /\ pushed = {} /\ touched = {} /\ edits = 0

\* The pages of the workspace list the records of complete batches.
Listed(r) == job.at = "complete" /\ r \notin pushed

\* What the preflight of an RDP asks for.
Valid(r) == Listed(r) /\ rec[r].checked /\ rec[r].errors = {}

Same(r, s) == rec[r].value = rec[s].value /\ rec[r].value # Blank

-----------------------------------------------------------------------------
(* _mark_batch_duplicates: the records are read once, and saved one by one. *)
Collect ==
  LET listed == {r \in Records : rec[r].value # Blank}
  IN /\ job.at = "loaded"
     /\ job' = [at |-> "marking", todo |-> listed,
                shared |-> {rec[r].value : r \in {s \in listed : \E t \in Records : t # s /\ Same(s, t)}},
                read |-> [r \in Records |-> rec[r].value]]
     /\ UNCHANGED <<rec, check, pushed, touched, edits>>

\* Mutant of Mark: every record with a value is marked.
MarkAll(r) ==
  /\ job.at = "marking" /\ r \in job.todo
  /\ rec' = [rec EXCEPT ![r].errors = {"identity"}, ![r].checked = TRUE]
  /\ job' = [job EXCEPT !.todo = @ \ {r}]
  /\ UNCHANGED <<check, pushed, touched, edits>>

(* A record has no error before: the check runs once, after the import that *)
(* creates the records, so there is no stale error for it to clear.         *)
Mark(r) ==
  /\ job.at = "marking" /\ r \in job.todo
  /\ rec' = IF job.read[r] \in job.shared
            THEN [rec EXCEPT ![r].errors = {"identity"}, ![r].checked = TRUE] ELSE rec
  /\ job' = [job EXCEPT !.todo = @ \ {r}]
  /\ UNCHANGED <<check, pushed, touched, edits>>

Complete ==
  /\ job.at = "marking" /\ job.todo = {}
  /\ job' = [job EXCEPT !.at = "complete"]
  /\ UNCHANGED <<rec, check, pushed, touched, edits>>

(* The job is cancelled, fails, or its worker dies; a job that is delivered *)
(* again creates another batch.                                             *)
Stop ==
  /\ job.at \in {"loaded", "marking"}
  /\ job' = [job EXCEPT !.at = "stopped"]
  /\ UNCHANGED <<rec, check, pushed, touched, edits>>

-----------------------------------------------------------------------------
(* validate_with_checker of a household or an individual replaces the       *)
(* errors, and puts the identity error back with a second save.             *)
Validate(r) ==
  /\ check = NoCheck /\ Listed(r)
  /\ check' = [at |-> "read", rec |-> r, errors |-> rec[r].errors]
  /\ UNCHANGED <<rec, job, pushed, touched, edits>>

SaveResult ==
  /\ check.at = "read"
  /\ rec' = [rec EXCEPT ![check.rec].checked = TRUE,
                        ![check.rec].errors = IF check.errors # {} THEN {} ELSE @]
  /\ check' = IF "identity" \in check.errors THEN [check EXCEPT !.at = "between"] ELSE NoCheck
  /\ UNCHANGED <<job, pushed, touched, edits>>

\* Mutant of SaveIdentity: the error is not preserved.
LoseIdentity ==
  /\ check.at = "between"
  /\ check' = NoCheck
  /\ UNCHANGED <<rec, job, pushed, touched, edits>>

SaveIdentity ==
  /\ check.at = "between"
  /\ rec' = [rec EXCEPT ![check.rec].errors = {"identity"}, ![check.rec].checked = TRUE]
  /\ check' = NoCheck
  /\ UNCHANGED <<job, pushed, touched, edits>>

Die ==
  /\ check # NoCheck
  /\ touched' = IF check.at = "between" THEN touched \cup {check.rec} ELSE touched
  /\ check' = NoCheck
  /\ UNCHANGED <<rec, job, pushed, edits>>

-----------------------------------------------------------------------------
Edit(r) ==
  /\ edits < MaxEdits /\ edits' = edits + 1
  /\ Listed(r)
  /\ UNCHANGED <<job, pushed>>

Changed(r, v) == IF v = rec[r].value THEN touched ELSE touched \cup {r}

(* The form saves the record in full and validates it; a validation that    *)
(* read it before fails at its next save, and takes an error with it.       *)
SubmitForm(r, v) ==
  /\ Edit(r)
  /\ rec' = [rec EXCEPT ![r] = [value |-> v, checked |-> TRUE, errors |-> @.errors \cap {"identity"}]]
  /\ touched' = IF check.at = "between" /\ check.rec = r THEN touched \cup {r} ELSE Changed(r, v)
  /\ check' = IF check # NoCheck /\ check.rec = r THEN NoCheck ELSE check

(* The mass, regex and concatenation updates write the fields alone. *)
MassUpdate(r, v) ==
  /\ Edit(r)
  /\ rec' = [rec EXCEPT ![r].value = v]
  /\ touched' = Changed(r, v)
  /\ UNCHANGED check

(* A spreadsheet or a reprocessing writes the fields, a picture one that is *)
(* not the identity; each leaves the record unchecked and without errors.   *)
Rewrite(r, v) ==
  /\ Edit(r)
  /\ rec' = [rec EXCEPT ![r] = [value |-> v, checked |-> FALSE, errors |-> {}]]
  /\ touched' = touched \cup {r}
  /\ UNCHANGED check

(* The DataChecker of the program changes. *)
Invalidate ==
  /\ edits < MaxEdits /\ edits' = edits + 1
  /\ LET gone == {r \in Records \ pushed : rec[r].checked}
     IN /\ rec' = [r \in Records |-> IF r \in gone
                     THEN [rec[r] EXCEPT !.checked = FALSE, !.errors = {"data_checker"}] ELSE rec[r]]
        /\ touched' = touched \cup gone
  /\ UNCHANGED <<job, check, pushed>>

(* An RDP is created and pushed. *)
Push(S) ==
  /\ S # {} /\ \A r \in S : Valid(r)
  /\ pushed' = pushed \cup S
  /\ UNCHANGED <<rec, job, check, touched, edits>>

Next ==
  \/ Collect \/ Complete \/ Stop \/ SaveResult \/ SaveIdentity \/ Die \/ Invalidate
  \/ \E r \in Records :
       \/ Mark(r) \/ Validate(r)
       \/ \E v \in Values \cup {Blank} : SubmitForm(r, v) \/ MassUpdate(r, v) \/ Rewrite(r, v)
  \/ \E S \in SUBSET Records : Push(S)

Spec == Init /\ [][Next]_vars

-----------------------------------------------------------------------------
(* The type invariant.  Only records that the check found alike have an     *)
(* identity error, whatever was read, saved and edited since.               *)
TypeOK ==
  /\ rec \in [Records -> [value : Values \cup {Blank}, checked : BOOLEAN,
                          errors : SUBSET {"identity", "data_checker"}]]
  /\ job.at \in {"loaded", "marking", "complete", "stopped"}
  /\ check.at \in {"none", "read", "between"}
  /\ pushed \subseteq Records /\ touched \subseteq Records /\ edits \in 0..MaxEdits
  /\ \A r \in Records : "identity" \in rec[r].errors =>
       \E s \in Records \ {r} : job.read[s] = job.read[r] /\ job.read[r] # Blank

(* Two records with one identity are ready for HOPE only through an edit of *)
(* one of them, an error that an update removed, or a validation between    *)
(* its two saves: the check leaves none out, an import that stops half way  *)
(* offers none, and validations that end keep what it found.                *)
AlikeAreHeld ==
  \A r, s \in Records : r # s /\ Same(r, s) /\ Valid(r) /\ Valid(s) =>
    \/ {r, s} \cap touched # {}
    \/ check.at = "between" /\ check.rec \in {r, s}

(* collision.py:35: what is pushed of a batch has no identity twice.        *)
PushedDiffer == \A r, s \in pushed : r # s => ~Same(r, s)

(* collision.py:39: who no longer collides loses the error.                 *)
ResolvedIsCleared ==
  /\ job.at = "complete" /\ check = NoCheck
  /\ \A r \in Records : rec[r].checked /\ \A s \in Records \ {r} : ~Same(r, s)
  => \A r \in Records : rec[r].errors = {}
=============================================================================
