---------------------------- MODULE Records_proofs ----------------------------
(***************************************************************************)
(* Theorems about records and batches (MCRecords), for any number of both.   *)
(*                                                                           *)
(* BatchIdentity: what the check of an import found stays with the records   *)
(* it is about: each record nobody touched has its value still, and its      *)
(* error is in the row or in the hands of the one validation that is about   *)
(* to write it back.                                                         *)
(*                                                                           *)
(* Reprocess: the references of a household are those of its sheet until     *)
(* they are resolved, and what was resolved afterwards.                      *)
(*                                                                           *)
(* RecordChecks: who writes the verdict of a validation writes it on the     *)
(* data he read; if that is still the data, the verdict is right, and all    *)
(* other writers remove the mark or leave an excuse.                         *)
(*                                                                           *)
(* ValidationRun: the counters of the cache hold what the chunks that have   *)
(* passed them found, and the last chunk reports their sum.                  *)
(*                                                                           *)
(* Cleaners: a job makes of a record a function of its data; that of a       *)
(* steady job is idempotent, so the job that committed last would write      *)
(* again what is there.                                                      *)
(***************************************************************************)
EXTENDS MCRecords, Integers, Sequences, FiniteSetTheorems, WellFoundedInduction, TLAPS

-----------------------------------------------------------------------------
(* BatchIdentity.                                                            *)

Rows == [value : Values \cup {Blank}, checked : BOOLEAN, errors : SUBSET {"identity", "data_checker"}]

\* Before the check, while it marks, and when it has ended.
JobType ==
  \/ job = [at |-> "loaded"]
  \/ /\ job.at \in {"marking", "complete", "stopped"}
     /\ job = [at |-> job.at, todo |-> job.todo, shared |-> job.shared, read |-> job.read]
  \/ job.at = "stopped"

\* The value r had at the check is another's too.
Alike(r) == job.read[r] \in job.shared

\* Before the check no record has an error, and nobody sees the batch.
LoadedInv ==
  job.at = "loaded" =>
    /\ \A r \in Records : ~rec[r].checked /\ rec[r].errors = {}
    /\ touched = {}

\* Whose values are shared, as long as nobody changes them.
ReadInv ==
  job.at \in {"marking", "complete"} =>
    /\ \A r \in Records \ touched : rec[r].value = job.read[r]
    /\ \A r, s \in Records : r # s /\ job.read[r] = job.read[s] /\ job.read[r] # Blank => Alike(r)
    /\ \A r \in Records : Alike(r) => job.read[r] # Blank

\* The check marks all of them before the batch is complete.
MarkInv ==
  job.at = "marking" =>
    \A r \in Records \ touched : Alike(r) /\ r \notin job.todo => "identity" \in rec[r].errors

Between(r) == check.at = "between" /\ check.rec = r

\* A validation that has read the error, or removed it, writes it back.
HeldInv ==
  job.at = "complete" =>
    /\ \A r \in Records \ touched : Alike(r) => "identity" \in rec[r].errors \/ Between(r)
    /\ check.at = "read" /\ check.rec \notin touched /\ Alike(check.rec) => "identity" \in check.errors

\* Validations begin when the batch is complete.
CheckInv ==
  \/ check = NoCheck
  \/ /\ check.at \in {"read", "between"} /\ check.rec \in Records /\ job.at = "complete"
     /\ check = [at |-> check.at, rec |-> check.rec, errors |-> check.errors]

IInv ==
  /\ rec \in [Records -> Rows] /\ touched \subseteq Records
  /\ JobType /\ LoadedInv /\ ReadInv /\ MarkInv /\ HeldInv /\ CheckInv

-----------------------------------------------------------------------------
\* Initially the import has just committed.
LEMMA InitIInv == Init => IInv
<1> SUFFICES ASSUME Init PROVE IInv
  OBVIOUS
<1>1. rec \in [Records -> Rows] /\ \A r \in Records : ~rec[r].checked /\ rec[r].errors = {}
  BY DEF Init, Rows
<1>2. job = [at |-> "loaded"] /\ check = NoCheck /\ touched = {}
  BY DEF Init
<1>3. QED
  BY <1>1, <1>2 DEF IInv, JobType, LoadedInv, ReadInv, MarkInv, HeldInv, CheckInv

\* The check reads the values.
LEMMA CollectStep == ASSUME IInv, Collect PROVE IInv'
<1> DEFINE listed == {r \in Records : rec[r].value # Blank}
           shared == {rec[r].value : r \in {s \in listed : \E t \in Records : t # s /\ Same(s, t)}}
<1>1. /\ job.at = "loaded" /\ UNCHANGED <<rec, check, touched>>
      /\ job' = [at |-> "marking", todo |-> listed, shared |-> shared, read |-> [r \in Records |-> rec[r].value]]
  BY DEF Collect
<1>2. touched = {} /\ check = NoCheck
  BY <1>1 DEF IInv, LoadedInv, CheckInv, NoCheck
<1>3. \A r, s \in Records : r # s /\ rec[r].value = rec[s].value /\ rec[r].value # Blank => rec[r].value \in shared
  BY DEF Same
<1>4. \A v \in shared : v # Blank
  BY DEF Same
<1>5. ReadInv'
  BY <1>1, <1>3, <1>4 DEF ReadInv, Alike
<1>6. MarkInv'
  <2>1. \A r \in Records : r \notin listed => rec[r].value \notin shared
    BY <1>4
  <2>2. QED
    BY <1>1, <2>1 DEF MarkInv, Alike
<1>7. QED
  BY <1>1, <1>2, <1>5, <1>6 DEF IInv, JobType, LoadedInv, HeldInv, CheckInv

\* A record is marked if its value was shared.
LEMMA MarkStep == ASSUME IInv, NEW r \in Records, Mark(r) PROVE IInv'
<1>1. /\ job.at = "marking" /\ r \in job.todo /\ UNCHANGED <<check, touched>>
      /\ job' = [job EXCEPT !.todo = @ \ {r}]
  BY DEF Mark
<1>2. job = [at |-> "marking", todo |-> job.todo, shared |-> job.shared, read |-> job.read]
  BY <1>1 DEF IInv, JobType
<1>3. job' = [at |-> "marking", todo |-> job.todo \ {r}, shared |-> job.shared, read |-> job.read]
  BY <1>1, <1>2
<1>4. rec' \in [Records -> Rows] /\ \A s \in Records : rec'[s].value = rec[s].value /\ (s # r => rec'[s] = rec[s])
  BY DEF Mark, IInv, Rows
<1>5. Alike(r) => "identity" \in rec'[r].errors
  BY DEF Mark, Alike, IInv, Rows
<1>6. check = NoCheck
  BY <1>1 DEF IInv, CheckInv
<1>7. ReadInv'
  BY <1>1, <1>3, <1>4 DEF IInv, ReadInv, Alike
<1>8. MarkInv'
  BY <1>1, <1>3, <1>4, <1>5 DEF IInv, MarkInv, Alike
<1>9. QED
  BY <1>1, <1>3, <1>4, <1>6, <1>7, <1>8 DEF IInv, JobType, LoadedInv, HeldInv, CheckInv

\* The batch is complete when all are marked, or stays hidden.
LEMMA EndStep == ASSUME IInv, Complete \/ Stop PROVE IInv'
<1>1. UNCHANGED <<rec, check, touched>> /\ check = NoCheck
  BY DEF Complete, Stop, IInv, CheckInv
<1>2. CASE Complete
  <2>1. job.at = "marking" /\ job.todo = {} /\ job' = [job EXCEPT !.at = "complete"]
    BY <1>2 DEF Complete
  <2>2. job = [at |-> "marking", todo |-> {}, shared |-> job.shared, read |-> job.read]
    BY <2>1 DEF IInv, JobType
  <2>3. job' = [at |-> "complete", todo |-> {}, shared |-> job.shared, read |-> job.read]
    BY <2>1, <2>2
  <2>4. ReadInv'
    BY <1>1, <2>1, <2>3 DEF IInv, ReadInv, Alike
  <2>5. HeldInv'
    BY <1>1, <2>1, <2>3 DEF IInv, MarkInv, HeldInv, Alike, Between, NoCheck
  <2>6. QED
    BY <1>1, <2>3, <2>4, <2>5 DEF IInv, JobType, LoadedInv, MarkInv, CheckInv
<1>3. CASE Stop
  <2>1. job.at \in {"loaded", "marking"} /\ job' = [job EXCEPT !.at = "stopped"]
    BY <1>3 DEF Stop
  <2>2. job'.at = "stopped"
    BY <2>1 DEF IInv, JobType
  <2>3. QED
    BY <1>1, <2>2 DEF IInv, JobType, LoadedInv, ReadInv, MarkInv, HeldInv, CheckInv
<1>4. QED
  BY <1>2, <1>3

-----------------------------------------------------------------------------
\* What is left to show of a step while users have the batch.
LEMMA OpenStep ==
  ASSUME IInv, job' = job, job.at = "complete",
         rec' \in [Records -> Rows], touched \subseteq touched', touched' \subseteq Records,
         \A r \in Records \ touched' : rec'[r].value = rec[r].value,
         HeldInv', CheckInv'
  PROVE  IInv'
<1>1. ReadInv'
  BY DEF IInv, ReadInv, Alike
<1>2. QED
  BY <1>1 DEF IInv, JobType, LoadedInv, MarkInv

\* A validation reads the error, replaces it, and puts it back; its death is one of the causes.
LEMMA ValidationStep ==
  ASSUME IInv, (\E r \in Records : Validate(r)) \/ SaveResult \/ SaveIdentity \/ Die
  PROVE  IInv'
<1>1. CASE \E r \in Records : Validate(r)
  <2>1. PICK r \in Records : Validate(r)
    BY <1>1
  <2>2. /\ check = NoCheck /\ job.at = "complete" /\ UNCHANGED <<rec, job, touched>>
        /\ check' = [at |-> "read", rec |-> r, errors |-> rec[r].errors]
    BY <2>1 DEF Validate, Listed
  <2>3. HeldInv' /\ CheckInv'
    BY <2>2 DEF IInv, HeldInv, CheckInv, Between, Alike, NoCheck
  <2>4. QED
    BY <2>2, <2>3, OpenStep DEF IInv
<1>2. CASE SaveResult
  <2>1. /\ check.at = "read" /\ UNCHANGED <<job, touched>>
        /\ rec' = [rec EXCEPT ![check.rec].checked = TRUE,
                              ![check.rec].errors = IF check.errors # {} THEN {} ELSE @]
        /\ check' = IF "identity" \in check.errors THEN [check EXCEPT !.at = "between"] ELSE NoCheck
    BY <1>2 DEF SaveResult
  <2>2. /\ check.rec \in Records /\ job.at = "complete"
        /\ check = [at |-> "read", rec |-> check.rec, errors |-> check.errors]
    BY <2>1 DEF IInv, CheckInv, NoCheck
  <2>3. rec' \in [Records -> Rows] /\ \A s \in Records : rec'[s].value = rec[s].value
    <3> DEFINE c == check.rec
    <3>1. rec[c] \in Rows /\ rec' = [rec EXCEPT ![c] = [rec[c] EXCEPT !.checked = TRUE, !.errors = IF check.errors # {} THEN {} ELSE @]]
      BY <2>1, <2>2 DEF IInv
    <3>2. rec'[c] \in Rows /\ rec'[c].value = rec[c].value
      BY <2>2, <3>1 DEF IInv, Rows
    <3>3. QED
      BY <2>2, <3>1, <3>2 DEF IInv
  <2>4. \A s \in Records : s # check.rec => rec'[s] = rec[s]
    BY <2>1, <2>2 DEF IInv
  <2>5. CASE "identity" \in check.errors
    <3>1. check' = [at |-> "between", rec |-> check.rec, errors |-> check.errors]
      BY <2>1, <2>2, <2>5
    <3>2. HeldInv' /\ CheckInv'
      BY <2>1, <2>2, <2>4, <3>1 DEF IInv, HeldInv, CheckInv, Between, Alike
    <3>3. QED
      BY <2>1, <2>2, <2>3, <3>2, OpenStep DEF IInv
  <2>6. CASE "identity" \notin check.errors
    <3>1. check' = NoCheck
      BY <2>1, <2>6
    <3>2. HeldInv' /\ CheckInv'
      BY <2>1, <2>2, <2>4, <2>6, <3>1 DEF IInv, HeldInv, CheckInv, Between, Alike, NoCheck
    <3>3. QED
      BY <2>1, <2>2, <2>3, <3>2, OpenStep DEF IInv
  <2>7. QED
    BY <2>5, <2>6
<1>3. CASE SaveIdentity
  <2>1. /\ check.at = "between" /\ check' = NoCheck /\ UNCHANGED <<job, touched>>
        /\ rec' = [rec EXCEPT ![check.rec].errors = {"identity"}, ![check.rec].checked = TRUE]
    BY <1>3 DEF SaveIdentity
  <2>2. check.rec \in Records /\ job.at = "complete"
    BY <2>1 DEF IInv, CheckInv, NoCheck
  <2>3. rec' \in [Records -> Rows] /\ \A s \in Records : rec'[s].value = rec[s].value
    <3> DEFINE c == check.rec
    <3>1. rec[c] \in Rows /\ rec' = [rec EXCEPT ![c] = [rec[c] EXCEPT !.checked = TRUE, !.errors = {"identity"}]]
      BY <2>1, <2>2 DEF IInv
    <3>2. rec'[c] \in Rows /\ rec'[c].value = rec[c].value
      BY <2>2, <3>1 DEF IInv, Rows
    <3>3. QED
      BY <2>2, <3>1, <3>2 DEF IInv
  <2>4. /\ \A s \in Records : s # check.rec => rec'[s] = rec[s]
        /\ "identity" \in rec'[check.rec].errors
    BY <2>1, <2>2 DEF IInv, Rows
  <2>5. HeldInv' /\ CheckInv'
    BY <2>1, <2>2, <2>4 DEF IInv, HeldInv, CheckInv, Between, Alike, NoCheck
  <2>6. QED
    BY <2>1, <2>2, <2>3, <2>5, OpenStep DEF IInv
<1>4. CASE Die
  <2>1. /\ check # NoCheck /\ check' = NoCheck /\ UNCHANGED <<rec, job>>
        /\ touched' = IF check.at = "between" THEN touched \cup {check.rec} ELSE touched
    BY <1>4 DEF Die
  <2>2. check.rec \in Records /\ job.at = "complete"
    BY <2>1 DEF IInv, CheckInv
  <2>3. HeldInv' /\ CheckInv'
    BY <2>1, <2>2 DEF IInv, HeldInv, CheckInv, Between, Alike, NoCheck
  <2>4. QED
    BY <2>1, <2>2, <2>3, OpenStep DEF IInv
<1>5. QED
  BY <1>1, <1>2, <1>3, <1>4

\* An edit keeps the error, or touches the record.
LEMMA EditStep ==
  ASSUME IInv, NEW r \in Records, NEW v \in Values \cup {Blank},
         SubmitForm(r, v) \/ MassUpdate(r, v) \/ Rewrite(r, v)
  PROVE  IInv'
<1>1. job.at = "complete" /\ UNCHANGED job
  BY DEF SubmitForm, MassUpdate, Rewrite, Edit, Listed
<1>2. rec' \in [Records -> Rows] /\ \A s \in Records : s # r => rec'[s] = rec[s]
  <2>1. PICK new \in Rows : rec' = [rec EXCEPT ![r] = new]
    <3>1. rec[r] \in Rows
      BY DEF IInv
    <3>2. CASE SubmitForm(r, v)
      BY <3>1, <3>2 DEF SubmitForm, Rows
    <3>3. CASE MassUpdate(r, v)
      <4>1. rec' = [rec EXCEPT ![r] = [rec[r] EXCEPT !.value = v]]
        BY <3>3 DEF MassUpdate, IInv
      <4>2. [rec[r] EXCEPT !.value = v] \in Rows
        BY <3>1 DEF Rows
      <4>3. QED
        BY <4>1, <4>2
    <3>4. CASE Rewrite(r, v)
      BY <3>4 DEF Rewrite, Rows
    <3>5. QED
      BY <3>2, <3>3, <3>4
  <2>2. QED
    BY <2>1 DEF IInv
<1>3. touched \subseteq touched' /\ touched' \subseteq touched \cup {r}
  BY DEF SubmitForm, MassUpdate, Rewrite, Changed
<1>4. r \notin touched' => rec'[r].value = rec[r].value /\ ("identity" \in rec[r].errors => "identity" \in rec'[r].errors)
  BY DEF SubmitForm, MassUpdate, Rewrite, Changed, IInv, Rows
<1>5. check' = check \/ (check' = NoCheck /\ check.rec = r)
  BY DEF SubmitForm, MassUpdate, Rewrite
<1>6. check' # check => (check.at = "between" => r \in touched')
  BY DEF SubmitForm, MassUpdate, Rewrite
<1>7. CheckInv'
  BY <1>1, <1>5 DEF IInv, CheckInv
<1>8. HeldInv'
  BY <1>1, <1>2, <1>3, <1>4, <1>5, <1>6 DEF IInv, HeldInv, Between, Alike, NoCheck
<1>9. QED
  BY <1>1, <1>2, <1>3, <1>4, <1>7, <1>8, OpenStep DEF IInv

\* A new DataChecker touches what was checked, which all marked records are.
LEMMA InvalidateStep == ASSUME IInv, Invalidate PROVE IInv'
<1> DEFINE gone == {r \in Records \ pushed : rec[r].checked}
<1>1. /\ UNCHANGED <<job, check>> /\ touched' = touched \cup gone
      /\ rec' = [r \in Records |-> IF r \in gone
                   THEN [rec[r] EXCEPT !.checked = FALSE, !.errors = {"data_checker"}] ELSE rec[r]]
  BY DEF Invalidate
<1>2. rec' \in [Records -> Rows] /\ \A r \in Records \ touched' : rec'[r] = rec[r]
  BY <1>1 DEF IInv, Rows
<1>3. LoadedInv'
  BY <1>1 DEF IInv, LoadedInv
<1>4. ReadInv' /\ MarkInv' /\ HeldInv' /\ CheckInv'
  BY <1>1, <1>2 DEF IInv, ReadInv, MarkInv, HeldInv, CheckInv, Alike, Between
<1>5. QED
  BY <1>1, <1>2, <1>3, <1>4 DEF IInv, JobType

\* Every step keeps the invariant.
LEMMA NextIInv == IInv /\ [Next]_vars => IInv'
<1>1. ASSUME IInv, UNCHANGED <<rec, job, check, touched>> PROVE IInv'
  BY <1>1 DEF IInv, JobType, LoadedInv, ReadInv, MarkInv, HeldInv, CheckInv, Alike, Between
<1>2. QED
  BY <1>1, CollectStep, MarkStep, EndStep, ValidationStep, EditStep, InvalidateStep DEF Next, vars, Push

-----------------------------------------------------------------------------
\* Of any number of records, two with one identity are ready for HOPE only through an
\* edit, an error that an update removed, or a validation between its two saves.
THEOREM AlikeHeld == Spec => []AlikeAreHeld
<1>1. IInv => AlikeAreHeld
  <2> SUFFICES ASSUME IInv, NEW r \in Records, NEW s \in Records, r # s, Same(r, s), Valid(r), Valid(s),
                      r \notin touched, s \notin touched
               PROVE  check.at = "between" /\ check.rec \in {r, s}
    BY DEF AlikeAreHeld
  <2>1. job.at = "complete" /\ rec[r].errors = {}
    BY DEF Valid, Listed
  <2>2. rec[r].value = job.read[r] /\ rec[s].value = job.read[s]
    BY <2>1 DEF IInv, ReadInv
  <2>3. Alike(r)
    BY <2>1, <2>2 DEF IInv, ReadInv, Same
  <2>4. QED
    BY <2>1, <2>3 DEF IInv, HeldInv, Between
<1>2. QED
  BY InitIInv, NextIInv, <1>1, PTL DEF Spec

-----------------------------------------------------------------------------
(* Numbers.                                                                  *)

\* A set of numbers has a least one,
LEMMA LeastNumber ==
  ASSUME NEW S \in SUBSET Nat, S # {}
  PROVE  \E i \in S : \A j \in S : i <= j
<1>1. PICK i \in S : \A j \in S : ~(<<j, i>> \in OpToRel(<, Nat))
  BY WFMin, NatLessThanWellFounded
<1>2. \A j \in S : ~(j < i)
  BY <1>1 DEF OpToRel
<1>3. QED
  BY <1>2

\* and a greatest one if it is finite.
LEMMA GreatestNumber ==
  ASSUME NEW S \in SUBSET Nat, S # {}, IsFiniteSet(S)
  PROVE  \E i \in S : \A j \in S : j <= i
<1> DEFINE Has(U) == \E i \in U : \A j \in U : j <= i
           Bad == {n \in Nat : \E U \in SUBSET Nat : /\ U # {} /\ IsFiniteSet(U)
                                                     /\ Cardinality(U) = n /\ ~Has(U)}
<1>1. SUFFICES ASSUME ~Has(S) PROVE FALSE
  OBVIOUS
<1>2. Bad # {}
  BY <1>1, FS_CardinalityType
<1>3. PICK n \in Bad : \A m \in Bad : n <= m
  BY <1>2, LeastNumber
<1>4. PICK U \in SUBSET Nat : U # {} /\ IsFiniteSet(U) /\ Cardinality(U) = n /\ ~Has(U)
  BY <1>3
<1>5. PICK x \in U : TRUE
  BY <1>4
<1>6. IsFiniteSet(U \ {x}) /\ Cardinality(U \ {x}) = n - 1
  BY <1>4, <1>5, FS_RemoveElement
<1>7. U \ {x} # {}
  <2>1. U \ {x} = {} => Has(U)
    BY <1>5
  <2>2. QED
    BY <2>1, <1>4
<1>8. Has(U \ {x})
  <2>1. n - 1 \in Nat
    BY <1>6, FS_CardinalityType
  <2>2. n - 1 \notin Bad
    BY <1>3, <2>1
  <2>3. QED
    BY <1>6, <1>7, <2>1, <2>2
<1>9. PICK i \in U \ {x} : \A j \in U \ {x} : j <= i
  BY <1>8
<1>10. x <= i => \A j \in U : j <= i
  BY <1>9
<1>11. ~(x <= i) => \A j \in U : j <= x
  BY <1>9, <1>5
<1>12. QED
  BY <1>4, <1>5, <1>9, <1>10, <1>11

-----------------------------------------------------------------------------
(* Reprocess.                                                                *)

\* What is assumed of the batches.
LEMMA BatchFacts ==
  /\ People \subseteq Nat \ {0} /\ IsFiniteSet(People)
  /\ SourceOf \in [Batches -> {"RDI", "KOBO"}] /\ BatchOf \in [People -> Batches] /\ Outside \subseteq People
  /\ Sheets \in [Batches -> [Again!Roles -> Nat]] /\ NoMapping \notin Mappings /\ Reprocessings \in Nat
  /\ RawParts \in [People -> Again!PartOf] /\ MappedParts \in [Mappings -> [People -> Again!PartOf]]
  /\ \A i \in People : RawParts[i].rel = "NON_BENEFICIARY" <=> i \in Outside
  /\ \A b \in Batches, r \in Again!Roles :
       SourceOf[b] = "RDI" /\ ImportedRefs[b][r] \in Again!OwnOf(b) \cup {0} =>
         ImportedRefs[b][r] = IF Sheets[b][r] = 0 THEN 0 ELSE Again!RowAmong(Again!OwnOf(b), Sheets[b][r])
BY BoundsAssumption DEF Again!ReprocessAssumption, Again!ImportIsResolved, Again!Nobody,
  Again!IsFiniteSet, IsFiniteSet

\* The first of a set of numbers is one of them.
LEMMA LowestIsOne ==
  ASSUME NEW S \in SUBSET Nat, S # {}
  PROVE  Again!Lowest(S) \in S /\ Edited!Lowest(S) \in S
BY LeastNumber DEF Again!Lowest, Edited!Lowest

\* A row reference names somebody whose row it is, or nobody.
LEMMA RowNames ==
  ASSUME NEW S \in SUBSET People, NEW ref
  PROVE  \/ Again!RowAmong(S, ref) = 0
         \/ Again!RowAmong(S, ref) \in S /\ RowNumber[Again!RowAmong(S, ref)] = ref
<1> DEFINE named == {i \in S : RowNumber[i] = ref}
<1>1. CASE named = {}
  BY <1>1 DEF Again!RowAmong, Again!Nobody
<1>2. CASE named # {}
  <2>1. named \in SUBSET Nat /\ IsFiniteSet(named)
    BY BatchFacts, FS_Subset
  <2>2. \E i \in named : \A j \in named : j <= i
    BY <1>2, <2>1, GreatestNumber
  <2>3. Again!RowAmong(S, ref) = CHOOSE i \in named : \A j \in named : j <= i
    BY <1>2 DEF Again!RowAmong
  <2>4. QED
    BY <2>2, <2>3
<1>3. QED
  BY <1>1, <1>2

\* What a step leaves of a batch.
SameRow(b) ==
  /\ v1'[b] = v1[b] /\ v3'[b] = v3[b] /\ v6'[b] = v6[b] /\ v7'[b] = v7[b]
  /\ (b \in v5' <=> b \in v5) /\ (b \in v9' <=> b \in v9) /\ (b \in v10' <=> b \in v10)
SamePeople(b) == \A i \in Again!OwnOf(b) : v2'[i] = v2[i]

\* Who has a role in a household depends on its members and on whether it was pushed.
LEMMA RolesSame ==
  ASSUME NEW b \in Batches, NEW r \in Again!Roles, SamePeople(b), b \in v5' <=> b \in v5
  PROVE  Again!With(b, r)' = Again!With(b, r)
<1>1. Again!Members(b)' = Again!Members(b) /\ Again!Members(b) \subseteq Again!OwnOf(b)
  BY DEF Again!Members, Again!OwnOf
<1>2. \A i \in Again!Members(b) : (i \in Again!Removed') <=> i \in Again!Removed
  BY DEF Again!Members, Again!Removed
<1>3. QED
  BY <1>1, <1>2 DEF SamePeople, Again!With, Again!Roles

\* So the invariant of a batch that a step leaves alone is left alone.
LEMMA OtherBatch ==
  ASSUME NEW b \in Batches, Again!JobInv(b), Again!MarkIsRight(b), SameRow(b), SamePeople(b)
  PROVE  Again!JobInv(b)' /\ Again!MarkIsRight(b)'
<1>1. \A r \in Again!Roles : Again!With(b, r)' = Again!With(b, r)
  BY RolesSame DEF SameRow
<1>2. (Again!IsRestored(b)' <=> Again!IsRestored(b)) /\ (Again!Fresh(b)' <=> Again!Fresh(b))
  BY <1>1 DEF SameRow, Again!IsRestored, Again!RestoredRdi, Again!RestoredKobo, Again!Fresh, Again!Lowest,
    Again!OwnOf, Again!Nobody, Again!Roles
<1>3. QED
  BY <1>2 DEF SameRow, Again!JobInv, Again!MarkIsRight, Again!Running, Again!Settled, Again!Complete,
    Again!OfItsBatch, Again!Members, Again!OwnOf

\* What is left to show of a step of one batch.
LEMMA BatchStep ==
  ASSUME Again!AgainInv, NEW b \in Batches,
         DOMAIN v1' = Batches, DOMAIN v3' = Batches, DOMAIN v2' = People, v5' \subseteq Batches,
         v7' \in [Batches -> 0..Reprocessings], Again!JobType',
         \A a \in Batches \ {b} : SameRow(a) /\ SamePeople(a),
         Again!JobInv(b)', Again!MarkIsRight(b)'
  PROVE  Again!AgainInv'
<1>1. \A a \in Batches \ {b} : Again!JobInv(a)' /\ Again!MarkIsRight(a)'
  BY OtherBatch DEF Again!AgainInv
<1>2. QED
  BY <1>1 DEF Again!AgainInv

JobSet == [at : Again!Steps, mapping : Again!Offered, household : BOOLEAN, todo : SUBSET People]

\* The job of a batch has the types of jobs, and works at its own people.
LEMMA JobStep ==
  ASSUME Again!JobType, NEW b \in Batches, NEW new \in JobSet, new.todo \subseteq Again!OwnOf(b),
         v6' = [v6 EXCEPT ![b] = new]
  PROVE  Again!JobType' /\ v6'[b] = new /\ \A a \in Batches \ {b} : v6'[a] = v6[a]
<1>1. v6' \in [Batches -> JobSet] /\ v6'[b] = new /\ \A a \in Batches \ {b} : v6'[a] = v6[a]
  BY DEF Again!JobType, JobSet
<1>2. \A a \in Batches : v6'[a].todo \subseteq Again!OwnOf(a)
  BY <1>1 DEF Again!JobType
<1>3. QED
  BY <1>1, <1>2 DEF Again!JobType, JobSet, Again!OwnOf

\* The job as it is.
LEMMA JobIs == ASSUME Again!JobType, NEW b \in Batches PROVE v6[b] \in JobSet /\ v6[b].todo \subseteq Again!OwnOf(b)
BY DEF Again!JobType, JobSet

\* A job that is requested, fails or comes back works at nothing.
LEMMA RequestStep ==
  ASSUME Again!AgainInv, NEW b \in Batches, Again!Request(b) \/ Again!Raise(b) \/ Again!Die(b)
  PROVE  Again!AgainInv'
<1>1. PICK new \in JobSet : v6' = [v6 EXCEPT ![b] = new] /\ new.at \in {"queued", "failed"} /\ new.todo = {}
  <2>1. Again!Idle \in JobSet
    BY DEF Again!Idle, JobSet, Again!Steps, Again!Offered
  <2>2. v6[b].mapping \in Again!Offered
    BY JobIs DEF Again!AgainInv, JobSet
  <2>3. \A a \in {"queued", "failed"}, m \in Again!Offered :
          LET new == [Again!Idle EXCEPT !.at = a, !.mapping = m]
          IN new \in JobSet /\ new.at = a /\ new.todo = {}
    BY <2>1 DEF Again!Idle, JobSet, Again!Steps
  <2>4. [Again!Idle EXCEPT !.at = "failed"] \in JobSet
        /\ [Again!Idle EXCEPT !.at = "failed"].at = "failed" /\ [Again!Idle EXCEPT !.at = "failed"].todo = {}
    BY <2>1 DEF Again!Idle, JobSet, Again!Steps
  <2>5. CASE Again!Request(b)
    BY <2>3, <2>5 DEF Again!Request
  <2>6. CASE Again!Raise(b)
    BY <2>4, <2>6 DEF Again!Raise
  <2>7. CASE Again!Die(b)
    BY <2>2, <2>3, <2>7 DEF Again!Die
  <2>8. QED
    BY <2>5, <2>6, <2>7
<1>3. Again!JobType' /\ v6'[b] = new /\ \A c \in Batches \ {b} : v6'[c] = v6[c]
  BY <1>1, JobStep DEF Again!AgainInv
<1>4. /\ UNCHANGED <<v1, v2, v3, v5, v9, v10>>
      /\ v7' = v7 \/ (v7[b] > 0 /\ v7' = [v7 EXCEPT ![b] = @ - 1])
  BY DEF Again!Request, Again!Raise, Again!Die
<1>5. v7' \in [Batches -> 0..Reprocessings] /\ \A c \in Batches \ {b} : v7'[c] = v7[c]
  BY <1>4, BatchFacts DEF Again!AgainInv
<1>6. Again!JobInv(b)'
  BY <1>1, <1>3 DEF Again!JobInv, Again!Running, Again!Settled
<1>7. Again!MarkIsRight(b)'
  BY <1>4 DEF Again!AgainInv, Again!MarkIsRight, Again!Complete, Again!OfItsBatch, Again!Members, Again!OwnOf
<1>8. \A c \in Batches \ {b} : SameRow(c) /\ SamePeople(c)
  BY <1>3, <1>4, <1>5 DEF SameRow, SamePeople
<1>9. QED
  BY <1>3, <1>4, <1>5, <1>6, <1>7, <1>8, BatchStep DEF Again!AgainInv

\* A job that begins has what was not pushed.
LEMMA BeginStep == ASSUME Again!AgainInv, NEW b \in Batches, Again!Begin(b) PROVE Again!AgainInv'
<1> DEFINE new == [v6[b] EXCEPT !.at = "households", !.household = b \notin v5]
<1>1. /\ v6' = [v6 EXCEPT ![b] = new] /\ UNCHANGED <<v1, v2, v3, v5, v7>>
      /\ v9' = v9 \ {b} /\ v10' = v10 \ {b}
  BY DEF Again!Begin, Again!AgainInv, Again!JobType
<1>2. new \in JobSet /\ new.todo \subseteq Again!OwnOf(b) /\ new.at = "households" /\ new.household = (b \notin v5)
  BY JobIs DEF Again!AgainInv, JobSet, Again!Steps
<1>3. Again!JobType' /\ v6'[b] = new /\ \A a \in Batches \ {b} : v6'[a] = v6[a]
  BY <1>1, <1>2, JobStep DEF Again!AgainInv
<1> HIDE DEF new
<1>4. Again!JobInv(b)'
  BY <1>1, <1>2, <1>3 DEF Again!JobInv, Again!Running, Again!Settled
<1>5. Again!MarkIsRight(b)'
  BY <1>1 DEF Again!AgainInv, Again!MarkIsRight, Again!Complete, Again!OfItsBatch, Again!Members, Again!OwnOf
<1>6. \A a \in Batches \ {b} : SameRow(a) /\ SamePeople(a)
  BY <1>1, <1>3 DEF SameRow, SamePeople
<1>7. QED
  BY <1>1, <1>3, <1>4, <1>5, <1>6, BatchStep DEF Again!AgainInv

\* The household has the references of its sheet, and no mark.
LEMMA HouseholdStep == ASSUME Again!AgainInv, NEW b \in Batches, Again!ProcessHousehold(b) PROVE Again!AgainInv'
<1> DEFINE new == [v6[b] EXCEPT !.at = "individuals", !.todo = Again!LiveOf(b)]
<1>1. /\ v6[b].at = "households" /\ v6' = [v6 EXCEPT ![b] = new] /\ UNCHANGED <<v2, v5, v7, v9, v10>>
      /\ v6[b].household => v1' = [v1 EXCEPT ![b] = Again!Rebuilt(b)] /\ v3' = [v3 EXCEPT ![b] = "no"]
      /\ ~v6[b].household => UNCHANGED <<v1, v3>>
  BY DEF Again!ProcessHousehold, Again!Individuals, Again!AgainInv, Again!JobType
<1>2. new \in JobSet /\ new.todo \subseteq Again!OwnOf(b) /\ new.at = "individuals" /\ new.household = v6[b].household
  <2>1. Again!LiveOf(b) \in SUBSET People /\ Again!LiveOf(b) \subseteq Again!OwnOf(b)
    BY DEF Again!LiveOf, Again!OwnOf
  <2>2. v6[b] \in JobSet
    BY JobIs DEF Again!AgainInv
  <2>3. QED
    BY <2>1, <2>2 DEF JobSet, Again!Steps
<1>3. Again!JobType' /\ v6'[b] = new /\ \A a \in Batches \ {b} : v6'[a] = v6[a]
  BY <1>1, <1>2, JobStep DEF Again!AgainInv
<1> HIDE DEF new
<1>4. v6[b].household => Again!Fresh(b)'
  <2>1. SUFFICES ASSUME v6[b].household PROVE v1'[b] = Again!Rebuilt(b) => Again!Fresh(b)'
    BY <1>1 DEF Again!AgainInv
  <2>2. SourceOf[b] = "RDI" => Again!Rebuilt(b) = Sheets[b]
    BY BatchFacts DEF Again!Rebuilt, Again!Kept
  <2>3. SourceOf[b] = "KOBO" => Again!Rebuilt(b)["head"] = Again!Nobody
    BY DEF Again!Rebuilt, Again!Kept, Again!Roles
  <2>4. QED
    BY <2>2, <2>3, BatchFacts DEF Again!Fresh
<1>5. v6[b].household \/ b \in v5
  BY <1>1 DEF Again!AgainInv, Again!JobInv, Again!Running
<1>6. Again!JobInv(b)'
  BY <1>1, <1>2, <1>3, <1>4, <1>5 DEF Again!JobInv, Again!AgainInv, Again!Running, Again!Settled
<1>7. Again!MarkIsRight(b)'
  <2>1. v6[b].household => v3'[b] = "no"
    BY <1>1 DEF Again!AgainInv
  <2>2. QED
    BY <1>1, <2>1 DEF Again!AgainInv, Again!MarkIsRight, Again!Complete, Again!OfItsBatch, Again!Members, Again!OwnOf
<1>8. DOMAIN v1' = Batches /\ DOMAIN v3' = Batches /\ \A a \in Batches \ {b} : SameRow(a) /\ SamePeople(a)
  BY <1>1, <1>3 DEF SameRow, SamePeople, Again!AgainInv
<1>9. QED
  BY <1>1, <1>3, <1>6, <1>7, <1>8, BatchStep DEF Again!AgainInv

\* An individual is one of the batch, whatever the mapping gives it.
LEMMA IndividualStep == ASSUME Again!AgainInv, NEW b \in Batches, Again!ProcessIndividual(b) PROVE Again!AgainInv'
<1>1. v6[b].at = "individuals" /\ UNCHANGED <<v1, v3, v5, v7, v9, v10>>
  BY DEF Again!ProcessIndividual
<1>2. PICK new \in JobSet : /\ v6' = [v6 EXCEPT ![b] = new] /\ new.todo \subseteq Again!OwnOf(b)
                            /\ new.at \in {"individuals", "refs"} /\ new.household = v6[b].household
  <2>1. v6[b] \in JobSet /\ v6[b].todo \subseteq Again!OwnOf(b)
    BY JobIs DEF Again!AgainInv
  <2>2. CASE v6[b].todo = {}
    <3> DEFINE new == [v6[b] EXCEPT !.at = "refs"]
    <3>1. v6' = [v6 EXCEPT ![b] = new]
      BY <2>2 DEF Again!ProcessIndividual, Again!AgainInv, Again!JobType
    <3>2. new \in JobSet /\ new.todo = {} /\ new.at = "refs" /\ new.household = v6[b].household
      BY <2>1, <2>2 DEF JobSet, Again!Steps
    <3>3. QED
      BY <3>1, <3>2
  <2>3. CASE v6[b].todo # {}
    <3> DEFINE rest == v6[b].todo \ {Again!Lowest(v6[b].todo)}
               new == [v6[b] EXCEPT !.todo = rest]
    <3>1. v6' = [v6 EXCEPT ![b] = new]
      BY <2>3 DEF Again!ProcessIndividual, Again!AgainInv, Again!JobType
    <3>2. rest \in SUBSET People /\ rest \subseteq Again!OwnOf(b)
      BY <2>1 DEF JobSet
    <3>3. new \in JobSet /\ new.todo = rest /\ new.at = "individuals" /\ new.household = v6[b].household
      BY <1>1, <2>1, <3>2 DEF JobSet, Again!Steps
    <3>4. QED
      BY <3>1, <3>2, <3>3
  <2>4. QED
    BY <2>2, <2>3
<1>3. Again!JobType' /\ v6'[b] = new /\ \A a \in Batches \ {b} : v6'[a] = v6[a]
  BY <1>2, JobStep DEF Again!AgainInv
<1>4. DOMAIN v2' = People /\ \A i \in People \ Again!OwnOf(b) : v2'[i] = v2[i]
  <2>1. CASE v6[b].todo = {}
    BY <2>1 DEF Again!ProcessIndividual, Again!AgainInv
  <2>2. CASE v6[b].todo # {}
    <3>1. v6[b].todo \in SUBSET People /\ v6[b].todo \subseteq Again!OwnOf(b)
      BY JobIs DEF Again!AgainInv, JobSet
    <3>2. Again!Lowest(v6[b].todo) \in Again!OwnOf(b)
      BY <2>2, <3>1, LowestIsOne, BatchFacts
    <3>3. v2' = [v2 EXCEPT ![Again!Lowest(v6[b].todo)] =
                   Again!Enforced(@, Again!Processed(b, Again!Lowest(v6[b].todo)))]
      BY <2>2 DEF Again!ProcessIndividual
    <3>4. QED
      BY <3>2, <3>3 DEF Again!AgainInv
  <2>3. QED
    BY <2>1, <2>2
<1>5. Again!JobInv(b)'
  BY <1>1, <1>2, <1>3 DEF Again!JobInv, Again!AgainInv, Again!Running, Again!Settled, Again!Fresh
<1>6. Again!MarkIsRight(b)'
  BY <1>1 DEF Again!AgainInv, Again!MarkIsRight, Again!Complete, Again!OfItsBatch, Again!Members, Again!OwnOf
<1>7. \A a \in Batches \ {b} : SameRow(a) /\ SamePeople(a)
  BY <1>1, <1>3, <1>4 DEF SameRow, SamePeople, Again!OwnOf
<1>8. QED
  BY <1>1, <1>3, <1>4, <1>5, <1>6, <1>7, BatchStep DEF Again!AgainInv

\* What the references of an RDI that are resolved again name.
LEMMA ResolvedAgain ==
  ASSUME NEW b \in Batches, SourceOf[b] = "RDI", b \notin v5, v1[b] = Sheets[b]
  PROVE  /\ Again!RestoredRdi(b, Again!SyncRdi(b))
         /\ Again!OfItsBatch(b) /\ Again!Complete(b, v1[b]) => Again!Complete(b, Again!SyncRdi(b))
<1>1. Again!LiveOf(b) = Again!OwnOf(b) /\ Again!OwnOf(b) \in SUBSET People
  BY DEF Again!LiveOf, Again!OwnOf, Again!Removed
<1>2. \A r \in Again!Roles : Again!SyncRdi(b)[r] =
        IF Sheets[b][r] = 0 THEN 0 ELSE Again!RowAmong(Again!OwnOf(b), Sheets[b][r])
  BY <1>1 DEF Again!SyncRdi, Again!RowOf, Again!Nobody
<1>3. Again!RestoredRdi(b, Again!SyncRdi(b))
  BY <1>2, BatchFacts DEF Again!RestoredRdi, Again!Nobody
<1>4. ASSUME Again!OfItsBatch(b), Again!Complete(b, v1[b]) PROVE Again!Complete(b, Again!SyncRdi(b))
  <2>1. /\ "head" \in Again!Roles /\ "primary" \in Again!Roles /\ "alternate" \in Again!Roles
        /\ Again!Members(b) \subseteq Again!OwnOf(b) /\ Again!OwnOf(b) \subseteq People
    BY DEF Again!Roles, Again!Members, Again!OwnOf
  <2>2. Again!SyncRdi(b)["head"] \in Again!Members(b) /\ Again!SyncRdi(b)["primary"] \in Again!OwnOf(b)
    BY <1>3, <1>4, <2>1 DEF Again!OfItsBatch, Again!RestoredRdi
  <2>3. Sheets[b]["primary"] # Sheets[b]["alternate"]
    BY <1>4 DEF Again!Complete
  <2>4. Again!SyncRdi(b)["primary"] # 0
    BY <2>1, <2>2, BatchFacts
  <2>5. RowNumber[Again!SyncRdi(b)["primary"]] = Sheets[b]["primary"]
    BY <1>1, <1>2, <2>1, <2>4, RowNames
  <2>6. Again!SyncRdi(b)["alternate"] # 0 => RowNumber[Again!SyncRdi(b)["alternate"]] = Sheets[b]["alternate"]
    BY <1>1, <1>2, <2>1, RowNames
  <2>7. Again!SyncRdi(b)["primary"] # Again!SyncRdi(b)["alternate"]
    BY <2>3, <2>4, <2>5, <2>6
  <2>8. QED
    BY <2>2, <2>4, <2>7 DEF Again!Complete, Again!Nobody
<1>5. QED
  BY <1>3, <1>4

\* A household of Kobo that is synchronised has what its members have.
LEMMA SyncedKobo ==
  ASSUME NEW b \in Batches, v1[b]["head"] = 0
  PROVE  Again!RestoredKobo(b, Again!SyncKobo(b))
BY DEF Again!RestoredKobo, Again!SyncKobo, Again!Nobody, Again!Roles

\* The references are resolved.
LEMMA SyncStep == ASSUME Again!AgainInv, NEW b \in Batches, Again!SyncRefs(b) PROVE Again!AgainInv'
<1> DEFINE new == [v6[b] EXCEPT !.at = "transform"]
<1>1. /\ v6[b].at = "refs" /\ v6' = [v6 EXCEPT ![b] = new] /\ UNCHANGED <<v2, v3, v5, v7, v9, v10>>
      /\ b \notin v5 => v1' = [v1 EXCEPT ![b] = Again!Synced(b)]
      /\ b \in v5 => v1' = v1
  BY DEF Again!SyncRefs, Again!AgainInv, Again!JobType
<1>2. new \in JobSet /\ new.todo \subseteq Again!OwnOf(b) /\ new.at = "transform" /\ new.household = v6[b].household
  BY JobIs DEF Again!AgainInv, JobSet, Again!Steps
<1>3. Again!JobType' /\ v6'[b] = new /\ \A a \in Batches \ {b} : v6'[a] = v6[a]
  BY <1>1, <1>2, JobStep DEF Again!AgainInv
<1> HIDE DEF new
<1>4. DOMAIN v1' = Batches /\ \A a \in Batches \ {b} : v1'[a] = v1[a]
  BY <1>1 DEF Again!AgainInv
<1>5. CASE b \in v5
  <2>1. Again!JobInv(b)'
    BY <1>1, <1>2, <1>3, <1>5 DEF Again!JobInv, Again!AgainInv, Again!Running, Again!Settled
  <2>2. Again!MarkIsRight(b)'
    BY <1>1, <1>5 DEF Again!AgainInv, Again!MarkIsRight, Again!Complete, Again!OfItsBatch, Again!Members, Again!OwnOf
  <2>3. QED
    BY <1>1, <1>3, <1>4, <2>1, <2>2, BatchStep DEF Again!AgainInv, SameRow, SamePeople
<1>6. CASE b \notin v5
  <2>1. v1'[b] = Again!Synced(b) /\ Again!Fresh(b)
    BY <1>1, <1>6 DEF Again!AgainInv, Again!JobInv
  <2>2. \A r \in Again!Roles : Again!With(b, r)' = Again!With(b, r)
    BY <1>1, RolesSame DEF SamePeople
  <2>3. CASE SourceOf[b] = "RDI"
    <3>1. v1[b] = Sheets[b] /\ v1'[b] = Again!SyncRdi(b)
      BY <2>1, <2>3 DEF Again!Fresh, Again!Synced
    <3>2. Again!RestoredRdi(b, v1'[b])
      BY <1>6, <2>3, <3>1, ResolvedAgain
    <3>3. Again!IsRestored(b)'
      BY <2>3, <3>2 DEF Again!IsRestored, Again!RestoredRdi, Again!OwnOf
    <3>4. Again!JobInv(b)'
      BY <1>1, <1>2, <1>3, <3>3 DEF Again!JobInv, Again!AgainInv, Again!Running, Again!Settled
    <3>5. v3[b] = "valid" /\ Again!OfItsBatch(b) => Again!Complete(b, v1'[b])
      BY <1>6, <2>3, <3>1, ResolvedAgain DEF Again!AgainInv, Again!MarkIsRight
    <3>6. Again!MarkIsRight(b)'
      BY <1>1, <2>3, <3>5 DEF Again!MarkIsRight, Again!Complete, Again!OfItsBatch, Again!Members, Again!OwnOf
    <3>7. QED
      BY <1>1, <1>3, <1>4, <3>4, <3>6, BatchStep DEF Again!AgainInv, SameRow, SamePeople
  <2>4. CASE SourceOf[b] # "RDI"
    <3>1. v1[b]["head"] = 0 /\ v1'[b] = Again!SyncKobo(b)
      BY <2>1, <2>4 DEF Again!Fresh, Again!Synced, Again!Nobody
    <3>2. Again!RestoredKobo(b, v1'[b])
      BY <3>1, SyncedKobo
    <3>3. Again!IsRestored(b)'
      BY <2>2, <2>4, <3>2 DEF Again!IsRestored, Again!RestoredKobo, Again!Lowest, Again!Nobody, Again!Roles
    <3>4. Again!JobInv(b)'
      BY <1>1, <1>2, <1>3, <3>3 DEF Again!JobInv, Again!AgainInv, Again!Running, Again!Settled
    <3>5. v3[b] # "valid"
      <4>1. ~Again!Complete(b, v1[b])
        BY <3>1, BatchFacts DEF Again!Complete, Again!Members
      <4>2. QED
        BY <2>4, <4>1 DEF Again!AgainInv, Again!MarkIsRight
    <3>6. Again!MarkIsRight(b)'
      BY <1>1, <3>5 DEF Again!MarkIsRight
    <3>7. QED
      BY <1>1, <1>3, <1>4, <3>4, <3>6, BatchStep DEF Again!AgainInv, SameRow, SamePeople
  <2>5. QED
    BY <2>3, <2>4
<1>7. QED
  BY <1>5, <1>6

\* Transformers take marks away, and the job ends with the references restored.
LEMMA LastStep == ASSUME Again!AgainInv, NEW b \in Batches, Again!Transform(b) \/ Again!Schedule(b) PROVE Again!AgainInv'
<1>1. /\ v6[b].at \in {"transform", "validate"} /\ UNCHANGED <<v1, v2, v5, v7, v9, v10>>
      /\ v3' = v3 \/ v3' = [v3 EXCEPT ![b] = "no"]
  BY DEF Again!Transform, Again!Schedule
<1>2. PICK new \in JobSet : /\ v6' = [v6 EXCEPT ![b] = new] /\ new.todo \subseteq Again!OwnOf(b)
                            /\ \/ new.at = "none"
                               \/ new.at = "validate" /\ new.household = v6[b].household
  <2>1. CASE Again!Transform(b)
    <3> DEFINE new == [v6[b] EXCEPT !.at = "validate"]
    <3>1. v6' = [v6 EXCEPT ![b] = new]
      BY <2>1 DEF Again!Transform, Again!AgainInv, Again!JobType
    <3>2. new \in JobSet /\ new.todo \subseteq Again!OwnOf(b) /\ new.at = "validate" /\ new.household = v6[b].household
      BY JobIs DEF Again!AgainInv, JobSet, Again!Steps
    <3>3. QED
      BY <3>1, <3>2
  <2>2. CASE Again!Schedule(b)
    <3>1. Again!Idle \in JobSet /\ Again!Idle.todo \subseteq Again!OwnOf(b) /\ Again!Idle.at = "none"
      BY DEF Again!Idle, JobSet, Again!Steps, Again!Offered
    <3>2. QED
      BY <2>2, <3>1 DEF Again!Schedule
  <2>3. QED
    BY <2>1, <2>2
<1>3. Again!JobType' /\ v6'[b] = new /\ \A a \in Batches \ {b} : v6'[a] = v6[a]
  BY <1>2, JobStep DEF Again!AgainInv
<1>4. b \notin v5 => Again!IsRestored(b)'
  <2>1. \A r \in Again!Roles : Again!With(b, r)' = Again!With(b, r)
    BY <1>1, RolesSame DEF SamePeople
  <2>2. b \notin v5 => Again!IsRestored(b)
    BY <1>1 DEF Again!AgainInv, Again!JobInv
  <2>3. QED
    BY <1>1, <2>1, <2>2 DEF Again!IsRestored, Again!RestoredRdi, Again!RestoredKobo, Again!Lowest,
      Again!OwnOf, Again!Nobody, Again!Roles
<1>5. Again!JobInv(b)'
  BY <1>1, <1>2, <1>3, <1>4 DEF Again!JobInv, Again!AgainInv, Again!Running, Again!Settled
<1>6. Again!MarkIsRight(b)'
  BY <1>1 DEF Again!AgainInv, Again!MarkIsRight, Again!Complete, Again!OfItsBatch, Again!Members, Again!OwnOf
<1>7. DOMAIN v3' = Batches /\ \A a \in Batches \ {b} : SameRow(a) /\ SamePeople(a)
  BY <1>1, <1>3 DEF SameRow, SamePeople, Again!AgainInv
<1>8. QED
  BY <1>1, <1>3, <1>5, <1>6, <1>7, BatchStep DEF Again!AgainInv

\* A validation marks the household as it is; a push ends what may change it.
LEMMA MarkedStep ==
  ASSUME Again!AgainInv, NEW b \in Batches, Again!ValidateNow(b) \/ Again!ValidateBatch(b) \/ Again!Push(b)
  PROVE  Again!AgainInv'
<1>1. UNCHANGED <<v1, v2, v6, v7, v9>> /\ Again!JobType'
  BY DEF Again!ValidateNow, Again!ValidateBatch, Again!Push, Again!AgainInv, Again!JobType, Again!OwnOf,
    Again!Steps, Again!Offered
<1>2. CASE Again!ValidateNow(b) \/ Again!ValidateBatch(b)
  <2>1. v3' = [v3 EXCEPT ![b] = Again!Checked(b, v1[b])] /\ UNCHANGED <<v5, v10>>
    BY <1>2 DEF Again!ValidateNow, Again!ValidateBatch
  <2>2. Again!MarkIsRight(b)'
    BY <1>1, <2>1 DEF Again!AgainInv, Again!MarkIsRight, Again!Checked, Again!Complete, Again!OfItsBatch,
      Again!Members, Again!OwnOf
  <2>3. \A r \in Again!Roles : Again!With(b, r)' = Again!With(b, r)
    BY <1>1, <2>1, RolesSame DEF SamePeople
  <2>4. (Again!IsRestored(b)' <=> Again!IsRestored(b)) /\ (Again!Fresh(b)' <=> Again!Fresh(b))
    BY <1>1, <2>3 DEF Again!IsRestored, Again!RestoredRdi, Again!RestoredKobo, Again!Fresh, Again!Lowest,
      Again!OwnOf, Again!Nobody, Again!Roles
  <2>5. Again!JobInv(b)'
    BY <1>1, <2>1, <2>4 DEF Again!AgainInv, Again!JobInv, Again!Running, Again!Settled
  <2>6. QED
    BY <1>1, <2>1, <2>2, <2>5, BatchStep DEF Again!AgainInv, SameRow, SamePeople
<1>3. CASE Again!Push(b)
  <2>1. /\ b \notin v5 /\ v5' = v5 \cup {b} /\ v3' = v3
        /\ v10' = IF Again!Running(b) THEN v10 \cup {b} ELSE v10
    BY <1>3 DEF Again!Push
  <2>2. Again!MarkIsRight(b)'
    BY <1>1, <2>1 DEF Again!AgainInv, Again!MarkIsRight, Again!Complete, Again!OfItsBatch, Again!Members, Again!OwnOf
  <2>3. Again!JobInv(b)'
    BY <1>1, <2>1 DEF Again!AgainInv, Again!JobInv, Again!Running, Again!Settled
  <2>4. QED
    BY <1>1, <2>1, <2>2, <2>3, BatchStep DEF Again!AgainInv, SameRow, SamePeople
<1>4. QED
  BY <1>2, <1>3

\* Every step of the component keeps the invariant.
LEMMA NextAgainInv ==
  ASSUME Again!AgainInv, Again!Next
  PROVE  Again!AgainInv'
<1>1. ~(\E b \in Batches : Again!Edit(b)) /\ ~(\E i \in People : Again!EditPerson(i))
  BY DEF Again!Edit, Again!EditPerson
<1>2. QED
  BY <1>1, RequestStep, BeginStep, HouseholdStep, IndividualStep, SyncStep, LastStep, MarkedStep DEF Again!Next

\* What was pushed before a reprocessing began is not touched.
LEMMA MergedStep == ASSUME Again!AgainInv, Again!Next PROVE Again!MergedStay
<1> SUFFICES ASSUME NEW b \in v5 \ v10 PROVE v1'[b] = v1[b]
  BY DEF Again!MergedStay
<1>1. ~(\E a \in Batches : Again!Edit(a)) /\ ~(\E i \in People : Again!EditPerson(i))
  BY DEF Again!Edit, Again!EditPerson
<1>2. ASSUME NEW a \in Batches, Again!ProcessHousehold(a) PROVE v1'[b] = v1[b]
  <2>1. a = b => ~v6[b].household
    BY <1>2 DEF Again!ProcessHousehold, Again!AgainInv, Again!JobInv, Again!Running
  <2>2. QED
    BY <1>2, <2>1 DEF Again!ProcessHousehold, Again!AgainInv
<1>3. ASSUME NEW a \in Batches, Again!SyncRefs(a) PROVE v1'[b] = v1[b]
  BY <1>3 DEF Again!SyncRefs, Again!AgainInv
<1>4. v1' = v1 \/ \E a \in Batches : Again!ProcessHousehold(a) \/ Again!SyncRefs(a)
  BY <1>1 DEF Again!Next, Again!Request, Again!Begin, Again!ProcessIndividual, Again!Transform, Again!Schedule,
    Again!Raise, Again!Die, Again!ValidateNow, Again!ValidateBatch, Again!Push
<1>5. QED
  BY <1>2, <1>3, <1>4

\* Initially nothing was reprocessed.
LEMMA InitAgainInv == ASSUME Again!Init PROVE Again!AgainInv
<1>1. Again!Idle \in JobSet /\ Again!Idle.todo = {} /\ Again!Idle.at = "none"
  BY DEF Again!Idle, JobSet, Again!Steps, Again!Offered
<1>2. v6 = [b \in Batches |-> Again!Idle] /\ v7 = [b \in Batches |-> Reprocessings] /\ v5 = {}
  BY DEF Again!Init
<1>3. Again!JobType
  BY <1>1, <1>2 DEF Again!JobType, JobSet
<1>4. \A b \in Batches : Again!JobInv(b)
  BY <1>1, <1>2, BatchFacts DEF Again!JobInv, Again!Running, Again!Settled
<1>5. \A b \in Batches : Again!MarkIsRight(b)
  BY DEF Again!Init, Again!MarkIsRight
<1>6. DOMAIN v1 = Batches /\ DOMAIN v2 = People /\ DOMAIN v3 = Batches
  BY BatchFacts, BoundsAssumption DEF Again!Init, Again!ReprocessAssumption
<1>7. QED
  BY <1>2, <1>3, <1>4, <1>5, <1>6, BatchFacts DEF Again!AgainInv

\* A restored household has what its import had resolved, or what its members are.
LEMMA AgainRestores == ASSUME Again!AgainInv PROVE Again!Restored /\ Again!ValidIsComplete
<1>1. \A b \in Batches : Again!Settled(b) => Again!IsRestored(b)
  BY DEF Again!AgainInv, Again!JobInv, Again!Settled
<1>2. Again!Restored
  BY <1>1, BatchFacts DEF Again!Restored, Again!IsRestored, Again!RestoredRdi, Again!RestoredKobo
<1>3. QED
  BY <1>2 DEF Again!AgainInv, Again!ValidIsComplete

-----------------------------------------------------------------------------
(* Reprocess with edits.                                                     *)

\* What is locked stays: who is an external collector, and who is not.
LEMMA EnforcedKeeps ==
  ASSUME NEW old \in Edited!PartOf, NEW new \in Edited!PartOf
  PROVE  /\ Edited!Enforced(old, new) \in Edited!PartOf
         /\ (Edited!Enforced(old, new).rel = "NON_BENEFICIARY") <=> old.rel = "NON_BENEFICIARY"
BY DEF Edited!Enforced, Edited!PartOf

\* The steps of the jobs keep their types.
LEMMA EditedJobs ==
  ASSUME Edited!JobType, NEW b \in Batches,
         \/ Edited!Request(b) \/ Edited!Begin(b) \/ Edited!ProcessHousehold(b) \/ Edited!ProcessIndividual(b)
         \/ Edited!SyncRefs(b) \/ Edited!Transform(b) \/ Edited!Schedule(b) \/ Edited!Raise(b) \/ Edited!Die(b)
  PROVE  Edited!JobType'
<1> DEFINE Set == [at : Edited!Steps, mapping : Edited!Offered, household : BOOLEAN, todo : SUBSET People]
<1>1. /\ v6 \in [Batches -> Set] /\ v6[b] \in Set /\ v6[b].todo \subseteq Edited!OwnOf(b)
      /\ Edited!OwnOf(b) \in SUBSET People
  BY DEF Edited!JobType, Edited!OwnOf
<1>2. PICK new \in Set : v6' = [v6 EXCEPT ![b] = new] /\ new.todo \subseteq Edited!OwnOf(b)
  <2>1. Edited!Idle \in Set /\ Edited!Idle.todo = {}
    BY DEF Edited!Idle, Edited!Steps, Edited!Offered
  <2>2. \A a \in {"queued", "failed"}, m \in Edited!Offered :
          LET new == [Edited!Idle EXCEPT !.at = a, !.mapping = m] IN new \in Set /\ new.todo = {}
    BY <2>1 DEF Edited!Idle, Edited!Steps
  <2>3. [Edited!Idle EXCEPT !.at = "failed"] \in Set /\ [Edited!Idle EXCEPT !.at = "failed"].todo = {}
    BY <2>1 DEF Edited!Idle, Edited!Steps
  <2>5. \A todo \in SUBSET Edited!OwnOf(b) :
          /\ [v6[b] EXCEPT !.todo = todo] \in Set /\ [v6[b] EXCEPT !.todo = todo].todo = todo
          /\ [v6[b] EXCEPT !.at = "individuals", !.todo = todo] \in Set
          /\ [v6[b] EXCEPT !.at = "individuals", !.todo = todo].todo = todo
    BY <1>1 DEF Edited!Steps
  <2>6. CASE Edited!Request(b)
    BY <2>2, <2>6 DEF Edited!Request
  <2>7. CASE Edited!Begin(b)
    <3> DEFINE new == [v6[b] EXCEPT !.at = "households", !.household = b \notin v5]
    <3>1. v6' = [v6 EXCEPT ![b] = new] /\ new \in Set /\ new.todo = v6[b].todo
      BY <1>1, <2>7 DEF Edited!Begin, Edited!Steps
    <3>2. QED
      BY <1>1, <3>1
  <2>8. CASE Edited!ProcessHousehold(b)
    <3>1. Edited!LiveOf(b) \in SUBSET Edited!OwnOf(b)
      BY DEF Edited!LiveOf
    <3>2. v6' = [v6 EXCEPT ![b] = [v6[b] EXCEPT !.at = "individuals", !.todo = Edited!LiveOf(b)]]
      BY <1>1, <2>8 DEF Edited!ProcessHousehold, Edited!Individuals
    <3>3. QED
      BY <2>5, <3>1, <3>2
  <2>9. CASE Edited!ProcessIndividual(b)
    <3>1. CASE v6[b].todo = {}
      <4> DEFINE new == [v6[b] EXCEPT !.at = "refs"]
      <4>1. v6' = [v6 EXCEPT ![b] = new]
        BY <1>1, <2>9, <3>1 DEF Edited!ProcessIndividual
      <4>2. new \in Set /\ new.todo \subseteq Edited!OwnOf(b)
        BY <1>1 DEF Edited!Steps
      <4>3. QED
        BY <4>1, <4>2
    <3>2. CASE v6[b].todo # {}
      <4> DEFINE rest == v6[b].todo \ {Edited!Lowest(v6[b].todo)}
      <4>1. v6' = [v6 EXCEPT ![b] = [v6[b] EXCEPT !.todo = rest]]
        BY <1>1, <2>9, <3>2 DEF Edited!ProcessIndividual
      <4>2. rest \in SUBSET Edited!OwnOf(b)
        BY <1>1
      <4>3. QED
        BY <2>5, <4>1, <4>2
    <3>3. QED
      BY <3>1, <3>2
  <2>10. CASE Edited!SyncRefs(b)
    <3> DEFINE new == [v6[b] EXCEPT !.at = "transform"]
    <3>1. v6' = [v6 EXCEPT ![b] = new]
      BY <1>1, <2>10 DEF Edited!SyncRefs
    <3>2. new \in Set /\ new.todo \subseteq Edited!OwnOf(b)
      BY <1>1 DEF Edited!Steps
    <3>3. QED
      BY <3>1, <3>2
  <2>11. CASE Edited!Transform(b)
    <3> DEFINE new == [v6[b] EXCEPT !.at = "validate"]
    <3>1. v6' = [v6 EXCEPT ![b] = new]
      BY <1>1, <2>11 DEF Edited!Transform
    <3>2. new \in Set /\ new.todo \subseteq Edited!OwnOf(b)
      BY <1>1 DEF Edited!Steps
    <3>3. QED
      BY <3>1, <3>2
  <2>12. CASE Edited!Schedule(b)
    BY <2>1, <2>12 DEF Edited!Schedule
  <2>13. CASE Edited!Raise(b)
    BY <2>3, <2>13 DEF Edited!Raise
  <2>14. CASE Edited!Die(b)
    BY <1>1, <2>2, <2>14 DEF Edited!Die
  <2>15. QED
    BY <2>6, <2>7, <2>8, <2>9, <2>10, <2>11, <2>12, <2>13, <2>14
<1> HIDE DEF Set
<1>3. v6' \in [Batches -> Set] /\ \A a \in Batches : v6'[a].todo \subseteq Edited!OwnOf(a)
  BY <1>1, <1>2 DEF Edited!JobType
<1>4. QED
  BY <1>3 DEF Edited!JobType, Edited!OwnOf, Edited!Steps, Edited!Offered, Set

\* Who is an external collector stays one, over mappings and edits.
LEMMA NextEditedInv == ASSUME Edited!EditedInv, Edited!Next PROVE Edited!EditedInv'
<1>1. \/ v2' = v2
      \/ \E i \in People, new \in Edited!PartOf : v2' = [v2 EXCEPT ![i] = Edited!Enforced(v2[i], new)]
  <2>1. CASE \E b \in Batches : Edited!ProcessIndividual(b)
    <3>1. PICK b \in Batches : Edited!ProcessIndividual(b)
      BY <2>1
    <3>2. CASE v6[b].todo = {}
      BY <3>1, <3>2 DEF Edited!ProcessIndividual
    <3>3. CASE v6[b].todo # {}
      <4> DEFINE i == Edited!Lowest(v6[b].todo)
      <4>1. v6[b].todo \in SUBSET People /\ v6[b].mapping \in Edited!Offered
        BY DEF Edited!EditedInv, Edited!JobType
      <4>2. i \in People
        BY <3>3, <4>1, LowestIsOne, BatchFacts
      <4>3. v2' = [v2 EXCEPT ![i] = Edited!Enforced(v2[i], Edited!Processed(b, i))]
        BY <3>1, <3>3, <4>2 DEF Edited!ProcessIndividual, Edited!EditedInv
      <4>4. Edited!PartOf = Again!PartOf
        BY DEF Edited!PartOf, Again!PartOf
      <4>5. Edited!Processed(b, i) \in Edited!PartOf
        <5> DEFINE m == v6[b].mapping
        <5>1. m = NoMapping \/ m \in Mappings
          BY <4>1 DEF Edited!Offered
        <5>2. RawParts[i] \in Edited!PartOf
          BY <4>2, <4>4, BatchFacts
        <5>3. m \in Mappings => MappedParts[m][i] \in Edited!PartOf
          BY <4>2, <4>4, BatchFacts
        <5>4. Edited!Processed(b, i) = IF m = NoMapping THEN RawParts[i] ELSE MappedParts[m][i]
          BY DEF Edited!Processed
        <5>5. QED
          BY <5>1, <5>2, <5>3, <5>4
      <4>6. QED
        BY <4>2, <4>3, <4>5
    <3>4. QED
      BY <3>2, <3>3
  <2>2. CASE \E i \in People : Edited!EditPerson(i)
    <3>1. PICK i \in People : Edited!EditPerson(i)
      BY <2>2
    <3>2. TypedParts \subseteq Edited!PartOf
      BY BoundsAssumption DEF Edited!ReprocessAssumption
    <3>3. PICK p \in TypedParts : Edited!Enforced(v2[i], p) = p /\ v2' = [v2 EXCEPT ![i] = p]
      BY <3>1 DEF Edited!EditPerson
    <3>4. QED
      BY <3>2, <3>3
  <2>3. CASE \E b \in Batches : \/ Edited!Request(b) \/ Edited!Begin(b) \/ Edited!ProcessHousehold(b)
                                \/ Edited!SyncRefs(b) \/ Edited!Transform(b) \/ Edited!Schedule(b)
    BY <2>3 DEF Edited!Request, Edited!Begin, Edited!ProcessHousehold, Edited!SyncRefs,
      Edited!Transform, Edited!Schedule
  <2>4. CASE \E b \in Batches : \/ Edited!Raise(b) \/ Edited!Die(b) \/ Edited!ValidateNow(b)
                                \/ Edited!ValidateBatch(b) \/ Edited!Edit(b) \/ Edited!Push(b)
    BY <2>4 DEF Edited!Raise, Edited!Die, Edited!ValidateNow, Edited!ValidateBatch, Edited!Edit, Edited!Push
  <2>5. QED
    BY <2>1, <2>2, <2>3, <2>4 DEF Edited!Next
<1>2. v2' \in [People -> Edited!PartOf] /\ Edited!OutsideStayOutside'
  <2>1. v2 \in [People -> Edited!PartOf]
    BY DEF Edited!EditedInv
  <2>2. CASE v2' = v2
    BY <2>1, <2>2 DEF Edited!EditedInv, Edited!OutsideStayOutside
  <2>3. CASE \E i \in People, new \in Edited!PartOf : v2' = [v2 EXCEPT ![i] = Edited!Enforced(v2[i], new)]
    <3>1. PICK i \in People, new \in Edited!PartOf : v2' = [v2 EXCEPT ![i] = Edited!Enforced(v2[i], new)]
      BY <2>3
    <3> DEFINE to == Edited!Enforced(v2[i], new)
    <3>2. to \in Edited!PartOf /\ ((to.rel = "NON_BENEFICIARY") <=> v2[i].rel = "NON_BENEFICIARY")
      BY <2>1, EnforcedKeeps
    <3> HIDE DEF to
    <3>3. v2' = [v2 EXCEPT ![i] = to]
      BY <3>1 DEF to
    <3>4. QED
      BY <2>1, <3>2, <3>3 DEF Edited!EditedInv, Edited!OutsideStayOutside
  <2>4. QED
    BY <1>1, <2>2, <2>3
<1>3. Edited!JobType'
  <2>1. CASE v6' = v6
    BY <2>1 DEF Edited!EditedInv, Edited!JobType, Edited!OwnOf, Edited!Steps, Edited!Offered
  <2>2. CASE \E b \in Batches :
          \/ Edited!Request(b) \/ Edited!Begin(b) \/ Edited!ProcessHousehold(b) \/ Edited!ProcessIndividual(b)
          \/ Edited!SyncRefs(b) \/ Edited!Transform(b) \/ Edited!Schedule(b) \/ Edited!Raise(b) \/ Edited!Die(b)
    BY <2>2, EditedJobs DEF Edited!EditedInv
  <2>3. QED
    BY <2>1, <2>2 DEF Edited!Next, Edited!ValidateNow, Edited!ValidateBatch, Edited!Edit, Edited!Push, Edited!EditPerson
<1>4. QED
  BY <1>2, <1>3 DEF Edited!EditedInv

\* Initially everybody is what the raw data says.
LEMMA InitEditedInv == ASSUME Edited!Init PROVE Edited!EditedInv
<1>1. v2 = RawParts /\ v6 = [b \in Batches |-> Edited!Idle]
  BY DEF Edited!Init
<1>2. Edited!PartOf = Again!PartOf
  BY DEF Edited!PartOf, Again!PartOf
<1>3. Edited!JobType
  BY <1>1 DEF Edited!JobType, Edited!Idle, Edited!Steps, Edited!Offered
<1>4. QED
  BY <1>1, <1>2, <1>3, BatchFacts DEF Edited!EditedInv, Edited!OutsideStayOutside

-----------------------------------------------------------------------------
(* RecordChecks.                                                             *)

\* What is assumed of the records and the DataChecker.
LEMMA CheckFacts ==
  /\ Parents \subseteq Beneficiaries /\ Collided \subseteq Beneficiaries /\ MaxChecker \in Nat
  /\ HouseholdMembers \in [Parents -> SUBSET (Beneficiaries \ Parents)]
  /\ RefusedEdits \in [0..MaxChecker -> SUBSET Actors] /\ IsFiniteSet(Actors)
BY BoundsAssumption DEF Checks!RecordAssumption, Checks!IsFiniteSet, IsFiniteSet

Done == [Checks!Idle EXCEPT !.at = "done"]
IsActor(a) == a \in {Checks!Idle, Done} \/ \E r \in Beneficiaries : a \in Checks!AtWork(r)

\* An actor at work has read the family of its record.
LEMMA WorkIs ==
  ASSUME Checks!ChecksInv, NEW w \in Actors, v3[w].at \in {"read", "members"}
  PROVE  /\ v3[w].rec \in Beneficiaries /\ v3[w] \in Checks!AtWork(v3[w].rec)
         /\ v3[w].rec \in Checks!Family(v3[w].rec) /\ Checks!Family(v3[w].rec) \subseteq Beneficiaries
<1>1. v3[w] \notin {Checks!Idle, Done}
  BY DEF Checks!Idle, Done
<1>2. PICK r \in Beneficiaries : v3[w] \in Checks!AtWork(r)
  BY <1>1 DEF Checks!ChecksInv, Done
<1>3. v3[w].rec = r
  BY <1>2 DEF Checks!AtWork
<1>4. r \in Checks!Family(r) /\ Checks!Family(r) \subseteq Beneficiaries
  BY CheckFacts DEF Checks!Family
<1>5. QED
  BY <1>2, <1>3, <1>4

\* What it read are records.
LEMMA ReadIs ==
  ASSUME NEW r \in Beneficiaries, NEW a \in Checks!AtWork(r), NEW s \in Checks!Family(r)
  PROVE  /\ a.snap[s] \in Checks!Record /\ ("identity" \in a.snap[s].errors => s \in Collided)
         /\ a.checker \in 0..MaxChecker /\ a.todo \in SUBSET (Checks!Family(r) \ {r}) /\ a.failed \in BOOLEAN
BY DEF Checks!AtWork, Checks!Copied

\* The ended actors are counted.
LEMMA EndedGrows ==
  ASSUME DOMAIN v3 = Actors, NEW w \in Actors, v3[w].at # "done", NEW new, v3' = [v3 EXCEPT ![w] = new]
  PROVE  /\ Cardinality(Checks!Ended) \in Nat /\ Cardinality(Checks!Ended') \in Nat
         /\ Cardinality(Checks!Ended') >= Cardinality(Checks!Ended)
         /\ new.at = "done" => Cardinality(Checks!Ended') = Cardinality(Checks!Ended) + 1
<1>1. Checks!Ended \in SUBSET Actors /\ w \notin Checks!Ended
  BY DEF Checks!Ended
<1>2. IsFiniteSet(Checks!Ended) /\ Cardinality(Checks!Ended) \in Nat
  BY <1>1, CheckFacts, FS_Subset, FS_CardinalityType
<1>3. Checks!Ended' = IF new.at = "done" THEN Checks!Ended \cup {w} ELSE Checks!Ended
  BY DEF Checks!Ended
<1>4. Cardinality(Checks!Ended \cup {w}) = Cardinality(Checks!Ended) + 1
  BY <1>1, <1>2, FS_AddElement
<1>5. QED
  BY <1>2, <1>3, <1>4

\* The rows and the versions.
RowsOK ==
  v1 \in Checks!Rows /\ \A r \in Beneficiaries : v1[r].version \in 1..(1 + Cardinality(Checks!Ended))

\* A step of an actor that leaves the versions keeps the invariant, if what it writes is a row
\* and who counts as valid is accepted.
LEMMA ActorStep ==
  ASSUME Checks!ChecksInv, NEW w \in Actors, v3[w].at # "done", NEW new, v3' = [v3 EXCEPT ![w] = new], IsActor(new),
         v1' \in Checks!Rows,
         \A r \in Beneficiaries : \/ v1'[r].version = v1[r].version
                                  \/ new.at = "done" /\ v1'[r].version = v1[r].version + 1,
         v2' = v2, v4' \subseteq Beneficiaries, v5' \subseteq Beneficiaries,
         Checks!ValidIsAccepted'
  PROVE  Checks!ChecksInv'
<1>1. DOMAIN v3' = Actors /\ \A u \in Actors : IsActor(v3'[u])
  BY DEF Checks!ChecksInv, IsActor, Done
<1> DEFINE old == Cardinality(Checks!Ended)
<1>2. PICK now : now = Cardinality(Checks!Ended')
  OBVIOUS
<1>3. old \in Nat /\ now \in Nat /\ now >= old /\ (new.at = "done" => now = old + 1)
  BY <1>2, EndedGrows DEF Checks!ChecksInv
<1>4. \A r \in Beneficiaries : v1[r].version \in 1..(1 + old)
  BY DEF Checks!ChecksInv, Checks!Cardinality, Cardinality
<1>5. \A r \in Beneficiaries : v1'[r].version \in 1..(1 + now)
  BY <1>3, <1>4
<1>6. \A r \in Beneficiaries : v1'[r].version \in 1..(1 + Checks!Cardinality(Checks!Ended'))
  BY <1>2, <1>5 DEF Checks!Cardinality, Cardinality
<1>7. QED
  BY <1>1, <1>6 DEF Checks!ChecksInv, IsActor, Done

\* One record is written.
LEMMA RowStep ==
  ASSUME v1 \in Checks!Rows, NEW r \in Beneficiaries, NEW row \in Checks!Record,
         "identity" \in row.errors => r \in Collided, v1' = [v1 EXCEPT ![r] = row]
  PROVE  v1' \in Checks!Rows /\ v1'[r] = row /\ \A s \in Beneficiaries \ {r} : v1'[s] = v1[s]
BY DEF Checks!Rows

\* If it counts as valid and nothing excuses it, it is accepted.
LEMMA AcceptStep ==
  ASSUME Checks!ValidIsAccepted, NEW r \in Beneficiaries, v2' = v2,
         \A s \in Beneficiaries \ {r} : v1'[s] = v1[s],
         v4 \subseteq v4' \cup {r}, v5 \subseteq v5' \cup {r},
         /\ r \notin v4' \cup v5' /\ v1'[r].checked /\ v1'[r].errors = {}
         => Checks!FormErrors(v1'[r].data, v2) = {}
  PROVE  Checks!ValidIsAccepted'
<1>1. SUFFICES ASSUME NEW s \in Beneficiaries, s \notin v4' \cup v5', Checks!IsValid(s)'
               PROVE  Checks!Accepted(s)'
  BY DEF Checks!ValidIsAccepted
<1>2. v1'[s].checked /\ v1'[s].errors = {}
  BY <1>1 DEF Checks!IsValid
<1>3. CASE s = r
  BY <1>1, <1>2, <1>3 DEF Checks!Accepted, Checks!FormErrors
<1>4. CASE s # r
  <2>1. s \notin v4 \cup v5 /\ Checks!IsValid(s)
    BY <1>1, <1>2, <1>4 DEF Checks!IsValid
  <2>2. Checks!Accepted(s)
    BY <2>1 DEF Checks!ValidIsAccepted
  <2>3. QED
    BY <1>4, <2>2 DEF Checks!Accepted, Checks!FormErrors
<1>5. QED
  BY <1>3, <1>4

\* What the DataChecker finds.
LEMMA FormErrorsIs ==
  ASSUME NEW data, NEW c
  PROVE  Checks!FormErrors(data, c) \in SUBSET {"form"} /\ Checks!FormErrors(data, c) \in SUBSET Checks!Errors
BY DEF Checks!FormErrors, Checks!Errors

\* What a validation writes; it is the verdict if nothing changed since it read.
LEMMA ValidatedIs ==
  ASSUME Checks!ChecksInv, NEW w \in Actors, v3[w].at \in {"read", "members"},
         NEW r \in Checks!Family(v3[w].rec), NEW cleans \in BOOLEAN, NEW row,
         row = Checks!Validated(w, r, cleans)
  PROVE  /\ row \in Checks!Record /\ row.version = v1[r].version /\ ("identity" \in row.errors => r \in Collided)
         /\ row.data \in {v1[r].data, v3[w].snap[r].data}
         /\ v1[r] = v3[w].snap[r] => row.errors = Checks!FormErrors(row.data, v3[w].checker)
<1>1. r \in Beneficiaries /\ v1[r] \in Checks!Record /\ ("identity" \in v1[r].errors => r \in Collided)
  BY WorkIs DEF Checks!ChecksInv, Checks!Rows
<1>2. v3[w].snap[r] \in Checks!Record
  BY WorkIs, ReadIs
<1> DEFINE new == Checks!FormErrors(v3[w].snap[r].data, v3[w].checker)
           data == IF cleans THEN v3[w].snap[r].data ELSE v1[r].data
           errors == IF new # v3[w].snap[r].errors THEN new ELSE v1[r].errors
<1>3. new \in SUBSET {"form"} /\ new \in SUBSET Checks!Errors
  BY FormErrorsIs
<1>4. row = [v1[r] EXCEPT !.data = data, !.checked = TRUE, !.errors = errors]
  BY DEF Checks!Validated
<1>5. data \in SUBSET Actors /\ errors \in SUBSET Checks!Errors /\ ("identity" \in errors => r \in Collided)
  BY <1>1, <1>2, <1>3 DEF Checks!Record
<1>6. v1[r] = v3[w].snap[r] => errors = Checks!FormErrors(data, v3[w].checker)
  OBVIOUS
<1> HIDE DEF data, errors
<1>7. row \in Checks!Record /\ row.version = v1[r].version /\ row.errors = errors /\ row.data = data
  BY <1>1, <1>4, <1>5 DEF Checks!Record
<1>8. QED
  BY <1>5, <1>6, <1>7 DEF data

\* An actor that has ended is one.
LEMMA DoneIs == IsActor(Done) /\ Done.at = "done"
BY DEF IsActor, Done, Checks!Idle

\* An actor reads, gives up or dies.
LEMMA QuietStep ==
  ASSUME Checks!ChecksInv, NEW w \in Actors,
         \/ \E op \in {"validate", "form", "mass", "regex", "sheet"}, r \in Beneficiaries : Checks!Read(w, op, r)
         \/ Checks!Conflict(w) \/ Checks!Die(w)
  PROVE  Checks!ChecksInv'
<1>1. UNCHANGED <<v1, v2, v4, v5>>
  BY DEF Checks!Read, Checks!Conflict, Checks!Die
<1>2. v1' \in Checks!Rows /\ v4' \subseteq Beneficiaries /\ v5' \subseteq Beneficiaries
  BY <1>1 DEF Checks!ChecksInv
<1>3. Checks!ValidIsAccepted'
  BY <1>1 DEF Checks!ChecksInv, Checks!ValidIsAccepted, Checks!IsValid, Checks!Accepted, Checks!FormErrors
<1>4. CASE \E op \in {"validate", "form", "mass", "regex", "sheet"}, r \in Beneficiaries : Checks!Read(w, op, r)
  <2>1. PICK op \in {"validate", "form", "mass", "regex", "sheet"}, r \in Beneficiaries : Checks!Read(w, op, r)
    BY <1>4
  <2> DEFINE new == [op |-> op, rec |-> r, at |-> "read", snap |-> [s \in Checks!Family(r) |-> v1[s]],
                     checker |-> v2, todo |-> Checks!Family(r) \ {r}, failed |-> FALSE]
  <2>2. v3[w].at = "new" /\ v3' = [v3 EXCEPT ![w] = new]
    BY <2>1 DEF Checks!Read
  <2>3. Checks!Family(r) \subseteq Beneficiaries
    BY CheckFacts DEF Checks!Family
  <2>4. [s \in Checks!Family(r) |-> v1[s]] \in Checks!Copied(r)
    BY <2>3 DEF Checks!Copied, Checks!ChecksInv, Checks!Rows
  <2>5. new \in Checks!AtWork(r)
    BY <2>4 DEF Checks!AtWork, Checks!ChecksInv
  <2>6. IsActor(new)
    BY <2>5 DEF IsActor
  <2> HIDE DEF new
  <2>7. QED
    BY <1>1, <1>2, <1>3, <2>2, <2>6, ActorStep
<1>5. CASE Checks!Conflict(w) \/ Checks!Die(w)
  <2>1. v3[w].at # "done" /\ v3' = [v3 EXCEPT ![w] = Done]
    BY <1>5 DEF Checks!Conflict, Checks!Die, Checks!Ends, Done
  <2>2. QED
    BY <1>1, <1>2, <1>3, <2>1, DoneIs, ActorStep
<1>6. QED
  BY <1>4, <1>5

\* The record that is validated.
LEMMA CheckRecordStep == ASSUME Checks!ChecksInv, NEW w \in Actors, Checks!CheckRecord(w) PROVE Checks!ChecksInv'
<1> DEFINE r == v3[w].rec
           found == Checks!FormErrors(v3[w].snap[r].data, v3[w].checker)
           identity == r \notin Parents /\ "identity" \in v3[w].snap[r].errors
<1>1. v3[w].at = "read" /\ v2' = v2
  BY DEF Checks!CheckRecord, Checks!Reads
<1>2. r \in Beneficiaries /\ v3[w] \in Checks!AtWork(r) /\ r \in Checks!Family(r)
  BY <1>1, WorkIs
<1>3. v3[w].snap[r] \in Checks!Record /\ ("identity" \in v3[w].snap[r].errors => r \in Collided)
  BY <1>2, ReadIs
<1>4. PICK cleans \in BOOLEAN :
        v1' = [v1 EXCEPT ![r] = LET new == Checks!Validated(w, r, cleans)
                                IN IF identity THEN [new EXCEPT !.errors = found \cup {"identity"}] ELSE new]
  BY DEF Checks!CheckRecord
<1>5. PICK new : new = Checks!Validated(w, r, cleans)
  OBVIOUS
<1>6. /\ new \in Checks!Record /\ new.version = v1[r].version /\ ("identity" \in new.errors => r \in Collided)
      /\ v1[r] = v3[w].snap[r] => new.errors = Checks!FormErrors(new.data, v3[w].checker)
  BY <1>1, <1>2, <1>5, ValidatedIs
<1>7. found \in SUBSET Checks!Errors
  BY FormErrorsIs
<1>8. PICK row : row = IF identity THEN [new EXCEPT !.errors = found \cup {"identity"}] ELSE new
  OBVIOUS
<1>9. /\ row \in Checks!Record /\ row.version = v1[r].version /\ ("identity" \in row.errors => r \in Collided)
      /\ row.errors = {} => row = new
  BY <1>3, <1>6, <1>7, <1>8 DEF Checks!Record, Checks!Errors
<1>10. v1' = [v1 EXCEPT ![r] = row]
  BY <1>4, <1>5, <1>8
<1>11. v1' \in Checks!Rows /\ v1'[r] = row /\ \A s \in Beneficiaries \ {r} : v1'[s] = v1[s]
  BY <1>2, <1>9, <1>10, RowStep DEF Checks!ChecksInv
<1>12. /\ v4' = IF v1[r] = v3[w].snap[r] /\ v2 = v3[w].checker THEN v4 \ {r} ELSE v4 \cup {r}
       /\ v5' = v5 \ {r}
  BY DEF Checks!CheckRecord, Checks!Marks
<1>13. Checks!ValidIsAccepted'
  <2>1. r \notin v4' => v1[r] = v3[w].snap[r] /\ v2 = v3[w].checker
    BY <1>12
  <2>2. r \notin v4' /\ row.errors = {} => Checks!FormErrors(row.data, v2) = {}
    BY <1>6, <1>9, <2>1
  <2>3. QED
    BY <1>1, <1>2, <1>11, <1>12, <2>2, AcceptStep DEF Checks!ChecksInv
<1>14. PICK to : v3' = [v3 EXCEPT ![w] = to] /\ IsActor(to)
  <2>1. CASE r \in Parents
    <3>1. v3' = [v3 EXCEPT ![w] = [v3[w] EXCEPT !.at = "members"]]
      BY <2>1 DEF Checks!CheckRecord, Checks!ChecksInv
    <3>2. [v3[w] EXCEPT !.at = "members"] \in Checks!AtWork(r)
      BY <1>2 DEF Checks!AtWork
    <3>3. QED
      BY <1>2, <3>1, <3>2 DEF IsActor
  <2>2. CASE r \notin Parents
    BY <2>2, DoneIs DEF Checks!CheckRecord, Checks!Ends, Done
  <2>3. QED
    BY <2>1, <2>2
<1>15. \A s \in Beneficiaries : v1'[s].version = v1[s].version
  BY <1>9, <1>11
<1>16. v4' \subseteq Beneficiaries /\ v5' \subseteq Beneficiaries
  BY <1>2, <1>12 DEF Checks!ChecksInv
<1>17. QED
  BY <1>1, <1>11, <1>13, <1>14, <1>15, <1>16, ActorStep

\* A member.
LEMMA CheckMemberStep ==
  ASSUME Checks!ChecksInv, NEW w \in Actors, NEW m \in Beneficiaries, Checks!CheckMemberAs(w, m, m)
  PROVE  Checks!ChecksInv'
<1> DEFINE r == v3[w].rec
           found == Checks!FormErrors(v3[w].snap[m].data, v3[w].checker)
           kept == v3[w].snap[m].errors \cap {"identity"}
<1>1. v3[w].at = "members" /\ m \in v3[w].todo /\ v2' = v2
  BY DEF Checks!CheckMemberAs
<1>2. r \in Beneficiaries /\ v3[w] \in Checks!AtWork(r)
  BY <1>1, WorkIs
<1>3. m \in Checks!Family(r)
  BY <1>1, <1>2 DEF Checks!AtWork
<1>4. v3[w].snap[m] \in Checks!Record /\ ("identity" \in v3[w].snap[m].errors => m \in Collided)
  BY <1>2, <1>3, ReadIs
<1>5. PICK cleans \in BOOLEAN :
        v1' = [v1 EXCEPT ![m] = IF kept = {} THEN Checks!Validated(w, m, cleans)
                                ELSE [Checks!Validated(w, m, cleans) EXCEPT !.errors = found \cup kept]]
  BY DEF Checks!CheckMemberAs
<1>6. PICK new : new = Checks!Validated(w, m, cleans)
  OBVIOUS
<1>7. /\ new \in Checks!Record /\ new.version = v1[m].version /\ ("identity" \in new.errors => m \in Collided)
      /\ v1[m] = v3[w].snap[m] => new.errors = Checks!FormErrors(new.data, v3[w].checker)
  BY <1>1, <1>3, <1>6, ValidatedIs
<1>8. found \in SUBSET {"form"} /\ found \in SUBSET Checks!Errors
  BY FormErrorsIs
<1>9. PICK row : row = IF kept = {} THEN new ELSE [new EXCEPT !.errors = found \cup kept]
  OBVIOUS
<1>10. /\ row \in Checks!Record /\ row.version = v1[m].version /\ ("identity" \in row.errors => m \in Collided)
       /\ row.errors = {} => row = new
  BY <1>4, <1>7, <1>8, <1>9 DEF Checks!Record, Checks!Errors
<1>11. v1' = [v1 EXCEPT ![m] = row]
  BY <1>5, <1>6, <1>9
<1>12. v1' \in Checks!Rows /\ v1'[m] = row /\ \A s \in Beneficiaries \ {m} : v1'[s] = v1[s]
  BY <1>10, <1>11, RowStep DEF Checks!ChecksInv
<1>13. /\ v4' = IF v1[m] = v3[w].snap[m] /\ v2 = v3[w].checker THEN v4 \ {m} ELSE v4 \cup {m}
       /\ v5' = v5 \ {m}
  BY DEF Checks!CheckMemberAs, Checks!Marks
<1>14. Checks!ValidIsAccepted'
  <2>1. m \notin v4' => v1[m] = v3[w].snap[m] /\ v2 = v3[w].checker
    BY <1>13
  <2>2. m \notin v4' /\ row.errors = {} => Checks!FormErrors(row.data, v2) = {}
    BY <1>7, <1>10, <2>1
  <2>3. QED
    BY <1>1, <1>12, <1>13, <2>2, AcceptStep DEF Checks!ChecksInv
<1>15. PICK to : v3' = [v3 EXCEPT ![w] = to] /\ IsActor(to) /\ to.at = "members"
  <2> DEFINE to == [v3[w] EXCEPT !.todo = v3[w].todo \ {m}, !.failed = v3[w].failed \/ found \cup kept # {}]
  <2>1. v3' = [v3 EXCEPT ![w] = to]
    BY DEF Checks!CheckMemberAs, Checks!ChecksInv
  <2>2. v3[w].todo \ {m} \in SUBSET (Checks!Family(r) \ {r}) /\ (v3[w].failed \/ found \cup kept # {}) \in BOOLEAN
    BY <1>2 DEF Checks!AtWork
  <2>3. to \in Checks!AtWork(r) /\ to.at = "members"
    BY <1>1, <1>2, <2>2 DEF Checks!AtWork
  <2>4. QED
    BY <1>2, <2>1, <2>3 DEF IsActor
<1>16. \A s \in Beneficiaries : v1'[s].version = v1[s].version
  BY <1>10, <1>12
<1>17. v4' \subseteq Beneficiaries /\ v5' \subseteq Beneficiaries
  BY <1>13 DEF Checks!ChecksInv
<1>18. QED
  BY <1>1, <1>12, <1>14, <1>15, <1>16, <1>17, ActorStep

\* The household is saved again with an error, or not at all.
LEMMA CloseStep == ASSUME Checks!ChecksInv, NEW w \in Actors, Checks!CloseHousehold(w) PROVE Checks!ChecksInv'
<1> DEFINE h == v3[w].rec
           found == Checks!FormErrors(v3[w].snap[h].data, v3[w].checker)
           more == (v3[w].snap[h].errors \cap {"identity"}) \cup IF v3[w].failed THEN {"members"} ELSE {}
<1>1. v3[w].at = "members" /\ v2' = v2 /\ v5' = v5 /\ v3' = [v3 EXCEPT ![w] = Done]
  BY DEF Checks!CloseHousehold, Checks!Ends, Done
<1>2. h \in Beneficiaries /\ v3[w] \in Checks!AtWork(h) /\ h \in Checks!Family(h)
  BY <1>1, WorkIs
<1>3. v3[w].snap[h] \in Checks!Record /\ ("identity" \in v3[w].snap[h].errors => h \in Collided)
  BY <1>2, ReadIs
<1>4. v4' = v4 \/ v4' = v4 \cup {h}
  BY DEF Checks!CloseHousehold
<1>5. found \in SUBSET {"form"} /\ found \in SUBSET Checks!Errors /\ more \in SUBSET Checks!Errors
  BY FormErrorsIs DEF Checks!Errors
<1>6. v1 \in Checks!Rows /\ v1[h] \in Checks!Record
  BY <1>2 DEF Checks!ChecksInv, Checks!Rows
<1>7. /\ v1' \in Checks!Rows /\ \A s \in Beneficiaries \ {h} : v1'[s] = v1[s]
      /\ v1'[h].version = v1[h].version
      /\ v1'[h] = v1[h] \/ v1'[h].errors # {}
  <2>1. CASE more = {}
    BY <1>6, <2>1 DEF Checks!CloseHousehold
  <2>2. CASE more # {}
    <3>1. v1' = [v1 EXCEPT ![h].checked = TRUE, ![h].errors = found \cup more]
      BY <2>2 DEF Checks!CloseHousehold
    <3>2. PICK row : row = [v1[h] EXCEPT !.checked = TRUE, !.errors = found \cup more]
      OBVIOUS
    <3>3. v1' = [v1 EXCEPT ![h] = row]
      BY <1>2, <1>6, <3>1, <3>2 DEF Checks!Rows
    <3>4. row \in Checks!Record /\ row.version = v1[h].version /\ row.errors = found \cup more
      BY <1>5, <1>6, <3>2 DEF Checks!Record
    <3>5. "identity" \in row.errors => h \in Collided
      BY <1>3, <1>5, <3>4
    <3>6. QED
      BY <1>2, <1>6, <2>2, <3>3, <3>4, <3>5, RowStep
  <2>3. QED
    BY <2>1, <2>2
<1>8. Checks!ValidIsAccepted'
  <2>1. CASE v1'[h] = v1[h]
    <3>1. h \notin v4' \cup v5' /\ v1'[h].checked /\ v1'[h].errors = {} => Checks!FormErrors(v1'[h].data, v2) = {}
      BY <1>1, <1>2, <1>4, <2>1 DEF Checks!ChecksInv, Checks!ValidIsAccepted, Checks!IsValid, Checks!Accepted
    <3>2. QED
      BY <1>1, <1>2, <1>4, <1>7, <3>1, AcceptStep DEF Checks!ChecksInv
  <2>2. CASE v1'[h].errors # {}
    BY <1>1, <1>2, <1>4, <1>7, <2>2, AcceptStep DEF Checks!ChecksInv
  <2>3. QED
    BY <1>7, <2>1, <2>2
<1>9. \A s \in Beneficiaries : v1'[s].version = v1[s].version
  BY <1>7
<1>10. v4' \subseteq Beneficiaries /\ v5' \subseteq Beneficiaries
  BY <1>1, <1>2, <1>4 DEF Checks!ChecksInv
<1>11. QED
  BY <1>1, <1>7, <1>8, <1>9, <1>10, DoneIs, ActorStep

\* The form validates what it saves, and the family, as they are now.
LEMMA FormStep == ASSUME Checks!ChecksInv, NEW w \in Actors, Checks!SubmitForm(w) PROVE Checks!ChecksInv'
<1> DEFINE r == v3[w].rec
           data == [s \in Checks!Family(r) |-> IF s = r THEN v3[w].snap[r].data \cup {w} ELSE v1[s].data]
           failed == \E s \in Checks!Family(r) \ {r} : Checks!FormErrorsOf(s, data[s]) # {}
           errors(s) == Checks!FormErrorsOf(s, data[s]) \cup IF s = r /\ failed THEN {"members"} ELSE {}
<1>1. v3[w].at = "read" /\ v2' = v2 /\ v3' = [v3 EXCEPT ![w] = Done]
  BY DEF Checks!SubmitForm, Checks!Reads, Checks!Ends, Done
<1>2. /\ r \in Beneficiaries /\ v3[w] \in Checks!AtWork(r) /\ r \in Checks!Family(r)
      /\ Checks!Family(r) \subseteq Beneficiaries
  BY <1>1, WorkIs
<1>3. v3[w].snap[r] \in Checks!Record
  BY <1>2, ReadIs
<1>4. v1' = [s \in Beneficiaries |->
        IF s \notin Checks!Family(r) THEN v1[s]
        ELSE [data |-> data[s], checked |-> TRUE,
              version |-> IF s = r THEN v1[s].version + 1 ELSE v1[s].version, errors |-> errors(s)]]
  BY DEF Checks!SubmitForm
<1>5. v4' = v4 \ Checks!Family(r) /\ v5' = v5 \ Checks!Family(r)
  BY DEF Checks!SubmitForm
<1>6. \A s \in Beneficiaries : v1[s] \in Checks!Record /\ ("identity" \in v1[s].errors => s \in Collided)
  BY DEF Checks!ChecksInv, Checks!Rows
<1>7. \A s \in Checks!Family(r) :
        /\ data[s] \in SUBSET Actors /\ errors(s) \in SUBSET Checks!Errors
        /\ "identity" \in errors(s) => s \in Collided
        /\ errors(s) = {} => Checks!FormErrors(data[s], v2) = {}
  <2> SUFFICES ASSUME NEW s \in Checks!Family(r)
               PROVE  /\ data[s] \in SUBSET Actors /\ errors(s) \in SUBSET Checks!Errors
                      /\ "identity" \in errors(s) => s \in Collided
                      /\ errors(s) = {} => Checks!FormErrors(data[s], v2) = {}
    OBVIOUS
  <2>1. data[s] \in SUBSET Actors
    BY <1>2, <1>3, <1>6 DEF Checks!Record
  <2> DEFINE found == Checks!FormErrors(data[s], v2)
  <2>2. found \in SUBSET {"form"} /\ found \in SUBSET Checks!Errors
    BY FormErrorsIs
  <2>3. Checks!FormErrorsOf(s, data[s]) = found \cup (v1[s].errors \cap {"identity"})
    BY DEF Checks!FormErrorsOf
  <2> HIDE DEF found, data, failed
  <2>4. s \in Beneficiaries
    BY <1>2
  <2>5. QED
    BY <1>6, <2>1, <2>2, <2>3, <2>4 DEF Checks!Errors, found
<1> HIDE DEF data, failed, errors
<1>8. \A s \in Beneficiaries :
        /\ v1'[s] \in Checks!Record /\ ("identity" \in v1'[s].errors => s \in Collided)
        /\ v1'[s].version = v1[s].version \/ v1'[s].version = v1[s].version + 1
        /\ IF s \in Checks!Family(r) THEN v1'[s].data = data[s] /\ v1'[s].errors = errors(s) ELSE v1'[s] = v1[s]
  <2> SUFFICES ASSUME NEW s \in Beneficiaries
               PROVE  /\ v1'[s] \in Checks!Record /\ ("identity" \in v1'[s].errors => s \in Collided)
                      /\ v1'[s].version = v1[s].version \/ v1'[s].version = v1[s].version + 1
                      /\ IF s \in Checks!Family(r) THEN v1'[s].data = data[s] /\ v1'[s].errors = errors(s)
                                                   ELSE v1'[s] = v1[s]
    OBVIOUS
  <2>1. CASE s \notin Checks!Family(r)
    BY <1>4, <1>6, <2>1
  <2>2. CASE s \in Checks!Family(r)
    <3>1. PICK n : n = IF s = r THEN v1[s].version + 1 ELSE v1[s].version
      OBVIOUS
    <3>2. n \in Nat /\ (n = v1[s].version \/ n = v1[s].version + 1)
      BY <1>6, <3>1 DEF Checks!Record
    <3>3. v1'[s] = [data |-> data[s], checked |-> TRUE, version |-> n, errors |-> errors(s)]
      BY <1>4, <2>2, <3>1
    <3>4. v1'[s] \in Checks!Record
      BY <1>7, <2>2, <3>2, <3>3 DEF Checks!Record
    <3>5. QED
      BY <1>7, <2>2, <3>2, <3>3, <3>4
  <2>3. QED
    BY <2>1, <2>2
<1>9. v1' \in Checks!Rows
  BY <1>4, <1>8 DEF Checks!Rows
<1>10. Checks!ValidIsAccepted'
  <2> SUFFICES ASSUME NEW s \in Beneficiaries, s \notin v4' \cup v5', v1'[s].checked, v1'[s].errors = {}
               PROVE  Checks!FormErrors(v1'[s].data, v2) = {}
    BY <1>1 DEF Checks!ValidIsAccepted, Checks!IsValid, Checks!Accepted, Checks!FormErrors
  <2>1. CASE s \in Checks!Family(r)
    BY <1>7, <1>8, <2>1
  <2>2. CASE s \notin Checks!Family(r)
    BY <1>5, <1>8, <2>2 DEF Checks!ChecksInv, Checks!ValidIsAccepted, Checks!IsValid, Checks!Accepted
  <2>3. QED
    BY <2>1, <2>2
<1>11. v4' \subseteq Beneficiaries /\ v5' \subseteq Beneficiaries
  BY <1>5 DEF Checks!ChecksInv
<1>12. QED
  BY <1>1, <1>8, <1>9, <1>10, <1>11, DoneIs, ActorStep

\* The updates by query excuse what they write; a row of a sheet leaves its record unchecked.
LEMMA UpdateStep ==
  ASSUME Checks!ChecksInv, NEW w \in Actors, Checks!MassUpdate(w) \/ Checks!RegexUpdate(w) \/ Checks!ImportSheet(w)
  PROVE  Checks!ChecksInv'
<1> DEFINE r == v3[w].rec
<1>1. v3[w].at = "read" /\ UNCHANGED <<v2, v4>> /\ v3' = [v3 EXCEPT ![w] = Done]
  BY DEF Checks!MassUpdate, Checks!RegexUpdate, Checks!ImportSheet, Checks!Sheet, Checks!Reads, Checks!Ends, Done
<1>2. r \in Beneficiaries /\ v3[w] \in Checks!AtWork(r) /\ r \in Checks!Family(r)
  BY <1>1, WorkIs
<1>3. v3[w].snap[r] \in Checks!Record
  BY <1>2, ReadIs
<1>4. v1 \in Checks!Rows /\ v1[r] \in Checks!Record /\ ("identity" \in v1[r].errors => r \in Collided)
  BY <1>2 DEF Checks!ChecksInv, Checks!Rows
<1>5. CASE Checks!MassUpdate(w) \/ Checks!RegexUpdate(w)
  <2> DEFINE row == [v1[r] EXCEPT !.data = v3[w].snap[r].data \cup {w}]
  <2>1. v1' = [v1 EXCEPT ![r] = row] /\ v5' = v5 \cup {r}
    BY <1>2, <1>4, <1>5 DEF Checks!MassUpdate, Checks!RegexUpdate, Checks!Rows
  <2>2. v3[w].snap[r].data \cup {w} \in SUBSET Actors
    BY <1>3 DEF Checks!Record
  <2>3. row \in Checks!Record /\ row.version = v1[r].version /\ row.errors = v1[r].errors
    BY <1>4, <2>2 DEF Checks!Record
  <2> HIDE DEF row
  <2>4. v1' \in Checks!Rows /\ v1'[r] = row /\ \A s \in Beneficiaries \ {r} : v1'[s] = v1[s]
    BY <1>2, <1>4, <2>1, <2>3, RowStep
  <2>5. Checks!ValidIsAccepted'
    BY <1>1, <1>2, <2>1, <2>4, AcceptStep DEF Checks!ChecksInv
  <2>6. \A s \in Beneficiaries : v1'[s].version = v1[s].version
    BY <2>3, <2>4
  <2>7. v4' \subseteq Beneficiaries /\ v5' \subseteq Beneficiaries
    BY <1>1, <1>2, <2>1 DEF Checks!ChecksInv
  <2>8. QED
    BY <1>1, <2>4, <2>5, <2>6, <2>7, DoneIs, ActorStep
<1>6. CASE \E data \in {v3[w].snap[r].data, v1[r].data} :
             /\ v1' = [v1 EXCEPT ![r].data = data \cup {w}, ![r].checked = FALSE, ![r].errors = {}]
             /\ v5' = v5 \ {r}
  <2>1. PICK data \in {v3[w].snap[r].data, v1[r].data} :
          v1' = [v1 EXCEPT ![r].data = data \cup {w}, ![r].checked = FALSE, ![r].errors = {}]
    BY <1>6
  <2>2. v5' = v5 \ {r}
    BY <1>6
  <2> DEFINE row == [v1[r] EXCEPT !.data = data \cup {w}, !.checked = FALSE, !.errors = {}]
  <2>3. v1' = [v1 EXCEPT ![r] = row]
    BY <1>2, <1>4, <2>1 DEF Checks!Rows
  <2>4. data \cup {w} \in SUBSET Actors
    BY <1>3, <1>4 DEF Checks!Record
  <2>5. row \in Checks!Record /\ row.version = v1[r].version /\ row.errors = {} /\ ~row.checked
    BY <1>4, <2>4 DEF Checks!Record
  <2> HIDE DEF row
  <2>6. v1' \in Checks!Rows /\ v1'[r] = row /\ \A s \in Beneficiaries \ {r} : v1'[s] = v1[s]
    BY <1>2, <1>4, <2>3, <2>5, RowStep
  <2>7. Checks!ValidIsAccepted'
    BY <1>1, <1>2, <2>2, <2>5, <2>6, AcceptStep DEF Checks!ChecksInv
  <2>8. \A s \in Beneficiaries : v1'[s].version = v1[s].version
    BY <2>5, <2>6
  <2>9. v4' \subseteq Beneficiaries /\ v5' \subseteq Beneficiaries
    BY <1>1, <2>2 DEF Checks!ChecksInv
  <2>10. QED
    BY <1>1, <2>6, <2>7, <2>8, <2>9, DoneIs, ActorStep
<1>7. CASE UNCHANGED <<v1, v5>>
  <2>1. Checks!ValidIsAccepted'
    BY <1>1, <1>7 DEF Checks!ChecksInv, Checks!ValidIsAccepted, Checks!IsValid, Checks!Accepted, Checks!FormErrors
  <2>2. QED
    BY <1>1, <1>4, <1>7, <2>1, DoneIs, ActorStep DEF Checks!ChecksInv
<1>8. Checks!ImportSheet(w) =>
        \/ UNCHANGED <<v1, v5>>
        \/ \E data \in {v3[w].snap[r].data, v1[r].data} :
             /\ v1' = [v1 EXCEPT ![r].data = data \cup {w}, ![r].checked = FALSE, ![r].errors = {}]
             /\ v5' = v5 \ {r}
  BY DEF Checks!ImportSheet, Checks!Sheet
<1>9. QED
  BY <1>5, <1>6, <1>7, <1>8

\* After a change of the DataChecker nothing of the program counts as valid that was checked before.
LEMMA ChangeStep == ASSUME Checks!ChecksInv, Checks!ChangeChecker PROVE Checks!ChecksInv'
<1>0. v2 < MaxChecker /\ v2' = v2 + 1
  BY DEF Checks!ChangeChecker
<1>1. /\ UNCHANGED <<v3, v4, v5>>
      /\ v1' = [r \in Beneficiaries |->
           IF v1[r].checked THEN [v1[r] EXCEPT !.checked = FALSE, !.errors = {"data_checker"}] ELSE v1[r]]
  BY DEF Checks!ChangeChecker
<1>2. v2' \in 0..MaxChecker
  <2>1. v2 \in 0..MaxChecker
    BY DEF Checks!ChecksInv
  <2>2. MaxChecker \in Nat
    BY CheckFacts
  <2>3. QED
    BY <1>0, <2>1, <2>2
<1>3. \A r \in Beneficiaries :
        /\ v1'[r] \in Checks!Record /\ ("identity" \in v1'[r].errors => r \in Collided)
        /\ v1'[r].version = v1[r].version /\ ~v1'[r].checked
  <2> SUFFICES ASSUME NEW r \in Beneficiaries
               PROVE  /\ v1'[r] \in Checks!Record /\ ("identity" \in v1'[r].errors => r \in Collided)
                      /\ v1'[r].version = v1[r].version /\ ~v1'[r].checked
    OBVIOUS
  <2>1. v1[r] \in Checks!Record /\ ("identity" \in v1[r].errors => r \in Collided)
    BY DEF Checks!ChecksInv, Checks!Rows
  <2>2. v1'[r] = IF v1[r].checked THEN [v1[r] EXCEPT !.checked = FALSE, !.errors = {"data_checker"}] ELSE v1[r]
    BY <1>1
  <2>3. CASE v1[r].checked
    <3>1. PICK row : row = [v1[r] EXCEPT !.checked = FALSE, !.errors = {"data_checker"}]
      OBVIOUS
    <3>2. /\ row \in Checks!Record /\ row.errors = {"data_checker"} /\ ~row.checked
          /\ row.version = v1[r].version
      BY <2>1, <3>1 DEF Checks!Record, Checks!Errors
    <3>3. v1'[r] = row
      BY <2>2, <2>3, <3>1
    <3>4. QED
      BY <3>2, <3>3
  <2>4. CASE ~v1[r].checked
    BY <2>1, <2>2, <2>4
  <2>5. QED
    BY <2>3, <2>4
<1>4. v1' \in Checks!Rows
  BY <1>1, <1>3 DEF Checks!Rows
<1>5. Checks!ValidIsAccepted'
  BY <1>3 DEF Checks!ValidIsAccepted, Checks!IsValid
<1>6. Checks!Ended' = Checks!Ended
  BY <1>1 DEF Checks!Ended
<1>7. QED
  BY <1>1, <1>2, <1>3, <1>4, <1>5, <1>6 DEF Checks!ChecksInv, Checks!Cardinality, Cardinality

\* Every step keeps the invariant.
LEMMA NextChecksInv == ASSUME Checks!ChecksInv, Checks!Next PROVE Checks!ChecksInv'
<1>1. CASE Checks!ChangeChecker
  BY <1>1, ChangeStep
<1>2. ASSUME NEW w \in Actors, Checks!Step(w) PROVE Checks!ChecksInv'
  BY <1>2, QuietStep, CheckRecordStep, CheckMemberStep, CloseStep, FormStep, UpdateStep
    DEF Checks!Step, Checks!CheckMember
<1>3. QED
  BY <1>1, <1>2 DEF Checks!Next

\* Initially nothing was checked and nobody is at work.
LEMMA InitChecksInv == ASSUME Checks!Init PROVE Checks!ChecksInv
<1>1. /\ v1 = [r \in Beneficiaries |-> [data |-> {}, version |-> 1, checked |-> FALSE,
                                        errors |-> IF r \in Collided THEN {"identity"} ELSE {}]]
      /\ v2 = 0 /\ v3 = [w \in Actors |-> Checks!Idle] /\ v4 = {} /\ v5 = {}
  BY DEF Checks!Init
<1>2. v1 \in Checks!Rows /\ \A r \in Beneficiaries : v1[r].version = 1 /\ ~v1[r].checked
  <2>1. \A r \in Beneficiaries : v1[r] \in Checks!Record /\ ("identity" \in v1[r].errors => r \in Collided)
    BY <1>1 DEF Checks!Record, Checks!Errors
  <2>2. QED
    BY <1>1, <2>1 DEF Checks!Rows
<1>3. Checks!Ended = {}
  BY <1>1 DEF Checks!Ended, Checks!Idle
<1>4. 1 \in 1..(1 + Checks!Cardinality(Checks!Ended))
  BY <1>3, FS_EmptySet DEF Checks!Cardinality, Cardinality
<1>5. Checks!ValidIsAccepted
  BY <1>2 DEF Checks!ValidIsAccepted, Checks!IsValid
<1>6. QED
  BY <1>1, <1>2, <1>4, <1>5, CheckFacts DEF Checks!ChecksInv

-----------------------------------------------------------------------------
(* The components together.                                                  *)

\* The row of a spreadsheet is refused when a form was saved since the export.
LEMMA SheetKeepsForms == ASSUME Checks!ChecksInv, Checks!Next PROVE Checks!FormEditsSurviveImport
<1> SUFFICES ASSUME NEW w \in Actors, NEW u \in Actors, NEW r \in Beneficiaries,
                    Checks!Reads(w, "sheet"), v3'[w].at = "done", v3[w].rec = r,
                    u \in v1[r].data, v1[r].version > v3[w].snap[r].version
             PROVE  u \in v1'[r].data
  BY DEF Checks!FormEditsSurviveImport
<1>1. v3[w].op = "sheet" /\ v3[w].at = "read"
  BY DEF Checks!Reads
<1>2. v3' # v3
  BY <1>1
<1>3. PICK a \in Actors : Checks!Step(a)
  BY <1>2 DEF Checks!Next, Checks!ChangeChecker
<1>4. \E new : v3' = [v3 EXCEPT ![a] = new]
  <2>1. Checks!CheckMember(a) => v3' = [v3 EXCEPT ![a] = v3'[a]]
    BY DEF Checks!CheckMember, Checks!CheckMemberAs, Checks!ChecksInv
  <2>2. Checks!CheckRecord(a) => v3' = [v3 EXCEPT ![a] = v3'[a]]
    BY DEF Checks!CheckRecord, Checks!Ends, Checks!ChecksInv
  <2>3. QED
    BY <1>3, <2>1, <2>2 DEF Checks!Step, Checks!Read, Checks!Conflict, Checks!CloseHousehold, Checks!Die,
      Checks!SubmitForm, Checks!MassUpdate, Checks!RegexUpdate, Checks!ImportSheet, Checks!Sheet, Checks!Ends
<1>5. a = w
  BY <1>1, <1>4 DEF Checks!ChecksInv
<1>6. Checks!ImportSheet(w)
  BY <1>1, <1>3, <1>5 DEF Checks!Step, Checks!Read, Checks!Conflict, Checks!CheckRecord, Checks!CheckMember,
    Checks!CheckMemberAs, Checks!CloseHousehold, Checks!Die, Checks!SubmitForm, Checks!MassUpdate,
    Checks!RegexUpdate, Checks!Reads
<1>7. v1[r].version # v3[w].snap[r].version
  <2>1. v3[w] \in Checks!AtWork(r) /\ r \in Beneficiaries /\ r \in Checks!Family(r)
    BY <1>1, WorkIs
  <2>2. v3[w].snap[r].version \in Nat /\ v1[r].version \in Nat
    BY <2>1, ReadIs DEF Checks!Record, Checks!ChecksInv, Checks!Rows
  <2>3. QED
    BY <2>2
<1>8. v1' = v1
  BY <1>6, <1>7 DEF Checks!ImportSheet, Checks!Sheet
<1>9. QED
  BY <1>8

-----------------------------------------------------------------------------
(* ValidationRun.                                                            *)

ChunkSteps == {"idle", "queued", "validated", "keys", "valid", "invalid", "last", "emitted", "done", "failed"}
Sizes == [valid : 0..MaxSize, invalid : 0..MaxSize]
Counter == Nat \cup {Validation!Missing}
Through == {w \in Validation!Deliverers : v3[w] \in {"last", "emitted", "done", "failed"}}

\* A chunk is delivered again once at most, and what is counted went through.
RunTypes ==
  /\ v1 \in {"new", "created", "queued", "stopped"} /\ v2 \in [Chunks -> Sizes]
  /\ v3 \in [Validation!Deliverers -> ChunkSteps] /\ v4 \in [Validation!Deliverers -> Sizes]
  /\ v5 \in [valid : Counter, invalid : Counter, completed : Counter]
  /\ v6 \in Seq([valid : Nat, invalid : Nat, state : {"queued", "sent", "lost"}])
  /\ v7 \in [deleted : SUBSET Chunks, again : SUBSET Chunks, expired : Nat]
  /\ \A c \in Chunks \ v7.again : v3[<<c, 2>>] = "idle"
  /\ v5.completed <= Cardinality(Through)

\* The job of a chunk and what it has found, when none is delivered again.
ChunkAt(c) == v3[<<c, 1>>]
Got(c) == v4[<<c, 1>>]

\* The records that the counters have, and the chunks that are completed.
InCounter(field) ==
  LET past == IF field = "valid" THEN {"valid", "invalid", "last", "done"} ELSE {"invalid", "last", "done"}
  IN {p \in Chunks \X (1..MaxSize) : ChunkAt(p[1]) \in past /\ p[2] <= Got(p[1])[field]}
Completed == {c \in Chunks : ChunkAt(c) = "last" \/ (ChunkAt(c) = "done" /\ Got(c) # Validation!Nothing)}

Quiet == v7.again = {} /\ v7.expired = 0

ChunkInv ==
  \A c \in Chunks :
    /\ ChunkAt(c) # "failed"
    /\ ChunkAt(c) \in {"idle", "queued"} => Got(c) = Validation!Nothing
    /\ ChunkAt(c) \in {"validated", "keys", "valid", "invalid", "last"} => Got(c) # Validation!Nothing

\* No counters yet, or right ones.
NotCounted ==
  /\ v5 = Validation!NoCounters
  /\ \A c \in Chunks : ChunkAt(c) \in {"idle", "queued", "validated"}
                       \/ (ChunkAt(c) = "done" /\ Got(c) = Validation!Nothing)
Counted ==
  /\ \A field \in {"valid", "invalid"} : v5[field] = Cardinality(InCounter(field))
  /\ v5.completed = Cardinality(Completed)

UnreportedInv ==
  v6 = <<>> =>
    /\ \A c \in Chunks : ChunkAt(c) # "emitted"
    /\ NotCounted \/ Counted
    /\ \A c \in Chunks : ChunkAt(c) = "last" => Completed = Chunks
    /\ \A c, d \in Chunks : ChunkAt(c) = "last" /\ ChunkAt(d) = "last" => c = d

ReportedInv ==
  v6 # <<>> =>
    /\ Len(v6) = 1 /\ \A field \in {"valid", "invalid"} : v6[1][field] = Validation!Total(field)
    /\ \A c \in Chunks : ChunkAt(c) \in {"emitted", "done"}

RunInv == RunTypes /\ (Quiet => ChunkInv /\ UnreportedInv /\ ReportedInv)

LEMMA RunBounds ==
  /\ IsFiniteSet(Chunks) /\ MaxSize \in Nat /\ Validation!Missing = -1
  /\ IsFiniteSet(Validation!Deliverers)
  /\ \A c \in Chunks, d \in {1, 2} : <<c, d>> \in Validation!Deliverers
  /\ \A w \in Validation!Deliverers : w[1] \in Chunks /\ w[2] \in {1, 2} /\ w = <<w[1], w[2]>>
<1>1. IsFiniteSet(Chunks) /\ MaxSize \in Nat
  BY BoundsAssumption DEF Validation!ValidationAssumption, Validation!IsFiniteSet, IsFiniteSet
<1>2. IsFiniteSet({1, 2})
  <2>1. 1 \in Int /\ 2 \in Int
    OBVIOUS
  <2>2. 1..2 = {1, 2}
    OBVIOUS
  <2>3. QED
    BY <2>1, <2>2, FS_Interval
<1>3. IsFiniteSet(Validation!Deliverers)
  BY <1>1, <1>2, FS_Product DEF Validation!Deliverers, Validation!Deliveries
<1>4. QED
  BY <1>1, <1>3 DEF Validation!Missing, Validation!Deliverers, Validation!Deliveries

LEMMA SameCardinality == \A S : Validation!Cardinality(S) = Cardinality(S)
BY DEF Validation!Cardinality, Cardinality

LEMMA SetsCounted ==
  /\ IsFiniteSet(Through) /\ IsFiniteSet(Completed)
  /\ \A field : IsFiniteSet(InCounter(field))
<1>1. IsFiniteSet(Chunks \X (1..MaxSize))
  <2>1. 1 \in Int /\ MaxSize \in Int
    BY RunBounds
  <2>3. IsFiniteSet(1..MaxSize)
    BY <2>1, FS_Interval
  <2>2. QED
    BY <2>3, RunBounds, FS_Product
<1>2. Through \subseteq Validation!Deliverers /\ Completed \subseteq Chunks
  BY DEF Through, Completed
<1>3. \A field : InCounter(field) \subseteq Chunks \X (1..MaxSize)
  BY DEF InCounter
<1>4. QED
  BY <1>1, <1>2, <1>3, RunBounds, FS_Subset

\* A step of the queue or of a job that is not through: what is through grows.
LEMMA ThroughGrows ==
  ASSUME Through \subseteq Through', IsFiniteSet(Through'), v5'.completed = v5.completed,
         v5.completed <= Cardinality(Through), v5.completed \in Counter
  PROVE  v5'.completed <= Cardinality(Through)'
<1>1. Cardinality(Through) <= Cardinality(Through') /\ Cardinality(Through) \in Nat /\ Cardinality(Through') \in Nat
  BY SetsCounted, FS_Subset, FS_CardinalityType
<1>2. QED
  BY <1>1, RunBounds DEF Counter

\* A delivery that goes on: it stays through, and is through when it gets there.
Ended == {"last", "emitted", "done", "failed"}

LEMMA MoveTypes ==
  ASSUME RunTypes, NEW w \in Validation!Deliverers, NEW a \in ChunkSteps, Validation!GoTo(w, a),
         w[2] = 1 \/ v3[w] # "idle", v3[w] \in Ended => a \in Ended
  PROVE  /\ v3' \in [Validation!Deliverers -> ChunkSteps] /\ v3'[w] = a
         /\ \A u \in Validation!Deliverers \ {w} : v3'[u] = v3[u]
         /\ \A c \in Chunks \ v7.again : v3'[<<c, 2>>] = "idle"
         /\ IsFiniteSet(Through') /\ Cardinality(Through) \in Nat /\ Cardinality(Through') \in Nat
         /\ Cardinality(Through) <= Cardinality(Through')
         /\ v3[w] \notin Ended /\ a \in Ended => Cardinality(Through') = Cardinality(Through) + 1
<1>1. v3' \in [Validation!Deliverers -> ChunkSteps] /\ v3'[w] = a /\ \A u \in Validation!Deliverers \ {w} : v3'[u] = v3[u]
  BY DEF RunTypes, Validation!GoTo
<1>2. \A c \in Chunks \ v7.again : v3'[<<c, 2>>] = "idle"
  <2>1. SUFFICES ASSUME NEW c \in Chunks \ v7.again PROVE v3'[<<c, 2>>] = "idle"
    OBVIOUS
  <2>2. <<c, 2>> \in Validation!Deliverers /\ v3[<<c, 2>>] = "idle"
    BY RunBounds DEF RunTypes
  <2>3. <<c, 2>> # w
    <3>1. <<c, 2>>[2] = 2
      OBVIOUS
    <3>2. QED
      BY <2>2, <3>1
  <2>4. QED
    BY <1>1, <2>2, <2>3
<1>3. Through' = {u \in Validation!Deliverers : v3'[u] \in Ended} /\ Through = {u \in Validation!Deliverers : v3[u] \in Ended}
  BY DEF Through, Ended
<1>4. IsFiniteSet(Through) /\ IsFiniteSet(Through') /\ Through \subseteq Through'
  <2>1. Through' \subseteq Validation!Deliverers
    BY <1>3
  <2>2. QED
    BY <2>1, <1>1, <1>3, RunBounds, SetsCounted, FS_Subset
<1>5. v3[w] \notin Ended /\ a \in Ended => Through' = Through \cup {w} /\ w \notin Through
  BY <1>1, <1>3
<1>6. v3[w] \notin Ended /\ a \in Ended => Cardinality(Through') = Cardinality(Through) + 1
  BY <1>4, <1>5, FS_AddElement
<1>7. Cardinality(Through) <= Cardinality(Through') /\ Cardinality(Through) \in Nat /\ Cardinality(Through') \in Nat
  BY <1>4, FS_Subset, FS_CardinalityType
<1>8. QED
  BY <1>1, <1>2, <1>4, <1>6, <1>7

\* A counter that is there and grows, or a new one.
LEMMA CountersAre ==
  ASSUME RunTypes
  PROVE  /\ \A k \in {"valid", "invalid", "completed"} : v5[k] \in Nat \cup {-1}
         /\ DOMAIN v5 = {"valid", "invalid", "completed"}
         /\ Cardinality(Through) \in Nat /\ v5.completed <= Cardinality(Through)
<1>1. \A k \in {"valid", "invalid", "completed"} : v5[k] \in Nat \cup {-1}
  BY RunBounds DEF RunTypes, Counter
<1>2. QED
  BY <1>1, SetsCounted, FS_CardinalityType DEF RunTypes

LEMMA IncrementTypes ==
  ASSUME RunTypes, NEW w \in Validation!Deliverers, NEW from \in ChunkSteps \ (Ended \cup {"idle"}),
         NEW key \in {"valid", "invalid", "completed"}, NEW n \in Nat, NEW to \in ChunkSteps,
         Validation!Increment(w, from, key, n, to), key = "completed" => n = 1 /\ to \in Ended
  PROVE  RunTypes'
<1>1. v3[w] = from /\ UNCHANGED <<v1, v2, v4, v6, v7>>
  BY DEF Validation!Increment
<1> DEFINE a == IF n > 0 /\ v5[key] = Validation!Missing THEN "failed" ELSE to
<1>2. a \in ChunkSteps /\ Validation!GoTo(w, a)
  BY DEF Validation!Increment, ChunkSteps
<1> HIDE DEF a
<1>3. /\ v3' \in [Validation!Deliverers -> ChunkSteps] /\ \A c \in Chunks \ v7.again : v3'[<<c, 2>>] = "idle"
      /\ Cardinality(Through) \in Nat /\ Cardinality(Through') \in Nat
      /\ Cardinality(Through) <= Cardinality(Through')
      /\ a \in Ended => Cardinality(Through') = Cardinality(Through) + 1
  BY <1>1, <1>2, MoveTypes
<1>4. v5' = IF v5[key] = -1 THEN v5 ELSE [v5 EXCEPT ![key] = @ + n]
  BY RunBounds DEF Validation!Increment
<1>5. v5' \in [valid : Counter, invalid : Counter, completed : Counter]
  <2>1. v5 \in [valid : Counter, invalid : Counter, completed : Counter]
    BY DEF RunTypes
  <2>2. v5[key] = -1 \/ v5[key] + n \in Nat
    BY CountersAre
  <2>3. QED
    BY <1>4, <2>1, <2>2 DEF Counter
<1>6. v5'.completed <= Cardinality(Through')
  <2>1. key = "completed" /\ v5.completed # -1 => a \in Ended
    BY RunBounds DEF a
  <2>2. key # "completed" \/ v5.completed = -1 => v5'.completed = v5.completed
    BY <1>4, CountersAre
  <2>3. key = "completed" /\ v5.completed # -1 => v5'.completed = v5.completed + 1
    BY <1>4, CountersAre
  <2>4. QED
    BY <2>1, <2>2, <2>3, <1>3, CountersAre
<1>7. QED
  BY <1>1, <1>3, <1>5, <1>6 DEF RunTypes, Through

LEMMA QueueTypes ==
  ASSUME RunTypes, NEW c \in Chunks, Validation!QueueNext(c) \/ Validation!QueueByHand(c)
  PROVE  RunTypes'
<1>1. /\ <<c, 1>> \in Validation!Deliverers /\ v3[<<c, 1>>] = "idle" /\ <<c, 1>>[2] = 1
      /\ Validation!GoTo(<<c, 1>>, "queued") /\ UNCHANGED <<v2, v4, v5, v6, v7>>
  BY RunBounds DEF Validation!QueueNext, Validation!QueueByHand, Validation!Queued
<1>2. v1' \in {"new", "created", "queued", "stopped"}
  BY DEF Validation!QueueNext, Validation!QueueByHand, RunTypes
<1>3. v3[<<c, 1>>] \notin Ended /\ "queued" \in ChunkSteps
  BY <1>1 DEF Ended, ChunkSteps
<1>4. /\ v3' \in [Validation!Deliverers -> ChunkSteps] /\ \A d \in Chunks \ v7.again : v3'[<<d, 2>>] = "idle"
      /\ Cardinality(Through) \in Nat /\ Cardinality(Through') \in Nat
      /\ Cardinality(Through) <= Cardinality(Through')
  BY <1>1, <1>3, MoveTypes
<1>5. v5'.completed <= Cardinality(Through')
  BY <1>1, <1>4, CountersAre
<1>6. QED
  BY <1>1, <1>2, <1>4, <1>5 DEF RunTypes, Through

LEMMA WorkTypes ==
  ASSUME RunTypes, NEW w \in Validation!Deliverers, Validation!Work(w)
  PROVE  RunTypes'
<1> DEFINE Goes(a) ==
      /\ v3[w] # "idle" /\ (v3[w] \in Ended => a \in Ended) /\ a \in ChunkSteps /\ Validation!GoTo(w, a)
<1>1. ASSUME NEW a, Goes(a), v5'.completed = v5.completed \/ v5'.completed \in {-1, 0},
             v5' \in [valid : Counter, invalid : Counter, completed : Counter], v4' \in [Validation!Deliverers -> Sizes],
             v6' \in Seq([valid : Nat, invalid : Nat, state : {"queued", "sent", "lost"}]), UNCHANGED <<v1, v2, v7>>
      PROVE  RunTypes'
  <2>1. /\ v3' \in [Validation!Deliverers -> ChunkSteps] /\ \A d \in Chunks \ v7.again : v3'[<<d, 2>>] = "idle"
        /\ Cardinality(Through) \in Nat /\ Cardinality(Through') \in Nat
        /\ Cardinality(Through) <= Cardinality(Through')
    BY <1>1, MoveTypes
  <2>2. v5'.completed <= Cardinality(Through')
    BY <1>1, <2>1, CountersAre
  <2>3. QED
    BY <1>1, <2>1, <2>2 DEF RunTypes, Through
<1>2. ASSUME Validation!Validate(w) PROVE RunTypes'
  <2> DEFINE a == IF v2[w[1]] = Validation!Nothing THEN "done" ELSE "validated"
  <2>1. Goes(a)
    BY <1>2 DEF Validation!Validate, ChunkSteps, Ended
  <2>2. v4' \in [Validation!Deliverers -> Sizes]
    <3>1. v2[w[1]] \in Sizes
      BY RunBounds DEF RunTypes
    <3>2. QED
      BY <1>2, <3>1 DEF Validation!Validate, RunTypes
  <2> HIDE DEF a, Goes
  <2>3. UNCHANGED <<v1, v2, v5, v6, v7>>
    BY <1>2 DEF Validation!Validate
  <2>4. QED
    BY <1>1, <2>1, <2>2, <2>3 DEF RunTypes
<1>3. ASSUME Validation!AddKeys(w) PROVE RunTypes'
  <2>1. Goes("keys")
    BY <1>3 DEF Validation!AddKeys, ChunkSteps, Ended
  <2> HIDE DEF Goes
  <2>2. v5' = [k \in DOMAIN v5 |-> IF v5[k] = -1 THEN 0 ELSE v5[k]] /\ UNCHANGED <<v1, v2, v4, v6, v7>>
    BY <1>3, RunBounds DEF Validation!AddKeys
  <2>3. v5'.completed = v5.completed \/ v5'.completed \in {-1, 0}
    BY <2>2, CountersAre
  <2>4. v5' \in [valid : Counter, invalid : Counter, completed : Counter]
    BY <2>2, CountersAre DEF Counter, RunTypes
  <2>5. QED
    BY <1>1, <2>1, <2>2, <2>3, <2>4 DEF RunTypes
<1>4. ASSUME Validation!AddValid(w) \/ Validation!AddInvalid(w) PROVE RunTypes'
  <2>1. v4[w].valid \in Nat /\ v4[w].invalid \in Nat
    BY RunBounds DEF RunTypes, Sizes
  <2>2. "keys" \in ChunkSteps \ (Ended \cup {"idle"}) /\ "valid" \in ChunkSteps \ (Ended \cup {"idle"}) /\ "invalid" \in ChunkSteps
    BY DEF Ended, ChunkSteps
  <2>3. QED
    BY <1>4, <2>1, <2>2, IncrementTypes DEF Validation!AddValid, Validation!AddInvalid
<1>5. ASSUME Validation!Complete(w) PROVE RunTypes'
  <2> DEFINE to == IF v5.completed + 1 < Validation!Cardinality(Chunks) THEN "done" ELSE "last"
  <2>1. "invalid" \in ChunkSteps \ (Ended \cup {"idle"}) /\ to \in ChunkSteps /\ to \in Ended
    BY DEF Ended, ChunkSteps
  <2>2. Validation!Increment(w, "invalid", "completed", 1, to)
    BY <1>5 DEF Validation!Complete
  <2> HIDE DEF to
  <2>3. QED
    BY <2>1, <2>2, IncrementTypes
<1>6. ASSUME Validation!Report(w) PROVE RunTypes'
  <2>1. Goes("emitted") /\ UNCHANGED <<v1, v2, v4, v5, v7>>
    BY <1>6 DEF Validation!Report, ChunkSteps, Ended
  <2> HIDE DEF Goes
  <2>2. Validation!OrZero(v5.valid) \in Nat /\ Validation!OrZero(v5.invalid) \in Nat
    BY CountersAre, RunBounds DEF Validation!OrZero
  <2>3. v6' \in Seq([valid : Nat, invalid : Nat, state : {"queued", "sent", "lost"}])
    BY <1>6, <2>2 DEF Validation!Report, RunTypes
  <2>4. QED
    BY <1>1, <2>1, <2>3 DEF RunTypes
<1>7. ASSUME Validation!DeleteKeys(w) PROVE RunTypes'
  <2>1. Goes("done") /\ UNCHANGED <<v1, v2, v4, v6, v7>> /\ v5' = Validation!NoCounters
    BY <1>7 DEF Validation!DeleteKeys, ChunkSteps, Ended
  <2> HIDE DEF Goes
  <2>2. v5'.completed = -1 /\ v5' \in [valid : Counter, invalid : Counter, completed : Counter]
    BY <2>1, RunBounds DEF Validation!NoCounters, Counter
  <2>3. QED
    BY <1>1, <2>1, <2>2 DEF RunTypes
<1>8. QED
  BY <1>2, <1>3, <1>4, <1>5, <1>6, <1>7 DEF Validation!Work

LEMMA RedeliverTypes ==
  ASSUME RunTypes, NEW c \in Chunks, Validation!Redeliver(c)
  PROVE  RunTypes'
<1>1. c \notin v7.again /\ v3[<<c, 1>>] \notin {"idle", "done", "failed"} /\ UNCHANGED <<v1, v2, v4, v5, v6>>
  BY DEF Validation!Redeliver
<1>2. PICK lost \in BOOLEAN :
        v3' = [v3 EXCEPT ![<<c, 2>>] = "queued", ![<<c, 1>>] = IF lost THEN "failed" ELSE @]
  BY DEF Validation!Redeliver
<1>3. <<c, 1>> \in Validation!Deliverers /\ <<c, 2>> \in Validation!Deliverers /\ <<c, 1>> # <<c, 2>>
  BY RunBounds
<1>4. /\ v3' \in [Validation!Deliverers -> ChunkSteps] /\ v3'[<<c, 1>>] \in {"failed", v3[<<c, 1>>]}
      /\ \A u \in Validation!Deliverers \ {<<c, 1>>, <<c, 2>>} : v3'[u] = v3[u]
  <2>1. v3 \in [Validation!Deliverers -> ChunkSteps] /\ "queued" \in ChunkSteps /\ "failed" \in ChunkSteps
    BY DEF RunTypes, ChunkSteps
  <2>2. QED
    BY <1>2, <1>3, <2>1
<1>5. v7' = [v7 EXCEPT !.again = @ \cup {c}]
  BY DEF Validation!Redeliver
<1>6. v7' \in [deleted : SUBSET Chunks, again : SUBSET Chunks, expired : Nat] /\ v7'.again = v7.again \cup {c}
  BY <1>5 DEF RunTypes
<1>7. \A d \in Chunks \ v7'.again : v3'[<<d, 2>>] = "idle"
  <2>1. SUFFICES ASSUME NEW d \in Chunks \ v7'.again PROVE v3'[<<d, 2>>] = "idle"
    OBVIOUS
  <2>2. d # c /\ v3[<<d, 2>>] = "idle" /\ <<d, 2>> \in Validation!Deliverers
    BY <1>6, RunBounds DEF RunTypes
  <2>3. <<d, 2>> # <<c, 1>> /\ <<d, 2>> # <<c, 2>>
    BY <2>2
  <2>4. QED
    BY <1>4, <2>2, <2>3
<1>8. Through \subseteq Through' /\ Through' \subseteq Validation!Deliverers
  <2>1. Through' \subseteq Validation!Deliverers
    BY DEF Through
  <2>2. <<c, 2>> \notin Through
    BY <1>1, RunBounds DEF Through, RunTypes
  <2>3. ASSUME NEW u \in Through PROVE v3'[u] \in Ended
    BY <1>4, <2>2 DEF Through, Ended
  <2>4. QED
    BY <2>1, <2>3 DEF Through, Ended
<1>9. v5'.completed <= Cardinality(Through')
  <2>1. IsFiniteSet(Through')
    BY <1>8, RunBounds, FS_Subset
  <2>2. Cardinality(Through) <= Cardinality(Through') /\ Cardinality(Through') \in Nat
    BY <1>8, <2>1, FS_Subset, FS_CardinalityType
  <2>3. QED
    BY <1>1, <2>2, CountersAre
<1>10. QED
  BY <1>1, <1>4, <1>6, <1>7, <1>9 DEF RunTypes, Through

LEMMA NextRunTypes ==
  ASSUME RunTypes, Validation!Next
  PROVE  RunTypes'
<1>1. ASSUME Validation!CreateJobs \/ Validation!StopQueueing PROVE RunTypes'
  BY <1>1 DEF Validation!CreateJobs, Validation!StopQueueing, RunTypes, Through
<1>2. ASSUME Validation!Expire PROVE RunTypes'
  <2>1. v5'.completed = -1 /\ v5' \in [valid : Counter, invalid : Counter, completed : Counter]
    BY <1>2, RunBounds DEF Validation!Expire, Validation!NoCounters, Counter
  <2>2. UNCHANGED <<v1, v2, v3, v4, v6>> /\ v7' = [v7 EXCEPT !.expired = @ + 1]
    BY <1>2 DEF Validation!Expire
  <2>3. v7' \in [deleted : SUBSET Chunks, again : SUBSET Chunks, expired : Nat] /\ v7'.again = v7.again
    <3>1. v7 \in [deleted : SUBSET Chunks, again : SUBSET Chunks, expired : Nat]
      BY DEF RunTypes
    <3>2. v7.expired + 1 \in Nat
      BY <3>1
    <3>3. QED
      BY <2>2, <3>1, <3>2
  <2>4. v5'.completed <= Cardinality(Through)
    BY <2>1, CountersAre
  <2>5. QED
    BY <2>1, <2>2, <2>3, <2>4 DEF RunTypes, Through
<1>3. ASSUME NEW c \in Chunks, Validation!DeleteRecords(c) PROVE RunTypes'
  <2>1. UNCHANGED <<v1, v3, v4, v5, v6>> /\ v2' = [v2 EXCEPT ![c] = Validation!Nothing] /\ v7' = [v7 EXCEPT !.deleted = @ \cup {c}]
    BY <1>3 DEF Validation!DeleteRecords
  <2>2. Validation!Nothing \in Sizes
    BY RunBounds DEF Validation!Nothing, Sizes
  <2>3. v2' \in [Chunks -> Sizes]
    BY <2>1, <2>2 DEF RunTypes
  <2>4. v7' \in [deleted : SUBSET Chunks, again : SUBSET Chunks, expired : Nat] /\ v7'.again = v7.again
    BY <2>1 DEF RunTypes
  <2>5. QED
    BY <2>1, <2>3, <2>4 DEF RunTypes, Through
<1>4. ASSUME NEW i \in DOMAIN v6, Validation!Send(i) PROVE RunTypes'
  <2>1. PICK s \in {"sent", "lost"} : v6' = [v6 EXCEPT ![i].state = s]
    BY <1>4 DEF Validation!Send
  <2>2. v6 \in Seq([valid : Nat, invalid : Nat, state : {"queued", "sent", "lost"}])
    BY DEF RunTypes
  <2>3. v6[i] \in [valid : Nat, invalid : Nat, state : {"queued", "sent", "lost"}]
    <3> DEFINE R == [valid : Nat, invalid : Nat, state : {"queued", "sent", "lost"}]
    <3>1. v6 \in Seq(R)
      BY <2>2
    <3> HIDE DEF R
    <3>2. v6[i] \in R
      BY <3>1
    <3>3. QED
      BY <3>2 DEF R
  <2>4. [v6[i] EXCEPT !.state = s] \in [valid : Nat, invalid : Nat, state : {"queued", "sent", "lost"}]
    BY <2>3
  <2>5. v6' = [v6 EXCEPT ![i] = [v6[i] EXCEPT !.state = s]]
    BY <2>1
  <2>6. v6' \in Seq([valid : Nat, invalid : Nat, state : {"queued", "sent", "lost"}])
    BY <2>2, <2>4, <2>5
  <2>7. QED
    BY <1>4, <2>6 DEF Validation!Send, RunTypes, Through
<1>5. QED
  BY <1>1, <1>2, <1>3, <1>4, QueueTypes, WorkTypes, RedeliverTypes DEF Validation!Next

-----------------------------------------------------------------------------
\* No delivery is a second one: a step is one of the job of a chunk.
QuietInv == ChunkInv /\ UnreportedInv /\ ReportedInv

LEMMA QuietMove ==
  ASSUME RunTypes, Quiet, NEW w \in Validation!Deliverers, v3[w] # "idle", NEW a, Validation!GoTo(w, a)
  PROVE  /\ w = <<w[1], 1>> /\ w[1] \in Chunks
         /\ ChunkAt(w[1]) = v3[w] /\ ChunkAt(w[1])' = a /\ Got(w[1]) = v4[w]
         /\ \A d \in Chunks \ {w[1]} : ChunkAt(d)' = ChunkAt(d)
<1>1. w[1] \in Chunks /\ w[2] \in {1, 2} /\ w = <<w[1], w[2]>>
  BY RunBounds
<1>2. w[2] # 2
  BY <1>1 DEF RunTypes, Quiet
<1>3. w = <<w[1], 1>>
  BY <1>1, <1>2
<1>4. v3'[w] = a /\ \A u \in Validation!Deliverers \ {w} : v3'[u] = v3[u]
  BY DEF RunTypes, Validation!GoTo
<1>5. ASSUME NEW d \in Chunks \ {w[1]} PROVE <<d, 1>> \in Validation!Deliverers \ {w}
  <2>1. <<d, 1>> # w
    BY <1>3
  <2>2. QED
    BY <2>1, RunBounds
<1>6. QED
  BY <1>1, <1>3, <1>4, <1>5 DEF ChunkAt, Got

LEMMA GotIs ==
  ASSUME RunTypes, NEW c \in Chunks
  PROVE  /\ Got(c) \in Sizes /\ Got(c).valid \in 0..MaxSize /\ Got(c).invalid \in 0..MaxSize
         /\ Got(c) = Validation!Nothing <=> Got(c).valid = 0 /\ Got(c).invalid = 0
<1>1. Got(c) \in [valid : 0..MaxSize, invalid : 0..MaxSize]
  BY RunBounds DEF RunTypes, Got, Sizes
<1>2. Got(c) = Validation!Nothing <=> Got(c).valid = 0 /\ Got(c).invalid = 0
  BY <1>1 DEF Validation!Nothing
<1>3. QED
  BY <1>1, <1>2 DEF Sizes

\* What the counters have of a field, once the chunk c has added its part.
LEMMA Added ==
  ASSUME NEW S, IsFiniteSet(S), NEW c, NEW n \in Nat, \A p \in S : p[1] # c, NEW T, T = {c} \X (1..n)
  PROVE  Cardinality(S \cup T) = Cardinality(S) + n /\ IsFiniteSet(S \cup T)
<1>1. IsFiniteSet(1..n) /\ Cardinality(1..n) = n
  <2>1. 1 \in Int /\ n \in Int
    OBVIOUS
  <2>2. QED
    BY <2>1, FS_Interval
<1>2. IsFiniteSet({c}) /\ Cardinality({c}) = 1
  BY FS_Singleton
<1>3. IsFiniteSet({c} \X (1..n)) /\ Cardinality({c} \X (1..n)) = 1 * n
  BY <1>1, <1>2, FS_Product
<1>4. IsFiniteSet(T) /\ Cardinality(T) = n
  BY <1>3
<1>5. S \cap T = {}
  OBVIOUS
<1>6. Cardinality(S \cap T) = 0
  BY <1>5, FS_EmptySet
<1>7. Cardinality(S) \in Nat
  BY FS_CardinalityType
<1>8. IsFiniteSet(S \cup T) /\ Cardinality(S \cup T) = Cardinality(S) + Cardinality(T) - Cardinality(S \cap T)
  BY <1>4, FS_Union
<1>9. QED
  BY <1>4, <1>6, <1>7, <1>8

\* The states after which the counters have the records of a field.
Past(field) == IF field = "valid" THEN {"valid", "invalid", "last", "done"} ELSE {"invalid", "last", "done"}
LEMMA InCounterIs ==
  \A field : InCounter(field) = {p \in Chunks \X (1..MaxSize) : ChunkAt(p[1]) \in Past(field) /\ p[2] <= Got(p[1])[field]}
BY DEF InCounter, Past

\* A chunk that goes on without being counted leaves the counted sets alone.
LEMMA SameCounted ==
  ASSUME RunTypes, NEW c \in Chunks, \A d \in Chunks \ {c} : ChunkAt(d)' = ChunkAt(d), UNCHANGED v4,
         NEW field, ChunkAt(c)' \in Past(field) <=> ChunkAt(c) \in Past(field)
  PROVE  InCounter(field)' = InCounter(field)
<1>1. \A d : Got(d)' = Got(d)
  BY DEF Got
<1>2. \A d \in Chunks : ChunkAt(d)' \in Past(field) <=> ChunkAt(d) \in Past(field)
  OBVIOUS
<1>3. InCounter(field)' = {p \in Chunks \X (1..MaxSize) : ChunkAt(p[1])' \in Past(field) /\ p[2] <= Got(p[1])'[field]}
  BY DEF InCounter, Past
<1>4. QED
  BY <1>1, <1>2, <1>3, InCounterIs

LEMMA SameCompleted ==
  ASSUME RunTypes, NEW c \in Chunks, \A d \in Chunks \ {c} : ChunkAt(d)' = ChunkAt(d), UNCHANGED v4,
         ChunkAt(c)' \notin {"last", "done"}, ChunkAt(c) \notin {"last", "done"}
  PROVE  Completed' = Completed
BY DEF Completed, Got

\* What the quiet states say of a job whose result is not reported.
LEMMA StillUnreported ==
  ASSUME RunTypes, QuietInv, NEW c \in Chunks, ChunkAt(c) \notin {"emitted", "done"}
  PROVE  /\ v6 = <<>> /\ \A d \in Chunks : ChunkAt(d) # "emitted"
         /\ NotCounted \/ Counted
         /\ \A d \in Chunks : ChunkAt(d) = "last" => Completed = Chunks
         /\ \A d, e \in Chunks : ChunkAt(d) = "last" /\ ChunkAt(e) = "last" => d = e
BY DEF QuietInv, UnreportedInv, ReportedInv

LEMMA QueueQuiet ==
  ASSUME RunTypes, Quiet, QuietInv, NEW c \in Chunks, Validation!QueueNext(c) \/ Validation!QueueByHand(c)
  PROVE  QuietInv'
<1>1. ChunkAt(c) = "idle" /\ UNCHANGED <<v4, v5, v6>> /\ Validation!GoTo(<<c, 1>>, "queued")
  BY DEF Validation!QueueNext, Validation!QueueByHand, Validation!Queued, ChunkAt
<1>2. ChunkAt(c)' = "queued" /\ \A d \in Chunks \ {c} : ChunkAt(d)' = ChunkAt(d)
  <2>1. <<c, 1>> \in Validation!Deliverers /\ \A d \in Chunks \ {c} : <<d, 1>> \in Validation!Deliverers \ {<<c, 1>>}
    BY RunBounds
  <2>2. QED
    BY <1>1, <2>1 DEF RunTypes, Validation!GoTo, ChunkAt
<1>3. \A field : InCounter(field)' = InCounter(field)
  BY <1>1, <1>2, SameCounted DEF Past
<1>4. Completed' = Completed
  BY <1>1, <1>2, SameCompleted
<1>5. \A d : Got(d)' = Got(d)
  BY <1>1 DEF Got
<1>6. ChunkInv'
  BY <1>1, <1>2, <1>5 DEF ChunkInv, QuietInv
<1>7. UnreportedInv' /\ ReportedInv'
  <2>1. NotCounted => NotCounted'
    BY <1>1, <1>2, <1>5 DEF NotCounted
  <2>2. Counted => Counted'
    BY <1>1, <1>3, <1>4 DEF Counted
  <2>3. QED
    BY <1>1, <1>2, <1>4, <2>1, <2>2, StillUnreported DEF UnreportedInv, ReportedInv
<1>8. QED
  BY <1>6, <1>7 DEF QuietInv

LEMMA ValidateQuiet ==
  ASSUME RunTypes, Quiet, QuietInv, NEW w \in Validation!Deliverers, Validation!Validate(w)
  PROVE  QuietInv'
<1> DEFINE c == w[1]
           a == IF v2[c] = Validation!Nothing THEN "done" ELSE "validated"
<1>1. v3[w] = "queued" /\ UNCHANGED <<v5, v6>> /\ v4' = [v4 EXCEPT ![w] = v2[c]] /\ Validation!GoTo(w, a)
  BY DEF Validation!Validate
<1>2. /\ w = <<c, 1>> /\ c \in Chunks /\ ChunkAt(c) = "queued" /\ ChunkAt(c)' = a
      /\ \A d \in Chunks \ {c} : ChunkAt(d)' = ChunkAt(d)
  BY <1>1, QuietMove
<1>3. Got(c)' = v2[c] /\ \A d \in Chunks \ {c} : Got(d)' = Got(d)
  <2>1. \A d \in Chunks \ {c} : <<d, 1>> # w /\ <<d, 1>> \in Validation!Deliverers
    <3>1. SUFFICES ASSUME NEW d \in Chunks \ {c} PROVE <<d, 1>> # <<c, 1>>
      BY <1>2, RunBounds
    <3>2. QED
      OBVIOUS
  <2>2. v4'[w] = v2[c] /\ \A u \in Validation!Deliverers \ {w} : v4'[u] = v4[u]
    BY <1>1 DEF RunTypes
  <2>3. QED
    BY <1>2, <2>1, <2>2 DEF Got
<1>4. v2[c] \in Sizes
  BY <1>2 DEF RunTypes
<1> HIDE DEF c
<1>5. \A field \in {"valid", "invalid"} : InCounter(field)' = InCounter(field)
  <2>1. SUFFICES ASSUME NEW field \in {"valid", "invalid"} PROVE InCounter(field)' = InCounter(field)
    OBVIOUS
  <2>2. InCounter(field)' = {p \in Chunks \X (1..MaxSize) : ChunkAt(p[1])' \in Past(field) /\ p[2] <= Got(p[1])'[field]}
    BY DEF InCounter, Past
  <2>3. a \in Past(field) => v2[c][field] = 0
    BY DEF Past, Validation!Nothing
  <2>4. "queued" \notin Past(field)
    BY DEF Past
  <2>5. ASSUME NEW p \in Chunks \X (1..MaxSize)
        PROVE  (ChunkAt(p[1])' \in Past(field) /\ p[2] <= Got(p[1])'[field]) <=> (ChunkAt(p[1]) \in Past(field) /\ p[2] <= Got(p[1])[field])
    <3>1. CASE p[1] = c
      <4>1. p[2] \in Int /\ p[2] >= 1
        OBVIOUS
      <4>2. ~(a \in Past(field) /\ p[2] <= v2[c][field])
        BY <2>3, <4>1
      <4>3. QED
        BY <3>1, <4>2, <2>4, <1>2, <1>3
    <3>2. CASE p[1] # c
      <4>1. p[1] \in Chunks \ {c}
        BY <3>2
      <4>2. ChunkAt(p[1])' = ChunkAt(p[1]) /\ Got(p[1])' = Got(p[1])
        BY <4>1, <1>2, <1>3
      <4>3. QED
        BY <4>2
    <3>3. QED
      BY <3>1, <3>2
  <2>6. QED
    BY <2>2, <2>5, InCounterIs
<1>6. Completed' = Completed
  <2>1. ~(a = "last" \/ (a = "done" /\ v2[c] # Validation!Nothing))
    OBVIOUS
  <2>2. QED
    BY <1>2, <1>3, <2>1 DEF Completed
<1>7. ChunkInv'
  BY <1>2, <1>3 DEF ChunkInv, QuietInv
<1>8. UnreportedInv' /\ ReportedInv'
  <2>1. NotCounted => NotCounted'
    BY <1>1, <1>2, <1>3 DEF NotCounted
  <2>2. Counted => Counted'
    BY <1>1, <1>5, <1>6 DEF Counted
  <2>3. QED
    BY <1>1, <1>2, <1>6, <2>1, <2>2, StillUnreported DEF UnreportedInv, ReportedInv
<1>9. QED
  BY <1>7, <1>8 DEF QuietInv

LEMMA KeysQuiet ==
  ASSUME RunTypes, Quiet, QuietInv, NEW w \in Validation!Deliverers, Validation!AddKeys(w)
  PROVE  QuietInv'
<1> DEFINE c == w[1]
<1>1. v3[w] = "validated" /\ UNCHANGED <<v4, v6>> /\ Validation!GoTo(w, "keys")
  BY DEF Validation!AddKeys
<1>2. v5' = [k \in DOMAIN v5 |-> IF v5[k] = -1 THEN 0 ELSE v5[k]]
  BY RunBounds DEF Validation!AddKeys
<1>3. /\ c \in Chunks /\ ChunkAt(c) = "validated" /\ ChunkAt(c)' = "keys"
      /\ \A d \in Chunks \ {c} : ChunkAt(d)' = ChunkAt(d)
  BY <1>1, QuietMove
<1> HIDE DEF c
<1>4. \A field : InCounter(field)' = InCounter(field)
  BY <1>1, <1>3, SameCounted DEF Past
<1>5. Completed' = Completed
  BY <1>1, <1>3, SameCompleted
<1>6. \A d : Got(d)' = Got(d)
  BY <1>1 DEF Got
<1>7. ChunkInv'
  BY <1>1, <1>3, <1>6 DEF ChunkInv, QuietInv
<1>8. Counted'
  <2>1. CASE Counted
    <3>1. Cardinality(Completed) \in Nat /\ \A field : Cardinality(InCounter(field)) \in Nat
      BY SetsCounted, FS_CardinalityType
    <3>2. v5.completed # -1 /\ v5.valid # -1 /\ v5.invalid # -1
      BY <2>1, <3>1 DEF Counted
    <3>3. v5'.completed = v5.completed /\ v5'.valid = v5.valid /\ v5'.invalid = v5.invalid
      BY <1>2, <3>2, CountersAre
    <3>4. QED
      BY <2>1, <3>3, <1>4, <1>5 DEF Counted
  <2>2. CASE NotCounted
    <3>1. v5'.completed = 0 /\ v5'.valid = 0 /\ v5'.invalid = 0
      BY <2>2, <1>2, RunBounds DEF NotCounted, Validation!NoCounters
    <3>2. \A d \in Chunks : ChunkAt(d) \in {"idle", "queued", "validated"} \/ (ChunkAt(d) = "done" /\ Got(d) = Validation!Nothing)
      BY <2>2 DEF NotCounted
    <3>3. Completed = {}
      BY <3>2 DEF Completed
    <3>4. ASSUME NEW field \in {"valid", "invalid"} PROVE InCounter(field) = {}
      <4>1. SUFFICES ASSUME NEW p \in Chunks \X (1..MaxSize), ChunkAt(p[1]) \in Past(field), p[2] <= Got(p[1])[field] PROVE FALSE
        BY InCounterIs
      <4>2. Got(p[1]) = Validation!Nothing
        BY <4>1, <3>2 DEF Past
      <4>3. Got(p[1])[field] = 0 /\ p[2] \in Int /\ p[2] >= 1
        BY <4>2 DEF Validation!Nothing
      <4>4. QED
        BY <4>1, <4>3
    <3>5. QED
      BY <3>1, <3>3, <3>4, <1>4, <1>5, FS_EmptySet DEF Counted
  <2>3. QED
    BY <2>1, <2>2, <1>3, StillUnreported
<1>9. UnreportedInv' /\ ReportedInv'
  BY <1>1, <1>3, <1>5, <1>8, StillUnreported DEF UnreportedInv, ReportedInv
<1>10. QED
  BY <1>7, <1>9 DEF QuietInv

\* A chunk past the keys has counters, and right ones.
LEMMA CountersThere ==
  ASSUME RunTypes, QuietInv, NEW c \in Chunks, ChunkAt(c) \in {"keys", "valid", "invalid", "last"}
  PROVE  /\ Counted /\ \A k \in {"valid", "invalid", "completed"} : v5[k] \in Nat
         /\ Got(c) # Validation!Nothing
<1>1. Counted
  BY StillUnreported DEF NotCounted
<1>2. \A k \in {"valid", "invalid", "completed"} : v5[k] \in Nat
  BY <1>1, SetsCounted, FS_CardinalityType DEF Counted
<1>3. QED
  BY <1>1, <1>2 DEF QuietInv, ChunkInv

LEMMA AddQuiet ==
  ASSUME RunTypes, Quiet, QuietInv, NEW w \in Validation!Deliverers,
         Validation!AddValid(w) \/ Validation!AddInvalid(w)
  PROVE  QuietInv'
<1> DEFINE c == w[1]
<1>1. PICK field \in {"valid", "invalid"}, from \in {"keys", "valid"}, to \in {"valid", "invalid"} :
        /\ field = "valid" <=> from = "keys"
        /\ field = to
        /\ Validation!Increment(w, from, field, v4[w][field], to)
  BY DEF Validation!AddValid, Validation!AddInvalid
<1>2. v3[w] = from /\ UNCHANGED <<v4, v6>>
  BY <1>1 DEF Validation!Increment
<1>3. w = <<c, 1>> /\ c \in Chunks /\ ChunkAt(c) = from /\ Got(c) = v4[w]
  <2> DEFINE b == IF v4[w][field] > 0 /\ v5[field] = Validation!Missing THEN "failed" ELSE to
  <2>1. Validation!GoTo(w, b)
    BY <1>1 DEF Validation!Increment
  <2> HIDE DEF b
  <2>2. QED
    BY <1>2, <2>1, QuietMove
<1> HIDE DEF c
<1>4. Counted /\ (\A k \in {"valid", "invalid", "completed"} : v5[k] \in Nat)
  BY <1>3, CountersThere
<1>5. v5[field] # Validation!Missing
  BY <1>4, RunBounds
<1>6. Validation!GoTo(w, to) /\ v5' = [v5 EXCEPT ![field] = @ + Got(c)[field]]
  BY <1>1, <1>3, <1>5 DEF Validation!Increment
<1>7. ChunkAt(c)' = to /\ \A d \in Chunks \ {c} : ChunkAt(d)' = ChunkAt(d)
  BY <1>2, <1>6, QuietMove DEF c
<1>8. \A d : Got(d)' = Got(d)
  BY <1>2 DEF Got
<1>9. Completed' = Completed
  BY <1>2, <1>3, <1>7, SameCompleted
<1>10. ASSUME NEW other \in {"valid", "invalid"}, other # field PROVE InCounter(other)' = InCounter(other)
  <2>1. to \in Past(other) <=> from \in Past(other)
    BY <1>1, <1>10 DEF Past
  <2>2. QED
    BY <2>1, <1>2, <1>3, <1>7, SameCounted
<1>11. Cardinality(InCounter(field)') = Cardinality(InCounter(field)) + Got(c)[field]
  <2> DEFINE n == Got(c)[field]
             S == InCounter(field)
             T == {c} \X (1..n)
  <2>1. n \in Nat /\ n <= MaxSize
    BY <1>3, GotIs, RunBounds
  <2>2. from \notin Past(field) /\ to \in Past(field)
    BY <1>1 DEF Past
  <2>3. \A p \in S : p[1] # c
    BY <2>2, <1>3, InCounterIs
  <2>4. InCounter(field)' = {p \in Chunks \X (1..MaxSize) : ChunkAt(p[1])' \in Past(field) /\ p[2] <= Got(p[1])'[field]}
    BY DEF InCounter, Past
  <2>5. S = {p \in Chunks \X (1..MaxSize) : ChunkAt(p[1]) \in Past(field) /\ p[2] <= Got(p[1])[field]}
    BY InCounterIs
  <2> HIDE DEF S
  <2>6. InCounter(field)' = S \cup T
    <3>1. ASSUME NEW p \in InCounter(field)' PROVE p \in S \cup T
      <4>1. p \in Chunks \X (1..MaxSize) /\ ChunkAt(p[1])' \in Past(field) /\ p[2] <= Got(p[1])[field]
        BY <2>4, <1>8
      <4>2. CASE p[1] = c
        <5>1. p = <<p[1], p[2]>> /\ p[2] \in 1..MaxSize
          BY <4>1
        <5>2. p[2] \in 1..n
          BY <5>1, <4>1, <4>2, <2>1
        <5>3. QED
          BY <5>1, <5>2, <4>2
      <4>3. CASE p[1] # c
        BY <4>1, <4>3, <1>7, <2>5
      <4>4. QED
        BY <4>2, <4>3
    <3>2. ASSUME NEW p \in S PROVE p \in InCounter(field)'
      BY <2>3, <2>4, <2>5, <1>7, <1>8
    <3>3. ASSUME NEW p \in T PROVE p \in InCounter(field)'
      <4>1. p[1] = c /\ p[2] \in 1..n /\ p = <<p[1], p[2]>>
        OBVIOUS
      <4>2. p[2] \in 1..MaxSize /\ p[2] <= n
        BY <4>1, <2>1, RunBounds
      <4>3. p \in Chunks \X (1..MaxSize)
        BY <4>1, <4>2, <1>3
      <4>4. QED
        BY <4>1, <4>2, <4>3, <2>2, <2>4, <1>7, <1>8
    <3>4. QED
      BY <3>1, <3>2, <3>3
  <2>7. IsFiniteSet(S)
    BY SetsCounted DEF S
  <2> HIDE DEF T, n
  <2>8. T = {c} \X (1..n)
    BY DEF T
  <2>9. Cardinality(S \cup T) = Cardinality(S) + n
    BY <2>1, <2>3, <2>7, <2>8, Added
  <2>10. QED
    BY <2>6, <2>9 DEF S, n
<1>12. Counted'
  <2>1. Cardinality(InCounter(field)) \in Nat /\ Got(c)[field] \in Nat
    BY SetsCounted, FS_CardinalityType, <1>3, GotIs, RunBounds
  <2>2. v5'[field] = Cardinality(InCounter(field)')
    BY <1>4, <1>6, <1>11, CountersAre DEF Counted
  <2>3. \A k \in {"valid", "invalid", "completed"} : k # field => v5'[k] = v5[k]
    BY <1>6, CountersAre
  <2>4. v5'.completed = Cardinality(Completed)
    BY <2>3, <1>4 DEF Counted
  <2>5. \A other \in {"valid", "invalid"} : v5'[other] = Cardinality(InCounter(other)')
    <3>1. ASSUME NEW other \in {"valid", "invalid"}, other # field PROVE v5'[other] = Cardinality(InCounter(other)')
      BY <3>1, <2>3, <1>4, <1>10 DEF Counted
    <3>2. QED
      BY <3>1, <2>2
  <2>6. QED
    BY <2>4, <2>5, <1>9 DEF Counted
<1>13. ChunkInv'
  BY <1>3, <1>7, <1>8 DEF ChunkInv, QuietInv
<1>14. UnreportedInv' /\ ReportedInv'
  BY <1>2, <1>3, <1>7, <1>9, <1>12, StillUnreported DEF UnreportedInv, ReportedInv
<1>15. QED
  BY <1>13, <1>14 DEF QuietInv

LEMMA CompleteQuiet ==
  ASSUME RunTypes, Quiet, QuietInv, NEW w \in Validation!Deliverers, Validation!Complete(w)
  PROVE  QuietInv'
<1> DEFINE c == w[1]
           to == IF v5.completed + 1 < Cardinality(Chunks) THEN "done" ELSE "last"
<1>1. Validation!Increment(w, "invalid", "completed", 1, to)
  BY SameCardinality DEF Validation!Complete
<1>2. v3[w] = "invalid" /\ UNCHANGED <<v4, v6>>
  BY <1>1 DEF Validation!Increment
<1>3. w = <<c, 1>> /\ c \in Chunks /\ ChunkAt(c) = "invalid"
  <2> DEFINE b == IF 1 > 0 /\ v5.completed = Validation!Missing THEN "failed" ELSE to
  <2>1. Validation!GoTo(w, b)
    BY <1>1 DEF Validation!Increment
  <2> HIDE DEF b
  <2>2. QED
    BY <1>2, <2>1, QuietMove
<1> HIDE DEF c
<1>4. Counted /\ (\A k \in {"valid", "invalid", "completed"} : v5[k] \in Nat) /\ Got(c) # Validation!Nothing
  BY <1>3, CountersThere
<1>5. v5.completed # Validation!Missing
  BY <1>4, RunBounds
<1>6. Validation!GoTo(w, to) /\ v5' = [v5 EXCEPT !.completed = @ + 1]
  BY <1>1, <1>5 DEF Validation!Increment
<1>7. ChunkAt(c)' = to /\ \A d \in Chunks \ {c} : ChunkAt(d)' = ChunkAt(d)
  BY <1>2, <1>6, QuietMove DEF c
<1>8. \A d : Got(d)' = Got(d)
  BY <1>2 DEF Got
<1>9. \A field \in {"valid", "invalid"} : InCounter(field)' = InCounter(field)
  BY <1>2, <1>3, <1>7, SameCounted DEF Past
<1>10. Completed' = Completed \cup {c} /\ c \notin Completed
  BY <1>3, <1>4, <1>7, <1>8 DEF Completed
<1>11. Cardinality(Completed') = Cardinality(Completed) + 1 /\ Cardinality(Completed) \in Nat
  BY <1>10, SetsCounted, FS_AddElement, FS_CardinalityType
<1>12. Counted'
  <2>1. v5'.completed = v5.completed + 1 /\ v5'.valid = v5.valid /\ v5'.invalid = v5.invalid
    BY <1>6, CountersAre
  <2>2. v5'.completed = Cardinality(Completed')
    BY <2>1, <1>4, <1>11 DEF Counted
  <2>3. \A field \in {"valid", "invalid"} : v5'[field] = Cardinality(InCounter(field)')
    BY <2>1, <1>4, <1>9 DEF Counted
  <2>4. QED
    BY <2>2, <2>3 DEF Counted
<1>13. to = "last" => Completed' = Chunks
  <2>1. SUFFICES ASSUME to = "last" PROVE Completed' = Chunks
    OBVIOUS
  <2>2. Cardinality(Chunks) \in Nat
    BY RunBounds, FS_CardinalityType
  <2>3. ~(v5.completed + 1 < Cardinality(Chunks))
    BY <2>1
  <2>4. Cardinality(Completed') >= Cardinality(Chunks)
    BY <1>4, <1>11, <2>2, <2>3 DEF Counted
  <2>5. Completed' \subseteq Chunks
    BY <1>10, <1>3 DEF Completed
  <2>6. Cardinality(Completed') <= Cardinality(Chunks)
    BY <2>5, RunBounds, FS_Subset
  <2>7. Cardinality(Completed') = Cardinality(Chunks)
    BY <2>2, <2>4, <2>6, <1>11
  <2>8. QED
    BY <2>5, <2>7, RunBounds, FS_Subset
<1>14. \A d \in Chunks : ChunkAt(d) # "last"
  BY <1>3, <1>10, StillUnreported
<1>15. ChunkInv'
  BY <1>3, <1>4, <1>7, <1>8 DEF ChunkInv, QuietInv
<1>16. \A d \in Chunks : ChunkAt(d)' = "last" => d = c /\ to = "last"
  BY <1>7, <1>14
<1>17. v6' = <<>> /\ \A d \in Chunks : ChunkAt(d)' # "emitted"
  BY <1>2, <1>3, <1>7, StillUnreported
<1>18. UnreportedInv' /\ ReportedInv'
  BY <1>12, <1>13, <1>16, <1>17 DEF UnreportedInv, ReportedInv
<1>19. QED
  BY <1>15, <1>18 DEF QuietInv

\* The job that reports has the counts of all chunks.
LEMMA ReportQuiet ==
  ASSUME RunTypes, Quiet, QuietInv, NEW w \in Validation!Deliverers, Validation!Report(w)
  PROVE  QuietInv'
<1> DEFINE c == w[1]
           event == [valid |-> Validation!OrZero(v5.valid), invalid |-> Validation!OrZero(v5.invalid), state |-> "queued"]
<1>1. v3[w] = "last" /\ UNCHANGED <<v4, v5>> /\ v6' = Append(v6, event) /\ Validation!GoTo(w, "emitted")
  BY DEF Validation!Report
<1> HIDE DEF event
<1>2. /\ c \in Chunks /\ ChunkAt(c) = "last" /\ ChunkAt(c)' = "emitted"
      /\ \A d \in Chunks \ {c} : ChunkAt(d)' = ChunkAt(d)
  BY <1>1, QuietMove
<1> HIDE DEF c
<1>3. v6 = <<>> /\ Completed = Chunks /\ \A d \in Chunks \ {c} : ChunkAt(d) # "last"
  BY <1>2, StillUnreported
<1>4. \A d \in Chunks : ChunkAt(d) \in {"last", "done"}
  BY <1>3 DEF Completed
<1>5. Counted /\ v5.valid \in Nat /\ v5.invalid \in Nat
  BY <1>2, CountersThere
<1>6. event.valid = v5.valid /\ event.invalid = v5.invalid
  BY <1>5, RunBounds DEF event, Validation!OrZero
<1>7. \A field \in {"valid", "invalid"} : v5[field] = Validation!Total(field)
  <2>1. SUFFICES ASSUME NEW field \in {"valid", "invalid"} PROVE v5[field] = Validation!Total(field)
    OBVIOUS
  <2>2. \A d \in Chunks : ChunkAt(d) \in Past(field)
    BY <1>4 DEF Past
  <2>3. InCounter(field) = Validation!Found(field)
    BY <2>2, InCounterIs DEF Validation!Found, Got
  <2>4. QED
    BY <2>3, <1>5, SameCardinality DEF Counted, Validation!Total
<1>8. \A field : Validation!Total(field)' = Validation!Total(field)
  <2>1. \A field : Validation!Found(field)' = Validation!Found(field)
    BY <1>1 DEF Validation!Found
  <2>2. QED
    BY <2>1, SameCardinality DEF Validation!Total
<1>9. v6' = <<event>> /\ Len(v6') = 1 /\ v6'[1] = event
  BY <1>1, <1>3
<1>10. \A d \in Chunks : ChunkAt(d)' \in {"emitted", "done"}
  BY <1>2, <1>3, <1>4
<1>11. \A d : Got(d)' = Got(d)
  BY <1>1 DEF Got
<1>12. ChunkInv'
  BY <1>2, <1>11 DEF ChunkInv, QuietInv
<1>13. \A field \in {"valid", "invalid"} : v6'[1][field] = Validation!Total(field)'
  BY <1>6, <1>7, <1>8, <1>9
<1>14. v6' # <<>>
  BY <1>9
<1>15. ReportedInv'
  BY <1>9, <1>10, <1>13 DEF ReportedInv
<1>16. QED
  BY <1>12, <1>14, <1>15 DEF QuietInv, UnreportedInv

LEMMA SameTotals == ASSUME UNCHANGED v4 PROVE \A field : Validation!Total(field)' = Validation!Total(field)
<1>1. \A field : Validation!Found(field)' = Validation!Found(field)
  BY DEF Validation!Found
<1>2. QED
  BY <1>1, SameCardinality DEF Validation!Total

LEMMA DeleteQuiet ==
  ASSUME RunTypes, Quiet, QuietInv, NEW w \in Validation!Deliverers, Validation!DeleteKeys(w)
  PROVE  QuietInv'
<1> DEFINE c == w[1]
<1>1. v3[w] = "emitted" /\ UNCHANGED <<v4, v6>> /\ Validation!GoTo(w, "done")
  BY DEF Validation!DeleteKeys
<1>2. /\ c \in Chunks /\ ChunkAt(c) = "emitted" /\ ChunkAt(c)' = "done"
      /\ \A d \in Chunks \ {c} : ChunkAt(d)' = ChunkAt(d)
  BY <1>1, QuietMove
<1> HIDE DEF c
<1>3. v6 # <<>>
  BY <1>2 DEF QuietInv, UnreportedInv
<1>4. \A d : Got(d)' = Got(d)
  BY <1>1 DEF Got
<1>5. ChunkInv'
  BY <1>2, <1>4 DEF ChunkInv, QuietInv
<1>6. ReportedInv'
  BY <1>1, <1>2, <1>3, SameTotals DEF QuietInv, ReportedInv
<1>7. QED
  BY <1>1, <1>3, <1>5, <1>6 DEF QuietInv, UnreportedInv

LEMMA SendQuiet ==
  ASSUME RunTypes, Quiet, QuietInv, NEW i \in DOMAIN v6, Validation!Send(i)
  PROVE  QuietInv'
<1>1. UNCHANGED <<v3, v4, v5>>
  BY DEF Validation!Send
<1>2. PICK s \in {"sent", "lost"} : v6' = [v6 EXCEPT ![i].state = s]
  BY DEF Validation!Send
<1> DEFINE R == [valid : Nat, invalid : Nat, state : {"queued", "sent", "lost"}]
<1>3. v6 \in Seq(R)
  BY DEF RunTypes
<1> HIDE DEF R
<1>4. i \in 1..Len(v6) /\ v6[i] \in R /\ Len(v6) \in Nat
  BY <1>3
<1>5. v6' = [v6 EXCEPT ![i] = [v6[i] EXCEPT !.state = s]]
  BY <1>2
<1>6. [v6[i] EXCEPT !.state = s].valid = v6[i].valid /\ [v6[i] EXCEPT !.state = s].invalid = v6[i].invalid
  BY <1>4 DEF R
<1>7. v6 # <<>> /\ v6' # <<>> /\ Len(v6') = Len(v6)
  BY <1>3, <1>4, <1>5
<1>8. Len(v6) = 1 /\ i = 1
  BY <1>4, <1>7 DEF QuietInv, ReportedInv
<1>9. v6'[1].valid = v6[1].valid /\ v6'[1].invalid = v6[1].invalid
  BY <1>3, <1>4, <1>5, <1>6, <1>8
<1>10. ReportedInv'
  BY <1>1, <1>7, <1>8, <1>9, SameTotals DEF QuietInv, ReportedInv, ChunkAt
<1>11. ChunkInv'
  BY <1>1 DEF QuietInv, ChunkInv, ChunkAt, Got
<1>12. QED
  BY <1>7, <1>10, <1>11 DEF QuietInv, UnreportedInv

LEMMA OtherQuiet ==
  ASSUME RunTypes, Quiet, QuietInv, UNCHANGED <<v3, v4, v5, v6>>
  PROVE  QuietInv'
<1>1. \A field : InCounter(field)' = InCounter(field)
  BY DEF InCounter, ChunkAt, Got
<1>2. Completed' = Completed
  BY DEF Completed, ChunkAt, Got
<1>3. ChunkInv'
  BY DEF QuietInv, ChunkInv, ChunkAt, Got
<1>4. Counted => Counted'
  BY <1>1, <1>2 DEF Counted
<1>5. NotCounted => NotCounted'
  BY DEF NotCounted, ChunkAt, Got
<1>6. UnreportedInv'
  BY <1>2, <1>4, <1>5 DEF QuietInv, UnreportedInv, ChunkAt
<1>7. ReportedInv'
  BY SameTotals DEF QuietInv, ReportedInv, ChunkAt
<1>8. QED
  BY <1>3, <1>6, <1>7 DEF QuietInv

LEMMA NextRunInv == ASSUME RunInv, Validation!Next PROVE RunInv'
<1>1. RunTypes /\ RunTypes'
  BY NextRunTypes DEF RunInv
<1>2. SUFFICES ASSUME Quiet' PROVE QuietInv'
  BY <1>1 DEF RunInv, QuietInv
<1>3. ASSUME NEW c \in Chunks, Validation!Redeliver(c) PROVE FALSE
  BY <1>2, <1>3, <1>1 DEF Validation!Redeliver, Quiet, RunTypes
<1>4. ASSUME Validation!Expire PROVE FALSE
  <2>1. v7'.expired = v7.expired + 1 /\ v7.expired \in Nat
    BY <1>4, <1>1 DEF Validation!Expire, RunTypes
  <2>2. QED
    BY <2>1, <1>2 DEF Quiet
<1>5. ASSUME UNCHANGED v7 PROVE Quiet /\ QuietInv
  BY <1>2, <1>5 DEF Quiet, RunInv, QuietInv
<1>6. ASSUME NEW c \in Chunks, Validation!DeleteRecords(c) PROVE QuietInv'
  <2>1. UNCHANGED <<v3, v4, v5, v6>> /\ v7' = [v7 EXCEPT !.deleted = @ \cup {c}]
    BY <1>6 DEF Validation!DeleteRecords
  <2>2. v7'.again = v7.again /\ v7'.expired = v7.expired
    BY <2>1, <1>1 DEF RunTypes
  <2>3. Quiet /\ QuietInv
    BY <2>2, <1>2 DEF Quiet, RunInv, QuietInv
  <2>4. QED
    BY <1>1, <2>1, <2>3, OtherQuiet
<1>7. ASSUME Validation!CreateJobs \/ Validation!StopQueueing PROVE QuietInv'
  <2>1. UNCHANGED <<v3, v4, v5, v6, v7>>
    BY <1>7 DEF Validation!CreateJobs, Validation!StopQueueing
  <2>2. QED
    BY <1>1, <1>5, <2>1, OtherQuiet
<1>8. ASSUME NEW c \in Chunks, Validation!QueueNext(c) \/ Validation!QueueByHand(c) PROVE QuietInv'
  <2>1. UNCHANGED v7
    BY <1>8 DEF Validation!QueueNext, Validation!QueueByHand
  <2>2. QED
    BY <1>1, <1>5, <1>8, <2>1, QueueQuiet
<1>9. ASSUME NEW w \in Validation!Deliverers, Validation!Work(w) PROVE QuietInv'
  <2>1. UNCHANGED v7
    BY <1>9 DEF Validation!Work, Validation!Validate, Validation!AddKeys, Validation!AddValid, Validation!AddInvalid,
       Validation!Complete, Validation!Report, Validation!DeleteKeys, Validation!Increment
  <2>2. QED
    BY <1>1, <1>5, <1>9, <2>1, ValidateQuiet, KeysQuiet, AddQuiet, CompleteQuiet, ReportQuiet, DeleteQuiet
       DEF Validation!Work
<1>10. ASSUME NEW i \in DOMAIN v6, Validation!Send(i) PROVE QuietInv'
  <2>1. UNCHANGED v7
    BY <1>10 DEF Validation!Send
  <2>2. QED
    BY <1>1, <1>5, <1>10, <2>1, SendQuiet
<1>11. QED
  BY <1>3, <1>4, <1>6, <1>7, <1>8, <1>9, <1>10 DEF Validation!Next

LEMMA InitRunInv == ASSUME Validation!Init PROVE RunInv
<1>1. v3 = [w \in Validation!Deliverers |-> "idle"] /\ v4 = [w \in Validation!Deliverers |-> Validation!Nothing] /\ v6 = <<>>
  BY DEF Validation!Init
<1>2. v5 = Validation!NoCounters /\ v7 = [deleted |-> {}, again |-> {}, expired |-> 0] /\ v1 = "new"
  BY DEF Validation!Init
<1>3. \A c \in Chunks : ChunkAt(c) = "idle" /\ Got(c) = Validation!Nothing /\ v3[<<c, 2>>] = "idle"
  BY <1>1, RunBounds DEF ChunkAt, Got
<1>4. Validation!Nothing \in Sizes /\ "idle" \in ChunkSteps
  BY RunBounds DEF Validation!Nothing, Sizes, ChunkSteps
<1>5. v2 \in [Chunks -> Sizes]
  BY DEF Validation!Init, Sizes
<1>6. v5 \in [valid : Counter, invalid : Counter, completed : Counter] /\ v5.completed = -1
  BY <1>2, RunBounds DEF Validation!NoCounters, Counter
<1>7. v6 \in Seq([valid : Nat, invalid : Nat, state : {"queued", "sent", "lost"}])
  BY <1>1
<1>8. v5.completed <= Cardinality(Through)
  <2>1. Cardinality(Through) \in Nat
    BY SetsCounted, FS_CardinalityType
  <2>2. QED
    BY <1>6, <2>1
<1>9. RunTypes
  BY <1>1, <1>2, <1>3, <1>4, <1>5, <1>6, <1>7, <1>8 DEF RunTypes
<1>10. ChunkInv /\ UnreportedInv /\ ReportedInv
  BY <1>1, <1>2, <1>3 DEF ChunkInv, UnreportedInv, ReportedInv, NotCounted
<1>11. QED
  BY <1>9, <1>10 DEF RunInv

LEMMA ReportsRight == ASSUME RunInv PROVE Validation!ReportIsRight /\ Validation!TypeOK
<1>1. Validation!ReportIsRight
  <2>1. SUFFICES ASSUME Quiet
                 PROVE  Len(v6) <= 1 /\ \A i \in DOMAIN v6 : \A field \in {"valid", "invalid"} : v6[i][field] = Validation!Total(field)
    BY DEF Validation!ReportIsRight, Quiet
  <2>2. CASE v6 = <<>>
    BY <2>2
  <2>3. CASE v6 # <<>>
    <3>1. Len(v6) = 1 /\ \A field \in {"valid", "invalid"} : v6[1][field] = Validation!Total(field)
      BY <2>1, <2>3 DEF RunInv, ReportedInv
    <3>2. DOMAIN v6 = 1..Len(v6)
      BY DEF RunInv, RunTypes
    <3>3. QED
      BY <3>1, <3>2
  <2>4. QED
    BY <2>2, <2>3
<1>2. Validation!TypeOK
  <2>1. v5.completed <= Cardinality(Through)
    BY DEF RunInv, RunTypes
  <2>2. Validation!Cardinality({w \in Validation!Deliverers : v3[w] \in {"last", "emitted", "done", "failed"}}) = Cardinality(Through)
    BY SameCardinality DEF Through
  <2>3. QED
    BY <2>1, <2>2 DEF Validation!TypeOK, RunInv, RunTypes, ChunkSteps
<1>3. QED
  BY <1>1, <1>2

-----------------------------------------------------------------------------
(* The types of BatchIdentity: identity errors and those a validation has in  *)
(* its hands are about records that the check found alike.                    *)
FoundAlike(r) == \E s \in Records \ {r} : job.read[s] = job.read[r] /\ job.read[r] # Blank

SharedInv == job.at = "marking" => \A r \in Records : Alike(r) => FoundAlike(r)

ErrorInv ==
  \A r \in Records :
    \/ "identity" \in rec[r].errors
    \/ check.at = "read" /\ check.rec = r /\ "identity" \in check.errors
    \/ Between(r)
    => FoundAlike(r)

IdentityTypes == IInv /\ pushed \subseteq Records /\ edits \in 0..MaxEdits /\ SharedInv /\ ErrorInv

LEMMA InitIdentityTypes == Init => IdentityTypes
<1> SUFFICES ASSUME Init PROVE IdentityTypes
  OBVIOUS
<1>1. job.at = "loaded" /\ check = NoCheck /\ \A r \in Records : rec[r].errors = {}
  BY DEF Init
<1>2. SharedInv /\ ErrorInv
  BY <1>1 DEF SharedInv, ErrorInv, Between, NoCheck
<1>3. IInv /\ pushed = {} /\ edits = 0
  BY InitIInv DEF Init
<1>4. QED
  BY <1>2, <1>3, IdentityAssumption DEF IdentityTypes

\* The check: what it read does not change.
LEMMA CheckTypes ==
  ASSUME IdentityTypes, Collect \/ Complete \/ Stop \/ \E r \in Records : Mark(r)
  PROVE  SharedInv' /\ ErrorInv'
<1>1. check' = check /\ check = NoCheck
  BY DEF Collect, Complete, Stop, Mark, IdentityTypes, IInv, CheckInv
<1>2. CASE Collect
  <2>1. job.at = "loaded" /\ rec' = rec /\ job'.read = [r \in Records |-> rec[r].value]
    BY <1>2 DEF Collect
  <2>2. \A r \in Records : rec'[r].errors = {}
    BY <2>1 DEF IdentityTypes, IInv, LoadedInv
  <2>3. ErrorInv'
    BY <1>1, <2>2 DEF ErrorInv, Between, NoCheck
  <2>4. job'.shared = {rec[r].value : r \in {s \in {q \in Records : rec[q].value # Blank} : \E t \in Records : t # s /\ Same(s, t)}}
    BY <1>2 DEF Collect
  <2>5. \A r \in Records : Alike(r)' => FoundAlike(r)'
    <3>1. SUFFICES ASSUME NEW r \in Records, job'.read[r] \in job'.shared
                   PROVE  \E s \in Records \ {r} : job'.read[s] = job'.read[r] /\ job'.read[r] # Blank
      BY DEF Alike, FoundAlike
    <3>2. PICK s \in Records : /\ rec[r].value = rec[s].value /\ rec[s].value # Blank
                               /\ \E t \in Records : t # s /\ Same(s, t)
      BY <2>1, <2>4, <3>1
    <3>3. PICK t \in Records : t # s /\ Same(s, t)
      BY <3>2
    <3>4. rec[t].value = rec[r].value /\ rec[s].value = rec[r].value /\ (t # r \/ s # r)
      BY <3>2, <3>3 DEF Same
    <3>5. QED
      BY <3>2, <3>3, <3>4, <2>1
  <2>6. QED
    BY <2>3, <2>5 DEF SharedInv
<1>3. CASE \E r \in Records : Mark(r)
  <2>1. PICK r \in Records : Mark(r)
    BY <1>3
  <2>2. job.at = "marking" /\ job' = [job EXCEPT !.todo = @ \ {r}]
    BY <2>1 DEF Mark
  <2>3. job = [at |-> "marking", todo |-> job.todo, shared |-> job.shared, read |-> job.read]
    BY <2>2 DEF IdentityTypes, IInv, JobType
  <2>4. job'.at = "marking" /\ job'.shared = job.shared /\ job'.read = job.read
    BY <2>2, <2>3
  <2>5. \A s \in Records : FoundAlike(s)' <=> FoundAlike(s)
    BY <2>4 DEF FoundAlike
  <2>6. SharedInv'
    BY <2>2, <2>4, <2>5 DEF SharedInv, Alike, IdentityTypes
  <2>7. ASSUME NEW s \in Records, "identity" \in rec'[s].errors PROVE FoundAlike(s)
    <3>1. CASE s = r /\ Alike(r)
      BY <2>2, <3>1 DEF IdentityTypes, SharedInv
    <3>2. CASE ~(s = r /\ Alike(r))
      <4>1. rec'[s] = rec[s]
        BY <2>1, <3>2 DEF Mark, Alike, IdentityTypes, IInv
      <4>2. QED
        BY <4>1, <2>7 DEF IdentityTypes, ErrorInv
    <3>3. QED
      BY <3>1, <3>2
  <2>8. ErrorInv'
    BY <1>1, <2>5, <2>7 DEF ErrorInv, Between, NoCheck
  <2>9. QED
    BY <2>6, <2>8
<1>4. CASE Complete \/ Stop
  <2>1. rec' = rec /\ job'.at # "marking"
    BY <1>4 DEF Complete, Stop, IdentityTypes, IInv, JobType
  <2>2. job.at = "loaded" \/ job'.read = job.read
    BY <1>4 DEF Complete, Stop, IdentityTypes, IInv, JobType
  <2>3. ASSUME NEW s \in Records, "identity" \in rec'[s].errors PROVE FoundAlike(s)'
    BY <2>1, <2>2, <2>3 DEF IdentityTypes, ErrorInv, FoundAlike, IInv, LoadedInv
  <2>4. QED
    BY <1>1, <2>1, <2>3 DEF SharedInv, ErrorInv, Between, NoCheck
<1>5. QED
  BY <1>2, <1>3, <1>4

\* After the check: no step finds a record alike that the check did not.
LEMMA OpenTypes ==
  ASSUME IdentityTypes, UNCHANGED job, job.at # "marking",
         \A r \in Records :
           /\ "identity" \in rec'[r].errors => "identity" \in rec[r].errors \/ Between(r)
           /\ check'.at = "read" /\ check'.rec = r /\ "identity" \in check'.errors =>
                \/ "identity" \in rec[r].errors
                \/ check.at = "read" /\ check.rec = r /\ "identity" \in check.errors
           /\ Between(r)' => Between(r) \/ (check.at = "read" /\ check.rec = r /\ "identity" \in check.errors)
  PROVE  SharedInv' /\ ErrorInv'
<1>1. \A r \in Records : FoundAlike(r)' <=> FoundAlike(r)
  BY DEF FoundAlike
<1>2. QED
  BY <1>1 DEF SharedInv, ErrorInv, IdentityTypes

LEMMA ValidationTypes ==
  ASSUME IdentityTypes, (\E r \in Records : Validate(r)) \/ SaveResult \/ SaveIdentity \/ Die
  PROVE  SharedInv' /\ ErrorInv'
<1>1. UNCHANGED job /\ job.at = "complete"
  BY DEF Validate, Listed, SaveResult, SaveIdentity, Die, IdentityTypes, IInv, CheckInv, NoCheck
<1>2. CASE \E r \in Records : Validate(r)
  BY <1>1, <1>2, OpenTypes DEF Validate, Between
<1>3. CASE SaveResult
  <2>1. /\ check.rec \in Records
        /\ check = [at |-> "read", rec |-> check.rec, errors |-> check.errors]
    BY <1>3 DEF SaveResult, IdentityTypes, IInv, CheckInv, NoCheck
  <2>2. \A r \in Records : "identity" \in rec'[r].errors => "identity" \in rec[r].errors
    BY <1>3, <2>1 DEF SaveResult, IdentityTypes, IInv, Rows
  <2>3. \/ check' = NoCheck
        \/ "identity" \in check.errors /\ check' = [at |-> "between", rec |-> check.rec, errors |-> check.errors]
    BY <1>3, <2>1 DEF SaveResult
  <2>4. QED
    BY <1>1, <2>1, <2>2, <2>3, OpenTypes DEF Between, NoCheck
<1>4. CASE SaveIdentity
  <2>1. check.at = "between" /\ check' = NoCheck
    BY <1>4 DEF SaveIdentity
  <2>2. \A r \in Records : "identity" \in rec'[r].errors => "identity" \in rec[r].errors \/ Between(r)
    BY <1>4 DEF SaveIdentity, IdentityTypes, IInv, Rows, Between
  <2>3. QED
    BY <1>1, <2>1, <2>2, OpenTypes DEF Between, NoCheck
<1>5. CASE Die
  <2>1. rec' = rec /\ check' = NoCheck
    BY <1>5 DEF Die
  <2>2. QED
    BY <1>1, <2>1, OpenTypes DEF Between, NoCheck
<1>6. QED
  BY <1>2, <1>3, <1>4, <1>5

LEMMA EditTypes ==
  ASSUME IdentityTypes,
         Invalidate \/ \E r \in Records, v \in Values \cup {Blank} : SubmitForm(r, v) \/ MassUpdate(r, v) \/ Rewrite(r, v)
  PROVE  SharedInv' /\ ErrorInv'
<1>1. CASE Invalidate
  <2>1. UNCHANGED <<job, check>> /\ \A r \in Records : rec'[r].errors \in {rec[r].errors, {"data_checker"}}
    BY <1>1 DEF Invalidate, IdentityTypes, IInv, Rows
  <2>2. \A r \in Records : "identity" \in rec'[r].errors => "identity" \in rec[r].errors
    BY <2>1
  <2>3. \A r \in Records : FoundAlike(r)' <=> FoundAlike(r)
    BY <2>1 DEF FoundAlike
  <2>4. SharedInv'
    BY <2>1, <2>3 DEF SharedInv, Alike, IdentityTypes
  <2>5. ErrorInv'
    BY <2>1, <2>2, <2>3 DEF ErrorInv, Between, IdentityTypes
  <2>6. QED
    BY <2>4, <2>5
<1>2. ASSUME NEW r \in Records, NEW v \in Values \cup {Blank}, SubmitForm(r, v) \/ MassUpdate(r, v) \/ Rewrite(r, v)
      PROVE  SharedInv' /\ ErrorInv'
  <2>1. job.at = "complete" /\ UNCHANGED job /\ (check' = check \/ check' = NoCheck)
    BY <1>2 DEF SubmitForm, MassUpdate, Rewrite, Edit, Listed
  <2>2. \A s \in Records : "identity" \in rec'[s].errors => "identity" \in rec[s].errors
    BY <1>2 DEF SubmitForm, MassUpdate, Rewrite, IdentityTypes, IInv, Rows
  <2>3. QED
    BY <2>1, <2>2, OpenTypes DEF Between, NoCheck
<1>3. QED
  BY <1>1, <1>2

LEMMA NextIdentityTypes == IdentityTypes /\ [Next]_vars => IdentityTypes'
<1> SUFFICES ASSUME IdentityTypes, [Next]_vars PROVE IdentityTypes'
  OBVIOUS
<1>1. IInv'
  BY NextIInv DEF IdentityTypes
<1>2. pushed' \subseteq Records /\ edits' \in 0..MaxEdits
  <2>1. pushed' = pushed \/ \E S \in SUBSET Records : pushed' = pushed \cup S
    BY DEF Next, vars, Collect, Mark, Complete, Stop, Validate, SaveResult, SaveIdentity, Die, SubmitForm, MassUpdate,
       Rewrite, Edit, Invalidate, Push
  <2>2. edits' = edits \/ (edits < MaxEdits /\ edits' = edits + 1)
    BY DEF Next, vars, Collect, Mark, Complete, Stop, Validate, SaveResult, SaveIdentity, Die, SubmitForm, MassUpdate,
       Rewrite, Edit, Invalidate, Push
  <2>3. QED
    BY <2>1, <2>2, IdentityAssumption DEF IdentityTypes
<1>3. SharedInv' /\ ErrorInv'
  <2>1. ASSUME UNCHANGED <<rec, job, check>> PROVE SharedInv' /\ ErrorInv'
    BY <2>1 DEF SharedInv, ErrorInv, Alike, FoundAlike, Between, IdentityTypes
  <2>2. QED
    BY <2>1, CheckTypes, ValidationTypes, EditTypes DEF Next, vars, Push
<1>4. QED
  BY <1>1, <1>2, <1>3 DEF IdentityTypes

LEMMA IdentityTyped == ASSUME IdentityTypes PROVE TypeOK
<1>1. job.at \in {"loaded", "marking", "complete", "stopped"}
  BY DEF IdentityTypes, IInv, JobType
<1>2. check.at \in {"none", "read", "between"}
  BY DEF IdentityTypes, IInv, CheckInv, NoCheck
<1>3. \A r \in Records : "identity" \in rec[r].errors =>
        \E s \in Records \ {r} : job.read[s] = job.read[r] /\ job.read[r] # Blank
  BY DEF IdentityTypes, ErrorInv, FoundAlike
<1>4. QED
  BY <1>1, <1>2, <1>3 DEF IdentityTypes, IInv, TypeOK, Rows

-----------------------------------------------------------------------------
(* The types of Reprocess.                                                   *)
BatchTypes ==
  /\ v1 \in [Batches -> [Again!Roles -> Nat]] /\ v2 \in [People -> Again!PartOf]
  /\ v3 \in [Batches -> {"no", "valid", "invalid"}] /\ v4 \in [People -> BOOLEAN]
  /\ v5 \subseteq Batches /\ v8 \subseteq Batches /\ v9 \subseteq Batches /\ v10 \subseteq v5
  /\ \A b \in Batches : v6[b].todo # {} => v6[b].at = "individuals"

\* A job does to the job variable of its batch this, and the rest is typed.
LEMMA TodoStep ==
  ASSUME Again!JobType, BatchTypes, NEW b \in Batches, NEW new, v6' = [v6 EXCEPT ![b] = new],
         new.todo # {} => new.at = "individuals"
  PROVE  \A a \in Batches : v6'[a].todo # {} => v6'[a].at = "individuals"
BY DEF Again!JobType, BatchTypes

LEMMA ResolvedTypes ==
  ASSUME BatchTypes, NEW b \in Batches
  PROVE  Again!Rebuilt(b) \in [Again!Roles -> Nat] /\ Again!Synced(b) \in [Again!Roles -> Nat]
<1>1. v1[b] \in [Again!Roles -> Nat] /\ Sheets[b] \in [Again!Roles -> Nat] /\ 0 \in Nat /\ People \subseteq Nat
  BY BatchFacts DEF BatchTypes
<1>2. Again!Rebuilt(b) \in [Again!Roles -> Nat]
  BY <1>1 DEF Again!Rebuilt, Again!Nobody
<1>3. Again!SyncRdi(b) \in [Again!Roles -> Nat]
  <2>1. Again!LiveOf(b) \in SUBSET People
    BY DEF Again!LiveOf, Again!OwnOf
  <2>2. \A ref : Again!RowAmong(Again!LiveOf(b), ref) \in Nat
    BY <1>1, <2>1, RowNames
  <2>3. QED
    BY <1>1, <2>2 DEF Again!SyncRdi, Again!RowOf, Again!Nobody
<1>4. Again!SyncKobo(b) \in [Again!Roles -> Nat]
  <2>1. SUFFICES ASSUME NEW r \in Again!Roles, Again!With(b, r) # {} PROVE Again!Lowest(Again!With(b, r)) \in Nat
    BY <1>1 DEF Again!SyncKobo
  <2>2. Again!With(b, r) \in SUBSET Nat
    BY <1>1 DEF Again!With, Again!Members
  <2>3. QED
    BY <2>1, <2>2, LowestIsOne
<1>5. QED
  BY <1>2, <1>3, <1>4 DEF Again!Synced

LEMMA JobTypes ==
  ASSUME Again!JobType, BatchTypes, NEW b \in Batches,
         \/ Again!Request(b) \/ Again!Begin(b) \/ Again!ProcessHousehold(b) \/ Again!SyncRefs(b)
         \/ Again!Transform(b) \/ Again!Schedule(b) \/ Again!Raise(b) \/ Again!Die(b)
  PROVE  BatchTypes'
<1>1. v6[b] \in JobSet /\ DOMAIN v6 = Batches /\ (v6[b].todo # {} => v6[b].at = "individuals")
  BY JobIs DEF Again!JobType, BatchTypes
<1>2. ASSUME NEW new, v6' = [v6 EXCEPT ![b] = new], new.todo # {} => new.at = "individuals",
             v1' \in [Batches -> [Again!Roles -> Nat]], v2' = v2, v3' \in [Batches -> {"no", "valid", "invalid"}],
             v4' \in [People -> BOOLEAN], v5' = v5, v8' \subseteq Batches, v9' \subseteq Batches, v10' \subseteq v5
      PROVE  BatchTypes'
  BY <1>2, TodoStep DEF BatchTypes
<1>3. CASE Again!Request(b)
  <2>1. PICK m \in Again!Offered : v6' = [v6 EXCEPT ![b] = [Again!Idle EXCEPT !.at = "queued", !.mapping = m]]
    BY <1>3 DEF Again!Request
  <2>2. [Again!Idle EXCEPT !.at = "queued", !.mapping = m].todo = {}
    BY DEF Again!Idle
  <2>3. QED
    BY <1>2, <1>3, <2>1, <2>2 DEF Again!Request, BatchTypes
<1>4. CASE Again!Begin(b)
  <2> DEFINE new == [v6[b] EXCEPT !.at = "households", !.household = b \notin v5]
  <2>1. v6' = [v6 EXCEPT ![b] = new] /\ v6[b].at = "queued"
    BY <1>1, <1>4 DEF Again!Begin
  <2>2. new.todo = {}
    BY <1>1, <2>1 DEF JobSet
  <2> HIDE DEF new
  <2>3. QED
    BY <1>2, <1>4, <2>1, <2>2 DEF Again!Begin, BatchTypes
<1>5. CASE Again!ProcessHousehold(b)
  <2> DEFINE new == [v6[b] EXCEPT !.at = "individuals", !.todo = Again!LiveOf(b)]
  <2>1. v6' = [v6 EXCEPT ![b] = new]
    BY <1>1, <1>5 DEF Again!ProcessHousehold, Again!Individuals
  <2>2. new.at = "individuals"
    BY <1>1 DEF JobSet
  <2> HIDE DEF new
  <2>3. v1' \in [Batches -> [Again!Roles -> Nat]] /\ v3' \in [Batches -> {"no", "valid", "invalid"}]
    BY <1>5, ResolvedTypes DEF Again!ProcessHousehold, BatchTypes
  <2>4. QED
    BY <1>2, <1>5, <2>1, <2>2, <2>3 DEF Again!ProcessHousehold, BatchTypes
<1>6. CASE Again!SyncRefs(b)
  <2> DEFINE new == [v6[b] EXCEPT !.at = "transform"]
  <2>1. v6' = [v6 EXCEPT ![b] = new] /\ v6[b].at = "refs"
    BY <1>1, <1>6 DEF Again!SyncRefs
  <2>2. new.todo = {}
    BY <1>1, <2>1 DEF JobSet
  <2> HIDE DEF new
  <2>3. v1' \in [Batches -> [Again!Roles -> Nat]]
    BY <1>6, ResolvedTypes DEF Again!SyncRefs, BatchTypes
  <2>4. QED
    BY <1>2, <1>6, <2>1, <2>2, <2>3 DEF Again!SyncRefs, BatchTypes
<1>7. CASE Again!Transform(b)
  <2> DEFINE new == [v6[b] EXCEPT !.at = "validate"]
  <2>1. v6' = [v6 EXCEPT ![b] = new] /\ v6[b].at = "transform"
    BY <1>1, <1>7 DEF Again!Transform
  <2>2. new.todo = {}
    BY <1>1, <2>1 DEF JobSet
  <2> HIDE DEF new
  <2>3. v3' \in [Batches -> {"no", "valid", "invalid"}] /\ v4' \in [People -> BOOLEAN]
    <3>1. v3' \in [Batches -> {"no", "valid", "invalid"}]
      BY <1>7 DEF Again!Transform, BatchTypes
    <3>2. \E S : v4' = [i \in People |-> v4[i] /\ i \notin S]
      BY <1>7 DEF Again!Transform
    <3>3. QED
      BY <3>1, <3>2
  <2>4. QED
    BY <1>2, <1>7, <2>1, <2>2, <2>3 DEF Again!Transform, BatchTypes
<1>8. CASE Again!Schedule(b)
  <2>1. Again!Idle.todo = {}
    BY DEF Again!Idle
  <2>2. v8' \subseteq Batches /\ v6' = [v6 EXCEPT ![b] = Again!Idle]
    BY <1>8 DEF Again!Schedule, BatchTypes
  <2>3. QED
    BY <1>2, <1>8, <2>1, <2>2 DEF Again!Schedule, BatchTypes
<1>9. CASE Again!Raise(b) \/ Again!Die(b)
  <2>1. UNCHANGED <<v1, v2, v3, v4, v5, v8, v9, v10>>
    BY <1>9 DEF Again!Raise, Again!Die
  <2>2. CASE Again!Raise(b)
    <3>1. v6' = [v6 EXCEPT ![b] = [Again!Idle EXCEPT !.at = "failed"]]
      BY <2>2 DEF Again!Raise
    <3>2. [Again!Idle EXCEPT !.at = "failed"].todo = {}
      BY DEF Again!Idle
    <3>3. QED
      BY <1>2, <2>1, <3>1, <3>2 DEF BatchTypes
  <2>3. CASE Again!Die(b)
    <3> DEFINE new == [Again!Idle EXCEPT !.at = "queued", !.mapping = v6[b].mapping]
    <3>1. v6' = [v6 EXCEPT ![b] = new]
      BY <2>3 DEF Again!Die
    <3>2. new.todo = {}
      BY DEF Again!Idle
    <3> HIDE DEF new
    <3>3. QED
      BY <1>2, <2>1, <3>1, <3>2 DEF BatchTypes
  <2>4. QED
    BY <1>9, <2>2, <2>3
<1>10. QED
  BY <1>3, <1>4, <1>5, <1>6, <1>7, <1>8, <1>9

LEMMA PersonTypes ==
  ASSUME Again!JobType, BatchTypes, NEW b \in Batches, Again!ProcessIndividual(b)
  PROVE  BatchTypes'
<1>1. v6[b] \in JobSet /\ DOMAIN v6 = Batches /\ v6[b].at = "individuals" /\ UNCHANGED <<v1, v3, v5, v8, v9, v10>>
  BY JobIs DEF Again!JobType, Again!ProcessIndividual
<1>2. CASE v6[b].todo = {}
  <2> DEFINE new == [v6[b] EXCEPT !.at = "refs"]
  <2>1. v6' = [v6 EXCEPT ![b] = new] /\ UNCHANGED <<v2, v4>>
    BY <1>1, <1>2 DEF Again!ProcessIndividual
  <2>2. new.todo = {}
    BY <1>1, <1>2 DEF JobSet
  <2> HIDE DEF new
  <2>3. QED
    BY <1>1, <2>1, <2>2, TodoStep DEF BatchTypes
<1>3. CASE v6[b].todo # {}
  <2> DEFINE i == Again!Lowest(v6[b].todo)
             new == [v6[b] EXCEPT !.todo = @ \ {i}]
  <2>1. v6' = [v6 EXCEPT ![b] = new] /\ v2' = [v2 EXCEPT ![i] = Again!Enforced(@, Again!Processed(b, i))]
        /\ v4' = [v4 EXCEPT ![i] = FALSE]
    BY <1>1, <1>3 DEF Again!ProcessIndividual
  <2>2. i \in People /\ v6[b].mapping \in Again!Offered
    BY <1>1, <1>3, LowestIsOne, BatchFacts DEF JobSet
  <2>3. new.at = "individuals"
    BY <1>1 DEF JobSet
  <2> HIDE DEF i, new
  <2>4. Again!Processed(b, i) \in Again!PartOf
    <3>1. v6[b].mapping = NoMapping \/ v6[b].mapping \in Mappings
      BY <2>2 DEF Again!Offered
    <3>2. RawParts[i] \in Again!PartOf /\ \A m \in Mappings : MappedParts[m][i] \in Again!PartOf
      BY <2>2, BatchFacts
    <3>3. QED
      BY <3>1, <3>2 DEF Again!Processed
  <2>5. v2[i] \in Again!PartOf
    BY <2>2 DEF BatchTypes
  <2>6. Again!Enforced(v2[i], Again!Processed(b, i)) \in Again!PartOf
    <3>1. \A old, n \in Again!PartOf : Again!Enforced(old, n) \in Again!PartOf
      BY DEF Again!Enforced, Again!PartOf
    <3>2. QED
      BY <3>1, <2>4, <2>5
  <2>7. v2' \in [People -> Again!PartOf]
    BY <2>1, <2>2, <2>6 DEF BatchTypes
  <2>8. v4' \in [People -> BOOLEAN]
    BY <2>1 DEF BatchTypes
  <2>9. QED
    BY <1>1, <2>1, <2>3, <2>7, <2>8, TodoStep DEF BatchTypes
<1>4. QED
  BY <1>2, <1>3

LEMMA MarkTypes ==
  ASSUME Again!JobType, BatchTypes, NEW b \in Batches,
         Again!ValidateNow(b) \/ Again!ValidateBatch(b) \/ Again!Push(b) \/ Edited!Edit(b)
  PROVE  BatchTypes'
<1>1. UNCHANGED <<v2, v6>>
  BY DEF Again!ValidateNow, Again!ValidateBatch, Again!Push, Edited!Edit
<1>2. CASE Again!ValidateNow(b) \/ Again!ValidateBatch(b)
  <2>1. v3' = [v3 EXCEPT ![b] = Again!Checked(b, v1[b])] /\ v4' = [i \in People |-> v4[i] \/ i \in Again!Family(b, v1[b])]
        /\ UNCHANGED <<v1, v5, v9, v10>> /\ v8' \subseteq v8
    BY <1>2 DEF Again!ValidateNow, Again!ValidateBatch
  <2>2. v3' \in [Batches -> {"no", "valid", "invalid"}]
    BY <2>1 DEF Again!Checked, BatchTypes
  <2>3. v4' \in [People -> BOOLEAN]
    BY <2>1
  <2>4. QED
    BY <1>1, <2>1, <2>2, <2>3 DEF BatchTypes
<1>3. CASE Again!Push(b)
  BY <1>1, <1>3 DEF Again!Push, BatchTypes
<1>4. CASE Edited!Edit(b)
  <2>1. PICK r \in Edited!Roles, i \in Edited!Choices(b) :
          /\ v1' = [v1 EXCEPT ![b] = [v1[b] EXCEPT ![r] = i]]
          /\ v3' = [v3 EXCEPT ![b] = Edited!Checked(b, [v1[b] EXCEPT ![r] = i])]
          /\ v4' = [j \in People |-> v4[j] \/ j \in Edited!Family(b, [v1[b] EXCEPT ![r] = i])]
    BY <1>4 DEF Edited!Edit
  <2>2. i \in Nat
    BY BatchFacts DEF Edited!Choices, Edited!LiveOf, Edited!OwnOf
  <2>3. v1' \in [Batches -> [Again!Roles -> Nat]]
    BY <2>1, <2>2 DEF BatchTypes
  <2>4. v3' \in [Batches -> {"no", "valid", "invalid"}]
    BY <2>1 DEF Edited!Checked, BatchTypes
  <2>5. v4' \in [People -> BOOLEAN]
    BY <2>1
  <2>6. v9' = v9 \cup {b} /\ UNCHANGED <<v5, v8, v10>>
    BY <1>4 DEF Edited!Edit
  <2>7. QED
    BY <1>1, <2>3, <2>4, <2>5, <2>6 DEF BatchTypes
<1>5. QED
  BY <1>2, <1>3, <1>4

LEMMA EditPersonTypes ==
  ASSUME BatchTypes, NEW i \in People, Edited!EditPerson(i)
  PROVE  BatchTypes'
<1>1. UNCHANGED <<v1, v3, v5, v6, v8, v10>> /\ v9' = v9 \cup {BatchOf[i]} /\ v4' = [v4 EXCEPT ![i] = TRUE]
  BY DEF Edited!EditPerson
<1>2. PICK p \in TypedParts : v2' = [v2 EXCEPT ![i] = p]
  BY DEF Edited!EditPerson
<1>3. p \in Again!PartOf
  BY BoundsAssumption DEF Again!ReprocessAssumption
<1>4. v2' \in [People -> Again!PartOf]
  BY <1>2, <1>3 DEF BatchTypes
<1>5. v4' \in [People -> BOOLEAN]
  BY <1>1 DEF BatchTypes
<1>6. QED
  BY <1>1, <1>4, <1>5, BatchFacts DEF BatchTypes

LEMMA NextAgainTypes == ASSUME Again!JobType, BatchTypes, Again!Next PROVE BatchTypes'
<1>1. ~(\E b \in Batches : Again!Edit(b)) /\ ~(\E i \in People : Again!EditPerson(i))
  BY DEF Again!Edit, Again!EditPerson
<1>2. QED
  BY <1>1, JobTypes, PersonTypes, MarkTypes DEF Again!Next

\* The two instances differ in who works.
LEMMA EditedSteps ==
  ASSUME NEW b \in Batches
  PROVE  /\ Edited!Request(b) => Again!Request(b)
         /\ Edited!Begin(b) => Again!Begin(b)
         /\ Edited!ProcessHousehold(b) => Again!ProcessHousehold(b)
         /\ Edited!ProcessIndividual(b) => Again!ProcessIndividual(b)
         /\ Edited!SyncRefs(b) => Again!SyncRefs(b)
         /\ Edited!Transform(b) => Again!Transform(b)
         /\ Edited!Schedule(b) => Again!Schedule(b)
         /\ Edited!ValidateBatch(b) => Again!ValidateBatch(b)
         /\ ~Edited!Raise(b) /\ ~Edited!Die(b) /\ ~Edited!ValidateNow(b) /\ ~Edited!Push(b)
<1>1. Edited!Idle = Again!Idle /\ Edited!Offered = Again!Offered /\ Edited!Individuals(b) = Again!Individuals(b)
      /\ Edited!LiveOf(b) = Again!LiveOf(b)
  BY DEF Edited!Idle, Again!Idle, Edited!Offered, Again!Offered, Edited!Individuals, Again!Individuals,
    Edited!LiveOf, Again!LiveOf, Edited!OwnOf, Again!OwnOf, Edited!Removed, Again!Removed
<1>2. Edited!Rebuilt(b) = Again!Rebuilt(b) /\ Edited!Synced(b) = Again!Synced(b)
  <2>1. \A r : Edited!With(b, r) = Again!With(b, r)
    BY DEF Edited!With, Again!With, Edited!Members, Again!Members, Edited!Removed, Again!Removed
  <2>2. \A S : Edited!Lowest(S) = Again!Lowest(S)
    BY DEF Edited!Lowest, Again!Lowest
  <2>3. Edited!SyncKobo(b) = Again!SyncKobo(b)
    BY <2>1, <2>2 DEF Edited!SyncKobo, Again!SyncKobo, Edited!Roles, Again!Roles
  <2>4. \A S, ref : Edited!RowAmong(S, ref) = Again!RowAmong(S, ref)
    BY DEF Edited!RowAmong, Again!RowAmong, Edited!Nobody, Again!Nobody
  <2>5. Edited!SyncRdi(b) = Again!SyncRdi(b)
    BY <1>1, <2>4 DEF Edited!SyncRdi, Again!SyncRdi, Edited!RowOf, Again!RowOf, Edited!Nobody, Again!Nobody, Edited!Roles, Again!Roles
  <2>6. Edited!Rebuilt(b) = Again!Rebuilt(b)
    BY DEF Edited!Rebuilt, Again!Rebuilt, Edited!Kept, Again!Kept, Edited!Nobody, Again!Nobody, Edited!Roles, Again!Roles
  <2>7. QED
    BY <2>3, <2>5, <2>6 DEF Edited!Synced, Again!Synced
<1>3. \A i : Edited!Processed(b, i) = Again!Processed(b, i)
  BY DEF Edited!Processed, Again!Processed
<1>4. /\ \A old, new : Edited!Enforced(old, new) = Again!Enforced(old, new)
      /\ \A S : Edited!Lowest(S) = Again!Lowest(S)
  BY DEF Edited!Enforced, Again!Enforced, Edited!Lowest, Again!Lowest
<1>5. \A rs : Edited!Checked(b, rs) = Again!Checked(b, rs) /\ Edited!Family(b, rs) = Again!Family(b, rs)
  BY DEF Edited!Checked, Again!Checked, Edited!Complete, Again!Complete, Edited!Family, Again!Family,
    Edited!Members, Again!Members, Edited!Nobody, Again!Nobody
<1>6. (Edited!Request(b) => Again!Request(b)) /\ (Edited!Begin(b) => Again!Begin(b))
  BY <1>1 DEF Edited!Request, Again!Request, Edited!Begin, Again!Begin
<1>7. Edited!ProcessHousehold(b) => Again!ProcessHousehold(b)
  BY <1>1, <1>2 DEF Edited!ProcessHousehold, Again!ProcessHousehold
<1>8. Edited!ProcessIndividual(b) => Again!ProcessIndividual(b)
  BY <1>3, <1>4 DEF Edited!ProcessIndividual, Again!ProcessIndividual
<1>9. (Edited!SyncRefs(b) => Again!SyncRefs(b)) /\ (Edited!Transform(b) => Again!Transform(b))
  BY <1>1, <1>2 DEF Edited!SyncRefs, Again!SyncRefs, Edited!Transform, Again!Transform
<1>10. (Edited!Schedule(b) => Again!Schedule(b)) /\ (Edited!ValidateBatch(b) => Again!ValidateBatch(b))
  BY <1>1, <1>5 DEF Edited!Schedule, Again!Schedule, Edited!ValidateBatch, Again!ValidateBatch, Edited!Running, Again!Running
<1>11. ~Edited!Raise(b) /\ ~Edited!Die(b) /\ ~Edited!ValidateNow(b) /\ ~Edited!Push(b)
  BY DEF Edited!Raise, Edited!Die, Edited!ValidateNow, Edited!Push
<1>12. QED
  BY <1>6, <1>7, <1>8, <1>9, <1>10, <1>11

LEMMA NextEditedTypes == ASSUME Edited!JobType, BatchTypes, Edited!Next PROVE BatchTypes'
<1>1. Again!JobType
  BY DEF Again!JobType, Edited!JobType, Again!Steps, Edited!Steps, Again!Offered, Edited!Offered, Again!OwnOf, Edited!OwnOf
<1>2. QED
  BY <1>1, EditedSteps, JobTypes, PersonTypes, MarkTypes, EditPersonTypes DEF Edited!Next

LEMMA InitBatchTypes == ASSUME Again!Init \/ Edited!Init PROVE BatchTypes
<1>1. ImportedRefs \in [Batches -> [Again!Roles -> Nat]]
  <2>1. ImportedRefs \in [Batches -> [Again!Roles -> People \cup {0}]]
    BY BoundsAssumption DEF Again!ReprocessAssumption, Again!Nobody
  <2>2. People \cup {0} \subseteq Nat
    BY BatchFacts
  <2>3. QED
    BY <2>1, <2>2
<1>2. /\ v1 = ImportedRefs /\ v2 = RawParts /\ v3 = [b \in Batches |-> "no"] /\ v4 = [i \in People |-> FALSE]
      /\ v5 = {} /\ v8 = {} /\ v9 = {} /\ v10 = {} /\ \A b \in Batches : v6[b].todo = {}
  BY DEF Again!Init, Edited!Init, Again!Idle, Edited!Idle
<1>3. QED
  BY <1>1, <1>2, BatchFacts DEF BatchTypes

LEMMA BatchesTyped ==
  ASSUME BatchTypes
  PROVE  (Again!JobType => Again!TypeOK) /\ (Edited!JobType => Edited!TypeOK)
<1>1. Again!JobType => Again!TypeOK
  BY DEF BatchTypes, Again!JobType, Again!TypeOK
<1>2. Edited!JobType => Edited!TypeOK
  BY DEF BatchTypes, Edited!JobType, Edited!TypeOK, Again!Roles, Edited!Roles, Again!PartOf, Edited!PartOf
<1>3. QED
  BY <1>1, <1>2

-----------------------------------------------------------------------------
(* The types of RecordChecks: at most every actor has saved a form.          *)
LEMMA ChecksTyped == ASSUME Checks!ChecksInv PROVE Checks!TypeOK
<1>1. IsFiniteSet(Actors) /\ Checks!Ended \subseteq Actors
  BY BoundsAssumption DEF Checks!RecordAssumption, Checks!IsFiniteSet, IsFiniteSet, Checks!Ended
<1>2. Cardinality(Checks!Ended) <= Cardinality(Actors) /\ Cardinality(Checks!Ended) \in Nat /\ Cardinality(Actors) \in Nat
  BY <1>1, FS_Subset, FS_CardinalityType
<1>3. Checks!Cardinality(Checks!Ended) = Cardinality(Checks!Ended) /\ Checks!Cardinality(Actors) = Cardinality(Actors)
  BY DEF Checks!Cardinality, Cardinality
<1>4. \A r \in Beneficiaries : v1[r].version \in 1..(1 + Cardinality(Actors))
  <2>1. SUFFICES ASSUME NEW r \in Beneficiaries PROVE v1[r].version \in 1..(1 + Cardinality(Actors))
    OBVIOUS
  <2>2. v1[r].version \in 1..(1 + Cardinality(Checks!Ended))
    BY <1>3 DEF Checks!ChecksInv
  <2>3. QED
    BY <2>2, <1>2
<1>5. v1 \in [Beneficiaries -> Checks!Record] /\ \A r \in Beneficiaries : "identity" \in v1[r].errors => r \in Collided
  BY DEF Checks!ChecksInv, Checks!Rows
<1> DEFINE Typed == [data : SUBSET Actors, version : 1..(1 + Cardinality(Actors)), checked : BOOLEAN, errors : SUBSET Checks!Errors]
<1>6. \A r \in Beneficiaries : v1[r] \in Typed
  BY <1>4, <1>5 DEF Checks!Record
<1>7. v1 \in [Beneficiaries -> Typed]
  BY <1>5, <1>6
<1>8. ASSUME NEW w \in Actors
      PROVE  v3[w].op \in {"none"} \cup {"validate", "form", "mass", "regex", "sheet"}
             /\ v3[w].at \in {"new", "read", "members", "done"}
  <2>1. \/ v3[w] \in {Checks!Idle, [Checks!Idle EXCEPT !.at = "done"]}
        \/ \E r \in Beneficiaries : v3[w] \in Checks!AtWork(r)
    BY DEF Checks!ChecksInv
  <2>2. CASE v3[w] \in {Checks!Idle, [Checks!Idle EXCEPT !.at = "done"]}
    BY <2>2 DEF Checks!Idle
  <2>3. CASE \E r \in Beneficiaries : v3[w] \in Checks!AtWork(r)
    BY <2>3 DEF Checks!AtWork
  <2>4. QED
    BY <2>1, <2>2, <2>3
<1>9. QED
  BY <1>3, <1>5, <1>7, <1>8 DEF Checks!TypeOK, Checks!ChecksInv

-----------------------------------------------------------------------------
(* Cleaners.                                                                 *)

\* A sequence of sequences is flattened part by part.
Prefixed(F, ss, n) == \A i \in 1..n : F[i] = IF i = 1 THEN ss[i] ELSE F[i - 1] \o ss[i]

LEMMA SomePrefixes ==
  ASSUME NEW S, NEW ss \in Seq(Seq(S)), NEW n \in 1..Len(ss)
  PROVE  \E F \in [1..n -> Seq(S)] : Prefixed(F, ss, n)
<1> DEFINE Has(k) == \E F \in [1..k -> Seq(S)] : Prefixed(F, ss, k)
           Bad == {k \in 1..Len(ss) : ~Has(k)}
<1>1. \A i \in 1..Len(ss) : ss[i] \in Seq(S)
  OBVIOUS
<1>2. SUFFICES ASSUME ~Has(n) PROVE FALSE
  OBVIOUS
<1>3. Bad # {} /\ Bad \in SUBSET Nat
  BY <1>2
<1>4. PICK k \in Bad : \A m \in Bad : k <= m
  BY <1>3, LeastNumber
<1>5. k \in 1..Len(ss) /\ ~Has(k)
  OBVIOUS
<1>6. CASE k = 1
  <2> DEFINE F == [i \in 1..1 |-> ss[1]]
  <2>1. F \in [1..1 -> Seq(S)]
    BY <1>1, <1>5, <1>6
  <2>2. Prefixed(F, ss, 1)
    BY DEF Prefixed
  <2>3. QED
    BY <1>5, <1>6, <2>1, <2>2
<1>7. CASE k # 1
  <2>1. k - 1 \in 1..Len(ss) /\ ~(k <= k - 1)
    BY <1>5, <1>7
  <2>2. Has(k - 1)
    BY <1>4, <2>1
  <2>3. PICK G \in [1..(k - 1) -> Seq(S)] : Prefixed(G, ss, k - 1)
    BY <2>2
  <2> DEFINE F == [i \in 1..k |-> IF i = k THEN G[k - 1] \o ss[k] ELSE G[i]]
  <2>4. F \in [1..k -> Seq(S)]
    <3>1. G[k - 1] \in Seq(S) /\ ss[k] \in Seq(S)
      BY <1>1, <1>5, <2>1
    <3>2. G[k - 1] \o ss[k] \in Seq(S)
      BY <3>1
    <3>3. \A i \in 1..k : i # k => G[i] \in Seq(S)
      BY <1>5
    <3>4. QED
      BY <3>2, <3>3
  <2>5. Prefixed(F, ss, k)
    <3>1. SUFFICES ASSUME NEW i \in 1..k PROVE F[i] = IF i = 1 THEN ss[i] ELSE F[i - 1] \o ss[i]
      BY DEF Prefixed
    <3>2. CASE i = k
      <4>1. F[k - 1] = G[k - 1]
        BY <1>5, <1>7
      <4>2. QED
        BY <3>2, <4>1, <1>7
    <3>3. CASE i # k
      <4>1. i \in 1..(k - 1) /\ F[i] = G[i] /\ (i # 1 => i - 1 \in 1..k /\ i - 1 # k)
        BY <1>5, <3>3
      <4>2. i # 1 => F[i - 1] = G[i - 1]
        BY <4>1
      <4>3. G[i] = IF i = 1 THEN ss[i] ELSE G[i - 1] \o ss[i]
        BY <2>3, <4>1 DEF Prefixed
      <4>4. QED
        BY <4>1, <4>2, <4>3
    <3>4. QED
      BY <3>2, <3>3
  <2> HIDE DEF F
  <2>6. QED
    BY <1>5, <2>4, <2>5
<1>8. QED
  BY <1>6, <1>7

LEMMA PrefixesAre ==
  ASSUME NEW S, NEW ss \in Seq(Seq(S)), NEW n \in 1..Len(ss), NEW F, Prefixed(F, ss, Len(ss))
  PROVE  F[n] \in Seq(S) /\ (F[n] = <<>> => \A i \in 1..n : ss[i] = <<>>)
<1> DEFINE Good(k) == F[k] \in Seq(S) /\ (F[k] = <<>> => \A i \in 1..k : ss[i] = <<>>)
           Bad == {k \in 1..Len(ss) : ~Good(k)}
<1>1. \A i \in 1..Len(ss) : ss[i] \in Seq(S)
  OBVIOUS
<1>2. SUFFICES ASSUME ~Good(n) PROVE FALSE
  OBVIOUS
<1>3. Bad # {} /\ Bad \in SUBSET Nat
  <2> HIDE DEF Good
  <2>1. n \in Bad
    BY <1>2
  <2>2. 1..Len(ss) \subseteq Nat
    OBVIOUS
  <2>3. QED
    BY <2>1, <2>2
<1>4. PICK k \in Bad : \A m \in Bad : k <= m
  BY <1>3, LeastNumber
<1>5. k \in 1..Len(ss) /\ ~Good(k)
  OBVIOUS
<1>6. F[k] = IF k = 1 THEN ss[k] ELSE F[k - 1] \o ss[k]
  BY <1>5 DEF Prefixed
<1>7. CASE k = 1
  <2>1. F[1] = ss[1] /\ ss[1] \in Seq(S)
    BY <1>1, <1>5, <1>6, <1>7
  <2>2. Good(1)
    BY <2>1
  <2>3. QED
    BY <1>5, <1>7, <2>2
<1>8. CASE k # 1
  <2>1. k - 1 \in 1..Len(ss) /\ ~(k <= k - 1)
    BY <1>5, <1>8
  <2>2. Good(k - 1)
    BY <1>4, <2>1
  <2>3. F[k] = F[k - 1] \o ss[k] /\ F[k - 1] \in Seq(S) /\ ss[k] \in Seq(S)
    BY <1>1, <1>5, <1>6, <1>8, <2>2
  <2>4. F[k] \in Seq(S) /\ (F[k] = <<>> => F[k - 1] = <<>> /\ ss[k] = <<>>)
    BY <2>3
  <2>5. \A i \in 1..k : i = k \/ i \in 1..(k - 1)
    BY <1>5
  <2>6. Good(k)
    BY <2>2, <2>4, <2>5
  <2>7. QED
    BY <1>5, <2>6
<1>9. QED
  BY <1>7, <1>8

LEMMA Flattened ==
  ASSUME NEW S, NEW ss \in Seq(Seq(S))
  PROVE  /\ Updates!FlattenSeq(ss) \in Seq(S)
         /\ Updates!FlattenSeq(ss) = <<>> => \A i \in 1..Len(ss) : ss[i] = <<>>
<1>1. CASE Len(ss) = 0
  BY <1>1 DEF Updates!FlattenSeq
<1>2. CASE Len(ss) # 0
  <2> DEFINE F == CHOOSE F : F = [i \in 1..Len(ss) |-> IF i = 1 THEN ss[i] ELSE F[i - 1] \o ss[i]]
  <2>1. Updates!FlattenSeq(ss) = F[Len(ss)]
    BY <1>2 DEF Updates!FlattenSeq
  <2>2. Len(ss) \in 1..Len(ss)
    BY <1>2
  <2>3. PICK G \in [1..Len(ss) -> Seq(S)] : Prefixed(G, ss, Len(ss))
    BY <2>2, SomePrefixes
  <2>4. G = [i \in 1..Len(ss) |-> IF i = 1 THEN ss[i] ELSE G[i - 1] \o ss[i]]
    BY <2>3 DEF Prefixed
  <2>5. F = [i \in 1..Len(ss) |-> IF i = 1 THEN ss[i] ELSE F[i - 1] \o ss[i]]
    BY <2>4
  <2> HIDE DEF F
  <2>6. Prefixed(F, ss, Len(ss))
    BY <2>5 DEF Prefixed
  <2>7. F[Len(ss)] \in Seq(S) /\ (F[Len(ss)] = <<>> => \A i \in 1..Len(ss) : ss[i] = <<>>)
    BY <2>2, <2>6, PrefixesAre
  <2>8. QED
    BY <2>1, <2>7
<1>3. QED
  BY <1>1, <1>2

\* What the constants of Cleaners are.
LEMMA UpdateFacts ==
  /\ MaxUpdates \in Nat /\ MaxUpdateCrashes \in Nat
  /\ \A f \in Updates!Fields : FieldTypes[f] \in {"text", "bool", "many", "date", "reference", "file"}
  /\ UpperCase \in [Updates!Words -> Updates!Words] /\ LowerCase \in [Updates!Words -> Updates!Words]
  /\ "True" \in Updates!Words /\ "False" \in Updates!Words
  /\ \A w \in Updates!Words : UpperCase[UpperCase[w]] = UpperCase[w] /\ LowerCase[LowerCase[w]] = LowerCase[w]
  /\ \A d \in FirstData : Updates!Stored(d)
  /\ \A f \in Updates!Fields : \A v \in TypedCells[FieldTypes[f]] : v \in Updates!AllValues /\ Updates!Plain(f, v)
  /\ \A c \in UpdateJobs : c.op \in {"mass", "regex", "concatenate", "names", "checksum", "validate"}
                           /\ c.pks \subseteq Updated /\ Updates!Offered(c)
BY BoundsAssumption DEF Updates!CleanersAssumption, Updates!Ops

NoFile == {f \in Updates!Fields : FieldTypes[f] # "file"}

\* What the configurations of the jobs are, by what they do.
LEMMA ConfigFacts ==
  ASSUME NEW c \in UpdateJobs
  PROVE  /\ c.op = "mass" => /\ c.field \in NoFile /\ c.how \in {"set", "set null", "upper", "lower", "toggle"}
                             /\ c.value \in Updates!AllValues /\ Updates!Plain(c.field, c.value)
                             /\ c.how = "toggle" => FieldTypes[c.field] = "bool"
         /\ c.op = "regex" => c.field \in NoFile /\ c.to \in Updates!Words
         /\ c.op = "concatenate" => c.field \in NoFile /\ c.pattern \in Seq(Updates!Fields)
         /\ c.op = "names" => c.source \in NoFile /\ DOMAIN c.fields \subseteq NoFile \ {c.source}
<1>1. Updates!Offered(c)
  BY UpdateFacts
<1>2. QED
  BY <1>1 DEF Updates!Offered, NoFile

\* The data of one record, and what the operations make of it.
RowOK(d) == d \in [Updates!Fields -> Updates!AllValues] /\ \A f \in Updates!Fields : Updates!Fits(f, d[f])

OldOf(c, d) == IF d[c.field] = Updates!Absent THEN Updates!Text(<<>>) ELSE d[c.field]
MassRow(c, d) ==
  IF d[c.field] # Updates!Absent \/ c.create
  THEN [d EXCEPT ![c.field] = Updates!Applied(c, OldOf(c, d))] ELSE d
RegexRow(c, d) ==
  [d EXCEPT ![c.field] = CASE @.type = "str" -> Updates!Text(Updates!Substituted(@.words, c))
                           [] @.type = "absent" -> Updates!Null
                           [] OTHER -> @]
Joined(c, d) == Updates!FlattenSeq([i \in DOMAIN c.pattern |-> d[c.pattern[i]].words])
JoinedRow(c, d) ==
  IF ~(c.onlyEmpty /\ Updates!Truthy(d[c.field])) THEN [d EXCEPT ![c.field] = Updates!Text(Joined(c, d))] ELSE d
NamedRow(c, d) ==
  IF d[c.source].type = "str"
  THEN [f \in Updates!Fields |->
          IF f \in DOMAIN c.fields /\ Updates!Parts(d[c.source].words, c.fields[f]) # <<>>
          THEN Updates!Text(Updates!Parts(d[c.source].words, c.fields[f])) ELSE d[f]]
  ELSE d
CleanRow(d) == [f \in Updates!Fields |-> Updates!Clean(f, d[f])]
TypedRow(c, r, d) ==
  [f \in Updates!Fields |-> IF f \in DOMAIN c.sheet.rows[r] \cap NoFile THEN c.sheet.rows[r][f] ELSE d[f]]

Result(c, r, d) ==
  CASE c.op = "mass" -> MassRow(c, d)
    [] c.op = "regex" -> RegexRow(c, d)
    [] c.op = "concatenate" -> JoinedRow(c, d)
    [] c.op = "names" -> NamedRow(c, d)
    [] c.op = "checksum" -> d
    [] c.op = "validate" -> CleanRow(d)
    [] c.op = "sheet" -> TypedRow(c, r, d)

\* A job that commits makes of every record that is there this.
Written(j, c) ==
  /\ v1' = [r \in Updated |-> IF r \in Updates!Picked(j) THEN Result(c, r, v1[r]) ELSE v1[r]]
  /\ v6' = j /\ v4' = [v4 EXCEPT ![j].at = "committed"] /\ UNCHANGED <<v3, v5, v7>>
  /\ c.op # "names" => \A r \in Updated : v1'[r] = v1[r] \/ v2'[r] = v1'[r]
Failed(j) == v4' = [v4 EXCEPT ![j] = Updates!Ended("failed")] /\ UNCHANGED <<v1, v2, v3, v5, v6, v7>>

LEMMA RunIs ==
  ASSUME NEW j, Updates!Run(j), v1 = [r \in Updated |-> v1[r]]
  PROVE  v4[j].at = "queued" /\ (Written(j, v4[j].config) \/ Failed(j))
<1> DEFINE c == v4[j].config
<1>1. ASSUME Updates!MassUpdate(j) PROVE Written(j, c) \/ Failed(j)
  <2> DEFINE hit == {r \in Updates!Picked(j) : v1[r][c.field] # Updates!Absent \/ c.create}
             Old(r) == IF v1[r][c.field] = Updates!Absent THEN Updates!Text(<<>>) ELSE v1[r][c.field]
  <2>1. c.op = "mass"
    BY <1>1 DEF Updates!MassUpdate, Updates!Runs
  <2>2. CASE Updates!Fail(j)
    BY <2>2 DEF Updates!Fail, Failed
  <2>3. CASE /\ Updates!Commit(j, Updates!Changed(hit, LAMBDA r : [v1[r] EXCEPT ![c.field] = Updates!Applied(c, Old(r))]))
             /\ Updates!Checksums(Updates!Picked(j))
    <3>1. v1' = [r \in Updated |-> IF r \in hit THEN [v1[r] EXCEPT ![c.field] = Updates!Applied(c, Old(r))] ELSE v1[r]]
      BY <2>3 DEF Updates!Commit, Updates!Changed
    <3>2. v1' = [r \in Updated |-> IF r \in Updates!Picked(j) THEN Result(c, r, v1[r]) ELSE v1[r]]
      BY <2>1, <3>1 DEF Result, MassRow, OldOf
    <3>3. \A r \in Updated : v1'[r] = v1[r] \/ v2'[r] = v1'[r]
      BY <2>3, <3>2 DEF Updates!Checksums
    <3>4. QED
      BY <2>3, <3>2, <3>3 DEF Written, Updates!Commit
  <2>4. QED
    BY <1>1, <2>2, <2>3 DEF Updates!MassUpdate
<1>2. ASSUME Updates!RegexUpdate(j) PROVE Written(j, c)
  <2>1. c.op = "regex" /\ Updates!Checksums(Updates!Picked(j))
    BY <1>2 DEF Updates!RegexUpdate, Updates!Runs
  <2>2. v1' = [r \in Updated |-> IF r \in Updates!Picked(j) THEN Updates!RegexRow(c, r) ELSE v1[r]]
    BY <1>2 DEF Updates!RegexUpdate, Updates!Commit, Updates!Changed
  <2>3. v1' = [r \in Updated |-> IF r \in Updates!Picked(j) THEN Result(c, r, v1[r]) ELSE v1[r]]
    BY <2>1, <2>2 DEF Result, RegexRow, Updates!RegexRow
  <2>4. \A r \in Updated : v1'[r] = v1[r] \/ v2'[r] = v1'[r]
    BY <2>1, <2>3 DEF Updates!Checksums
  <2>5. QED
    BY <1>2, <2>3, <2>4 DEF Written, Updates!RegexUpdate, Updates!Commit
<1>3. ASSUME Updates!Concatenate(j) PROVE Written(j, c)
  <2> DEFINE hit == {r \in Updates!Picked(j) : ~(c.onlyEmpty /\ Updates!Truthy(v1[r][c.field]))}
  <2>1. c.op = "concatenate" /\ Updates!Checksums(hit)
    BY <1>3 DEF Updates!Concatenate, Updates!Runs
  <2>2. v1' = [r \in Updated |-> IF r \in hit THEN [v1[r] EXCEPT ![c.field] = Updates!Text(Updates!Pattern(c, r))] ELSE v1[r]]
    BY <1>3 DEF Updates!Concatenate, Updates!Commit, Updates!Changed
  <2>3. v1' = [r \in Updated |-> IF r \in Updates!Picked(j) THEN Result(c, r, v1[r]) ELSE v1[r]]
    BY <2>1, <2>2 DEF Result, JoinedRow, Joined, Updates!Pattern
  <2>4. \A r \in Updated : v1'[r] = v1[r] \/ v2'[r] = v1'[r]
    BY <2>1, <2>2 DEF Updates!Checksums
  <2>5. QED
    BY <1>3, <2>3, <2>4 DEF Written, Updates!Concatenate, Updates!Commit
<1>4. ASSUME Updates!ParseNames(j) PROVE Written(j, c)
  <2> DEFINE hit == {r \in Updates!Picked(j) : v1[r][c.source].type = "str"}
  <2>1. c.op = "names"
    BY <1>4 DEF Updates!ParseNames, Updates!Runs
  <2>2. v1' = [r \in Updated |-> IF r \in hit THEN
           [f \in Updates!Fields |->
             IF f \in DOMAIN c.fields /\ Updates!Parts(v1[r][c.source].words, c.fields[f]) # <<>>
             THEN Updates!Text(Updates!Parts(v1[r][c.source].words, c.fields[f])) ELSE v1[r][f]] ELSE v1[r]]
    BY <1>4 DEF Updates!ParseNames, Updates!Commit, Updates!Changed
  <2>3. v1' = [r \in Updated |-> IF r \in Updates!Picked(j) THEN Result(c, r, v1[r]) ELSE v1[r]]
    BY <2>1, <2>2 DEF Result, NamedRow
  <2>4. QED
    BY <1>4, <2>1, <2>3 DEF Written, Updates!ParseNames, Updates!Commit
<1>5. ASSUME Updates!CalculateChecksum(j) PROVE Written(j, c)
  <2>1. c.op = "checksum" /\ v1' = v1
    BY <1>5 DEF Updates!CalculateChecksum, Updates!Runs, Updates!Commit
  <2>2. v1' = [r \in Updated |-> IF r \in Updates!Picked(j) THEN Result(c, r, v1[r]) ELSE v1[r]]
    BY <2>1 DEF Result
  <2>3. QED
    BY <1>5, <2>1, <2>2 DEF Written, Updates!CalculateChecksum, Updates!Commit
<1>6. ASSUME Updates!Validate(j) PROVE Written(j, c)
  <2>1. c.op = "validate" /\ Updates!Checksums({r \in Updated : v1'[r] # v1[r]})
    BY <1>6 DEF Updates!Validate, Updates!Runs
  <2>2. v1' = [r \in Updated |-> IF r \in Updates!Picked(j) THEN [f \in Updates!Fields |-> Updates!Clean(f, v1[r][f])] ELSE v1[r]]
    BY <1>6 DEF Updates!Validate, Updates!Commit, Updates!Changed
  <2>3. v1' = [r \in Updated |-> IF r \in Updates!Picked(j) THEN Result(c, r, v1[r]) ELSE v1[r]]
    BY <2>1, <2>2 DEF Result, CleanRow
  <2>4. \A r \in Updated : v1'[r] = v1[r] \/ v2'[r] = v1'[r]
    BY <2>1 DEF Updates!Checksums
  <2>5. QED
    BY <1>6, <2>3, <2>4 DEF Written, Updates!Validate, Updates!Commit
<1>7. ASSUME Updates!ImportSheet(j) PROVE Written(j, c) \/ Failed(j)
  <2> DEFINE rows == c.sheet.rows
  <2>1. c.op = "sheet"
    BY <1>7 DEF Updates!ImportSheet, Updates!Runs
  <2>2. CASE Updates!Fail(j)
    BY <2>2 DEF Updates!Fail, Failed
  <2>3. CASE /\ Updates!Commit(j, Updates!Changed(Updates!Picked(j), LAMBDA r : Updates!Merge(r, rows[r], NoFile)))
             /\ Updates!Checksums(Updates!Picked(j))
    <3>1. v1' = [r \in Updated |-> IF r \in Updates!Picked(j) THEN Updates!Merge(r, rows[r], NoFile) ELSE v1[r]]
      BY <2>3 DEF Updates!Commit, Updates!Changed
    <3>2. v1' = [r \in Updated |-> IF r \in Updates!Picked(j) THEN Result(c, r, v1[r]) ELSE v1[r]]
      BY <2>1, <3>1 DEF Result, TypedRow, Updates!Merge
    <3>3. \A r \in Updated : v1'[r] = v1[r] \/ v2'[r] = v1'[r]
      BY <2>3, <3>2 DEF Updates!Checksums
    <3>4. QED
      BY <2>3, <3>2, <3>3 DEF Written, Updates!Commit
  <2>4. QED
    BY <1>7, <2>2, <2>3 DEF Updates!ImportSheet, NoFile
<1>8. v4[j].at = "queued"
  BY DEF Updates!Run, Updates!Runs, Updates!MassUpdate, Updates!RegexUpdate, Updates!Concatenate, Updates!ParseNames,
    Updates!CalculateChecksum, Updates!Validate, Updates!ImportSheet
<1>9. QED
  BY <1>1, <1>2, <1>3, <1>4, <1>5, <1>6, <1>7, <1>8 DEF Updates!Run

\* A function on the first numbers is a sequence.
LEMMA SequenceIs == ASSUME NEW S, NEW n \in Nat, NEW f \in [1..n -> S] PROVE f \in Seq(S)
OBVIOUS

\* A text is a value of every field.
LEMMA TextIs ==
  ASSUME NEW w \in Seq(Updates!Words), NEW f
  PROVE  Updates!Text(w) \in Updates!AllValues /\ Updates!Plain(f, Updates!Text(w))
BY DEF Updates!Text, Updates!AllValues, Updates!Plain

LEMMA BoolIs ==
  ASSUME NEW b \in BOOLEAN, NEW f \in Updates!Fields, FieldTypes[f] = "bool"
  PROVE  Updates!Bool(b) \in Updates!AllValues /\ Updates!Plain(f, Updates!Bool(b))
<1>1. <<IF b THEN "True" ELSE "False">> \in Seq(Updates!Words)
  BY UpdateFacts
<1>2. QED
  BY <1>1 DEF Updates!Bool, Updates!AllValues, Updates!Plain

LEMMA NullIs == ASSUME NEW f PROVE Updates!Null \in Updates!AllValues /\ Updates!Plain(f, Updates!Null)
BY DEF Updates!Null, Updates!AllValues, Updates!Plain

\* The words of a field.
LEMMA WordsIs ==
  ASSUME NEW d, RowOK(d), NEW f \in Updates!Fields
  PROVE  /\ d[f] \in Updates!AllValues /\ d[f].words \in Seq(Updates!Words) /\ Updates!Plain(f, d[f])
         /\ FieldTypes[f] = "file" => d[f].type \in {"file", "absent"}
<1>1. d[f] \in Updates!AllValues
  BY DEF RowOK
<1>2. d[f].words \in Seq(Updates!Words)
  BY <1>1 DEF Updates!AllValues
<1>3. QED
  BY <1>1, <1>2 DEF RowOK, Updates!Fits

\* A field that is no file may have any value that suits it.
LEMMA RowSet ==
  ASSUME NEW d, RowOK(d), NEW f \in NoFile, NEW v \in Updates!AllValues, Updates!Plain(f, v)
  PROVE  RowOK([d EXCEPT ![f] = v])
<1> DEFINE e == [d EXCEPT ![f] = v]
<1>1. e \in [Updates!Fields -> Updates!AllValues]
  BY DEF RowOK
<1>2. ASSUME NEW g \in Updates!Fields PROVE Updates!Fits(g, e[g])
  <2>1. CASE g = f
    BY <2>1 DEF Updates!Fits, NoFile, RowOK
  <2>2. CASE g # f
    <3>1. e[g] = d[g]
      BY <2>2 DEF RowOK
    <3>2. Updates!Fits(g, d[g])
      BY DEF RowOK
    <3>3. QED
      BY <3>1, <3>2
  <2>3. QED
    BY <2>1, <2>2
<1>3. QED
  BY <1>1, <1>2 DEF RowOK

\* What an update in mass sets.
LEMMA AppliedIs ==
  ASSUME NEW c \in UpdateJobs, c.op = "mass", NEW v, v.words \in Seq(Updates!Words)
  PROVE  Updates!Applied(c, v) \in Updates!AllValues /\ Updates!Plain(c.field, Updates!Applied(c, v))
<1>1. /\ c.field \in NoFile /\ c.how \in {"set", "set null", "upper", "lower", "toggle"}
      /\ c.value \in Updates!AllValues /\ Updates!Plain(c.field, c.value)
      /\ c.how = "toggle" => FieldTypes[c.field] = "bool"
  BY ConfigFacts
<1>2. CASE c.how = "set"
  BY <1>1, <1>2 DEF Updates!Applied
<1>3. CASE c.how = "set null"
  BY <1>3, NullIs DEF Updates!Applied
<1>4. CASE c.how = "upper"
  <2>1. [i \in DOMAIN v.words |-> UpperCase[v.words[i]]] \in Seq(Updates!Words)
    <3> DEFINE w == v.words
    <3>1. Len(w) \in Nat /\ DOMAIN w = 1..Len(w) /\ \A i \in 1..Len(w) : w[i] \in Updates!Words
      OBVIOUS
    <3> HIDE DEF w
    <3>2. \A i \in 1..Len(w) : UpperCase[w[i]] \in Updates!Words
      BY <3>1, UpdateFacts
    <3>3. [i \in DOMAIN w |-> UpperCase[w[i]]] \in [1..Len(w) -> Updates!Words]
      BY <3>1, <3>2
    <3>4. [i \in DOMAIN w |-> UpperCase[w[i]]] \in Seq(Updates!Words)
      BY <3>1, <3>3, SequenceIs
    <3>5. QED
      BY <3>4 DEF w
  <2>2. QED
    BY <1>4, <2>1, TextIs DEF Updates!Applied
<1>5. CASE c.how = "lower"
  <2>1. [i \in DOMAIN v.words |-> LowerCase[v.words[i]]] \in Seq(Updates!Words)
    <3> DEFINE w == v.words
    <3>1. Len(w) \in Nat /\ DOMAIN w = 1..Len(w) /\ \A i \in 1..Len(w) : w[i] \in Updates!Words
      OBVIOUS
    <3> HIDE DEF w
    <3>2. \A i \in 1..Len(w) : LowerCase[w[i]] \in Updates!Words
      BY <3>1, UpdateFacts
    <3>3. [i \in DOMAIN w |-> LowerCase[w[i]]] \in [1..Len(w) -> Updates!Words]
      BY <3>1, <3>2
    <3>4. [i \in DOMAIN w |-> LowerCase[w[i]]] \in Seq(Updates!Words)
      BY <3>1, <3>3, SequenceIs
    <3>5. QED
      BY <3>4 DEF w
  <2>2. QED
    BY <1>5, <2>1, TextIs DEF Updates!Applied
<1>6. CASE c.how = "toggle"
  <2>1. Updates!Applied(c, v) = Updates!Bool(~Updates!Truthy(v))
    BY <1>6 DEF Updates!Applied
  <2>2. (~Updates!Truthy(v)) \in BOOLEAN /\ c.field \in Updates!Fields
    BY <1>1 DEF Updates!Truthy, NoFile
  <2>3. QED
    BY <1>1, <1>6, <2>1, <2>2, BoolIs
<1>7. QED
  BY <1>1, <1>2, <1>3, <1>4, <1>5, <1>6

LEMMA OldIs ==
  ASSUME NEW d, RowOK(d), NEW c, c.field \in NoFile
  PROVE  OldOf(c, d).words \in Seq(Updates!Words)
<1>1. c.field \in Updates!Fields
  BY DEF NoFile
<1>2. d[c.field].words \in Seq(Updates!Words)
  BY <1>1, WordsIs
<1>3. QED
  BY <1>2 DEF OldOf, Updates!Text

LEMMA MassTypes ==
  ASSUME NEW d, RowOK(d), NEW c \in UpdateJobs, c.op = "mass"
  PROVE  RowOK(MassRow(c, d))
<1> DEFINE v == Updates!Applied(c, OldOf(c, d))
<1>1. c.field \in NoFile
  BY ConfigFacts
<1>2. v \in Updates!AllValues /\ Updates!Plain(c.field, v)
  BY <1>1, OldIs, AppliedIs
<1> HIDE DEF v
<1>3. RowOK([d EXCEPT ![c.field] = v])
  BY <1>1, <1>2, RowSet
<1>4. QED
  BY <1>3 DEF MassRow, v

LEMMA RegexTypes ==
  ASSUME NEW d, RowOK(d), NEW c \in UpdateJobs, c.op = "regex"
  PROVE  RowOK(RegexRow(c, d))
<1> DEFINE old == d[c.field]
           new == CASE old.type = "str" -> Updates!Text(Updates!Substituted(old.words, c))
                    [] old.type = "absent" -> Updates!Null
                    [] OTHER -> old
<1>1. c.field \in NoFile /\ c.to \in Updates!Words /\ c.field \in Updates!Fields
  BY ConfigFacts DEF NoFile
<1>2. old \in Updates!AllValues /\ old.words \in Seq(Updates!Words) /\ Updates!Plain(c.field, old)
  BY <1>1, WordsIs
<1> HIDE DEF old
<1>3. Updates!Substituted(old.words, c) \in Seq(Updates!Words)
  <2> DEFINE n == Updates!SelectInSeq(old.words, LAMBDA w : w = c.from)
  <2>1. [old.words EXCEPT ![n] = c.to] \in Seq(Updates!Words)
    <3> DEFINE w == old.words
    <3>1. w \in Seq(Updates!Words)
      BY <1>2
    <3> HIDE DEF n, w
    <3>2. Len(w) \in Nat /\ w \in [1..Len(w) -> Updates!Words]
      BY <3>1
    <3>3. [w EXCEPT ![n] = c.to] \in [1..Len(w) -> Updates!Words]
      BY <1>1, <3>2
    <3>4. [w EXCEPT ![n] = c.to] \in Seq(Updates!Words)
      BY <3>2, <3>3, SequenceIs
    <3>5. QED
      BY <3>4 DEF w
  <2>2. QED
    BY <1>2, <2>1 DEF Updates!Substituted
<1>4. new \in Updates!AllValues /\ Updates!Plain(c.field, new)
  BY <1>2, <1>3, TextIs, NullIs
<1>5. RegexRow(c, d) = [d EXCEPT ![c.field] = new]
  BY DEF RegexRow, old
<1> HIDE DEF new
<1>6. RowOK([d EXCEPT ![c.field] = new])
  BY <1>1, <1>4, RowSet
<1>7. QED
  BY <1>5, <1>6

\* The words of the fields that are joined.
LEMMA JoinedIs ==
  ASSUME NEW d, RowOK(d), NEW c, c.pattern \in Seq(Updates!Fields)
  PROVE  /\ Joined(c, d) \in Seq(Updates!Words)
         /\ Joined(c, d) = <<>> => \A i \in DOMAIN c.pattern : d[c.pattern[i]].words = <<>>
<1> DEFINE ss == [i \in DOMAIN c.pattern |-> d[c.pattern[i]].words]
<1>1. \A i \in DOMAIN c.pattern : d[c.pattern[i]].words \in Seq(Updates!Words)
  BY WordsIs
<1>2. ss \in Seq(Seq(Updates!Words)) /\ Len(ss) = Len(c.pattern)
  BY <1>1
<1>3. Joined(c, d) = Updates!FlattenSeq(ss)
  BY DEF Joined
<1>4. \A i \in 1..Len(ss) : i \in DOMAIN c.pattern /\ ss[i] = d[c.pattern[i]].words
  BY <1>2
<1>5. DOMAIN c.pattern = 1..Len(ss)
  BY <1>2
<1> HIDE DEF ss
<1>6. QED
  BY <1>2, <1>3, <1>4, <1>5, Flattened

LEMMA JoinedTypes ==
  ASSUME NEW d, RowOK(d), NEW c \in UpdateJobs, c.op = "concatenate"
  PROVE  RowOK(JoinedRow(c, d))
<1>1. c.field \in NoFile /\ c.pattern \in Seq(Updates!Fields)
  BY ConfigFacts
<1>2. Joined(c, d) \in Seq(Updates!Words)
  BY <1>1, JoinedIs
<1>3. Updates!Text(Joined(c, d)) \in Updates!AllValues /\ Updates!Plain(c.field, Updates!Text(Joined(c, d)))
  BY <1>2, TextIs
<1>4. RowOK([d EXCEPT ![c.field] = Updates!Text(Joined(c, d))])
  BY <1>1, <1>3, RowSet
<1>5. QED
  BY <1>4 DEF JoinedRow

LEMMA NamedTypes ==
  ASSUME NEW d, RowOK(d), NEW c \in UpdateJobs, c.op = "names"
  PROVE  RowOK(NamedRow(c, d))
<1> DEFINE w == d[c.source].words
<1>1. c.source \in Updates!Fields /\ DOMAIN c.fields \subseteq NoFile
  BY ConfigFacts DEF NoFile
<1>2. w \in Seq(Updates!Words)
  BY <1>1, WordsIs
<1> HIDE DEF w
<1>3. \A part : Updates!Parts(w, part) \in Seq(Updates!Words)
  <2> TAKE part
  <2> DEFINE ss == [i \in DOMAIN w |-> IF NameParts[w[i]] = part THEN <<w[i]>> ELSE <<>>]
  <2>1. \A i \in DOMAIN w : (IF NameParts[w[i]] = part THEN <<w[i]>> ELSE <<>>) \in Seq(Updates!Words)
    BY <1>2
  <2>2. ss \in Seq(Seq(Updates!Words))
    <3>1. Len(w) \in Nat /\ DOMAIN w = 1..Len(w)
      BY <1>2
    <3>2. ss \in [1..Len(w) -> Seq(Updates!Words)]
      BY <2>1, <3>1
    <3> HIDE DEF ss
    <3>3. QED
      BY <3>1, <3>2, SequenceIs
  <2>3. Updates!Parts(w, part) = Updates!FlattenSeq(ss)
    BY DEF Updates!Parts
  <2> HIDE DEF ss
  <2>4. QED
    BY <2>2, <2>3, Flattened
<1> DEFINE Row(f) == IF f \in DOMAIN c.fields /\ Updates!Parts(w, c.fields[f]) # <<>>
                     THEN Updates!Text(Updates!Parts(w, c.fields[f])) ELSE d[f]
<1>4. ASSUME NEW f \in Updates!Fields PROVE Row(f) \in Updates!AllValues /\ Updates!Fits(f, Row(f))
  <2>1. CASE f \in DOMAIN c.fields /\ Updates!Parts(w, c.fields[f]) # <<>>
    <3>1. FieldTypes[f] # "file"
      BY <1>1, <2>1 DEF NoFile
    <3>2. Updates!Parts(w, c.fields[f]) \in Seq(Updates!Words)
      BY <1>3
    <3>3. Row(f) = Updates!Text(Updates!Parts(w, c.fields[f]))
      BY <2>1
    <3>4. Row(f) \in Updates!AllValues /\ Updates!Plain(f, Row(f))
      BY <3>2, <3>3, TextIs
    <3> HIDE DEF Row
    <3>5. QED
      BY <3>1, <3>4 DEF Updates!Fits
  <2>2. CASE ~(f \in DOMAIN c.fields /\ Updates!Parts(w, c.fields[f]) # <<>>)
    <3>1. Row(f) = d[f]
      BY <2>2
    <3> HIDE DEF Row
    <3>2. QED
      BY <3>1 DEF RowOK
  <2>3. QED
    BY <2>1, <2>2
<1>5. NamedRow(c, d) = IF d[c.source].type = "str" THEN [f \in Updates!Fields |-> Row(f)] ELSE d
  BY DEF NamedRow, w
<1> HIDE DEF Row
<1>6. RowOK([f \in Updates!Fields |-> Row(f)])
  BY <1>4 DEF RowOK
<1>7. QED
  BY <1>5, <1>6

\* What is valid is kept, or made what it means.
LEMMA CleanIs ==
  ASSUME NEW f \in Updates!Fields, NEW v \in Updates!AllValues, Updates!Fits(f, v)
  PROVE  /\ Updates!Clean(f, v) \in Updates!AllValues /\ Updates!Fits(f, Updates!Clean(f, v))
         /\ Updates!Clean(f, Updates!Clean(f, v)) = Updates!Clean(f, v)
<1>1. v.words \in Seq(Updates!Words) /\ Updates!Plain(f, v) /\ (FieldTypes[f] = "file" => v.type \in {"file", "absent"})
  BY DEF Updates!AllValues, Updates!Fits
<1>2. CASE FieldTypes[f] = "text"
  <2>1. Updates!Clean(f, v) = Updates!Text(v.words) /\ Updates!Clean(f, Updates!Text(v.words)) = Updates!Text(v.words)
    BY <1>2 DEF Updates!Clean, Updates!Text
  <2>2. QED
    BY <1>1, <1>2, <2>1, TextIs DEF Updates!Fits
<1>3. CASE FieldTypes[f] = "bool"
  <2> DEFINE b == ~(v.words = <<>>) /\ v.words # <<"False">>
  <2>1. Updates!Clean(f, v) = Updates!Bool(b)
    BY <1>3 DEF Updates!Clean
  <2>2. Updates!Clean(f, Updates!Bool(b)) = Updates!Bool(~(Updates!Bool(b).words = <<>>) /\ Updates!Bool(b).words # <<"False">>)
    BY <1>3 DEF Updates!Clean
  <2>3. Updates!Bool(b).words = <<IF b THEN "True" ELSE "False">>
    BY DEF Updates!Bool
  <2>4. (~(Updates!Bool(b).words = <<>>) /\ Updates!Bool(b).words # <<"False">>) = b
    <3>1. CASE b
      <4>1. Updates!Bool(b).words = <<"True">>
        BY <2>3, <3>1
      <4>2. <<"True">> # <<>> /\ <<"True">> # <<"False">>
        OBVIOUS
      <4>3. QED
        BY <3>1, <4>1, <4>2
    <3>2. CASE ~b
      <4>1. Updates!Bool(b).words = <<"False">>
        BY <2>3, <3>2
      <4>2. QED
        BY <3>2, <4>1
    <3>3. QED
      BY <3>1, <3>2
  <2>5. Updates!Bool(b) \in Updates!AllValues /\ Updates!Plain(f, Updates!Bool(b))
    BY <1>3, BoolIs
  <2> HIDE DEF b
  <2>6. QED
    BY <1>3, <2>1, <2>2, <2>4, <2>5 DEF Updates!Fits
<1>4. CASE FieldTypes[f] = "many"
  BY <1>1, <1>4 DEF Updates!Clean, Updates!AllValues, Updates!Fits, Updates!Plain
<1>5. CASE FieldTypes[f] \in {"date", "reference"}
  <2>1. CASE v.words = <<>>
    <3>1. Updates!Clean(f, v) = Updates!Null /\ Updates!Clean(f, Updates!Null) = Updates!Null
      BY <1>5, <2>1 DEF Updates!Clean, Updates!Null
    <3>2. QED
      BY <1>5, <3>1, NullIs DEF Updates!Fits
  <2>2. CASE v.words # <<>>
    <3>1. Updates!Clean(f, v) = v
      BY <1>5, <2>2 DEF Updates!Clean
    <3>2. QED
      BY <3>1
  <2>3. QED
    BY <2>1, <2>2
<1>6. CASE FieldTypes[f] = "file"
  <2>1. Updates!Clean(f, v) = v
    BY <1>6 DEF Updates!Clean
  <2>2. QED
    BY <2>1
<1>7. QED
  BY <1>2, <1>3, <1>4, <1>5, <1>6, UpdateFacts

LEMMA CleanTypes ==
  ASSUME NEW d, RowOK(d)
  PROVE  RowOK(CleanRow(d)) /\ CleanRow(CleanRow(d)) = CleanRow(d)
<1>1. ASSUME NEW f \in Updates!Fields
      PROVE  /\ Updates!Clean(f, d[f]) \in Updates!AllValues /\ Updates!Fits(f, Updates!Clean(f, d[f]))
             /\ Updates!Clean(f, Updates!Clean(f, d[f])) = Updates!Clean(f, d[f])
  BY CleanIs DEF RowOK
<1>2. \A f \in Updates!Fields : CleanRow(d)[f] = Updates!Clean(f, d[f])
  BY DEF CleanRow
<1>3. RowOK(CleanRow(d))
  BY <1>1 DEF RowOK, CleanRow
<1>4. CleanRow(CleanRow(d)) = CleanRow(d)
  <2>1. CleanRow(CleanRow(d)) = [f \in Updates!Fields |-> Updates!Clean(f, CleanRow(d)[f])]
    BY DEF CleanRow
  <2>2. \A f \in Updates!Fields : Updates!Clean(f, CleanRow(d)[f]) = Updates!Clean(f, d[f])
    BY <1>1, <1>2
  <2>3. QED
    BY <2>1, <2>2 DEF CleanRow
<1>5. QED
  BY <1>3, <1>4

\* A sheet has rows of records, and texts where nobody typed.
SheetOK(s) ==
  /\ DOMAIN s.rows \subseteq Updated
  /\ \A r \in DOMAIN s.rows :
       /\ DOMAIN s.rows[r] \subseteq Updates!Fields
       /\ \A f \in DOMAIN s.rows[r] : s.rows[r][f] \in Updates!AllValues /\ Updates!Plain(f, s.rows[r][f])
       /\ ~s.edited => \A f \in NoFile : s.rows[r][f] = Updates!Cell(s.base[r][f])

SheetJob(c) == c.op = "sheet" /\ c.pks = DOMAIN c.sheet.rows /\ SheetOK(c.sheet)
ConfigOK(c) == c \in UpdateJobs \/ SheetJob(c)

LEMMA TypedTypes ==
  ASSUME NEW d, RowOK(d), NEW c, SheetJob(c), NEW r \in c.pks
  PROVE  RowOK(TypedRow(c, r, d))
<1> DEFINE row == c.sheet.rows[r]
           New(f) == IF f \in DOMAIN row \cap NoFile THEN row[f] ELSE d[f]
<1>1. \A f \in DOMAIN row : row[f] \in Updates!AllValues /\ Updates!Plain(f, row[f])
  BY DEF SheetJob, SheetOK
<1>2. TypedRow(c, r, d) = [f \in Updates!Fields |-> New(f)]
  BY DEF TypedRow
<1> HIDE DEF row
<1>3. ASSUME NEW f \in Updates!Fields PROVE New(f) \in Updates!AllValues /\ Updates!Fits(f, New(f))
  <2>1. CASE f \in DOMAIN row \cap NoFile
    BY <1>1, <2>1 DEF Updates!Fits, NoFile
  <2>2. CASE ~(f \in DOMAIN row \cap NoFile)
    BY <2>2 DEF RowOK
  <2>3. QED
    BY <2>1, <2>2
<1> HIDE DEF New
<1>4. QED
  BY <1>2, <1>3 DEF RowOK

\* What a job writes suits the fields, and no file is written.
LEMMA ResultTypes ==
  ASSUME NEW c, ConfigOK(c), NEW r \in c.pks, NEW d, RowOK(d)
  PROVE  RowOK(Result(c, r, d))
<1>1. CASE SheetJob(c)
  <2>1. c.op = "sheet"
    BY <1>1 DEF SheetJob
  <2>2. Result(c, r, d) = TypedRow(c, r, d)
    BY <2>1 DEF Result
  <2>3. QED
    BY <1>1, <2>2, TypedTypes
<1>2. CASE c \in UpdateJobs
  <2>1. c.op \in {"mass", "regex", "concatenate", "names", "checksum", "validate"}
    BY <1>2, UpdateFacts
  <2>2. CASE c.op = "mass"
    BY <1>2, <2>2, MassTypes DEF Result
  <2>3. CASE c.op = "regex"
    BY <1>2, <2>3, RegexTypes DEF Result
  <2>4. CASE c.op = "concatenate"
    BY <1>2, <2>4, JoinedTypes DEF Result
  <2>5. CASE c.op = "names"
    BY <1>2, <2>5, NamedTypes DEF Result
  <2>6. CASE c.op = "checksum"
    BY <2>6 DEF Result
  <2>7. CASE c.op = "validate"
    BY <2>7, CleanTypes DEF Result
  <2>8. QED
    BY <2>1, <2>2, <2>3, <2>4, <2>5, <2>6, <2>7
<1>3. QED
  BY <1>1, <1>2 DEF ConfigOK

\* What was set, or put in upper case, is so still when it is done again.
LEMMA AppliedTwice ==
  ASSUME NEW c \in UpdateJobs, c.op = "mass", c.how # "toggle", NEW v, v.words \in Seq(Updates!Words)
  PROVE  /\ Updates!Applied(c, Updates!Applied(c, v)) = Updates!Applied(c, v)
         /\ c.how \in {"upper", "lower"} => Updates!Applied(c, v).type = "str"
<1>1. c.how \in {"set", "set null", "upper", "lower"}
  BY ConfigFacts
<1> DEFINE w == v.words
<1>2. Len(w) \in Nat /\ DOMAIN w = 1..Len(w) /\ \A i \in 1..Len(w) : w[i] \in Updates!Words
  OBVIOUS
<1>3. CASE c.how = "set"
  BY <1>3 DEF Updates!Applied
<1>4. CASE c.how = "set null"
  BY <1>4 DEF Updates!Applied
<1>5. CASE c.how = "upper"
  <2> DEFINE up == [i \in DOMAIN w |-> UpperCase[w[i]]]
  <2>1. Updates!Applied(c, v) = Updates!Text(up)
    BY <1>5 DEF Updates!Applied
  <2>2. Updates!Applied(c, Updates!Text(up)) = Updates!Text([i \in DOMAIN up |-> UpperCase[up[i]]])
    BY <1>5 DEF Updates!Applied, Updates!Text
  <2> HIDE DEF w
  <2>3. [i \in DOMAIN up |-> UpperCase[up[i]]] = up
    BY <1>2, UpdateFacts
  <2>4. Updates!Text(up).type = "str"
    BY DEF Updates!Text
  <2>5. QED
    BY <1>5, <2>1, <2>2, <2>3, <2>4
<1>6. CASE c.how = "lower"
  <2> DEFINE low == [i \in DOMAIN w |-> LowerCase[w[i]]]
  <2>1. Updates!Applied(c, v) = Updates!Text(low)
    BY <1>6 DEF Updates!Applied
  <2>2. Updates!Applied(c, Updates!Text(low)) = Updates!Text([i \in DOMAIN low |-> LowerCase[low[i]]])
    BY <1>6 DEF Updates!Applied, Updates!Text
  <2> HIDE DEF w
  <2>3. [i \in DOMAIN low |-> LowerCase[low[i]]] = low
    BY <1>2, UpdateFacts
  <2>4. Updates!Text(low).type = "str"
    BY DEF Updates!Text
  <2>5. QED
    BY <1>6, <2>1, <2>2, <2>3, <2>4
<1>7. QED
  BY <1>1, <1>3, <1>4, <1>5, <1>6

LEMMA MassTwice ==
  ASSUME NEW c \in UpdateJobs, c.op = "mass", c.how # "toggle", NEW d, RowOK(d)
  PROVE  MassRow(c, MassRow(c, d)) = MassRow(c, d)
<1> DEFINE v == Updates!Applied(c, OldOf(c, d))
           e == [d EXCEPT ![c.field] = v]
<1>1. c.field \in NoFile /\ c.field \in Updates!Fields /\ c.how \in {"set", "set null", "upper", "lower"}
  BY ConfigFacts DEF NoFile
<1>2. OldOf(c, d).words \in Seq(Updates!Words)
  BY <1>1, OldIs
<1>3. Updates!Applied(c, v) = v /\ (c.how \in {"upper", "lower"} => v.type = "str")
  BY <1>2, AppliedTwice
<1>4. e[c.field] = v
  BY <1>1 DEF RowOK
<1>5. Updates!Applied(c, OldOf(c, e)) = v
  <2>1. CASE c.how \in {"upper", "lower"}
    <3>1. v # Updates!Absent
      BY <1>3, <2>1 DEF Updates!Absent
    <3>2. OldOf(c, e) = v
      BY <1>4, <3>1 DEF OldOf
    <3>3. QED
      BY <1>3, <3>2
  <2>2. CASE c.how \in {"set", "set null"}
    BY <2>2 DEF Updates!Applied
  <2>3. QED
    BY <1>1, <2>1, <2>2
<1>6. [e EXCEPT ![c.field] = v] = e
  OBVIOUS
<1> HIDE DEF v
<1>7. CASE d[c.field] # Updates!Absent \/ c.create
  <2>1. MassRow(c, d) = e
    BY <1>7 DEF MassRow, v
  <2>2. MassRow(c, e) = e
    BY <1>5, <1>6 DEF MassRow
  <2>3. QED
    BY <2>1, <2>2
<1>8. CASE ~(d[c.field] # Updates!Absent \/ c.create)
  BY <1>8 DEF MassRow
<1>9. QED
  BY <1>7, <1>8

LEMMA JoinedTwice ==
  ASSUME NEW c \in UpdateJobs, c.op = "concatenate", Updates!Steady(c), NEW d, RowOK(d)
  PROVE  JoinedRow(c, JoinedRow(c, d)) = JoinedRow(c, d)
<1> DEFINE w == Joined(c, d)
           e == [d EXCEPT ![c.field] = Updates!Text(w)]
<1>1. c.field \in Updates!Fields /\ c.pattern \in Seq(Updates!Fields) /\ c.field \in NoFile
  BY ConfigFacts DEF NoFile
<1>2. w \in Seq(Updates!Words) /\ (w = <<>> => \A i \in DOMAIN c.pattern : d[c.pattern[i]].words = <<>>)
  BY <1>1, JoinedIs
<1>3. \A i \in DOMAIN c.pattern : c.pattern[i] \in Updates!Fields
  BY <1>1
<1>4. DOMAIN c.pattern = 1..Len(c.pattern)
  BY <1>1
<1> HIDE DEF w
<1>5. /\ \A f \in Updates!Fields : e[f] = IF f = c.field THEN Updates!Text(w) ELSE d[f]
      /\ [e EXCEPT ![c.field] = Updates!Text(w)] = e
  BY <1>1 DEF RowOK
<1>6. Updates!Text(w).words = w /\ Updates!Text(w).type = "str"
  BY DEF Updates!Text
<1>7. CASE c.onlyEmpty /\ Updates!Truthy(d[c.field])
  BY <1>7 DEF JoinedRow
<1>8. CASE ~(c.onlyEmpty /\ Updates!Truthy(d[c.field]))
  <2>1. JoinedRow(c, d) = e
    BY <1>8 DEF JoinedRow, w
  <2> HIDE DEF e
  <2>2. CASE c.onlyEmpty /\ w # <<>>
    <3>1. Updates!Truthy(e[c.field])
      BY <1>1, <1>5, <1>6, <2>2 DEF Updates!Truthy
    <3>2. JoinedRow(c, e) = e
      BY <2>2, <3>1 DEF JoinedRow
    <3>3. QED
      BY <2>1, <3>2
  <2>3. CASE ~(c.onlyEmpty /\ w # <<>>)
    <3>1. \A i \in DOMAIN c.pattern : e[c.pattern[i]].words = d[c.pattern[i]].words
      <4>1. SUFFICES ASSUME NEW i \in DOMAIN c.pattern PROVE e[c.pattern[i]].words = d[c.pattern[i]].words
        OBVIOUS
      <4>2. CASE c.pattern[i] = c.field
        <5>1. Updates!Contains(c.pattern, c.field)
          BY <1>4, <4>2 DEF Updates!Contains
        <5>2. c.onlyEmpty
          BY <5>1 DEF Updates!Steady
        <5>3. w = <<>>
          BY <2>3, <5>2
        <5>4. QED
          BY <1>2, <1>3, <1>5, <1>6, <4>2, <5>3
      <4>3. CASE c.pattern[i] # c.field
        BY <1>3, <1>5, <4>3
      <4>4. QED
        BY <4>2, <4>3
    <3>2. Joined(c, e) = w
      BY <3>1 DEF Joined, w
    <3>3. JoinedRow(c, e) = e
      BY <1>5, <3>2 DEF JoinedRow
    <3>4. QED
      BY <2>1, <3>3
  <2>4. QED
    BY <2>2, <2>3
<1>9. QED
  BY <1>7, <1>8

LEMMA NamedTwice ==
  ASSUME NEW c \in UpdateJobs, c.op = "names", NEW d, RowOK(d)
  PROVE  NamedRow(c, NamedRow(c, d)) = NamedRow(c, d)
<1> DEFINE e == NamedRow(c, d)
<1>1. c.source \in Updates!Fields /\ c.source \notin DOMAIN c.fields
  BY ConfigFacts DEF NoFile
<1>2. CASE d[c.source].type # "str"
  BY <1>2 DEF NamedRow
<1>3. CASE d[c.source].type = "str"
  <2>1. e = [f \in Updates!Fields |->
              IF f \in DOMAIN c.fields /\ Updates!Parts(d[c.source].words, c.fields[f]) # <<>>
              THEN Updates!Text(Updates!Parts(d[c.source].words, c.fields[f])) ELSE d[f]]
    BY <1>3 DEF NamedRow
  <2> HIDE DEF e
  <2>2. e[c.source] = d[c.source]
    BY <1>1, <2>1
  <2>3. NamedRow(c, e) = [f \in Updates!Fields |->
              IF f \in DOMAIN c.fields /\ Updates!Parts(d[c.source].words, c.fields[f]) # <<>>
              THEN Updates!Text(Updates!Parts(d[c.source].words, c.fields[f])) ELSE e[f]]
    BY <1>3, <2>2 DEF NamedRow
  <2>4. NamedRow(c, e) = e
    BY <2>1, <2>3
  <2>5. QED
    BY <2>4 DEF e
<1>4. QED
  BY <1>2, <1>3

LEMMA TypedTwice ==
  ASSUME NEW c, NEW r, NEW d
  PROVE  TypedRow(c, r, TypedRow(c, r, d)) = TypedRow(c, r, d)
<1> DEFINE e == TypedRow(c, r, d)
<1>1. e = [f \in Updates!Fields |-> IF f \in DOMAIN c.sheet.rows[r] \cap NoFile THEN c.sheet.rows[r][f] ELSE d[f]]
  BY DEF TypedRow
<1> HIDE DEF e
<1>2. TypedRow(c, r, e) = [f \in Updates!Fields |-> IF f \in DOMAIN c.sheet.rows[r] \cap NoFile THEN c.sheet.rows[r][f] ELSE e[f]]
  BY DEF TypedRow
<1>3. TypedRow(c, r, e) = e
  BY <1>1, <1>2
<1>4. QED
  BY <1>3 DEF e

\* A steady job changes nothing of what it wrote.
LEMMA SteadyTwice ==
  ASSUME NEW c, ConfigOK(c), Updates!Steady(c), NEW r, NEW d, RowOK(d)
  PROVE  Result(c, r, Result(c, r, d)) = Result(c, r, d)
<1>1. CASE c.op = "sheet"
  <2>1. \A x : Result(c, r, x) = TypedRow(c, r, x)
    BY <1>1 DEF Result
  <2>2. QED
    BY <2>1, TypedTwice
<1>2. CASE c.op # "sheet"
  <2>1. c \in UpdateJobs
    BY <1>2 DEF ConfigOK, SheetJob
  <2>2. c.op \in {"mass", "concatenate", "names", "checksum", "validate"} /\ (c.op = "mass" => c.how # "toggle")
    BY <2>1, UpdateFacts DEF Updates!Steady
  <2>3. CASE c.op = "mass"
    <3>1. \A x : Result(c, r, x) = MassRow(c, x)
      BY <2>3 DEF Result
    <3>2. QED
      BY <2>1, <2>2, <2>3, <3>1, MassTwice
  <2>4. CASE c.op = "concatenate"
    <3>1. \A x : Result(c, r, x) = JoinedRow(c, x)
      BY <2>4 DEF Result
    <3>2. QED
      BY <2>1, <2>4, <3>1, JoinedTwice
  <2>5. CASE c.op = "names"
    <3>1. \A x : Result(c, r, x) = NamedRow(c, x)
      BY <2>5 DEF Result
    <3>2. QED
      BY <2>1, <2>5, <3>1, NamedTwice
  <2>6. CASE c.op = "checksum"
    BY <2>6 DEF Result
  <2>7. CASE c.op = "validate"
    <3>1. \A x : Result(c, r, x) = CleanRow(x)
      BY <2>7 DEF Result
    <3>2. QED
      BY <3>1, CleanTypes
  <2>8. QED
    BY <2>2, <2>3, <2>4, <2>5, <2>6, <2>7
<1>3. QED
  BY <1>1, <1>2

JobShape(x) ==
  /\ x = [config |-> x.config, at |-> x.at] /\ x.at \in {"queued", "committed", "done", "failed"}
  /\ x.at \in {"queued", "committed"} => ConfigOK(x.config)
SheetShape(s) == s = [rows |-> s.rows, base |-> s.base, edited |-> s.edited] /\ SheetOK(s)

\* What the job that committed last would write again, if it is steady.
LastInv ==
  v6 \in DOMAIN v4 /\ v4[v6].at \in {"queued", "committed"} /\ Updates!Steady(v4[v6].config) =>
    \A r \in v4[v6].config.pks \cap v3 : Result(v4[v6].config, r, v1[r]) = v1[r]

UpdatesInv ==
  /\ v1 = [r \in Updated |-> v1[r]] /\ \A r \in Updated : RowOK(v1[r])
  /\ v3 \subseteq Updated
  /\ \E S : v4 \in Seq(S)
  /\ Len(v4) <= MaxUpdates /\ \A j \in DOMAIN v4 : JobShape(v4[j])
  /\ SheetShape(v5)
  /\ v6 \in 0..Len(v4) /\ v7 \in 0..MaxUpdateCrashes
  /\ LastInv

LEMMA JobsAre ==
  ASSUME UpdatesInv
  PROVE  Len(v4) \in Nat /\ DOMAIN v4 = 1..Len(v4)
<1>1. PICK S : v4 \in Seq(S)
  BY DEF UpdatesInv
<1>2. QED
  BY <1>1

\* One job goes on.
LEMMA JobMoves ==
  ASSUME UpdatesInv, NEW j \in DOMAIN v4, NEW x, JobShape(x), v4' = [v4 EXCEPT ![j] = x]
  PROVE  /\ \E S : v4' \in Seq(S)
         /\ Len(v4') = Len(v4) /\ DOMAIN v4' = DOMAIN v4
         /\ \A i \in DOMAIN v4 : v4'[i] = IF i = j THEN x ELSE v4[i]
         /\ \A i \in DOMAIN v4' : JobShape(v4'[i])
<1>1. PICK S : v4 \in Seq(S)
  BY DEF UpdatesInv
<1>2. \A i \in DOMAIN v4 : JobShape(v4[i])
  BY DEF UpdatesInv
<1> DEFINE T == S \cup {x}
<1>3. Len(v4) \in Nat /\ DOMAIN v4 = 1..Len(v4) /\ v4 \in [1..Len(v4) -> T]
  BY <1>1
<1> HIDE DEF T
<1>4. v4' \in [1..Len(v4) -> T]
  BY <1>3 DEF T
<1>5. v4' \in Seq(T)
  BY <1>3, <1>4, SequenceIs
<1>6. Len(v4') = Len(v4) /\ DOMAIN v4' = DOMAIN v4
  BY <1>3, <1>4, <1>5
<1>7. \A i \in DOMAIN v4 : v4'[i] = IF i = j THEN x ELSE v4[i]
  OBVIOUS
<1>8. QED
  BY <1>2, <1>5, <1>6, <1>7

\* A job that changes its state only.
LEMMA JobAt ==
  ASSUME UpdatesInv, NEW j \in DOMAIN v4, NEW a
  PROVE  /\ [v4 EXCEPT ![j].at = a] = [v4 EXCEPT ![j] = [config |-> v4[j].config, at |-> a]]
         /\ a \in {"queued", "committed"} /\ v4[j].at \in {"queued", "committed"} =>
              JobShape([config |-> v4[j].config, at |-> a]) /\ ConfigOK(v4[j].config)
<1>1. JobShape(v4[j])
  BY DEF UpdatesInv
<1>2. [v4[j] EXCEPT !.at = a] = [config |-> v4[j].config, at |-> a]
  BY <1>1 DEF JobShape
<1>3. [v4 EXCEPT ![j].at = a] = [v4 EXCEPT ![j] = [v4[j] EXCEPT !.at = a]]
  OBVIOUS
<1>4. QED
  BY <1>1, <1>2, <1>3 DEF JobShape

LEMMA EndedShape == \A a \in {"done", "failed"} : JobShape(Updates!Ended(a)) /\ Updates!Ended(a).at = a
BY DEF JobShape, Updates!Ended

\* A job is queued.
LEMMA QueueUpdate ==
  ASSUME UpdatesInv, NEW c, ConfigOK(c), Updates!Queue(c), SheetShape(v5')
  PROVE  UpdatesInv'
<1> DEFINE x == [config |-> c, at |-> "queued"]
<1>1. PICK S : v4 \in Seq(S)
  BY DEF UpdatesInv
<1>2. v4' = Append(v4, x) /\ Len(v4) < MaxUpdates /\ UNCHANGED <<v1, v2, v3, v6, v7>>
  BY DEF Updates!Queue
<1>3. JobShape(x)
  BY DEF JobShape
<1>4. v6 \in 0..Len(v4) /\ Len(v4) \in Nat /\ MaxUpdates \in Nat
  BY <1>1, UpdateFacts DEF UpdatesInv
<1> HIDE DEF x
<1>5. /\ v4' \in Seq(S \cup {x}) /\ Len(v4') = Len(v4) + 1 /\ DOMAIN v4' = 1..(Len(v4) + 1) /\ DOMAIN v4 = 1..Len(v4)
      /\ \A i \in 1..Len(v4) : v4'[i] = v4[i]
      /\ v4'[Len(v4) + 1] = x
  BY <1>1, <1>2
<1>6. \A i \in DOMAIN v4' : JobShape(v4'[i])
  <2>1. SUFFICES ASSUME NEW i \in DOMAIN v4' PROVE JobShape(v4'[i])
    OBVIOUS
  <2>2. i \in 1..Len(v4) \/ i = Len(v4) + 1
    BY <1>4, <1>5
  <2>3. QED
    BY <1>3, <1>5, <2>2 DEF UpdatesInv
<1>7. LastInv'
  <2>1. v6' = v6 /\ v1' = v1 /\ v3' = v3
    BY <1>2
  <2>2. v6 \in DOMAIN v4' => v6 \in DOMAIN v4 /\ v4'[v6] = v4[v6]
    BY <1>4, <1>5
  <2>3. LastInv
    BY DEF UpdatesInv
  <2>4. QED
    BY <2>1, <2>2, <2>3 DEF LastInv
<1>8. v6' \in 0..Len(v4') /\ Len(v4') <= MaxUpdates
  BY <1>2, <1>4, <1>5
<1>9. v7' \in 0..MaxUpdateCrashes /\ v3' \subseteq Updated
  BY <1>2 DEF UpdatesInv
<1>10. v1' = [r \in Updated |-> v1'[r]] /\ \A r \in Updated : RowOK(v1'[r])
  BY <1>2 DEF UpdatesInv
<1>11. QED
  BY <1>5, <1>6, <1>7, <1>8, <1>9, <1>10 DEF UpdatesInv

\* What is left to show of a step of a job that writes nothing.
LEMMA QuietUpdate ==
  ASSUME UpdatesInv, NEW j \in DOMAIN v4, NEW x, JobShape(x), v4' = [v4 EXCEPT ![j] = x],
         x.at \in {"queued", "committed"} => v4[j].at \in {"queued", "committed"} /\ x.config = v4[j].config,
         UNCHANGED <<v1, v3, v5, v6>>, v7' \in 0..MaxUpdateCrashes
  PROVE  UpdatesInv'
<1>1. /\ \E S : v4' \in Seq(S)
      /\ Len(v4') = Len(v4) /\ DOMAIN v4' = DOMAIN v4
      /\ \A i \in DOMAIN v4 : v4'[i] = IF i = j THEN x ELSE v4[i]
      /\ \A i \in DOMAIN v4' : JobShape(v4'[i])
  BY JobMoves
<1>2. LastInv'
  <2>1. v6' = v6 /\ v1' = v1 /\ v3' = v3
    OBVIOUS
  <2>2. v6 \in DOMAIN v4' /\ v4'[v6].at \in {"queued", "committed"} =>
          v6 \in DOMAIN v4 /\ v4[v6].at \in {"queued", "committed"} /\ v4'[v6].config = v4[v6].config
    BY <1>1
  <2>3. LastInv
    BY DEF UpdatesInv
  <2>4. QED
    BY <2>1, <2>2, <2>3 DEF LastInv
<1>3. v1' = [r \in Updated |-> v1'[r]] /\ \A r \in Updated : RowOK(v1'[r])
  BY DEF UpdatesInv
<1>4. SheetShape(v5') /\ v3' \subseteq Updated /\ Len(v4') <= MaxUpdates /\ v6' \in 0..Len(v4')
  BY <1>1 DEF UpdatesInv
<1>5. QED
  BY <1>1, <1>2, <1>3, <1>4 DEF UpdatesInv

\* A job writes.
LEMMA WrittenUpdate ==
  ASSUME UpdatesInv, NEW j \in DOMAIN v4, v4[j].at = "queued", Written(j, v4[j].config)
  PROVE  UpdatesInv'
<1> DEFINE c == v4[j].config
           x == [config |-> c, at |-> "committed"]
<1>1. v4' = [v4 EXCEPT ![j] = x] /\ JobShape(x) /\ ConfigOK(c)
  BY JobAt DEF Written
<1>2. x.at = "committed" /\ x.config = c
  OBVIOUS
<1>3. v3' = v3 /\ v5' = v5 /\ v7' = v7 /\ v6' = j
  BY DEF Written
<1>4. v1' = [r \in Updated |-> IF r \in Updates!Picked(j) THEN Result(c, r, v1[r]) ELSE v1[r]]
  BY DEF Written
<1>5. Updates!Picked(j) = c.pks \cap v3 /\ v3 \subseteq Updated
  BY DEF Updates!Picked, UpdatesInv
<1>6. \A r \in Updated : RowOK(v1[r])
  BY DEF UpdatesInv
<1> HIDE DEF c, x
<1>7. /\ \E S : v4' \in Seq(S)
      /\ Len(v4') = Len(v4) /\ DOMAIN v4' = DOMAIN v4
      /\ \A i \in DOMAIN v4 : v4'[i] = IF i = j THEN x ELSE v4[i]
      /\ \A i \in DOMAIN v4' : JobShape(v4'[i])
  BY <1>1, JobMoves
<1>8. \A r \in Updated : RowOK(v1'[r])
  <2>1. SUFFICES ASSUME NEW r \in Updated PROVE RowOK(v1'[r])
    OBVIOUS
  <2>2. CASE r \in Updates!Picked(j)
    <3>1. v1'[r] = Result(c, r, v1[r]) /\ r \in c.pks
      BY <1>4, <1>5, <2>2
    <3>2. QED
      BY <1>1, <1>6, <3>1, ResultTypes
  <2>3. CASE r \notin Updates!Picked(j)
    BY <1>4, <1>6, <2>3
  <2>4. QED
    BY <2>2, <2>3
<1>9. LastInv'
  <2>1. SUFFICES ASSUME Updates!Steady(c), NEW r \in c.pks \cap v3 PROVE Result(c, r, v1'[r]) = v1'[r]
    BY <1>2, <1>3, <1>7 DEF LastInv
  <2>2. v1'[r] = Result(c, r, v1[r]) /\ r \in Updated
    BY <1>4, <1>5
  <2>3. QED
    BY <1>1, <1>6, <2>1, <2>2, SteadyTwice
<1>10. v1' = [r \in Updated |-> v1'[r]]
  BY <1>4
<1>11. SheetShape(v5') /\ v3' \subseteq Updated /\ Len(v4') <= MaxUpdates /\ v7' \in 0..MaxUpdateCrashes
  BY <1>3, <1>7 DEF UpdatesInv
<1>12. v6' \in 0..Len(v4')
  <2>1. j \in 1..Len(v4) /\ Len(v4) \in Nat
    BY JobsAre
  <2>2. QED
    BY <1>3, <1>7, <2>1
<1>13. QED
  BY <1>7, <1>8, <1>9, <1>10, <1>11, <1>12 DEF UpdatesInv

\* The user exports and types.
LEMMA SheetUpdate ==
  ASSUME UpdatesInv, SheetShape(v5'), UNCHANGED <<v1, v3, v4, v6, v7>>
  PROVE  UpdatesInv'
BY DEF UpdatesInv, LastInv

LEMMA ExportUpdate == ASSUME UpdatesInv, Updates!Export PROVE SheetShape(v5') /\ UNCHANGED <<v1, v3, v4, v6, v7>>
<1>1. UNCHANGED <<v1, v3, v4, v6, v7>>
  BY DEF Updates!Export
<1>2. PICK rs \in {s \cap v3 : s \in Exported} \ {{}} :
        v5' = [rows |-> [r \in rs |-> [f \in NoFile |-> Updates!Cell(v1[r][f])]], base |-> v1, edited |-> FALSE]
  BY DEF Updates!Export, NoFile
<1>3. rs \subseteq Updated
  BY DEF UpdatesInv
<1>4. ASSUME NEW r \in rs, NEW f \in NoFile
      PROVE  Updates!Cell(v1[r][f]) \in Updates!AllValues /\ Updates!Plain(f, Updates!Cell(v1[r][f]))
  <2>1. f \in Updates!Fields /\ RowOK(v1[r])
    BY <1>3 DEF NoFile, UpdatesInv
  <2>2. v1[r][f].words \in Seq(Updates!Words)
    BY <2>1, WordsIs
  <2>3. QED
    BY <2>2, TextIs, NullIs DEF Updates!Cell
<1>5. NoFile \subseteq Updates!Fields
  BY DEF NoFile
<1>6. v5'.rows = [r \in rs |-> [f \in NoFile |-> Updates!Cell(v1[r][f])]] /\ v5'.base = v1 /\ v5'.edited = FALSE
  BY <1>2
<1>7. v5' = [rows |-> v5'.rows, base |-> v5'.base, edited |-> v5'.edited]
  BY <1>2
<1>8. SheetOK(v5')
  BY <1>3, <1>4, <1>5, <1>6 DEF SheetOK
<1>9. QED
  BY <1>1, <1>7, <1>8 DEF SheetShape

LEMMA EditUpdate == ASSUME UpdatesInv, Updates!Edit PROVE SheetShape(v5') /\ UNCHANGED <<v1, v3, v4, v6, v7>>
<1>1. UNCHANGED <<v1, v3, v4, v6, v7>>
  BY DEF Updates!Edit
<1>2. PICK r \in DOMAIN v5.rows, f \in Updates!Fields : \E v \in TypedCells[FieldTypes[f]] :
        v5' = [v5 EXCEPT !.edited = TRUE, !.rows[r] = [g \in DOMAIN @ \cup {f} |-> IF g = f THEN v ELSE @[g]]]
  BY DEF Updates!Edit
<1>3. PICK v \in TypedCells[FieldTypes[f]] :
        v5' = [v5 EXCEPT !.edited = TRUE, !.rows[r] = [g \in DOMAIN @ \cup {f} |-> IF g = f THEN v ELSE @[g]]]
  BY <1>2
<1>4. v \in Updates!AllValues /\ Updates!Plain(f, v)
  BY UpdateFacts
<1> DEFINE row == [g \in DOMAIN v5.rows[r] \cup {f} |-> IF g = f THEN v ELSE v5.rows[r][g]]
<1>5. v5 = [rows |-> v5.rows, base |-> v5.base, edited |-> v5.edited] /\ SheetOK(v5)
  BY DEF UpdatesInv, SheetShape
<1>6. v5' = [rows |-> [v5.rows EXCEPT ![r] = row], base |-> v5.base, edited |-> TRUE]
  BY <1>3, <1>5
<1>7. v5'.rows = [v5.rows EXCEPT ![r] = row] /\ v5'.edited = TRUE /\ v5' = [rows |-> v5'.rows, base |-> v5'.base, edited |-> v5'.edited]
  BY <1>6
<1>8. DOMAIN row = DOMAIN v5.rows[r] \cup {f} /\ \A g \in DOMAIN row : row[g] = IF g = f THEN v ELSE v5.rows[r][g]
  OBVIOUS
<1> HIDE DEF row
<1>9. DOMAIN v5'.rows = DOMAIN v5.rows /\ \A s \in DOMAIN v5.rows : v5'.rows[s] = IF s = r THEN row ELSE v5.rows[s]
  BY <1>7
<1>10. DOMAIN row \subseteq Updates!Fields /\ \A g \in DOMAIN row : row[g] \in Updates!AllValues /\ Updates!Plain(g, row[g])
  <2>1. DOMAIN v5.rows[r] \subseteq Updates!Fields
    BY <1>5 DEF SheetOK
  <2>2. ASSUME NEW g \in DOMAIN row PROVE row[g] \in Updates!AllValues /\ Updates!Plain(g, row[g])
    BY <1>4, <1>5, <1>8 DEF SheetOK
  <2>3. QED
    BY <1>8, <2>1, <2>2
<1>11. SheetOK(v5')
  BY <1>5, <1>7, <1>9, <1>10 DEF SheetOK
<1>12. QED
  BY <1>1, <1>7, <1>11 DEF SheetShape

\* Every step keeps the invariant.
LEMMA NextUpdates == ASSUME UpdatesInv, Updates!Next PROVE UpdatesInv'
<1>1. v1 = [r \in Updated |-> v1[r]] /\ v7 \in 0..MaxUpdateCrashes /\ SheetShape(v5) /\ MaxUpdateCrashes \in Nat
  BY UpdateFacts DEF UpdatesInv
<1>2. CASE Updates!Schedule
  <2>1. PICK c \in UpdateJobs : Updates!Queue(c) /\ v5' = v5
    BY <1>2 DEF Updates!Schedule
  <2>2. QED
    BY <1>1, <2>1, QueueUpdate DEF ConfigOK
<1>3. CASE Updates!Export
  BY <1>3, ExportUpdate, SheetUpdate
<1>4. CASE Updates!Edit
  BY <1>4, EditUpdate, SheetUpdate
<1>5. CASE Updates!Upload
  <2> DEFINE c == [op |-> "sheet", pks |-> DOMAIN v5.rows, sheet |-> v5]
  <2>1. Updates!Queue(c) /\ v5' = Updates!NoSheet
    BY <1>5 DEF Updates!Upload
  <2>2. ConfigOK(c)
    BY <1>1 DEF ConfigOK, SheetJob, SheetShape
  <2>3. SheetShape(v5')
    BY <2>1 DEF SheetShape, SheetOK, Updates!NoSheet
  <2> HIDE DEF c
  <2>4. QED
    BY <2>1, <2>2, <2>3, QueueUpdate
<1>6. ASSUME NEW j \in DOMAIN v4, Updates!Run(j) PROVE UpdatesInv'
  <2>1. v4[j].at = "queued" /\ (Written(j, v4[j].config) \/ Failed(j))
    BY <1>1, <1>6, RunIs
  <2>2. CASE Written(j, v4[j].config)
    BY <2>1, <2>2, WrittenUpdate
  <2>3. CASE Failed(j)
    <3> DEFINE x == Updates!Ended("failed")
    <3>1. v4' = [v4 EXCEPT ![j] = x] /\ UNCHANGED <<v1, v3, v5, v6>> /\ v7' \in 0..MaxUpdateCrashes
      BY <1>1, <2>3 DEF Failed
    <3>2. JobShape(x) /\ x.at = "failed"
      BY EndedShape
    <3> HIDE DEF x
    <3>3. QED
      BY <3>1, <3>2, QuietUpdate
  <2>4. QED
    BY <2>1, <2>2, <2>3
<1>7. ASSUME NEW j \in DOMAIN v4, Updates!Acknowledge(j) PROVE UpdatesInv'
  <2> DEFINE x == Updates!Ended("done")
  <2>1. v4' = [v4 EXCEPT ![j] = x] /\ UNCHANGED <<v1, v3, v5, v6>> /\ v7' \in 0..MaxUpdateCrashes
    BY <1>1, <1>7 DEF Updates!Acknowledge
  <2>2. JobShape(x) /\ x.at = "done"
    BY EndedShape
  <2> HIDE DEF x
  <2>3. QED
    BY <2>1, <2>2, QuietUpdate
<1>8. ASSUME NEW j \in DOMAIN v4, Updates!Crash(j) PROVE UpdatesInv'
  <2> DEFINE x == [config |-> v4[j].config, at |-> "queued"]
  <2>1. v4[j].at = "committed" /\ v4' = [v4 EXCEPT ![j].at = "queued"] /\ UNCHANGED <<v1, v3, v5, v6>>
    BY <1>8 DEF Updates!Crash
  <2>2. v4' = [v4 EXCEPT ![j] = x] /\ JobShape(x)
    BY <2>1, JobAt
  <2>3. v7' \in 0..MaxUpdateCrashes
    BY <1>1, <1>8 DEF Updates!Crash
  <2>4. x.config = v4[j].config
    OBVIOUS
  <2> HIDE DEF x
  <2>5. QED
    BY <2>1, <2>2, <2>3, <2>4, QuietUpdate
<1>9. ASSUME NEW r \in Updated, Updates!Delete(r) PROVE UpdatesInv'
  <2>1. v3' \subseteq v3 /\ UNCHANGED <<v1, v2, v4, v5, v6, v7>>
    BY <1>9 DEF Updates!Delete
  <2>2. LastInv'
    BY <2>1 DEF UpdatesInv, LastInv
  <2>3. QED
    BY <2>1, <2>2 DEF UpdatesInv
<1>10. QED
  BY <1>2, <1>3, <1>4, <1>5, <1>6, <1>7, <1>8, <1>9 DEF Updates!Next

\* Initially there are no jobs.
LEMMA InitUpdates == ASSUME Updates!Init PROVE UpdatesInv
<1>1. v1 \in FirstData /\ v3 = Updated /\ v4 = <<>> /\ v5 = Updates!NoSheet /\ v6 = 0 /\ v7 = 0
  BY DEF Updates!Init
<1>2. Updates!Stored(v1)
  BY <1>1, UpdateFacts
<1>3. v1 = [r \in Updated |-> v1[r]] /\ \A r \in Updated : RowOK(v1[r])
  BY <1>2 DEF Updates!Stored, RowOK
<1>4. v4 \in Seq({}) /\ Len(v4) = 0 /\ DOMAIN v4 = {}
  BY <1>1
<1>5. SheetShape(v5)
  BY <1>1 DEF SheetShape, SheetOK, Updates!NoSheet
<1>6. MaxUpdates \in Nat /\ MaxUpdateCrashes \in Nat
  BY UpdateFacts
<1>7. LastInv
  BY <1>4 DEF LastInv
<1>8. Len(v4) <= MaxUpdates /\ v6 \in 0..Len(v4) /\ v7 \in 0..MaxUpdateCrashes
  BY <1>1, <1>4, <1>6
<1>9. QED
  BY <1>1, <1>3, <1>4, <1>5, <1>7, <1>8 DEF UpdatesInv

LEMMA UpdatesTyped == ASSUME UpdatesInv PROVE Updates!TypeOK
<1>1. \A r \in Updated, f \in Updates!Fields : FieldTypes[f] = "file" => v1[r][f].type \in {"file", "absent"}
  BY WordsIs DEF UpdatesInv
<1>2. \A r \in Updated : DOMAIN v1[r] = Updates!Fields
  BY DEF UpdatesInv, RowOK
<1>3. \A j \in DOMAIN v4 : v4[j].at \in {"queued", "committed", "done", "failed"}
  BY DEF UpdatesInv, JobShape
<1>4. QED
  BY <1>1, <1>2, <1>3 DEF UpdatesInv, Updates!TypeOK

\* Only a run commits a job.
LEMMA CommitIsRun ==
  ASSUME UpdatesInv, Updates!Next, NEW j \in DOMAIN v4, v4[j].at = "queued", v4'[j].at = "committed"
  PROVE  Updates!Run(j) /\ Written(j, v4[j].config)
<1>1. DOMAIN v4 = 1..Len(v4) /\ Len(v4) \in Nat /\ \A i \in DOMAIN v4 : JobShape(v4[i])
  BY JobsAre DEF UpdatesInv
<1>2. v4' # v4
  OBVIOUS
<1>3. ASSUME NEW c, Updates!Queue(c) PROVE FALSE
  <2>1. PICK S : v4 \in Seq(S)
    BY DEF UpdatesInv
  <2> DEFINE x == [config |-> c, at |-> "queued"]
  <2>2. v4' = Append(v4, x)
    BY <1>3 DEF Updates!Queue
  <2> HIDE DEF x
  <2>3. v4'[j] = v4[j]
    BY <1>1, <2>1, <2>2
  <2>4. QED
    BY <2>3
<1>4. PICK i \in DOMAIN v4 : Updates!Run(i) \/ Updates!Acknowledge(i) \/ Updates!Crash(i)
  BY <1>2, <1>3 DEF Updates!Next, Updates!Schedule, Updates!Export, Updates!Edit, Updates!Upload, Updates!Delete
<1>5. CASE Updates!Acknowledge(i)
  <2>1. v4'[j] = IF j = i THEN Updates!Ended("done") ELSE v4[j]
    BY <1>5 DEF Updates!Acknowledge
  <2>2. QED
    BY <2>1, EndedShape
<1>6. CASE Updates!Crash(i)
  <2>1. v4[i].at = "committed" /\ v4' = [v4 EXCEPT ![i].at = "queued"]
    BY <1>6 DEF Updates!Crash
  <2>2. j # i
    BY <2>1
  <2>3. v4'[j] = v4[j]
    BY <2>1, <2>2
  <2>4. QED
    BY <2>3
<1>7. CASE Updates!Run(i)
  <2>1. v1 = [r \in Updated |-> v1[r]]
    BY DEF UpdatesInv
  <2>2. Written(i, v4[i].config) \/ Failed(i)
    BY <1>7, <2>1, RunIs
  <2>3. CASE Written(i, v4[i].config)
    <3>1. v4' = [v4 EXCEPT ![i].at = "committed"]
      BY <2>3 DEF Written
    <3>2. j = i
      <4>1. SUFFICES ASSUME j # i PROVE FALSE
        OBVIOUS
      <4>2. v4'[j] = v4[j]
        BY <3>1, <4>1
      <4>3. QED
        BY <4>2
    <3>3. QED
      BY <1>7, <2>3, <3>2
  <2>4. CASE Failed(i)
    <3>1. v4'[j] = IF j = i THEN Updates!Ended("failed") ELSE v4[j]
      BY <2>4 DEF Failed
    <3>2. QED
      BY <3>1, EndedShape
  <2>5. QED
    BY <2>2, <2>3, <2>4
<1>8. QED
  BY <1>4, <1>5, <1>6, <1>7

\* A job writes in the records that are there, and nothing else.
LEMMA WrittenIs ==
  ASSUME UpdatesInv, NEW j, NEW c, Written(j, c), c = v4[j].config, NEW r \in Updated
  PROVE  v1'[r] = IF r \in c.pks \cap v3 THEN Result(c, r, v1[r]) ELSE v1[r]
BY DEF Written, Updates!Picked

\* A job that is delivered again does no more than the first time.
LEMMA SteadyStep == ASSUME UpdatesInv, Updates!Next PROVE Updates!SteadyOnce
<1> SUFFICES ASSUME NEW j \in DOMAIN v4, Updates!Redelivered(j), Updates!Steady(v4[j].config) PROVE v1' = v1
  BY DEF Updates!SteadyOnce
<1> DEFINE c == v4[j].config
<1>1. v4[j].at = "queued" /\ v6 = j /\ Written(j, c)
  BY CommitIsRun DEF Updates!Redelivered
<1>2. \A r \in c.pks \cap v3 : Result(c, r, v1[r]) = v1[r]
  BY <1>1 DEF UpdatesInv, LastInv
<1>3. v1' = [r \in Updated |-> v1'[r]]
  BY <1>1 DEF Written
<1>4. \A r \in Updated : v1'[r] = v1[r]
  BY <1>1, <1>2, WrittenIs
<1>5. v1 = [r \in Updated |-> v1[r]]
  BY DEF UpdatesInv
<1>6. QED
  BY <1>3, <1>4, <1>5

\* What is printed is cleaned to what it was.
LEMMA CleanCell ==
  ASSUME NEW f \in NoFile, NEW v \in Updates!AllValues, Updates!Plain(f, v)
  PROVE  Updates!Clean(f, Updates!Cell(v)) = Updates!Clean(f, v)
<1>1. FieldTypes[f] \in {"text", "bool", "many", "date", "reference"}
  BY UpdateFacts DEF NoFile
<1>2. Updates!Cell(v).words = v.words
  BY DEF Updates!Cell, Updates!Null, Updates!Text
<1>3. CASE FieldTypes[f] \in {"text", "bool", "many"}
  BY <1>2, <1>3 DEF Updates!Clean
<1>4. CASE FieldTypes[f] \in {"date", "reference"}
  <2>1. CASE v.words = <<>>
    BY <1>2, <1>4, <2>1 DEF Updates!Clean
  <2>2. CASE v.words # <<>>
    <3>1. v.type = "str"
      BY <1>4, <2>2 DEF Updates!Plain
    <3>2. v = [type |-> v.type, words |-> v.words]
      BY DEF Updates!AllValues
    <3>3. Updates!Cell(v) = v
      BY <2>2, <3>1, <3>2 DEF Updates!Cell, Updates!Text
    <3>4. QED
      BY <3>3
  <2>3. QED
    BY <2>1, <2>2
<1>5. QED
  BY <1>1, <1>3, <1>4

\* A sheet nobody edited changes no value but for its type.
LEMMA RoundTripStep == ASSUME UpdatesInv, Updates!Next PROVE Updates!RoundTrip
<1> SUFFICES ASSUME NEW j \in DOMAIN v4, Updates!Runs(j, "sheet"), v6' = j, v4'[j].at = "committed",
                    NEW r \in DOMAIN v4[j].config.sheet.rows, NEW f \in Updates!Fields,
                    ~v4[j].config.sheet.edited, v1[r] = v4[j].config.sheet.base[r]
             PROVE  Updates!Clean(f, v1'[r][f]) = Updates!Clean(f, v1[r][f])
  BY DEF Updates!RoundTrip
<1> DEFINE c == v4[j].config
<1>1. v4[j].at = "queued" /\ c.op = "sheet" /\ Written(j, c)
  BY CommitIsRun DEF Updates!Runs
<1>2. ConfigOK(c)
  BY <1>1 DEF UpdatesInv, JobShape
<1>3. SheetJob(c)
  BY <1>1, <1>2, UpdateFacts DEF ConfigOK
<1>4. r \in Updated /\ RowOK(v1[r])
  BY <1>3 DEF SheetJob, SheetOK, UpdatesInv
<1>5. CASE r \notin c.pks \cap v3
  BY <1>1, <1>4, <1>5, WrittenIs
<1>6. CASE r \in c.pks \cap v3
  <2>1. v1'[r] = TypedRow(c, r, v1[r])
    BY <1>1, <1>4, <1>6, WrittenIs DEF Result
  <2>2. v1'[r][f] = IF f \in DOMAIN c.sheet.rows[r] \cap NoFile THEN c.sheet.rows[r][f] ELSE v1[r][f]
    BY <2>1 DEF TypedRow
  <2>3. CASE f \in DOMAIN c.sheet.rows[r] \cap NoFile
    <3>1. c.sheet.rows[r][f] = Updates!Cell(v1[r][f])
      BY <1>3, <2>3 DEF SheetJob, SheetOK
    <3>2. v1[r][f] \in Updates!AllValues /\ Updates!Plain(f, v1[r][f])
      BY <1>4, WordsIs
    <3>3. QED
      BY <2>2, <2>3, <3>1, <3>2, CleanCell
  <2>4. CASE ~(f \in DOMAIN c.sheet.rows[r] \cap NoFile)
    BY <2>2, <2>4
  <2>5. QED
    BY <2>3, <2>4
<1>7. QED
  BY <1>5, <1>6

\* A mass update leaves nobody out.
LEMMA WholeStep == ASSUME UpdatesInv, Updates!Next PROVE Updates!WholeOrNothing
<1> SUFFICES ASSUME NEW j \in DOMAIN v4, Updates!Runs(j, "mass"), v4[j].config.how = "upper",
                    v4'[j].at = "committed", NEW r \in Updates!Picked(j)
             PROVE  LET v == v1'[r][v4[j].config.field] IN v = Updates!Absent \/ Updates!InUpperCase(v)
  BY DEF Updates!WholeOrNothing
<1> DEFINE c == v4[j].config
           d == v1[r]
<1>1. v4[j].at = "queued" /\ c.op = "mass" /\ Written(j, c)
  BY CommitIsRun DEF Updates!Runs
<1>2. ConfigOK(c)
  BY <1>1 DEF UpdatesInv, JobShape
<1>3. c \in UpdateJobs
  BY <1>1, <1>2 DEF ConfigOK, SheetJob
<1>4. r \in c.pks \cap v3 /\ r \in Updated /\ RowOK(d)
  BY DEF Updates!Picked, UpdatesInv
<1>5. v1'[r] = MassRow(c, d)
  BY <1>1, <1>4, WrittenIs DEF Result
<1>6. c.field \in NoFile /\ c.field \in Updates!Fields
  BY <1>1, <1>3, ConfigFacts DEF NoFile
<1> HIDE DEF c, d
<1>7. CASE d[c.field] # Updates!Absent \/ c.create
  <2> DEFINE w == OldOf(c, d).words
             up == [i \in DOMAIN w |-> UpperCase[w[i]]]
  <2>1. w \in Seq(Updates!Words)
    BY <1>4, <1>6, OldIs
  <2>2. v1'[r][c.field] = Updates!Applied(c, OldOf(c, d))
    BY <1>4, <1>5, <1>6, <1>7 DEF MassRow, RowOK
  <2>3. Updates!Applied(c, OldOf(c, d)) = Updates!Text(up)
    BY DEF Updates!Applied, c
  <2>4. DOMAIN w = 1..Len(w) /\ \A i \in DOMAIN w : w[i] \in Updates!Words
    BY <2>1
  <2> HIDE DEF w
  <2>5. \A i \in DOMAIN up : UpperCase[up[i]] = up[i]
    BY <2>4, UpdateFacts
  <2>6. Updates!Text(up).type = "str" /\ Updates!Text(up).words = up
    BY DEF Updates!Text
  <2> HIDE DEF up
  <2>7. Updates!InUpperCase(v1'[r][c.field])
    BY <2>2, <2>3, <2>5, <2>6 DEF Updates!InUpperCase
  <2>8. QED
    BY <2>7 DEF c
<1>8. CASE ~(d[c.field] # Updates!Absent \/ c.create)
  <2>1. v1'[r][c.field] = Updates!Absent
    BY <1>5, <1>8 DEF MassRow
  <2>2. QED
    BY <2>1 DEF c
<1>9. QED
  BY <1>7, <1>8

\* The checksum follows the data, but for the name parser.
LEMMA ChecksumStep == ASSUME UpdatesInv, Updates!Next PROVE Updates!ChecksumFollows
<1> SUFFICES ASSUME NEW r \in Updated, v1'[r] # v1[r], v2'[r] # v1'[r]
             PROVE  \E j \in DOMAIN v4 : Updates!Runs(j, "names") /\ v4'[j].at = "committed"
  BY DEF Updates!ChecksumFollows
<1>1. v1' # v1
  OBVIOUS
<1>2. PICK j \in DOMAIN v4 : Updates!Run(j)
  BY <1>1 DEF Updates!Next, Updates!Schedule, Updates!Queue, Updates!Export, Updates!Edit, Updates!Upload,
    Updates!Delete, Updates!Acknowledge, Updates!Crash
<1>3. v1 = [s \in Updated |-> v1[s]] /\ JobShape(v4[j])
  BY DEF UpdatesInv
<1>4. v4[j].at = "queued" /\ Written(j, v4[j].config)
  BY <1>1, <1>2, <1>3, RunIs DEF Failed
<1>5. v4[j].config.op = "names"
  BY <1>4 DEF Written
<1>6. v4'[j].at = "committed"
  <2>1. v4' = [v4 EXCEPT ![j] = [config |-> v4[j].config, at |-> "committed"]]
    BY <1>4, JobAt DEF Written
  <2>2. QED
    BY <2>1
<1>7. QED
  BY <1>4, <1>5, <1>6 DEF Updates!Runs

\* A step is one of the component of the behaviour.
LEMMA StepOfComponent ==
  ASSUME [NextAll]_all
  PROVE  /\ component' = component
         /\ In("Checks") => [Checks!Next]_(Checks!vars)
         /\ In("Again") => [Again!Next]_(Again!vars)
         /\ In("Edited") => [Edited!Next]_(Edited!vars)
         /\ In("Updates") => [Updates!Next]_(Updates!vars)
         /\ In("Validation") => [Validation!Next]_(Validation!vars)
         /\ [Next]_vars
<1>1. CASE NextAll
  BY <1>1 DEF NextAll, In, BatchIdentityNext, ChecksNext, UpdatesNext, ValidationNext, AgainNext, EditedNext
<1>2. CASE UNCHANGED all
  BY <1>2 DEF all, slots, Checks!vars, Again!vars, Edited!vars, Updates!vars, Validation!vars
<1>3. QED
  BY <1>1, <1>2

RecordsInv ==
  /\ In("Checks") => Checks!ChecksInv
  /\ In("Again") => Again!AgainInv
  /\ In("Edited") => Edited!EditedInv
  /\ In("Again") \/ In("Edited") => BatchTypes
  /\ In("Updates") => UpdatesInv
  /\ In("Validation") => RunInv
  /\ IdentityTypes

LEMMA InitRecords == InitAll => RecordsInv
<1> SUFFICES ASSUME InitAll PROVE RecordsInv
  OBVIOUS
<1>1. (In("Checks") => Checks!Init) /\ (In("Again") => Again!Init) /\ (In("Edited") => Edited!Init)
  BY DEF InitAll, In, BatchIdentityInit, ChecksInit, UpdatesInit, ValidationInit, AgainInit, EditedInit
<1>2. (In("Updates") => Updates!Init) /\ (In("Validation") => Validation!Init) /\ Init
  BY DEF InitAll, In, BatchIdentityInit, ChecksInit, UpdatesInit, ValidationInit, AgainInit, EditedInit
<1>3. (In("Updates") => UpdatesInv) /\ (In("Validation") => RunInv) /\ IdentityTypes
  BY <1>2, InitUpdates, InitRunInv, InitIdentityTypes
<1>4. In("Again") \/ In("Edited") => BatchTypes
  BY <1>1, InitBatchTypes
<1>5. QED
  BY <1>1, <1>3, <1>4, InitChecksInv, InitAgainInv, InitEditedInv DEF RecordsInv

LEMMA NextRecords == RecordsInv /\ [NextAll]_all => RecordsInv'
<1> SUFFICES ASSUME RecordsInv, [NextAll]_all PROVE RecordsInv'
  OBVIOUS
<1>1. component' = component
  BY StepOfComponent
<1>2. In("Checks") => Checks!ChecksInv'
  <2> SUFFICES ASSUME In("Checks") PROVE Checks!ChecksInv'
    OBVIOUS
  <2>1. CASE UNCHANGED Checks!vars
    <3>1. UNCHANGED <<v1, v2, v3, v4, v5>>
      BY <2>1 DEF Checks!vars
    <3>2. Checks!ChecksInv
      BY DEF RecordsInv
    <3>3. QED
      BY <3>1, <3>2 DEF Checks!ChecksInv, Checks!Ended, Checks!ValidIsAccepted, Checks!IsValid,
        Checks!Accepted, Checks!FormErrors
  <2>2. QED
    BY <2>1, StepOfComponent, NextChecksInv DEF RecordsInv
<1>3. In("Again") => Again!AgainInv'
  <2> SUFFICES ASSUME In("Again") PROVE Again!AgainInv'
    OBVIOUS
  <2>1. CASE UNCHANGED Again!vars
    <3>1. UNCHANGED <<v1, v2, v3, v4, v5, v6, v7, v8, v9, v10>>
      BY <2>1 DEF Again!vars
    <3>2. Again!AgainInv
      BY DEF RecordsInv
    <3>3. \A b \in Batches : Again!JobInv(b)' /\ Again!MarkIsRight(b)'
      BY <3>1, <3>2, OtherBatch DEF Again!AgainInv, SameRow, SamePeople
    <3>4. QED
      BY <3>1, <3>2, <3>3 DEF Again!AgainInv, Again!JobType, Again!OwnOf, Again!Steps, Again!Offered
  <2>2. QED
    BY <2>1, StepOfComponent, NextAgainInv DEF RecordsInv
<1>4. In("Edited") => Edited!EditedInv'
  <2> SUFFICES ASSUME In("Edited") PROVE Edited!EditedInv'
    OBVIOUS
  <2>1. CASE UNCHANGED Edited!vars
    BY <2>1 DEF Edited!vars, RecordsInv, Edited!EditedInv, Edited!JobType, Edited!OwnOf, Edited!Steps,
      Edited!Offered, Edited!OutsideStayOutside, Edited!PartOf
  <2>2. QED
    BY <2>1, StepOfComponent, NextEditedInv DEF RecordsInv
<1>5. In("Again") \/ In("Edited") => BatchTypes'
  <2> SUFFICES ASSUME In("Again") \/ In("Edited") PROVE BatchTypes'
    OBVIOUS
  <2>1. CASE UNCHANGED Again!vars
    BY <2>1 DEF Again!vars, RecordsInv, BatchTypes
  <2>2. CASE UNCHANGED Edited!vars
    BY <2>2 DEF Edited!vars, RecordsInv, BatchTypes
  <2>3. (In("Again") => Again!JobType) /\ (In("Edited") => Edited!JobType) /\ BatchTypes
    BY DEF RecordsInv, Again!AgainInv, Edited!EditedInv
  <2>4. QED
    BY <2>1, <2>2, <2>3, StepOfComponent, NextAgainTypes, NextEditedTypes
<1>6. In("Updates") => UpdatesInv'
  <2> SUFFICES ASSUME In("Updates") PROVE UpdatesInv'
    OBVIOUS
  <2>1. CASE UNCHANGED Updates!vars
    BY <2>1 DEF Updates!vars, RecordsInv, UpdatesInv, LastInv
  <2>2. QED
    BY <2>1, StepOfComponent, NextUpdates DEF RecordsInv
<1>7. In("Validation") => RunInv'
  <2> SUFFICES ASSUME In("Validation") PROVE RunInv'
    OBVIOUS
  <2>1. CASE UNCHANGED Validation!vars
    <3>1. UNCHANGED <<v1, v2, v3, v4, v5, v6, v7>>
      BY <2>1 DEF Validation!vars
    <3>2. RunInv
      BY DEF RecordsInv
    <3>3. RunTypes' /\ Quiet' = Quiet
      BY <3>1, <3>2 DEF RunInv, RunTypes, Through, Quiet
    <3>4. QED
      BY <3>1, <3>2, <3>3, OtherQuiet DEF RunInv, QuietInv, Quiet
  <2>2. QED
    BY <2>1, StepOfComponent, NextRunInv DEF RecordsInv
<1>8. IdentityTypes'
  BY StepOfComponent, NextIdentityTypes DEF RecordsInv
<1>9. QED
  BY <1>1, <1>2, <1>3, <1>4, <1>5, <1>6, <1>7, <1>8 DEF RecordsInv, In

(* For any number of records, actors, batches, people, bulk jobs and chunks of  *)
(* a validation: the variables have their types, no bulk operation changes a    *)
(* file, and no queue or counter exceeds its bound.                             *)
THEOREM TypesAlwaysOK == SpecAll => []TypesOK
<1>1. RecordsInv => TypesOK
  <2> SUFFICES ASSUME RecordsInv PROVE TypesOK
    OBVIOUS
  <2>1. TypeOK
    BY IdentityTyped DEF RecordsInv
  <2>2. In("Checks") => Checks!TypeOK
    BY ChecksTyped DEF RecordsInv
  <2>3. In("Updates") => Updates!TypeOK
    BY UpdatesTyped DEF RecordsInv
  <2>4. In("Validation") => Validation!TypeOK
    BY ReportsRight DEF RecordsInv
  <2>5. (In("Again") => Again!TypeOK) /\ (In("Edited") => Edited!TypeOK)
    BY BatchesTyped DEF RecordsInv, Again!AgainInv, Edited!EditedInv
  <2>6. QED
    BY <2>1, <2>2, <2>3, <2>4, <2>5 DEF TypesOK
<1>2. QED
  BY <1>1, InitRecords, NextRecords, PTL DEF SpecAll

(* For any number of actors, records and members, and of batches, people and  *)
(* reprocessings: who counts as valid is accepted by the DataChecker, but for *)
(* the two causes named, and a household that does has its head and collector.*)
THEOREM VerdictsStayRight == SpecAll => []VerdictsAreRight
<1>1. RecordsInv => VerdictsAreRight
  BY AgainRestores DEF RecordsInv, VerdictsAreRight, Checks!ChecksInv
<1>2. QED
  BY <1>1, InitRecords, NextRecords, PTL DEF SpecAll

(* For any number of batches, people, mappings, edits and reprocessings that   *)
(* die and come back: a reprocessing that ends restores the references of the  *)
(* import, external collectors stay what they are, and what was merged before  *)
(* it began keeps its references.                                              *)
THEOREM BatchesStayRestored == SpecAll => BatchesRestored
<1> DEFINE Inv == (In("Again") => Again!Restored) /\ (In("Edited") => Edited!OutsideStayOutside)
<1>1. RecordsInv => Inv
  BY AgainRestores DEF RecordsInv, Edited!EditedInv
<1>2. RecordsInv /\ [NextAll]_all => [In("Again") => Again!MergedStay]_all
  <2> SUFFICES ASSUME RecordsInv, [NextAll]_all, In("Again") PROVE Again!MergedStay
    OBVIOUS
  <2>1. CASE UNCHANGED Again!vars
    BY <2>1 DEF Again!vars, Again!MergedStay
  <2>2. QED
    BY <2>1, StepOfComponent, MergedStep DEF RecordsInv
<1>3. QED
  BY <1>1, <1>2, InitRecords, NextRecords, PTL DEF SpecAll, BatchesRestored

(* A spreadsheet overwrites no edit that a form saved after its export, for    *)
(* any number of both.                                                         *)
THEOREM FormEditsSurvive == SpecAll => [][In("Checks") => Checks!FormEditsSurviveImport]_all
<1>1. RecordsInv /\ [NextAll]_all => [In("Checks") => Checks!FormEditsSurviveImport]_all
  <2> SUFFICES ASSUME RecordsInv, [NextAll]_all, In("Checks") PROVE Checks!FormEditsSurviveImport
    OBVIOUS
  <2>1. CASE UNCHANGED Checks!vars
    BY <2>1 DEF Checks!vars, Checks!FormEditsSurviveImport
  <2>2. QED
    BY <2>1, StepOfComponent, SheetKeepsForms DEF RecordsInv
<1>2. QED
  BY <1>1, InitRecords, NextRecords, PTL DEF SpecAll

(* For any records, fields, configurations of the jobs, deaths of a worker and  *)
(* cells of a spreadsheet: a sheet comes back as it went out and overwrites no  *)
(* edit of a form, a steady job that is delivered again changes nothing, a mass *)
(* update leaves nobody out, the checksum follows; and a validation reports,    *)
(* once, what all its chunks found.                                             *)
THEOREM UpdatesStaySafe == SpecAll => UpdatesAreSafe
<1> DEFINE Forms == In("Checks") => Checks!FormEditsSurviveImport
           Bulk == In("Updates") => /\ Updates!RoundTrip /\ Updates!SteadyOnce
                                    /\ Updates!WholeOrNothing /\ Updates!ChecksumFollows
<1>1. RecordsInv => (In("Validation") => Validation!ReportIsRight)
  BY ReportsRight DEF RecordsInv
<1>2. RecordsInv /\ [NextAll]_all /\ [Forms]_all => [Forms /\ Bulk]_all
  <2> SUFFICES ASSUME RecordsInv, NextAll, In("Updates")
               PROVE  Updates!RoundTrip /\ Updates!SteadyOnce /\ Updates!WholeOrNothing /\ Updates!ChecksumFollows
    OBVIOUS
  <2>1. UpdatesInv /\ Updates!Next
    BY DEF RecordsInv, NextAll, In, BatchIdentityNext, ChecksNext, UpdatesNext, ValidationNext, AgainNext, EditedNext
  <2>2. QED
    BY <2>1, RoundTripStep, SteadyStep, WholeStep, ChecksumStep
<1>3. [Forms /\ Bulk]_all =>
        [/\ In("Checks") => Checks!FormEditsSurviveImport
         /\ In("Updates") => /\ Updates!RoundTrip /\ Updates!SteadyOnce
                             /\ Updates!WholeOrNothing /\ Updates!ChecksumFollows]_all
  OBVIOUS
<1>4. QED
  BY <1>1, <1>2, <1>3, FormEditsSurvive, InitRecords, NextRecords, PTL DEF SpecAll, UpdatesAreSafe
=============================================================================
