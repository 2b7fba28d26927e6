------------------------------- MODULE Reprocess -------------------------------
(***************************************************************************)
(* Reprocessing of batches (workspaces/admin/batch/reprocessing.py): the    *)
(* fields of the records are built again from the stored source data, then  *)
(* the role references of the households are resolved again, transformers   *)
(* run and validation jobs are created.  Nothing of it is one transaction.  *)
(* Meanwhile users edit and validate, and pushes to HOPE remove records.    *)
(*                                                                          *)
(* A batch is one household, and its number that of the household.          *)
(* Individuals are their primary keys.  A row of a sheet is known by its    *)
(* individual_id, a number as well: a household of an RDI refers to rows    *)
(* until the import has put keys in their place.                            *)
(***************************************************************************)
EXTENDS Naturals, FiniteSets

CONSTANTS
  Batches,     \* batches, and their households
  Source,      \* batch -> "RDI" or "KOBO" (ONA works alike, Aurora has no references)
  People,      \* individuals
  Own,         \* individual -> batch
  Outside,     \* external collectors: the individuals without a household
  RowId,       \* individual -> the individual_id of its row
  Sheet,       \* batch -> the row references in the raw data of its household
  Imported,    \* batch -> the references its import resolved
  Parts,       \* individual -> its role and relationship in the raw data
  Mappings,    \* the mapping importers
  Mapped,      \* mapping -> individual -> role and relationship with that mapping
  NoMapping,   \* reprocessing without one
  Typed,       \* the roles and relationships that users give
  Actions,     \* which of "edit", "person", "validate", "push", "die", "raise" happen
  MaxJobs      \* bound on the reprocessings of a batch

Nobody   == 0
Roles    == {"head", "primary", "alternate"}
PartOf   == [role : {"PRIMARY", "ALTERNATE", "NONE"}, rel : {"HEAD", "MEMBER", "NON_BENEFICIARY"}]

OwnOf(b) == {i \in People : Own[i] = b}

\* the last of some individuals that a row reference names
RowAmong(S, ref) ==
  LET named == {i \in S : RowId[i] = ref}
  IN IF named = {} THEN Nobody ELSE CHOOSE i \in named : \A j \in named : j <= i

(* What an import leaves: references that were resolved in the batch (those  *)
(* of an RDI that name a collector of another batch are not), and raw data   *)
(* that says who is an external collector.                                    *)
ImportIsResolved ==
  /\ \A b \in Batches, r \in Roles :
       Source[b] = "RDI" /\ Imported[b][r] \in OwnOf(b) \cup {Nobody} =>
         Imported[b][r] = IF Sheet[b][r] = Nobody THEN Nobody ELSE RowAmong(OwnOf(b), Sheet[b][r])
  /\ \A i \in People : Parts[i].rel = "NON_BENEFICIARY" <=> i \in Outside

ReprocessAssumption ==
  /\ People \subseteq Nat \ {Nobody} /\ IsFiniteSet(People)
  /\ Source \in [Batches -> {"RDI", "KOBO"}]
  /\ Own \in [People -> Batches] /\ Outside \subseteq People
  /\ RowId \in [People -> Nat \ {Nobody}]
  /\ Sheet \in [Batches -> [Roles -> Nat]]
  /\ Imported \in [Batches -> [Roles -> People \cup {Nobody}]]
  /\ Parts \in [People -> PartOf] /\ Mapped \in [Mappings -> [People -> PartOf]] /\ Typed \subseteq PartOf
  /\ NoMapping \notin Mappings
  /\ MaxJobs \in Nat
  /\ ImportIsResolved

VARIABLES
  refs,    \* household -> its role references (flex_fields)
  part,    \* individual -> role and relationship (flex_fields)
  mark,    \* household -> "no" (last_checked is None), "valid" or "invalid"
  imark,   \* individual -> checked or not
  merged,  \* households pushed to HOPE, and their members: removed
  job,     \* batch -> its reprocessing job
  left,    \* bound: batch -> reprocessings left
  vjob,    \* batches with a validation job in the queue
  edited,  \* ghost: batches edited since their last reprocessing began
  late     \* ghost: batches pushed while a reprocessing had their records in hand

vars == <<refs, part, mark, imark, merged, job, left, vjob, edited, late>>

Members(b) == {i \in People : Own[i] = b /\ i \notin Outside}
Removed    == {i \in People : i \notin Outside /\ Own[i] \in merged}
LiveOf(b)  == OwnOf(b) \ Removed
Idle       == [at |-> "none", mapping |-> NoMapping, household |-> FALSE, todo |-> {}]
Steps      == {"none", "queued", "households", "individuals", "refs", "transform", "validate", "failed"}
Running(b) == job[b].at \in {"households", "individuals", "refs", "transform", "validate"}
Lowest(S)  == CHOOSE i \in S : \A j \in S : i <= j

Init ==
  /\ refs = Imported /\ part = Parts
  /\ mark = [b \in Batches |-> "no"] /\ imark = [i \in People |-> FALSE]
  /\ merged = {} /\ job = [b \in Batches |-> Idle]
  /\ left = [b \in Batches |-> MaxJobs]
  /\ vjob = {} /\ edited = {} /\ late = {}

-----------------------------------------------------------------------------
(* The job.                                                                *)

\* BatchReprocessForm: the mapping importers of the office and the checker, or none
Offered == Mappings \cup {NoMapping}

\* the button
Request(b) ==
  /\ job[b].at \in {"none", "failed"} /\ left[b] > 0
  /\ \E m \in Offered :
       job' = [job EXCEPT ![b] = [Idle EXCEPT !.at = "queued", !.mapping = m]]
  /\ left' = [left EXCEPT ![b] = @ - 1]
  /\ UNCHANGED <<refs, part, mark, imark, merged, vjob, edited, late>>

\* Mutant of Begin: the households that were pushed as well.
BeginWithMerged(b) ==
  /\ job[b].at = "queued"
  /\ job' = [job EXCEPT ![b].at = "households", ![b].household = TRUE]
  /\ edited' = edited \ {b} /\ late' = late \ {b}
  /\ UNCHANGED <<refs, part, mark, imark, merged, left, vjob>>

(* reprocess_batch: the records are those not removed now.  The jobs of a   *)
(* batch follow one another (lock_job).                                     *)
Begin(b) ==
  /\ job[b].at = "queued"
  /\ job' = [job EXCEPT ![b].at = "households", ![b].household = b \notin merged]
  /\ edited' = edited \ {b} /\ late' = late \ {b}
  /\ UNCHANGED <<refs, part, mark, imark, merged, left, vjob>>

(* PRESERVED_FLEX_FIELDS: what the household keeps of its own fields.  The   *)
(* raw data of a Kobo household has no references.                          *)
Kept(b)    == IF Source[b] = "KOBO" THEN {"primary", "alternate"} ELSE {}
Rebuilt(b) == [r \in Roles |-> IF r \in Kept(b) THEN refs[b][r]
                               ELSE IF Source[b] = "RDI" THEN Sheet[b][r] ELSE Nobody]

Individuals(b) == [job EXCEPT ![b].at = "individuals", ![b].todo = LiveOf(b)]

\* _process_records for the household; the individuals are read next
ProcessHousehold(b) ==
  /\ job[b].at = "households"
  /\ IF job[b].household
       THEN /\ refs' = [refs EXCEPT ![b] = Rebuilt(b)]
            /\ mark' = [mark EXCEPT ![b] = "no"]
       ELSE UNCHANGED <<refs, mark>>
  /\ job' = Individuals(b)
  /\ UNCHANGED <<part, imark, merged, left, vjob, edited, late>>

Processed(b, i) == IF job[b].mapping = NoMapping THEN Parts[i] ELSE Mapped[job[b].mapping][i]

(* enforce_locked_fields: an external collector keeps its structure, and a   *)
(* member does not become one.                                              *)
Enforced(old, new) ==
  IF old.rel = "NON_BENEFICIARY" THEN old
  ELSE IF new.rel = "NON_BENEFICIARY" THEN [new EXCEPT !.rel = old.rel] ELSE new

\* _apply_import_processor for one individual, and the end of its loop
ProcessIndividual(b) ==
  /\ job[b].at = "individuals"
  /\ IF job[b].todo = {}
       THEN /\ job' = [job EXCEPT ![b].at = "refs"]
            /\ UNCHANGED <<part, imark>>
       ELSE LET i == Lowest(job[b].todo)
            IN /\ part' = [part EXCEPT ![i] = Enforced(@, Processed(b, i))]
               /\ imark' = [imark EXCEPT ![i] = FALSE]
               /\ job' = [job EXCEPT ![b].todo = @ \ {i}]
  /\ UNCHANGED <<refs, mark, merged, left, vjob, edited, late>>

\* the individual of the batch that a row reference names
RowOf(b, ref) == RowAmong(LiveOf(b), ref)

\* _sync_rdi_household_refs
SyncRdi(b) == [r \in Roles |-> IF refs[b][r] = Nobody THEN Nobody ELSE RowOf(b, refs[b][r])]

(* _sync_kobo_household_refs: the first member with the role or relationship, *)
(* and otherwise what the household has.                                    *)
With(b, r) == {i \in Members(b) \ Removed :
                 CASE r = "head"      -> part[i].rel = "HEAD"
                   [] r = "primary"   -> part[i].role = "PRIMARY"
                   [] r = "alternate" -> part[i].role = "ALTERNATE"}
SyncKobo(b) == [r \in Roles |-> IF With(b, r) = {} THEN refs[b][r] ELSE Lowest(With(b, r))]

\* _sync_household_refs
Synced(b) == IF Source[b] = "RDI" THEN SyncRdi(b) ELSE SyncKobo(b)

(* run_batch_postprocessing: the update by query touches no mark.  The links *)
(* of collector_id are those of module Collectors.                          *)
SyncRefs(b) ==
  /\ job[b].at = "refs"
  /\ IF b \notin merged THEN refs' = [refs EXCEPT ![b] = Synced(b)] ELSE UNCHANGED refs
  /\ job' = [job EXCEPT ![b].at = "transform"]
  /\ UNCHANGED <<part, mark, imark, merged, left, vjob, edited, late>>

\* apply_batch_transformers: a record that changes loses its mark
Transform(b) ==
  /\ job[b].at = "transform"
  /\ \E h \in BOOLEAN, S \in SUBSET LiveOf(b) :
       /\ mark' = IF h /\ b \notin merged THEN [mark EXCEPT ![b] = "no"] ELSE mark
       /\ imark' = [i \in People |-> imark[i] /\ i \notin S]
  /\ job' = [job EXCEPT ![b].at = "validate"]
  /\ UNCHANGED <<refs, part, merged, left, vjob, edited, late>>

\* create_validation_jobs: the query of the households is evaluated again
Schedule(b) ==
  /\ job[b].at = "validate"
  /\ vjob' = IF job[b].household /\ b \notin merged THEN vjob \cup {b} ELSE vjob
  /\ job' = [job EXCEPT ![b] = Idle]
  /\ UNCHANGED <<refs, part, mark, imark, merged, left, edited, late>>

\* a mapping or transformer that is gone, or a record that cannot be built
Raise(b) ==
  /\ "raise" \in Actions /\ (job[b].at = "queued" \/ Running(b))
  /\ job' = [job EXCEPT ![b] = [Idle EXCEPT !.at = "failed"]]
  /\ UNCHANGED <<refs, part, mark, imark, merged, left, vjob, edited, late>>

\* The worker dies and the message comes back: the job begins again.
Die(b) ==
  /\ "die" \in Actions /\ Running(b) /\ left[b] > 0
  /\ job' = [job EXCEPT ![b] = [Idle EXCEPT !.at = "queued", !.mapping = job[b].mapping]]
  /\ left' = [left EXCEPT ![b] = @ - 1]
  /\ UNCHANGED <<refs, part, mark, imark, merged, vjob, edited, late>>

Job(b) == \/ Begin(b) \/ ProcessHousehold(b) \/ ProcessIndividual(b) \/ SyncRefs(b)
          \/ Transform(b) \/ Schedule(b)

-----------------------------------------------------------------------------
(* Validation, edits and pushes.                                           *)

\* FullHouseholdValidator
Complete(b, r) == /\ r["head"] \in Members(b)
                  /\ r["primary"] # Nobody /\ r["primary"] # r["alternate"]

Checked(b, r) == IF Complete(b, r) THEN "valid" ELSE "invalid"
Family(b, r)  == Members(b) \cup ({r["primary"], r["alternate"]} \cap Outside)

\* Household.validate_with_checker on the page, or the programme's validation
ValidateNow(b) ==
  /\ "validate" \in Actions /\ b \notin merged
  /\ mark' = [mark EXCEPT ![b] = Checked(b, refs[b])]
  /\ imark' = [i \in People |-> imark[i] \/ i \in Family(b, refs[b])]
  /\ UNCHANGED <<refs, part, merged, job, left, vjob, edited, late>>

\* the validation job of the batch, behind the lock of the batch
ValidateBatch(b) ==
  /\ b \in vjob /\ ~Running(b)
  /\ vjob' = vjob \ {b}
  /\ mark' = [mark EXCEPT ![b] = Checked(b, refs[b])]
  /\ imark' = [i \in People |-> imark[i] \/ i \in Family(b, refs[b])]
  /\ UNCHANGED <<refs, part, merged, job, left, edited, late>>

\* the form of the household: BeneficiaryReferenceModelChoiceField offers these
Choices(b) == LiveOf(b) \cup Outside

\* Bound: one edit of a batch between two reprocessings.
MayEdit(b) == b \notin edited

\* _save_flex_fields and save_model of a household
Edit(b) ==
  /\ "edit" \in Actions /\ b \notin merged /\ MayEdit(b)
  /\ \E r \in Roles, i \in Choices(b) :
       LET new == [refs[b] EXCEPT ![r] = i]
       IN /\ new # refs[b] /\ refs' = [refs EXCEPT ![b] = new]
          /\ mark' = [mark EXCEPT ![b] = Checked(b, new)]
          /\ imark' = [j \in People |-> imark[j] \/ j \in Family(b, new)]
  /\ edited' = edited \cup {b}
  /\ UNCHANGED <<part, merged, job, left, vjob, late>>

\* _save_flex_fields of an individual: find_locked_field_changes refuses
EditPerson(i) ==
  /\ "person" \in Actions /\ i \notin Removed /\ MayEdit(Own[i])
  /\ \E p \in Typed : /\ p # part[i] /\ Enforced(part[i], p) = p
                       /\ part' = [part EXCEPT ![i] = p]
  /\ imark' = [imark EXCEPT ![i] = TRUE]
  /\ edited' = edited \cup {Own[i]}
  /\ UNCHANGED <<refs, mark, merged, job, left, vjob, late>>

\* preflight and push of the household, with success: set_rdp_beneficiaries_removed
Push(b) ==
  /\ "push" \in Actions /\ b \notin merged
  /\ mark[b] = "valid" /\ \A i \in Family(b, refs[b]) : imark[i]
  /\ merged' = merged \cup {b}
  /\ late' = IF Running(b) THEN late \cup {b} ELSE late
  /\ UNCHANGED <<refs, part, mark, imark, job, left, vjob, edited>>

Next ==
  \/ \E b \in Batches : \/ Request(b) \/ Begin(b) \/ ProcessHousehold(b) \/ ProcessIndividual(b)
                        \/ SyncRefs(b) \/ Transform(b) \/ Schedule(b) \/ Raise(b) \/ Die(b)
                        \/ ValidateNow(b) \/ ValidateBatch(b) \/ Edit(b) \/ Push(b)
  \/ \E i \in People : EditPerson(i)

Spec == Init /\ [][Next]_vars


-----------------------------------------------------------------------------
(* Properties.                                                             *)

\* The variables have their types, and only a batch whose household was read is scheduled.
TypeOK ==
  /\ refs \in [Batches -> [Roles -> Nat]] /\ part \in [People -> PartOf]
  /\ mark \in [Batches -> {"no", "valid", "invalid"}] /\ imark \in [People -> BOOLEAN]
  /\ merged \subseteq Batches /\ vjob \subseteq Batches
  /\ \A b \in Batches : /\ job[b].at \in Steps /\ job[b].todo \subseteq OwnOf(b)
                        /\ job[b].todo # {} => job[b].at = "individuals"
  /\ edited \subseteq Batches /\ late \subseteq merged

(* docs/src/data_import/batches.md: "Records that have already been pushed   *)
(* to HOPE are excluded from reprocessing": the references of a household    *)
(* that was merged before the reprocessing read it never change.            *)
MergedStay == \A b \in merged \ late : refs'[b] = refs[b]

\* The same, for those that are pushed while a reprocessing is under way as well.
MergedAlwaysStay == [][\A b \in merged : refs'[b] = refs[b]]_<<refs, merged>>

\* No mapping, transformer or edit makes a member an external collector, or the reverse.
OutsideStayOutside == \A i \in People : (part[i].rel = "NON_BENEFICIARY") <=> i \in Outside

(* After a reprocessing to its end, and before an edit, the references of a  *)
(* household of an RDI are those its import had resolved to individuals of   *)
(* the batch; a Kobo household has the first member with the role, if one has *)
(* it, and a head only then.                                                 *)
Settled(b) == job[b].at = "none" /\ left[b] < MaxJobs /\ b \notin edited \cup merged
Restored ==
  \A b \in Batches : Settled(b) =>
    \A r \in Roles :
      CASE Source[b] = "RDI"  -> Imported[b][r] \in OwnOf(b) \cup {Nobody} => refs[b][r] = Imported[b][r]
        [] Source[b] = "KOBO" -> IF With(b, r) # {} THEN refs[b][r] = Lowest(With(b, r))
                                 ELSE r = "head" => refs[b][r] = Nobody

\* All references, those to collectors that another batch shares as well.
KeepsCollectors ==
  \A b \in Batches : Settled(b) => refs[b]["primary"] # Nobody

(* datasources/rdi/processors.py, _sync_ind_pks: no sheet-local reference is *)
(* kept in place, since it would be read as a primary key.  Here: once no    *)
(* reprocessing is under way.                                                *)
NoSheetIds == \A b \in Batches, r \in Roles :
  ~Running(b) /\ refs[b][r] # Nobody => refs[b][r] \in People /\ (refs[b][r] \in Outside \/ Own[refs[b][r]] = b)

\* structural_fields.py: the role references are derived again from a member's role.
RolesAgree ==
  \A b \in Batches : Settled(b) => LET i == refs[b]["primary"] IN
    i \in Members(b) => part[i].role = "PRIMARY"

(* A household that counts as valid has a head among its members and a primary *)
(* collector; that of an RDI whose import took the collector from another      *)
(* batch may not: one that is validated while its references are those of the  *)
(* sheet keeps the mark when the collector is dropped.                         *)
OfItsBatch(b) == Imported[b]["head"] \in Members(b) /\ Imported[b]["primary"] \in OwnOf(b)
MarkIsRight(b) == mark[b] = "valid" /\ (Source[b] = "RDI" => OfItsBatch(b)) => Complete(b, refs[b])
ValidIsComplete == \A b \in Batches : MarkIsRight(b)

\* A household that was reprocessed is validated, unless it was pushed or the job failed.
Scheduled(b) == job[b].at = "queued"
Treated(b)   == mark[b] # "no" \/ b \in merged \/ job[b].at = "failed"

(* These properties are inductive, as long as nobody edits a household, with  *)
(* what the references of a household are between the steps of its job: those *)
(* of the sheet before they are resolved, the restored ones after.            *)
Fresh(b) == IF Source[b] = "RDI" THEN refs[b] = Sheet[b] ELSE refs[b]["head"] = Nobody
RestoredRdi(b, rs) == \A r \in Roles : Imported[b][r] \in OwnOf(b) \cup {Nobody} => rs[r] = Imported[b][r]
RestoredKobo(b, rs) == \A r \in Roles : IF With(b, r) # {} THEN rs[r] = Lowest(With(b, r))
                                       ELSE r = "head" => rs[r] = Nobody
IsRestored(b) == IF Source[b] = "RDI" THEN RestoredRdi(b, refs[b]) ELSE RestoredKobo(b, refs[b])

JobType ==
  /\ job \in [Batches -> [at : Steps, mapping : Offered, household : BOOLEAN, todo : SUBSET People]]
  /\ \A b \in Batches : job[b].todo \subseteq OwnOf(b)

JobInv(b) ==
  /\ Running(b) => job[b].household \/ b \in merged
  /\ Running(b) /\ job[b].household /\ b \in merged => b \in late
  /\ job[b].at \in {"individuals", "refs"} /\ b \notin merged => Fresh(b)
  /\ b \notin merged /\ (job[b].at \in {"transform", "validate"} \/ Settled(b)) => IsRestored(b)

AgainInv ==
  /\ DOMAIN refs = Batches /\ DOMAIN mark = Batches /\ DOMAIN part = People
  /\ JobType /\ left \in [Batches -> 0..MaxJobs] /\ merged \subseteq Batches
  /\ \A b \in Batches : JobInv(b) /\ MarkIsRight(b)

EditedInv == part \in [People -> PartOf] /\ JobType /\ OutsideStayOutside
=============================================================================
