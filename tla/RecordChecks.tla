----------------------------- MODULE RecordChecks -----------------------------
(***************************************************************************)
(* The data of the beneficiary records of a program and the mark that says  *)
(* it was checked: the validation jobs, the edit form, the mass, regex,     *)
(* concatenation and name updates, the bulk update by spreadsheet and the   *)
(* invalidation after a change of the DataChecker, all at the same time.    *)
(*                                                                          *)
(* Every writer works on the record it read.  The edits are the actors':    *)
(* the data of a record is the set of the edits it contains, and who writes *)
(* the data he read, with his edit, loses the edits saved in between.  The  *)
(* version field is that of django-concurrency: a full save verifies and    *)
(* increments it, a save of named fields verifies it, an update by query    *)
(* (bulk_update, update) does neither.                                      *)
(***************************************************************************)
EXTENDS Naturals, FiniteSets

CONSTANTS
  Actors,      \* the jobs and requests; also the edits they make
  Records,
  Parents,     \* the households; the other records are their members
  Members,     \* [Parents -> SUBSET Records]: members and external collectors
  Collided,    \* the records with an identity error of their import
  Ops,         \* the operations of the instance
  Refused,     \* the edits refused by a DataChecker: [0..MaxChecker -> SUBSET Actors]
  MaxChecker   \* bound on the changes of the DataChecker

AllOps == {"validate", "form", "mass", "regex", "sheet"}

RecordAssumption ==
  /\ Parents \subseteq Records /\ Collided \subseteq Records
  /\ Members \in [Parents -> SUBSET (Records \ Parents)]
  /\ Ops \subseteq AllOps /\ MaxChecker \in Nat
  /\ Refused \in [0..MaxChecker -> SUBSET Actors]
  /\ IsFiniteSet(Actors)

VARIABLES
  rec,      \* the records: flex_fields, version, last_checked # None, errors
  checker,  \* the version of the DataChecker of the program
  act,      \* the actors
  stale,    \* ghost: records last validated from data or a checker that had changed
  unmarked  \* ghost: records whose data changed since they were validated, the mark left

vars == <<rec, checker, act, stale, unmarked>>

Errors  == {"form", "members", "identity", "data_checker"}
Record  == [data : SUBSET Actors, version : Nat, checked : BOOLEAN, errors : SUBSET Errors]
Idle    == [op |-> "none", rec |-> "none", at |-> "new"]
Family(r) == {r} \cup IF r \in Parents THEN Members[r] ELSE {}

FormErrors(data, c) == IF data \cap Refused[c] # {} THEN {"form"} ELSE {}
IsValid(r) == rec[r].checked /\ rec[r].errors = {}
Accepted(r) == FormErrors(rec[r].data, checker) = {}

Init ==
  /\ rec = [r \in Records |-> [data |-> {}, version |-> 1, checked |-> FALSE,
                               errors |-> IF r \in Collided THEN {"identity"} ELSE {}]]
  /\ checker = 0 /\ act = [w \in Actors |-> Idle] /\ stale = {} /\ unmarked = {}

-----------------------------------------------------------------------------
(* An actor begins: it reads the records (for the form and the sheet, the  *)
(* page or the file its user works on).  A validation reads the family of   *)
(* the record and the DataChecker of the program.                           *)
Read(w, op, r) ==
  /\ act[w].at = "new" /\ op \in Ops
  /\ act' = [act EXCEPT ![w] =
       [op |-> op, rec |-> r, at |-> "read", snap |-> [s \in Family(r) |-> rec[s]],
        checker |-> checker, todo |-> Family(r) \ {r}, failed |-> FALSE]]
  /\ UNCHANGED <<rec, checker, stale, unmarked>>

Reads(w, op) == act[w].op = op /\ act[w].at = "read"
Ends(w) == act' = [act EXCEPT ![w] = [Idle EXCEPT !.at = "done"]]

Current(w, r) == rec[r].version = act[w].snap[r].version

(* A save of named fields of a record that was saved in full since it was *)
(* read raises and ends the job.                                           *)
Conflict(w) ==
  /\ \/ act[w].op \in {"validate", "mass"} /\ act[w].at = "read" /\ ~Current(w, act[w].rec)
     \/ act[w].at = "members" /\ \E m \in act[w].todo : ~Current(w, m)
     \/ act[w].at = "members" /\ act[w].todo = {} /\ ~Current(w, act[w].rec)
  /\ Ends(w)
  /\ UNCHANGED <<rec, checker, stale, unmarked>>

(* Validable.validate_with_checker: the errors are written when they differ *)
(* from those read, the data when the form cleans it to something else.     *)
Validated(w, r, cleans) ==
  LET snap == act[w].snap[r]
      new  == FormErrors(snap.data, act[w].checker)
  IN [rec[r] EXCEPT !.data    = IF cleans THEN snap.data ELSE @,
                    !.checked = TRUE,
                    !.errors  = IF new # snap.errors THEN new ELSE @]

(* What the ghosts know of a record that w validates. *)
Marks(w, r) ==
  /\ stale' = IF rec[r] = act[w].snap[r] /\ checker = act[w].checker THEN stale \ {r} ELSE stale \cup {r}
  /\ unmarked' = unmarked \ {r}

(* The record itself; the members of a household follow.  An identity error *)
(* that was read is written back, on an individual at once.                 *)
CheckRecord(w) ==
  /\ Reads(w, "validate")
  /\ LET r == act[w].rec
         identity == r \notin Parents /\ "identity" \in act[w].snap[r].errors
     IN /\ Current(w, r)
        /\ \E cleans \in BOOLEAN :
             rec' = [rec EXCEPT ![r] =
               LET new == Validated(w, r, cleans)
               IN IF identity THEN [new EXCEPT !.errors = FormErrors(act[w].snap[r].data, act[w].checker) \cup {"identity"}]
                              ELSE new]
        /\ Marks(w, r)
        /\ IF r \in Parents THEN act' = [act EXCEPT ![w].at = "members"] ELSE Ends(w)
  /\ UNCHANGED checker

(* A member of the household that is validated; the identity error it keeps *)
(* is that of record `of`.                                                   *)
CheckMemberAs(w, m, of) ==
  /\ act[w].at = "members" /\ m \in act[w].todo /\ Current(w, m)
  /\ LET new  == FormErrors(act[w].snap[m].data, act[w].checker)
         kept == act[w].snap[of].errors \cap {"identity"}
     IN /\ \E cleans \in BOOLEAN :
             rec' = [rec EXCEPT ![m] =
               IF kept = {} THEN Validated(w, m, cleans)
                            ELSE [Validated(w, m, cleans) EXCEPT !.errors = new \cup kept]]
        /\ Marks(w, m)
        /\ act' = [act EXCEPT ![w].todo = @ \ {m}, ![w].failed = @ \/ new \cup kept # {}]
  /\ UNCHANGED checker

CheckMember(w) == \E m \in Records : CheckMemberAs(w, m, m)

(* The household is saved again when a member failed or it had an identity *)
(* error: with the errors of its own validation and these.                  *)
CloseHousehold(w) ==
  /\ act[w].at = "members" /\ act[w].todo = {}
  /\ LET h == act[w].rec
         kept == act[w].snap[h].errors \cap {"identity"}
         more == kept \cup IF act[w].failed THEN {"members"} ELSE {}
     IN /\ more = {} \/ Current(w, h)
        /\ rec' = IF more = {} THEN rec
                  ELSE [rec EXCEPT ![h].checked = TRUE,
                                   ![h].errors = FormErrors(act[w].snap[h].data, act[w].checker) \cup more]
        /\ stale' = IF rec[h].data # act[w].snap[h].data \/ checker # act[w].checker
                    THEN stale \cup {h} ELSE stale
  /\ Ends(w)
  /\ UNCHANGED <<checker, unmarked>>

(* The worker dies, or the job is terminated, between two saves. *)
Die(w) ==
  /\ act[w].at = "members"
  /\ Ends(w)
  /\ UNCHANGED <<rec, checker, stale, unmarked>>

-----------------------------------------------------------------------------
(* The edit form: the fields of the page are saved on the record as it is   *)
(* now, and the family is validated, in one transaction.                    *)
FormErrorsOf(s, data) == FormErrors(data, checker) \cup (rec[s].errors \cap {"identity"})
SubmitForm(w) ==
  /\ Reads(w, "form")
  /\ LET r == act[w].rec
         data == [s \in Family(r) |-> IF s = r THEN act[w].snap[r].data \cup {w} ELSE rec[s].data]
         failed == \E s \in Family(r) \ {r} : FormErrorsOf(s, data[s]) # {}
     IN /\ rec' = [s \in Records |->
             IF s \notin Family(r) THEN rec[s]
             ELSE [data |-> data[s], checked |-> TRUE,
                   version |-> IF s = r THEN rec[s].version + 1 ELSE rec[s].version,
                   errors |-> FormErrorsOf(s, data[s]) \cup IF s = r /\ failed THEN {"members"} ELSE {}]]
        /\ stale' = stale \ Family(r) /\ unmarked' = unmarked \ Family(r)
  /\ Ends(w)
  /\ UNCHANGED checker

(* mass_update_impl saves the flexible fields and nothing else. *)
MassUpdate(w) ==
  /\ Reads(w, "mass") /\ Current(w, act[w].rec)
  /\ rec' = [rec EXCEPT ![act[w].rec].data = act[w].snap[act[w].rec].data \cup {w}]
  /\ unmarked' = unmarked \cup {act[w].rec}
  /\ Ends(w)
  /\ UNCHANGED <<checker, stale>>

(* regex_update_impl, concatenate_field_impl, name_parser_impl: bulk_update. *)
RegexUpdate(w) ==
  /\ Reads(w, "regex")
  /\ rec' = [rec EXCEPT ![act[w].rec].data = act[w].snap[act[w].rec].data \cup {w}]
  /\ unmarked' = unmarked \cup {act[w].rec}
  /\ Ends(w)
  /\ UNCHANGED <<checker, stale>>

(* import_bulk_update_file under CONCURRENCY_GUARD: a row is refused when    *)
(* its version is not that of the record; its columns, all of the data or    *)
(* the edited ones, replace those of the record, which is to be checked.     *)
Sheet(w, guard, resets) ==
  /\ Reads(w, "sheet")
  /\ LET r == act[w].rec
     IN \/ /\ guard => rec[r].version = act[w].snap[r].version
           /\ \E data \in {act[w].snap[r].data, rec[r].data} :
                rec' = [rec EXCEPT ![r].data = data \cup {w},
                                   ![r].checked = IF resets THEN FALSE ELSE @,
                                   ![r].errors = {}]
           /\ unmarked' = IF resets THEN unmarked \ {r} ELSE unmarked
        \/ /\ guard /\ rec[r].version # act[w].snap[r].version
           /\ UNCHANGED <<rec, unmarked>>
  /\ Ends(w)
  /\ UNCHANGED <<checker, stale>>

\* Mutant of ImportSheet: the record stays marked as checked.
ImportUnreset(w) == Sheet(w, TRUE, FALSE)

ImportSheet(w) == Sheet(w, TRUE, TRUE)

(* The DataChecker changes, or the program gets another one: the checked    *)
(* records of the program are invalidated in the same transaction.          *)
ChangeChecker ==
  /\ checker < MaxChecker
  /\ checker' = checker + 1
  /\ rec' = [r \in Records |->
       IF rec[r].checked THEN [rec[r] EXCEPT !.checked = FALSE, !.errors = {"data_checker"}] ELSE rec[r]]
  /\ UNCHANGED <<act, stale, unmarked>>

Step(w) ==
  \/ \E op \in Ops, r \in Records : Read(w, op, r)
  \/ Conflict(w) \/ CheckRecord(w) \/ CheckMember(w) \/ CloseHousehold(w) \/ Die(w)
  \/ SubmitForm(w) \/ MassUpdate(w) \/ RegexUpdate(w) \/ ImportSheet(w)

Next == ChangeChecker \/ \E w \in Actors : Step(w)

Spec == Init /\ [][Next]_vars

-----------------------------------------------------------------------------
(* Properties *)

(* The type invariant; identity errors appear only on the records that got *)
(* one when they were imported.                                            *)
TypeOK ==
  /\ rec \in [Records -> [data : SUBSET Actors, version : 1..(1 + Cardinality(Actors)),
                          checked : BOOLEAN, errors : SUBSET Errors]]
  /\ \A r \in Records : "identity" \in rec[r].errors => r \in Collided
  /\ checker \in 0..MaxChecker
  /\ \A w \in Actors : act[w].op \in {"none"} \cup Ops /\ act[w].at \in {"new", "read", "members", "done"}
  /\ stale \subseteq Records /\ unmarked \subseteq Records

(* A record that counts as valid (last_checked set, no errors: what the     *)
(* preflight of an RDP asks) has data that the current DataChecker accepts, *)
(* but for two causes: an update that changed the data and left the mark    *)
(* (MassUpdate, RegexUpdate), or a validation whose record or DataChecker   *)
(* changed while it ran.  Imports, forms, invalidation, members and workers *)
(* that die in a household never are one.                                   *)
ValidIsAccepted == \A r \in Records \ (stale \cup unmarked) : IsValid(r) => Accepted(r)

(* CONCURRENCY_GUARD: a spreadsheet never overwrites an edit that a user    *)
(* saved in the form after the export.                                      *)
FormEditsSurviveImport ==
  \A w, u \in Actors, r \in Records :
    /\ Reads(w, "sheet") /\ act'[w].at = "done" /\ act[w].rec = r
    /\ u \in rec[r].data /\ rec[r].version > act[w].snap[r].version
    => u \in rec'[r].data

(* What docs/src/data_cleaning_updates.md says of the guard: a spreadsheet   *)
(* never overwrites what changed after its export.  Regex, concatenation,    *)
(* name and mass updates leave the version, and are overwritten.             *)
ImportLosesNothing ==
  [][\A w \in Actors, r \in Records :
       Reads(w, "sheet") /\ act'[w].at = "done" => rec[r].data \subseteq rec'[r].data]_vars

(* What models/individual.py and household.py say of validation: it          *)
(* preserves identity errors.  It does not if the worker dies between the    *)
(* first save of a household, without the error, and the last, which puts it *)
(* back, or if another validation reads the household in between.            *)
IdentityStays ==
  (\A w \in Actors : act[w].at # "members") => \A r \in Collided : "identity" \in rec[r].errors

(* What a valid record is worth: its data was accepted by the DataChecker    *)
(* (docs/src/data_cleaning_updates.md: validation "ensures that the record   *)
(* meets the required data standards").                                      *)
ValidMeetsStandards == \A r \in Records : IsValid(r) => Accepted(r)

(* ValidIsAccepted and the types are inductive with this: what an actor read *)
(* has the types of records, its identity errors are those of the import, and *)
(* every version beyond the first is the form of an actor that has ended.     *)
Rows == {e \in [Records -> Record] : \A r \in Records : "identity" \in e[r].errors => r \in Collided}
Copied(r) == {e \in [Family(r) -> Record] :
                \A s \in Family(r) : "identity" \in e[s].errors => s \in Collided}
Ended == {w \in Actors : act[w].at = "done"}

AtWork(r) == [op : Ops, rec : {r}, at : {"read", "members"}, snap : Copied(r),
              checker : 0..MaxChecker, todo : SUBSET (Family(r) \ {r}), failed : BOOLEAN]

ChecksInv ==
  /\ rec \in Rows /\ \A r \in Records : rec[r].version \in 1..(1 + Cardinality(Ended))
  /\ checker \in 0..MaxChecker /\ stale \subseteq Records /\ unmarked \subseteq Records
  /\ DOMAIN act = Actors
  /\ \A w \in Actors : \/ act[w] \in {Idle, [Idle EXCEPT !.at = "done"]}
                       \/ \E r \in Records : act[w] \in AtWork(r)
  /\ ValidIsAccepted
=============================================================================
