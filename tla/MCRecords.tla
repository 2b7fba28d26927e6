------------------------------ MODULE MCRecords ------------------------------
(*****************************************************************************)
(* What happens to the records of a batch: the identity check of its import   *)
(* (BatchIdentity), validations, forms, updates and spreadsheets              *)
(* (RecordChecks, Cleaners), the runs of a validation and its report          *)
(* (ValidationRun), and reprocessing (Reprocess). A behaviour is one of one of*)
(* these components, as in MCImports.                                         *)
(*****************************************************************************)
EXTENDS BatchIdentity, TLC

CONSTANTS
  Components,   \* the components that the run exercises
  Beneficiaries, Actors, Parents, HouseholdMembers, Collided, RefusedEdits, MaxChecker,   \* of RecordChecks
  Updated, FieldTypes, FirstData, Exported, TypedCells, UpdateJobs, ReadableCells,   \* of Cleaners
  UpperCase, LowerCase, NameParts, MaxUpdates, MaxUpdateCrashes,
  Chunks, MaxSize, MaxDeletes, MaxRedeliver, MaxExpire,         \* of ValidationRun
  Batches, SourceOf, People, BatchOf, Outside, RowNumber, Sheets, ImportedRefs,   \* of Reprocess
  RawParts, Mappings, MappedParts, TypedParts, NoMapping, Reprocessings,
  w1, w2, hh, ind, r1, r2

(* RecordChecks: the first edit is refused by the first DataChecker, the      *)
(* second by the second one.                                                  *)
RefusedBy == (0 :> {w1}) @@ (1 :> {w2})
MembersOf == hh :> {ind}

(* Cleaners: two records with a name, its first part, a truth value, a list,  *)
(* a date, the head of a household and a photo.                               *)
TypeOf == [name |-> "text", given |-> "text", consent |-> "bool", langs |-> "many",
           born |-> "date", head |-> "reference", photo |-> "file"]
Value(type, words) == [type |-> type, words |-> words]
Full == [name |-> Value("str", <<"ann", "lee">>), given |-> Value("str", <<>>),
         consent |-> Value("bool", <<"False">>), langs |-> Value("list", <<"ann", "lee">>),
         born |-> Value("str", <<"2000">>), head |-> Value("str", <<"7">>), photo |-> Value("file", <<"f">>)]
FirstIs == (r1 :> Full) @@ (r2 :> [Full EXCEPT !.given = Value("absent", <<>>), !.consent = Value("bool", <<"True">>)])
Null == Value("null", <<>>)
ReadableAs == [date |-> {<<"2000">>}, reference |-> {<<"7">>}]
Typings == [text |-> {Value("int", <<"7">>)}, bool |-> {}, many |-> {Null}, date |-> {Value("str", <<"7">>)},
            reference |-> {Null}, file |-> {Value("str", <<"f">>)}]
Words == {"ann", "lee", "ANN", "LEE", "7", "2000", "f", "True", "False"}
UpperOf  == [w \in Words |-> CASE w = "ann" -> "ANN" [] w = "lee" -> "LEE" [] OTHER -> w]
LowerOf  == [w \in Words |-> CASE w = "ANN" -> "ann" [] w = "LEE" -> "lee" [] OTHER -> w]
ParsedAs == [w \in Words |-> IF w \in {"ann", "ANN"} THEN "given_name" ELSE "family_name"]
Both == {r1, r2}
Starting == {FirstIs}
Selecting == {Both}
Mass(f, how, v, create) ==
  [op |-> "mass", pks |-> Both, field |-> f, how |-> how, value |-> v, create |-> create]
Jobs ==
  {Mass("given", "upper", Null, FALSE), Mass("name", "lower", Null, FALSE), Mass("given", "set null", Null, FALSE),
   Mass("consent", "toggle", Null, FALSE), Mass("given", "set", Value("str", <<"ann">>), TRUE),
   [op |-> "regex", pks |-> {r1}, field |-> "given", from |-> "ann", to |-> "lee"],
   [op |-> "concatenate", pks |-> Both, field |-> "given", pattern |-> <<"given", "name">>, onlyEmpty |-> TRUE],
   [op |-> "concatenate", pks |-> Both, field |-> "name", pattern |-> <<"name", "given">>, onlyEmpty |-> FALSE],
   [op |-> "names", pks |-> Both, source |-> "name", fields |-> [given |-> "given_name"]],
   [op |-> "checksum", pks |-> Both], [op |-> "validate", pks |-> Both]}

(* Reprocess: batch 1 has the head 1 and the external collector 3 in row 2,   *)
(* batch 2 the head 2 and the member 4; collector 3 was created by the first. *)
SourceIs == <<"RDI", "KOBO">>
BatchIs  == <<1, 2, 1, 2>>
RowIs    == <<1, 1, 2, 3>>
SheetOf == [b \in 1..2 |-> [head |-> 1, primary |-> 2, alternate |-> IF b = 2 THEN 3 ELSE 0]]
ImportedBy == <<[head |-> 1, primary |-> 3, alternate |-> 0], [head |-> 2, primary |-> 3, alternate |-> 4]>>
Role(r, s) == [role |-> r, rel |-> s]
PartOf == <<Role("NONE", "HEAD"), Role("NONE", "HEAD"), Role("PRIMARY", "NON_BENEFICIARY"), Role("ALTERNATE", "MEMBER")>>
MappedTo == [other |-> <<Role("PRIMARY", "HEAD"), Role("PRIMARY", "NON_BENEFICIARY"),
                         Role("NONE", "MEMBER"), Role("NONE", "MEMBER")>>]
TypedBy == {Role("PRIMARY", "MEMBER"), Role("NONE", "NON_BENEFICIARY")}

VARIABLES component, v1, v2, v3, v4, v5, v6, v7, v8, v9, v10

slots == <<v1, v2, v3, v4, v5, v6, v7, v8, v9, v10>>
all == <<component, slots, vars>>
In(part) == component = part

Checks == INSTANCE RecordChecks WITH Records <- Beneficiaries, Members <- HouseholdMembers,
  Refused <- RefusedEdits, Ops <- {"validate", "form", "mass", "regex", "sheet"}, rec <- v1,
  checker <- v2, act <- v3, stale <- v4, unmarked <- v5
ChecksInit == In("Checks") /\ Checks!Init /\ v6 = 0 /\ v7 = 0 /\ v8 = 0 /\ v9 = 0 /\ v10 = 0
ChecksNext == In("Checks") /\ Checks!Next /\ UNCHANGED <<component, vars, v6, v7, v8, v9, v10>>

Updates == INSTANCE Cleaners WITH Records <- Updated, Types <- FieldTypes, Starts <- FirstData,
  Selections <- Exported, Inputs <- TypedCells, Configs <- UpdateJobs,
  Readable <- ReadableCells, Upper <- UpperCase, Lower <- LowerCase, Parse <- NameParts,
  MaxJobs <- MaxUpdates, MaxCrashes <- MaxUpdateCrashes, data <- v1, digest <- v2, live <- v3,
  jobs <- v4, sheet <- v5, last <- v6, crashes <- v7
UpdatesInit == In("Updates") /\ Updates!Init /\ v8 = 0 /\ v9 = 0 /\ v10 = 0
UpdatesNext == In("Updates") /\ Updates!Next /\ UNCHANGED <<component, vars, v8, v9, v10>>

Validation == INSTANCE ValidationRun WITH run <- v1, records <- v2, at <- v3, found <- v4,
  cache <- v5, reports <- v6, faults <- v7
ValidationInit == In("Validation") /\ Validation!Init /\ v8 = 0 /\ v9 = 0 /\ v10 = 0
ValidationNext == In("Validation") /\ Validation!Next
    /\ UNCHANGED <<component, vars, v8, v9, v10>>

Again == INSTANCE Reprocess WITH Source <- SourceOf, Own <- BatchOf, RowId <- RowNumber,
  Sheet <- Sheets, Imported <- ImportedRefs, Parts <- RawParts, Mapped <- MappedParts,
  Typed <- TypedParts, Actions <- {"validate", "push", "die", "raise"},
  MaxJobs <- Reprocessings, refs <- v1, part <- v2, mark <- v3, imark <- v4, merged <- v5,
  job <- v6, left <- v7, vjob <- v8, edited <- v9, late <- v10
AgainInit == In("Again") /\ Again!Init
AgainNext == In("Again") /\ Again!Next /\ UNCHANGED <<component, vars>>

Edited == INSTANCE Reprocess WITH Source <- SourceOf, Own <- BatchOf, RowId <- RowNumber,
  Sheet <- Sheets, Imported <- ImportedRefs, Parts <- RawParts, Mapped <- MappedParts,
  Typed <- TypedParts, Actions <- {"edit", "person"}, MaxJobs <- Reprocessings, refs <- v1,
  part <- v2, mark <- v3, imark <- v4, merged <- v5, job <- v6, left <- v7, vjob <- v8,
  edited <- v9, late <- v10
EditedInit == In("Edited") /\ Edited!Init
EditedNext == In("Edited") /\ Edited!Next /\ UNCHANGED <<component, vars>>

(* One of the states a batch may begin with, for the other components.        *)
Single == \A r \in Records : rec[r].value = Blank
BatchIdentityInit == In("BatchIdentity") /\ v1 = 0 /\ v2 = 0 /\ v3 = 0 /\ v4 = 0 /\ v5 = 0
    /\ v6 = 0 /\ v7 = 0 /\ v8 = 0 /\ v9 = 0 /\ v10 = 0
BatchIdentityNext == In("BatchIdentity") /\ Next /\ UNCHANGED <<component, slots>>

InitAll ==
  /\ component \in Components /\ Init /\ (~In("BatchIdentity") => Single)
  /\ \/ BatchIdentityInit \/ ChecksInit \/ UpdatesInit \/ ValidationInit \/ AgainInit
     \/ EditedInit
NextAll ==
  \/ BatchIdentityNext \/ ChecksNext \/ UpdatesNext \/ ValidationNext \/ AgainNext \/ EditedNext
SpecAll == InitAll /\ [][NextAll]_all

ASSUME BoundsAssumption ==
  Checks!RecordAssumption /\ Updates!CleanersAssumption /\ Validation!ValidationAssumption
    /\ Again!ReprocessAssumption /\ Edited!ReprocessAssumption

------------------------------------------------------------------------------
(* The type invariants of the components.                                     *)
TypesOK ==
  /\ TypeOK
  /\ In("Checks") => Checks!TypeOK
  /\ In("Updates") => Updates!TypeOK
  /\ In("Validation") => Validation!TypeOK
  /\ In("Again") => Again!TypeOK
  /\ In("Edited") => Edited!TypeOK

(* A verdict is worth something: a record that counts as valid has data the   *)
(* DataChecker accepts, and a household that does has a head and a collector. *)
VerdictsAreRight ==
  /\ In("Checks") => Checks!ValidIsAccepted
  /\ In("Again") => Again!ValidIsComplete

(* Updates of many records are safe: a spreadsheet comes back as it went out  *)
(* and overwrites no edit of a form, a job that is delivered again changes    *)
(* nothing more, a mass update leaves nobody out and the checksum follows;    *)
(* and a validation of many records reports, once, what all its jobs found.   *)
UpdatesAreSafe ==
  /\ [](In("Validation") => Validation!ReportIsRight)
  /\ [][/\ In("Checks") => Checks!FormEditsSurviveImport
        /\ In("Updates") => /\ Updates!RoundTrip /\ Updates!SteadyOnce
                            /\ Updates!WholeOrNothing /\ Updates!ChecksumFollows]_all

(* After a reprocessing a household has the references its import gave it,    *)
(* who was an external collector is one still, and what was merged before it  *)
(* began is left alone.                                                       *)
BatchesRestored ==
  /\ [](/\ In("Again") => Again!Restored
        /\ In("Edited") => Edited!OutsideStayOutside)
  /\ [][In("Again") => Again!MergedStay]_all
==============================================================================
