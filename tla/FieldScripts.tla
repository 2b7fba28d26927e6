---------------------------- MODULE FieldScripts ----------------------------
(***************************************************************************)
(* What the upgrade scripts do to the flex fields: definitions, fieldsets,   *)
(* their fields and the checkers they are linked to.  Versioning models how  *)
(* the scripts are run; here one step applies or discharges one script.      *)
(* One name stands for fields that every script treats alike: admin1 for     *)
(* the four areas, national_id_no for the national id, size for the counts.  *)
(***************************************************************************)
EXTENDS Naturals, Sequences, FiniteSets

CONSTANTS
  OwnDefs,    \* definitions that staff use for a field of their own
  Floor,      \* the lowest script that staff go back to
  MaxDowns    \* bound on the changes of direction

Scripts == <<"0001", "0002", "0003", "0004", "0005", "0006", "0007", "0008", "0009", "0010",
  "0011", "0012", "0013_change", "0013_remove", "0014", "0015", "0016", "0017", "0018", "0019",
  "0020", "0021", "0022", "0023", "0024", "0025", "0026", "0027", "0028", "0029", "0030", "0031",
  "0032_add", "0032_role", "0033", "0034", "0035">>

Top == Len(Scripts)

ScriptsAssumption ==
  /\ IsFiniteSet(OwnDefs) /\ Floor \in 1..Top /\ MaxDowns \in Nat

VARIABLES
  db,       \* definitions, fields and links; ok is false after a script raised
  at,       \* how many scripts are applied
  up,       \* the direction of the last step
  downs,
  seen      \* the fields there were when a script was applied first

vars == <<db, at, up, downs, seen>>

HH == "HOPE Household core"
IND == "HOPE Individual core"
PPL == "HOPE People core"
BASE == "HOPE Individual core base"
AREAS == "HOPE Admin Areas"
DOC == "HOPE Document"
ACC == "HOPE Account"
OWN == "Own"

Empty == [defs |-> {}, fields |-> {}, links |-> {}, ok |-> TRUE]

Init ==
  /\ db = Empty /\ at = 0 /\ up = TRUE /\ downs = 0
  /\ seen = [s \in 1..Top |-> {}]

-----------------------------------------------------------------------------
(* Definitions: [name, type]. *)
Def(n, t) == [name |-> n, type |-> t]
DefNames(d) == {x.name : x \in d.defs}
OfType(d, t) == {x.name : x \in {y \in d.defs : y.type = t}}

(* get_or_create by name. *)
Ensure(d, new) == [d EXCEPT !.defs = @ \cup {x \in new : x.name \notin DefNames(d)}]

(* The same with the type among the lookups: the name is unique. *)
Create(d, new) ==
  [Ensure(d, new) EXCEPT !.ok = @ /\ \A x \in new : x.name \in DefNames(d) => x \in d.defs]

(* update_or_create. *)
Set(d, new) == [d EXCEPT !.defs = {x \in @ : x.name \notin {y.name : y \in new}} \cup new]

Retype(d, names, t) ==
  [d EXCEPT !.defs = {IF x.name \in names THEN Def(x.name, t) ELSE x : x \in @}]

(* The fields of a definition go with it. *)
Delete(d, names) ==
  [d EXCEPT !.defs = {x \in @ : x.name \notin names}, !.fields = {f \in @ : f.def \notin names}]

Unused(d, names) == names \ {f.def : f \in d.fields}

DeleteUnused(d, names) == Delete(d, Unused(d, names))

RenameDef(d, old, new) ==
  [d EXCEPT !.defs = {IF x.name = old THEN Def(new, x.type) ELSE x : x \in @},
            !.fields = {IF f.def = old THEN [f EXCEPT !.def = new] ELSE f : f \in @}]

(* Fields: [fs, name, def, label]; the label is none, the one of script 0026 *)
(* or another.  A specification of a field has no fieldset.                  *)
Spec3(n, t, l) == [name |-> n, def |-> t, label |-> l]

Lacks(d, specs) == \E s \in specs : s.def \notin DefNames(d)

(* update_or_create on the fields of a fieldset. *)
Put(d, fs, specs) ==
  [d EXCEPT !.fields = {f \in @ : f.fs = fs => f.name \notin {s.name : s \in specs}}
              \cup {[fs |-> fs, name |-> s.name, def |-> s.def, label |-> s.label] : s \in specs},
            !.ok = @ /\ ~Lacks(d, specs)]

(* The same when only the definition is among the defaults. *)
Point(d, fs, specs) ==
  LET old(s) == {f.label : f \in {g \in d.fields : g.fs = fs /\ g.name = s.name}} IN
  Put(d, fs, {[s EXCEPT !.label = IF old(s) = {} THEN "none" ELSE CHOOSE l \in old(s) : TRUE] : s \in specs})

(* get_or_create by name and definition; the name is unique in a fieldset. *)
Missing(d, fs, specs) ==
  LET there(s) == \E f \in d.fields : f.fs = fs /\ f.name = s.name /\ f.def = s.def IN
  LET rest == {s \in specs : ~there(s)} IN
  [Put(d, fs, rest) EXCEPT
     !.ok = @ /\ \A s \in rest : \A f \in d.fields : f.fs = fs => f.name # s.name]

Remove(d, fs, names) == [d EXCEPT !.fields = {f \in @ : f.fs = fs => f.name \notin names}]

RemoveFieldsets(d, fss) ==
  [d EXCEPT !.fields = {f \in @ : f.fs \notin fss}, !.links = {l \in @ : l[2] \notin fss}]

(* Every field with one of the names, whatever its fieldset, unless the      *)
(* fieldset has a field with the new name.                                   *)
Rename(d, map) ==
  LET taken(f) == \E g \in d.fields : g.fs = f.fs /\ g.name = map[f.name] IN
  [d EXCEPT !.fields = {IF f.name \in DOMAIN map /\ ~taken(f)
                        THEN [f EXCEPT !.name = map[f.name]] ELSE f : f \in @}]

Labelled(d, names, l) ==
  [d EXCEPT !.fields = {IF f.name \in names THEN [f EXCEPT !.label = l] ELSE f : f \in @}]

Linked(d, links) == [d EXCEPT !.links = @ \cup links]

(* objects.get(field_type=...) wants exactly one definition. *)
Only(d, t) == CHOOSE n \in OfType(d, t) : TRUE
GetFails(d, types) == \E t \in types : Cardinality(OfType(d, t)) # 1
Raised(d) == [d EXCEPT !.ok = FALSE]
-----------------------------------------------------------------------------
(* 0001: a definition for every class of the registry.                       *)
Registered == {Def("CharField", "Char"), Def("DateField", "Date"), Def("BooleanField", "Bool"),
  Def("IntegerField", "Int"), Def("ChoiceField", "Choice"), Def("JSONField", "Json"),
  Def("CountryChoice", "Country"), Def("Admin1Choice", "Admin"), Def("FlexImageField", "Image"),
  Def("FinancialInstitutionChoice", "Institution"), Def("PhoneNumberField", "Phone")}

(* 0002: the choices that come from HOPE. *)
Hope == {Def("HOPE HH ResidenceStatus", "Choice"), Def("HOPE IND MaritalStatus", "Choice"),
  Def("HOPE IND ObservedDisability", "Choice"), Def("HOPE IND Relationship", "Choice"),
  Def("HOPE IND Role", "Choice"), Def("HOPE IND Gender", "Choice"),
  Def("HOPE IND Disability", "Choice"), Def("HOPE People Type", "Choice")}

HopeNames == {"HOPE org enumerator", "HOPE registration method",
  "HOPE HH Consent Sharing", "HOPE IND Sex"} \cup {x.name : x \in Hope}

(* 0003: the three checkers. *)
HouseholdSpec(char) == {
  Spec3("address", char, "none"), Spec3("admin1", "Admin1Choice", "none"),
  Spec3("collect_individual_data", "BooleanField", "none"), Spec3("consent", "BooleanField", "none"),
  Spec3("country", "CountryChoice", "table"), Spec3("country_origin", "CountryChoice", "none"),
  Spec3("head_of_household_id", char, "other"), Spec3("household_id", char, "table"),
  Spec3("name_enumerator", char, "other"), Spec3("org_enumerator", char, "none"),
  Spec3("primary_collector_id", char, "other"), Spec3("alternate_collector_id", char, "other"),
  Spec3("registration_method", char, "none"),
  Spec3("residence_status", "HOPE HH ResidenceStatus", "none"), Spec3("size", "IntegerField", "none")}

IndividualSpec(char) == {
  Spec3("address", char, "none"), Spec3("birth_date", "DateField", "table"),
  Spec3("disability", "HOPE IND Disability", "table"),
  Spec3("estimated_birth_date", "BooleanField", "table"), Spec3("family_name", char, "table"),
  Spec3("full_name", char, "table"), Spec3("gender", "HOPE IND Gender", "none"),
  Spec3("national_id_no", char, "none"), Spec3("phone_no", char, "none"),
  Spec3("relationship", "HOPE IND Relationship", "table"), Spec3("role", "HOPE IND Role", "table"),
  Spec3("collector_id", char, "other")}

PeopleSpec(char) == {
  Spec3("type", "HOPE People Type", "other"), Spec3("full_name", char, "table"),
  Spec3("country", "CountryChoice", "table"), Spec3("residence_status", "HOPE HH ResidenceStatus", "table"),
  Spec3("gender", "HOPE IND Gender", "none"), Spec3("birth_date", "DateField", "table"),
  Spec3("collector_id", char, "other")}

Core == {HH, IND, PPL}

CreateCheckers(d) ==
  LET char == Only(d, "Char") IN
  IF GetFails(d, {"Char", "Date", "Bool", "Int"}) THEN Raised(d)
  ELSE Linked(Missing(Missing(Missing(d, HH, HouseholdSpec(char)), IND, IndividualSpec(char)),
                      PPL, PeopleSpec(char)), {<<c, c, "">> : c \in Core})

(* 0005: the definitions of two fields of an individual. *)
FixIndividual(d) ==
  Missing(Ensure(d, {Def("HOPE IND Disability", "Choice"), Def("HOPE IND Gender", "Choice")}), IND,
     {Spec3("disability", "HOPE IND Disability", "table"), Spec3("gender", "HOPE IND Gender", "other")})

(* 0006 and back: the areas of a household are choices, or plain text. *)
AdminChoices(d) == Put(d, HH, {Spec3("admin1", "Admin1Choice", "none")})
AdminText(d) == Put(Create(d, {Def("admin1", "Char")}), HH, {Spec3("admin1", "admin1", "none")})

(* 0007. *)
ConsentSharing(d) ==
  IF GetFails(d, {"Char"}) \/ \E f \in d.fields : f.fs = HH /\ f.name = "consent_sharing" THEN Raised(d)
  ELSE Put(d, HH, {Spec3("consent_sharing", Only(d, "Char"), "none")})

Everywhere(d, names) == [d EXCEPT !.fields = {f \in @ : f.name \notin names}]

(* 0008: photo, disability, gender and consent as HOPE wants them. *)
HopeSpecs(fs) ==
  IF fs = HH THEN {Spec3("consent_sharing", "HOPE HH Consent Sharing", "none")}
  ELSE {Spec3("disability", "HOPE IND Disability", "none"), Spec3("photo", "Base64ImageField", "none"),
        Spec3("gender", "HOPE IND Gender", "none")}

HopeDefs == {Def("Base64ImageField", "Base64"), Def("HOPE HH Consent Sharing", "Sharing"),
             Def("HOPE IND Disability", "Choice"), Def("HOPE IND Gender", "Choice")}

Required(d) ==
  LET fields == Put(Put(Put(Set(d, HopeDefs), HH, HopeSpecs(HH)), IND, HopeSpecs(IND)), PPL, HopeSpecs(PPL)) IN
  [fields EXCEPT !.links = {l \in @ : l[1] \notin Core} \cup {<<c, c, "">> : c \in Core}]

NotRequired(d) ==
  LET names(fs) == {s.name : s \in HopeSpecs(fs)} IN
  DeleteUnused(Remove(Remove(Remove(d, HH, names(HH)), IND, names(IND)), PPL, names(PPL)),
               {x.name : x \in HopeDefs})

(* 0009: documents and accounts are fieldsets of their own. *)
Identity == {"national_id_no", "phone_no"}
DocumentSpec(d) == {Spec3("document_number", Only(d, "Char"), "none"), Spec3("photo", Only(d, "Base64"), "none"),
  Spec3("issuance_date", Only(d, "Date"), "none"), Spec3("country", "CountryChoice", "none")}
AccountSpec(d) == {Spec3("number", Only(d, "Char"), "none"),
  Spec3("financial_institution", "FinancialInstitutionChoice", "none"), Spec3("data", Only(d, "Json"), "none")}
Prefixes(fs, ps) == {<<IND, fs, p>> : p \in ps}

AddDocuments(d) ==
  LET gone == Create(Remove(d, IND, Identity), {Def("FinancialInstitutionChoice", "Institution")})
      linked == Linked(gone, Prefixes(DOC, {"national_id_", "national_passport_"})
                               \cup Prefixes(ACC, {"mobile_", "bank_"})) IN
  IF \/ ~(Identity \subseteq {f.name : f \in {g \in d.fields : g.fs = IND}})
     \/ GetFails(d, {"Char", "Base64", "Date", "Json"})
  THEN Raised(d)
  ELSE Missing(Missing(linked, DOC, DocumentSpec(d)), ACC, AccountSpec(d))

RemoveDocuments(d) ==
  LET gone == Delete(RemoveFieldsets(d, {DOC, ACC}), {"FinancialInstitutionChoice"}) IN
  Missing(Create(gone, {Def(n, "Char") : n \in Identity}), IND, {Spec3(n, n, "none") : n \in Identity})

(* 0010 and back: the areas move to a fieldset that households and people    *)
(* share, and from it.                                                       *)
MoveAreas(d, from, to) ==
  [d EXCEPT !.fields = {IF f.fs = from /\ f.name = "admin1" THEN [f EXCEPT !.fs = to] ELSE f : f \in @}]

ExtractAreas(d) == Linked(MoveAreas(d, HH, AREAS), {<<HH, AREAS, "">>, <<PPL, AREAS, "">>})

ReturnAreas(d) == RemoveFieldsets(MoveAreas(d, AREAS, HH), {AREAS})

(* 0011: people get fields of individuals and of households. *)
PeopleFields == {Spec3("observed_disability", "HOPE IND ObservedDisability", "none"),
  Spec3("marital_status", "HOPE IND MaritalStatus", "none"), Spec3("country_origin", "CountryOrigin", "none"),
  Spec3("village", "Village", "none"), Spec3("phone_no", "PhoneNo", "none"),
  Spec3("consent_sharing", "HOPE HH Consent Sharing", "none")}
PeopleDefs == {Def("HOPE IND ObservedDisability", "Choice"), Def("HOPE IND MaritalStatus", "Choice"),
  Def("CountryOrigin", "Country"), Def("Village", "Char"), Def("PhoneNo", "Char"),
  Def("HOPE HH Consent Sharing", "Sharing")}
NamesOf(specs) == {s.name : s \in specs}
DefsOf(specs) == {s.def : s \in specs}

SetupPeople(d) == Point(Ensure(d, PeopleDefs), PPL, PeopleFields)
UnsetPeople(d) == DeleteUnused(Remove(d, PPL, NamesOf(PeopleFields)), DefsOf(PeopleFields))

(* 0013: two fields of a household become choices; a third one goes. *)
Partners == {Def("HOPE org enumerator", "Choice"), Def("HOPE registration method", "Choice")}
PartnerFields == {Spec3("org_enumerator", "HOPE org enumerator", "none"),
                  Spec3("registration_method", "HOPE registration method", "none")}

ChoosePartners(d) == Point(Set(d, Partners), HH, PartnerFields)
TypePartners(d) ==
  LET plain == [d EXCEPT !.fields =
        {IF f.fs = HH /\ f.name \in NamesOf(PartnerFields) THEN [f EXCEPT !.def = "CharField"] ELSE f : f \in @}] IN
  IF "CharField" \notin DefNames(d) THEN Raised(d) ELSE Delete(plain, DefsOf(PartnerFields))

RemoveExtra(d) == Remove(d, HH, {"collect_individual_data"})
AddExtra(d) == Missing(Create(d, {Def("collect_individual_data", "Bool")}), HH,
                 {Spec3("collect_individual_data", "collect_individual_data", "none")})

(* 0014 and back: every field of the definition is renamed with it. *)
RenameGender(d, old, new, field) ==
  LET named == [d EXCEPT !.fields = {IF f.def = old THEN [f EXCEPT !.name = field] ELSE f : f \in @}] IN
  IF old \notin DefNames(d) THEN d
  ELSE IF new \in DefNames(d) THEN Raised(d) ELSE RenameDef(named, old, new)

(* 0015: the phone of an individual. *)
Phone == {Spec3("phone_no", "PhoneNo", "none")}
AddPhone(d) == Point(Ensure(d, {Def("PhoneNo", "Char")}), IND, Phone)
RemovePhone(d) == Delete(Remove(d, IND, {"phone_no"}), {"PhoneNo"})

(* 0016: references to beneficiaries. *)
ReferenceDefs == {Def("Primary Collector Reference ID", "Reference"),
                  Def("Alternate Collector Reference ID", "Reference"), Def("Individual ID", "Char")}
ReferenceSpecs == {Spec3("primary_collector_id", "Primary Collector Reference ID", "none"),
                   Spec3("alternate_collector_id", "Alternate Collector Reference ID", "none")}
IndividualId == {Spec3("individual_id", "Individual ID", "none")}

AddReferences(d) == Point(Point(Set(d, ReferenceDefs), HH, ReferenceSpecs), IND, IndividualId)
RemoveReferences(d) ==
  Delete(Remove(Remove(d, HH, NamesOf(ReferenceSpecs)), IND, NamesOf(IndividualId)),
         {x.name : x \in ReferenceDefs})

(* 0017: the head of a household; going back, individuals get collectors. *)
HeadSpec == {Spec3("head_of_household_id", "Head of Household ID", "none")}
OldCollectors == {Spec3(n, "CharField", "none") : n \in {"primary_collector_id", "alternate_collector_id"}}

AddHead(d) ==
  Remove(Point(Set(d, {Def("Head of Household ID", "Reference")}), HH, HeadSpec), IND, NamesOf(OldCollectors))
RemoveHead(d) == LET gone == Remove(d, HH, NamesOf(HeadSpec)) IN
  IF "CharField" \in DefNames(d) THEN Point(gone, IND, OldCollectors) ELSE gone

(* 0018 and back: the photo of a document is its image; two more prefixes. *)
RenameIn(d, fs, old, new) ==
  [d EXCEPT !.fields = {IF f.fs = fs /\ f.name = old THEN [f EXCEPT !.name = new] ELSE f : f \in @}]
MorePrefixes == Prefixes(DOC, {"birth_certificate_"}) \cup Prefixes(ACC, {"cash_"})

ChangeGroups(d) ==
  Linked(RenameIn(d, DOC, "photo", "image"),
         MorePrefixes \cup Prefixes(DOC, {"national_id_", "national_passport_"})
                      \cup Prefixes(ACC, {"mobile_", "bank_"}))
RestoreGroups(d) == [RenameIn(d, DOC, "image", "photo") EXCEPT !.links = @ \ MorePrefixes]

(* 0020 and back: the roles without their suffix. *)
Roles == [primary_collector_id |-> "primary_collector",
          alternate_collector_id |-> "alternate_collector", head_of_household_id |-> "head_of_household"]
Inverted(map) == [n \in {map[m] : m \in DOMAIN map} |-> CHOOSE m \in DOMAIN map : map[m] = n]

(* 0022: the numbers of the rows, one definition for both. *)
RowNumber == "Household ID"
AddRowNumbers(d) ==
  Point(Point(Ensure(d, {Def(RowNumber, "Int")}), IND, {Spec3("household_id", RowNumber, "none")}),
        PPL, {Spec3("index_id", RowNumber, "none")})
RemoveRowNumbers(d) == Delete(Remove(Remove(d, IND, {"household_id"}), PPL, {"index_id"}), {RowNumber})

(* 0024: update_or_create wants one field of that name, in all fieldsets. *)
LabelConsent(d, label) ==
  IF Cardinality({f \in d.fields : f.name = "consent"}) # 1 THEN Raised(d)
  ELSE Labelled(d, {"consent"}, label)

(* 0026 and back: the labels of the fields that have none. *)
Table == {"address", "admin1", "alternate_collector", "birth_date", "consent", "consent_sharing",
  "country", "country_origin", "data", "disability", "document_number", "estimated_birth_date",
  "family_name", "financial_institution", "full_name", "head_of_household", "household_id", "image",
  "index_id", "individual_id", "issuance_date", "marital_status", "name_enumerator", "number",
  "observed_disability", "org_enumerator", "phone_no", "photo", "primary_collector",
  "registration_method", "relationship", "residence_status", "role", "sex", "size", "type", "village"}

PopulateLabels(d) ==
  [d EXCEPT !.fields = {IF f.name \in Table /\ f.label = "none" THEN [f EXCEPT !.label = "table"] ELSE f : f \in @}]
PopLabels(d) ==
  [d EXCEPT !.fields = {IF f.name \in Table /\ f.label = "table" THEN [f EXCEPT !.label = "none"] ELSE f : f \in @}]

(* 0027: more fields of a household. *)
MoreHousehold == {Spec3("consent_sign", "Consent Sign", "other"), Spec3("zip_code", "Zip Code", "other"),
  Spec3("children_count", "Children count", "other"), Spec3("returnee", "Returnee", "other"),
  Spec3("fchild_hoh", "Fchild HOH", "other"), Spec3("village", "Village", "table"),
  Spec3("currency", "Currency", "other"), Spec3("start", "Start", "other")}
MoreDefs == {Def("Consent Sign", "Base64"), Def("Zip Code", "Char"), Def("Children count", "Int"),
  Def("Returnee", "Bool"), Def("Fchild HOH", "Bool"), Def("Village", "Char"), Def("Currency", "Choice"),
  Def("Start", "DateTime")}

AddHousehold(d) == Put(Create(d, MoreDefs), HH, MoreHousehold)
RemoveHousehold(d) == Delete(Remove(d, HH, NamesOf(MoreHousehold)), DefsOf(MoreHousehold))

(* 0028: what individuals and people share moves to a base fieldset. *)
BaseSpecs == {Spec3("observed_disability", "HOPE IND ObservedDisability", "table"),
  Spec3("marital_status", "HOPE IND MaritalStatus", "table"), Spec3("sex", "HOPE IND Sex", "table"),
  Spec3("disability", "Disability", "table"), Spec3("work_status", "Work Status", "other"),
  Spec3("seeing_disability", "Seeing Disability", "other"), Spec3("fchild_hoh", "Fchild HOH", "other"),
  Spec3("estimated_birth_date", "Estimated Birth Date", "table"), Spec3("birth_date", "Birth Date", "table"),
  Spec3("email", "Email", "other"), Spec3("phone_no", "Phone No", "other"),
  Spec3("full_name", "Full Name", "table"), Spec3("family_name", "Family Name", "table"),
  Spec3("photo", "Photo", "table")}
BaseTypes == {Def("HOPE IND ObservedDisability", "Choice"), Def("HOPE IND MaritalStatus", "Choice"),
  Def("HOPE IND Sex", "Choice"), Def("Disability", "Choice"), Def("Work Status", "Choice"),
  Def("Seeing Disability", "Choice"), Def("Fchild HOH", "Bool"), Def("Estimated Birth Date", "Bool"),
  Def("Birth Date", "Date"), Def("Email", "Char"), Def("Phone No", "Char"), Def("Full Name", "Char"),
  Def("Family Name", "Char"), Def("Photo", "Base64"), Def("Address", "Char"), Def("HOPE IND Role", "Choice")}

PeopleOld == {b \in BaseSpecs : b.name \in {"full_name", "sex", "birth_date", "disability", "photo",
  "observed_disability", "marital_status", "phone_no"}}
IndividualOld == {Spec3("address", "Address", "table"), Spec3("role", "HOPE IND Role", "table")} \cup
  {b \in BaseSpecs : b.name \in {"birth_date", "disability", "estimated_birth_date", "family_name",
    "full_name", "sex", "photo", "phone_no"}}

DefsFor(specs) == {t \in BaseTypes : t.name \in DefsOf(specs)}
WantsSex(d) == IF "HOPE IND Sex" \in DefNames(d) THEN d ELSE Raised(d)

AddBase(d) ==
  LET base == Linked(Put(Create(d, DefsFor(BaseSpecs)), BASE, BaseSpecs), {<<PPL, BASE, "">>, <<IND, BASE, "">>}) IN
  WantsSex(Remove(Remove(base, PPL, NamesOf(PeopleOld)), IND, NamesOf(IndividualOld)))

RemoveBase(d) ==
  LET used == {f.def : f \in {g \in d.fields : g.fs = BASE /\ g.name \in NamesOf(BaseSpecs)}}
      gone == RemoveFieldsets(DeleteUnused(Remove(d, BASE, NamesOf(BaseSpecs)), used), {BASE})
      people == Put(Create(gone, DefsFor(PeopleOld)), PPL, PeopleOld) IN
  WantsSex(Put(Create(people, DefsFor(IndividualOld)), IND, IndividualOld))

(* 0029: phones are of their own type; the definitions they had go. *)
Retired == {"PhoneNo", "PhoneNumberField"}
CleanPhones(d) == Delete(Retype(d, {"Phone No"}, "Phone"), Retired)

RestorePhones(d) == Ensure(Retype(d, {"Phone No"}, "Char"), {Def(n, "Phone") : n \in Retired})

(* 0030, 0031, 0035 and back: choices of other types. *)
Upgraded == {"HOPE IND Sex", "HOPE IND Relationship", "Work Status", "Disability"}
Observed == {"HOPE IND ObservedDisability"}
AnyCase == {"Seeing Disability", "HOPE IND MaritalStatus", "HOPE HH ResidenceStatus",
  "HOPE registration method", "HOPE org enumerator", "HOPE People Type"}
EmptyAnyCase == {"Disability", "HOPE IND Sex"}

(* 0032: the roles with the suffix again, and their definitions. *)
RoleDefs == <<<<"Alternate Collector Reference ID", "alternate_collector_id">>,
  <<"Primary Collector Reference ID", "primary_collector_id">>, <<"Head of Household ID", "head_of_household_id">>>>

RenameFree(d, old, new) ==
  IF old \in DefNames(d) /\ new \notin DefNames(d) THEN RenameDef(d, old, new) ELSE d

SuffixRoles(d) ==
  LET r == RoleDefs
      fields == Rename(d, Inverted(Roles)) IN
  Labelled(RenameFree(RenameFree(RenameFree(fields, r[1][1], r[1][2]), r[2][1], r[2][2]), r[3][1], r[3][2]),
           DOMAIN Roles, "other")
PlainRoles(d) ==
  LET r == RoleDefs
      fields == Rename(d, Roles) IN
  RenameFree(RenameFree(RenameFree(fields, r[1][2], r[1][1]), r[2][2], r[2][1]), r[3][2], r[3][1])

(* 0033: names in Latin script, in the base that two checkers share. *)
LatinFields == {Spec3("full_name_latin", "Full Name Latin", "other")}
AddLatin(d) == Put(Create(d, {Def("Full Name Latin", "Latin")}), BASE, LatinFields)

RemoveLatin(d) == DeleteUnused(Remove(d, BASE, NamesOf(LatinFields)), DefsOf(LatinFields))

(* 0034 and back: one class of images for another, and its definition. *)
Repoint(d, from, to) == [d EXCEPT !.defs = {IF x.type = from THEN Def(x.name, to) ELSE x : x \in @}]
RenameOrMerge(d, old, new) ==
  LET merged == [d EXCEPT !.fields = {IF f.def = old THEN [f EXCEPT !.def = new] ELSE f : f \in @}] IN
  IF old \notin DefNames(d) THEN d
  ELSE IF new \notin DefNames(d) THEN RenameDef(d, old, new) ELSE DeleteUnused(merged, {old})
ReplaceImages(d) == RenameOrMerge(Repoint(d, "Base64", "Image"), "Base64ImageField", "FlexImageField")
RestoreImages(d) == RenameOrMerge(Repoint(d, "Image", "Base64"), "FlexImageField", "Base64ImageField")

-----------------------------------------------------------------------------
Plain(d, s) ==
  CASE s = "0001" -> Create(d, Registered)
    [] s = "0002" -> Create(d, Hope)
    [] s = "0003" -> CreateCheckers(d)
    [] s = "0004" -> Create(d, {Def("Base64ImageField", "Base64")})
    [] s = "0005" -> FixIndividual(d)
    [] s = "0006" -> AdminChoices(d)
    [] s = "0007" -> ConsentSharing(d)
    [] s = "0008" -> Required(d)
    [] s = "0009" -> AddDocuments(d)
    [] s = "0010" -> ExtractAreas(d)
    [] s = "0011" -> SetupPeople(d)
    [] s = "0012" -> Create(d, {Def("PhoneNumberField", "Phone")})
    [] s = "0013_change" -> ChoosePartners(d)
    [] s = "0013_remove" -> RemoveExtra(d)
    [] s = "0014" -> RenameGender(d, "HOPE IND Gender", "HOPE IND Sex", "sex")
    [] s = "0015" -> AddPhone(d)
    [] s = "0016" -> AddReferences(d)
    [] s = "0017" -> AddHead(d)
    [] s = "0018" -> ChangeGroups(d)
    [] OTHER -> d

Later(d, s) ==
  CASE s = "0020" -> Rename(d, Roles)
    [] s = "0022" -> AddRowNumbers(d)
    [] s = "0024" -> LabelConsent(d, "other")
    [] s = "0025" -> Retype(d, {"PhoneNo"}, "Phone")
    [] s = "0026" -> PopulateLabels(d)
    [] s = "0027" -> AddHousehold(d)
    [] s = "0028" -> AddBase(d)
    [] s = "0029" -> CleanPhones(d)
    [] s = "0030" -> Retype(d, Upgraded, "ChoiceEmpty")
    [] s = "0031" -> Retype(d, Observed, "Observed")
    [] s = "0032_role" -> SuffixRoles(d)
    [] s = "0033" -> AddLatin(d)
    [] s = "0034" -> ReplaceImages(d)
    [] s = "0035" -> Retype(Retype(d, AnyCase, "ChoiceAnyCase"), EmptyAnyCase, "ChoiceEmptyAnyCase")
    [] OTHER -> d

(* 0019 and 0021 touch no field; 0023 and 0032_add change attributes only.   *)
Forward(d, s) == Later(Plain(d, s), s)

Undone(d, s) ==
  CASE s = "0002" -> Delete(d, HopeNames)
    [] s = "0003" -> [RemoveFieldsets(d, Core) EXCEPT !.links = {}]
    [] s = "0004" -> Delete(d, {"Base64ImageField"})
    [] s = "0005" -> Delete(d, {"HOPE IND Disability", "HOPE IND Gender"})
    [] s = "0006" -> AdminText(d)
    [] s = "0007" -> Everywhere(d, {"consent_sharing"})
    [] s = "0008" -> NotRequired(d)
    [] s = "0009" -> RemoveDocuments(d)
    [] s = "0010" -> ReturnAreas(d)
    [] s = "0011" -> UnsetPeople(d)
    [] s = "0012" -> Delete(d, {"PhoneNumberField"})
    [] s = "0013_change" -> TypePartners(d)
    [] s = "0013_remove" -> AddExtra(d)
    [] s = "0014" -> RenameGender(d, "HOPE IND Sex", "HOPE IND Gender", "gender")
    [] s = "0015" -> RemovePhone(d)
    [] s = "0016" -> RemoveReferences(d)
    [] s = "0017" -> RemoveHead(d)
    [] s = "0018" -> RestoreGroups(d)
    [] OTHER -> d

LaterUndone(d, s) ==
  CASE s = "0020" -> Rename(d, Inverted(Roles))
    [] s = "0022" -> RemoveRowNumbers(d)
    [] s = "0024" -> LabelConsent(d, "none")
    [] s = "0025" -> Retype(d, {"PhoneNo"}, "Char")
    [] s = "0026" -> PopLabels(d)
    [] s = "0027" -> RemoveHousehold(d)
    [] s = "0028" -> RemoveBase(d)
    [] s = "0029" -> RestorePhones(d)
    [] s = "0030" -> Retype(d, Upgraded, "Choice")
    [] s = "0031" -> Retype(d, Observed, "Choice")
    [] s = "0032_role" -> PlainRoles(d)
    [] s = "0033" -> RemoveLatin(d)
    [] s = "0034" -> RestoreImages(d)
    [] s = "0035" -> Retype(Retype(d, AnyCase, "Choice"), EmptyAnyCase, "ChoiceEmpty")
    [] OTHER -> d

Backward(d, s) == LaterUndone(Undone(d, s), s)

(* The transaction of a script that raises changes nothing. *)
Outcome(d, after) == IF after.ok THEN after ELSE Raised(d)

Keys(d) == {<<f.fs, f.name>> : f \in {g \in d.fields : g.fs # OWN}}

(* Manager.forward and backward take the scripts one by one, in order; a     *)
(* script that raises ends the command.                                      *)
Apply ==
  /\ db.ok /\ at < Top
  /\ db' = Outcome(db, Forward(db, Scripts[at + 1]))
  /\ at' = IF db'.ok THEN at + 1 ELSE at
  /\ seen' = IF db'.ok /\ seen[at + 1] = {} THEN [seen EXCEPT ![at + 1] = Keys(db')] ELSE seen
  /\ up' = TRUE /\ UNCHANGED downs

Discharge ==
  /\ db.ok /\ at > Floor /\ (up => downs < MaxDowns)
  /\ db' = Outcome(db, Backward(db, Scripts[at]))
  /\ at' = IF db'.ok THEN at - 1 ELSE at
  /\ downs' = IF up THEN downs + 1 ELSE downs
  /\ up' = FALSE /\ UNCHANGED seen

(* Staff make a fieldset of their own with a definition there is. *)
AddOwn(n) ==
  /\ db.ok /\ n \in DefNames(db) /\ \A f \in db.fields : f.fs # OWN
  /\ db' = [db EXCEPT !.fields = @ \cup {[fs |-> OWN, name |-> "extra", def |-> n, label |-> "none"]}]
  /\ UNCHANGED <<at, up, downs, seen>>

Next == Apply \/ Discharge \/ \E n \in OwnDefs : AddOwn(n)

Spec == Init /\ [][Next]_vars

-----------------------------------------------------------------------------
(* A field has a definition. *)
TypeOK ==
  /\ at \in 0..Top /\ downs \in 0..MaxDowns /\ up \in BOOLEAN
  /\ DOMAIN seen = 1..Top
  /\ \A f \in db.fields : f.def \in DefNames(db)

(* No script raises, while staff do not go back behind script 0010: the      *)
(* lookups find one definition and the names that are created are free.      *)
NothingFails == db.ok

(* A fieldset has one field of a name, and two fieldsets of a checker with   *)
(* the same prefix have no field name in common: a form has every field once. *)
NamesDistinct ==
  /\ \A f, g \in db.fields : f.fs = g.fs /\ f.name = g.name => f = g
  /\ \A l, k \in db.links : l[1] = k[1] /\ l[3] = k[3] /\ l[2] # k[2] =>
       {f.name : f \in {g \in db.fields : g.fs = l[2]}} \cap
         {f.name : f \in {g \in db.fields : g.fs = k[2]}} = {}

(* What going back is known to lose: the village and the phone of people,    *)
(* with the definitions that 0027 and 0015 share with 0011; below 0017 the   *)
(* references of 0003.                                                       *)
Differing ==
  {<<PPL, "village">>, <<PPL, "phone_no">>} \cup
    (IF at >= 18 THEN {} ELSE {HH, IND} \X (DOMAIN Roles))

(* Going back and forward again leads to the fields of the first time.       *)
SameFields == at > 0 /\ db.ok => Keys(db) \cup Differing = seen[at] \cup Differing

(* The same with no exception: a script undoes what it did and no more.      *)
UndoesItsOwn == at > 0 /\ db.ok => Keys(db) = seen[at]

(* Above script 0028 every field HOPE knows has a label, also after going    *)
(* back and forward: 0026 fills what the others leave.                       *)
AllLabelled == at = Top => \A f \in db.fields : f.fs # OWN => f.label # "none"

(* The scripts that delete definitions whoever uses them. *)
CarelessBack == {"0012", "0013_change", "0015", "0016", "0022", "0027"}

(* A field of a country's own stays under its name, unless a script says it  *)
(* deletes its definition: all others look whether it is used.               *)
OwnFieldsStay ==
  \A f \in db.fields : f.fs = OWN =>
    \/ \E g \in db'.fields : g.fs = OWN /\ g.name = f.name
    \/ at' > at /\ Scripts[at'] = "0029"
    \/ at' < at /\ Scripts[at] \in CarelessBack

(* Behind TypeOK: no operation of a script leaves a field whose definition   *)
(* is gone, unless the script raised, which its transaction takes back.      *)
Sound(d) ==
  /\ DOMAIN d = {"defs", "fields", "links", "ok"}
  /\ \A f \in d.fields : DOMAIN f = {"fs", "name", "def", "label"}
  /\ d.ok => \A f \in d.fields : f.def \in DefNames(d)
=============================================================================
