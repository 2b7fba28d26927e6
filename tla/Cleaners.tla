------------------------------ MODULE Cleaners ------------------------------
(***************************************************************************)
(* What the bulk operations do to the values of the beneficiary records:    *)
(* the mass update, the regular expression, the concatenation, the name     *)
(* parser, the checksum, the validation, and the spreadsheet that is        *)
(* exported, edited and imported.  A job is one transaction; a worker that  *)
(* dies before it acknowledges the job has it delivered again.  Who reads   *)
(* and writes while others do, and the version, are in RecordChecks.        *)
(*                                                                          *)
(* A value has a type and words: the text "a b" and the list of a and b     *)
(* have the same words; a truth value has the word it is printed as.        *)
(***************************************************************************)
EXTENDS Naturals, Sequences, SequencesExt

CONSTANTS
  Records,
  Types,        \* [field -> "text", "bool", "many", "date", "reference" or "file"]
  Starts,       \* the data there may be first: values as the forms clean them
  Selections,   \* the records a user exports together
  Inputs,       \* [type -> what users type in a cell of it]
  Configs,      \* the configurations of the jobs, but for the sheets
  Readable,     \* ["date", "reference" -> what is a date, a number]
  Upper, Lower, \* [word -> word]
  Parse,        \* [word -> part of the name], of the model of the country
  MaxJobs, MaxCrashes

Fields == DOMAIN Types
Ops == {"mass", "regex", "concatenate", "names", "checksum", "validate", "sheet"}

Words == DOMAIN Upper
AllValues == [type : {"str", "int", "bool", "list", "null", "absent", "file"}, words : Seq(Words)]

\* Dates and references are stored as texts, and files as nothing else.
Plain(f, v) == Types[f] \in {"date", "reference"} /\ v.words # <<>> => v.type = "str"
Fits(f, v)  == v \in AllValues /\ Plain(f, v) /\ (Types[f] = "file" => v.type \in {"file", "absent"})
Stored(d)   == d \in [Records -> [Fields -> AllValues]] /\ \A r \in Records, f \in Fields : Fits(f, d[r][f])

(* The forms of the jobs offer the fields that are no files, functions that  *)
(* suit them, values that their fields clean, and another source than the     *)
(* destinations.                                                              *)
Offered(c) ==
  LET Writable == {f \in Fields : Types[f] # "file"}
      Column   == c.field \in Writable
  IN CASE c.op = "mass"        -> /\ Column /\ c.how \in {"set", "set null", "upper", "lower", "toggle"}
                                  /\ c.value \in AllValues /\ Plain(c.field, c.value) /\ c.create \in BOOLEAN
                                  /\ c.how = "toggle" => Types[c.field] = "bool"
       [] c.op = "regex"       -> Column /\ c.to \in Words
       [] c.op = "concatenate" -> Column /\ c.pattern \in Seq(Fields) /\ c.onlyEmpty \in BOOLEAN
       [] c.op = "names"       -> c.source \in Writable /\ DOMAIN c.fields \subseteq Writable \ {c.source}
       [] OTHER                -> TRUE

CleanersAssumption ==
  /\ MaxJobs \in Nat /\ MaxCrashes \in Nat
  /\ Types \in [Fields -> {"text", "bool", "many", "date", "reference", "file"}]
  /\ Upper \in [Words -> Words] /\ Lower \in [Words -> Words] /\ {"True", "False"} \subseteq Words
  /\ \A w \in Words : Upper[Upper[w]] = Upper[w] /\ Lower[Lower[w]] = Lower[w]
  /\ \A d \in Starts : Stored(d)
  /\ \A f \in Fields : \A v \in Inputs[Types[f]] : v \in AllValues /\ Plain(f, v)
  /\ \A c \in Configs : c.op \in Ops \ {"sheet"} /\ c.pks \subseteq Records /\ Offered(c)

VARIABLES
  data,     \* flex_fields of the records
  digest,   \* checksum: the data it was computed of
  live,     \* the records that are not deleted
  jobs,     \* the jobs, in the order they were queued
  sheet,    \* the spreadsheet of the user, and the data it was exported from
  last,     \* ghost: the job whose transaction was the last to commit
  crashes

vars == <<data, digest, live, jobs, sheet, last, crashes>>

Null == [type |-> "null", words |-> <<>>]
Absent == [type |-> "absent", words |-> <<>>]
Text(words) == [type |-> "str", words |-> words]
Bool(b) == [type |-> "bool", words |-> <<IF b THEN "True" ELSE "False">>]
NoSheet == [rows |-> <<>>, base |-> <<>>, edited |-> FALSE]

Ended(at) == [config |-> [op |-> "none"], at |-> at]

Truthy(v) == IF v.type = "bool" THEN v = Bool(TRUE) ELSE v.words # <<>>

Init ==
  /\ data \in Starts /\ digest = data /\ live = Records
  /\ jobs = <<>> /\ sheet = NoSheet /\ last = 0 /\ crashes = 0

Queue(config) ==
  /\ Len(jobs) < MaxJobs
  /\ jobs' = Append(jobs, [config |-> config, at |-> "queued"])
  /\ UNCHANGED <<data, digest, live, last, crashes>>

Schedule == \E c \in Configs : Queue(c) /\ UNCHANGED sheet

-----------------------------------------------------------------------------
(* The transaction of a job. *)
Picked(j) == jobs[j].config.pks \cap live

Commit(j, new) == 
  /\ data' = new /\ last' = j
  /\ jobs' = [jobs EXCEPT ![j].at = "committed"]
  /\ UNCHANGED <<live, sheet, crashes>>

Fail(j) ==
  /\ jobs' = [jobs EXCEPT ![j] = Ended("failed")]
  /\ UNCHANGED <<data, digest, live, sheet, last, crashes>>

Runs(j, op) == jobs[j].at = "queued" /\ jobs[j].config.op = op
Checksums(rs) == digest' = [r \in Records |-> IF r \in rs THEN data'[r] ELSE digest[r]]
Changed(rs, Row(_)) == [r \in Records |-> IF r \in rs THEN Row(r) ELSE data[r]]

Applied(c, v) ==
  CASE c.how = "set" -> c.value
    [] c.how = "set null" -> Null
    [] c.how = "upper" -> Text([i \in DOMAIN v.words |-> Upper[v.words[i]]])
    [] c.how = "lower" -> Text([i \in DOMAIN v.words |-> Lower[v.words[i]]])
    [] c.how = "toggle" -> Bool(~Truthy(v))

(* A missing field is created from "" on demand.  Only a text has a case. *)
MassUpdate(j) ==
  /\ Runs(j, "mass")
  /\ LET c == jobs[j].config
         hit == {r \in Picked(j) : data[r][c.field] # Absent \/ c.create}
         Old(r) == IF data[r][c.field] = Absent THEN Text(<<>>) ELSE data[r][c.field]
     IN IF c.how \in {"upper", "lower"} /\ \E r \in hit : Old(r).type # "str"
        THEN Fail(j)
        ELSE /\ Commit(j, Changed(hit, LAMBDA r : [data[r] EXCEPT ![c.field] = Applied(c, Old(r))]))
             /\ Checksums(Picked(j))

Substituted(words, c) ==
  IF \E i \in DOMAIN words : words[i] = c.from
  THEN [words EXCEPT ![SelectInSeq(words, LAMBDA w : w = c.from)] = c.to]
  ELSE words

RegexRow(c, r) ==
  [data[r] EXCEPT ![c.field] = CASE @.type = "str" -> Text(Substituted(@.words, c))
                                 [] @.type = "absent" -> Null
                                 [] OTHER -> @]

RegexUpdate(j) ==
  /\ Runs(j, "regex")
  /\ Commit(j, Changed(Picked(j), LAMBDA r : RegexRow(jobs[j].config, r))) /\ Checksums(Picked(j))

Pattern(c, r) == FlattenSeq([i \in DOMAIN c.pattern |-> data[r][c.pattern[i]].words])

Concatenate(j) ==
  /\ Runs(j, "concatenate")
  /\ LET c == jobs[j].config
         hit == {r \in Picked(j) : ~(c.onlyEmpty /\ Truthy(data[r][c.field]))}
     IN /\ Commit(j, Changed(hit, LAMBDA r : [data[r] EXCEPT ![c.field] = Text(Pattern(c, r))]))
        /\ Checksums(hit)

Parts(words, part) ==
  FlattenSeq([i \in DOMAIN words |-> IF Parse[words[i]] = part THEN <<words[i]>> ELSE <<>>])

\* Mutant of ParseNames: the parts are added to what the field has.
ParseNamesAdds(j) ==
  /\ Runs(j, "names")
  /\ LET c == jobs[j].config
         Row(r) == [f \in Fields |->
           IF f \in DOMAIN c.fields THEN Text(data[r][f].words \o Parts(data[r][c.source].words, c.fields[f]))
           ELSE data[r][f]]
     IN Commit(j, Changed(Picked(j), Row))
  /\ UNCHANGED digest

(* The form refuses the source among the destinations.  bulk_update writes  *)
(* the fields and no checksum.                                              *)
ParseNames(j) ==
  /\ Runs(j, "names")
  /\ LET c == jobs[j].config
         hit == {r \in Picked(j) : data[r][c.source].type = "str"}
         Row(r) == [f \in Fields |->
           IF f \in DOMAIN c.fields /\ Parts(data[r][c.source].words, c.fields[f]) # <<>>
           THEN Text(Parts(data[r][c.source].words, c.fields[f])) ELSE data[r][f]]
     IN Commit(j, Changed(hit, Row))
  /\ UNCHANGED digest

CalculateChecksum(j) ==
  /\ Runs(j, "checksum")
  /\ Commit(j, data) /\ Checksums(Picked(j))

(* The field's clean: what is not valid is kept. *)
Clean(f, v) ==
  LET empty == v.words = <<>>
  IN CASE Types[f] = "text" -> Text(v.words)
       [] Types[f] = "bool" -> Bool(~empty /\ v.words # <<"False">>)
       [] Types[f] = "many" -> [type |-> "list", words |-> v.words]
       [] Types[f] \in {"date", "reference"} -> IF empty THEN Null ELSE v
       [] OTHER -> v

(* The fields are saved, and the checksum with them, when they changed. *)
Validate(j) ==
  /\ Runs(j, "validate")
  /\ Commit(j, Changed(Picked(j), LAMBDA r : [f \in Fields |-> Clean(f, data[r][f])]))
  /\ Checksums({r \in Records : data'[r] # data[r]})

-----------------------------------------------------------------------------
(* Everything is printed as a text; an empty one leaves an empty cell. *)
Cell(v) == IF v.words = <<>> THEN Null ELSE Text(v.words)

(* File fields are no columns. *)
Export ==
  /\ sheet = NoSheet /\ Len(jobs) < MaxJobs
  /\ \E rs \in {s \cap live : s \in Selections} \ {{}} :
       sheet' = [rows |-> [r \in rs |-> [f \in {g \in Fields : Types[g] # "file"} |-> Cell(data[r][f])]],
                 base |-> data, edited |-> FALSE]
  /\ UNCHANGED <<data, digest, live, jobs, last, crashes>>

(* The user types in a cell, or pastes a column that was not exported. *)
Edit ==
  /\ sheet # NoSheet /\ ~sheet.edited
  /\ \E r \in DOMAIN sheet.rows, f \in Fields : \E v \in Inputs[Types[f]] :
       sheet' = [sheet EXCEPT !.edited = TRUE,
                   !.rows[r] = [g \in DOMAIN @ \cup {f} |-> IF g = f THEN v ELSE @[g]]]
  /\ UNCHANGED <<data, digest, live, jobs, last, crashes>>

Upload ==
  /\ sheet # NoSheet
  /\ Queue([op |-> "sheet", pks |-> DOMAIN sheet.rows, sheet |-> sheet])
  /\ sheet' = NoSheet

DateErrors(row) ==
  {f \in DOMAIN row : Types[f] = "date" /\ row[f].words \notin {<<>>} \cup Readable["date"]}

ReferenceErrors(row) ==
  {f \in DOMAIN row : Types[f] = "reference" /\ row[f].words \notin Readable["reference"]}

Merge(r, row, fields) == [f \in Fields |-> IF f \in DOMAIN row \cap fields THEN row[f] ELSE data[r][f]]

(* Rows of deleted records are skipped; one wrong row undoes all. *)
ImportSheet(j) ==
  /\ Runs(j, "sheet")
  /\ LET rows == jobs[j].config.sheet.rows
         fields == {f \in Fields : Types[f] # "file"}
     IN IF \E r \in Picked(j) : DateErrors(rows[r]) \cup ReferenceErrors(rows[r]) # {}
        THEN Fail(j)
        ELSE /\ Commit(j, Changed(Picked(j), LAMBDA r : Merge(r, rows[r], fields)))
             /\ Checksums(Picked(j))

-----------------------------------------------------------------------------
Acknowledge(j) ==
  /\ jobs[j].at = "committed"
  /\ jobs' = [jobs EXCEPT ![j] = Ended("done")]
  /\ UNCHANGED <<data, digest, live, sheet, last, crashes>>

(* The worker dies after the transaction; the job is delivered again. *)
Crash(j) ==
  /\ crashes < MaxCrashes /\ jobs[j].at = "committed"
  /\ crashes' = crashes + 1 /\ jobs' = [jobs EXCEPT ![j].at = "queued"]
  /\ UNCHANGED <<data, digest, live, sheet, last>>

Delete(r) ==
  /\ r \in live /\ live' = live \ {r}
  /\ UNCHANGED <<data, digest, jobs, sheet, last, crashes>>

Run(j) ==
  \/ MassUpdate(j) \/ RegexUpdate(j) \/ Concatenate(j) \/ ParseNames(j)
  \/ CalculateChecksum(j) \/ Validate(j) \/ ImportSheet(j)

Next ==
  \/ Schedule \/ Export \/ Edit \/ Upload
  \/ \E j \in DOMAIN jobs : Run(j) \/ Acknowledge(j) \/ Crash(j)
  \/ \E r \in Records : Delete(r)

Spec == Init /\ [][Next]_vars

-----------------------------------------------------------------------------
(* No operation changes the file of a record: references are not in the      *)
(* forms, the export leaves them out and the import drops pasted ones.       *)
TypeOK ==
  /\ \A r \in Records : DOMAIN data[r] = Fields
  /\ \A r \in Records, f \in Fields : Types[f] = "file" => data[r][f].type \in {"file", "absent"}
  /\ live \subseteq Records /\ Len(jobs) <= MaxJobs /\ last \in 0..Len(jobs) /\ crashes \in 0..MaxCrashes
  /\ \A j \in DOMAIN jobs : jobs[j].at \in {"queued", "committed", "done", "failed"}

(* Importing what was exported, of records that did not change, changes no   *)
(* value but for its type, which the next validation restores.               *)
RoundTrip ==
  \A j \in DOMAIN jobs :
    Runs(j, "sheet") /\ last' = j /\ jobs'[j].at = "committed" =>
      LET s == jobs[j].config.sheet
      IN \A r \in DOMAIN s.rows, f \in Fields :
           ~s.edited /\ data[r] = s.base[r] => Clean(f, data'[r][f]) = Clean(f, data[r][f])

(* The operations whose second run over the same data changes nothing. *)
Steady(c) ==
  CASE c.op = "mass" -> c.how # "toggle"
    [] c.op = "concatenate" -> c.onlyEmpty \/ ~Contains(c.pattern, c.field)
    [] c.op = "regex" -> FALSE
    [] OTHER -> TRUE

Redelivered(j) == jobs[j].at = "queued" /\ jobs'[j].at = "committed" /\ last = j

(* A job that is delivered again does no more than the first time. *)
SteadyOnce ==
  \A j \in DOMAIN jobs : Redelivered(j) /\ Steady(jobs[j].config) => data' = data

AppliedOnce == [][\A j \in DOMAIN jobs : Redelivered(j) => data' = data]_vars

(* A mass update changes all that were selected, or the job fails: it never  *)
(* ends well with a record left as it was.                                   *)
InUpperCase(v) == v.type = "str" /\ \A i \in DOMAIN v.words : Upper[v.words[i]] = v.words[i]

WholeOrNothing ==
  \A j \in DOMAIN jobs :
    Runs(j, "mass") /\ jobs[j].config.how = "upper" /\ jobs'[j].at = "committed" =>
      \A r \in Picked(j) : LET v == data'[r][jobs[j].config.field]
                          IN v = Absent \/ InUpperCase(v)

(* Whoever changes data leaves the checksum of what there is, but for the    *)
(* name parser.                                                              *)
ChecksumFollows ==
  \A r \in Records : data'[r] # data[r] /\ digest'[r] # data'[r] =>
    \E j \in DOMAIN jobs : Runs(j, "names") /\ jobs'[j].at = "committed"

ChecksumCurrent == \A r \in live : digest[r] = data[r]

(* Toggling a field changes what it means. *)
ToggleToggles ==
  [][\A j \in DOMAIN jobs :
       Runs(j, "mass") /\ jobs[j].config.how = "toggle" /\ jobs'[j].at = "committed" =>
         LET f == jobs[j].config.field
         IN \A r \in Picked(j) : data[r][f] # Absent => Clean(f, data'[r][f]) # Clean(f, data[r][f])]_vars
=============================================================================
