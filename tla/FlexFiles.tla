------------------------------ MODULE FlexFiles ------------------------------
(***************************************************************************)
(* The files of the flexible fields: a value of flex_fields or raw_data is   *)
(* the file itself (legacy releases), or a reference to a row of the file    *)
(* table that the record owns.  migrate_flex_files moves all values to the   *)
(* table, or back, beside imports and the form of the records.               *)
(***************************************************************************)
EXTENDS Naturals, Sequences, FiniteSets, FiniteSetsExt

CONSTANTS
  MaxRecords, MaxRows, MaxRuns, MaxForms,   \* bounds
  Contents,      \* the files
  BatchSize,     \* records the command loads at a time
  Reverse,       \* --reverse is used as well
  Concurrent,    \* the form is used while the command runs
  Nested         \* imports keep files in nested groups of raw_data

FlexFilesAssumption ==
  /\ {MaxRecords, MaxRows, MaxRuns, MaxForms} \subseteq Nat /\ BatchSize \in Nat \ {0}
  /\ {Reverse, Concurrent, Nested} \subseteq BOOLEAN

None == [kind |-> "none"]
Inline(c) == [kind |-> "inline", content |-> c]
Ref(w) == [kind |-> "ref", row |-> w]

Slots == {"flex", "raw", "nested"}   \* a field of flex_fields, its column, one below it
TopLevel == {"flex", "raw"}

VARIABLES
  records,   \* the values of every record, by primary key
  last,      \* the last primary key
  rows,      \* FlexFieldFile: [id, owner, content]
  used,      \* the last id
  meant,     \* the content put into every slot of every record ("" for none)
  cmd,       \* the command: [mode, batch, owned, pk, failed, keepGoing]
  hint,      \* [mode, pk] to resume a run that stopped
  done,      \* the mode of the run that ended without a failure just before
  form,      \* the form: [pk, flex], pk = 0 when it is not open
  runs, forms

vars == <<records, last, rows, used, meant, cmd, hint, done, form, runs, forms>>

Closed == [pk |-> 0, flex |-> None]
Off == [mode |-> "off", batch |-> <<>>, pk |-> 0, owned |-> {}, failed |-> FALSE, keepGoing |-> FALSE]
NoHint == [mode |-> "off", pk |-> 0]

(* A database upgraded from a release that stored files inline. *)
Init ==
  /\ last \in 0..MaxRecords
  /\ \E c \in [1..last -> Contents] :
       /\ records = [r \in 1..last |-> [flex |-> Inline(c[r]), raw |-> Inline(c[r]), nested |-> None]]
       /\ meant = [r \in 1..last |-> [flex |-> c[r], raw |-> c[r], nested |-> ""]]
  /\ rows = {} /\ used = 0 /\ cmd = Off /\ hint = NoHint /\ done = "none" /\ form = Closed
  /\ runs = 0 /\ forms = 0

Values(f, S) == [x \in S |-> f[x]]

-----------------------------------------------------------------------------
Same(r, c) == {w \in rows : w.owner = r /\ w.content = c}

(* write_flex_file: a row with the same content is reused ... *)
RowFor(r, c) ==
  IF Same(r, c) # {} THEN CHOOSE w \in Same(r, c) : TRUE
  ELSE [id |-> used + 1, owner |-> r, content |-> c]

(* ... and no other is touched. *)
Stored(r, S) == rows \cup {RowFor(r, c) : c \in S}

(* An import: the markers of the payload become references, once the record *)
(* exists (materialize_pending_files).                                       *)
Import(c) ==
  LET r == last + 1
      ref == Ref(RowFor(r, c))
  IN /\ last < MaxRecords /\ used < MaxRows /\ (Concurrent \/ cmd = Off)
     /\ last' = r /\ used' = used + 1 /\ rows' = Stored(r, {c})
     /\ records' = [x \in DOMAIN records \cup {r} |-> IF x # r THEN records[x]
                      ELSE [flex |-> ref, raw |-> ref, nested |-> IF Nested THEN ref ELSE None]]
     /\ meant' = [x \in DOMAIN meant \cup {r} |-> IF x # r THEN meant[x]
                      ELSE [flex |-> c, raw |-> c, nested |-> IF Nested THEN c ELSE ""]]
     /\ hint' = NoHint /\ done' = "none"
     /\ UNCHANGED <<cmd, form, runs, forms>>

(* A record is deleted, with its rows or, outside the cascade, without. *)
Delete(r) ==
  /\ r \in DOMAIN records /\ cmd = Off /\ form = Closed
  /\ records' = Values(records, DOMAIN records \ {r})
  /\ meant' = Values(meant, DOMAIN records \ {r})
  /\ \E cascade \in BOOLEAN : rows' = IF cascade THEN {w \in rows : w.owner # r} ELSE rows
  /\ hint' = NoHint /\ done' = "none"
  /\ UNCHANGED <<last, used, cmd, form, runs, forms>>

(* The request that saves the form reads the record ... *)
OpenForm(r) ==
  /\ r \in DOMAIN records /\ form = Closed /\ forms < MaxForms /\ (Concurrent \/ cmd = Off)
  /\ form' = [pk |-> r, flex |-> records[r].flex]
  /\ forms' = forms + 1
  /\ UNCHANGED <<records, last, rows, used, meant, cmd, hint, done, runs>>

(* ... and stores an upload (attach_flex_files); raw_data is left alone. *)
Upload(c) ==
  /\ form # Closed /\ used < MaxRows
  /\ rows' = Stored(form.pk, {c}) /\ used' = used + 1
  /\ records' = [records EXCEPT ![form.pk].flex = Ref(RowFor(form.pk, c))]
  /\ meant' = [meant EXCEPT ![form.pk].flex = c]
  /\ form' = Closed /\ hint' = NoHint /\ done' = "none"
  /\ UNCHANGED <<last, cmd, runs, forms>>

(* Without an upload the value that was read is saved. *)
SaveForm ==
  /\ form # Closed
  /\ records' = [records EXCEPT ![form.pk].flex = form.flex]
  /\ form' = Closed /\ hint' = NoHint /\ done' = "none"
  /\ UNCHANGED <<last, rows, used, meant, cmd, runs, forms>>

-----------------------------------------------------------------------------
(* The command, one run at a time: the lock. *)
Begin(mode, from) ==
  /\ cmd = Off /\ runs < MaxRuns /\ (Concurrent \/ form = Closed)
  /\ from \in {0} \cup (IF hint.mode = mode THEN {hint.pk} ELSE {})
  /\ \E keepGoing \in BOOLEAN :
       cmd' = [Off EXCEPT !.mode = mode, !.pk = from, !.keepGoing = keepGoing]
  /\ runs' = runs + 1 /\ done' = "none" /\ hint' = NoHint
  /\ UNCHANGED <<records, last, rows, used, meant, form, forms>>

(* _candidates: the records with inline values, or that own rows. *)
Candidates ==
  {r \in DOMAIN records : r > cmd.pk /\
     IF cmd.mode = "forward" THEN \E s \in Slots : records[r][s].kind = "inline"
     ELSE \E w \in rows : w.owner = r}

Idle == cmd.mode # "off" /\ cmd.batch = <<>>

LoadBatch ==
  /\ Idle /\ Candidates # {}
  /\ LET S == {r \in Candidates : Cardinality({q \in Candidates : q < r}) < BatchSize}
     IN cmd' = [cmd EXCEPT !.batch = Values(records, S)]
  /\ UNCHANGED <<records, last, rows, used, meant, hint, done, form, runs, forms>>

Loaded(mode) == cmd.mode = mode /\ cmd.batch # <<>>
Current == Min(DOMAIN cmd.batch)
Rest == Values(cmd.batch, DOMAIN cmd.batch \ {Current})

Advanced == [cmd EXCEPT !.batch = Rest, !.pk = Current, !.owned = {}]

(* The payloads are computed from the batch that was loaded; the update *)
(* does nothing when the record is gone.                                 *)
Save(values) ==
  LET new == [s \in Slots |-> IF s \in TopLevel THEN values[s] ELSE cmd.batch[Current][s]]
  IN records' = [r \in DOMAIN records |-> IF r = Current THEN new ELSE records[r]]

InlineContents == {cmd.batch[Current][s].content : s \in {t \in TopLevel : cmd.batch[Current][t].kind = "inline"}}

(* _convert_record: one transaction for the rows and the payloads. *)
Convert ==
  /\ Loaded("forward")
  /\ rows' = Stored(Current, InlineContents)
  /\ used' = used + 1
  /\ IF InlineContents = {} THEN UNCHANGED records
     ELSE Save([s \in TopLevel |->
                  LET v == cmd.batch[Current][s]
                  IN IF v.kind = "inline" THEN Ref(RowFor(Current, v.content)) ELSE v])
  /\ cmd' = Advanced
  /\ UNCHANGED <<last, meant, hint, done, form, runs, forms>>

(* _restore_record: the rows are read ... *)
ReadRows ==
  /\ Loaded("reverse") /\ cmd.owned = {}
  /\ LET owned == {w \in rows : w.owner = Current}
     IN cmd' = IF owned = {} THEN Advanced ELSE [cmd EXCEPT !.owned = owned]
  /\ UNCHANGED <<records, last, rows, used, meant, hint, done, form, runs, forms>>

(* ... and in one transaction written back and deleted. *)
Restore ==
  /\ Loaded("reverse") /\ cmd.owned # {}
  /\ Save([s \in TopLevel |->
              LET v == cmd.batch[Current][s]
              IN IF v.kind = "ref" /\ v.row \in cmd.owned THEN Inline(v.row.content) ELSE v])
  /\ rows' = rows \ cmd.owned
  /\ cmd' = Advanced
  /\ UNCHANGED <<last, used, meant, hint, done, form, runs, forms>>

(* A record fails: with --continue-on-error the run goes on, otherwise it *)
(* stops and names the key before it.                                      *)
FailRecord ==
  /\ cmd.batch # <<>>
  /\ \/ cmd.keepGoing /\ cmd' = [Advanced EXCEPT !.failed = TRUE] /\ UNCHANGED hint
     \/ ~cmd.keepGoing /\ cmd' = Off /\ hint' = [mode |-> cmd.mode, pk |-> Current - 1]
  /\ UNCHANGED <<records, last, rows, used, meant, done, form, runs, forms>>

(* --limit is reached; a run with failures is repeated rather than resumed. *)
StopAtLimit ==
  /\ cmd.mode # "off" /\ cmd.pk > 0
  /\ cmd' = Off /\ hint' = IF cmd.failed THEN NoHint ELSE [mode |-> cmd.mode, pk |-> cmd.pk]
  /\ UNCHANGED <<records, last, rows, used, meant, done, form, runs, forms>>

(* The process is killed; its lock expires. *)
Kill ==
  /\ cmd.mode # "off"
  /\ cmd' = Off
  /\ UNCHANGED <<records, last, rows, used, meant, hint, done, form, runs, forms>>

(* _drop_orphan_rows, after the last record. *)
Finish ==
  /\ Idle /\ Candidates = {}
  /\ rows' = IF cmd.mode = "forward" THEN rows ELSE {w \in rows : w.owner \in DOMAIN records}
  /\ done' = (IF cmd.failed THEN "none" ELSE cmd.mode)
  /\ cmd' = Off
  /\ UNCHANGED <<records, last, used, meant, hint, form, runs, forms>>

Run == LoadBatch \/ Convert \/ ReadRows \/ Restore \/ FailRecord \/ StopAtLimit \/ Kill \/ Finish

Next ==
  \/ \E c \in Contents : Import(c) \/ Upload(c)
  \/ \E r \in DOMAIN records : Delete(r) \/ OpenForm(r)
  \/ SaveForm
  \/ \E mode \in {"forward"} \cup (IF Reverse THEN {"reverse"} ELSE {}), from \in 0..MaxRecords : Begin(mode, from)
  \/ Run

Spec == Init /\ [][Next]_vars

-----------------------------------------------------------------------------
(* Properties *)

(* The type invariant; a record of the batch was loaded after the last one. *)
TypeOK ==
  /\ DOMAIN records \subseteq 1..last /\ last <= MaxRecords /\ DOMAIN meant = DOMAIN records
  /\ \A w \in rows : w.id \in 1..used /\ w.owner \in 1..last /\ w.content \in Contents
  /\ cmd.mode \in {"off", "forward", "reverse"} /\ done \in {"none", "forward", "reverse"}
  /\ \A r \in DOMAIN cmd.batch : r > cmd.pk
  /\ form.pk \in 0..last /\ runs \in 0..MaxRuns /\ forms \in 0..MaxForms

ContentOf(v) ==
  IF v.kind = "inline" THEN v.content
  ELSE IF v.kind = "ref" /\ v.row \in rows THEN v.row.content ELSE ""

(* migrate_flex_files: an interrupted run leaves no half converted record.  *)
(* Through imports, uploads, runs in both directions that fail, are limited,  *)
(* killed, repeated or resumed, every field keeps the file put into it.       *)
ContentKept == \A r \in DOMAIN records, s \in Slots : ContentOf(records[r][s]) = meant[r][s]

(* A run that ends has moved every file: none is inline after a forward run, *)
(* and the table is empty after a reverse one.                                *)
EndedRunIsComplete ==
  /\ done = "forward" => \A r \in DOMAIN records, s \in TopLevel : records[r][s].kind # "inline"
  /\ done = "reverse" => rows = {}

(* FlexFieldFile: rows are append-only, so whatever is converted or uploaded *)
(* at the same time, a reference, an open form's too, finds its row.          *)
ReferencesResolve ==
  LET found(v) == v.kind = "ref" => v.row \in rows
  IN /\ \A r \in DOMAIN records, s \in Slots : found(records[r][s])
     /\ form # Closed => found(form.flex)
=============================================================================
