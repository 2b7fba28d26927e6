----------------------------- MODULE ProgramConfig -----------------------------
(***************************************************************************)
(* The configuration of a program and the requests that change it, each of   *)
(* which reads the row and saves it later: the form of the admin saves every  *)
(* column and its version, the pages of the workspace save one column.  The   *)
(* cleanup flag is a column of the same row.  The settings of DedupEngine     *)
(* are changed after a check of the RDPs of the program.                       *)
(***************************************************************************)
EXTENDS Naturals, FiniteSets

CONSTANTS
  Requests,     \* the requests that may be under way at a time
  Aliens,       \* columns of an import no checker knows
  MaxVersion,   \* bound on the full saves
  MaxSettings   \* bound on the changes of the DedupEngine settings

ConfigAssumption == MaxVersion \in Nat \ {0} /\ MaxSettings \in Nat

Scopes == {"household", "individual"}

(* The pages: the change form, the columns, the alien columns to ignore, the *)
(* defaults of a scope, the DedupEngine settings.                             *)
Pages == {"form", "columns", "aliens", "settings"} \cup Scopes

Nobody == "nobody"
Authors == Requests \cup {Nobody}

RdpStatuses == {"NONE", "PENDING", "REVIEW_PENDING", "PUSH_PENDING", "FAILURE", "SUCCESS", "CANCELLED"}

VARIABLES
  program,   \* the row: who wrote its columns, the flag, the version
  request,   \* the requests: [page, row], row being what was read
  rdp,       \* the status of the latest RDP, which has a biometric operation
  pushed,    \* another RDP of the program is SUCCESS
  engine,    \* the set of the latest RDP in DedupEngine
  settings   \* how often the settings were changed

vars == <<program, request, rdp, pushed, engine, settings>>

Fresh == [form |-> Nobody, columns |-> Nobody, aliens |-> {},
          defaults |-> [s \in Scopes |-> Nobody], cleanup |-> FALSE, version |-> 0]

Free == [page |-> "none", row |-> Fresh]

Init ==
  /\ program = Fresh /\ request = [r \in Requests |-> Free]
  /\ rdp = "NONE" /\ pushed = FALSE /\ engine = "none" /\ settings = 0

-----------------------------------------------------------------------------
(* The policy of the DedupEngine settings *)

HasBlockingRdp == pushed \/ rdp \notin {"NONE", "CANCELLED"}

(* can_create_deduplication_set: DedupEngine has no set that is open. *)
HasBlockingSet == engine = "open"

UpdateDedupSettingsCheck == ~program.cleanup /\ ~HasBlockingRdp /\ ~HasBlockingSet

-----------------------------------------------------------------------------
(* The requests *)

(* What a page goes by when it saves. *)
Read(p) ==
  CASE p = "form"   -> program
    [] p = "aliens" -> [Fresh EXCEPT !.version = program.version, !.aliens = program.aliens]
    [] p \in Scopes -> [Fresh EXCEPT !.version = program.version, !.defaults = program.defaults]
    [] OTHER        -> [Fresh EXCEPT !.version = program.version]

(* A page is opened for a change.  During a cleanup the workspace refuses   *)
(* its pages; the form is one of the admin's, too, which does not.            *)
Open(r, p) ==
  /\ request[r].page = "none"
  /\ p # "form" => ~program.cleanup
  /\ p = "settings" => UpdateDedupSettingsCheck
  /\ request' = [request EXCEPT ![r] = [page |-> p, row |-> Read(p)]]
  /\ UNCHANGED <<program, rdp, pushed, engine, settings>>

(* IntegerVersionField: an UPDATE asks for the version that was read. *)
Current(r) == request[r].row.version = program.version

Close(r) == request' = [request EXCEPT ![r] = Free]

(* The form saves the whole row as it read it, with the fields of the form *)
(* changed; or the record was modified.                                     *)
SaveForm(r) ==
  /\ request[r].page = "form" /\ program.version < MaxVersion
  /\ program' = IF Current(r)
                THEN [request[r].row EXCEPT !.form = r, !.version = @ + 1]
                ELSE program
  /\ Close(r)
  /\ UNCHANGED <<rdp, pushed, engine, settings>>

(* _configure_columns: save(update_fields=...) leaves the version alone. *)
SaveColumns(r) ==
  /\ request[r].page = "columns"
  /\ program' = IF Current(r) THEN [program EXCEPT !.columns = r] ELSE program
  /\ Close(r)
  /\ UNCHANGED <<rdp, pushed, engine, settings>>

(* _configure_alien_fields: some are taken off the list read, some put on. *)
SaveAliens(r, off, on) ==
  /\ request[r].page = "aliens"
  /\ program' = IF Current(r) THEN [program EXCEPT !.aliens = (request[r].row.aliens \ off) \cup on] ELSE program
  /\ Close(r)
  /\ UNCHANGED <<rdp, pushed, engine, settings>>

\* Mutant of SaveDefaults: the other scope is dropped.
SaveDefaultsOnly(r) ==
  /\ request[r].page \in Scopes
  /\ program' = IF Current(r)
                THEN [program EXCEPT !.defaults = [[s \in Scopes |-> Nobody] EXCEPT ![request[r].page] = r]]
                ELSE program
  /\ Close(r)
  /\ UNCHANGED <<rdp, pushed, engine, settings>>

(* save_default_fields_for: one scope of what was read is replaced, and the *)
(* column with both is saved.                                                *)
SaveDefaults(r) ==
  /\ request[r].page \in Scopes
  /\ program' = IF Current(r)
                THEN [program EXCEPT !.defaults = [request[r].row.defaults EXCEPT ![request[r].page] = r]]
                ELSE program
  /\ Close(r)
  /\ UNCHANGED <<rdp, pushed, engine, settings>>

(* update_dedup_settings checked, and posts; DedupEngine may refuse. *)
PostSettings(r, answered) ==
  /\ request[r].page = "settings" /\ settings < MaxSettings
  /\ settings' = IF answered THEN settings + 1 ELSE settings
  /\ Close(r)
  /\ UNCHANGED <<program, rdp, pushed, engine>>

(* Invalid, refused or abandoned. *)
Leave(r) ==
  /\ request[r].page # "none"
  /\ Close(r)
  /\ UNCHANGED <<program, rdp, pushed, engine, settings>>

-----------------------------------------------------------------------------
(* The rest of the program's life *)

(* clean_program, with the row locked, and the end of its job. *)
BeginCleanup ==
  /\ ~program.cleanup /\ rdp # "PUSH_PENDING"
  /\ program' = [program EXCEPT !.cleanup = TRUE]
  /\ UNCHANGED <<request, rdp, pushed, engine, settings>>

EndCleanup ==
  /\ program.cleanup
  /\ program' = [program EXCEPT !.cleanup = FALSE]
  /\ rdp' = "NONE" /\ pushed' = FALSE /\ engine' = "none"
  /\ UNCHANGED <<request, settings>>

(* An RDP with a biometric operation is created, goes its way (RdpDedup,    *)
(* RdpPush), and its set is created, and approved or rejected.                *)
CreateRdp ==
  /\ ~program.cleanup /\ rdp \in {"NONE", "SUCCESS", "CANCELLED"} /\ engine # "open"
  /\ rdp' = "PENDING" /\ pushed' = (pushed \/ rdp = "SUCCESS") /\ engine' = "none"
  /\ UNCHANGED <<program, request, settings>>

Moves == {<<"PENDING", "REVIEW_PENDING">>, <<"PENDING", "PUSH_PENDING">>, <<"PENDING", "CANCELLED">>,
          <<"REVIEW_PENDING", "PUSH_PENDING">>, <<"REVIEW_PENDING", "CANCELLED">>,
          <<"PUSH_PENDING", "SUCCESS">>, <<"PUSH_PENDING", "FAILURE">>,
          <<"FAILURE", "PUSH_PENDING">>, <<"FAILURE", "CANCELLED">>, <<"SUCCESS", "CANCELLED">>}

MoveRdp(s) ==
  /\ <<rdp, s>> \in Moves
  /\ s \in {"REVIEW_PENDING", "PUSH_PENDING"} => engine = "open" /\ ~program.cleanup
  /\ rdp' = s
  /\ UNCHANGED <<program, request, pushed, engine, settings>>

OpenSet ==
  /\ rdp = "PENDING" /\ engine = "none" /\ ~program.cleanup
  /\ engine' = "open"
  /\ UNCHANGED <<program, request, rdp, pushed, settings>>

CloseSet ==
  /\ rdp \in {"SUCCESS", "CANCELLED"} /\ engine = "open"
  /\ engine' = "closed"
  /\ UNCHANGED <<program, request, rdp, pushed, settings>>

Next ==
  \/ \E r \in Requests :
       \/ \E p \in Pages : Open(r, p)
       \/ SaveForm(r) \/ SaveColumns(r) \/ SaveDefaults(r) \/ Leave(r)
       \/ \E off, on \in SUBSET Aliens : SaveAliens(r, off, on)
       \/ \E answered \in BOOLEAN : PostSettings(r, answered)
  \/ BeginCleanup \/ EndCleanup
  \/ CreateRdp \/ OpenSet \/ CloseSet
  \/ \E s \in RdpStatuses : MoveRdp(s)

Spec == Init /\ [][Next]_vars

-----------------------------------------------------------------------------
(* Properties *)

Rows == [form : Authors, columns : Authors, aliens : SUBSET Aliens,
         defaults : [Scopes -> Authors], cleanup : BOOLEAN, version : 0..MaxVersion]

(* The type invariant; nobody read a version that is yet to come. *)
TypeOK ==
  /\ program \in Rows
  /\ request \in [Requests -> [page : Pages \cup {"none"}, row : Rows]]
  /\ \A r \in Requests : request[r].row.version <= program.version
  /\ rdp \in RdpStatuses /\ pushed \in BOOLEAN
  /\ engine \in {"none", "open", "closed"} /\ settings \in 0..MaxSettings

(* Of two forms that were read together one is saved: the second does not   *)
(* overwrite what it has not seen.                                           *)
FormsSerialize ==
  \A r \in Requests : request[r].page = "form" /\ program'.version # program.version /\ program'.form = r
    => request[r].row.form = program.form

(* models/program.py: "Replace system_fields['default_fields'][scope]": that *)
(* scope, and no other.  So it is while one page is open at a time, whatever *)
(* the cleanup does to the row meanwhile.                                     *)
OnlyThatScope ==
  \A s \in Scopes : program'.defaults[s] # program.defaults[s]
    => \E r \in Requests : request[r].page = s /\ program'.defaults[s] = r

(* models/program.py: the flag says whether a cleanup is in progress; only   *)
(* the cleanup lowers it.                                                     *)
OnlyCleanupLowersTheFlag ==
  [][program.cleanup /\ ~program'.cleanup => \A r \in Requests : request'[r] = request[r]]_vars

(* rdp/deduplication/policy.py: the settings do not change after a           *)
(* successful RDP, nor while one is under way.                                *)
SettingsHold == [][settings' # settings => ~HasBlockingRdp]_vars

(* FormsSerialize rests on this: a form whose version is current has the     *)
(* columns of the last form that was saved.                                   *)
FormInv ==
  /\ TypeOK
  /\ \A r \in Requests : request[r].page = "form" /\ Current(r) => request[r].row.form = program.form

(* and OnlyThatScope on this, which holds with one request.                   *)
AloneInv ==
  /\ TypeOK
  /\ \A r \in Requests : request[r].page \in {"form"} \cup Scopes => request[r].row.defaults = program.defaults
=============================================================================
