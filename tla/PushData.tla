------------------------------- MODULE PushData -------------------------------
(***************************************************************************)
(* What a push of an RDP puts into a HOPE RDI.  Individuals go first, in     *)
(* batches; the answers map their keys to HOPE identifiers; the households   *)
(* follow, their members and role references rewritten through that map; the *)
(* RDI is completed, and what the RDP represents is marked removed.  Records *)
(* are edited meanwhile, and HOPE answers late, partly or not at all.  Which *)
(* attempt may run is RdpPush, which records may be selected is RdpCreate.   *)
(***************************************************************************)
EXTENDS Naturals, Sequences, FiniteSets, Functions, FiniteSetsExt

CONSTANTS
  Households, Individuals,
  NoOne,         \* no household, or no individual
  Household,     \* the household of an individual, or NoOne
  FirstRoles,    \* the role references of the households at first
  EditRefs,      \* the values an edit may give to a role reference
  MasterDetail,  \* an RDP of the program selects households, not people
  BatchSize,     \* PUSH_BATCH_SIZE
  MaxRdps, MaxRdis, MaxEdits

RoleFields == {"head_of_household_id", "primary_collector_id", "alternate_collector_id"}

(* A role reference: nothing, the key of an individual as a number or as *)
(* text, or a HOPE tag ("IND-25-0000.0051").                              *)
Refs == {[kind |-> k, pk |-> NoOne] : k \in {"none", "tag"}}
          \cup [kind : {"int", "text"}, pk : Individuals]

Records == Households \cup Individuals

PushDataAssumption ==
  /\ Household \in [Individuals -> Households \cup {NoOne}]
  /\ NoOne \notin Households \cup Individuals /\ Households \cap Individuals = {}
  /\ MasterDetail \in BOOLEAN
  /\ FirstRoles \in [Households -> [RoleFields -> Refs]] /\ EditRefs \subseteq Refs
  /\ BatchSize \in Nat \ {0} /\ MaxRdps \in Nat /\ MaxRdis \in Nat /\ MaxEdits \in Nat

VARIABLES
  roles,    \* the role references of every household
  valid,    \* the records that are checked and have no errors
  removed,  \* the records with removed = True
  rdps,     \* the RDPs: [sel, status]
  rdis,     \* the RDIs in HOPE: [rdp, inds, hhs, complete]
  push,     \* the data push: [at, todo, rows, mapped, failed]
  edits

vars == <<roles, valid, removed, rdps, rdis, push, edits>>

Rdp == Len(rdps)   \* the latest RDP and the latest RDI
Rdi == Len(rdis)

Idle == [at |-> "idle", todo |-> {}, rows |-> <<>>, mapped |-> {}, failed |-> FALSE]

Init ==
  /\ roles = FirstRoles /\ valid = Records /\ removed = {}
  /\ rdps = <<>> /\ rdis = <<>> /\ push = Idle /\ edits = 0

-----------------------------------------------------------------------------
(* What an RDP stands for *)

Members(hs) == {i \in Individuals : Household[i] \in hs}

(* collector_pks_by_household_pks: the collectors, not the head; a key that *)
(* is text counts when it is made of digits.                                 *)
CollectorPks(hs) ==
  {i \in Individuals : \E h \in hs, f \in RoleFields \ {"head_of_household_id"} :
     roles[h][f].kind \in {"int", "text"} /\ roles[h][f].pk = i}

(* qs_individuals_for_push, qs_individuals_by_pks *)
ForPush(sel) == IF MasterDetail THEN Members(sel) \cup CollectorPks(sel) ELSE sel

(* The records set_rdp_beneficiaries_removed marks. *)
Represented(sel) == IF MasterDetail THEN sel \cup Members(sel) ELSE sel

Succeeded == {k \in DOMAIN rdps : rdps[k].status = "SUCCESS"}

(* preflight_errors *)
Preflight(sel, own) ==
  /\ sel # {} /\ sel \cup ForPush(sel) \subseteq valid
  /\ \A k \in DOMAIN rdps \ {own} : rdps[k].status # "CANCELLED" => rdps[k].sel \cap sel = {}

-----------------------------------------------------------------------------
(* An RDP is created and its push begins; or the push is retried. *)
Create(sel) ==
  /\ Rdp < MaxRdps /\ \A k \in DOMAIN rdps : rdps[k].status \in {"SUCCESS", "CANCELLED"}
  /\ sel \subseteq (IF MasterDetail THEN Households ELSE Individuals) \ removed
  /\ Preflight(sel, 0)
  /\ rdps' = Append(rdps, [sel |-> sel, status |-> "PUSH_PENDING"])
  /\ push' = [Idle EXCEPT !.at = "start"]
  /\ UNCHANGED <<roles, valid, removed, rdis, edits>>

Retry ==
  /\ Rdp > 0 /\ rdps[Rdp].status = "FAILURE"
  /\ rdps' = [rdps EXCEPT ![Rdp].status = "PUSH_PENDING"]
  /\ push' = [Idle EXCEPT !.at = "start"]
  /\ UNCHANGED <<roles, valid, removed, rdis, edits>>

(* _raise_push_errors: the errors collected end the push; so does any other *)
(* exception.                                                                *)
Fail ==
  /\ push.failed
  /\ rdps' = [rdps EXCEPT ![Rdp].status = "FAILURE"]
  /\ push' = Idle
  /\ UNCHANGED <<roles, valid, removed, rdis, edits>>

(* The preflight, once more, and rdi_create. *)
CreateRdi(answered) ==
  /\ push.at = "start" /\ ~push.failed /\ Rdi < MaxRdis
  /\ IF Preflight(rdps[Rdp].sel, Rdp) /\ answered
     THEN /\ rdis' = Append(rdis, [rdp |-> Rdp, inds |-> {}, hhs |-> {}, complete |-> FALSE])
          /\ push' = [push EXCEPT !.at = "created"]
     ELSE push' = [push EXCEPT !.failed = TRUE] /\ UNCHANGED rdis
  /\ UNCHANGED <<roles, valid, removed, rdps, edits>>

(* _push_data_steps: the rows of the individuals are read ... *)
ReadIndividuals ==
  /\ push.at = "created"
  /\ push' = [push EXCEPT !.at = "individuals", !.todo = ForPush(rdps[Rdp].sel)]
  /\ UNCHANGED <<roles, valid, removed, rdps, rdis, edits>>

Batch(b) == b \subseteq push.todo /\ Cardinality(b) = Min({BatchSize, Cardinality(push.todo)})

(* The answers of HOPE to a batch: an error, or none, whether it kept the    *)
(* rows or not; some of the rows accepted; all of them, the map naming all    *)
(* or, were HOPE to leave some out, fewer of them.                             *)
Answers(b) ==
  {[kept |-> k, ok |-> FALSE, mapped |-> {}] : k \in {{}, b}}
    \cup {[kept |-> k, ok |-> k = b, mapped |-> k] : k \in SUBSET b}
    \cup {[kept |-> b, ok |-> TRUE, mapped |-> k] : k \in SUBSET b}

(* ... and posted in batches; _process_individuals_response (and of people) *)
(* takes an answer for all of them only, load_mapping_from_api the map.       *)
PostIndividuals(b, a) ==
  /\ push.at = "individuals" /\ push.todo # {} /\ ~push.failed
  /\ rdis' = [rdis EXCEPT ![Rdi].inds = @ \cup a.kept]
  /\ push' = IF a.ok THEN [push EXCEPT !.todo = @ \ b, !.mapped = @ \cup a.mapped]
                     ELSE [push EXCEPT !.failed = TRUE]
  /\ UNCHANGED <<roles, valid, removed, rdps, edits>>

(* qs_households: the rows are read when the individuals are through. *)
ReadHouseholds ==
  /\ MasterDetail /\ push.at = "individuals" /\ push.todo = {} /\ ~push.failed
  /\ push' = [push EXCEPT !.at = "households", !.todo = rdps[Rdp].sel,
                          !.rows = [h \in rdps[Rdp].sel |-> roles[h]]]
  /\ UNCHANGED <<roles, valid, removed, rdps, rdis, edits>>

(* map_role_value: None and a tag stand for themselves, a number must be in *)
(* the map, and text is refused.                                             *)
RoleMaps(ref) ==
  \/ ref.kind \in {"none", "tag"}
  \/ ref.kind = "int" /\ ref.pk \in push.mapped

(* map_role_value, map_members: what the rows of a batch cannot express. *)
BatchMaps(b) ==
  /\ Members(b) \subseteq push.mapped
  /\ \A h \in b, f \in RoleFields : RoleMaps(push.rows[h][f])

(* The individuals a household refers to in HOPE. *)
Referred(h) ==
  {push.rows[h][f].pk : f \in {f \in RoleFields : push.rows[h][f].kind \in {"int", "text"}}}
    \cup Members({h})

(* _prepare_households_batch, the request, _process_households_response *)
PostHouseholds(b, a) ==
  /\ push.at = "households" /\ push.todo # {} /\ ~push.failed
  /\ IF BatchMaps(b)
     THEN /\ rdis' = [rdis EXCEPT ![Rdi].hhs = @ \cup {[hh |-> h, refs |-> Referred(h)] : h \in a.kept}]
          /\ push' = IF a.ok THEN [push EXCEPT !.todo = @ \ b] ELSE [push EXCEPT !.failed = TRUE]
     ELSE push' = [push EXCEPT !.failed = TRUE] /\ UNCHANGED rdis
  /\ UNCHANGED <<roles, valid, removed, rdps, edits>>

(* rdi_complete; the answer may be lost. *)
Complete(done, answered) ==
  /\ push.at = IF MasterDetail THEN "households" ELSE "individuals"
  /\ push.todo = {} /\ ~push.failed
  /\ answered => done
  /\ rdis' = [rdis EXCEPT ![Rdi].complete = @ \/ done]
  /\ push' = IF answered THEN [push EXCEPT !.at = "completed"] ELSE [push EXCEPT !.failed = TRUE]
  /\ UNCHANGED <<roles, valid, removed, rdps, edits>>

(* _finish_successful_push *)
Finish ==
  /\ push.at = "completed"
  /\ rdps' = [rdps EXCEPT ![Rdp].status = "SUCCESS"]
  /\ removed' = removed \cup Represented(rdps[Rdp].sel)
  /\ push' = Idle
  /\ UNCHANGED <<roles, valid, rdis, edits>>

(* reset_rdp of the latest successful RDP. *)
Reset(k) ==
  /\ k \in Succeeded /\ \A n \in Succeeded : n <= k
  /\ rdps' = [rdps EXCEPT ![k].status = "CANCELLED"]
  /\ removed' = removed \ Represented(rdps[k].sel)
  /\ UNCHANGED <<roles, valid, rdis, push, edits>>

(* cancel_rdp of a push that failed. *)
Cancel ==
  /\ Rdp > 0 /\ rdps[Rdp].status = "FAILURE"
  /\ rdps' = [rdps EXCEPT ![Rdp].status = "CANCELLED"]
  /\ UNCHANGED <<roles, valid, removed, rdis, push, edits>>

(* A record that is not removed is edited, RDP or not, and saved with its *)
(* errors or without any.                                                  *)
Edit(r) ==
  /\ edits < MaxEdits /\ r \notin removed
  /\ edits' = edits + 1
  /\ \/ valid' = valid \ {r} \/ valid' = valid \cup {r}
  /\ IF r \in Households
     THEN \E f \in RoleFields, ref \in EditRefs : roles' = [roles EXCEPT ![r][f] = ref]
     ELSE UNCHANGED roles
  /\ UNCHANGED <<removed, rdps, rdis, push>>

Next ==
  \/ \E sel \in SUBSET Records : Create(sel)
  \/ Retry \/ Fail \/ ReadIndividuals \/ ReadHouseholds \/ Finish \/ Cancel
  \/ \E answered \in BOOLEAN : CreateRdi(answered)
  \/ \E b \in SUBSET push.todo : Batch(b) /\ \E a \in Answers(b) : PostIndividuals(b, a) \/ PostHouseholds(b, a)
  \/ \E done, answered \in BOOLEAN : Complete(done, answered)
  \/ \E k \in DOMAIN rdps : Reset(k)
  \/ \E r \in Records : Edit(r)

Spec == Init /\ [][Next]_vars

-----------------------------------------------------------------------------
(* Properties *)

(* The type invariant; a push is under way exactly for an RDP PUSH_PENDING. *)
TypeOK ==
  /\ roles \in [Households -> [RoleFields -> Refs]]
  /\ valid \subseteq Records /\ removed \subseteq Records /\ edits \in 0..MaxEdits
  /\ Rdp <= MaxRdps /\ Rdi <= MaxRdis
  /\ \A k \in DOMAIN rdps : rdps[k].sel \subseteq Records
       /\ rdps[k].status \in {"PUSH_PENDING", "FAILURE", "SUCCESS", "CANCELLED"}
  /\ \A n \in DOMAIN rdis : rdis[n].rdp \in DOMAIN rdps /\ rdis[n].inds \subseteq Individuals
  /\ push.at \in {"idle", "start", "created", "individuals", "households", "completed"}
  /\ (push.at # "idle") = (Rdp > 0 /\ rdps[Rdp].status = "PUSH_PENDING")

(* An RDI that is completed is closed: it has every household of its RDP,   *)
(* and every member and role holder those refer to by key, whatever was      *)
(* edited between the two steps, left out of a map or lost on the way.       *)
CompletedIsClosed ==
  \A n \in DOMAIN rdis : rdis[n].complete /\ MasterDetail =>
    /\ {x.hh : x \in rdis[n].hhs} = rdps[rdis[n].rdp].sel
    /\ \A x \in rdis[n].hhs : x.refs \subseteq rdis[n].inds

(* docs/src/push_data.md: what a successful RDP represents is removed, and   *)
(* nothing else: an external collector stays, and a reset takes back exactly *)
(* what the push did.                                                         *)
RemovedIsPushed ==
  removed = {r \in Records : \E k \in Succeeded :
               r \in rdps[k].sel \/ (r \in Individuals /\ Household[r] \in rdps[k].sel)}

(* Whatever is removed is in a completed RDI of its RDP. *)
RemovedWereSent ==
  \A k \in Succeeded : \E n \in DOMAIN rdis :
    /\ rdis[n].rdp = k /\ rdis[n].complete
    /\ Represented(rdps[k].sel) \subseteq rdis[n].inds \cup {x.hh : x \in rdis[n].hhs}

(* docs/src/push_data.md: what is sent has been validated; an edit after the *)
(* preflight is not.                                                          *)
SentAreValid ==
  [][/\ push.at = "created" /\ push'.at = "individuals" => push'.todo \subseteq valid
     /\ push.at = "individuals" /\ push'.at = "households" => push'.todo \subseteq valid]_vars

(* The inductive invariants: what a push has sent, and has yet to send, at   *)
(* each of its steps.                                                         *)
RdpRows == [sel : SUBSET Records, status : {"PUSH_PENDING", "FAILURE", "SUCCESS", "CANCELLED"}]
RdiRows == [rdp : Nat, inds : SUBSET Individuals, complete : BOOLEAN,
            hhs : SUBSET [hh : Households, refs : SUBSET Individuals]]

Begun == {"created", "individuals", "households", "completed"}

PushInv ==
  /\ rdps \in Seq(RdpRows) /\ rdis \in Seq(RdiRows) /\ Rdp <= MaxRdps /\ Rdi <= MaxRdis
  /\ DOMAIN push = {"at", "todo", "rows", "mapped", "failed"}
  /\ push.at \in {"idle", "start"} \cup Begun /\ push.failed \in BOOLEAN
  /\ push.todo \subseteq Records /\ push.mapped \subseteq Individuals
  /\ push.at = "individuals" => push.todo \subseteq Individuals
  /\ push.at = "households" => MasterDetail /\ push.todo \subseteq Households
  /\ \A k \in DOMAIN rdps : rdps[k].sel \subseteq IF MasterDetail THEN Households ELSE Individuals
  /\ push.at # "idle" <=> Rdp > 0 /\ rdps[Rdp].status = "PUSH_PENDING"
  /\ push.failed => push.at # "idle"
  /\ push.at \in Begun => Rdi > 0 /\ rdis[Rdi].rdp = Rdp
  /\ \A n \in DOMAIN rdis : rdis[n].rdp \in DOMAIN rdps

(* Of households: what was mapped is in the RDI; what was read is there or   *)
(* yet to be sent; and RDPs that were not cancelled have nobody in common.    *)
DataInv ==
  /\ PushInv /\ CompletedIsClosed /\ RemovedIsPushed
  /\ \A k, m \in DOMAIN rdps : k # m /\ rdps[k].status # "CANCELLED" /\ rdps[m].status # "CANCELLED" =>
       rdps[k].sel \cap rdps[m].sel = {}
  /\ push.at = "start" => push.mapped = {}
  /\ push.at \in Begun => push.mapped \subseteq rdis[Rdi].inds
  /\ push.at \in {"created", "individuals"} => rdis[Rdi].hhs = {}
  /\ push.at = "households" => {x.hh : x \in rdis[Rdi].hhs} \cup push.todo = rdps[Rdp].sel
  /\ \A n \in DOMAIN rdis : \A x \in rdis[n].hhs : x.refs \subseteq rdis[n].inds

(* Of people: the same without households.                                    *)
PeopleInv ==
  /\ PushInv /\ RemovedWereSent
  /\ push.at = "individuals" => rdps[Rdp].sel \subseteq push.todo \cup rdis[Rdi].inds
  /\ push.at = "completed" => rdis[Rdi].complete /\ rdps[Rdp].sel \subseteq rdis[Rdi].inds
=============================================================================
