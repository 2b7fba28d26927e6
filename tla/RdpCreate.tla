------------------------------ MODULE RdpCreate ------------------------------
(***************************************************************************)
(* Which beneficiaries of a program are in which RDP: the creation jobs     *)
(* with their preflight, the clean replacement of a reviewed RDP, and the   *)
(* end of an RDP by cancellation, success or reset.  A beneficiary is what  *)
(* an RDP selects: a household, or a person in a program without them.      *)
(***************************************************************************)
EXTENDS Naturals, Sequences, FiniteSets

CONSTANTS
  Jobs,           \* creation jobs that run at a time
  Beneficiaries,
  MaxRdps,        \* bound on the RDPs created
  MaxEdits        \* bound on the changes of validity

CreateAssumption == MaxRdps \in Nat \ {0} /\ MaxEdits \in Nat

VARIABLES
  rdps,     \* the RDPs in the order of their creation: [status, links]
  removed,  \* the beneficiaries with removed = True
  valid,    \* the beneficiaries that are checked and have no errors
  cleanup,  \* Program.cleanup_in_progress
  job,      \* the creation jobs: [at, pks]
  edits

Statuses == {"PENDING", "PUSH_PENDING", "FAILURE", "SUCCESS", "CANCELLED", "REVIEW_PENDING"}

NonTerminal == {"PENDING", "PUSH_PENDING", "FAILURE", "REVIEW_PENDING"}

vars == <<rdps, removed, valid, cleanup, job, edits>>

Ids       == DOMAIN rdps
Unfinished == {i \in Ids : rdps[i].status \in NonTerminal}
Succeeded == {i \in Ids : rdps[i].status = "SUCCESS"}

Init ==
  /\ rdps = <<>> /\ removed = {} /\ valid = Beneficiaries /\ cleanup = FALSE /\ edits = 0
  /\ job = [j \in Jobs |-> [at |-> "free", pks |-> {}]]

\* Mutant of Preflight: successful RDPs are not asked.
PreflightOpen(pks, excluded) ==
  /\ pks # {} /\ pks \subseteq valid
  /\ \A i \in Unfinished \ excluded : rdps[i].links \cap pks = {}

(* preflight_errors: nothing selected, an invalid record, or one in another *)
(* RDP that is unfinished or successful.                                    *)
Preflight(pks, excluded) ==
  /\ pks # {} /\ pks \subseteq valid
  /\ \A i \in (Unfinished \cup Succeeded) \ excluded : rdps[i].links \cap pks = {}

-----------------------------------------------------------------------------
(* create_rdp (the action) selects among the records of the list, which *)
(* shows those that are not removed.                                     *)
Select(j, pks) ==
  /\ job[j].at = "free"
  /\ job' = [job EXCEPT ![j] = [at |-> "selected", pks |-> pks]]
  /\ UNCHANGED <<rdps, removed, valid, cleanup, edits>>

(* The job validates the selection, without a lock ... *)
JobPreflight(j) ==
  /\ job[j].at = "selected"
  /\ job' = [job EXCEPT ![j] = IF Preflight(job[j].pks, {}) THEN [@ EXCEPT !.at = "checked"]
                                                             ELSE [at |-> "free", pks |-> {}]]
  /\ UNCHANGED <<rdps, removed, valid, cleanup, edits>>

(* ... and creates the RDP with the program locked; the database refuses a *)
(* second unfinished one.                                                   *)
JobCreate(j) ==
  /\ job[j].at = "checked"
  /\ Len(rdps) < MaxRdps
  /\ rdps' = IF cleanup \/ Unfinished # {} THEN rdps
             ELSE Append(rdps, [status |-> "PENDING", links |-> job[j].pks])
  /\ job' = [job EXCEPT ![j].at = "ran"]
  /\ UNCHANGED <<removed, valid, cleanup, edits>>

JobEnd(j) ==
  /\ job[j].at = "ran"
  /\ job' = [job EXCEPT ![j] = [at |-> "free", pks |-> {}]]
  /\ UNCHANGED <<rdps, removed, valid, cleanup, edits>>

(* The worker dies, before the transaction or after it; the job is *)
(* delivered again.                                                 *)
JobRestart(j) ==
  /\ job[j].at \in {"checked", "ran"}
  /\ job' = [job EXCEPT ![j].at = "selected"]
  /\ UNCHANGED <<rdps, removed, valid, cleanup, edits>>

(* evaluate_rdp_for_push, when the biometric findings exceed the threshold. *)
RequireReview(i) ==
  /\ rdps[i].status = "PENDING" /\ ~cleanup
  /\ rdps' = [rdps EXCEPT ![i].status = "REVIEW_PENDING"]
  /\ UNCHANGED <<removed, valid, cleanup, job, edits>>

\* Mutant of CreateClean: nothing need remain of the selection.
CreateCleanEmpty(i, found) ==
  /\ rdps[i].status = "REVIEW_PENDING" /\ ~cleanup /\ Len(rdps) < MaxRdps
  /\ rdps' = Append([rdps EXCEPT ![i].status = "CANCELLED"],
                    [status |-> "PENDING", links |-> rdps[i].links \ found])
  /\ UNCHANGED <<removed, valid, cleanup, job, edits>>

(* create_clean_rdp: in one transaction, with the program and the RDP      *)
(* locked, a reviewed RDP is cancelled and one without the beneficiaries    *)
(* found is created; the old one is excluded from the preflight.            *)
CreateClean(i, found) ==
  /\ rdps[i].status = "REVIEW_PENDING" /\ ~cleanup /\ Len(rdps) < MaxRdps
  /\ Preflight(rdps[i].links \ found, {i})
  /\ rdps' = Append([rdps EXCEPT ![i].status = "CANCELLED"],
                    [status |-> "PENDING", links |-> rdps[i].links \ found])
  /\ UNCHANGED <<removed, valid, cleanup, job, edits>>

(* The push begins, or is retried, fails, or succeeds: what the RDP *)
(* represents is then removed.                                       *)
StartPush(i) ==
  /\ rdps[i].status \in {"PENDING", "FAILURE", "REVIEW_PENDING"} /\ ~cleanup
  /\ rdps' = [rdps EXCEPT ![i].status = "PUSH_PENDING"]
  /\ UNCHANGED <<removed, valid, cleanup, job, edits>>

FailPush(i) ==
  /\ rdps[i].status = "PUSH_PENDING"
  /\ rdps' = [rdps EXCEPT ![i].status = "FAILURE"]
  /\ UNCHANGED <<removed, valid, cleanup, job, edits>>

FinishPush(i) ==
  /\ rdps[i].status = "PUSH_PENDING"
  /\ rdps' = [rdps EXCEPT ![i].status = "SUCCESS"]
  /\ removed' = removed \cup rdps[i].links
  /\ UNCHANGED <<valid, cleanup, job, edits>>

Cancel(i) ==
  /\ rdps[i].status \in {"PENDING", "FAILURE", "REVIEW_PENDING"}
  /\ rdps' = [rdps EXCEPT ![i].status = "CANCELLED"]
  /\ UNCHANGED <<removed, valid, cleanup, job, edits>>

(* reset_rdp: the latest successful RDP, by the date of its creation. *)
Reset(i) ==
  /\ rdps[i].status = "SUCCESS" /\ ~cleanup
  /\ \A k \in Succeeded : k <= i
  /\ rdps' = [rdps EXCEPT ![i].status = "CANCELLED"]
  /\ removed' = removed \ rdps[i].links
  /\ UNCHANGED <<valid, cleanup, job, edits>>

(* A record is edited, invalidated or validated. *)
Edit(b) ==
  /\ edits < MaxEdits
  /\ edits' = edits + 1
  /\ valid' = IF b \in valid THEN valid \ {b} ELSE valid \cup {b}
  /\ UNCHANGED <<rdps, removed, cleanup, job>>

(* clean_program starts, which it does not while an RDP is being pushed; *)
(* the deletion itself is ProgramCleanup.                                 *)
BeginCleanup ==
  /\ ~cleanup /\ \A i \in Ids : rdps[i].status # "PUSH_PENDING"
  /\ cleanup' = TRUE
  /\ UNCHANGED <<rdps, removed, valid, job, edits>>

RdpStep(i) ==
  \/ RequireReview(i) \/ StartPush(i) \/ FailPush(i) \/ FinishPush(i) \/ Cancel(i) \/ Reset(i)
  \/ \E found \in SUBSET rdps[i].links : CreateClean(i, found)

Next ==
  \/ \E j \in Jobs :
       \/ \E pks \in SUBSET (Beneficiaries \ removed) : Select(j, pks)
       \/ JobPreflight(j) \/ JobCreate(j) \/ JobEnd(j) \/ JobRestart(j)
  \/ \E i \in Ids : RdpStep(i)
  \/ \E b \in Beneficiaries : Edit(b)
  \/ BeginCleanup

Spec == Init /\ [][Next]_vars

-----------------------------------------------------------------------------
(* Properties *)

(* The type invariant. *)
TypeOK ==
  /\ Len(rdps) <= MaxRdps
  /\ \A i \in Ids : rdps[i].status \in Statuses /\ rdps[i].links \in (SUBSET Beneficiaries) \ {{}}
  /\ removed \subseteq Beneficiaries /\ valid \subseteq Beneficiaries
  /\ cleanup \in BOOLEAN /\ edits \in 0..MaxEdits
  /\ \A j \in Jobs : job[j].at \in {"free", "selected", "checked", "ran"} /\ job[j].pks \subseteq Beneficiaries

(* docs/src/rdp/create.md: no beneficiary is in two RDPs that are           *)
(* unfinished or successful; it holds while creation jobs do not overlap,   *)
(* through cancellations, clean replacements, resets and dead workers.      *)
LinkedOnce ==
  \A i, k \in Unfinished \cup Succeeded : i # k => rdps[i].links \cap rdps[k].links = {}

(* What was pushed is removed and, after a reset, only that: a beneficiary *)
(* is removed exactly when a successful RDP has it.                         *)
RemovedIsPushed == removed = UNION {rdps[i].links : i \in Succeeded}

(* The inductive invariant of the two, for one creation job at a time: what  *)
(* a job found free stays free, as an RDP only begins again without having    *)
(* been cancelled, and a clean one has nobody that the old one did not have.  *)
Rows == [status : Statuses, links : (SUBSET Beneficiaries) \ {{}}]

CheckedIsFree ==
  \A j \in Jobs : job[j].at = "checked" =>
    job[j].pks # {} /\ \A i \in Unfinished \cup Succeeded : rdps[i].links \cap job[j].pks = {}

CreateInv ==
  /\ rdps \in Seq(Rows) /\ Len(rdps) <= MaxRdps
  /\ job \in [Jobs -> [at : {"free", "selected", "checked", "ran"}, pks : SUBSET Beneficiaries]]
  /\ removed \subseteq Beneficiaries /\ valid \subseteq Beneficiaries
  /\ cleanup \in BOOLEAN /\ edits \in 0..MaxEdits
  /\ CheckedIsFree /\ LinkedOnce /\ RemovedIsPushed
=============================================================================
