----------------------------- MODULE RdpStatus -----------------------------
(***************************************************************************)
(* What an RDP promises to the people who work with it: the status diagram *)
(* of docs/src/rdp/lifecycle.md as the code implements it, and the meaning *)
(* of SUCCESS.  An RDP delivers its beneficiaries to HOPE Core; `delivered'*)
(* says that HOPE holds a completed RDI with them.  SUCCESS is announced   *)
(* only for a delivered RDP, and what was announced is not taken back.     *)
(* RdpPush is shown to implement this specification.                       *)
(***************************************************************************)

VARIABLES
  status,      \* Rdp.status
  delivered    \* HOPE holds a completed (or merged) RDI of this RDP

vars == <<status, delivered>>

\* Rdp.PushStatus
Statuses ==
  {"PENDING", "REVIEW_PENDING", "PUSH_PENDING", "SUCCESS", "FAILURE", "CANCELLED"}

\* NON_TERMINAL_RDP_STATUSES
NonTerminal == {"PENDING", "FAILURE", "REVIEW_PENDING", "PUSH_PENDING"}

Init ==
  /\ status = "PENDING"
  /\ delivered = FALSE

-----------------------------------------------------------------------------
\* The evaluation of a processed RDP sends it to review.
RequireReview ==
  /\ status = "PENDING"
  /\ status' = "REVIEW_PENDING"
  /\ UNCHANGED delivered

\* A push attempt starts: automatically, from review, or as a retry.
StartPush ==
  /\ status \in {"PENDING", "REVIEW_PENDING", "FAILURE"}
  /\ status' = "PUSH_PENDING"
  /\ UNCHANGED delivered

\* The data reaches HOPE.  A push that was given up may still deliver.
Deliver ==
  /\ status \notin {"PENDING", "REVIEW_PENDING"}
  /\ delivered' = TRUE
  /\ UNCHANGED status

\* HOPE resets an earlier RDI on behalf of a push, never one of a successful RDP.
Withdraw ==
  /\ status \in {"PUSH_PENDING", "FAILURE", "CANCELLED"}
  /\ delivered' = FALSE
  /\ UNCHANGED status

Succeed ==
  /\ status = "PUSH_PENDING"
  /\ delivered
  /\ status' = "SUCCESS"
  /\ UNCHANGED delivered

Fail ==
  /\ status = "PUSH_PENDING"
  /\ status' = "FAILURE"
  /\ UNCHANGED delivered

\* Cancel RDP, Create clean RDP, or the staff reset of a successful RDP.
Cancel ==
  /\ status \in {"PENDING", "REVIEW_PENDING", "FAILURE", "SUCCESS"}
  /\ status' = "CANCELLED"
  /\ UNCHANGED delivered

Next ==
  \/ RequireReview \/ StartPush \/ Deliver \/ Withdraw
  \/ Succeed \/ Fail \/ Cancel

Spec == Init /\ [][Next]_vars
=============================================================================
