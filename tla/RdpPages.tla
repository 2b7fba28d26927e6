------------------------------ MODULE RdpPages ------------------------------
(***************************************************************************)
(* The pages of one RDP: the buttons of the workspace, each checked when the *)
(* page is made, when it is sent and under the lock, the confirmations that  *)
(* stay open meanwhile, and the form of the site's administration.  The jobs *)
(* are those of RdpPush and RdpDedup, in coarse steps.                       *)
(***************************************************************************)
EXTENDS Naturals, FiniteSets

CONSTANTS
  Users,
  MaxAttempts,   \* bound on push attempts; attempt n makes the RDI n in HOPE
  Forms          \* the administration's form is used

PagesAssumption ==
  /\ IsFiniteSet(Users) /\ MaxAttempts \in Nat \ {0} /\ Forms \in BOOLEAN

ASSUME PagesAssumed == PagesAssumption

VARIABLES
  status, rdi, attempt,   \* of Rdp; rdi 0 is null, attempt 0 too
  prepared,               \* the job that sends the data exists for the attempt
  op,                     \* the operation of the RDP
  hope,                   \* the RDIs there are in HOPE
  page,                   \* what every user has open
  used                    \* attempts so far

vars == <<status, rdi, attempt, prepared, op, hope, page, used>>
rdp == <<status, rdi, attempt>>

None == 0
NA == MaxAttempts + 1
Linked(r) == r \notin {None, NA}
Open == {"PENDING", "FAILURE"}
Closed == [kind |-> "none"]

Init ==
  /\ status = "PENDING" /\ rdi = None /\ attempt = None /\ prepared = FALSE
  /\ op \in {"none", "pending"} /\ hope = {} /\ used = 0
  /\ page = [u \in Users |-> Closed]

-----------------------------------------------------------------------------
(* RdpActionPolicy and PushPolicy. *)
CancelCheck == status \in Open \cup {"REVIEW_PENDING"} /\ op # "running"
ReviewCheck == status = "REVIEW_PENDING"
RetryCheck == status = "FAILURE" /\ op \in {"none", "success"}
ResetCheck == status = "SUCCESS"
StuckVisible == status = "PUSH_PENDING"

Check(k) ==
  CASE k = "cancel" -> CancelCheck [] k = "review" -> ReviewCheck
    [] k = "reset" -> ResetCheck [] k = "clean" -> ReviewCheck [] OTHER -> StuckVisible

Start ==
  /\ used < MaxAttempts
  /\ status' = "PUSH_PENDING" /\ attempt' = used + 1 /\ used' = used + 1 /\ prepared' = FALSE
  /\ UNCHANGED rdi

Cancelled ==
  /\ status' = "CANCELLED" /\ attempt' = None
  /\ rdi' = IF rdi = None THEN NA ELSE rdi
  /\ UNCHANGED <<prepared, used>>

Finish(s, r) ==
  /\ status' = s /\ rdi' = r /\ attempt' = None
  /\ UNCHANGED <<prepared, used>>

(* The jobs. *)
Operate ==
  /\ status = "PENDING"
  /\ \/ op = "pending" /\ op' = "running"
     \/ op = "running" /\ op' \in {"success", "failure"}
  /\ UNCHANGED <<status, rdi, attempt, prepared, hope, page, used>>

Evaluate ==
  /\ status = "PENDING" /\ op \in {"none", "success"}
  /\ \/ status' = "REVIEW_PENDING" /\ UNCHANGED <<rdi, attempt, prepared, used>>
     \/ Start
  /\ UNCHANGED <<op, hope, page>>

(* The preparation removes the RDI of an earlier attempt. *)
Prepare ==
  /\ attempt # None /\ ~prepared
  /\ hope' = hope \ {rdi} /\ rdi' = None /\ prepared' = TRUE
  /\ UNCHANGED <<status, attempt, op, page, used>>

Link ==
  /\ attempt # None /\ prepared /\ rdi = None
  /\ rdi' = attempt /\ hope' = hope \cup {attempt}
  /\ UNCHANGED <<status, attempt, prepared, op, page, used>>

(* The preparation also ends well, when HOPE has merged the earlier RDI. *)
End ==
  /\ attempt # None
  /\ \/ Finish("FAILURE", IF rdi = None THEN NA ELSE rdi)
     \/ Linked(rdi) /\ Finish("SUCCESS", rdi)
  /\ UNCHANGED <<op, hope, page>>

Jobs == Operate \/ Evaluate \/ Prepare \/ Link \/ End

-----------------------------------------------------------------------------
(* A page shows what there is when it is made; "sent" is between the check   *)
(* of the request and the lock, with the call to DedupEngine.                *)
Shown(k, at) == [kind |-> k, at |-> at, rdi |-> rdi, attempt |-> attempt]

Goto(u, p) == page' = [page EXCEPT ![u] = p]

(* Without a linked RDI the cancellation asks for no confirmation. *)
OpenPage(u, k) ==
  /\ page[u] = Closed /\ Check(k)
  /\ Goto(u, Shown(k, IF k = "cancel" /\ ~Linked(rdi) THEN "sent" ELSE "shown"))
  /\ UNCHANGED <<status, rdi, attempt, prepared, op, hope, used>>

(* The user does what the confirmation asks for, in HOPE. *)
DeleteManually(u) ==
  /\ page[u] # Closed /\ page[u].kind \in {"cancel", "clean"} /\ page[u].at = "shown"
  /\ page[u].rdi \in hope
  /\ hope' = hope \ {page[u].rdi}
  /\ UNCHANGED <<status, rdi, attempt, prepared, op, page, used>>

(* The POST checks again, but for the stuck push, which the address names;   *)
(* who confirms has deleted the RDI of the message.                          *)
Confirm(u) ==
  /\ page[u] # Closed /\ page[u].kind # "form" /\ page[u].at = "shown"
  /\ page[u].kind \in {"cancel", "clean"} => page[u].rdi \notin hope
  /\ Goto(u, IF page[u].kind = "stuck" \/ Check(page[u].kind)
             THEN [page[u] EXCEPT !.at = "sent"] ELSE Closed)
  /\ UNCHANGED <<status, rdi, attempt, prepared, op, hope, used>>

Leave(u) ==
  /\ page[u] # Closed
  /\ Goto(u, Closed)
  /\ UNCHANGED <<status, rdi, attempt, prepared, op, hope, used>>

Sent(u, k) == page[u] # Closed /\ page[u].kind = k /\ page[u].at = "sent"

Cancel(u) ==
  /\ Sent(u, "cancel")
  /\ IF CancelCheck THEN Cancelled ELSE UNCHANGED <<status, rdi, attempt, prepared, used>>
  /\ Goto(u, Closed) /\ UNCHANGED <<op, hope>>

(* The old RDP is cancelled; the clean one is another row. *)
CreateClean(u) ==
  /\ Sent(u, "clean")
  /\ IF ReviewCheck THEN Cancelled ELSE UNCHANGED <<status, rdi, attempt, prepared, used>>
  /\ Goto(u, Closed) /\ UNCHANGED <<op, hope>>

\* Mutant of PushReview: only the request checks, not the transaction.
PushReviewUnchecked(u) ==
  /\ Sent(u, "review") /\ Start
  /\ Goto(u, Closed) /\ UNCHANGED <<op, hope>>

PushReview(u) ==
  /\ Sent(u, "review")
  /\ IF ReviewCheck THEN Start ELSE UNCHANGED <<status, rdi, attempt, prepared, used>>
  /\ Goto(u, Closed) /\ UNCHANGED <<op, hope>>

(* No confirmation, and no check before the lock. *)
RetryPush ==
  /\ RetryCheck /\ Start
  /\ UNCHANGED <<op, hope, page>>

RetryOperation ==
  /\ status = "PENDING" /\ op = "failure"
  /\ op' = "pending"
  /\ UNCHANGED <<status, rdi, attempt, prepared, hope, page, used>>

Reset(u) ==
  /\ Sent(u, "reset")
  /\ IF ResetCheck THEN Cancelled ELSE UNCHANGED <<status, rdi, attempt, prepared, used>>
  /\ Goto(u, Closed) /\ UNCHANGED <<op, hope>>

(* The attempt is in the address of the confirmation. *)
FailStuck(u) ==
  /\ Sent(u, "stuck")
  /\ IF attempt # None /\ attempt = page[u].attempt /\ ~prepared
     THEN Finish("FAILURE", IF rdi = None THEN NA ELSE rdi)
     ELSE UNCHANGED <<status, rdi, attempt, prepared, used>>
  /\ Goto(u, Closed) /\ UNCHANGED <<op, hope>>

-----------------------------------------------------------------------------
(* The administration's form shows the status and the log; the request       *)
(* reads the row, puts the fields of the form in it and writes all of it.    *)
OpenForm(u) ==
  /\ Forms /\ page[u] = Closed
  /\ Goto(u, [kind |-> "form", at |-> "shown", status |-> status])
  /\ UNCHANGED <<status, rdi, attempt, prepared, op, hope, used>>

SendForm(u) ==
  /\ page[u] # Closed /\ page[u].kind = "form" /\ page[u].at = "shown"
  /\ Goto(u, [kind |-> "form", at |-> "sent", status |-> page[u].status, rdi |-> rdi, attempt |-> attempt])
  /\ UNCHANGED <<status, rdi, attempt, prepared, op, hope, used>>

Consistent(s, a) == (s = "PUSH_PENDING") = (a # None)

CloseForms(u) == page' = [v \in Users |-> IF v = u \/ Sent(v, "form") THEN Closed ELSE page[v]]

(* The constraint of the table refuses an attempt that does not go with the  *)
(* status.  Only a form counts up the row's version: another one sent at the *)
(* same time fails, while what a job wrote is overwritten.                   *)
SaveForm(u) ==
  /\ Sent(u, "form")
  /\ IF Consistent(page[u].status, page[u].attempt)
     THEN /\ status' = page[u].status /\ rdi' = page[u].rdi /\ attempt' = page[u].attempt
          /\ CloseForms(u)
     ELSE UNCHANGED rdp /\ Goto(u, Closed)
  /\ UNCHANGED <<prepared, op, hope, used>>

Kinds == {"cancel", "review", "clean", "reset", "stuck"}

Next ==
  \/ Jobs \/ RetryPush \/ RetryOperation
  \/ \E u \in Users :
       \/ \E k \in Kinds : OpenPage(u, k)
       \/ DeleteManually(u) \/ Confirm(u) \/ Leave(u)
       \/ Cancel(u) \/ CreateClean(u) \/ PushReview(u) \/ Reset(u) \/ FailStuck(u)
       \/ OpenForm(u) \/ SendForm(u) \/ SaveForm(u)

Spec == Init /\ [][Next]_vars

-----------------------------------------------------------------------------
(* A successful RDP has its RDI, and there is none of an attempt to come.    *)
TypeOK ==
  /\ status \in {"PENDING", "FAILURE", "REVIEW_PENDING", "PUSH_PENDING", "SUCCESS", "CANCELLED"}
  /\ attempt \in 0..used /\ used \in 0..MaxAttempts /\ hope \subseteq 1..used
  /\ op \in {"none", "pending", "running", "success", "failure"}
  /\ status = "SUCCESS" => Linked(rdi)

(* A cancelled RDP stays so, and a successful one is only reset: no page     *)
(* opened earlier brings them back.                                          *)
DoneIsDone ==
  [][/\ status = "CANCELLED" => status' = "CANCELLED"
     /\ status = "SUCCESS" => status' \in {"SUCCESS", "CANCELLED"}]_vars

(* A user's page ends no attempt but the one it showed. *)
StuckEndsItsOwn ==
  attempt # None /\ attempt' # attempt /\ page' # page =>
    \E u \in Users : page[u] # page'[u] /\ page[u].kind = "stuck" /\ page[u].attempt = attempt

(* An RDP whose operation runs is neither cancelled nor pushed: what the     *)
(* operation finds out is still wanted.                                      *)
RunningIsWanted == op = "running" => status = "PENDING"

(* The table keeps attempt and status together, whatever a form sends.       *)
AttemptMatches == Consistent(status, attempt)

(* A cancelled RDP leaves no RDI in HOPE, once its user confirmed to have    *)
(* deleted it there.                                                         *)
CancelledIsDeleted ==
  [][status # "SUCCESS" /\ status' = "CANCELLED" => rdi' \notin hope]_vars
=============================================================================
