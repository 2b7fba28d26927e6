----------------------------- MODULE Rdps_proofs -----------------------------
(***************************************************************************)
(* Theorems about RDPs and what surrounds them (MCRdps), for any number of   *)
(* users, jobs, records, RDPs and transactions.                              *)
(*                                                                           *)
(* What the pages have in common is that a request checks again under the    *)
(* lock; so a page, however old, does what a job might do at that moment.    *)
(* The form of the administration does not check: without it the status      *)
(* goes one way, with it the constraint of the table alone is left.          *)
(***************************************************************************)
EXTENDS MCRdps, Sequences, FiniteSetTheorems, TLAPS

-----------------------------------------------------------------------------
(* RdpPages.                                                               *)

Attempts == 0..MaxAttempts
Statuses == {"PENDING", "FAILURE", "REVIEW_PENDING", "PUSH_PENDING", "SUCCESS", "CANCELLED"}

RowType == status \in Statuses /\ attempt \in Attempts /\ used \in Attempts

\* What a user has open, where there are no forms.
IsPage(p) ==
  \/ p = Closed
  \/ p.kind \in Kinds /\ p = [kind |-> p.kind, at |-> p.at, rdi |-> p.rdi, attempt |-> p.attempt]

NoForms == DOMAIN page = Users /\ \A u \in Users : IsPage(page[u])

\* What can happen to the row without a form, whoever does it.
RowStep ==
  \/ UNCHANGED <<status, attempt, used>>
  \/ /\ status \in {"PENDING", "REVIEW_PENDING", "FAILURE"}
     /\ status' = "PUSH_PENDING" /\ attempt' = used + 1 /\ used' = used + 1 /\ used < MaxAttempts
  \/ status = "PENDING" /\ status' = "REVIEW_PENDING" /\ UNCHANGED <<attempt, used>>
  \/ /\ status \in {"PENDING", "FAILURE", "REVIEW_PENDING", "SUCCESS"}
     /\ status' = "CANCELLED" /\ attempt' = None /\ UNCHANGED used
  \/ /\ attempt # None
     /\ status' \in {"FAILURE", "SUCCESS"} /\ attempt' = None /\ UNCHANGED used

\* An operation begins while the RDP is pending, and keeps it so.
OpStep ==
  /\ op' # op => status = "PENDING" /\ status' = status
  /\ op = "running" /\ status = "PENDING" => status' = status

\* With forms and without.
AnyInv == used \in Attempts /\ AttemptMatches

\* Without forms.
IInv == AnyInv /\ RowType /\ RunningIsWanted /\ NoForms

-----------------------------------------------------------------------------
(* Helpers.                                                                *)

\* Attempts are numbered from one.
LEMMA AttemptFact == None = 0 /\ None \in Attempts /\ \A n \in Attempts : n < MaxAttempts => n + 1 \in Attempts /\ n + 1 # None
BY PagesAssumed DEF PagesAssumption, None, Attempts

\* Initially the RDP is pending and no page is open.
LEMMA InitIInv == Init => IInv
<1>1. SUFFICES ASSUME Init PROVE IInv
  OBVIOUS
<1>2. AnyInv /\ RowType /\ RunningIsWanted
  BY <1>1, AttemptFact DEF Init, AnyInv, RowType, Statuses, AttemptMatches, Consistent, RunningIsWanted
<1>3. NoForms
  BY <1>1 DEF Init, NoForms, IsPage
<1>4. QED
  BY <1>2, <1>3 DEF IInv

\* The jobs.
LEMMA JobsStep ==
  ASSUME AnyInv, Jobs \/ RetryPush \/ RetryOperation
  PROVE  RowStep /\ OpStep
<1>1. CASE Operate
  BY <1>1 DEF Operate, RowStep, OpStep
<1>2. CASE Evaluate
  BY <1>2 DEF Evaluate, Start, RowStep, OpStep
<1>3. CASE Prepare
  BY <1>3 DEF Prepare, RowStep, OpStep
<1>4. CASE Link
  BY <1>4 DEF Link, RowStep, OpStep
<1>5. CASE End
  BY <1>5 DEF End, Finish, RowStep, OpStep, AnyInv, AttemptMatches, Consistent
<1>6. CASE RetryPush
  BY <1>6 DEF RetryPush, RetryCheck, Start, RowStep, OpStep
<1>7. CASE RetryOperation
  BY <1>7 DEF RetryOperation, RowStep, OpStep
<1>8. QED
  BY <1>1, <1>2, <1>3, <1>4, <1>5, <1>6, <1>7 DEF Jobs

\* The pages of a user that change nothing but themselves.
LEMMA LooksStep ==
  ASSUME AnyInv, NEW u \in Users,
         (\E k \in Kinds : OpenPage(u, k)) \/ DeleteManually(u) \/ Confirm(u) \/ Leave(u)
  PROVE  RowStep /\ OpStep
<1>1. CASE \E k \in Kinds : OpenPage(u, k)
  BY <1>1 DEF OpenPage, RowStep, OpStep
<1>2. CASE DeleteManually(u)
  BY <1>2 DEF DeleteManually, RowStep, OpStep
<1>3. CASE Confirm(u)
  BY <1>3 DEF Confirm, RowStep, OpStep
<1>4. CASE Leave(u)
  BY <1>4 DEF Leave, RowStep, OpStep
<1>5. QED
  BY <1>1, <1>2, <1>3, <1>4

\* What is sent is checked against the row as it is.
LEMMA SentStep ==
  ASSUME AnyInv, NEW u \in Users,
         Cancel(u) \/ CreateClean(u) \/ PushReview(u) \/ Reset(u) \/ FailStuck(u)
  PROVE  RowStep /\ OpStep
<1>1. CASE Cancel(u)
  BY <1>1 DEF Cancel, CancelCheck, Open, Cancelled, RowStep, OpStep
<1>2. CASE CreateClean(u)
  BY <1>2 DEF CreateClean, ReviewCheck, Cancelled, RowStep, OpStep
<1>3. CASE PushReview(u)
  BY <1>3 DEF PushReview, ReviewCheck, Start, RowStep, OpStep
<1>4. CASE Reset(u)
  BY <1>4 DEF Reset, ResetCheck, Cancelled, RowStep, OpStep
<1>5. CASE FailStuck(u)
  BY <1>5 DEF FailStuck, Finish, RowStep, OpStep, AnyInv, AttemptMatches, Consistent
<1>6. QED
  BY <1>1, <1>2, <1>3, <1>4, <1>5

\* The form writes what the constraint lets through.
LEMMA FormStep ==
  ASSUME AnyInv, NEW u \in Users, OpenForm(u) \/ SendForm(u) \/ SaveForm(u)
  PROVE  AnyInv'
BY DEF OpenForm, SendForm, SaveForm, AttemptMatches, Consistent, rdp, AnyInv

\* The rest keeps attempt and status together too.
LEMMA RowKeepsAttempt ==
  ASSUME AnyInv, RowStep
  PROVE  AnyInv'
<1>1. used \in Attempts /\ ((status = "PUSH_PENDING") <=> (attempt # None))
  BY DEF AnyInv, AttemptMatches, Consistent
<1>2. used' \in Attempts /\ ((status' = "PUSH_PENDING") <=> (attempt' # None))
  <2>1. CASE UNCHANGED <<status, attempt, used>>
    BY <1>1, <2>1
  <2>2. CASE status' = "PUSH_PENDING" /\ attempt' = used + 1 /\ used' = used + 1 /\ used < MaxAttempts
    BY <1>1, <2>2, AttemptFact
  <2>3. CASE status = "PENDING" /\ status' = "REVIEW_PENDING" /\ UNCHANGED <<attempt, used>>
    BY <1>1, <2>3
  <2>4. CASE status' \in {"CANCELLED", "FAILURE", "SUCCESS"} /\ attempt' = None /\ UNCHANGED used
    BY <1>1, <2>4
  <2>5. QED
    BY <2>1, <2>2, <2>3, <2>4 DEF RowStep
<1>3. QED
  BY <1>2 DEF AnyInv, AttemptMatches, Consistent

\* Every step is one of the row's or of a form.
LEMMA StepKinds ==
  ASSUME AnyInv, Next
  PROVE  (RowStep /\ OpStep) \/ \E u \in Users : OpenForm(u) \/ SendForm(u) \/ SaveForm(u)
BY JobsStep, LooksStep, SentStep DEF Next

LEMMA NextAnyInv == AnyInv /\ [Next]_vars => AnyInv'
<1> SUFFICES ASSUME AnyInv, [Next]_vars PROVE AnyInv'
  OBVIOUS
<1>1. CASE Next
  BY <1>1, StepKinds, FormStep, RowKeepsAttempt
<1>2. CASE UNCHANGED vars
  BY <1>2 DEF vars, AnyInv, AttemptMatches, Consistent
<1>3. QED
  BY <1>1, <1>2

\* Closed and open pages are no forms.
LEMMA PageFact ==
  /\ IsPage(Closed)
  /\ \A k \in Kinds : \A at : IsPage(Shown(k, at))
  /\ \A p : IsPage(p) => p.kind # "form"
BY DEF IsPage, Shown, Closed, Kinds

\* Without forms there are none.
LEMMA NoFormsKept ==
  ASSUME ~Forms, NoForms, [Next]_vars
  PROVE  NoForms' /\ ~\E u \in Users : OpenForm(u) \/ SendForm(u) \/ SaveForm(u)
<1>1. \A u \in Users : ~OpenForm(u) /\ ~SendForm(u) /\ ~SaveForm(u)
  BY PageFact DEF OpenForm, SendForm, SaveForm, Sent, NoForms
<1>2. NoForms'
  <2>1. CASE Jobs \/ RetryPush \/ RetryOperation \/ UNCHANGED vars
    <3>1. page' = page
      BY <2>1 DEF Jobs, Operate, Evaluate, Prepare, Link, End, RetryPush, RetryOperation, vars
    <3>2. QED
      BY <3>1 DEF NoForms, IsPage, Closed
  <2>2. ASSUME NEW u \in Users, NEW p, Goto(u, p), IsPage(p)
        PROVE  NoForms'
    <3>1. DOMAIN page' = Users /\ \A v \in Users : page'[v] = IF v = u THEN p ELSE page[v]
      BY <2>2 DEF Goto, NoForms
    <3>2. \A v \in Users : IsPage(page'[v])
      BY <2>2, <3>1 DEF NoForms
    <3>3. QED
      BY <3>1, <3>2 DEF NoForms, IsPage, Closed
  <2>3. CASE \E u \in Users, k \in Kinds : OpenPage(u, k)
    BY <2>2, <2>3, PageFact DEF OpenPage
  <2>4. CASE \E u \in Users : DeleteManually(u)
    BY <2>4 DEF DeleteManually, NoForms, IsPage, Closed
  <2>5. CASE \E u \in Users : Confirm(u)
    <3>1. PICK u \in Users : Confirm(u)
      BY <2>5
    <3>2. page[u] # Closed /\ IsPage(page[u])
      BY <3>1 DEF Confirm, NoForms
    <3>3. [page[u] EXCEPT !.at = "sent"] =
            [kind |-> page[u].kind, at |-> "sent", rdi |-> page[u].rdi, attempt |-> page[u].attempt]
      BY <3>2 DEF IsPage
    <3>4. IsPage([page[u] EXCEPT !.at = "sent"])
      BY <3>2, <3>3 DEF IsPage
    <3>5. QED
      BY <2>2, <3>1, <3>4, PageFact DEF Confirm
  <2>6. CASE \E u \in Users : Leave(u) \/ Cancel(u) \/ CreateClean(u) \/ PushReview(u) \/ Reset(u) \/ FailStuck(u)
    BY <2>2, <2>6, PageFact DEF Leave, Cancel, CreateClean, PushReview, Reset, FailStuck
  <2>7. QED
    BY <1>1, <2>1, <2>3, <2>4, <2>5, <2>6 DEF Next
<1>3. QED
  BY <1>1, <1>2

\* Without forms every step keeps the invariant, and what is done is done.
LEMMA NextIInv ==
  ASSUME ~Forms, IInv, [Next]_vars
  PROVE  /\ IInv'
         /\ status = "CANCELLED" => status' = "CANCELLED"
         /\ status = "SUCCESS" => status' \in {"SUCCESS", "CANCELLED"}
<1>1. AnyInv'
  BY NextAnyInv DEF IInv
<1>2. NoForms'
  BY NoFormsKept DEF IInv
<1>3. (RowStep /\ OpStep) \/ UNCHANGED <<status, attempt, used, op>>
  BY StepKinds, NoFormsKept DEF IInv, vars
<1>4. used \in Attempts /\ ((status = "PUSH_PENDING") <=> (attempt # None))
  BY DEF IInv, AnyInv, AttemptMatches, Consistent
<1>5. RowType'
  <2>1. used' \in Attempts
    BY <1>1 DEF AnyInv
  <2>2. status' \in Statuses
    BY <1>3 DEF IInv, RowType, RowStep, Statuses
  <2>3. attempt' \in Attempts
    BY <1>3, <1>4, AttemptFact DEF IInv, RowType, RowStep
  <2>4. QED
    BY <2>1, <2>2, <2>3 DEF RowType
<1>6. RunningIsWanted'
  BY <1>3 DEF OpStep, RunningIsWanted, IInv
<1>7. /\ status = "CANCELLED" => status' = "CANCELLED"
      /\ status = "SUCCESS" => status' \in {"SUCCESS", "CANCELLED"}
  BY <1>3, <1>4 DEF RowStep
<1>8. QED
  BY <1>1, <1>2, <1>5, <1>6, <1>7 DEF IInv

-----------------------------------------------------------------------------
(* The theorems                                                            *)

(* For any number of users, forms included, a push attempt is active       *)
(* exactly while the RDP is pending its push.                               *)
THEOREM AttemptWithStatus == Spec => []AttemptMatches
<1>1. Init => AnyInv
  BY InitIInv DEF IInv
<1>2. AnyInv => AttemptMatches
  BY DEF AnyInv
<1>3. QED
  BY <1>1, <1>2, NextAnyInv, PTL DEF Spec

(* Without the form, whatever pages are open, nobody takes an RDP away from *)
(* its running operation.                                                    *)
THEOREM OperationsAreWanted == ASSUME ~Forms PROVE Spec => []RunningIsWanted
<1>1. IInv /\ [Next]_vars => IInv'
  BY NextIInv
<1>2. IInv => RunningIsWanted
  BY DEF IInv
<1>3. QED
  BY <1>1, <1>2, InitIInv, PTL DEF Spec

(* Without the form, no page opened earlier brings back an RDP that was     *)
(* cancelled or pushed.                                                      *)
THEOREM NothingComesBack == ASSUME ~Forms PROVE Spec => DoneIsDone
<1>1. IInv /\ [Next]_vars => IInv'
  BY NextIInv
<1>2. IInv /\ [Next]_vars =>
        [/\ status = "CANCELLED" => status' = "CANCELLED"
         /\ status = "SUCCESS" => status' \in {"SUCCESS", "CANCELLED"}]_vars
  BY NextIInv
<1>3. QED
  BY <1>1, <1>2, InitIInv, PTL DEF Spec, DoneIsDone

\* Only a confirmation of the stuck push ends an attempt, as nothing else is allowed while there
\* is one.
LEMMA StuckStep ==
  ASSUME ~Forms, IInv, [Next]_vars
  PROVE  StuckEndsItsOwn
<1> SUFFICES ASSUME attempt # None, attempt' # attempt, page' # page
             PROVE  \E u \in Users : page[u] # page'[u] /\ page[u].kind = "stuck" /\ page[u].attempt = attempt
  BY DEF StuckEndsItsOwn
<1>1. status = "PUSH_PENDING" /\ DOMAIN page = Users
  BY DEF IInv, AnyInv, AttemptMatches, Consistent, NoForms
<1>2. ~(Jobs \/ RetryPush \/ RetryOperation)
  BY DEF Jobs, Operate, Evaluate, Prepare, Link, End, RetryPush, RetryOperation
<1>3. \A u \in Users : ~OpenForm(u) /\ ~SendForm(u) /\ ~SaveForm(u)
  BY NoFormsKept DEF IInv
<1>4. PICK u \in Users : \/ \E k \in Kinds : OpenPage(u, k)
                         \/ DeleteManually(u) \/ Confirm(u) \/ Leave(u)
                         \/ Cancel(u) \/ CreateClean(u) \/ PushReview(u) \/ Reset(u) \/ FailStuck(u)
  BY <1>2, <1>3 DEF Next, vars
<1>5. ~(\E k \in Kinds : OpenPage(u, k)) /\ ~DeleteManually(u) /\ ~Confirm(u) /\ ~Leave(u)
  BY DEF OpenPage, DeleteManually, Confirm, Leave
<1>6. ~Cancel(u) /\ ~CreateClean(u) /\ ~PushReview(u) /\ ~Reset(u)
  BY <1>1 DEF Cancel, CancelCheck, Open, CreateClean, ReviewCheck, PushReview, Reset, ResetCheck
<1>7. FailStuck(u)
  BY <1>4, <1>5, <1>6
<1>8. page[u] # Closed /\ page[u].kind = "stuck" /\ page[u].attempt = attempt /\ page'[u] = Closed
  BY <1>1, <1>7 DEF FailStuck, Sent, Goto
<1>9. QED
  BY <1>8

-----------------------------------------------------------------------------
(* The components, one of which a behaviour is of.                         *)

LEMMA StepOfComponent ==
  ASSUME [NextAll]_all
  PROVE  /\ component' = component
         /\ In("RdpPages") => [Next]_vars
         /\ In("Form") => [Form!Next]_(Form!vars)
         /\ In("Create") => [Create!Next]_(Create!vars)
         /\ In("Data") => [Data!Next]_(Data!vars)
         /\ In("People") => [People!Next]_(People!vars)
         /\ In("Findings") \/ In("Results") => [Findings!Next]_(Findings!vars)
         /\ In("Locks") => [Locks!Next]_(Locks!vars)
BY DEF NextAll, all, slots, In, vars, Form!vars, Create!vars, Data!vars, People!vars, Findings!vars, Locks!vars,
  RdpPagesNext, FormNext, CreateNext, DataNext, PeopleNext, FindingsNext, ResultsNext, LocksNext

-----------------------------------------------------------------------------
(* RdpLocks (v1: the status of the RDPs, v2: of their operations, v3: the     *)
(* transactions).  Rows are locked one at a time and only when free, so its   *)
(* TypeOK carries itself.  That only create_clean_rdp deadlocks is read off   *)
(* any state with TypeOK: nobody who waits holds the program but such a one.  *)
(* That results are kept needs one thing more: what a clean RDP replaces has  *)
(* a result, for ever.                                                        *)

\* create_clean_rdp began with a successful operation, and still finds one.
CleanHasResult == \A p \in Procs : v3[p].kind = "clean" => v2[v3[p].rdp] = "SUCCESS"

TxType ==
  /\ v2 \in [LockedRdps -> {"PENDING", "RUNNING", "FAILURE", "SUCCESS"}]
  /\ v3 \in [Procs -> [kind : Locks!Kinds, rdp : LockedRdps, held : 0..3] \cup {Locks!None}]

LocksInv == TxType /\ Locks!TypeOK /\ CleanHasResult

-----------------------------------------------------------------------------
(* Its helpers.                                                            *)

\* The rows of every kind.
LEMMA RowsFact ==
  ASSUME NEW k \in Locks!Kinds, NEW r \in LockedRdps
  PROVE  /\ Len(Locks!Rows(k, r)) \in 1..3
         /\ k \in {"claim", "complete", "fail"} =>
              /\ Len(Locks!Rows(k, r)) = 3
              /\ Locks!Rows(k, r)[1] = Locks!OpRow(r) /\ Locks!Rows(k, r)[2] = Locks!RdpRow(r) /\ Locks!Rows(k, r)[3] = Locks!Program
         /\ k \in {"evaluate", "decide"} =>
              Len(Locks!Rows(k, r)) = 2 /\ Locks!Rows(k, r)[1] = Locks!RdpRow(r) /\ Locks!Rows(k, r)[2] = Locks!Program
         /\ k = "clean" =>
              Len(Locks!Rows(k, r)) = 2 /\ Locks!Rows(k, r)[1] = Locks!Program /\ Locks!Rows(k, r)[2] = Locks!RdpRow(r)
         /\ k = "flag" => Len(Locks!Rows(k, r)) = 1 /\ Locks!Rows(k, r)[1] = Locks!Program
BY DEF Locks!Rows, Locks!Kinds

\* Rows of different tables, or of different RDPs, differ.
LEMMA RowsDiffer ==
  ASSUME NEW r, NEW s
  PROVE  /\ Locks!Program # Locks!RdpRow(r) /\ Locks!Program # Locks!OpRow(r) /\ Locks!RdpRow(r) # Locks!OpRow(s)
         /\ Locks!RdpRow(r) = Locks!RdpRow(s) => r = s
         /\ Locks!OpRow(r) = Locks!OpRow(s) => r = s
BY DEF Locks!Program, Locks!RdpRow, Locks!OpRow

\* One more row, of at most three.
LEMMA CountFact ==
  \A n \in 1..3, g \in 0..3 : g < n =>
    /\ g \in {0, 1, 2} /\ (n = 2 => g \in {0, 1}) /\ (n = 1 => g = 0)
    /\ g + 1 \in 0..3 /\ g + 1 \in 0..n /\ g + 1 \in Nat
BY SMT

\* Who is busy has a transaction of some kind on some RDP; who is not has nothing.
LEMMA BusyFact ==
  ASSUME TxType, NEW p \in Procs
  PROVE  /\ Locks!Busy(p) <=> v3[p] \in [kind : Locks!Kinds, rdp : LockedRdps, held : 0..3]
         /\ Locks!Busy(p) => v3[p].kind \in Locks!Kinds /\ v3[p].rdp \in LockedRdps /\ v3[p].held \in 0..3
         /\ ~Locks!Busy(p) => v3[p] = Locks!None /\ v3[p].kind \notin Locks!Kinds /\ Locks!Held(p) = {}
<1>1. Locks!None.kind \notin Locks!Kinds
  BY DEF Locks!None, Locks!Kinds
<1>2. Locks!None \notin [kind : Locks!Kinds, rdp : LockedRdps, held : 0..3]
  <2>1. \A t \in [kind : Locks!Kinds, rdp : LockedRdps, held : 0..3] : t.kind \in Locks!Kinds
    OBVIOUS
  <2>2. QED
    BY <1>1, <2>1
<1>3. v3[p] \in [kind : Locks!Kinds, rdp : LockedRdps, held : 0..3] \cup {Locks!None}
  BY DEF TxType
<1>4. QED
  BY <1>1, <1>2, <1>3 DEF Locks!Busy, Locks!Held

\* What a transaction that waits holds and wants, by its kind.
LEMMA WaitingFact ==
  ASSUME TxType, Locks!TypeOK, NEW p \in Procs, Locks!Wanting(p)
  PROVE  LET k == v3[p].kind  r == v3[p].rdp  h == v3[p].held IN
         /\ k \in Locks!Kinds /\ r \in LockedRdps
         /\ k \in {"claim", "complete", "fail"} =>
              \/ h = 0 /\ Locks!Held(p) = {} /\ Locks!Wanted(p) = Locks!OpRow(r)
              \/ h = 1 /\ Locks!Held(p) = {Locks!OpRow(r)} /\ Locks!Wanted(p) = Locks!RdpRow(r)
              \/ h = 2 /\ Locks!Held(p) = {Locks!OpRow(r), Locks!RdpRow(r)} /\ Locks!Wanted(p) = Locks!Program
         /\ k \in {"evaluate", "decide"} =>
              \/ h = 0 /\ Locks!Held(p) = {} /\ Locks!Wanted(p) = Locks!RdpRow(r)
              \/ h = 1 /\ Locks!Held(p) = {Locks!RdpRow(r)} /\ Locks!Wanted(p) = Locks!Program
         /\ k = "clean" =>
              \/ h = 0 /\ Locks!Held(p) = {} /\ Locks!Wanted(p) = Locks!Program
              \/ h = 1 /\ Locks!Held(p) = {Locks!Program} /\ Locks!Wanted(p) = Locks!RdpRow(r)
         /\ k = "flag" => h = 0 /\ Locks!Held(p) = {} /\ Locks!Wanted(p) = Locks!Program
<1> DEFINE k == v3[p].kind
           r == v3[p].rdp
           h == v3[p].held
<1>1. Locks!Busy(p) /\ k \in Locks!Kinds /\ r \in LockedRdps /\ h \in 0..3 /\ h < Len(Locks!Rows(k, r))
  BY BusyFact DEF Locks!Wanting, Locks!RowsOf
<1>2. Locks!Held(p) = {Locks!Rows(k, r)[i] : i \in 1..h} /\ Locks!Wanted(p) = Locks!Rows(k, r)[h + 1]
  BY <1>1 DEF Locks!Held, Locks!Wanted, Locks!RowsOf
<1>3. /\ h = 0 => Locks!Held(p) = {} /\ Locks!Wanted(p) = Locks!Rows(k, r)[1]
      /\ h = 1 => Locks!Held(p) = {Locks!Rows(k, r)[1]} /\ Locks!Wanted(p) = Locks!Rows(k, r)[2]
      /\ h = 2 => Locks!Held(p) = {Locks!Rows(k, r)[1], Locks!Rows(k, r)[2]} /\ Locks!Wanted(p) = Locks!Rows(k, r)[3]
  <2>1. 1..0 = {} /\ 1..1 = {1} /\ 1..2 = {1, 2}
    OBVIOUS
  <2>2. QED
    BY <1>2, <2>1
<1>4. h \in {0, 1, 2} /\ (Len(Locks!Rows(k, r)) = 2 => h \in {0, 1}) /\ (Len(Locks!Rows(k, r)) = 1 => h = 0)
  <2>1. Len(Locks!Rows(k, r)) \in 1..3
    BY <1>1, RowsFact
  <2>2. QED
    BY <1>1, <2>1, CountFact
<1>5. k \in {"claim", "complete", "fail"} =>
              \/ h = 0 /\ Locks!Held(p) = {} /\ Locks!Wanted(p) = Locks!OpRow(r)
              \/ h = 1 /\ Locks!Held(p) = {Locks!OpRow(r)} /\ Locks!Wanted(p) = Locks!RdpRow(r)
              \/ h = 2 /\ Locks!Held(p) = {Locks!OpRow(r), Locks!RdpRow(r)} /\ Locks!Wanted(p) = Locks!Program
  BY <1>1, <1>3, <1>4, RowsFact
<1>6. k \in {"evaluate", "decide"} =>
              \/ h = 0 /\ Locks!Held(p) = {} /\ Locks!Wanted(p) = Locks!RdpRow(r)
              \/ h = 1 /\ Locks!Held(p) = {Locks!RdpRow(r)} /\ Locks!Wanted(p) = Locks!Program
  BY <1>1, <1>3, <1>4, RowsFact
<1>7. k = "clean" =>
              \/ h = 0 /\ Locks!Held(p) = {} /\ Locks!Wanted(p) = Locks!Program
              \/ h = 1 /\ Locks!Held(p) = {Locks!Program} /\ Locks!Wanted(p) = Locks!RdpRow(r)
  BY <1>1, <1>3, <1>4, RowsFact
<1>8. k = "flag" => h = 0 /\ Locks!Held(p) = {} /\ Locks!Wanted(p) = Locks!Program
  BY <1>1, <1>3, <1>4, RowsFact
<1>9. QED
  BY <1>1, <1>5, <1>6, <1>7, <1>8

-----------------------------------------------------------------------------
(* Deadlocks                                                               *)

\* Whoever holds the program and waits creates a clean RDP.
LEMMA ProgramHolder ==
  ASSUME TxType, Locks!TypeOK, NEW q \in Procs, Locks!Wanting(q), Locks!Program \in Locks!Held(q)
  PROVE  v3[q].kind = "clean" /\ Locks!Held(q) = {Locks!Program}
BY WaitingFact, RowsDiffer DEF Locks!Kinds

\* Whoever holds an RDP and waits, waits for the program.
LEMMA RdpHolder ==
  ASSUME TxType, Locks!TypeOK, NEW q \in Procs, Locks!Wanting(q), NEW r \in LockedRdps, Locks!RdpRow(r) \in Locks!Held(q)
  PROVE  Locks!Wanted(q) = Locks!Program
BY WaitingFact, RowsDiffer DEF Locks!Kinds

\* Whoever holds an operation and waits, waits for its RDP or the program.
LEMMA OpHolder ==
  ASSUME TxType, Locks!TypeOK, NEW q \in Procs, Locks!Wanting(q), NEW r \in LockedRdps, Locks!OpRow(r) \in Locks!Held(q)
  PROVE  \/ Locks!Wanted(q) = Locks!Program
         \/ \E s \in LockedRdps : Locks!Wanted(q) = Locks!RdpRow(s)
BY WaitingFact, RowsDiffer DEF Locks!Kinds

\* Without a clean RDP being created nobody waits for the program, hence nobody for an
\* RDP, hence nobody for an operation.
LEMMA DeadlockFact ==
  ASSUME TxType, Locks!TypeOK
  PROVE  Locks!OnlyCleanDeadlocks
<1> SUFFICES ASSUME NEW S \in SUBSET Procs, Locks!Deadlock(S),
                    \A p \in S : ~(v3[p].kind = "clean" /\ Locks!Held(p) = {Locks!Program})
             PROVE  FALSE
  BY DEF Locks!OnlyCleanDeadlocks
<1>1. \A p \in S : p \in Procs /\ Locks!Wanting(p) /\ \E q \in S : Locks!Wanting(q) /\ Locks!Wanted(p) \in Locks!Held(q)
  BY DEF Locks!Deadlock, Locks!WaitsFor
<1>2. \A p \in S : Locks!Wanted(p) # Locks!Program
  BY <1>1, ProgramHolder
<1>3. \A p \in S, r \in LockedRdps : Locks!Wanted(p) # Locks!RdpRow(r)
  BY <1>1, <1>2, RdpHolder
<1>4. \A p \in S, r \in LockedRdps : Locks!Wanted(p) # Locks!OpRow(r)
  BY <1>1, <1>2, <1>3, OpHolder
<1>5. PICK p \in S : TRUE
  BY DEF Locks!Deadlock
<1>6. Locks!Wanted(p) = Locks!Program \/ \E r \in LockedRdps : Locks!Wanted(p) \in {Locks!RdpRow(r), Locks!OpRow(r)}
  BY <1>1, WaitingFact DEF Locks!Kinds
<1>7. QED
  BY <1>2, <1>3, <1>4, <1>6

\* A completion of a running operation is part of no deadlock: who waits for its rows
\* holds nothing, or would hold a row it holds, or has a result already.
LEMMA CompletionWaits ==
  ASSUME LocksInv, NEW p \in Procs, v3[p].kind = "complete", v2[v3[p].rdp] = "RUNNING",
         NEW S \in SUBSET Procs, p \in S
  PROVE  ~Locks!Deadlock(S)
<1> SUFFICES ASSUME Locks!Deadlock(S) PROVE FALSE
  OBVIOUS
<1> USE DEF LocksInv
<1> DEFINE r == v3[p].rdp
<1>1. \A q \in S : q \in Procs /\ Locks!Wanting(q) /\ Locks!Held(q) # {}
  BY DEF Locks!Deadlock, Locks!WaitsFor
<1>2. PICK q \in S : q # p /\ Locks!Wanting(q) /\ Locks!Wanted(q) \in Locks!Held(p)
  BY DEF Locks!Deadlock, Locks!WaitsFor
<1>3. r \in LockedRdps /\ Locks!Held(p) \in SUBSET {Locks!OpRow(r), Locks!RdpRow(r)} /\ Locks!OpRow(r) \in Locks!Held(p)
  BY <1>1, WaitingFact
<1>4. v3[q].rdp \in LockedRdps /\ v3[q].kind \in Locks!Kinds /\ Locks!Held(q) # {} /\ Locks!Wanting(q) /\ q \in Procs
  BY <1>1, <1>2, WaitingFact
<1>5. Locks!Wanted(q) = Locks!RdpRow(r)
  BY <1>2, <1>3, <1>4, WaitingFact, RowsDiffer DEF Locks!Kinds
<1>6. CASE v3[q].kind = "clean"
  <2>1. v3[q].rdp = r
    BY <1>4, <1>5, <1>6, WaitingFact, RowsDiffer
  <2>2. QED
    BY <1>4, <1>6, <2>1 DEF CleanHasResult
<1>7. CASE v3[q].kind # "clean"
  <2>1. Locks!OpRow(r) \in Locks!Held(q)
    BY <1>4, <1>5, <1>7, WaitingFact, RowsDiffer DEF Locks!Kinds
  <2>2. QED
    BY <1>2, <1>3, <1>4, <2>1 DEF Locks!TypeOK
<1>8. QED
  BY <1>6, <1>7

-----------------------------------------------------------------------------
(* The steps                                                               *)

\* Initially nobody has a transaction.
LEMMA LocksInitInv == Locks!Init => LocksInv
<1> SUFFICES ASSUME Locks!Init PROVE LocksInv
  OBVIOUS
<1>1. \A p \in Procs : v3[p] = Locks!None
  BY DEF Locks!Init
<1>2. TxType
  BY DEF Locks!Init, TxType
<1>3. \A p \in Procs : ~Locks!Busy(p) /\ v3[p].kind # "clean"
  BY <1>1 DEF Locks!Busy, Locks!None
<1>4. QED
  BY <1>2, <1>3 DEF LocksInv, Locks!TypeOK, CleanHasResult, Locks!Held

\* Transactions exclude each other as long as one of them moves at a time and locks
\* only rows nobody else has.
LEMMA ExclusionKept ==
  ASSUME LocksInv, NEW p \in Procs,
         \A q \in Procs \ {p} : v3'[q] = v3[q],
         \A q \in Procs \ {p} : Locks!Held(p)' \cap Locks!Held(q) = {},
         Locks!Busy(p)' => v3'[p].kind \in Locks!Kinds /\ v3'[p].held \in 0..Len(Locks!RowsOf(p)')
  PROVE  Locks!TypeOK'
<1>1. \A q \in Procs \ {p} : Locks!Held(q)' = Locks!Held(q) /\ (Locks!Busy(q)' <=> Locks!Busy(q)) /\ Locks!RowsOf(q)' = Locks!RowsOf(q)
  BY DEF Locks!Held, Locks!Busy, Locks!RowsOf
<1>2. \A q \in Procs : Locks!Busy(q)' => v3'[q].kind \in Locks!Kinds /\ v3'[q].held \in 0..Len(Locks!RowsOf(q)')
  BY <1>1 DEF LocksInv, Locks!TypeOK
<1>3. \A q, s \in Procs : q # s => Locks!Held(q)' \cap Locks!Held(s)' = {}
  <2> SUFFICES ASSUME NEW q \in Procs, NEW s \in Procs, q # s PROVE Locks!Held(q)' \cap Locks!Held(s)' = {}
    OBVIOUS
  <2>1. CASE q # p /\ s # p
    BY <1>1, <2>1 DEF LocksInv, Locks!TypeOK
  <2>2. CASE q = p \/ s = p
    BY <1>1, <2>2
  <2>3. QED
    BY <2>1, <2>2
<1>4. QED
  BY <1>2, <1>3 DEF Locks!TypeOK

\* A transaction that begins, or begins again, holds nothing.
LEMMA StartFact ==
  ASSUME LocksInv, NEW p \in Procs, NEW k \in Locks!Kinds, NEW r \in LockedRdps,
         v3' = [v3 EXCEPT ![p] = Locks!Start(k, r)]
  PROVE  /\ v3' \in [Procs -> [kind : Locks!Kinds, rdp : LockedRdps, held : 0..3] \cup {Locks!None}]
         /\ Locks!TypeOK'
<1>1. v3'[p] = Locks!Start(k, r) /\ \A q \in Procs \ {p} : v3'[q] = v3[q]
  BY DEF LocksInv, TxType
<1>2. Locks!Start(k, r) \in [kind : Locks!Kinds, rdp : LockedRdps, held : 0..3]
  BY DEF Locks!Start
<1>3. v3' \in [Procs -> [kind : Locks!Kinds, rdp : LockedRdps, held : 0..3] \cup {Locks!None}]
  BY <1>2 DEF LocksInv, TxType
<1>4. Locks!Held(p)' = {}
  BY <1>1 DEF Locks!Held, Locks!Start
<1>5. v3'[p].kind \in Locks!Kinds /\ v3'[p].held \in 0..Len(Locks!RowsOf(p)')
  <2>1. Locks!RowsOf(p)' = Locks!Rows(k, r)
    BY <1>1 DEF Locks!RowsOf, Locks!Start
  <2>2. QED
    BY <1>1, <2>1, RowsFact DEF Locks!Start
<1>6. QED
  BY <1>1, <1>3, <1>4, <1>5, ExclusionKept

\* A transaction that ends holds nothing.
LEMMA EndFact ==
  ASSUME LocksInv, NEW p \in Procs, v3' = [v3 EXCEPT ![p] = Locks!None]
  PROVE  /\ v3' \in [Procs -> [kind : Locks!Kinds, rdp : LockedRdps, held : 0..3] \cup {Locks!None}]
         /\ Locks!TypeOK'
<1>1. v3'[p] = Locks!None /\ \A q \in Procs \ {p} : v3'[q] = v3[q]
  BY DEF LocksInv, TxType
<1>2. v3' \in [Procs -> [kind : Locks!Kinds, rdp : LockedRdps, held : 0..3] \cup {Locks!None}]
  BY DEF LocksInv, TxType
<1>3. Locks!Held(p)' = {} /\ ~Locks!Busy(p)'
  BY <1>1 DEF Locks!Held, Locks!Busy
<1>4. QED
  BY <1>1, <1>2, <1>3, ExclusionKept

\* A clean RDP keeps its reason as long as results stay.
LEMMA ResultKept ==
  ASSUME LocksInv, NEW p \in Procs,
         \A q \in Procs \ {p} : v3'[q] = v3[q],
         \A r \in LockedRdps : v2[r] = "SUCCESS" => v2'[r] = "SUCCESS",
         v3'[p].kind = "clean" => v3'[p].rdp \in LockedRdps /\ v2'[v3'[p].rdp] = "SUCCESS"
  PROVE  CleanHasResult'
<1>1. \A q \in Procs : v3[q].kind = "clean" => v3[q].rdp \in LockedRdps
  BY BusyFact DEF LocksInv, Locks!Kinds
<1>2. QED
  BY <1>1 DEF LocksInv, CleanHasResult

\* create_clean_rdp begins after a result was seen.
LEMMA BeginStep ==
  ASSUME LocksInv, NEW p \in Procs, NEW k \in Locks!Kinds, NEW r \in LockedRdps, Locks!Begin(p, k, r)
  PROVE  LocksInv'
<1>1. v3' = [v3 EXCEPT ![p] = Locks!Start(k, r)] /\ v2' = v2
  BY DEF Locks!Begin
<1>2. v3' \in [Procs -> [kind : Locks!Kinds, rdp : LockedRdps, held : 0..3] \cup {Locks!None}] /\ Locks!TypeOK'
  BY <1>1, StartFact
<1>3. TxType'
  BY <1>1, <1>2 DEF LocksInv, TxType
<1>4. CleanHasResult'
  <2>1. v3'[p].kind = k /\ v3'[p].rdp = r /\ \A q \in Procs \ {p} : v3'[q] = v3[q]
    BY <1>1 DEF LocksInv, TxType, Locks!Start
  <2>2. k = "clean" => v2[r] = "SUCCESS"
    BY DEF Locks!Begin, Locks!Begun
  <2>3. QED
    BY <1>1, <2>1, <2>2, ResultKept
<1>5. QED
  BY <1>2, <1>3, <1>4 DEF LocksInv

\* The next row was nobody else's.
LEMMA LockRowStep ==
  ASSUME LocksInv, NEW p \in Procs, Locks!LockRow(p)
  PROVE  LocksInv'
<1> DEFINE k == v3[p].kind
           r == v3[p].rdp
           h == v3[p].held
<1>1. Locks!Busy(p) /\ k \in Locks!Kinds /\ r \in LockedRdps /\ h \in 0..3 /\ h < Len(Locks!Rows(k, r)) /\ v3[p] # Locks!None
  BY BusyFact DEF Locks!LockRow, Locks!Wanting, Locks!RowsOf, LocksInv, Locks!Busy
<1>2. v2' = v2 /\ v3'[p] = [v3[p] EXCEPT !.held = h + 1] /\ \A q \in Procs \ {p} : v3'[q] = v3[q]
  BY DEF Locks!LockRow, LocksInv, TxType
<1>3. h + 1 \in 0..3 /\ h + 1 \in 0..Len(Locks!Rows(k, r)) /\ h + 1 \in Nat
  <2>1. Len(Locks!Rows(k, r)) \in 1..3
    BY <1>1, RowsFact
  <2>2. QED
    BY <1>1, <2>1, CountFact
<1>4. /\ v3'[p] \in [kind : Locks!Kinds, rdp : LockedRdps, held : 0..3]
      /\ v3'[p].kind = k /\ v3'[p].rdp = r /\ v3'[p].held = h + 1
  BY <1>1, <1>2, <1>3, BusyFact DEF LocksInv
<1>5. TxType'
  <2>1. v3' \in [Procs -> [kind : Locks!Kinds, rdp : LockedRdps, held : 0..3] \cup {Locks!None}]
    BY <1>2, <1>4 DEF Locks!LockRow, LocksInv, TxType
  <2>2. QED
    BY <1>2, <2>1 DEF LocksInv, TxType
<1>6. Locks!RowsOf(p)' = Locks!Rows(k, r)
  BY <1>4 DEF Locks!RowsOf
<1>7. \A q \in Procs \ {p} : Locks!Held(p)' \cap Locks!Held(q) = {}
  <2> SUFFICES ASSUME NEW q \in Procs \ {p}, NEW x \in Locks!Held(p)' PROVE x \notin Locks!Held(q)
    OBVIOUS
  <2>1. Locks!Held(p)' \subseteq {Locks!Rows(k, r)[i] : i \in 1..(h + 1)}
    BY <1>4, <1>6 DEF Locks!Held
  <2>2. PICK i \in 1..(h + 1) : x = Locks!Rows(k, r)[i]
    BY <2>1
  <2>3. i \in 1..h \/ i = h + 1
    BY <1>1, <2>2
  <2>4. CASE i \in 1..h
    <3>1. x \in Locks!Held(p)
      BY <1>1, <2>2, <2>4 DEF Locks!Held, Locks!RowsOf
    <3>2. QED
      BY <3>1 DEF LocksInv, Locks!TypeOK
  <2>5. CASE i = h + 1
    <3>1. x = Locks!Wanted(p) /\ Locks!Wanting(p) /\ ~Locks!WaitsFor(p, q)
      BY <2>2, <2>5 DEF Locks!Wanted, Locks!RowsOf, Locks!LockRow
    <3>2. QED
      BY <3>1 DEF Locks!WaitsFor
  <2>6. QED
    BY <2>3, <2>4, <2>5
<1>8. Locks!TypeOK'
  BY <1>1, <1>2, <1>3, <1>4, <1>6, <1>7, ExclusionKept
<1>9. CleanHasResult'
  BY <1>1, <1>2, <1>4, ResultKept DEF LocksInv, CleanHasResult
<1>10. QED
  BY <1>5, <1>8, <1>9 DEF LocksInv

\* What a transaction writes is never instead of a result.
LEMMA CommitStep ==
  ASSUME LocksInv, NEW p \in Procs, Locks!Commit(p)
  PROVE  LocksInv'
<1> DEFINE k == v3[p].kind
           r == v3[p].rdp
<1>1. k \in Locks!Kinds /\ r \in LockedRdps /\ Locks!Busy(p)
  BY BusyFact DEF Locks!Commit, LocksInv
<1>2. /\ v3' \in [Procs -> [kind : Locks!Kinds, rdp : LockedRdps, held : 0..3] \cup {Locks!None}] /\ Locks!TypeOK'
      /\ v3'[p] = Locks!None /\ \A q \in Procs \ {p} : v3'[q] = v3[q]
  BY EndFact DEF Locks!Commit, LocksInv, TxType
<1>3. /\ Locks!NewOp(k, r) \in {"PENDING", "RUNNING", "FAILURE", "SUCCESS"}
      /\ v2[r] = "SUCCESS" => Locks!NewOp(k, r) = "SUCCESS"
  BY <1>1 DEF Locks!NewOp, Locks!Claimable, LocksInv, TxType
<1>4. v2' = [v2 EXCEPT ![r] = Locks!NewOp(k, r)]
  BY DEF Locks!Commit
<1>5. TxType'
  BY <1>1, <1>2, <1>3, <1>4 DEF LocksInv, TxType
<1>6. \A s \in LockedRdps : v2[s] = "SUCCESS" => v2'[s] = "SUCCESS"
  BY <1>1, <1>3, <1>4 DEF LocksInv, TxType
<1>7. v3'[p].kind # "clean"
  BY <1>2 DEF Locks!None
<1>8. QED
  BY <1>2, <1>5, <1>6, <1>7, ResultKept DEF LocksInv

\* The victim of a deadlock writes nothing.
LEMMA AbortStep ==
  ASSUME LocksInv, NEW p \in Procs, Locks!Abort(p)
  PROVE  LocksInv'
<1>1. Locks!Busy(p) /\ v3[p].kind \in Locks!Kinds /\ v3[p].rdp \in LockedRdps
  BY BusyFact DEF Locks!Abort, Locks!Deadlock, Locks!WaitsFor, Locks!Wanting, LocksInv
<1>2. CASE v3[p].kind = "complete"
  <2>1. v3' = [v3 EXCEPT ![p] = Locks!Start("fail", v3[p].rdp)] /\ v2' = v2
    BY <1>2 DEF Locks!Abort
  <2>2. v3' \in [Procs -> [kind : Locks!Kinds, rdp : LockedRdps, held : 0..3] \cup {Locks!None}] /\ Locks!TypeOK'
    BY <1>1, <2>1, StartFact DEF Locks!Kinds
  <2>3. v3'[p].kind # "clean" /\ \A q \in Procs \ {p} : v3'[q] = v3[q]
    BY <2>1 DEF LocksInv, TxType, Locks!Start
  <2>4. QED
    BY <2>1, <2>2, <2>3, ResultKept DEF LocksInv, TxType
<1>3. CASE v3[p].kind # "complete"
  <2>1. v3' = [v3 EXCEPT ![p] = Locks!None] /\ v2' = v2
    BY <1>3 DEF Locks!Abort
  <2>2. v3' \in [Procs -> [kind : Locks!Kinds, rdp : LockedRdps, held : 0..3] \cup {Locks!None}] /\ Locks!TypeOK'
    BY <2>1, EndFact
  <2>3. v3'[p].kind # "clean" /\ \A q \in Procs \ {p} : v3'[q] = v3[q]
    BY <2>1 DEF LocksInv, TxType, Locks!None
  <2>4. QED
    BY <2>1, <2>2, <2>3, ResultKept DEF LocksInv, TxType
<1>4. QED
  BY <1>2, <1>3

\* Every step keeps the invariant.
LEMMA LocksNextInv == LocksInv /\ [Locks!Next]_(Locks!vars) => LocksInv'
<1> SUFFICES ASSUME LocksInv, [Locks!Next]_(Locks!vars) PROVE LocksInv'
  OBVIOUS
<1>1. CASE Locks!Next
  BY <1>1, BeginStep, LockRowStep, CommitStep, AbortStep DEF Locks!Next
<1>2. CASE UNCHANGED Locks!vars
  <2>1. v2' = v2 /\ v3' = v3
    BY <1>2 DEF Locks!vars
  <2>2. TxType' /\ CleanHasResult'
    BY <2>1 DEF LocksInv, TxType, CleanHasResult
  <2>3. \A p \in Procs : Locks!Held(p)' = Locks!Held(p) /\ Locks!RowsOf(p)' = Locks!RowsOf(p) /\ (Locks!Busy(p)' <=> Locks!Busy(p))
    BY <2>1 DEF Locks!Held, Locks!RowsOf, Locks!Busy
  <2>4. Locks!TypeOK'
    BY <2>1, <2>3 DEF LocksInv, Locks!TypeOK
  <2>5. QED
    BY <2>2, <2>4 DEF LocksInv
<1>3. QED
  BY <1>1, <1>2

\* A completion of a running operation locks its rows, or writes its result.
LEMMA LocksKeepResults ==
  ASSUME LocksInv, [Locks!Next]_(Locks!vars), NEW p \in Procs,
         v3[p].kind = "complete", v2[v3[p].rdp] = "RUNNING", v3'[p] # v3[p]
  PROVE  v3'[p].kind = "complete" \/ v2'[v3[p].rdp] = "SUCCESS"
<1>1. Locks!Busy(p) /\ v3[p].rdp \in LockedRdps /\ v3 \in [Procs -> [kind : Locks!Kinds, rdp : LockedRdps, held : 0..3] \cup {Locks!None}]
  BY BusyFact DEF LocksInv, TxType, Locks!Kinds
<1>2. PICK q \in Procs : (\E k \in Locks!Kinds, r \in LockedRdps : Locks!Begin(q, k, r)) \/ Locks!LockRow(q) \/ Locks!Commit(q) \/ Locks!Abort(q)
  BY DEF Locks!Next, Locks!vars
<1>3. q = p
  BY <1>1, <1>2 DEF Locks!Begin, Locks!LockRow, Locks!Commit, Locks!Abort
<1>4. ~\E k \in Locks!Kinds, r \in LockedRdps : Locks!Begin(p, k, r)
  BY <1>1 DEF Locks!Begin
<1>5. ~Locks!Abort(p)
  BY CompletionWaits DEF Locks!Abort
<1>6. CASE Locks!LockRow(p)
  BY <1>1, <1>6 DEF Locks!LockRow
<1>7. CASE Locks!Commit(p)
  BY <1>1, <1>7 DEF Locks!Commit, Locks!NewOp, LocksInv, TxType
<1>8. QED
  BY <1>2, <1>3, <1>4, <1>5, <1>6, <1>7

LEMMA InitLocks == InitAll => (In("Locks") => LocksInv)
<1>1. In("Locks") /\ InitAll => Locks!Init
  BY DEF InitAll, In, RdpPagesInit, FormInit, CreateInit, DataInit, PeopleInit, FindingsInit, ResultsInit, LocksInit
<1>2. QED
  BY <1>1, LocksInitInv

LEMMA LocksKept == (In("Locks") => LocksInv) /\ [NextAll]_all => (In("Locks") => LocksInv)'
BY StepOfComponent, LocksNextInv DEF In

(* Transactions on any RDPs deadlock only where a clean RDP is created, and *)
(* never at the cost of the result of a running operation.                  *)
THEOREM LocksStaySafe == SpecAll => LocksAreSafe
<1>1. (In("Locks") => LocksInv) => (In("Locks") => Locks!OnlyCleanDeadlocks)
  BY DeadlockFact DEF LocksInv
<1>2. (In("Locks") => LocksInv) /\ [NextAll]_all => [In("Locks") => Locks!ResultsAreKept]_all
  BY StepOfComponent, LocksKeepResults DEF Locks!ResultsAreKept
<1>3. QED
  BY InitLocks, LocksKept, <1>1, <1>2, PTL DEF SpecAll, LocksAreSafe

-----------------------------------------------------------------------------
(* RdpCreate                                                               *)

\* A status is changed, nothing else.
LEMMA Restatus ==
  ASSUME NEW R \in Seq(Create!Rows), NEW i \in DOMAIN R, NEW s \in Create!Statuses
  PROVE  LET Q == [R EXCEPT ![i].status = s] IN
         /\ Q \in Seq(Create!Rows) /\ Len(Q) = Len(R) /\ DOMAIN Q = DOMAIN R
         /\ \A k \in DOMAIN R : Q[k].links = R[k].links /\ Q[k].status = IF k = i THEN s ELSE R[k].status
<1> DEFINE Q == [R EXCEPT ![i].status = s]
<1>1. DOMAIN R = 1..Len(R) /\ Len(R) \in Nat /\ \A k \in 1..Len(R) : R[k] \in Create!Rows
  OBVIOUS
<1>2. DOMAIN Q = 1..Len(R) /\ \A k \in 1..Len(R) : Q[k] = IF k = i THEN [R[i] EXCEPT !.status = s] ELSE R[k]
  BY <1>1
<1>3. [R[i] EXCEPT !.status = s] \in Create!Rows
      /\ [R[i] EXCEPT !.status = s].links = R[i].links /\ [R[i] EXCEPT !.status = s].status = s
  BY <1>1 DEF Create!Rows
<1>4. \A k \in 1..Len(R) : Q[k] \in Create!Rows
  BY <1>1, <1>2, <1>3
<1>5. Q \in [1..Len(R) -> Create!Rows]
  BY <1>2, <1>4
<1>6. Q \in Seq(Create!Rows) /\ Len(Q) = Len(R)
  BY <1>1, <1>5
<1>7. QED
  BY <1>1, <1>2, <1>3, <1>6

\* An RDP is added.
LEMMA Appended ==
  ASSUME NEW S, NEW R \in Seq(S), NEW e \in S
  PROVE  LET Q == Append(R, e) IN
         /\ Q \in Seq(S) /\ Len(Q) = Len(R) + 1 /\ Len(R) \in Nat
         /\ DOMAIN Q = DOMAIN R \cup {Len(R) + 1} /\ Len(R) + 1 \notin DOMAIN R
         /\ Q[Len(R) + 1] = e /\ \A k \in DOMAIN R : Q[k] = R[k]
OBVIOUS

LEMMA NonEmptyFact ==
  ASSUME NEW S, NEW x \in SUBSET S, x # {}
  PROVE  x \in (SUBSET S) \ {{}}
<1>1. x \notin {{}}
  OBVIOUS
<1>2. QED
  BY <1>1

\* The RDPs that are not cancelled.
CreatedLive(k) == k \in DOMAIN v1 /\ v1[k].status # "CANCELLED"

LEMMA LiveFact ==
  ASSUME v1 \in Seq(Create!Rows)
  PROVE  /\ \A k : k \in Create!Unfinished \cup Create!Succeeded <=> CreatedLive(k)
         /\ \A k : k \in Create!Succeeded <=> k \in DOMAIN v1 /\ v1[k].status = "SUCCESS"
         /\ \A k \in DOMAIN v1 : v1[k] \in Create!Rows
<1>1. DOMAIN v1 = 1..Len(v1) /\ \A k \in DOMAIN v1 : v1[k] \in Create!Rows
  OBVIOUS
<1>2. \A k \in DOMAIN v1 : v1[k].status \in Create!Statuses
  BY <1>1 DEF Create!Rows
<1>3. QED
  BY <1>1, <1>2 DEF Create!Unfinished, Create!Succeeded, Create!Ids, Create!NonTerminal, Create!Statuses, CreatedLive

LEMMA LiveNext ==
  ASSUME v1' \in Seq(Create!Rows)
  PROVE  \A k : k \in (Create!Unfinished \cup Create!Succeeded)' <=> CreatedLive(k)'
<1>1. DOMAIN v1' = 1..Len(v1') /\ \A k \in DOMAIN v1' : v1'[k] \in Create!Rows
  OBVIOUS
<1>2. \A k \in DOMAIN v1' : v1'[k].status \in Create!Statuses
  BY <1>1 DEF Create!Rows
<1>3. QED
  BY <1>1, <1>2 DEF Create!Unfinished, Create!Succeeded, Create!Ids, Create!NonTerminal, Create!Statuses, CreatedLive

\* Jobs select, validate, end and restart: the RDPs stay as they are.
LEMMA CreateJobStep ==
  ASSUME Create!CreateInv, NEW j \in Creators,
         \/ \E pks \in SUBSET (Beneficiaries \ v2) : Create!Select(j, pks)
         \/ Create!JobPreflight(j) \/ Create!JobEnd(j) \/ Create!JobRestart(j)
  PROVE  Create!CreateInv'
<1> DEFINE rdps == v1  removed == v2  job == v5
           At == {"free", "selected", "checked", "ran"}
<1>1. job \in [Creators -> [at : At, pks : SUBSET Beneficiaries]] /\ UNCHANGED <<v1, v2, v3, v4, v6>>
  BY DEF Create!CreateInv, Create!Select, Create!JobPreflight, Create!JobEnd, Create!JobRestart
<1>2. \E p \in [at : At, pks : SUBSET Beneficiaries] :
        /\ job' = [job EXCEPT ![j] = p]
        /\ p.at = "checked" => Create!Preflight(p.pks, {})
  <2>1. CASE \E pks \in SUBSET (Beneficiaries \ v2) : Create!Select(j, pks)
    <3>1. PICK pks \in SUBSET (Beneficiaries \ v2) : job' = [job EXCEPT ![j] = [at |-> "selected", pks |-> pks]]
      BY <2>1 DEF Create!Select
    <3>2. [at |-> "selected", pks |-> pks] \in [at : At, pks : SUBSET Beneficiaries]
      OBVIOUS
    <3>3. QED
      BY <3>1, <3>2
  <2>2. [at |-> "free", pks |-> {}] \in [at : At, pks : SUBSET Beneficiaries]
        /\ \A a \in At : [job[j] EXCEPT !.at = a] \in [at : At, pks : SUBSET Beneficiaries]
             /\ [job[j] EXCEPT !.at = a].at = a /\ [job[j] EXCEPT !.at = a].pks = job[j].pks
    BY <1>1
  <2>3. CASE Create!JobPreflight(j)
    <3>1. job' = [job EXCEPT ![j] = IF Create!Preflight(job[j].pks, {}) THEN [job[j] EXCEPT !.at = "checked"]
                                    ELSE [at |-> "free", pks |-> {}]]
      BY <2>3, <1>1 DEF Create!JobPreflight
    <3>2. QED
      BY <2>2, <3>1
  <2>4. CASE Create!JobEnd(j)
    BY <2>2, <2>4 DEF Create!JobEnd
  <2>5. CASE Create!JobRestart(j)
    <3>1. job' = [job EXCEPT ![j] = [job[j] EXCEPT !.at = "selected"]]
      BY <2>5, <1>1 DEF Create!JobRestart
    <3>2. QED
      BY <2>2, <3>1
  <2>6. QED
    BY <2>1, <2>3, <2>4, <2>5
<1>3. PICK p \in [at : At, pks : SUBSET Beneficiaries] :
        /\ job' = [job EXCEPT ![j] = p]
        /\ p.at = "checked" => Create!Preflight(p.pks, {})
  BY <1>2
<1>4. job' \in [Creators -> [at : At, pks : SUBSET Beneficiaries]]
      /\ \A k \in Creators : job'[k] = IF k = j THEN p ELSE job[k]
  BY <1>1, <1>3
<1>5. Create!CheckedIsFree'
  BY <1>1, <1>3, <1>4 DEF Create!CreateInv, Create!CheckedIsFree, Create!Preflight, Create!Unfinished,
    Create!Succeeded, Create!Ids
<1>6. Create!LinkedOnce' /\ Create!RemovedIsPushed'
  BY <1>1 DEF Create!CreateInv, Create!LinkedOnce, Create!RemovedIsPushed, Create!Unfinished,
    Create!Succeeded, Create!Ids
<1>7. QED
  BY <1>1, <1>4, <1>5, <1>6 DEF Create!CreateInv

\* A job creates an RDP of what it found free; there is no other such job.
LEMMA CreateRdpStep ==
  ASSUME Create!CreateInv, \A k, m \in Creators : k = m, NEW j \in Creators, Create!JobCreate(j)
  PROVE  Create!CreateInv'
<1> DEFINE rdps == v1  removed == v2  job == v5
           At == {"free", "selected", "checked", "ran"}
<1>1. job \in [Creators -> [at : At, pks : SUBSET Beneficiaries]] /\ rdps \in Seq(Create!Rows)
      /\ UNCHANGED <<v2, v3, v4, v6>> /\ job[j].at = "checked" /\ Len(rdps) < MaxCreated
      /\ Len(rdps) <= MaxCreated
  BY DEF Create!CreateInv, Create!JobCreate
<1>2. job' = [job EXCEPT ![j] = [job[j] EXCEPT !.at = "ran"]]
  BY <1>1 DEF Create!JobCreate
<1>3. [job[j] EXCEPT !.at = "ran"] \in [at : At, pks : SUBSET Beneficiaries]
      /\ [job[j] EXCEPT !.at = "ran"].at = "ran"
  BY <1>1
<1>4. job' \in [Creators -> [at : At, pks : SUBSET Beneficiaries]] /\ \A k \in Creators : job'[k].at = "ran"
  BY <1>1, <1>2, <1>3
<1>5. Create!CheckedIsFree'
  BY <1>4 DEF Create!CheckedIsFree
<1>6. rdps' \in Seq(Create!Rows) /\ Len(rdps') <= MaxCreated /\ Create!LinkedOnce' /\ Create!RemovedIsPushed'
  <2>1. CASE rdps' = rdps
    BY <1>1, <2>1 DEF Create!CreateInv, Create!LinkedOnce, Create!RemovedIsPushed, Create!Unfinished,
      Create!Succeeded, Create!Ids
  <2>2. CASE rdps' = Append(rdps, [status |-> "PENDING", links |-> job[j].pks])
    <3> DEFINE e == [status |-> "PENDING", links |-> job[j].pks]
               n == Len(rdps) + 1
    <3>1. job[j].pks # {} /\ \A i : CreatedLive(i) => rdps[i].links \cap job[j].pks = {}
      BY <1>1, LiveFact DEF Create!CreateInv, Create!CheckedIsFree
    <3>2. e \in Create!Rows /\ e.status = "PENDING" /\ e.links = job[j].pks
      <4>1. job[j].pks \in (SUBSET Beneficiaries) \ {{}}
        <5>1. job[j].pks \in SUBSET Beneficiaries
          BY <1>1
        <5>2. job[j].pks # {}
          BY <3>1
        <5>3. QED
          BY <5>1, <5>2, NonEmptyFact
      <4>2. QED
        BY <4>1 DEF Create!Rows, Create!Statuses
    <3>3. /\ rdps' \in Seq(Create!Rows) /\ Len(rdps') = n /\ Len(rdps) \in Nat
          /\ DOMAIN rdps' = DOMAIN rdps \cup {n} /\ n \notin DOMAIN rdps
          /\ rdps'[n] = e /\ \A k \in DOMAIN rdps : rdps'[k] = rdps[k]
      BY <1>1, <2>2, <3>2, Appended
    <3>4. n <= MaxCreated
      BY <1>1, <3>3, BoundsAssumption DEF Create!CreateAssumption
    <3>5. \A k : CreatedLive(k)' <=> CreatedLive(k) \/ k = n
      BY <3>2, <3>3 DEF CreatedLive
    <3>6. \A i, k : CreatedLive(i) /\ CreatedLive(k) /\ i # k => rdps[i].links \cap rdps[k].links = {}
      BY <1>1, LiveFact DEF Create!CreateInv, Create!LinkedOnce
    <3>7. \A i, k : CreatedLive(i)' /\ CreatedLive(k)' /\ i # k => rdps'[i].links \cap rdps'[k].links = {}
      BY <3>1, <3>2, <3>3, <3>5, <3>6 DEF CreatedLive
    <3>8. Create!LinkedOnce'
      <4>1. \A k : k \in (Create!Unfinished \cup Create!Succeeded)' <=> CreatedLive(k)'
        BY <3>3, LiveNext
      <4>2. QED
        BY <3>7, <4>1 DEF Create!LinkedOnce
    <3>9. Create!RemovedIsPushed'
      <4>1. Create!Succeeded' = Create!Succeeded
        BY <3>2, <3>3 DEF Create!Succeeded, Create!Ids
      <4>2. \A i \in Create!Succeeded : rdps'[i] = rdps[i]
        BY <3>3 DEF Create!Succeeded, Create!Ids
      <4>3. QED
        BY <1>1, <4>1, <4>2 DEF Create!CreateInv, Create!RemovedIsPushed
    <3>10. QED
      BY <3>3, <3>4, <3>8, <3>9
  <2>3. QED
    BY <2>1, <2>2 DEF Create!JobCreate
<1>7. QED
  BY <1>1, <1>4, <1>5, <1>6 DEF Create!CreateInv

\* The status of an RDP that is not cancelled changes; what it stands for is removed when it
\* succeeds, and is back when it is reset.
LEMMA CreateStatusStep ==
  ASSUME Create!CreateInv, NEW i, CreatedLive(i), NEW s \in Create!Statuses,
         v1' = [v1 EXCEPT ![i].status = s], UNCHANGED <<v3, v4, v5, v6>>,
         \/ v1[i].status # "SUCCESS" /\ s # "SUCCESS" /\ v2' = v2
         \/ v1[i].status # "SUCCESS" /\ s = "SUCCESS" /\ v2' = v2 \cup v1[i].links
         \/ v1[i].status = "SUCCESS" /\ s = "CANCELLED" /\ v2' = v2 \ v1[i].links
  PROVE  Create!CreateInv'
<1>1. v1 \in Seq(Create!Rows) /\ i \in DOMAIN v1 /\ Len(v1) <= MaxCreated
  BY DEF Create!CreateInv, CreatedLive
<1>2. /\ v1' \in Seq(Create!Rows) /\ Len(v1') = Len(v1) /\ DOMAIN v1' = DOMAIN v1
      /\ \A k \in DOMAIN v1 : v1'[k].links = v1[k].links /\ v1'[k].status = IF k = i THEN s ELSE v1[k].status
  BY <1>1, Restatus
<1>3. \A k : CreatedLive(k)' => CreatedLive(k)
  BY <1>2 DEF CreatedLive
<1>4. Create!LinkedOnce'
  <2>1. \A k, m : CreatedLive(k) /\ CreatedLive(m) /\ k # m => v1[m].links \cap v1[k].links = {}
    BY <1>1, LiveFact DEF Create!CreateInv, Create!LinkedOnce
  <2>2. \A k, m : CreatedLive(k)' /\ CreatedLive(m)' /\ k # m => v1'[m].links \cap v1'[k].links = {}
    BY <1>2, <1>3, <2>1 DEF CreatedLive
  <2>3. QED
    BY <1>2, <2>2, LiveNext DEF Create!LinkedOnce
<1>5. Create!CheckedIsFree'
  <2>1. \A j \in Creators : v5[j].at = "checked" =>
          v5[j].pks # {} /\ \A k : CreatedLive(k) => v1[k].links \cap v5[j].pks = {}
    BY <1>1, LiveFact DEF Create!CreateInv, Create!CheckedIsFree
  <2>2. \A j \in Creators : v5'[j].at = "checked" =>
          v5'[j].pks # {} /\ \A k : CreatedLive(k)' => v1'[k].links \cap v5'[j].pks = {}
    BY <1>2, <1>3, <2>1 DEF CreatedLive
  <2>3. QED
    BY <1>2, <2>2, LiveNext DEF Create!CheckedIsFree
<1>6. Create!RemovedIsPushed'
  <2>1. \A b : b \in v2 <=> \E k \in DOMAIN v1 : v1[k].status = "SUCCESS" /\ b \in v1[k].links
    BY <1>1, LiveFact DEF Create!CreateInv, Create!RemovedIsPushed
  <2>2. \A b : b \in v2' <=> \E k \in DOMAIN v1' : v1'[k].status = "SUCCESS" /\ b \in v1'[k].links
    <3>1. CASE v1[i].status # "SUCCESS" /\ s # "SUCCESS" /\ v2' = v2
      BY <1>1, <1>2, <2>1, <3>1
    <3>2. CASE v1[i].status # "SUCCESS" /\ s = "SUCCESS" /\ v2' = v2 \cup v1[i].links
      BY <1>1, <1>2, <2>1, <3>2
    <3>3. CASE v1[i].status = "SUCCESS" /\ s = "CANCELLED" /\ v2' = v2 \ v1[i].links
      <4>1. \A k \in DOMAIN v1 : k # i /\ v1[k].status = "SUCCESS" => v1[k].links \cap v1[i].links = {}
        BY <1>1, <3>3, LiveFact DEF Create!CreateInv, Create!LinkedOnce, CreatedLive
      <4>2. QED
        BY <1>1, <1>2, <2>1, <3>3, <4>1
    <3>4. QED
      BY <3>1, <3>2, <3>3
  <2>3. Create!Succeeded' = {k \in DOMAIN v1' : v1'[k].status = "SUCCESS"}
    BY DEF Create!Succeeded, Create!Ids
  <2>4. QED
    BY <2>2, <2>3 DEF Create!RemovedIsPushed
<1>7. v2' \subseteq Beneficiaries
  <2>1. v2 \subseteq Beneficiaries /\ v1[i].links \subseteq Beneficiaries
    BY <1>1, LiveFact DEF Create!CreateInv, Create!Rows
  <2>2. QED
    BY <2>1
<1>8. QED
  BY <1>1, <1>2, <1>4, <1>5, <1>6, <1>7 DEF Create!CreateInv

\* A clean RDP has some of those of the one it replaces.
LEMMA CreateCleanStep ==
  ASSUME Create!CreateInv, NEW i \in DOMAIN v1, NEW found \in SUBSET v1[i].links, Create!CreateClean(i, found)
  PROVE  Create!CreateInv'
<1> DEFINE Q == [v1 EXCEPT ![i].status = "CANCELLED"]
           left == v1[i].links \ found
           e == [status |-> "PENDING", links |-> left]
           n == Len(v1) + 1
<1>1. /\ v1 \in Seq(Create!Rows) /\ v1[i].status = "REVIEW_PENDING" /\ UNCHANGED <<v2, v3, v4, v5, v6>>
      /\ v1' = Append(Q, e) /\ left # {} /\ Len(v1) < MaxCreated
  BY DEF Create!CreateInv, Create!CreateClean, Create!Preflight
<1>2. /\ Q \in Seq(Create!Rows) /\ Len(Q) = Len(v1) /\ DOMAIN Q = DOMAIN v1
      /\ \A k \in DOMAIN v1 : Q[k].links = v1[k].links /\ Q[k].status = IF k = i THEN "CANCELLED" ELSE v1[k].status
  BY <1>1, Restatus DEF Create!Statuses
<1>3. e \in Create!Rows /\ e.status = "PENDING" /\ e.links = left
  <2>1. left \in (SUBSET Beneficiaries) \ {{}}
    BY <1>1, LiveFact DEF Create!Rows
  <2>2. QED
    BY <2>1 DEF Create!Rows, Create!Statuses
<1>4. /\ v1' \in Seq(Create!Rows) /\ Len(v1') = n /\ Len(v1) \in Nat
      /\ DOMAIN v1' = DOMAIN v1 \cup {n} /\ n \notin DOMAIN v1
      /\ v1'[n] = e /\ \A k \in DOMAIN v1 : v1'[k] = Q[k]
  <2>1. /\ v1' \in Seq(Create!Rows) /\ Len(v1') = Len(Q) + 1 /\ Len(Q) \in Nat
        /\ DOMAIN v1' = DOMAIN Q \cup {Len(Q) + 1} /\ Len(Q) + 1 \notin DOMAIN Q
        /\ v1'[Len(Q) + 1] = e /\ \A k \in DOMAIN Q : v1'[k] = Q[k]
    BY <1>1, <1>2, <1>3, Appended
  <2>2. QED
    BY <1>2, <2>1
<1>5. n <= MaxCreated
  BY <1>1, <1>4, BoundsAssumption DEF Create!CreateAssumption
<1>6. \A k \in DOMAIN v1 : v1'[k].links = v1[k].links /\ v1'[k].status = IF k = i THEN "CANCELLED" ELSE v1[k].status
  BY <1>2, <1>4
<1>7. CreatedLive(i) /\ \A k : CreatedLive(k)' <=> (CreatedLive(k) /\ k # i) \/ k = n
  BY <1>1, <1>3, <1>4, <1>6 DEF CreatedLive
<1>8. v1'[n].links \subseteq v1[i].links
  BY <1>3, <1>4
<1>9. Create!LinkedOnce'
  <2>1. \A k, m : CreatedLive(k) /\ CreatedLive(m) /\ k # m => v1[m].links \cap v1[k].links = {}
    BY <1>1, LiveFact DEF Create!CreateInv, Create!LinkedOnce
  <2>2. \A k : CreatedLive(k) /\ k # i => v1'[k].links \cap v1'[n].links = {}
    BY <1>6, <1>7, <1>8, <2>1 DEF CreatedLive
  <2>3. \A k, m : CreatedLive(k)' /\ CreatedLive(m)' /\ k # m => v1'[m].links \cap v1'[k].links = {}
    BY <1>6, <1>7, <2>1, <2>2 DEF CreatedLive
  <2>4. QED
    BY <1>4, <2>3, LiveNext DEF Create!LinkedOnce
<1>10. Create!CheckedIsFree'
  <2>1. \A j \in Creators : v5[j].at = "checked" =>
          v5[j].pks # {} /\ \A k : CreatedLive(k) => v1[k].links \cap v5[j].pks = {}
    BY <1>1, LiveFact DEF Create!CreateInv, Create!CheckedIsFree
  <2>2. \A j \in Creators : v5'[j].at = "checked" =>
          v5'[j].pks # {} /\ \A k : CreatedLive(k)' => v1'[k].links \cap v5'[j].pks = {}
    <3> SUFFICES ASSUME NEW j \in Creators, v5'[j].at = "checked", NEW k, CreatedLive(k)'
                 PROVE  v5'[j].pks # {} /\ v1'[k].links \cap v5'[j].pks = {}
      BY <1>1, <2>1
    <3>1. v5' = v5 /\ v1[i].links \cap v5[j].pks = {} /\ v5[j].pks # {}
      BY <1>1, <1>7, <2>1
    <3>2. CASE k = n
      BY <1>8, <3>1, <3>2
    <3>3. CASE CreatedLive(k) /\ k # i
      BY <1>6, <2>1, <3>1, <3>3 DEF CreatedLive
    <3>4. QED
      BY <1>7, <3>2, <3>3
  <2>3. QED
    BY <1>4, <2>2, LiveNext DEF Create!CheckedIsFree
<1>11. Create!RemovedIsPushed'
  <2>1. Create!Succeeded' = Create!Succeeded /\ \A k \in Create!Succeeded : v1'[k].links = v1[k].links
    BY <1>1, <1>3, <1>4, <1>6 DEF Create!Succeeded, Create!Ids
  <2>2. QED
    BY <1>1, <2>1 DEF Create!CreateInv, Create!RemovedIsPushed
<1>12. QED
  BY <1>1, <1>4, <1>5, <1>9, <1>10, <1>11 DEF Create!CreateInv

LEMMA CreateNextInv ==
  ASSUME \A k, m \in Creators : k = m, Create!CreateInv, [Create!Next]_(Create!vars)
  PROVE  Create!CreateInv'
<1>1. CASE UNCHANGED Create!vars
  BY <1>1 DEF Create!vars, Create!CreateInv, Create!CheckedIsFree, Create!LinkedOnce, Create!RemovedIsPushed,
    Create!Unfinished, Create!Succeeded, Create!Ids
<1>2. ASSUME NEW j \in Creators,
             \/ \E pks \in SUBSET (Beneficiaries \ v2) : Create!Select(j, pks)
             \/ Create!JobPreflight(j) \/ Create!JobCreate(j) \/ Create!JobEnd(j) \/ Create!JobRestart(j)
      PROVE  Create!CreateInv'
  BY <1>2, CreateJobStep, CreateRdpStep
<1>3. ASSUME NEW i \in DOMAIN v1, Create!RdpStep(i) PROVE Create!CreateInv'
  <2>1. CASE \E found \in SUBSET v1[i].links : Create!CreateClean(i, found)
    BY <2>1, CreateCleanStep
  <2>2. CASE Create!RequireReview(i) \/ Create!StartPush(i) \/ Create!FailPush(i) \/ Create!Cancel(i)
    <3>1. \E s \in Create!Statuses : /\ CreatedLive(i) /\ v1[i].status # "SUCCESS" /\ s # "SUCCESS" /\ v2' = v2
                                     /\ v1' = [v1 EXCEPT ![i].status = s] /\ UNCHANGED <<v3, v4, v5, v6>>
      BY <2>2 DEF Create!RequireReview, Create!StartPush, Create!FailPush, Create!Cancel, CreatedLive, Create!Statuses
    <3>2. QED
      BY <3>1, CreateStatusStep
  <2>3. CASE Create!FinishPush(i)
    <3>1. "SUCCESS" \in Create!Statuses /\ CreatedLive(i)
      BY <2>3 DEF Create!FinishPush, Create!Statuses, CreatedLive
    <3>2. QED
      BY <2>3, <3>1, CreateStatusStep DEF Create!FinishPush
  <2>4. CASE Create!Reset(i)
    <3>1. "CANCELLED" \in Create!Statuses /\ CreatedLive(i)
      BY <2>4 DEF Create!Reset, Create!Statuses, CreatedLive
    <3>2. QED
      BY <2>4, <3>1, CreateStatusStep DEF Create!Reset
  <2>5. QED
    BY <1>3, <2>1, <2>2, <2>3, <2>4 DEF Create!RdpStep
<1>4. CASE (\E b \in Beneficiaries : Create!Edit(b)) \/ Create!BeginCleanup
  <2>1. UNCHANGED <<v1, v2, v5>>
    BY <1>4 DEF Create!Edit, Create!BeginCleanup
  <2>2. v3' \subseteq Beneficiaries /\ v4' \in BOOLEAN /\ v6' \in 0..MaxValidity
    <3>1. CASE \E b \in Beneficiaries : Create!Edit(b)
      <4>1. v6 \in 0..MaxValidity /\ v6 < MaxValidity /\ v6' = v6 + 1 /\ v4' = v4 /\ v4 \in BOOLEAN
        BY <3>1 DEF Create!CreateInv, Create!Edit
      <4>2. v3' \subseteq Beneficiaries
        BY <3>1 DEF Create!CreateInv, Create!Edit
      <4>3. v6' \in 0..MaxValidity
        BY <4>1, BoundsAssumption DEF Create!CreateAssumption
      <4>4. QED
        BY <4>1, <4>2, <4>3
    <3>2. CASE Create!BeginCleanup
      BY <3>2 DEF Create!CreateInv, Create!BeginCleanup
    <3>3. QED
      BY <1>4, <3>1, <3>2
  <2>3. QED
    BY <2>1, <2>2 DEF Create!CreateInv, Create!CheckedIsFree, Create!LinkedOnce, Create!RemovedIsPushed,
      Create!Unfinished, Create!Succeeded, Create!Ids
<1>5. QED
  BY <1>1, <1>2, <1>3, <1>4 DEF Create!Next, Create!Ids

LEMMA CreateInitInv == Create!Init => Create!CreateInv
<1> SUFFICES ASSUME Create!Init PROVE Create!CreateInv
  OBVIOUS
<1>1. v1 = <<>> /\ DOMAIN v1 = {} /\ Len(v1) = 0 /\ v1 \in Seq(Create!Rows)
  BY DEF Create!Init
<1>2. Create!LinkedOnce /\ Create!RemovedIsPushed /\ Create!CheckedIsFree
  BY <1>1 DEF Create!Init, Create!LinkedOnce, Create!RemovedIsPushed, Create!CheckedIsFree, Create!Unfinished,
    Create!Succeeded, Create!Ids
<1>3. v5 \in [Creators -> [at : {"free", "selected", "checked", "ran"}, pks : SUBSET Beneficiaries]]
  BY DEF Create!Init
<1>4. v6 \in 0..MaxValidity /\ 0 <= MaxCreated
  BY BoundsAssumption DEF Create!Init, Create!CreateAssumption
<1>5. QED
  BY <1>1, <1>2, <1>3, <1>4 DEF Create!Init, Create!CreateInv

-----------------------------------------------------------------------------
(* RdpPages with the administration's form, on the slots.                    *)

FormInv == v8 \in 0..FormAttempts /\ Form!AttemptMatches

\* Whoever steps, attempt and status move together; the form's own writes the constraint checks.
LEMMA FormKeeps == FormInv /\ [Form!Next]_(Form!vars) => FormInv'
<1> SUFFICES ASSUME FormInv, [Form!Next]_(Form!vars) PROVE FormInv'
  OBVIOUS
<1>1. v8 \in 0..FormAttempts /\ FormAttempts \in Nat /\ ((v1 = "PUSH_PENDING") <=> (v3 # 0))
  BY BoundsAssumption DEF FormInv, Form!AttemptMatches, Form!Consistent, Form!None, Form!PagesAssumption
<1> DEFINE Same == v1' = v1 /\ v3' = v3 /\ v8' = v8
           Starts == v1' = "PUSH_PENDING" /\ v3' = v8 + 1 /\ v8' = v8 + 1 /\ v8 < FormAttempts
           Ends == v1' \in {"FAILURE", "SUCCESS", "CANCELLED"} /\ v3' = 0 /\ v8' = v8
           Reviews == v1 = "PENDING" /\ v1' = "REVIEW_PENDING" /\ v3' = v3 /\ v8' = v8
           Forced == ((v1' = "PUSH_PENDING") <=> (v3' # 0)) /\ v8' = v8
<1>2. Form!Jobs \/ Form!RetryPush \/ Form!RetryOperation => Same \/ Starts \/ Ends \/ Reviews
  BY DEF Form!Jobs, Form!Operate, Form!Evaluate, Form!Prepare, Form!Link, Form!End, Form!RetryPush,
    Form!RetryOperation, Form!Start, Form!Finish, Form!None
<1>3. ASSUME NEW u, (\E k \in Form!Kinds : Form!OpenPage(u, k)) \/ Form!DeleteManually(u) \/ Form!Confirm(u)
                      \/ Form!Leave(u) \/ Form!OpenForm(u) \/ Form!SendForm(u)
      PROVE  Same
  BY <1>3 DEF Form!OpenPage, Form!DeleteManually, Form!Confirm, Form!Leave, Form!OpenForm, Form!SendForm
<1>4. ASSUME NEW u, Form!Cancel(u) \/ Form!CreateClean(u) \/ Form!PushReview(u) \/ Form!Reset(u)
                      \/ Form!FailStuck(u)
      PROVE  Same \/ Starts \/ Ends
  BY <1>4 DEF Form!Cancel, Form!CreateClean, Form!PushReview, Form!Reset, Form!FailStuck, Form!Start,
    Form!Cancelled, Form!Finish, Form!None
<1>5. ASSUME NEW u, Form!SaveForm(u)
      PROVE  Same \/ Forced
  BY <1>5 DEF Form!SaveForm, Form!Consistent, Form!rdp, Form!None
<1>6. Same \/ Starts \/ Ends \/ Reviews \/ Forced
  BY <1>2, <1>3, <1>4, <1>5 DEF Form!Next, Form!vars
<1>7. v8' \in 0..FormAttempts /\ ((v1' = "PUSH_PENDING") <=> (v3' # 0))
  BY <1>1, <1>6
<1>8. QED
  BY <1>7 DEF FormInv, Form!AttemptMatches, Form!Consistent, Form!None

-----------------------------------------------------------------------------
(* PushData: its own theorems (PushData_proofs), of households and of people. *)

DataP == INSTANCE PushData_proofs WITH Households <- Households, Individuals <- Individuals,
  NoOne <- NoOne, Household <- HouseholdOf, FirstRoles <- RolesOf, EditRefs <- EditsOf,
  MasterDetail <- TRUE, BatchSize <- BatchSize, MaxRdps <- MaxPushed, MaxRdis <- MaxRdis,
  MaxEdits <- DataEdits, roles <- v1, valid <- v2, removed <- v3, rdps <- v4, rdis <- v5,
  push <- v6, edits <- v7

\* A step of the component is one of those the theorems are about.
LEMMA DataKeeps == DataP!DataInv /\ [Data!Next]_(Data!vars) => DataP!DataInv'
<1>1. [Data!Next]_(Data!vars) => [DataP!Steps]_(DataP!vars)
  BY DEF Data!Next, DataP!Steps, Data!vars, DataP!vars,
    Data!Create, DataP!Create, Data!Retry, DataP!Retry, Data!Fail, DataP!Fail,
    Data!CreateRdi,
    DataP!CreateRdi, Data!ReadIndividuals, DataP!ReadIndividuals, Data!ReadHouseholds,
    DataP!ReadHouseholds, Data!PostIndividuals, DataP!PostIndividuals, Data!PostHouseholds,
    DataP!PostHouseholds, Data!Complete, DataP!Complete, Data!Finish, DataP!Finish, Data!Reset,
    DataP!Reset, Data!Cancel, DataP!Cancel, Data!Edit, DataP!Edit, Data!Preflight,
    DataP!Preflight, Data!Represented, DataP!Represented, Data!Succeeded, DataP!Succeeded,
    Data!ForPush, DataP!ForPush, Data!Members, DataP!Members, Data!CollectorPks,
    DataP!CollectorPks, Data!Answers, DataP!Answers, Data!BatchMaps, DataP!BatchMaps,
    Data!RoleMaps, DataP!RoleMaps, Data!Referred, DataP!Referred, Data!Idle, DataP!Idle,
    Data!Rdp, DataP!Rdp, Data!Rdi, DataP!Rdi, Data!Records, DataP!Records, Data!RoleFields,
    DataP!RoleFields
<1>2. DataP!PushDataAssumption
  BY BoundsAssumption DEF Data!PushDataAssumption, DataP!PushDataAssumption, Data!Refs, DataP!Refs,
    Data!RoleFields, DataP!RoleFields
<1>3. QED
  BY <1>1, <1>2, DataP!DataNext

LEMMA DataBegins == Data!Init => DataP!DataInv
<1>1. Data!Init => DataP!Init
  BY DEF Data!Init, DataP!Init, Data!Idle, DataP!Idle, Data!Records, DataP!Records
<1>2. DataP!PushDataAssumption
  BY BoundsAssumption DEF Data!PushDataAssumption, DataP!PushDataAssumption, Data!Refs, DataP!Refs,
    Data!RoleFields, DataP!RoleFields
<1>3. QED
  BY <1>1, <1>2, DataP!DataInit

LEMMA DataMeans == DataP!DataInv => Data!CompletedIsClosed /\ Data!RemovedIsPushed
BY DEF DataP!DataInv, Data!CompletedIsClosed, DataP!CompletedIsClosed, Data!RemovedIsPushed,
    DataP!RemovedIsPushed, Data!Succeeded, DataP!Succeeded, Data!Represented,
    DataP!Represented, Data!Members, DataP!Members, Data!Records, DataP!Records

PeopleP == INSTANCE PushData_proofs WITH Households <- Households, Individuals <- Individuals,
  NoOne <- NoOne, Household <- HouseholdOf, FirstRoles <- RolesOf, EditRefs <- EditsOf,
  MasterDetail <- FALSE, BatchSize <- BatchSize, MaxRdps <- MaxPushed, MaxRdis <- MaxRdis,
  MaxEdits <- PeopleEdits, roles <- v1, valid <- v2, removed <- v3, rdps <- v4, rdis <- v5,
  push <- v6, edits <- v7

\* A step of the component is one of those the theorems are about.
LEMMA PeopleKeeps == PeopleP!PeopleInv /\ [People!Next]_(People!vars) => PeopleP!PeopleInv'
<1>1. [People!Next]_(People!vars) => [PeopleP!Steps]_(PeopleP!vars)
  BY DEF People!Next, PeopleP!Steps, People!vars, PeopleP!vars,
    People!Create, PeopleP!Create, People!Retry, PeopleP!Retry, People!Fail, PeopleP!Fail,
    People!CreateRdi, PeopleP!CreateRdi, People!ReadIndividuals, PeopleP!ReadIndividuals,
    People!ReadHouseholds, PeopleP!ReadHouseholds, People!PostIndividuals,
    PeopleP!PostIndividuals, People!PostHouseholds, PeopleP!PostHouseholds, People!Complete,
    PeopleP!Complete, People!Finish, PeopleP!Finish, People!Reset, PeopleP!Reset,
    People!Cancel, PeopleP!Cancel, People!Edit, PeopleP!Edit, People!Preflight,
    PeopleP!Preflight, People!Represented, PeopleP!Represented, People!Succeeded,
    PeopleP!Succeeded, People!ForPush, PeopleP!ForPush, People!Members, PeopleP!Members,
    People!CollectorPks, PeopleP!CollectorPks, People!Answers, PeopleP!Answers,
    People!BatchMaps, PeopleP!BatchMaps, People!RoleMaps, PeopleP!RoleMaps, People!Referred,
    PeopleP!Referred, People!Idle, PeopleP!Idle, People!Rdp, PeopleP!Rdp, People!Rdi,
    PeopleP!Rdi, People!Records, PeopleP!Records, People!RoleFields, PeopleP!RoleFields
<1>2. PeopleP!PushDataAssumption
  BY BoundsAssumption DEF People!PushDataAssumption, PeopleP!PushDataAssumption, People!Refs, PeopleP!Refs,
    People!RoleFields, PeopleP!RoleFields
<1>3. QED
  BY <1>1, <1>2, PeopleP!PeopleNext

LEMMA PeopleBegins == People!Init => PeopleP!PeopleInv
<1>1. People!Init => PeopleP!Init
  BY DEF People!Init, PeopleP!Init, People!Idle, PeopleP!Idle, People!Records, PeopleP!Records
<1>2. PeopleP!PushDataAssumption
  BY BoundsAssumption DEF People!PushDataAssumption, PeopleP!PushDataAssumption, People!Refs, PeopleP!Refs,
    People!RoleFields, PeopleP!RoleFields
<1>3. QED
  BY <1>1, <1>2, PeopleP!PeopleInit

LEMMA PeopleMeans == PeopleP!PeopleInv => People!RemovedWereSent
BY DEF PeopleP!PeopleInv, People!RemovedWereSent, PeopleP!RemovedWereSent, People!Succeeded, PeopleP!Succeeded,
    People!Represented, PeopleP!Represented, People!Members, PeopleP!Members, People!Records,
    PeopleP!Records

-----------------------------------------------------------------------------
(* All of them.                                                              *)

RdpsInv ==
  /\ In("RdpPages") => IInv
  /\ In("Form") => FormInv
  /\ In("Create") => Create!CreateInv
  /\ In("Data") => DataP!DataInv
  /\ In("People") => PeopleP!PeopleInv

LEMMA InitRdps == InitAll => RdpsInv
<1> SUFFICES ASSUME InitAll PROVE RdpsInv
  OBVIOUS
<1>1. /\ Init
      /\ In("Form") => Form!Init
      /\ In("Create") => Create!Init
      /\ In("Data") => Data!Init
      /\ In("People") => People!Init
  BY DEF InitAll, In, RdpPagesInit, FormInit, CreateInit, DataInit, PeopleInit, FindingsInit,
    ResultsInit, LocksInit
<1>2. Form!Init => FormInv
  <2>1. SUFFICES ASSUME Form!Init PROVE FormInv
    OBVIOUS
  <2>2. v8 = 0 /\ v1 = "PENDING" /\ v3 = 0 /\ 0 \in 0..FormAttempts
    BY <2>1, BoundsAssumption DEF Form!Init, Form!None, Form!PagesAssumption
  <2>3. QED
    BY <2>2 DEF FormInv, Form!AttemptMatches, Form!Consistent, Form!None
<1>3. QED
  BY <1>1, <1>2, InitIInv, CreateInitInv, DataBegins, PeopleBegins DEF RdpsInv

(* With one job that creates RDPs and without the administration's form in   *)
(* the first component, for any number of users, attempts, records, RDPs,    *)
(* RDIs and edits, RDPs agree with each other and with HOPE.                  *)
THEOREM RdpsStayConsistent ==
  ASSUME ~Forms, \A j, k \in Creators : j = k
  PROVE  SpecAll => RdpsConsistent
<1> DEFINE Agree == /\ In("RdpPages") => RunningIsWanted
                    /\ In("Form") => Form!AttemptMatches
                    /\ In("Create") => Create!LinkedOnce /\ Create!RemovedIsPushed
                    /\ In("Data") => Data!CompletedIsClosed /\ Data!RemovedIsPushed
                    /\ In("People") => People!RemovedWereSent
<1>1. RdpsInv /\ [NextAll]_all => RdpsInv'
  <2> SUFFICES ASSUME RdpsInv, [NextAll]_all PROVE RdpsInv'
    OBVIOUS
  <2>1. component' = component
    BY StepOfComponent
  <2>2. In("RdpPages") => IInv'
    BY StepOfComponent, NextIInv DEF RdpsInv
  <2>3. In("Form") => FormInv'
    BY StepOfComponent, FormKeeps DEF RdpsInv
  <2>4. In("Create") => Create!CreateInv'
    BY StepOfComponent, CreateNextInv DEF RdpsInv
  <2>5. In("Data") => DataP!DataInv'
    BY StepOfComponent, DataKeeps DEF RdpsInv
  <2>6. In("People") => PeopleP!PeopleInv'
    BY StepOfComponent, PeopleKeeps DEF RdpsInv
  <2>7. QED
    BY <2>1, <2>2, <2>3, <2>4, <2>5, <2>6 DEF RdpsInv, In
<1>2. RdpsInv => Agree
  <2>1. IInv => RunningIsWanted
    BY DEF IInv
  <2>2. FormInv => Form!AttemptMatches
    BY DEF FormInv
  <2>3. Create!CreateInv => Create!LinkedOnce /\ Create!RemovedIsPushed
    BY DEF Create!CreateInv
  <2>4. QED
    BY <2>1, <2>2, <2>3, DataMeans, PeopleMeans DEF RdpsInv
<1>3. RdpsInv /\ [NextAll]_all => [In("RdpPages") => StuckEndsItsOwn]_all
  BY StepOfComponent, StuckStep DEF RdpsInv
<1>4. QED
  BY <1>1, <1>2, <1>3, InitRdps, PTL DEF SpecAll, RdpsConsistent

-----------------------------------------------------------------------------
(* DedupFindings (v1: the RDPs, v2: their sets in DedupEngine, v3: the        *)
(* callbacks, v4: the photos, v5: what was removed).  What is stored is what  *)
(* the set holds, and the set holds it for good: ResultsHeld and ReadersHold  *)
(* say so from both sides of a read.  A clean RDP follows the one it          *)
(* replaces, because RDPs are numbered and only the last is open.             *)

LEMMA FindingsBounds ==
  /\ FamilyOf \in [Photographed -> Families \cup {NoOne}]
  /\ \A i \in Outsiders : i \in Photographed /\ FamilyOf[i] = NoOne
  /\ NoOne \notin Photographed /\ NoOne \notin Families
  /\ FoundRdps \in Nat \ {0} /\ FoundPairs \in Nat \ {0} /\ PhotoEdits \in Nat
BY BoundsAssumption DEF Findings!FindingsAssumption

\* The next RDP is the first that is not created.
LEMMA NextNumber ==
  ASSUME Findings!Numbered
  PROVE  \E n \in 0..FoundRdps : Findings!Created = 1..n /\ Findings!NextRdp = n + 1
<1>1. PICK n \in 0..FoundRdps : Findings!Created = 1..n
  BY DEF Findings!Numbered
<1>2. n \in Nat
  BY <1>1, FindingsBounds
<1>3. Cardinality(1..n) = n
  BY <1>2, FS_Interval
<1>4. Findings!NextRdp = n + 1
  BY <1>1, <1>3 DEF Findings!NextRdp, Findings!Cardinality, Cardinality
<1>5. QED
  BY <1>1, <1>4

\* A step that creates no RDP, opens none again and keeps what has succeeded.
FindingsRow(r) ==
  /\ v1'[r].sel = v1[r].sel /\ v1'[r].limit = v1[r].limit /\ v1'[r].clean = v1[r].clean
  /\ v1'[r].status = "none" <=> v1[r].status = "none"
  /\ v1[r].status = "none" => v1'[r] = v1[r] /\ v2'[r] = v2[r]
  /\ v1[r].status \in {"SUCCESS", "CANCELLED"} => v1'[r].status \in {"SUCCESS", "CANCELLED"}
  /\ v1[r].op = "SUCCESS" => v1'[r].op = "SUCCESS" /\ v1'[r].findings = v1[r].findings

LEMMA CreatedKept ==
  ASSUME Findings!FindingsInv, v1' \in [Findings!Rdps -> Findings!RdpRow],
         \A r \in Findings!Rdps : FindingsRow(r)
  PROVE  Findings!Created' = Findings!Created /\ Findings!Numbered' /\ Findings!CleanFollows'
<1>1. Findings!Created' = Findings!Created
  BY DEF Findings!Created, FindingsRow
<1>2. Findings!Numbered /\ Findings!CleanFollows /\ v1 \in [Findings!Rdps -> Findings!RdpRow]
  BY DEF Findings!FindingsInv, Findings!TypeOK
<1>3. Findings!Numbered'
  <2>1. \A r \in Findings!Rdps : v1[r].status \in {"none", "PENDING", "REVIEW_PENDING", "PUSH_PENDING", "SUCCESS", "CANCELLED"}
    BY <1>2 DEF Findings!RdpRow
  <2>2. \A r, q \in Findings!Created : r < q => v1[r].status \in {"SUCCESS", "CANCELLED"}
    BY <1>2, <2>1 DEF Findings!Numbered, Findings!Open, Findings!Created
  <2>3. \A r, q \in Findings!Created : r < q => r \notin Findings!Open'
    BY <2>2 DEF FindingsRow, Findings!Open, Findings!Created
  <2>4. \A r \in Findings!Rdps \ Findings!Created : v1'[r] = Findings!NoRdp /\ v2'[r] = Findings!NoSet
    BY <1>2 DEF FindingsRow, Findings!Created, Findings!Numbered
  <2>5. \E n \in 0..FoundRdps : Findings!Created = 1..n
    BY <1>2 DEF Findings!Numbered
  <2>6. QED
    BY <1>1, <2>3, <2>4, <2>5 DEF Findings!Numbered, Findings!Rdps, Findings!NoRdp, Findings!NoSet
<1>4. Findings!CleanFollows'
  <2>1. SUFFICES ASSUME NEW q \in Findings!Created, v1'[q].clean
                 PROVE  /\ q > 1 /\ v1'[q].limit = 0
                        /\ v1'[q - 1].op = "SUCCESS" /\ v1'[q].sel = Findings!CleanSelection(q - 1)'
    BY <1>1 DEF Findings!CleanFollows
  <2>2. /\ q > 1 /\ v1[q].limit = 0 /\ v1[q - 1].op = "SUCCESS"
        /\ v1[q].sel = Findings!CleanSelection(q - 1)
    BY <1>2, <2>1 DEF Findings!CleanFollows, FindingsRow, Findings!Created
  <2>3. q - 1 \in Findings!Rdps /\ q \in Findings!Rdps
    BY <2>2, FindingsBounds DEF Findings!Created, Findings!Rdps
  <2>4. v1'[q - 1].sel = v1[q - 1].sel /\ v1'[q - 1].findings = v1[q - 1].findings
    BY <2>2, <2>3 DEF FindingsRow
  <2>5. Findings!CleanSelection(q - 1)' = Findings!CleanSelection(q - 1)
    BY <2>4 DEF Findings!CleanSelection, Findings!Affected, Findings!Members
  <2>6. QED
    BY <2>2, <2>3, <2>5 DEF FindingsRow
<1>5. QED
  BY <1>1, <1>3, <1>4

\* What a step between creations does to an RDP, its set and the callbacks.
FindingsSet(r) ==
  /\ Findings!IsFiniteSet(v2'[r].findings)
  /\ v2[r].state = "done" => v2'[r].state = "done" /\ v2'[r].findings = v2[r].findings
FindingsResult(r) ==
  IF v1'[r].op # "SUCCESS" THEN v1'[r].findings = {}
  ELSE \/ v1[r].op = "SUCCESS"
       \/ /\ v2[r].state = "done" /\ v1'[r].findings = Findings!Built(v2[r].findings)
          /\ Findings!Parsable(r, v2[r].findings)
          /\ \A f \in v2[r].findings : f.code \notin Findings!SystemErrors
FindingsRead(k) ==
  v3'[k] = Findings!Idle \/ v3'[k] = v3[k] \/
    LET r == v3'[k].rdp IN
    r \in Findings!Created /\ v2[r].state = "done" /\ v3'[k].findings = v2[r].findings

LEMMA FindingsKept ==
  ASSUME Findings!FindingsInv, v1' \in [Findings!Rdps -> Findings!RdpRow],
         v2' \in [Findings!Rdps -> Findings!EngineSet],
         v3' \in [Callbacks -> [rdp : 0..FoundRdps, findings : SUBSET Findings!Finding]],
         v4' \in [Photographed -> 0..PhotoEdits], v5' \subseteq Families,
         \A r \in Findings!Rdps : FindingsRow(r) /\ FindingsSet(r) /\ FindingsResult(r),
         \A k \in Callbacks : FindingsRead(k)
  PROVE  Findings!FindingsInv'
<1>1. Findings!Created' = Findings!Created /\ Findings!Numbered' /\ Findings!CleanFollows'
  BY CreatedKept
<1>2. /\ \A r \in Findings!Rdps : v1[r].op = "SUCCESS" => v2[r].state = "done"
      /\ Findings!ResultsHeld /\ Findings!ReadersHold
  BY DEF Findings!FindingsInv, Findings!TypeOK
<1>3. Findings!TypeOK'
  BY <1>2 DEF Findings!TypeOK, FindingsSet, FindingsResult
<1>4. Findings!ResultsHeld'
  <2>1. SUFFICES ASSUME NEW r \in Findings!Rdps, v1'[r].op = "SUCCESS"
                 PROVE  /\ Findings!Parsable(r, v2[r].findings)'
                        /\ \A f \in v2'[r].findings : f.code \notin Findings!SystemErrors
                        /\ v1'[r].findings = Findings!Built(v2[r].findings)'
    BY DEF Findings!ResultsHeld, FindingsSet, FindingsResult
  <2>2. v2'[r].findings = v2[r].findings /\ v1'[r].sel = v1[r].sel
    BY <1>2, <2>1 DEF FindingsResult, FindingsSet, FindingsRow
  <2>3. /\ Findings!Parsable(r, v2[r].findings)
        /\ \A f \in v2[r].findings : f.code \notin Findings!SystemErrors
        /\ v1'[r].findings = Findings!Built(v2[r].findings)
    BY <1>2, <2>1 DEF FindingsResult, FindingsRow, Findings!ResultsHeld
  <2>4. QED
    BY <2>2, <2>3 DEF Findings!Parsable, Findings!Members, Findings!Built
<1>5. Findings!ReadersHold'
  BY <1>1, <1>2 DEF Findings!ReadersHold, FindingsRead, FindingsSet, Findings!Created, Findings!Idle
<1>6. QED
  BY <1>1, <1>3, <1>4, <1>5 DEF Findings!FindingsInv

\* Results are finite: at most two findings at a time.
LEMMA FewFindings ==
  ASSUME NEW r, NEW F \in Findings!MayFind(r)
  PROVE  Findings!IsFiniteSet(F)
<1>1. ASSUME NEW f, NEW g PROVE IsFiniteSet({f, g})
  <2>1. IsFiniteSet({f})
    BY FS_Singleton
  <2>2. IsFiniteSet({f} \cup {g})
    BY <2>1, FS_AddElement
  <2>3. {f, g} = {f} \cup {g}
    OBVIOUS
  <2>4. QED
    BY <2>2, <2>3
<1>2. (\E f, g : F = {f, g}) \/ F = {}
  <2> DEFINE mine == Findings!Members(v1[r].sel)
  <2> DEFINE good == {Findings!Pair(i, j) : i \in mine, j \in Photographed}
                       \cup {Findings!Pair(j, i) : i \in mine, j \in Photographed \ mine}
                       \cup {Findings!Alone(Findings!Image, i) : i \in mine}
  <2> DEFINE bad == {{Findings!Alone(c, i)} : c \in Findings!Codes \ Findings!Affecting, i \in mine}
  <2>1. Findings!MayFind(r) = {{f, g} : f, g \in good} \cup {{}} \cup bad
    BY DEF Findings!MayFind
  <2> HIDE DEF good
  <2> DEFINE two == {{f, g} : f, g \in good}
  <2>2. CASE F \in two
    BY <2>2
  <2>3. CASE F \in bad
    <3>1. PICK c \in Findings!Codes \ Findings!Affecting, i \in mine : F = {Findings!Alone(c, i)}
      BY <2>3
    <3>2. F = {Findings!Alone(c, i), Findings!Alone(c, i)}
      BY <3>1
    <3>3. QED
      BY <3>2
  <2>4. F \in two \cup {{}} \cup bad
    BY <2>1
  <2> HIDE DEF bad, two
  <2>5. QED
    BY <2>2, <2>3, <2>4
<1>3. IsFiniteSet(F)
  <2>1. CASE F = {}
    BY <2>1, FS_EmptySet
  <2>2. CASE \E f, g : F = {f, g}
    <3>1. PICK f, g : F = {f, g}
      BY <2>2
    <3>2. QED
      BY <1>1, <3>1, Zenon
  <2>3. QED
    BY <1>2, <2>1, <2>2
<1>4. QED
  BY <1>3 DEF Findings!IsFiniteSet, IsFiniteSet

\* ... and well formed, as are those that are stored.
LEMMA FoundType ==
  ASSUME Findings!FindingsInv, NEW r \in Findings!Rdps
  PROVE  /\ \A F \in Findings!MayFind(r) : F \subseteq Findings!Finding
         /\ \A F \in SUBSET Findings!Finding : Findings!Built(F) \subseteq Findings!Finding
<1>1. \A f \in Findings!Finding : \A x : x \in Photographed \cup {NoOne} =>
        [f EXCEPT !.second = x] \in Findings!Finding
  BY DEF Findings!Finding
<1>2. \A F \in SUBSET Findings!Finding : Findings!Built(F) \subseteq Findings!Finding
  BY <1>1 DEF Findings!Built
<1>3. /\ \A i, j \in Photographed : Findings!Pair(i, j) \in Findings!Finding
      /\ \A i \in Photographed : \A c \in Findings!Codes : Findings!Alone(c, i) \in Findings!Finding
  BY DEF Findings!Pair, Findings!Alone, Findings!Finding, Findings!Codes, Findings!Affecting
<1>4. \A F \in Findings!MayFind(r) : F \subseteq Findings!Finding
  <2>1. Findings!Members(v1[r].sel) \subseteq Photographed /\ Findings!Image \in Findings!Codes
    BY DEF Findings!Members, Findings!Codes, Findings!Affecting
  <2>2. QED
    BY <1>3, <2>1 DEF Findings!MayFind
<1>5. QED
  BY <1>2, <1>4

\* What a state of the invariant says of a row and its set.
LEMMA FindingsNow ==
  ASSUME Findings!FindingsInv
  PROVE  /\ v1 \in [Findings!Rdps -> Findings!RdpRow] /\ v2 \in [Findings!Rdps -> Findings!EngineSet]
         /\ v3 \in [Callbacks -> [rdp : 0..FoundRdps, findings : SUBSET Findings!Finding]]
         /\ v4 \in [Photographed -> 0..PhotoEdits] /\ v5 \subseteq Families
         /\ \A r \in Findings!Rdps : /\ v1[r].op = "SUCCESS" => v2[r].state = "done"
                                     /\ v1[r].op # "SUCCESS" => v1[r].findings = {}
                                     /\ Findings!IsFiniteSet(v2[r].findings)
         /\ Findings!Created \subseteq Findings!Rdps
         /\ \A k \in Callbacks : v3[k] # Findings!Idle =>
              /\ v3[k].rdp \in Findings!Created /\ v2[v3[k].rdp].state = "done"
              /\ v3[k].findings = v2[v3[k].rdp].findings
BY DEF Findings!FindingsInv, Findings!TypeOK, Findings!ResultsHeld, Findings!ReadersHold, Findings!Created

\* A status is changed, nothing else.
LEMMA FindingsMoved ==
  ASSUME Findings!FindingsInv, NEW r \in Findings!Created,
         Findings!Evaluate(r) \/ Findings!ReviewPush(r) \/ Findings!Cancel(r) \/ Findings!Pushed(r)
  PROVE  Findings!FindingsInv'
<1>1. /\ v1 \in [Findings!Rdps -> Findings!RdpRow] /\ r \in Findings!Rdps /\ v1[r] \in Findings!RdpRow
      /\ v1[r].status \in {"PENDING", "REVIEW_PENDING", "PUSH_PENDING"}
  BY FindingsNow DEF Findings!Evaluate, Findings!ReviewPush, Findings!Cancel, Findings!Pushed
<1>2. PICK s \in {"REVIEW_PENDING", "PUSH_PENDING", "SUCCESS", "CANCELLED"} :
        v1' = [v1 EXCEPT ![r].status = s]
  <2>1. CASE Findings!Evaluate(r)
    BY <2>1 DEF Findings!Evaluate
  <2>2. CASE Findings!ReviewPush(r)
    BY <2>2 DEF Findings!ReviewPush
  <2>3. CASE Findings!Cancel(r)
    BY <2>3 DEF Findings!Cancel
  <2>4. CASE Findings!Pushed(r)
    BY <2>4 DEF Findings!Pushed
  <2>5. QED
    BY <2>1, <2>2, <2>3, <2>4
<1>3. v2' = v2 /\ v3' = v3 /\ v4' = v4
  BY DEF Findings!Evaluate, Findings!ReviewPush, Findings!Cancel, Findings!Pushed
<1>4. v5' \subseteq Families
  BY <1>1, FindingsNow DEF Findings!RdpRow, Findings!Evaluate, Findings!ReviewPush, Findings!Cancel,
    Findings!Pushed
<1>5. v1' \in [Findings!Rdps -> Findings!RdpRow]
  BY <1>1, <1>2 DEF Findings!RdpRow
<1>6. \A q \in Findings!Rdps :
        /\ v1'[q].op = v1[q].op /\ v1'[q].findings = v1[q].findings /\ v1'[q].sel = v1[q].sel
        /\ v1'[q].limit = v1[q].limit /\ v1'[q].clean = v1[q].clean
        /\ v1'[q].status = IF q = r THEN s ELSE v1[q].status
        /\ q # r => v1'[q] = v1[q]
  BY <1>1, <1>2 DEF Findings!RdpRow
<1>7. \A q \in Findings!Rdps : FindingsRow(q) /\ FindingsSet(q) /\ FindingsResult(q)
  BY <1>1, <1>3, <1>6, FindingsNow DEF FindingsRow, FindingsSet, FindingsResult
<1>8. QED
  BY <1>3, <1>4, <1>5, <1>7, FindingsNow, FindingsKept DEF FindingsRead

\* An operation of a pending RDP begins, or ends without a result.
LEMMA FindingsOperated ==
  ASSUME Findings!FindingsInv, NEW r \in Findings!Rdps, NEW o \in {"RUNNING", "FAILURE"},
         v1[r].op # "SUCCESS", v1[r].status # "none", v1' = [v1 EXCEPT ![r].op = o],
         \A q \in Findings!Rdps : FindingsSet(q), \A q \in Findings!Rdps : q # r => v2'[q] = v2[q]
  PROVE  /\ v1' \in [Findings!Rdps -> Findings!RdpRow]
         /\ \A q \in Findings!Rdps : FindingsRow(q) /\ FindingsSet(q) /\ FindingsResult(q)
<1>1. v1 \in [Findings!Rdps -> Findings!RdpRow] /\ v1[r] \in Findings!RdpRow
  BY FindingsNow
<1>2. v1' \in [Findings!Rdps -> Findings!RdpRow]
  BY <1>1 DEF Findings!RdpRow
<1>3. \A q \in Findings!Rdps :
        /\ v1'[q].status = v1[q].status /\ v1'[q].findings = v1[q].findings /\ v1'[q].sel = v1[q].sel
        /\ v1'[q].limit = v1[q].limit /\ v1'[q].clean = v1[q].clean
        /\ v1'[q].op = IF q = r THEN o ELSE v1[q].op
        /\ q # r => v1'[q] = v1[q]
  BY <1>1 DEF Findings!RdpRow
<1>4. \A q \in Findings!Rdps : FindingsRow(q)
  BY <1>3 DEF FindingsRow
<1>5. \A q \in Findings!Rdps : FindingsResult(q)
  BY <1>3, FindingsNow DEF FindingsResult
<1>6. QED
  BY <1>2, <1>4, <1>5

\* What a photo set holds after an upload.
LEMMA Uploaded ==
  ASSUME Findings!FindingsInv, NEW r \in Findings!Rdps
  PROVE  [i \in Findings!Members(v1[r].sel) |-> v4[i]] \in Findings!PhotoMaps
<1>1. Findings!Members(v1[r].sel) \in SUBSET Photographed
  BY DEF Findings!Members
<1>2. [i \in Findings!Members(v1[r].sel) |-> v4[i]] \in [Findings!Members(v1[r].sel) -> 0..PhotoEdits]
  BY <1>1, FindingsNow
<1>3. QED
  BY <1>1, <1>2 DEF Findings!PhotoMaps

\* A set that is not done is changed.
LEMMA SetChanged ==
  ASSUME Findings!FindingsInv, NEW r \in Findings!Rdps, NEW e \in Findings!EngineSet,
         v2[r].state # "done", Findings!IsFiniteSet(e.findings), v2' = [v2 EXCEPT ![r] = e]
  PROVE  /\ v2' \in [Findings!Rdps -> Findings!EngineSet]
         /\ \A q \in Findings!Rdps : FindingsSet(q) /\ (q # r => v2'[q] = v2[q])
BY FindingsNow DEF FindingsSet

\* An operation of a pending RDP is claimed.
LEMMA FindingsRun ==
  ASSUME Findings!FindingsInv, NEW r \in Findings!Created, Findings!Run(r)
  PROVE  Findings!FindingsInv'
<1>1. /\ r \in Findings!Rdps /\ v2[r] \in Findings!EngineSet
      /\ v1[r].op \in {"PENDING", "FAILURE"} /\ v1[r].status = "PENDING"
      /\ v3' = v3 /\ v4' = v4 /\ v5' = v5 /\ v1' = [v1 EXCEPT ![r].op = "RUNNING"]
  BY FindingsNow DEF Findings!Run
<1> DEFINE uploads == [i \in Findings!Members(v1[r].sel) |-> v4[i]]
<1> DEFINE first == [state |-> "processing", findings |-> {}, photos |-> uploads]
<1> DEFINE again == [v2[r] EXCEPT !.state = "processing"]
<1>2. uploads \in Findings!PhotoMaps
  BY <1>1, Uploaded
<1>3. \/ v2[r].state = "none" /\ v2' = [v2 EXCEPT ![r] = first]
      \/ v2[r].state = "failed" /\ v2' = [v2 EXCEPT ![r] = again]
      \/ v2' = v2
  <2>1. v2 \in [Findings!Rdps -> Findings!EngineSet]
    BY FindingsNow
  <2>2. CASE v2[r].state = "none"
    BY <1>1, <2>2 DEF Findings!Run
  <2>3. CASE v2[r].state = "failed"
    BY <1>1, <2>3 DEF Findings!Run
  <2>4. CASE v2[r].state \notin {"none", "failed"}
    <3>1. v2' = [v2 EXCEPT ![r] = v2[r]]
      BY <1>1, <2>4 DEF Findings!Run
    <3>2. QED
      BY <1>1, <2>1, <3>1
  <2>5. QED
    BY <2>2, <2>3, <2>4
<1> HIDE DEF uploads
<1>4. first \in Findings!EngineSet /\ again \in Findings!EngineSet
      /\ first.findings = {} /\ again.findings = v2[r].findings
  BY <1>1, <1>2 DEF Findings!EngineSet
<1> HIDE DEF first, again
<1>5. Findings!IsFiniteSet({}) /\ Findings!IsFiniteSet(v2[r].findings)
  BY <1>1, FS_EmptySet, FindingsNow DEF Findings!IsFiniteSet, IsFiniteSet
<1>6. /\ v2' \in [Findings!Rdps -> Findings!EngineSet]
      /\ \A q \in Findings!Rdps : FindingsSet(q) /\ (q # r => v2'[q] = v2[q])
  <2>1. CASE v2' = v2
    BY <2>1, FindingsNow DEF FindingsSet
  <2>2. CASE v2[r].state = "none" /\ v2' = [v2 EXCEPT ![r] = first]
    BY <1>1, <1>4, <1>5, <2>2, SetChanged
  <2>3. CASE v2[r].state = "failed" /\ v2' = [v2 EXCEPT ![r] = again]
    BY <1>1, <1>4, <1>5, <2>3, SetChanged
  <2>4. QED
    BY <1>3, <2>1, <2>2, <2>3
<1>7. /\ v1' \in [Findings!Rdps -> Findings!RdpRow]
      /\ \A q \in Findings!Rdps : FindingsRow(q) /\ FindingsSet(q) /\ FindingsResult(q)
  BY <1>1, <1>6, FindingsOperated
<1>8. QED
  BY <1>1, <1>6, <1>7, FindingsNow, FindingsKept DEF FindingsRead

\* ... or fails, with photos in DedupEngine or without.
LEMMA FindingsRunFails ==
  ASSUME Findings!FindingsInv, NEW r \in Findings!Created, NEW uploaded \in BOOLEAN,
         Findings!RunFails(r, uploaded)
  PROVE  Findings!FindingsInv'
<1>1. /\ r \in Findings!Rdps /\ v2[r].state = "none"
      /\ v1[r].op \in {"PENDING", "FAILURE"} /\ v1[r].status = "PENDING"
      /\ v3' = v3 /\ v4' = v4 /\ v5' = v5 /\ v1' = [v1 EXCEPT ![r].op = "FAILURE"]
  BY FindingsNow DEF Findings!RunFails
<1> DEFINE uploads == [i \in Findings!Members(v1[r].sel) |-> v4[i]]
<1> DEFINE failed == [state |-> "failed", findings |-> {}, photos |-> uploads]
<1>2. uploads \in Findings!PhotoMaps
  BY <1>1, Uploaded
<1>3. v2' = v2 \/ v2' = [v2 EXCEPT ![r] = failed]
  BY DEF Findings!RunFails
<1> HIDE DEF uploads
<1>4. failed \in Findings!EngineSet /\ failed.findings = {}
  BY <1>2 DEF Findings!EngineSet
<1> HIDE DEF failed
<1>5. Findings!IsFiniteSet({})
  BY FS_EmptySet DEF Findings!IsFiniteSet, IsFiniteSet
<1>6. /\ v2' \in [Findings!Rdps -> Findings!EngineSet]
      /\ \A q \in Findings!Rdps : FindingsSet(q) /\ (q # r => v2'[q] = v2[q])
  <2>1. CASE v2' = v2
    BY <2>1, FindingsNow DEF FindingsSet
  <2>2. CASE v2' = [v2 EXCEPT ![r] = failed]
    BY <1>1, <1>4, <1>5, <2>2, SetChanged
  <2>3. QED
    BY <1>3, <2>1, <2>2
<1>7. /\ v1' \in [Findings!Rdps -> Findings!RdpRow]
      /\ \A q \in Findings!Rdps : FindingsRow(q) /\ FindingsSet(q) /\ FindingsResult(q)
  BY <1>1, <1>6, FindingsOperated
<1>8. QED
  BY <1>1, <1>6, <1>7, FindingsNow, FindingsKept DEF FindingsRead

\* DedupEngine comes to an end.
LEMMA FindingsEngine ==
  ASSUME Findings!FindingsInv, NEW r \in Findings!Created,
         Findings!EngineFails(r) \/ \E F \in Findings!MayFind(r) : Findings!EngineFinds(r, F)
  PROVE  Findings!FindingsInv'
<1>1. /\ r \in Findings!Rdps /\ v2[r] \in Findings!EngineSet /\ v2[r].state = "processing"
      /\ v1' = v1 /\ v3' = v3 /\ v4' = v4 /\ v5' = v5
  BY FindingsNow DEF Findings!EngineFails, Findings!EngineFinds
<1>2. PICK e \in Findings!EngineSet : Findings!IsFiniteSet(e.findings) /\ v2' = [v2 EXCEPT ![r] = e]
  <2>1. CASE Findings!EngineFails(r)
    <3> DEFINE e == [v2[r] EXCEPT !.state = "failed"]
    <3>1. v2' = [v2 EXCEPT ![r] = e]
      BY <2>1 DEF Findings!EngineFails
    <3>2. e \in Findings!EngineSet /\ e.findings = v2[r].findings
      BY <1>1 DEF Findings!EngineSet
    <3>3. QED
      BY <1>1, <3>1, <3>2, FindingsNow
  <2>2. ASSUME NEW F \in Findings!MayFind(r), Findings!EngineFinds(r, F)
        PROVE  \E e \in Findings!EngineSet : Findings!IsFiniteSet(e.findings) /\ v2' = [v2 EXCEPT ![r] = e]
    <3> DEFINE e == [v2[r] EXCEPT !.state = "done", !.findings = F]
    <3>1. v2' = [v2 EXCEPT ![r] = e]
      BY <1>1, <2>2, FindingsNow DEF Findings!EngineFinds
    <3>2. F \subseteq Findings!Finding
      BY <1>1, FoundType
    <3>3. e \in Findings!EngineSet /\ e.findings = F
      BY <1>1, <3>2 DEF Findings!EngineSet
    <3>4. QED
      BY <3>1, <3>3, FewFindings
  <2>3. QED
    BY <2>1, <2>2
<1>3. /\ v2' \in [Findings!Rdps -> Findings!EngineSet]
      /\ \A q \in Findings!Rdps : FindingsSet(q) /\ (q # r => v2'[q] = v2[q])
  BY <1>1, <1>2, SetChanged
<1>4. v1[r].status # "none"
  BY DEF Findings!Created
<1>5. \A q \in Findings!Rdps : FindingsRow(q) /\ FindingsResult(q)
  BY <1>1, <1>3, <1>4, FindingsNow DEF FindingsRow, FindingsResult
<1>6. QED
  BY <1>1, <1>3, <1>5, FindingsNow, FindingsKept DEF FindingsRead

\* The workspace reads the end of it.
LEMMA FindingsSync ==
  ASSUME Findings!FindingsInv, NEW r \in Findings!Created,
         Findings!SyncFailed(r) \/ \E k \in Callbacks : Findings!SyncRead(k, r)
  PROVE  Findings!FindingsInv'
<1>1. r \in Findings!Rdps /\ v2' = v2 /\ v4' = v4 /\ v5' = v5 /\ v1[r].op = "RUNNING" /\ v1[r].status # "none"
  BY FindingsNow DEF Findings!SyncFailed, Findings!SyncRead, Findings!Created
<1>2. \A q \in Findings!Rdps : FindingsSet(q)
  BY <1>1, FindingsNow DEF FindingsSet
<1>3. CASE Findings!SyncFailed(r)
  <2>1. v1' = [v1 EXCEPT ![r].op = "FAILURE"] /\ v3' = v3
    BY <1>3 DEF Findings!SyncFailed
  <2>2. /\ v1' \in [Findings!Rdps -> Findings!RdpRow]
        /\ \A q \in Findings!Rdps : FindingsRow(q) /\ FindingsSet(q) /\ FindingsResult(q)
    BY <1>1, <1>2, <2>1, FindingsOperated
  <2>3. QED
    BY <1>1, <2>1, <2>2, FindingsNow, FindingsKept DEF FindingsRead
<1>4. ASSUME NEW k \in Callbacks, Findings!SyncRead(k, r) PROVE Findings!FindingsInv'
  <2> DEFINE new == [rdp |-> r, findings |-> v2[r].findings]
  <2>1. v1' = v1 /\ v3' = [v3 EXCEPT ![k] = new] /\ v2[r].state = "done"
    BY <1>4 DEF Findings!SyncRead
  <2>2. new \in [rdp : 0..FoundRdps, findings : SUBSET Findings!Finding]
    <3>1. v2[r].findings \subseteq Findings!Finding
      BY <1>1, FindingsNow DEF Findings!EngineSet
    <3>2. r \in 0..FoundRdps
      BY <1>1, FindingsBounds DEF Findings!Rdps
    <3>3. QED
      BY <3>1, <3>2
  <2>3. new.rdp = r /\ new.findings = v2[r].findings
    OBVIOUS
  <2> HIDE DEF new
  <2>4. v3' \in [Callbacks -> [rdp : 0..FoundRdps, findings : SUBSET Findings!Finding]]
    BY <2>1, <2>2, FindingsNow
  <2>5. \A c \in Callbacks : FindingsRead(c)
    BY <2>1, <2>3, FindingsNow DEF FindingsRead
  <2>6. \A q \in Findings!Rdps : FindingsRow(q) /\ FindingsResult(q)
    BY <1>1, <2>1, FindingsNow DEF FindingsRow, FindingsResult
  <2>7. QED
    BY <1>1, <1>2, <2>1, <2>4, <2>5, <2>6, FindingsNow, FindingsKept
<1>5. QED
  BY <1>3, <1>4

\* ... and stores the result, of the operation that runs.
LEMMA FindingsStored ==
  ASSUME Findings!FindingsInv, NEW k \in Callbacks, NEW counted \in BOOLEAN,
         Findings!SyncFinish(k, counted)
  PROVE  Findings!FindingsInv'
<1> DEFINE r == v3[k].rdp
<1> DEFINE F == v3[k].findings
<1>1. /\ v3[k] # Findings!Idle /\ v2' = v2 /\ v4' = v4 /\ v5' = v5
      /\ v3' = [v3 EXCEPT ![k] = Findings!Idle]
  BY DEF Findings!SyncFinish
<1>2. r \in Findings!Rdps /\ v1[r].status # "none" /\ v2[r].state = "done" /\ F = v2[r].findings
      /\ v1[r] \in Findings!RdpRow /\ F \in SUBSET Findings!Finding
  BY <1>1, FindingsNow DEF Findings!Created, Findings!EngineSet
<1>3. v3' \in [Callbacks -> [rdp : 0..FoundRdps, findings : SUBSET Findings!Finding]]
  <2>1. Findings!Idle \in [rdp : 0..FoundRdps, findings : SUBSET Findings!Finding]
    BY FindingsBounds DEF Findings!Idle
  <2>2. QED
    BY <1>1, <2>1, FindingsNow
<1>4. \A c \in Callbacks : FindingsRead(c)
  BY <1>1, FindingsNow DEF FindingsRead
<1>5. \A q \in Findings!Rdps : FindingsSet(q)
  BY <1>1, FindingsNow DEF FindingsSet
<1>6. CASE v1' = v1
  BY <1>1, <1>3, <1>4, <1>5, <1>6, FindingsNow, FindingsKept DEF FindingsRow, FindingsResult
<1>7. CASE v1[r].op = "RUNNING" /\ v1' = [v1 EXCEPT ![r].op = "FAILURE"]
  <2>1. /\ v1' \in [Findings!Rdps -> Findings!RdpRow]
        /\ \A q \in Findings!Rdps : FindingsRow(q) /\ FindingsSet(q) /\ FindingsResult(q)
    BY <1>1, <1>2, <1>5, <1>7, FindingsOperated
  <2>2. QED
    BY <1>1, <1>3, <1>4, <2>1, FindingsNow, FindingsKept
<1>8. CASE /\ v1[r].op = "RUNNING"
           /\ v1' = [v1 EXCEPT ![r].op = "SUCCESS", ![r].findings = Findings!Built(F)]
           /\ Findings!Parsable(r, F) /\ \A f \in F : f.code \notin Findings!SystemErrors
  <2>1. Findings!Built(F) \in SUBSET Findings!Finding
    BY <1>2, FoundType
  <2> DEFINE row == [v1[r] EXCEPT !.op = "SUCCESS", !.findings = Findings!Built(F)]
  <2>2. v1' = [v1 EXCEPT ![r] = row]
    BY <1>2, <1>8, FindingsNow
  <2>3. /\ row \in Findings!RdpRow /\ row.op = "SUCCESS" /\ row.findings = Findings!Built(F)
        /\ row.status = v1[r].status /\ row.sel = v1[r].sel /\ row.limit = v1[r].limit /\ row.clean = v1[r].clean
    BY <1>2, <2>1 DEF Findings!RdpRow
  <2> HIDE DEF row
  <2>4. v1' \in [Findings!Rdps -> Findings!RdpRow]
    BY <2>2, <2>3, FindingsNow
  <2>5. v1'[r] = row /\ \A q \in Findings!Rdps : q # r => v1'[q] = v1[q]
    BY <1>2, <2>2, FindingsNow
  <2>6. \A q \in Findings!Rdps : FindingsRow(q)
    BY <1>1, <1>2, <1>8, <2>3, <2>5 DEF FindingsRow
  <2>7. \A q \in Findings!Rdps : FindingsResult(q)
    BY <1>1, <1>2, <1>8, <2>3, <2>5, FindingsNow DEF FindingsResult
  <2>8. QED
    BY <1>1, <1>3, <1>4, <1>5, <2>4, <2>6, <2>7, FindingsNow, FindingsKept
<1>9. v1[r].op \in {"none", "PENDING", "RUNNING", "SUCCESS", "FAILURE"}
  BY <1>2 DEF Findings!RdpRow
<1>10. QED
  BY <1>6, <1>7, <1>8 DEF Findings!SyncFinish

\* A photo is changed.
LEMMA FindingsEdited ==
  ASSUME Findings!FindingsInv, NEW i \in Photographed, Findings!EditPhoto(i)
  PROVE  Findings!FindingsInv'
<1>1. v1' = v1 /\ v2' = v2 /\ v3' = v3 /\ v5' = v5
  BY DEF Findings!EditPhoto
<1>2. v4' \in [Photographed -> 0..PhotoEdits]
  BY FindingsNow, FindingsBounds DEF Findings!EditPhoto
<1>3. \A q \in Findings!Rdps : FindingsRow(q) /\ FindingsSet(q) /\ FindingsResult(q)
  BY <1>1, FindingsNow DEF FindingsRow, FindingsSet, FindingsResult
<1>4. QED
  BY <1>1, <1>2, <1>3, FindingsNow, FindingsKept DEF FindingsRead

\* A new RDP.
LEMMA NewRow ==
  ASSUME NEW H \in SUBSET Families, NEW l \in 0..FoundPairs, NEW c \in BOOLEAN
  PROVE  LET e == Findings!NewRdp(H, l, c) IN
         /\ e \in Findings!RdpRow /\ e.status = "PENDING" /\ e.sel = H /\ e.op = "PENDING"
         /\ e.limit = l /\ e.findings = {} /\ e.clean = c
<1>1. Findings!NoRdp \in Findings!RdpRow /\ Findings!NoRdp.findings = {}
  BY FindingsBounds DEF Findings!NoRdp, Findings!RdpRow
<1>2. QED
  BY <1>1 DEF Findings!NewRdp, Findings!RdpRow

LEMMA FindingsAdded ==
  ASSUME Findings!FindingsInv, NEW n \in 0..FoundRdps, Findings!Created = 1..n, n + 1 \in Findings!Rdps,
         NEW H \in SUBSET Families, NEW l \in 0..FoundPairs, NEW c \in BOOLEAN,
         v1' \in [Findings!Rdps -> Findings!RdpRow],
         v1'[n + 1] = Findings!NewRdp(H, l, c),
         \A q \in Findings!Rdps : q # n + 1 =>
           /\ FindingsRow(q) /\ v1'[q].op = v1[q].op /\ v1'[q].findings = v1[q].findings,
         \A q \in 1..n : v1'[q].status \in {"SUCCESS", "CANCELLED"},
         c => n \in Findings!Rdps /\ l = 0 /\ v1[n].op = "SUCCESS" /\ H = Findings!CleanSelection(n),
         UNCHANGED <<v2, v3, v4, v5>>
  PROVE  Findings!FindingsInv'
<1>1. n \in Nat /\ FoundRdps \in Nat /\ 1..n \subseteq Findings!Rdps
  BY FindingsBounds DEF Findings!Rdps
<1>2. /\ v1'[n + 1].status = "PENDING" /\ v1'[n + 1].sel = H /\ v1'[n + 1].op = "PENDING"
      /\ v1'[n + 1].limit = l /\ v1'[n + 1].findings = {} /\ v1'[n + 1].clean = c
  BY NewRow
<1>3. Findings!Created' = 1..(n + 1)
  <2>1. \A q \in Findings!Rdps : q # n + 1 => (v1'[q].status # "none" <=> q \in 1..n)
    BY DEF FindingsRow, Findings!Created
  <2>2. \A q \in Findings!Rdps : q \in Findings!Created' <=> q \in 1..n \/ q = n + 1
    BY <1>1, <1>2, <2>1 DEF Findings!Created
  <2>3. Findings!Created' \subseteq Findings!Rdps /\ 1..(n + 1) \subseteq Findings!Rdps
    BY <1>1, FindingsBounds DEF Findings!Created, Findings!Rdps
  <2>4. \A q \in Nat : q \in 1..(n + 1) <=> q \in 1..n \/ q = n + 1
    BY <1>1
  <2>5. Findings!Rdps \subseteq Nat
    BY FindingsBounds DEF Findings!Rdps
  <2>6. QED
    BY <2>2, <2>3, <2>4, <2>5
<1>4. Findings!Numbered'
  <2>1. n + 1 \in 0..FoundRdps
    BY <1>1, FindingsBounds DEF Findings!Rdps
  <2>2. \A q \in Findings!Rdps \ 1..(n + 1) : v1'[q] = Findings!NoRdp /\ v2'[q] = Findings!NoSet
    <3>1. SUFFICES ASSUME NEW q \in Findings!Rdps \ 1..(n + 1)
                   PROVE  v1'[q] = Findings!NoRdp /\ v2'[q] = Findings!NoSet
      OBVIOUS
    <3>2. q # n + 1 /\ q \notin 1..n
      BY <1>1, FindingsBounds DEF Findings!Rdps
    <3>3. v1[q] = Findings!NoRdp /\ v2[q] = Findings!NoSet
      BY <3>2 DEF Findings!FindingsInv, Findings!Numbered
    <3>4. v1'[q] = v1[q]
      BY <3>2, <3>3 DEF FindingsRow, Findings!NoRdp
    <3>5. QED
      BY <3>3, <3>4
  <2>3. \A q, p \in 1..(n + 1) : q < p => q \notin Findings!Open'
    <3>1. \A q, p \in 1..(n + 1) : q < p => q \in 1..n
      BY <1>1
    <3>2. QED
      BY <3>1 DEF Findings!Open
  <2>4. QED
    BY <1>3, <2>1, <2>2, <2>3 DEF Findings!Numbered, Findings!Rdps, Findings!NoRdp, Findings!NoSet
<1>5. Findings!CleanFollows'
  <2>1. \A q \in 1..n : q # n + 1 /\ q \in Findings!Rdps
    BY <1>1
  <2>2. \A q \in 1..n : Findings!CleanSelection(q)' = Findings!CleanSelection(q)
    BY <2>1 DEF FindingsRow, Findings!CleanSelection, Findings!Affected, Findings!Members
  <2>3. SUFFICES ASSUME NEW q \in 1..(n + 1), v1'[q].clean
                 PROVE  /\ q > 1 /\ v1'[q].limit = 0
                        /\ v1'[q - 1].op = "SUCCESS" /\ v1'[q].sel = Findings!CleanSelection(q - 1)'
    BY <1>3 DEF Findings!CleanFollows
  <2>4. CASE q = n + 1
    <3>1. n \in 1..n /\ q > 1 /\ q - 1 = n
      BY <1>1, <1>2, <2>3, <2>4 DEF Findings!Rdps
    <3>2. QED
      BY <1>2, <2>1, <2>2, <2>3, <2>4, <3>1
  <2>5. CASE q # n + 1
    <3>1. q \in 1..n
      BY <1>1, <2>5
    <3>2. q > 1 /\ v1[q].limit = 0 /\ v1[q - 1].op = "SUCCESS" /\ v1[q].sel = Findings!CleanSelection(q - 1)
      BY <2>1, <2>3, <3>1 DEF FindingsRow, Findings!FindingsInv, Findings!CleanFollows
    <3>3. q - 1 \in 1..n
      BY <1>1, <3>1, <3>2
    <3>4. QED
      BY <2>1, <2>2, <3>1, <3>2, <3>3 DEF FindingsRow
  <2>6. QED
    BY <2>4, <2>5
<1>6. v2[n + 1].state = "none" /\ v2[n + 1].findings = {}
  BY <1>1 DEF Findings!FindingsInv, Findings!Numbered, Findings!NoSet
<1>7. Findings!TypeOK'
  BY <1>2, FindingsNow DEF Findings!TypeOK
<1>8. Findings!ResultsHeld'
  <2>1. \A q \in Findings!Rdps : v1'[q].op = "SUCCESS" =>
          /\ q # n + 1 /\ v1[q].op = "SUCCESS" /\ v1'[q].sel = v1[q].sel /\ v1'[q].findings = v1[q].findings
    BY <1>2 DEF FindingsRow
  <2>2. \A q \in Findings!Rdps : v1'[q].op # "SUCCESS" => v1'[q].findings = {}
    BY <1>2, FindingsNow
  <2>3. QED
    BY <2>1, <2>2 DEF Findings!FindingsInv, Findings!ResultsHeld, Findings!Parsable, Findings!Members, Findings!Built
<1>9. Findings!ReadersHold'
  <2>1. 1..n \subseteq 1..(n + 1)
    BY <1>1
  <2>2. QED
    BY <1>3, <2>1 DEF Findings!FindingsInv, Findings!ReadersHold
<1>10. QED
  BY <1>4, <1>5, <1>7, <1>8, <1>9 DEF Findings!FindingsInv

\* An RDP of a user is created when none is open.
LEMMA FindingsCreated ==
  ASSUME Findings!FindingsInv, NEW H \in SUBSET Families, NEW limit \in {0, 1},
         Findings!CreateRdp(H, limit)
  PROVE  Findings!FindingsInv'
<1>1. PICK n \in 0..FoundRdps : Findings!Created = 1..n /\ Findings!NextRdp = n + 1
  BY NextNumber DEF Findings!FindingsInv
<1> DEFINE e == Findings!NewRdp(H, limit, FALSE)
<1>2. /\ n + 1 \in Findings!Rdps /\ Findings!Open = {} /\ v1' = [v1 EXCEPT ![n + 1] = e]
      /\ UNCHANGED <<v2, v3, v4, v5>>
  BY <1>1 DEF Findings!CreateRdp
<1>3. limit \in 0..FoundPairs
  BY FindingsBounds
<1>4. e \in Findings!RdpRow
  BY <1>3, NewRow
<1> HIDE DEF e
<1>5. v1' \in [Findings!Rdps -> Findings!RdpRow] /\ v1'[n + 1] = e
      /\ \A q \in Findings!Rdps : q # n + 1 => v1'[q] = v1[q]
  BY <1>2, <1>4, FindingsNow
<1>6. \A q \in Findings!Rdps : q # n + 1 => FindingsRow(q)
  BY <1>2, <1>5 DEF FindingsRow
<1>7. \A q \in 1..n : v1'[q].status \in {"SUCCESS", "CANCELLED"}
  <2>1. \A q \in 1..n : q \in Findings!Rdps /\ q # n + 1 /\ v1[q].status # "none"
    BY <1>1, FindingsBounds DEF Findings!Created
  <2>2. \A q \in Findings!Rdps : v1[q].status \in {"none", "PENDING", "REVIEW_PENDING", "PUSH_PENDING", "SUCCESS", "CANCELLED"}
    BY FindingsNow DEF Findings!RdpRow
  <2>3. QED
    BY <1>2, <1>5, <2>1, <2>2 DEF Findings!Open
<1>8. QED
  BY <1>1, <1>2, <1>3, <1>5, <1>6, <1>7, FindingsAdded DEF e

\* A clean RDP replaces the one that is open, which is the last.
LEMMA FindingsCleaned ==
  ASSUME Findings!FindingsInv, NEW r \in Findings!Created, Findings!CreateClean(r)
  PROVE  Findings!FindingsInv'
<1>1. PICK n \in 0..FoundRdps : Findings!Created = 1..n /\ Findings!NextRdp = n + 1
  BY NextNumber DEF Findings!FindingsInv
<1> DEFINE H == Findings!CleanSelection(r)
<1> DEFINE e == Findings!NewRdp(H, 0, TRUE)
<1>2. /\ n + 1 \in Findings!Rdps /\ v1[r].status = "REVIEW_PENDING" /\ v1[r].op = "SUCCESS"
      /\ v1' = [v1 EXCEPT ![r].status = "CANCELLED", ![n + 1] = e]
      /\ UNCHANGED <<v2, v3, v4, v5>>
  BY <1>1 DEF Findings!CreateClean
<1>3. r \in Findings!Rdps /\ v1[r] \in Findings!RdpRow /\ n \in Nat /\ r \in 1..n /\ r # n + 1
  BY <1>1, FindingsNow, FindingsBounds
<1>4. r = n /\ \A q \in 1..n : q # n => v1[q].status \in {"SUCCESS", "CANCELLED"}
  <2>1. \A q \in 1..n : q < n => q \notin Findings!Open
    BY <1>1, <1>3 DEF Findings!FindingsInv, Findings!Numbered
  <2>2. \A q \in 1..n : q # n => q < n
    BY <1>3
  <2>3. \A q \in 1..n : q \in Findings!Rdps /\ v1[q].status # "none"
    BY <1>1 DEF Findings!Created
  <2>4. \A q \in Findings!Rdps : v1[q].status \in {"none", "PENDING", "REVIEW_PENDING", "PUSH_PENDING", "SUCCESS", "CANCELLED"}
    BY FindingsNow DEF Findings!RdpRow
  <2>5. QED
    BY <1>2, <1>3, <2>1, <2>2, <2>3, <2>4 DEF Findings!Open
<1>5. H \in SUBSET Families /\ 0 \in 0..FoundPairs
  BY <1>3, FindingsBounds DEF Findings!CleanSelection, Findings!RdpRow
<1>6. e \in Findings!RdpRow
  BY <1>5, NewRow
<1> HIDE DEF e, H
<1> DEFINE old == [v1[r] EXCEPT !.status = "CANCELLED"]
<1>7. /\ old \in Findings!RdpRow /\ old.status = "CANCELLED" /\ old.op = v1[r].op /\ old.sel = v1[r].sel
      /\ old.limit = v1[r].limit /\ old.findings = v1[r].findings /\ old.clean = v1[r].clean
  BY <1>3 DEF Findings!RdpRow
<1>8. /\ v1' \in [Findings!Rdps -> Findings!RdpRow] /\ v1'[n + 1] = e /\ v1'[r] = old
      /\ \A q \in Findings!Rdps : q \notin {r, n + 1} => v1'[q] = v1[q]
  BY <1>2, <1>3, <1>6, <1>7, FindingsNow
<1> HIDE DEF old
<1>9. \A q \in Findings!Rdps : q # n + 1 =>
        FindingsRow(q) /\ v1'[q].op = v1[q].op /\ v1'[q].findings = v1[q].findings
  BY <1>2, <1>7, <1>8 DEF FindingsRow
<1>10. \A q \in 1..n : v1'[q].status \in {"SUCCESS", "CANCELLED"}
  <2>1. \A q \in 1..n : q \in Findings!Rdps /\ q # n + 1
    BY <1>1, <1>3 DEF Findings!Created
  <2>2. QED
    BY <1>4, <1>7, <1>8, <2>1
<1>11. H = Findings!CleanSelection(n)
  BY <1>4 DEF H
<1>12. QED
  BY <1>1, <1>2, <1>3, <1>4, <1>5, <1>8, <1>9, <1>10, <1>11, FindingsAdded DEF e

LEMMA FindingsGo == Findings!FindingsInv /\ [Findings!Next]_(Findings!vars) => Findings!FindingsInv'
<1> SUFFICES ASSUME Findings!FindingsInv, [Findings!Next]_(Findings!vars) PROVE Findings!FindingsInv'
  OBVIOUS
<1>1. CASE UNCHANGED Findings!vars
  BY <1>1 DEF Findings!vars, Findings!FindingsInv, Findings!TypeOK, Findings!Numbered,
    Findings!ResultsHeld, Findings!ReadersHold, Findings!CleanFollows, Findings!Created,
    Findings!Open, Findings!Parsable, Findings!Members, Findings!CleanSelection, Findings!Affected
<1>2. QED
  BY <1>1, FindingsMoved, FindingsRun, FindingsRunFails, FindingsEngine, FindingsSync,
    FindingsStored, FindingsEdited, FindingsCreated, FindingsCleaned DEF Findings!Next

LEMMA FindingsBegin == Findings!Init => Findings!FindingsInv
<1> SUFFICES ASSUME Findings!Init PROVE Findings!FindingsInv
  OBVIOUS
<1>1. /\ \A r \in Findings!Rdps : v1[r] = Findings!NoRdp /\ v2[r] = Findings!NoSet
      /\ \A k \in Callbacks : v3[k] = Findings!Idle
  BY DEF Findings!Init
<1>2. Findings!NoRdp \in Findings!RdpRow /\ Findings!NoRdp.status = "none" /\ Findings!NoRdp.op = "none"
      /\ Findings!NoRdp.findings = {}
  BY FindingsBounds DEF Findings!NoRdp, Findings!RdpRow
<1>3. Findings!NoSet \in Findings!EngineSet /\ Findings!NoSet.findings = {}
  <2>1. <<>> \in [{} -> 0..PhotoEdits]
    OBVIOUS
  <2>2. {} \in SUBSET Photographed
    OBVIOUS
  <2>3. <<>> \in Findings!PhotoMaps
    BY <2>1, <2>2 DEF Findings!PhotoMaps
  <2>4. QED
    BY <2>3 DEF Findings!NoSet, Findings!EngineSet
<1>4. Findings!Idle \in [rdp : 0..FoundRdps, findings : SUBSET Findings!Finding]
  BY FindingsBounds DEF Findings!Idle
<1>5. Findings!TypeOK
  BY <1>2, <1>3, <1>4, FindingsBounds DEF Findings!TypeOK, Findings!Init
<1>6. Findings!Created = {}
  BY <1>1, <1>2 DEF Findings!Created
<1>7. Findings!Numbered
  <2>1. 0 \in 0..FoundRdps /\ 1..0 = {}
    BY FindingsBounds
  <2>2. QED
    BY <1>1, <1>6, <2>1 DEF Findings!Numbered
<1>8. Findings!IsFiniteSet({})
  BY FS_EmptySet DEF Findings!IsFiniteSet, IsFiniteSet
<1>9. Findings!ResultsHeld
  BY <1>1, <1>2, <1>3, <1>8 DEF Findings!ResultsHeld
<1>10. Findings!ReadersHold /\ Findings!CleanFollows
  BY <1>1, <1>6 DEF Findings!ReadersHold, Findings!CleanFollows
<1>11. QED
  BY <1>5, <1>7, <1>9, <1>10 DEF Findings!FindingsInv

\* What is stored is well formed, of members and of the program.
LEMMA StoredFact ==
  ASSUME Findings!FindingsInv, NEW r \in Findings!Rdps, NEW f \in v1[r].findings
  PROVE  /\ v1[r].op = "SUCCESS" /\ r \in Findings!Created
         /\ f \in Findings!Finding /\ f.code \in Findings!Affecting
         /\ f.first \in Photographed /\ FamilyOf[f.first] \in v1[r].sel
         /\ f.second \in (Photographed \ Outsiders) \cup {NoOne}
         /\ v1[r].sel \subseteq Families
<1>1. v1[r].op = "SUCCESS" /\ v1[r].findings = Findings!Built(v2[r].findings)
      /\ Findings!Parsable(r, v2[r].findings)
      /\ \A g \in v2[r].findings : g.code \notin Findings!SystemErrors
  BY DEF Findings!FindingsInv, Findings!ResultsHeld
<1>2. v1[r] \in Findings!RdpRow /\ v2[r].findings \subseteq Findings!Finding
  BY FindingsNow DEF Findings!EngineSet
<1>3. PICK g \in v2[r].findings :
        f = [g EXCEPT !.second = IF @ \in Photographed \ Outsiders THEN @ ELSE NoOne]
  BY <1>1 DEF Findings!Built
<1>4. g \in Findings!Finding
  BY <1>2, <1>3
<1>5. f.code = g.code /\ f.first = g.first /\ f.second \in (Photographed \ Outsiders) \cup {NoOne}
      /\ f \in Findings!Finding
  BY <1>3, <1>4 DEF Findings!Finding
<1>6. g.code \in Findings!Affecting
  BY <1>1, <1>3, <1>4 DEF Findings!Parsable, Findings!Finding, Findings!Codes
<1>7. g.first \in Photographed /\ FamilyOf[g.first] \in v1[r].sel
  BY <1>1, <1>3 DEF Findings!Parsable, Findings!Members
<1>8. r \in Findings!Created
  <2>1. r \notin Findings!Created => v1[r] = Findings!NoRdp
    BY DEF Findings!FindingsInv, Findings!Numbered
  <2>2. QED
    BY <1>1, <2>1 DEF Findings!NoRdp
<1>9. QED
  BY <1>1, <1>2, <1>5, <1>6, <1>7, <1>8 DEF Findings!RdpRow

LEMMA FindingsOwn == Findings!FindingsInv => Findings!FindingsAreOwn
<1> SUFFICES ASSUME Findings!FindingsInv, NEW r \in Findings!Rdps, NEW f \in v1[r].findings
             PROVE  FamilyOf[f.first] \in v1[r].sel /\ f.code \in Findings!Affecting /\ f.second \notin Outsiders
  BY DEF Findings!FindingsAreOwn
<1>1. f.second \in (Photographed \ Outsiders) \cup {NoOne} /\ NoOne \notin Outsiders
  BY StoredFact, FindingsBounds
<1>2. QED
  BY <1>1, StoredFact

LEMMA FindingsGone == Findings!FindingsInv => Findings!NoPairStays
<1> SUFFICES ASSUME Findings!FindingsInv, NEW q \in Findings!Created, v1[q].clean,
                    NEW f \in v1[q - 1].findings, NEW i \in {f.first, f.second},
                    i \in Findings!Members(v1[q].sel)
             PROVE  FALSE
  BY DEF Findings!NoPairStays
<1>1. q > 1 /\ v1[q].sel = Findings!CleanSelection(q - 1)
  BY DEF Findings!FindingsInv, Findings!CleanFollows
<1>2. q - 1 \in Findings!Rdps
  BY <1>1, FindingsBounds DEF Findings!Created, Findings!Rdps
<1>3. f.code \in Findings!Affecting
  BY <1>2, StoredFact
<1>4. i \in Findings!Affected(q - 1)
  BY <1>1, <1>3 DEF Findings!Members, Findings!CleanSelection, Findings!Affected
<1>5. QED
  BY <1>1, <1>4 DEF Findings!Members, Findings!CleanSelection

\* A link and the pair behind it.
LEMMA LinkFact ==
  ASSUME Findings!FindingsInv, NEW c \in Findings!Contexts, NEW i \in Photographed,
         NEW j \in Findings!Links(c, i)
  PROVE  \E r \in Findings!Successful(c) : \E f \in v1[r].findings :
           /\ f.code = "DUPLICATE" /\ ((f.first = i /\ f.second = j) \/ (f.first = j /\ f.second = i))
           /\ j \in Photographed \ Outsiders
           /\ FamilyOf[f.first] \in v1[r].sel /\ v1[r].sel \subseteq Families
           /\ r \in Findings!Created /\ v1[r].op = "SUCCESS" /\ c \in {0, r}
<1>1. PICK r \in Findings!Successful(c) : \E f \in v1[r].findings :
        f.code = "DUPLICATE" /\ ((f.first = i /\ f.second = j) \/ (f.first = j /\ f.second = i))
  BY DEF Findings!Links
<1>2. PICK f \in v1[r].findings : f.code = "DUPLICATE" /\ ((f.first = i /\ f.second = j) \/ (f.first = j /\ f.second = i))
  BY <1>1
<1>3. j # NoOne
  BY DEF Findings!Links
<1>4. r \in Findings!Rdps /\ r \in Findings!Created /\ v1[r].op = "SUCCESS" /\ c \in {0, r}
  BY DEF Findings!Successful, Findings!Created
<1>5. /\ f.first \in Photographed /\ f.second \in (Photographed \ Outsiders) \cup {NoOne}
      /\ FamilyOf[f.first] \in v1[r].sel /\ v1[r].sel \subseteq Families
  BY <1>4, StoredFact
<1>6. f.first \notin Outsiders
  BY <1>5, FindingsBounds
<1>7. QED
  BY <1>2, <1>3, <1>4, <1>5, <1>6

LEMMA FindingsMirrored == Findings!FindingsInv => Findings!Mirrored
<1> SUFFICES ASSUME Findings!FindingsInv, NEW c \in Findings!Contexts, NEW i \in Findings!Listed(c),
                    NEW j \in Findings!Links(c, i)
             PROVE  /\ i \in Findings!Links(c, j)
                    /\ j \in Findings!Listed(c) =>
                         Findings!HouseAvailable(c, FamilyOf[j]) /\ j \in Findings!Duplicates(c)
  BY DEF Findings!Mirrored
<1>1. i \in Photographed
  BY DEF Findings!Listed, Findings!Members
<1>2. PICK r \in Findings!Successful(c) : \E f \in v1[r].findings :
        /\ f.code = "DUPLICATE" /\ ((f.first = i /\ f.second = j) \/ (f.first = j /\ f.second = i))
        /\ j \in Photographed \ Outsiders /\ v1[r].op = "SUCCESS" /\ c \in {0, r}
  BY <1>1, LinkFact
<1>3. i \in Findings!Links(c, j)
  BY <1>1, <1>2, FindingsBounds DEF Findings!Links
<1>4. j \in Findings!Duplicates(c)
  BY <1>2 DEF Findings!Duplicates
<1>5. j \in Findings!Listed(c) => Findings!HouseAvailable(c, FamilyOf[j])
  BY <1>2, <1>4 DEF Findings!Listed, Findings!HouseAvailable
<1>6. QED
  BY <1>3, <1>4, <1>5

LEMMA FindingsTwice == Findings!FindingsInv => Findings!ShownTwice
<1> SUFFICES ASSUME Findings!FindingsInv, NEW c \in Findings!Contexts, NEW i \in Findings!Listed(c),
                    NEW j \in Findings!Listed(c), j \in Findings!Links(c, i), Findings!Available(c, i)
             PROVE  Findings!Available(c, j)
  BY DEF Findings!ShownTwice
<1>1. i \in Photographed
  BY DEF Findings!Listed, Findings!Members
<1>2. PICK r \in Findings!Successful(c) : \E f \in v1[r].findings :
        /\ f.code = "DUPLICATE" /\ ((f.first = i /\ f.second = j) \/ (f.first = j /\ f.second = i))
        /\ j \in Photographed \ Outsiders /\ v1[r].op = "SUCCESS" /\ c \in {0, r}
  BY <1>1, LinkFact
<1>3. j \in Findings!Duplicates(c)
  BY <1>2 DEF Findings!Duplicates
<1>4. QED
  BY <1>2, <1>3 DEF Findings!Available

LEMMA FindingsOpen == Findings!FindingsInv => Findings!LinksOpen
<1> SUFFICES ASSUME Findings!FindingsInv, NEW c \in Findings!Contexts, NEW i \in Findings!Listed(c),
                    NEW j \in Findings!Links(c, i)
             PROVE  IF FamilyOf[j] \in v5 THEN \A r \in Findings!LinkRdps(i, j) : Findings!Found(r, j)
                    ELSE Findings!Found(0, j)
  BY DEF Findings!LinksOpen
<1>1. i \in Photographed
  BY DEF Findings!Listed, Findings!Members
<1>2. j \in Photographed \ Outsiders
  BY <1>1, LinkFact
<1>3. ASSUME FamilyOf[j] \in v5, NEW r \in Findings!LinkRdps(i, j) PROVE Findings!Found(r, j)
  <2>1. PICK f \in v1[r].findings : f.code = "DUPLICATE" /\ {f.first, f.second} = {i, j}
    BY <1>3 DEF Findings!LinkRdps
  <2>2. r \in Findings!Created /\ v1[r].op = "SUCCESS" /\ r # 0
    BY <1>3, FindingsBounds DEF Findings!LinkRdps, Findings!Successful, Findings!Created, Findings!Rdps
  <2>3. r \in Findings!Successful(r) /\ j \in {f.first, f.second}
    BY <2>1, <2>2 DEF Findings!Successful
  <2>4. j \in Findings!Duplicates(r)
    BY <1>2, <2>1, <2>3 DEF Findings!Duplicates
  <2>5. QED
    BY <1>3, <2>2, <2>4 DEF Findings!Found
<1>4. ASSUME FamilyOf[j] \notin v5 PROVE Findings!Found(0, j)
  BY <1>2, <1>4 DEF Findings!Found, Findings!Listed
<1>5. QED
  BY <1>3, <1>4

\* A result without a finding that counts has none at all.
LEMMA NothingCounts ==
  ASSUME Findings!FindingsInv, NEW r \in Findings!Rdps, v1[r].op = "SUCCESS", v1[r].limit = 0,
         ~Findings!ThresholdExceeded(r)
  PROVE  v2[r].findings = {}
<1> DEFINE C == {f \in v1[r].findings : f.code \in Findings!Affecting}
<1>1. v1[r].findings = Findings!Built(v2[r].findings)
  BY DEF Findings!FindingsInv, Findings!ResultsHeld
<1>2. IsFiniteSet(v2[r].findings)
  BY FindingsNow DEF Findings!IsFiniteSet, IsFiniteSet
<1>3. C = v1[r].findings
  BY StoredFact
<1>4. IsFiniteSet(C)
  <2> DEFINE S == v2[r].findings
             T == v1[r].findings
             convert == [f \in S |-> [f EXCEPT !.second = IF @ \in Photographed \ Outsiders THEN @ ELSE NoOne]]
  <2>1. convert \in Surjection(S, T)
    BY <1>1 DEF Findings!Built, Surjection
  <2>2. QED
    BY <1>2, <1>3, <2>1, FS_Surjection
<1>5. Cardinality(C) = 0
  <2>1. ~(Cardinality(C) > 0)
    BY DEF Findings!ThresholdExceeded, Findings!FindingsCount, Findings!Cardinality, Cardinality
  <2>2. Cardinality(C) \in Nat
    BY <1>4, FS_CardinalityType
  <2>3. QED
    BY <2>1, <2>2
<1>6. v1[r].findings = {}
  BY <1>3, <1>4, <1>5, FS_EmptySet
<1>7. QED
  BY <1>1, <1>6 DEF Findings!Built

\* What was evaluated unseen has nothing in it, ...
LEMMA FindingsSpotless == Findings!FindingsInv /\ [Findings!Next]_(Findings!vars) => Findings!CleanIsSpotless
<1> SUFFICES ASSUME Findings!FindingsInv, [Findings!Next]_(Findings!vars), NEW r \in Findings!Rdps,
                    v1[r].clean, v1[r].status = "PENDING", v1'[r].status = "PUSH_PENDING"
             PROVE  v2[r].findings = {}
  BY DEF Findings!CleanIsSpotless
<1>1. v1 \in [Findings!Rdps -> Findings!RdpRow] /\ \A q \in Findings!Rdps : v1[q] \in Findings!RdpRow
      /\ r \in Findings!Created
  BY FindingsNow DEF Findings!Created
<1>2. Findings!Next
  BY DEF Findings!vars
<1>3. \A H, l, c : Findings!NewRdp(H, l, c).status = "PENDING"
  BY DEF Findings!NewRdp, Findings!NoRdp
<1>4. ~\E H \in SUBSET Families, limit \in {0, 1} : Findings!CreateRdp(H, limit)
  <2>1. SUFFICES ASSUME NEW H \in SUBSET Families, NEW limit \in {0, 1}, Findings!CreateRdp(H, limit)
                 PROVE  v1'[r].status \in {"PENDING", v1[r].status}
    OBVIOUS
  <2>2. PICK n : n \in Findings!Rdps /\ v1' = [v1 EXCEPT ![n] = Findings!NewRdp(H, limit, FALSE)]
    BY <2>1 DEF Findings!CreateRdp
  <2>3. QED
    BY <1>1, <1>3, <2>2
<1>5. ~\E k \in Callbacks, counted \in BOOLEAN : Findings!SyncFinish(k, counted)
  <2>1. SUFFICES ASSUME NEW k \in Callbacks, NEW counted \in BOOLEAN, Findings!SyncFinish(k, counted)
                 PROVE  v1'[r].status = v1[r].status
    OBVIOUS
  <2>2. \A q \in Findings!Rdps : \A o, B :
          /\ [v1 EXCEPT ![q].op = o][r].status = v1[r].status
          /\ [v1 EXCEPT ![q].op = o, ![q].findings = B][r].status = v1[r].status
    BY <1>1 DEF Findings!RdpRow
  <2>3. v3[k].rdp \in Findings!Rdps
    BY <2>1, FindingsNow DEF Findings!SyncFinish
  <2>4. QED
    BY <2>1, <2>2, <2>3 DEF Findings!SyncFinish
<1>6. ~\E i \in Photographed : Findings!EditPhoto(i)
  BY DEF Findings!EditPhoto
<1>7. PICK q \in Findings!Created :
        \/ Findings!Run(q) \/ Findings!EngineFails(q) \/ Findings!SyncFailed(q)
        \/ \E uploaded \in BOOLEAN : Findings!RunFails(q, uploaded)
        \/ \E F \in Findings!MayFind(q) : Findings!EngineFinds(q, F)
        \/ \E k \in Callbacks : Findings!SyncRead(k, q)
        \/ Findings!Evaluate(q) \/ Findings!ReviewPush(q) \/ Findings!Cancel(q)
        \/ Findings!CreateClean(q) \/ Findings!Pushed(q)
  BY <1>2, <1>4, <1>5, <1>6 DEF Findings!Next
<1>8. q \in Findings!Rdps
  BY FindingsNow
<1>9. ~Findings!Run(q) /\ ~Findings!EngineFails(q) /\ ~Findings!SyncFailed(q)
  BY <1>1, <1>8 DEF Findings!Run, Findings!EngineFails, Findings!SyncFailed, Findings!RdpRow
<1>10. /\ ~\E uploaded \in BOOLEAN : Findings!RunFails(q, uploaded)
       /\ ~\E F \in Findings!MayFind(q) : Findings!EngineFinds(q, F)
       /\ ~\E k \in Callbacks : Findings!SyncRead(k, q)
  BY <1>1, <1>8 DEF Findings!RunFails, Findings!EngineFinds, Findings!SyncRead, Findings!RdpRow
<1>11. ~Findings!ReviewPush(q) /\ ~Findings!Cancel(q) /\ ~Findings!Pushed(q)
  BY <1>1, <1>8 DEF Findings!ReviewPush, Findings!Cancel, Findings!Pushed, Findings!RdpRow
<1>12. ~Findings!CreateClean(q)
  <2>1. SUFFICES ASSUME Findings!CreateClean(q) PROVE FALSE
    OBVIOUS
  <2>2. PICK n \in 0..FoundRdps : Findings!Created = 1..n /\ Findings!NextRdp = n + 1
    BY NextNumber DEF Findings!FindingsInv
  <2>3. q # n + 1
    BY <2>2
  <2>4. /\ v1' = [v1 EXCEPT ![q].status = "CANCELLED", ![n + 1] = Findings!NewRdp(Findings!CleanSelection(q), 0, TRUE)]
        /\ n + 1 \in Findings!Rdps
    BY <2>1, <2>2 DEF Findings!CreateClean
  <2>5. v1'[r].status \in {"CANCELLED", "PENDING", v1[r].status}
    BY <1>1, <1>3, <1>8, <2>3, <2>4 DEF Findings!RdpRow
  <2>6. QED
    BY <2>5
<1>13. Findings!Evaluate(q)
  BY <1>7, <1>9, <1>10, <1>11, <1>12
<1>14. r = q
  BY <1>1, <1>8, <1>13 DEF Findings!Evaluate, Findings!RdpRow
<1>15. v1[r].op = "SUCCESS" /\ ~Findings!ThresholdExceeded(r)
  BY <1>1, <1>13, <1>14 DEF Findings!Evaluate, Findings!RdpRow
<1>16. v1[r].limit = 0
  BY <1>1 DEF Findings!FindingsInv, Findings!CleanFollows
<1>17. QED
  BY <1>15, <1>16, NothingCounts

\* ... and what was decided stays, with the photos it was found in.
LEMMA FindingsStand == Findings!FindingsInv /\ [Findings!Next]_(Findings!vars) => Findings!ResultStands
<1> SUFFICES ASSUME Findings!FindingsInv, [Findings!Next]_(Findings!vars), NEW r \in Findings!Rdps
             PROVE  /\ v1[r].op = "SUCCESS" => v1'[r].op = "SUCCESS" /\ v1'[r].findings = v1[r].findings
                    /\ v2[r].state # "none" => v2'[r].photos = v2[r].photos
  BY DEF Findings!ResultStands
<1>1. v1 \in [Findings!Rdps -> Findings!RdpRow] /\ v2 \in [Findings!Rdps -> Findings!EngineSet]
      /\ \A q \in Findings!Rdps : v1[q] \in Findings!RdpRow /\ v2[q] \in Findings!EngineSet
  BY FindingsNow
<1>2. v2[r].state # "none" => v2'[r].photos = v2[r].photos
  <2>1. \A q \in Findings!Rdps : \A s, F :
          /\ [v2 EXCEPT ![q].state = s][r].photos = v2[r].photos
          /\ [v2 EXCEPT ![q].state = s, ![q].findings = F][r].photos = v2[r].photos
          /\ [v2 EXCEPT ![q] = [@ EXCEPT !.state = s]][r].photos = v2[r].photos
    BY <1>1 DEF Findings!EngineSet
  <2>2. ASSUME NEW q \in Findings!Created, Findings!Run(q), v2[r].state # "none"
        PROVE  v2'[r].photos = v2[r].photos
    <3>1. q \in Findings!Rdps
      BY FindingsNow
    <3>2. CASE v2[q].state = "none"
      <4>1. q # r
        BY <2>2, <3>2
      <4>2. v2'[r] = v2[r]
        BY <1>1, <2>2, <3>1, <4>1 DEF Findings!Run
      <4>3. QED
        BY <4>2
    <3>3. CASE v2[q].state = "failed"
      <4>1. v2' = [v2 EXCEPT ![q] = [@ EXCEPT !.state = "processing"]]
        BY <1>1, <2>2, <3>1, <3>3 DEF Findings!Run
      <4>2. QED
        BY <1>1, <3>1, <4>1 DEF Findings!EngineSet
    <3>4. CASE v2[q].state \notin {"none", "failed"}
      <4>1. v2' = [v2 EXCEPT ![q] = @]
        BY <2>2, <3>4 DEF Findings!Run
      <4>2. QED
        BY <1>1, <4>1
    <3>5. QED
      BY <3>2, <3>3, <3>4
  <2>3. ASSUME NEW q \in Findings!Created, NEW uploaded \in BOOLEAN, Findings!RunFails(q, uploaded),
               v2[r].state # "none"
        PROVE  v2'[r].photos = v2[r].photos
    <3>1. v2[q].state = "none" /\ q # r
      BY <2>3 DEF Findings!RunFails
    <3>2. v2'[r] = v2[r]
      BY <1>1, <2>3, <3>1 DEF Findings!RunFails
    <3>3. QED
      BY <3>2
  <2>4. ASSUME NEW q \in Findings!Created,
               Findings!EngineFails(q) \/ \E F \in Findings!MayFind(q) : Findings!EngineFinds(q, F)
        PROVE  v2'[r].photos = v2[r].photos
    <3>1. q \in Findings!Rdps
      BY FindingsNow
    <3>2. CASE Findings!EngineFails(q)
      BY <2>1, <3>1, <3>2 DEF Findings!EngineFails
    <3>3. ASSUME NEW F, Findings!EngineFinds(q, F) PROVE v2'[r].photos = v2[r].photos
      <4>1. v2' = [v2 EXCEPT ![q].state = "done", ![q].findings = F]
        BY <3>3 DEF Findings!EngineFinds
      <4>2. QED
        BY <1>1, <3>1, <4>1 DEF Findings!EngineSet
    <3>4. QED
      BY <2>4, <3>2, <3>3
  <2>5. ASSUME UNCHANGED v2 PROVE v2'[r].photos = v2[r].photos
    BY <2>5
  <2>6. QED
    BY <2>2, <2>3, <2>4, <2>5 DEF Findings!Next, Findings!vars, Findings!CreateRdp, Findings!SyncFailed,
      Findings!SyncRead, Findings!SyncFinish, Findings!Evaluate, Findings!ReviewPush, Findings!Cancel,
      Findings!CreateClean, Findings!Pushed, Findings!EditPhoto
<1>3. v1[r].op = "SUCCESS" => v1'[r].op = "SUCCESS" /\ v1'[r].findings = v1[r].findings
  <2> SUFFICES ASSUME v1[r].op = "SUCCESS"
               PROVE  v1'[r].op = "SUCCESS" /\ v1'[r].findings = v1[r].findings
    OBVIOUS
  <2>1. r \in Findings!Created
    <3>1. r \notin Findings!Created => v1[r] = Findings!NoRdp
      BY DEF Findings!FindingsInv, Findings!Numbered
    <3>2. QED
      BY <3>1 DEF Findings!NoRdp
  <2>2. PICK n \in 0..FoundRdps : Findings!Created = 1..n /\ Findings!NextRdp = n + 1
    BY NextNumber DEF Findings!FindingsInv
  <2>3. r # n + 1
    BY <2>1, <2>2
  <2>4. \A q \in Findings!Rdps : \A s :
          /\ [v1 EXCEPT ![q].status = s][r].op = v1[r].op
          /\ [v1 EXCEPT ![q].status = s][r].findings = v1[r].findings
          /\ q # r => [v1 EXCEPT ![q].op = s][r] = v1[r]
          /\ q # r => \A B : [v1 EXCEPT ![q].op = s, ![q].findings = B][r] = v1[r]
    BY <1>1 DEF Findings!RdpRow
  <2>5. ASSUME NEW q \in Findings!Created,
               Findings!Run(q) \/ Findings!SyncFailed(q) \/ \E uploaded \in BOOLEAN : Findings!RunFails(q, uploaded)
        PROVE  v1'[r].op = "SUCCESS" /\ v1'[r].findings = v1[r].findings
    <3>1. q \in Findings!Rdps /\ q # r
      BY <2>5, FindingsNow DEF Findings!Run, Findings!SyncFailed, Findings!RunFails
    <3>2. QED
      BY <1>1, <2>5, <3>1 DEF Findings!Run, Findings!SyncFailed, Findings!RunFails
  <2>6. ASSUME NEW q \in Findings!Created,
               Findings!Evaluate(q) \/ Findings!ReviewPush(q) \/ Findings!Cancel(q) \/ Findings!Pushed(q)
        PROVE  v1'[r].op = "SUCCESS" /\ v1'[r].findings = v1[r].findings
    <3>1. q \in Findings!Rdps
      BY FindingsNow
    <3>2. PICK s : v1' = [v1 EXCEPT ![q].status = s]
      BY <2>6, Zenon DEF Findings!Evaluate, Findings!ReviewPush, Findings!Cancel, Findings!Pushed
    <3>3. QED
      BY <2>4, <3>1, <3>2
  <2>7. ASSUME NEW q \in Findings!Created, Findings!CreateClean(q)
        PROVE  v1'[r].op = "SUCCESS" /\ v1'[r].findings = v1[r].findings
    <3>1. q \in Findings!Rdps /\ q # n + 1
      BY <2>2, FindingsNow
    <3>2. \A e : [v1 EXCEPT ![q].status = "CANCELLED", ![n + 1] = e][r].op = v1[r].op
                 /\ [v1 EXCEPT ![q].status = "CANCELLED", ![n + 1] = e][r].findings = v1[r].findings
      BY <1>1, <2>3, <3>1 DEF Findings!RdpRow
    <3>3. QED
      BY <2>2, <2>7, <3>2 DEF Findings!CreateClean
  <2>8. ASSUME NEW H \in SUBSET Families, NEW limit \in {0, 1}, Findings!CreateRdp(H, limit)
        PROVE  v1'[r].op = "SUCCESS" /\ v1'[r].findings = v1[r].findings
    BY <1>1, <2>2, <2>3, <2>8 DEF Findings!CreateRdp
  <2>9. ASSUME NEW k \in Callbacks, NEW counted \in BOOLEAN, Findings!SyncFinish(k, counted)
        PROVE  v1'[r].op = "SUCCESS" /\ v1'[r].findings = v1[r].findings
    <3>1. v3[k].rdp \in Findings!Rdps
      BY <2>9, FindingsNow DEF Findings!SyncFinish
    <3>2. QED
      BY <2>4, <2>9, <3>1 DEF Findings!SyncFinish
  <2>10. ASSUME UNCHANGED v1 PROVE v1'[r].op = "SUCCESS" /\ v1'[r].findings = v1[r].findings
    BY <2>10
  <2>11. QED
    BY <2>5, <2>6, <2>7, <2>8, <2>9, <2>10 DEF Findings!Next, Findings!vars, Findings!EngineFails,
      Findings!EngineFinds, Findings!SyncRead, Findings!EditPhoto
<1>4. QED
  BY <1>2, <1>3

FoundInv == In("Findings") \/ In("Results") => Findings!FindingsInv

(* For any individuals, households and RDPs, any number of callbacks, any     *)
(* findings and edits of photos: findings are of members of the RDP, shown at *)
(* both ends, gone from the clean RDP that replaces it, and decided once.     *)
THEOREM FindingsStayTrue == SpecAll => FindingsAreTrue
<1> DEFINE Agree == In("Findings") => /\ Findings!FindingsAreOwn /\ Findings!NoPairStays
                                      /\ Findings!Mirrored /\ Findings!ShownTwice /\ Findings!LinksOpen
<1>1. InitAll => FoundInv
  BY FindingsBegin DEF InitAll, FoundInv, In, RdpPagesInit, FormInit, CreateInit, DataInit, PeopleInit,
    FindingsInit, ResultsInit, LocksInit
<1>2. FoundInv /\ [NextAll]_all => FoundInv'
  BY StepOfComponent, FindingsGo DEF FoundInv, In
<1>3. FoundInv => Agree
  BY FindingsOwn, FindingsGone, FindingsMirrored, FindingsTwice, FindingsOpen DEF FoundInv
<1>4. FoundInv /\ [NextAll]_all =>
        [/\ In("Findings") => Findings!CleanIsSpotless
         /\ In("Results") => Findings!ResultStands]_all
  BY StepOfComponent, FindingsSpotless, FindingsStand DEF FoundInv
<1>5. QED
  BY <1>1, <1>2, <1>3, <1>4, PTL DEF SpecAll, FindingsAreTrue

-----------------------------------------------------------------------------
(* The types of all.                                                         *)

\* Without forms an RDP is only successful with its RDI, and there are no RDIs of attempts to come.
LEMMA PagesTyped ==
  ASSUME ~Forms, IInv, TypeOK, [Next]_vars
  PROVE  TypeOK'
<1>1. /\ IInv' /\ attempt \in 0..used /\ used \in 0..MaxAttempts /\ MaxAttempts \in Nat /\ hope \subseteq 1..used
      /\ ((status = "PUSH_PENDING") <=> (attempt # None)) /\ ((status' = "PUSH_PENDING") <=> (attempt' # None))
  BY NextIInv, PagesAssumed DEF TypeOK, PagesAssumption, IInv, AnyInv, AttemptMatches, Consistent
<1>2. status' \in Statuses /\ used' \in 0..MaxAttempts
  BY <1>1 DEF IInv, RowType, Attempts
<1> DEFINE Numbered == attempt' \in 0..used' /\ hope' \subseteq 1..used'
           Worked == op' \in {"none", "pending", "running", "success", "failure"}
           Done == status' = "SUCCESS" => Linked(rdi')
           Good == Numbered /\ Worked /\ Done
           RowStays == UNCHANGED <<status, rdi, attempt, prepared, used>>
           Starts == Start /\ UNCHANGED <<op, hope>>
           Ends == /\ \/ Cancelled \/ \E r : Finish("FAILURE", r)
                      \/ Linked(rdi) /\ Finish("SUCCESS", rdi)
                   /\ UNCHANGED <<op, hope>>
<1>3. ASSUME RowStays, UNCHANGED <<op, hope>>
      PROVE  Good
  BY <1>1, <1>3 DEF TypeOK
<1>4. ASSUME Starts
      PROVE  Good
  <2>1. used < MaxAttempts /\ attempt' = used + 1 /\ used' = used + 1 /\ op' = op /\ hope' = hope /\ status' = "PUSH_PENDING"
    BY <1>4 DEF Start
  <2>2. Numbered
    <3>1. used + 1 \in 0..(used + 1) /\ 1..used \subseteq 1..(used + 1)
      BY <1>1
    <3>2. QED
      BY <1>1, <2>1, <3>1
  <2>3. Worked /\ Done
    BY <2>1 DEF TypeOK
  <2>4. QED
    BY <2>2, <2>3
<1>5. ASSUME Ends
      PROVE  Good
  BY <1>1, <1>5 DEF TypeOK, Cancelled, Finish, None
<1>6. ASSUME Operate \/ RetryOperation
      PROVE  Good
  BY <1>1, <1>6 DEF Operate, RetryOperation, TypeOK
<1>7. ASSUME Evaluate
      PROVE  Good
  <2>1. CASE Starts
    BY <1>4, <2>1
  <2>2. CASE status' = "REVIEW_PENDING" /\ UNCHANGED <<rdi, attempt, prepared, used, op, hope>>
    BY <1>1, <2>2 DEF TypeOK
  <2>3. QED
    BY <1>7, <2>1, <2>2 DEF Evaluate
<1>8. ASSUME Prepare \/ Link
      PROVE  Good
  <2>1. attempt # None /\ UNCHANGED <<status, attempt, op, used>> /\ hope' \subseteq hope \cup {attempt}
    BY <1>8 DEF Prepare, Link
  <2>2. attempt \in 1..used /\ status' = "PUSH_PENDING"
    BY <1>1, <2>1 DEF None
  <2>3. QED
    BY <1>1, <2>1, <2>2 DEF TypeOK
<1>9. ASSUME End
      PROVE  Good
  <2>1. Ends
    BY <1>9 DEF End
  <2>2. QED
    BY <1>5, <2>1
<1>10. ASSUME RetryPush
       PROVE  Good
  <2>1. Starts
    BY <1>10 DEF RetryPush
  <2>2. QED
    BY <1>4, <2>1
<1>11. ASSUME NEW u \in Users,
              \/ \E k \in Kinds : OpenPage(u, k)
              \/ DeleteManually(u) \/ Confirm(u) \/ Leave(u)
       PROVE  Good
  <2>1. RowStays /\ op' = op /\ hope' \subseteq hope
    BY <1>11 DEF OpenPage, DeleteManually, Confirm, Leave
  <2>2. QED
    BY <1>1, <2>1 DEF TypeOK
<1>12. ASSUME NEW u \in Users, Cancel(u) \/ CreateClean(u) \/ PushReview(u) \/ Reset(u) \/ FailStuck(u)
       PROVE  Good
  <2>1. (RowStays /\ UNCHANGED <<op, hope>>) \/ Starts \/ Ends
    BY <1>12 DEF Cancel, CreateClean, PushReview, Reset, FailStuck
  <2> HIDE DEF Good, RowStays, Starts, Ends
  <2>2. QED
    BY <1>3, <1>4, <1>5, <2>1
<1>13. ASSUME NEW u \in Users, OpenForm(u) \/ SendForm(u) \/ SaveForm(u)
       PROVE  FALSE
  BY <1>13 DEF OpenForm, SendForm, SaveForm, Sent, IInv, NoForms, IsPage, Closed, Kinds
<1>14. ASSUME UNCHANGED vars
       PROVE  Good
  <2>1. RowStays /\ UNCHANGED <<op, hope>>
    BY <1>14 DEF vars
  <2> HIDE DEF Good, RowStays
  <2>2. QED
    BY <1>3, <2>1
<1>15. Good
  <2> HIDE DEF Good
  <2>1. ASSUME Jobs PROVE Good
    BY <1>6, <1>7, <1>8, <1>9, <2>1 DEF Jobs
  <2>2. QED
    BY <1>6, <1>10, <1>11, <1>12, <1>13, <1>14, <2>1 DEF Next
<1>16. QED
  BY <1>2, <1>15 DEF TypeOK, Statuses

\* Whoever creates RDPs, and however many do.
CreateAt == {"free", "selected", "checked", "ran"}
CreateTypes ==
  /\ v1 \in Seq(Create!Rows) /\ Len(v1) <= MaxCreated
  /\ v5 \in [Creators -> [at : CreateAt, pks : SUBSET Beneficiaries]]
  /\ v2 \subseteq Beneficiaries /\ v3 \subseteq Beneficiaries
  /\ v4 \in BOOLEAN /\ v6 \in 0..MaxValidity
  /\ \A j \in Creators : v5[j].at = "checked" => v5[j].pks # {}

LEMMA CreateTyped ==
  ASSUME CreateTypes, [Create!Next]_(Create!vars)
  PROVE  CreateTypes'
<1>1. CASE UNCHANGED Create!vars
  BY <1>1 DEF Create!vars, CreateTypes
<1>2. ASSUME NEW j \in Creators, NEW p \in [at : CreateAt, pks : SUBSET Beneficiaries],
             v5' = [v5 EXCEPT ![j] = p], p.at = "checked" => p.pks # {}
      PROVE  /\ v5' \in [Creators -> [at : CreateAt, pks : SUBSET Beneficiaries]]
             /\ \A k \in Creators : v5'[k].at = "checked" => v5'[k].pks # {}
  <2>1. \A k \in Creators : v5'[k] = IF k = j THEN p ELSE v5[k]
    BY <1>2 DEF CreateTypes
  <2>2. v5' \in [Creators -> [at : CreateAt, pks : SUBSET Beneficiaries]]
    BY <1>2 DEF CreateTypes
  <2>3. QED
    BY <1>2, <2>1, <2>2 DEF CreateTypes
<1>3. ASSUME NEW j \in Creators, NEW a \in CreateAt
      PROVE  /\ [v5[j] EXCEPT !.at = a] \in [at : CreateAt, pks : SUBSET Beneficiaries]
             /\ [v5[j] EXCEPT !.at = a].at = a /\ [v5[j] EXCEPT !.at = a].pks = v5[j].pks
  BY DEF CreateTypes
<1>4. ASSUME NEW j \in Creators, \E pks \in SUBSET (Beneficiaries \ v2) : Create!Select(j, pks)
      PROVE  CreateTypes'
  <2>1. PICK pks \in SUBSET (Beneficiaries \ v2) : Create!Select(j, pks)
    BY <1>4
  <2> DEFINE p == [at |-> "selected", pks |-> pks]
  <2>2. p \in [at : CreateAt, pks : SUBSET Beneficiaries] /\ p.at = "selected"
    BY DEF CreateAt
  <2>3. v5' = [v5 EXCEPT ![j] = p] /\ UNCHANGED <<v1, v2, v3, v4, v6>>
    BY <2>1 DEF Create!Select
  <2> HIDE DEF p
  <2>4. QED
    BY <1>2, <2>2, <2>3 DEF CreateTypes
<1>5. ASSUME NEW j \in Creators, Create!JobPreflight(j) \/ Create!JobEnd(j) \/ Create!JobRestart(j)
      PROVE  CreateTypes'
  <2>1. UNCHANGED <<v1, v2, v3, v4, v6>>
    BY <1>5 DEF Create!JobPreflight, Create!JobEnd, Create!JobRestart
  <2> DEFINE free == [at |-> "free", pks |-> {}]
             checked == [v5[j] EXCEPT !.at = "checked"]
             selected == [v5[j] EXCEPT !.at = "selected"]
  <2>2. /\ free \in [at : CreateAt, pks : SUBSET Beneficiaries] /\ free.at = "free"
        /\ checked \in [at : CreateAt, pks : SUBSET Beneficiaries] /\ checked.pks = v5[j].pks
        /\ selected \in [at : CreateAt, pks : SUBSET Beneficiaries] /\ selected.at = "selected"
    BY <1>3 DEF CreateAt
  <2>3. \/ v5' = [v5 EXCEPT ![j] = free] \/ v5' = [v5 EXCEPT ![j] = selected]
        \/ v5' = [v5 EXCEPT ![j] = checked] /\ v5[j].pks # {}
    BY <1>5 DEF Create!JobPreflight, Create!JobEnd, Create!JobRestart, Create!Preflight
  <2> HIDE DEF free, checked, selected
  <2>4. /\ v5' \in [Creators -> [at : CreateAt, pks : SUBSET Beneficiaries]]
        /\ \A k \in Creators : v5'[k].at = "checked" => v5'[k].pks # {}
    BY <1>2, <2>2, <2>3
  <2>5. QED
    BY <2>1, <2>4 DEF CreateTypes
<1>6. ASSUME NEW j \in Creators, Create!JobCreate(j)
      PROVE  CreateTypes'
  <2>1. /\ UNCHANGED <<v2, v3, v4, v6>> /\ v5[j].at = "checked" /\ Len(v1) < MaxCreated
        /\ v5' = [v5 EXCEPT ![j] = [v5[j] EXCEPT !.at = "ran"]]
    BY <1>6 DEF Create!JobCreate
  <2>2. /\ v5' \in [Creators -> [at : CreateAt, pks : SUBSET Beneficiaries]]
        /\ \A k \in Creators : v5'[k].at = "checked" => v5'[k].pks # {}
    <3> DEFINE ran == [v5[j] EXCEPT !.at = "ran"]
    <3>1. ran \in [at : CreateAt, pks : SUBSET Beneficiaries] /\ ran.at = "ran"
      BY <1>3 DEF CreateAt
    <3>2. v5' = [v5 EXCEPT ![j] = ran]
      BY <2>1
    <3> HIDE DEF ran
    <3>3. QED
      BY <1>2, <3>1, <3>2
  <2>3. v1' \in Seq(Create!Rows) /\ Len(v1') <= MaxCreated
    <3> DEFINE e == [status |-> "PENDING", links |-> v5[j].pks]
    <3>1. e \in Create!Rows
      <4>1. v5[j].pks \in (SUBSET Beneficiaries) \ {{}}
        BY <2>1, NonEmptyFact DEF CreateTypes
      <4>2. QED
        BY <4>1 DEF Create!Rows, Create!Statuses
    <3>2. v1' = v1 \/ v1' = Append(v1, e)
      BY <1>6 DEF Create!JobCreate
    <3> HIDE DEF e
    <3>3. CASE v1' = Append(v1, e)
      <4>1. v1' \in Seq(Create!Rows) /\ Len(v1') = Len(v1) + 1 /\ Len(v1) \in Nat
        BY <3>1, <3>3, Appended DEF CreateTypes
      <4>2. QED
        BY <2>1, <4>1, BoundsAssumption DEF Create!CreateAssumption
    <3>4. QED
      BY <3>2, <3>3 DEF CreateTypes
  <2>4. QED
    BY <2>1, <2>2, <2>3 DEF CreateTypes
<1>7. ASSUME NEW i \in DOMAIN v1, Create!RdpStep(i)
      PROVE  CreateTypes'
  <2>1. UNCHANGED <<v3, v4, v5, v6>>
    BY <1>7 DEF Create!RdpStep, Create!RequireReview, Create!StartPush, Create!FailPush, Create!FinishPush,
      Create!Cancel, Create!Reset, Create!CreateClean
  <2>2. v1[i] \in Create!Rows /\ v1[i].links \subseteq Beneficiaries
    <3>1. v1[i] \in Create!Rows
      BY DEF CreateTypes
    <3>2. QED
      BY <3>1 DEF Create!Rows
  <2>3. v2' \subseteq Beneficiaries
    BY <1>7, <2>2 DEF CreateTypes, Create!RdpStep, Create!RequireReview, Create!StartPush, Create!FailPush,
      Create!FinishPush, Create!Cancel, Create!Reset, Create!CreateClean
  <2>4. v1' \in Seq(Create!Rows) /\ Len(v1') <= MaxCreated
    <3>1. CASE \E s \in Create!Statuses : v1' = [v1 EXCEPT ![i].status = s]
      BY <3>1, Restatus DEF CreateTypes
    <3>2. ASSUME NEW found \in SUBSET v1[i].links, Create!CreateClean(i, found)
          PROVE  v1' \in Seq(Create!Rows) /\ Len(v1') <= MaxCreated
      <4> DEFINE Q == [v1 EXCEPT ![i].status = "CANCELLED"]
                 left == v1[i].links \ found
                 e == [status |-> "PENDING", links |-> left]
      <4>1. v1' = Append(Q, e) /\ left # {} /\ Len(v1) < MaxCreated
        BY <3>2 DEF Create!CreateClean, Create!Preflight
      <4>2. Q \in Seq(Create!Rows) /\ Len(Q) = Len(v1)
        <5>1. "CANCELLED" \in Create!Statuses /\ v1 \in Seq(Create!Rows)
          BY DEF CreateTypes, Create!Statuses
        <5>2. QED
          BY <5>1, Restatus
      <4>3. e \in Create!Rows
        <5>1. left \in (SUBSET Beneficiaries) \ {{}}
          BY <2>2, <4>1, NonEmptyFact
        <5>2. QED
          BY <5>1 DEF Create!Rows, Create!Statuses
      <4> HIDE DEF Q, e
      <4>4. v1' \in Seq(Create!Rows) /\ Len(v1') = Len(Q) + 1 /\ Len(Q) \in Nat
        BY <4>1, <4>2, <4>3, Appended
      <4>5. QED
        BY <4>1, <4>2, <4>4, BoundsAssumption DEF Create!CreateAssumption
    <3>3. QED
      BY <1>7, <3>1, <3>2 DEF Create!RdpStep, Create!RequireReview, Create!StartPush, Create!FailPush,
        Create!FinishPush, Create!Cancel, Create!Reset, Create!Statuses
  <2>5. QED
    BY <2>1, <2>3, <2>4 DEF CreateTypes
<1>8. ASSUME NEW b \in Beneficiaries, Create!Edit(b)
      PROVE  CreateTypes'
  <2>1. v6' \in 0..MaxValidity
    BY <1>8, BoundsAssumption DEF Create!Edit, CreateTypes, Create!CreateAssumption
  <2>2. v3' \subseteq Beneficiaries /\ UNCHANGED <<v1, v2, v4, v5>>
    BY <1>8 DEF Create!Edit, CreateTypes
  <2>3. QED
    BY <2>1, <2>2 DEF CreateTypes
<1>9. CASE Create!BeginCleanup
  BY <1>9 DEF Create!BeginCleanup, CreateTypes
<1>10. QED
  BY <1>1, <1>4, <1>5, <1>6, <1>7, <1>8, <1>9 DEF Create!Next, Create!Ids

LEMMA CreateTypesMeet == CreateTypes => Create!TypeOK
<1> SUFFICES ASSUME CreateTypes PROVE Create!TypeOK
  OBVIOUS
<1>1. \A i \in DOMAIN v1 : v1[i] \in Create!Rows
  BY DEF CreateTypes
<1>2. \A j \in Creators : v5[j].at \in CreateAt /\ v5[j].pks \subseteq Beneficiaries
  BY DEF CreateTypes
<1>3. \A i \in DOMAIN v1 : v1[i].status \in Create!Statuses /\ v1[i].links \in (SUBSET Beneficiaries) \ {{}}
  BY <1>1 DEF Create!Rows
<1>4. QED
  BY <1>2, <1>3 DEF Create!TypeOK, CreateTypes, Create!Ids, CreateAt

\* PushData of households.
DataTypes == DataP!PushInv /\ DataP!RecordTypes

LEMMA DataAssumed == DataP!PushDataAssumption
BY BoundsAssumption DEF Data!PushDataAssumption, DataP!PushDataAssumption, Data!Refs, DataP!Refs,
  Data!RoleFields, DataP!RoleFields

LEMMA DataTyped ==
  ASSUME DataP!DataInv, DataTypes, [Data!Next]_(Data!vars)
  PROVE  DataTypes'
<1>1. DataP!DataInv'
  BY DataKeeps
<1>2. [DataP!Steps]_(DataP!vars)
  BY DEF Data!Next, DataP!Steps, Data!vars, DataP!vars,
    Data!Create, DataP!Create, Data!Retry, DataP!Retry, Data!Fail, DataP!Fail,
    Data!CreateRdi,
    DataP!CreateRdi, Data!ReadIndividuals, DataP!ReadIndividuals, Data!ReadHouseholds,
    DataP!ReadHouseholds, Data!PostIndividuals, DataP!PostIndividuals, Data!PostHouseholds,
    DataP!PostHouseholds, Data!Complete, DataP!Complete, Data!Finish, DataP!Finish, Data!Reset,
    DataP!Reset, Data!Cancel, DataP!Cancel, Data!Edit, DataP!Edit, Data!Preflight,
    DataP!Preflight, Data!Represented, DataP!Represented, Data!Succeeded, DataP!Succeeded,
    Data!ForPush, DataP!ForPush, Data!Members, DataP!Members, Data!CollectorPks,
    DataP!CollectorPks, Data!Answers, DataP!Answers, Data!BatchMaps, DataP!BatchMaps,
    Data!RoleMaps, DataP!RoleMaps, Data!Referred, DataP!Referred, Data!Idle, DataP!Idle,
    Data!Rdp, DataP!Rdp, Data!Rdi, DataP!Rdi, Data!Records, DataP!Records, Data!RoleFields,
    DataP!RoleFields
<1>3. DataP!RecordTypes'
  BY <1>2, DataAssumed, DataP!RecordTypesStep DEF DataTypes
<1>4. DataP!PushInv'
  BY <1>1 DEF DataP!DataInv
<1>5. QED
  BY <1>3, <1>4 DEF DataTypes

LEMMA DataTypesBegin == Data!Init => DataTypes
<1> SUFFICES ASSUME Data!Init PROVE DataTypes
  OBVIOUS
<1>1. DataP!Init
  BY DEF Data!Init, DataP!Init, Data!Idle, DataP!Idle, Data!Records, DataP!Records
<1>2. DataP!RecordTypes
  BY <1>1, DataAssumed, DataP!InitRecordTypes
<1>3. DataP!PushInv
  BY DataBegins DEF DataP!DataInv
<1>4. QED
  BY <1>2, <1>3 DEF DataTypes

LEMMA DataTypesMeet == DataTypes => Data!TypeOK
<1> SUFFICES ASSUME DataTypes PROVE Data!TypeOK
  OBVIOUS
<1>1. DataP!TypeOK
  BY DataP!TypesMeet DEF DataTypes
<1>2. QED
  BY <1>1 DEF DataP!TypeOK, Data!TypeOK, DataP!Rdp, Data!Rdp, DataP!Rdi, Data!Rdi, DataP!Records, Data!Records,
    DataP!Refs, Data!Refs, DataP!RoleFields, Data!RoleFields

\* PushData of people.
PeopleTypes == PeopleP!PushInv /\ PeopleP!RecordTypes

LEMMA PeopleAssumed == PeopleP!PushDataAssumption
BY BoundsAssumption DEF People!PushDataAssumption, PeopleP!PushDataAssumption, People!Refs, PeopleP!Refs,
  People!RoleFields, PeopleP!RoleFields

LEMMA PeopleTyped ==
  ASSUME PeopleP!PeopleInv, PeopleTypes, [People!Next]_(People!vars)
  PROVE  PeopleTypes'
<1>1. PeopleP!PeopleInv'
  BY PeopleKeeps
<1>2. [PeopleP!Steps]_(PeopleP!vars)
  BY DEF People!Next, PeopleP!Steps, People!vars, PeopleP!vars,
    People!Create, PeopleP!Create, People!Retry, PeopleP!Retry, People!Fail, PeopleP!Fail,
    People!CreateRdi, PeopleP!CreateRdi, People!ReadIndividuals, PeopleP!ReadIndividuals,
    People!ReadHouseholds, PeopleP!ReadHouseholds, People!PostIndividuals,
    PeopleP!PostIndividuals, People!PostHouseholds, PeopleP!PostHouseholds, People!Complete,
    PeopleP!Complete, People!Finish, PeopleP!Finish, People!Reset, PeopleP!Reset,
    People!Cancel, PeopleP!Cancel, People!Edit, PeopleP!Edit, People!Preflight,
    PeopleP!Preflight, People!Represented, PeopleP!Represented, People!Succeeded,
    PeopleP!Succeeded, People!ForPush, PeopleP!ForPush, People!Members, PeopleP!Members,
    People!CollectorPks, PeopleP!CollectorPks, People!Answers, PeopleP!Answers,
    People!BatchMaps, PeopleP!BatchMaps, People!RoleMaps, PeopleP!RoleMaps, People!Referred,
    PeopleP!Referred, People!Idle, PeopleP!Idle, People!Rdp, PeopleP!Rdp, People!Rdi,
    PeopleP!Rdi, People!Records, PeopleP!Records, People!RoleFields, PeopleP!RoleFields
<1>3. PeopleP!RecordTypes'
  BY <1>2, PeopleAssumed, PeopleP!RecordTypesStep DEF PeopleTypes
<1>4. PeopleP!PushInv'
  BY <1>1 DEF PeopleP!PeopleInv
<1>5. QED
  BY <1>3, <1>4 DEF PeopleTypes

LEMMA PeopleTypesBegin == People!Init => PeopleTypes
<1> SUFFICES ASSUME People!Init PROVE PeopleTypes
  OBVIOUS
<1>1. PeopleP!Init
  BY DEF People!Init, PeopleP!Init, People!Idle, PeopleP!Idle, People!Records, PeopleP!Records
<1>2. PeopleP!RecordTypes
  BY <1>1, PeopleAssumed, PeopleP!InitRecordTypes
<1>3. PeopleP!PushInv
  BY PeopleBegins DEF PeopleP!PeopleInv
<1>4. QED
  BY <1>2, <1>3 DEF PeopleTypes

LEMMA PeopleTypesMeet == PeopleTypes => People!TypeOK
<1> SUFFICES ASSUME PeopleTypes PROVE People!TypeOK
  OBVIOUS
<1>1. PeopleP!TypeOK
  BY PeopleP!TypesMeet DEF PeopleTypes
<1>2. QED
  BY <1>1 DEF PeopleP!TypeOK, People!TypeOK, PeopleP!Rdp, People!Rdp, PeopleP!Rdi, People!Rdi, PeopleP!Records, People!Records,
    PeopleP!Refs, People!Refs, PeopleP!RoleFields, People!RoleFields

-----------------------------------------------------------------------------
(* All of them.                                                              *)

TypesInv ==
  /\ IInv /\ TypeOK
  /\ In("Create") => CreateTypes
  /\ In("Data") => DataP!DataInv /\ DataTypes
  /\ In("People") => PeopleP!PeopleInv /\ PeopleTypes
  /\ FoundInv
  /\ In("Locks") => LocksInv

LEMMA TypesBegin == InitAll => TypesInv
<1> SUFFICES ASSUME InitAll PROVE TypesInv
  OBVIOUS
<1>1. /\ Init
      /\ In("Create") => Create!Init
      /\ In("Data") => Data!Init
      /\ In("People") => People!Init
      /\ In("Findings") \/ In("Results") => Findings!Init
  BY DEF InitAll, In, RdpPagesInit, FormInit, CreateInit, DataInit, PeopleInit, FindingsInit,
    ResultsInit, LocksInit
<1>2. TypeOK
  <2>1. used = 0 /\ attempt = 0 /\ 0 \in 0..0 /\ 0 \in 0..MaxAttempts
    BY <1>1, PagesAssumed DEF Init, None, PagesAssumption
  <2>2. QED
    BY <1>1, <2>1 DEF Init, TypeOK
<1>3. Create!Init => CreateTypes
  <2>1. SUFFICES ASSUME Create!Init PROVE CreateTypes
    OBVIOUS
  <2>2. v1 = <<>> /\ <<>> \in Seq(Create!Rows) /\ Len(<<>>) = 0
    BY <2>1 DEF Create!Init
  <2>3. 0 <= MaxCreated /\ 0 \in 0..MaxValidity
    BY BoundsAssumption DEF Create!CreateAssumption
  <2> DEFINE free == [at |-> "free", pks |-> {}]
  <2>4. free \in [at : CreateAt, pks : SUBSET Beneficiaries] /\ free.at = "free"
    BY DEF CreateAt
  <2>5. v5 = [j \in Creators |-> free]
    BY <2>1 DEF Create!Init
  <2> HIDE DEF free
  <2>6. /\ v5 \in [Creators -> [at : CreateAt, pks : SUBSET Beneficiaries]]
        /\ \A j \in Creators : v5[j].at = "checked" => v5[j].pks # {}
    BY <2>4, <2>5
  <2>7. QED
    BY <2>1, <2>2, <2>3, <2>6 DEF Create!Init, CreateTypes
<1>4. QED
  BY <1>1, <1>2, <1>3, InitIInv, DataBegins, DataTypesBegin, PeopleBegins, PeopleTypesBegin,
    FindingsBegin, InitLocks DEF TypesInv, FoundInv

LEMMA TypesKept ==
  ASSUME ~Forms, TypesInv, [NextAll]_all
  PROVE  TypesInv'
<1>1. component' = component
  BY StepOfComponent
<1>2. [Next]_vars
  BY DEF NextAll, all, vars, RdpPagesNext, FormNext, CreateNext, DataNext, PeopleNext, FindingsNext,
    ResultsNext, LocksNext
<1>3. IInv' /\ TypeOK'
  BY <1>2, NextIInv, PagesTyped DEF TypesInv
<1>4. In("Create") => CreateTypes'
  BY StepOfComponent, CreateTyped DEF TypesInv
<1>5. In("Data") => DataP!DataInv' /\ DataTypes'
  BY StepOfComponent, DataKeeps, DataTyped DEF TypesInv
<1>6. In("People") => PeopleP!PeopleInv' /\ PeopleTypes'
  BY StepOfComponent, PeopleKeeps, PeopleTyped DEF TypesInv
<1>7. FoundInv'
  BY <1>1, StepOfComponent, FindingsGo DEF TypesInv, FoundInv, In
<1>8. (In("Locks") => LocksInv)'
  BY LocksKept DEF TypesInv
<1>9. QED
  BY <1>1, <1>3, <1>4, <1>5, <1>6, <1>7, <1>8 DEF TypesInv, In

(* Without the administration's form in the first component, and for any     *)
(* number of creating jobs, the types of all components hold: a successful   *)
(* RDP has its RDI, no RDI belongs to an attempt to come, and a push is on    *)
(* exactly while its RDP is pending.                                         *)
THEOREM TypesAlwaysOK ==
  ASSUME ~Forms
  PROVE  SpecAll => []TypesOK
<1>1. TypesInv => TypesOK
  BY CreateTypesMeet, DataTypesMeet, PeopleTypesMeet
  DEF TypesInv, TypesOK, FoundInv, LocksInv, Findings!FindingsInv
<1>2. TypesInv /\ [NextAll]_all => TypesInv'
  BY TypesKept
<1>3. QED
  BY <1>1, <1>2, TypesBegin, PTL DEF SpecAll
==============================================================================
