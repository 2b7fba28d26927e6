------------------------------ MODULE RdpLocks ------------------------------
(***************************************************************************)
(* The row locks of the RDP transactions.  select_for_update() with           *)
(* select_related() locks the rows of its join one after the other, until     *)
(* the transaction ends: the operation, its RDP, the program of the RDP.      *)
(* create_clean_rdp locks the program first.  PostgreSQL aborts one of the     *)
(* transactions that wait for each other.                                     *)
(***************************************************************************)
EXTENDS Naturals, Sequences, FiniteSets

CONSTANTS
  Procs,   \* workers and requests
  Rdps     \* RDPs of one program, with one operation each

VARIABLES
  status,  \* of the RDPs
  op,      \* of their operations
  tx       \* the transactions: [kind, rdp, held], the number of rows locked

vars == <<status, op, tx>>

Program == <<"program">>
RdpRow(r) == <<"rdp", r>>
OpRow(r) == <<"operation", r>>

None == [kind |-> "none"]

\* claim, complete, fail: of an operation; evaluate, decide: lock_rdp_for_update and
\* lock_rdp_push_attempt; clean: create_clean_rdp; flag: the locks of the program alone
Kinds == {"claim", "complete", "fail", "evaluate", "decide", "clean", "flag"}

Init ==
  /\ status = [r \in Rdps |-> "PENDING"]
  /\ op = [r \in Rdps |-> "PENDING"]
  /\ tx = [p \in Procs |-> None]

-----------------------------------------------------------------------------
\* Mutant of Rows: an operation is claimed after its RDP was locked.
RowsRdpFirst(k, r) ==
  IF k \in {"complete", "fail"} THEN <<OpRow(r), RdpRow(r), Program>>
  ELSE IF k = "claim" THEN <<RdpRow(r), Program, OpRow(r)>>
  ELSE IF k \in {"evaluate", "decide"} THEN <<RdpRow(r), Program>>
  ELSE IF k = "clean" THEN <<Program, RdpRow(r)>>
  ELSE <<Program>>

Rows(k, r) ==
  IF k \in {"claim", "complete", "fail"} THEN <<OpRow(r), RdpRow(r), Program>>
  ELSE IF k \in {"evaluate", "decide"} THEN <<RdpRow(r), Program>>
  ELSE IF k = "clean" THEN <<Program, RdpRow(r)>>
  ELSE <<Program>>

Busy(p) == tx[p] # None
RowsOf(p) == Rows(tx[p].kind, tx[p].rdp)
Held(p) == IF Busy(p) THEN {RowsOf(p)[i] : i \in 1..tx[p].held} ELSE {}
Wanting(p) == Busy(p) /\ tx[p].held < Len(RowsOf(p))
Wanted(p) == RowsOf(p)[tx[p].held + 1]

WaitsFor(p, q) == p # q /\ Wanting(p) /\ Wanted(p) \in Held(q)

\* Every one of S waits for one of S, and is waited for by one.
Deadlock(S) == S # {} /\ \A p \in S : (\E q \in S : WaitsFor(p, q)) /\ (\E q \in S : WaitsFor(q, p))

-----------------------------------------------------------------------------
Start(k, r) == [kind |-> k, rdp |-> r, held |-> 0]

(* What is known, without a lock, when a transaction begins: a clean RDP    *)
(* replaces one in review; a result, or a failure, is of an operation that  *)
(* was claimed, and may come twice.                                          *)
Begun(k, r) ==
  /\ k = "clean" => status[r] = "REVIEW_PENDING" /\ op[r] = "SUCCESS"
  /\ k \in {"complete", "fail"} => op[r] # "PENDING"

Begin(p, k, r) ==
  /\ ~Busy(p) /\ Begun(k, r)
  /\ tx' = [tx EXCEPT ![p] = Start(k, r)]
  /\ UNCHANGED <<status, op>>

LockRow(p) ==
  /\ Wanting(p) /\ \A q \in Procs : ~WaitsFor(p, q)
  /\ tx' = [tx EXCEPT ![p].held = @ + 1]
  /\ UNCHANGED <<status, op>>

\* What the transaction finds under its locks, and writes.
Claimable(r) == status[r] = "PENDING" /\ op[r] \in {"PENDING", "FAILURE"}
Evaluable(r) == status[r] = "PENDING" /\ op[r] = "SUCCESS"

NewOp(k, r) ==
  CASE k = "claim" /\ Claimable(r) -> "RUNNING"
    [] k = "complete" /\ op[r] = "RUNNING" -> "SUCCESS"
    [] k = "fail" /\ op[r] = "RUNNING" -> "FAILURE"
    [] OTHER -> op[r]

\* The decisions: cancelled while pending or in review, or pushed; a clean RDP replaces it.
NewStatuses(k, r) ==
  CASE k = "evaluate" /\ Evaluable(r) -> {"REVIEW_PENDING", "PUSH_PENDING"}
    [] k = "decide" /\ status[r] = "REVIEW_PENDING" -> {"PUSH_PENDING", "CANCELLED"}
    [] k = "decide" /\ status[r] = "PENDING" -> {"CANCELLED"}
    [] k = "clean" /\ status[r] = "REVIEW_PENDING" -> {"CANCELLED"}
    [] OTHER -> {status[r]}

Commit(p) ==
  /\ Busy(p) /\ ~Wanting(p)
  /\ op' = [op EXCEPT ![tx[p].rdp] = NewOp(tx[p].kind, tx[p].rdp)]
  /\ \E s \in NewStatuses(tx[p].kind, tx[p].rdp) : status' = [status EXCEPT ![tx[p].rdp] = s]
  /\ tx' = [tx EXCEPT ![p] = None]

(* One of those that wait for each other fails: nothing is written, its rows *)
(* are free.  A completion that fails records the failure of its operation   *)
(* in a second transaction.                                                   *)
Abort(p) ==
  /\ \E S \in SUBSET Procs : p \in S /\ Deadlock(S)
  /\ tx' = [tx EXCEPT ![p] = IF @.kind = "complete" THEN Start("fail", @.rdp) ELSE None]
  /\ UNCHANGED <<status, op>>

Next ==
  \E p \in Procs :
    \/ \E k \in Kinds, r \in Rdps : Begin(p, k, r)
    \/ LockRow(p) \/ Commit(p) \/ Abort(p)

Spec == Init /\ [][Next]_vars

-----------------------------------------------------------------------------
(* Properties *)

(* The type invariant; a row is locked by one transaction. *)
TypeOK ==
  /\ \A p \in Procs : Busy(p) => tx[p].kind \in Kinds /\ tx[p].held \in 0..Len(RowsOf(p))
  /\ \A p, q \in Procs : p # q => Held(p) \cap Held(q) = {}

(* However claims, results, failures, evaluations, decisions and locks of the *)
(* program meet, they never wait for each other but for create_clean_rdp:     *)
(* every deadlock has one that holds the program and waits for the RDP.       *)
OnlyCleanDeadlocks ==
  \A S \in SUBSET Procs : Deadlock(S) => \E p \in S : tx[p].kind = "clean" /\ Held(p) = {Program}

(* The transaction a deadlock fails never was the one with the result of a  *)
(* running operation: a clean RDP is created only once there is a result.    *)
ResultsAreKept ==
  \A p \in Procs :
    tx[p].kind = "complete" /\ op[tx[p].rdp] = "RUNNING" /\ tx'[p] # tx[p] =>
      (tx'[p].kind = "complete" \/ op'[tx[p].rdp] = "SUCCESS")

=============================================================================
