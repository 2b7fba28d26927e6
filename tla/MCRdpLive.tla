------------------------------ MODULE MCRdpLive ------------------------------
(*****************************************************************************)
(* What ends by itself: the push attempts of an RDP (RdpPush), its            *)
(* deduplication (RdpDedup), of one RDP and of an RDP and its clean           *)
(* replacement, and transactions that lock its rows (RdpLocks). A behaviour is*)
(* one of one of these components, as in MCImports. No worker dies and no     *)
(* message is lost here; what a crash does is shown by the runs that expect a *)
(* violation.                                                                 *)
(*****************************************************************************)
EXTENDS RdpPush, TLC

CONSTANTS
  Components,   \* the components that the run exercises
  x1, x2, p1, p2, NoRdp   \* RDPs and processes of RdpDedup

VARIABLES component, v1, v2, v3, v4, v5, v6, v7, v8, v9, v10

slots == <<v1, v2, v3, v4, v5, v6, v7, v8, v9, v10>>
all == <<component, slots, vars>>
In(part) == component = part

Dedup == INSTANCE RdpDedup WITH Rdps <- {x1}, Procs <- {p1, p2}, NoRdp <- NoRdp, MaxFaults <- 0,
  status <- v1, op <- v2, cleanup <- v3, jobs <- v4, queue <- v5, pc <- v6, job <- v7, de <- v8,
  notify <- v9, faults <- v10
DedupInit == In("Dedup") /\ Dedup!Init
DedupNext == In("Dedup") /\ Dedup!Next /\ UNCHANGED <<component, vars>>

Clean == INSTANCE RdpDedup WITH Rdps <- {x1, x2}, Procs <- {p1}, NoRdp <- NoRdp, MaxFaults <- 0,
  status <- v1, op <- v2, cleanup <- v3, jobs <- v4, queue <- v5, pc <- v6, job <- v7, de <- v8,
  notify <- v9, faults <- v10
CleanInit == In("Clean") /\ Clean!Init
CleanNext == In("Clean") /\ Clean!Next /\ UNCHANGED <<component, vars>>

Locks == INSTANCE RdpLocks WITH Procs <- {p1, p2}, Rdps <- {x1}, status <- v1, op <- v2,
  tx <- v3
LocksInit == In("Locks") /\ Locks!Init /\ v4 = 0 /\ v5 = 0 /\ v6 = 0 /\ v7 = 0 /\ v8 = 0
    /\ v9 = 0 /\ v10 = 0
LocksNext == In("Locks") /\ Locks!Next
    /\ UNCHANGED <<component, vars, v4, v5, v6, v7, v8, v9, v10>>

RdpPushInit == In("RdpPush") /\ v1 = 0 /\ v2 = 0 /\ v3 = 0 /\ v4 = 0 /\ v5 = 0 /\ v6 = 0
    /\ v7 = 0 /\ v8 = 0 /\ v9 = 0 /\ v10 = 0
RdpPushNext == In("RdpPush") /\ Next /\ UNCHANGED <<component, slots>>

InitAll ==
  /\ component \in Components /\ Init
  /\ \/ RdpPushInit \/ DedupInit \/ CleanInit \/ LocksInit
NextAll ==
  \/ RdpPushNext \/ DedupNext \/ CleanNext \/ LocksNext
SpecAll == InitAll /\ [][NextAll]_all

ASSUME BoundsAssumption == Dedup!ConstantsAssumption /\ Clean!ConstantsAssumption

(* Workers and requests run, jobs and callbacks find a process, DedupEngine   *)
(* finishes what it processes (and the fairness of RdpPush).  PostgreSQL      *)
(* gives a row to those who wait for it in turn, and looks for deadlocks.     *)
DedupFairness ==
  /\ \A p \in {p1, p2} : WF_slots(In("Dedup") /\ Dedup!Run(p))
  /\ \A r \in {x1}, k \in {"run", "evaluate", "reject"} :
       WF_slots(In("Dedup") /\ Dedup!TakeSome(r, k))
  /\ \A r \in {x1} : /\ WF_slots(In("Dedup") /\ \E p \in {p1, p2} : Dedup!Callback(p, r))
                     /\ WF_slots(In("Dedup") /\ Dedup!EngineStep(r))
CleanFairness ==
  /\ \A p \in {p1} : WF_slots(In("Clean") /\ Clean!Run(p))
  /\ \A r \in {x1, x2}, k \in {"run", "evaluate", "reject"} :
       WF_slots(In("Clean") /\ Clean!TakeSome(r, k))
  /\ \A r \in {x1, x2} : /\ WF_slots(In("Clean") /\ \E p \in {p1} : Clean!Callback(p, r))
                     /\ WF_slots(In("Clean") /\ Clean!EngineStep(r))
LocksFairness ==
  \A p \in {p1, p2} : /\ SF_(Locks!vars)(In("Locks") /\ Locks!LockRow(p))
                       /\ WF_(Locks!vars)(In("Locks") /\ Locks!Commit(p))
                       /\ WF_(Locks!vars)(In("Locks") /\ Locks!Abort(p))
LiveSpec ==
  SpecAll /\ Fairness /\ DedupFairness /\ CleanFairness /\ LocksFairness

------------------------------------------------------------------------------
(* A scheduled data push ends its attempt, and with Fail stuck push, used as  *)
(* long as it is allowed, every attempt ends.                                 *)
PushesEnd == DataPushEnds /\ AttemptEnds

(* A running operation ends, a pending RDP moves on unless its operation      *)
(* failed, and a clean replacement starts once it may.  Who waits for the     *)
(* rows of an RDP and its program gets them, or gives up.                     *)
Runs(r)     == In("Dedup") /\ Dedup!Running(r)
Waits(r)    == In("Dedup") /\ Dedup!Waiting(r)
Replaces(r) == In("Clean") /\ \E c \in {x1, x2} : Clean!Replacing(r, c)
Locking(p)  == In("Locks") /\ Locks!Busy(p)

RdpsMoveOn ==
  /\ Runs(x1) ~> ~Runs(x1)
  /\ Waits(x1) ~> ~Waits(x1)
  /\ \A r \in {x1, x2} : Replaces(r) ~> ~Replaces(r)
  /\ \A p \in {p1, p2} : Locking(p) ~> ~Locking(p)
==============================================================================
