--------------------------- MODULE PushData_proofs ---------------------------
(***************************************************************************)
(* Theorems about PushData, for any number of records, RDPs and RDIs.        *)
(*                                                                           *)
(* The steps of a push hand on what they know: what HOPE mapped it accepted, *)
(* so that it is in the RDI; what was read of the selection is either there  *)
(* or yet to be sent; and the RDI is completed only when nothing is left.     *)
(* Edits do not come into it: the rows that are sent were read once.          *)
(***************************************************************************)
EXTENDS PushData, TLAPS

Fields == {"at", "todo", "rows", "mapped", "failed"}
RdpStatuses == {"PUSH_PENDING", "FAILURE", "SUCCESS", "CANCELLED"}

(* A push with batches of any size: what is sent does not depend on it.      *)
Steps ==
  \/ \E sel \in SUBSET Records : Create(sel)
  \/ Retry \/ Fail \/ ReadIndividuals \/ ReadHouseholds \/ Finish \/ Cancel
  \/ \E answered \in BOOLEAN : CreateRdi(answered)
  \/ \E b \in SUBSET push.todo : \E a \in Answers(b) : PostIndividuals(b, a) \/ PostHouseholds(b, a)
  \/ \E done, answered \in BOOLEAN : Complete(done, answered)
  \/ \E k \in DOMAIN rdps : Reset(k)
  \/ \E r \in Records : Edit(r)

LEMMA NextIsStep == Next => Steps
BY DEF Next, Steps

-----------------------------------------------------------------------------
(* Helpers.                                                                *)

\* A row is added, or replaced.
LEMMA Appended ==
  ASSUME NEW S, NEW R \in Seq(S), NEW e \in S
  PROVE  LET Q == Append(R, e) IN
         /\ Q \in Seq(S) /\ Len(Q) = Len(R) + 1 /\ Len(R) \in Nat
         /\ DOMAIN Q = DOMAIN R \cup {Len(Q)} /\ Len(Q) \notin DOMAIN R
         /\ Q[Len(Q)] = e /\ \A k \in DOMAIN R : Q[k] = R[k]
OBVIOUS

LEMMA Replaced ==
  ASSUME NEW S, NEW R \in Seq(S), NEW i \in DOMAIN R, NEW e \in S
  PROVE  LET Q == [R EXCEPT ![i] = e] IN
         /\ Q \in Seq(S) /\ Len(Q) = Len(R) /\ DOMAIN Q = DOMAIN R
         /\ \A k \in DOMAIN R : Q[k] = IF k = i THEN e ELSE R[k]
<1> DEFINE Q == [R EXCEPT ![i] = e]
<1>1. DOMAIN R = 1..Len(R) /\ Len(R) \in Nat /\ \A k \in 1..Len(R) : R[k] \in S
  OBVIOUS
<1>2. DOMAIN Q = 1..Len(R) /\ \A k \in 1..Len(R) : Q[k] = IF k = i THEN e ELSE R[k]
  BY <1>1
<1>3. Q \in [1..Len(R) -> S]
  BY <1>1, <1>2
<1>4. Q \in Seq(S) /\ Len(Q) = Len(R)
  BY <1>1, <1>3
<1>5. QED
  BY <1>1, <1>2, <1>4

\* The latest row is one.
LEMMA Latest ==
  ASSUME NEW S, NEW R \in Seq(S)
  PROVE  /\ Len(R) \in Nat /\ DOMAIN R = 1..Len(R) /\ \A k \in DOMAIN R : R[k] \in S /\ k > 0 /\ k <= Len(R)
         /\ Len(R) > 0 => Len(R) \in DOMAIN R
OBVIOUS

LEMMA Restatus ==
  ASSUME NEW R \in Seq(RdpRows), NEW i \in DOMAIN R, NEW s \in RdpStatuses
  PROVE  LET Q == [R EXCEPT ![i].status = s] IN
         /\ Q \in Seq(RdpRows) /\ Len(Q) = Len(R) /\ DOMAIN Q = DOMAIN R
         /\ \A k \in DOMAIN R : Q[k].sel = R[k].sel /\ Q[k].status = IF k = i THEN s ELSE R[k].status
<1> DEFINE e == [R[i] EXCEPT !.status = s]
<1>1. R[i] \in RdpRows
  BY Latest
<1>2. e \in RdpRows /\ e.sel = R[i].sel /\ e.status = s
  BY <1>1 DEF RdpRows, RdpStatuses
<1>3. [R EXCEPT ![i].status = s] = [R EXCEPT ![i] = e]
  OBVIOUS
<1>4. QED
  BY <1>2, <1>3, Replaced

\* An answer keeps rows of the batch, all of them when it is accepted, and maps what it keeps.
LEMMA AnswerFact ==
  ASSUME NEW b, NEW a \in Answers(b)
  PROVE  a.kept \subseteq b /\ (a.ok => a.kept = b) /\ a.mapped \subseteq a.kept
<1>1. CASE a \in {[kept |-> k, ok |-> FALSE, mapped |-> {}] : k \in {{}, b}}
  <2>1. PICK k \in {{}, b} : a = [kept |-> k, ok |-> FALSE, mapped |-> {}]
    BY <1>1
  <2>2. a.kept = k /\ a.ok = FALSE /\ a.mapped = {}
    BY <2>1
  <2>3. QED
    BY <2>2
<1>2. CASE a \in {[kept |-> k, ok |-> k = b, mapped |-> k] : k \in SUBSET b}
  <2>1. PICK k \in SUBSET b : a = [kept |-> k, ok |-> k = b, mapped |-> k]
    BY <1>2
  <2>2. a.kept = k /\ a.ok = (k = b) /\ a.mapped = k
    BY <2>1
  <2>3. QED
    BY <2>2
<1>3. CASE a \in {[kept |-> b, ok |-> TRUE, mapped |-> k] : k \in SUBSET b}
  <2>1. PICK k \in SUBSET b : a = [kept |-> b, ok |-> TRUE, mapped |-> k]
    BY <1>3
  <2>2. a.kept = b /\ a.mapped = k
    BY <2>1
  <2>3. QED
    BY <2>2
<1>4. QED
  BY <1>1, <1>2, <1>3 DEF Answers

\* What an empty push is.
LEMMA IdleFact ==
  /\ DOMAIN Idle = Fields /\ Idle.at = "idle" /\ Idle.todo = {} /\ Idle.mapped = {} /\ Idle.failed = FALSE
  /\ LET s == [Idle EXCEPT !.at = "start"] IN
       DOMAIN s = Fields /\ s.at = "start" /\ s.todo = {} /\ s.mapped = {} /\ s.failed = FALSE
BY DEF Idle, Fields

-----------------------------------------------------------------------------
(* The steps, whatever the RDP selects.                                    *)

LEMMA CreateEffect ==
  ASSUME PushDataAssumption, PushInv, NEW sel \in SUBSET Records, Create(sel)
  PROVE  /\ PushInv'
         /\ rdis' = rdis /\ removed' = removed /\ push'.at = "start" /\ push'.mapped = {}
         /\ DOMAIN rdps' = DOMAIN rdps \cup {Rdp'} /\ Rdp' \notin DOMAIN rdps
         /\ \A k \in DOMAIN rdps : rdps'[k] = rdps[k]
         /\ rdps'[Rdp'].sel = sel /\ rdps'[Rdp'].status = "PUSH_PENDING"
<1> DEFINE e == [sel |-> sel, status |-> "PUSH_PENDING"]
<1>1. /\ rdps' = Append(rdps, e) /\ push' = [Idle EXCEPT !.at = "start"] /\ rdis' = rdis /\ removed' = removed
      /\ Rdp < MaxRdps /\ rdps \in Seq(RdpRows)
  BY DEF Create, PushInv
<1>2. e \in RdpRows
  BY DEF RdpRows
<1>3. /\ rdps' \in Seq(RdpRows) /\ Rdp' = Rdp + 1 /\ Rdp \in Nat
      /\ DOMAIN rdps' = DOMAIN rdps \cup {Rdp'} /\ Rdp' \notin DOMAIN rdps
      /\ rdps'[Rdp'] = e /\ \A k \in DOMAIN rdps : rdps'[k] = rdps[k]
  BY <1>1, <1>2, Appended DEF Rdp
<1>4. DOMAIN push' = Fields /\ push'.at = "start" /\ push'.todo = {} /\ push'.mapped = {} /\ push'.failed = FALSE
  BY <1>1, IdleFact
<1>5. Rdp' <= MaxRdps /\ Rdp' > 0
  BY <1>1, <1>3 DEF PushDataAssumption
<1>6. \A n \in DOMAIN rdis' : rdis'[n].rdp \in DOMAIN rdps'
  BY <1>1, <1>3 DEF PushInv
<1>7. PushInv'
  <2>1. rdps'[Rdp'].status = "PUSH_PENDING"
    BY <1>3
  <2>2. Rdi' = Rdi /\ rdis' \in Seq(RdiRows) /\ Rdi' <= MaxRdis
    BY <1>1 DEF PushInv, Rdi
  <2>3. \A k \in DOMAIN rdps' : rdps'[k].sel \subseteq IF MasterDetail THEN Households ELSE Individuals
    <3>1. sel \subseteq IF MasterDetail THEN Households ELSE Individuals
      BY DEF Create
    <3>2. QED
      BY <1>3, <3>1 DEF PushInv
  <2>4. QED
    BY <1>3, <1>4, <1>5, <1>6, <2>1, <2>2, <2>3 DEF PushInv, Fields, Begun
<1>8. QED
  BY <1>1, <1>3, <1>4, <1>7

\* The push starts, ends or goes on as the status says.
LEMMA StatusEffect ==
  ASSUME PushInv, NEW i \in DOMAIN rdps, NEW s \in RdpStatuses,
         rdps' = [rdps EXCEPT ![i].status = s], rdis' = rdis,
         \/ i = Rdp /\ s = "PUSH_PENDING" /\ push' = [Idle EXCEPT !.at = "start"]
         \/ i = Rdp /\ s \in {"FAILURE", "SUCCESS"} /\ push' = Idle
         \/ rdps[i].status # "PUSH_PENDING" /\ s = "CANCELLED" /\ push' = push
  PROVE  /\ PushInv'
         /\ DOMAIN rdps' = DOMAIN rdps /\ Rdp' = Rdp
         /\ \A k \in DOMAIN rdps : rdps'[k].sel = rdps[k].sel /\ rdps'[k].status = IF k = i THEN s ELSE rdps[k].status
<1>1. /\ rdps' \in Seq(RdpRows) /\ Rdp' = Rdp /\ DOMAIN rdps' = DOMAIN rdps
      /\ \A k \in DOMAIN rdps : rdps'[k].sel = rdps[k].sel /\ rdps'[k].status = IF k = i THEN s ELSE rdps[k].status
  BY Restatus DEF PushInv, Rdp
<1>2. Rdp > 0 /\ Rdp \in DOMAIN rdps
  BY Latest DEF PushInv, Rdp
<1>3. /\ \A n \in DOMAIN rdis' : rdis'[n].rdp \in DOMAIN rdps'
      /\ \A k \in DOMAIN rdps' : rdps'[k].sel \subseteq IF MasterDetail THEN Households ELSE Individuals
  BY <1>1 DEF PushInv
<1>4. CASE i = Rdp /\ s = "PUSH_PENDING" /\ push' = [Idle EXCEPT !.at = "start"]
  BY <1>1, <1>2, <1>3, <1>4, IdleFact DEF PushInv, Fields, Begun, Rdi
<1>5. CASE i = Rdp /\ s \in {"FAILURE", "SUCCESS"} /\ push' = Idle
  BY <1>1, <1>2, <1>3, <1>5, IdleFact DEF PushInv, Fields, Begun, Rdi
<1>6. CASE rdps[i].status # "PUSH_PENDING" /\ s = "CANCELLED" /\ push' = push
  BY <1>1, <1>2, <1>3, <1>6 DEF PushInv, Begun, Rdi
<1>7. QED
  BY <1>1, <1>4, <1>5, <1>6

\* A step of the push writes the latest RDI only.
LEMMA RdiEffect ==
  ASSUME PushInv, NEW e \in RdiRows, push.at \in Begun, e.rdp = rdis[Rdi].rdp,
         rdps' = rdps, rdis' = [rdis EXCEPT ![Rdi] = e],
         DOMAIN push' = Fields, push'.at \in Begun, push'.failed \in BOOLEAN,
         push'.todo \subseteq Records, push'.mapped \subseteq Individuals,
         push'.at = "individuals" => push'.todo \subseteq Individuals,
         push'.at = "households" => MasterDetail /\ push'.todo \subseteq Households
  PROVE  /\ PushInv' /\ Rdp' = Rdp /\ Rdi' = Rdi /\ DOMAIN rdis' = DOMAIN rdis /\ Rdi \in DOMAIN rdis
         /\ \A n \in DOMAIN rdis : rdis'[n] = IF n = Rdi THEN e ELSE rdis[n]
<1>1. Rdi > 0 /\ Rdi \in DOMAIN rdis /\ rdis \in Seq(RdiRows) /\ Rdp' = Rdp
  BY Latest DEF PushInv, Rdi, Rdp
<1>2. /\ rdis' \in Seq(RdiRows) /\ Rdi' = Rdi /\ DOMAIN rdis' = DOMAIN rdis
      /\ \A n \in DOMAIN rdis : rdis'[n] = IF n = Rdi THEN e ELSE rdis[n]
  BY <1>1, Replaced DEF Rdi
<1>3. rdis'[Rdi].rdp = Rdp /\ \A n \in DOMAIN rdis : rdis'[n].rdp = rdis[n].rdp
  BY <1>1, <1>2 DEF PushInv
<1>4. push'.at # "idle" /\ Rdp > 0 /\ rdps[Rdp].status = "PUSH_PENDING"
  BY DEF PushInv, Begun
<1>5. PushInv'
  BY <1>1, <1>2, <1>3, <1>4 DEF PushInv, Fields
<1>6. QED
  BY <1>1, <1>2, <1>5

\* Or nothing there.
LEMMA NoEffect ==
  ASSUME PushInv, rdps' = rdps, rdis' = rdis, push.at # "idle",
         DOMAIN push' = Fields, push'.failed \in BOOLEAN,
         push'.at = push.at \/ (push'.at \in Begun /\ push.at \in Begun),
         push'.todo \subseteq Records, push'.mapped \subseteq Individuals,
         push'.at = "individuals" => push'.todo \subseteq Individuals,
         push'.at = "households" => MasterDetail /\ push'.todo \subseteq Households
  PROVE  PushInv' /\ Rdp' = Rdp /\ Rdi' = Rdi
<1>1. Rdp' = Rdp /\ Rdi' = Rdi /\ push'.at # "idle" /\ push'.at \in {"idle", "start"} \cup Begun
  BY DEF PushInv, Rdi, Rdp, Begun
<1>2. push'.at \in Begun => push.at \in Begun
  OBVIOUS
<1>3. QED
  BY <1>1, <1>2 DEF PushInv, Fields

\* The steps of a push, before it is finished.
LEMMA CreateRdiEffect ==
  ASSUME PushDataAssumption, PushInv, NEW answered \in BOOLEAN, CreateRdi(answered)
  PROVE  /\ PushInv' /\ UNCHANGED <<rdps, removed>> /\ push'.mapped = push.mapped
         /\ \/ rdis' = rdis /\ push'.at = "start"
            \/ /\ push.at = "start" /\ push'.at = "created"
               /\ DOMAIN rdis' = DOMAIN rdis \cup {Rdi'} /\ \A n \in DOMAIN rdis : rdis'[n] = rdis[n]
               /\ Rdi' \notin DOMAIN rdis
               /\ rdis'[Rdi'] = [rdp |-> Rdp, inds |-> {}, hhs |-> {}, complete |-> FALSE]
<1>1. push.at = "start" /\ UNCHANGED <<rdps, removed>> /\ Rdi < MaxRdis /\ DOMAIN push = Fields
  BY DEF CreateRdi, PushInv, Fields
<1>2. CASE push' = [push EXCEPT !.failed = TRUE] /\ rdis' = rdis
  <2>1. /\ DOMAIN push' = Fields /\ push'.failed \in BOOLEAN /\ push'.at = push.at
        /\ push'.todo = push.todo /\ push'.mapped = push.mapped
    BY <1>1, <1>2 DEF Fields
  <2>2. PushInv'
    <3>1. /\ push.todo \subseteq Records /\ push.mapped \subseteq Individuals /\ push.at # "idle"
          /\ push'.at # "individuals" /\ push'.at # "households"
      BY <1>1, <2>1 DEF PushInv
    <3>2. push'.todo \subseteq Records /\ push'.mapped \subseteq Individuals /\ rdps' = rdps /\ rdis' = rdis
      BY <1>1, <1>2, <2>1, <3>1
    <3>3. DOMAIN push' = Fields /\ push'.failed \in BOOLEAN /\ push'.at = push.at
      BY <2>1
    <3>4. QED
      BY <3>1, <3>2, <3>3, NoEffect
  <2>3. QED
    BY <1>1, <1>2, <2>1, <2>2
<1>3. CASE /\ rdis' = Append(rdis, [rdp |-> Rdp, inds |-> {}, hhs |-> {}, complete |-> FALSE])
           /\ push' = [push EXCEPT !.at = "created"]
  <2> DEFINE e == [rdp |-> Rdp, inds |-> {}, hhs |-> {}, complete |-> FALSE]
  <2>1. /\ DOMAIN push' = Fields /\ push'.failed = push.failed /\ push'.at = "created"
        /\ push'.todo = push.todo /\ push'.mapped = push.mapped
    BY <1>1, <1>3 DEF Fields
  <2>2. rdis \in Seq(RdiRows) /\ Rdp \in Nat /\ Rdp \in DOMAIN rdps /\ Rdp' = Rdp
    BY <1>1, Latest DEF PushInv, Rdp
  <2>3. e \in RdiRows
    BY <2>2 DEF RdiRows
  <2>4. /\ rdis' \in Seq(RdiRows) /\ Rdi' = Rdi + 1 /\ Rdi \in Nat
        /\ DOMAIN rdis' = DOMAIN rdis \cup {Rdi'} /\ Rdi' \notin DOMAIN rdis
        /\ rdis'[Rdi'] = e /\ \A n \in DOMAIN rdis : rdis'[n] = rdis[n]
    BY <1>3, <2>2, <2>3, Appended DEF Rdi
  <2>5. Rdi' <= MaxRdis /\ Rdi' > 0
    BY <1>1, <2>4 DEF PushDataAssumption
  <2>6. rdis'[Rdi'].rdp = Rdp /\ \A n \in DOMAIN rdis' : rdis'[n].rdp \in DOMAIN rdps
    BY <2>2, <2>4 DEF PushInv
  <2>7. PushInv'
    BY <1>1, <2>1, <2>2, <2>4, <2>5, <2>6 DEF PushInv, Fields, Begun
  <2>8. QED
    BY <1>1, <2>1, <2>4, <2>7
<1>4. QED
  BY <1>2, <1>3 DEF CreateRdi

LEMMA ReadEffect ==
  ASSUME PushDataAssumption, PushInv, ReadIndividuals \/ ReadHouseholds
  PROVE  /\ PushInv' /\ UNCHANGED <<rdps, rdis, removed>> /\ push'.mapped = push.mapped
         /\ \/ push.at = "created" /\ push'.at = "individuals" /\ push'.todo = ForPush(rdps[Rdp].sel)
            \/ push.at = "individuals" /\ MasterDetail /\ push'.at = "households" /\ push'.todo = rdps[Rdp].sel
<1>1. UNCHANGED <<rdps, rdis, removed>> /\ DOMAIN push = Fields /\ push.at \in Begun
  BY DEF ReadIndividuals, ReadHouseholds, PushInv, Fields, Begun
<1>2. Rdp \in DOMAIN rdps /\ rdps[Rdp].sel \subseteq Records
      /\ rdps[Rdp].sel \subseteq IF MasterDetail THEN Households ELSE Individuals
  <2>1. rdps \in Seq(RdpRows) /\ Rdp > 0
    BY <1>1 DEF PushInv, Begun
  <2>2. Rdp \in DOMAIN rdps /\ rdps[Rdp] \in RdpRows
    BY <2>1, Latest DEF Rdp
  <2>3. QED
    BY <2>2 DEF PushInv, RdpRows
<1>3. CASE ReadIndividuals
  <2>1. /\ DOMAIN push' = Fields /\ push'.at = "individuals" /\ push'.todo = ForPush(rdps[Rdp].sel)
        /\ push'.mapped = push.mapped /\ push'.failed = push.failed /\ push.at = "created"
    BY <1>1, <1>3 DEF ReadIndividuals, Fields
  <2>2. ForPush(rdps[Rdp].sel) \subseteq Individuals
    BY <1>2 DEF ForPush, Members, CollectorPks
  <2>3. PushInv'
    BY <1>1, <2>1, <2>2, NoEffect DEF PushInv, Records, Begun
  <2>4. QED
    BY <1>1, <2>1, <2>3
<1>4. CASE ReadHouseholds
  <2>1. /\ DOMAIN push' = Fields /\ push'.at = "households" /\ push'.todo = rdps[Rdp].sel
        /\ push'.mapped = push.mapped /\ push'.failed = push.failed /\ push.at = "individuals" /\ MasterDetail
    BY <1>1, <1>4 DEF ReadHouseholds, Fields
  <2>2. PushInv'
    BY <1>1, <1>2, <2>1, NoEffect DEF PushInv, Begun
  <2>3. QED
    BY <1>1, <2>1, <2>2
<1>5. QED
  BY <1>3, <1>4

\* The latest RDI, while a push is at work on it.
LEMMA AtWork ==
  ASSUME PushInv, push.at \in Begun
  PROVE  /\ Rdi \in DOMAIN rdis /\ rdis[Rdi] \in RdiRows /\ rdis[Rdi].rdp = Rdp /\ Rdp \in DOMAIN rdps
         /\ rdps[Rdp].status = "PUSH_PENDING" /\ DOMAIN push = Fields /\ push.at # "idle"
<1>1. Rdi > 0 /\ Rdp > 0 /\ rdis \in Seq(RdiRows) /\ rdps \in Seq(RdpRows)
  BY DEF PushInv, Begun
<1>2. Rdi \in DOMAIN rdis /\ rdis[Rdi] \in RdiRows /\ Rdp \in DOMAIN rdps
  BY <1>1, Latest DEF Rdi, Rdp
<1>3. QED
  BY <1>2 DEF PushInv, Fields, Begun

\* Individuals are posted: the RDI has those that were kept, and all that are mapped.
LEMMA PostIndividualsEffect ==
  ASSUME PushDataAssumption, PushInv, NEW b \in SUBSET push.todo, NEW a \in Answers(b), PostIndividuals(b, a)
  PROVE  /\ PushInv' /\ UNCHANGED <<rdps, removed>> /\ Rdi' = Rdi /\ Rdp' = Rdp /\ DOMAIN rdis' = DOMAIN rdis
         /\ push.at = "individuals" /\ push'.at = "individuals" /\ Rdi \in DOMAIN rdis
         /\ \A n \in DOMAIN rdis : n # Rdi => rdis'[n] = rdis[n]
         /\ rdis'[Rdi].rdp = rdis[Rdi].rdp /\ rdis'[Rdi].hhs = rdis[Rdi].hhs
         /\ rdis'[Rdi].complete = rdis[Rdi].complete
         /\ rdis'[Rdi].inds = rdis[Rdi].inds \cup a.kept
         /\ push'.mapped \subseteq push.mapped \cup a.kept
         /\ push.todo \subseteq push'.todo \cup a.kept
<1> DEFINE e == [rdis[Rdi] EXCEPT !.inds = rdis[Rdi].inds \cup a.kept]
<1>1. /\ push.at = "individuals" /\ UNCHANGED <<rdps, removed>> /\ push.todo \subseteq Individuals
      /\ rdis' = [rdis EXCEPT ![Rdi].inds = @ \cup a.kept]
  BY DEF PostIndividuals, PushInv
<1>2. Rdi \in DOMAIN rdis /\ rdis[Rdi] \in RdiRows /\ DOMAIN push = Fields
  BY <1>1, AtWork DEF Begun
<1>3. a.kept \subseteq b /\ (a.ok => a.kept = b) /\ a.mapped \subseteq a.kept /\ a.kept \subseteq Individuals
  BY <1>1, AnswerFact
<1>4. /\ e \in RdiRows /\ e.rdp = rdis[Rdi].rdp /\ e.hhs = rdis[Rdi].hhs /\ e.complete = rdis[Rdi].complete
      /\ e.inds = rdis[Rdi].inds \cup a.kept
  BY <1>2, <1>3 DEF RdiRows
<1>5. rdis' = [rdis EXCEPT ![Rdi] = e]
  BY <1>1
<1>6. \/ push' = [push EXCEPT !.todo = @ \ b, !.mapped = @ \cup a.mapped] /\ a.kept = b
      \/ push' = [push EXCEPT !.failed = TRUE]
  BY <1>3 DEF PostIndividuals
<1>7. /\ DOMAIN push' = Fields /\ push'.at = "individuals"
      /\ \/ push'.todo = push.todo \ b /\ push'.mapped = push.mapped \cup a.mapped
            /\ push'.failed = push.failed /\ a.kept = b
         \/ push'.todo = push.todo /\ push'.mapped = push.mapped /\ push'.failed = TRUE
  BY <1>1, <1>2, <1>6 DEF Fields
<1>8. /\ push'.todo \subseteq push.todo /\ push'.mapped \subseteq push.mapped \cup a.kept
      /\ push.todo \subseteq push'.todo \cup a.kept
  BY <1>3, <1>7
<1>9. push'.failed \in BOOLEAN /\ push.mapped \subseteq Individuals /\ push.todo \subseteq Records
  BY <1>7 DEF PushInv
<1>10. /\ PushInv' /\ Rdp' = Rdp /\ Rdi' = Rdi /\ DOMAIN rdis' = DOMAIN rdis
       /\ \A n \in DOMAIN rdis : rdis'[n] = IF n = Rdi THEN e ELSE rdis[n]
  <2>1. push'.todo \subseteq Individuals /\ push'.todo \subseteq Records /\ push'.mapped \subseteq Individuals
    BY <1>1, <1>3, <1>8, <1>9
  <2>2. push.at \in Begun /\ push'.at \in Begun /\ push'.at # "households" /\ rdps' = rdps
    BY <1>1, <1>7 DEF Begun
  <2>3. QED
    BY <1>4, <1>5, <1>7, <1>9, <2>1, <2>2, RdiEffect
<1>11. QED
  BY <1>1, <1>2, <1>4, <1>7, <1>8, <1>10

\* Households are posted: each with what it refers to, all of which is mapped.
LEMMA PostHouseholdsEffect ==
  ASSUME PushDataAssumption, PushInv, NEW b \in SUBSET push.todo, NEW a \in Answers(b), PostHouseholds(b, a)
  PROVE  /\ PushInv' /\ UNCHANGED <<rdps, removed>> /\ Rdi' = Rdi /\ Rdp' = Rdp /\ DOMAIN rdis' = DOMAIN rdis
         /\ push.at = "households" /\ push'.at = "households" /\ Rdi \in DOMAIN rdis /\ push'.mapped = push.mapped
         /\ MasterDetail
         /\ \A n \in DOMAIN rdis : n # Rdi => rdis'[n] = rdis[n]
         /\ rdis'[Rdi].rdp = rdis[Rdi].rdp /\ rdis'[Rdi].inds = rdis[Rdi].inds
         /\ rdis'[Rdi].complete = rdis[Rdi].complete
         /\ \/ rdis'[Rdi].hhs = rdis[Rdi].hhs /\ push'.todo = push.todo
            \/ /\ BatchMaps(b) /\ a.kept \subseteq push.todo
               /\ rdis'[Rdi].hhs = rdis[Rdi].hhs \cup {[hh |-> h, refs |-> Referred(h)] : h \in a.kept}
               /\ \A h \in a.kept : Referred(h) \subseteq push.mapped
               /\ push'.todo \subseteq push.todo /\ push.todo \subseteq push'.todo \cup a.kept
<1> DEFINE new == {[hh |-> h, refs |-> Referred(h)] : h \in a.kept}
           e == [rdis[Rdi] EXCEPT !.hhs = rdis[Rdi].hhs \cup new]
<1>1. /\ push.at = "households" /\ UNCHANGED <<rdps, removed>> /\ push.todo \subseteq Households /\ MasterDetail
      /\ push.at \in Begun /\ push.mapped \subseteq Individuals /\ push.todo \subseteq Records
  BY DEF PostHouseholds, PushInv, Begun
<1>2. Rdi \in DOMAIN rdis /\ rdis[Rdi] \in RdiRows /\ DOMAIN push = Fields
  BY <1>1, AtWork
<1>3. a.kept \subseteq b /\ (a.ok => a.kept = b)
  BY AnswerFact
<1>4. CASE push' = [push EXCEPT !.failed = TRUE] /\ rdis' = rdis
  <2>1. /\ DOMAIN push' = Fields /\ push'.at = push.at /\ push'.todo = push.todo /\ push'.mapped = push.mapped
        /\ push'.failed = TRUE
    BY <1>2, <1>4 DEF Fields
  <2>2. PushInv' /\ Rdp' = Rdp /\ Rdi' = Rdi
    <3>1. push.at # "idle" /\ push'.at # "individuals" /\ rdps' = rdps /\ push'.failed \in BOOLEAN
      BY <1>1, <2>1
    <3>2. QED
      BY <1>1, <1>4, <2>1, <3>1, NoEffect
  <2>3. QED
    BY <1>1, <1>2, <1>4, <2>1, <2>2
<1>5. CASE /\ BatchMaps(b) /\ rdis' = [rdis EXCEPT ![Rdi].hhs = @ \cup new]
           /\ push' = IF a.ok THEN [push EXCEPT !.todo = @ \ b] ELSE [push EXCEPT !.failed = TRUE]
  <2>1. \A h \in a.kept : Referred(h) \subseteq push.mapped
    <3> SUFFICES ASSUME NEW h \in a.kept PROVE Referred(h) \subseteq push.mapped
      OBVIOUS
    <3>1. h \in b /\ Members(b) \subseteq push.mapped /\ \A f \in RoleFields : RoleMaps(push.rows[h][f])
      BY <1>3, <1>5 DEF BatchMaps
    <3>2. Members({h}) \subseteq push.mapped
      BY <3>1 DEF Members
    <3>3. \A f \in RoleFields : push.rows[h][f].kind \in {"int", "text"} => push.rows[h][f].pk \in push.mapped
      BY <3>1 DEF RoleMaps
    <3>4. QED
      BY <3>2, <3>3 DEF Referred
  <2>2. new \subseteq [hh : Households, refs : SUBSET Individuals]
    BY <1>1, <1>3, <2>1
  <2>3. /\ e \in RdiRows /\ e.rdp = rdis[Rdi].rdp /\ e.inds = rdis[Rdi].inds /\ e.complete = rdis[Rdi].complete
        /\ e.hhs = rdis[Rdi].hhs \cup new
    BY <1>2, <2>2 DEF RdiRows
  <2>4. rdis' = [rdis EXCEPT ![Rdi] = e]
    BY <1>5
  <2>5. /\ DOMAIN push' = Fields /\ push'.at = push.at /\ push'.mapped = push.mapped
        /\ \/ push'.todo = push.todo \ b /\ push'.failed = push.failed /\ a.kept = b
           \/ push'.todo = push.todo /\ push'.failed = TRUE
    BY <1>2, <1>3, <1>5 DEF Fields
  <2>6. push'.todo \subseteq push.todo /\ push.todo \subseteq push'.todo \cup a.kept /\ a.kept \subseteq push.todo
    BY <1>3, <2>5
  <2>7. push'.failed \in BOOLEAN
    BY <2>5 DEF PushInv
  <2>8. /\ PushInv' /\ Rdp' = Rdp /\ Rdi' = Rdi /\ DOMAIN rdis' = DOMAIN rdis
        /\ \A n \in DOMAIN rdis : rdis'[n] = IF n = Rdi THEN e ELSE rdis[n]
    <3>1. push'.at \in Begun /\ push'.at # "individuals" /\ rdps' = rdps
          /\ push'.todo \subseteq Households /\ push'.todo \subseteq Records /\ push'.mapped \subseteq Individuals
      BY <1>1, <2>5, <2>6
    <3>2. QED
      BY <1>1, <2>3, <2>4, <2>5, <2>7, <3>1, RdiEffect
  <2>9. QED
    BY <1>1, <1>2, <1>5, <2>1, <2>3, <2>5, <2>6, <2>8
<1>6. QED
  BY <1>4, <1>5 DEF PostHouseholds

\* The RDI is completed, or not; nothing is left to send.
LEMMA CompleteEffect ==
  ASSUME PushDataAssumption, PushInv, NEW done \in BOOLEAN, NEW answered \in BOOLEAN, Complete(done, answered)
  PROVE  /\ PushInv' /\ UNCHANGED <<rdps, removed>> /\ Rdi' = Rdi /\ Rdp' = Rdp /\ DOMAIN rdis' = DOMAIN rdis
         /\ push.at = (IF MasterDetail THEN "households" ELSE "individuals") /\ push.todo = {}
         /\ Rdi \in DOMAIN rdis /\ push'.mapped = push.mapped
         /\ \A n \in DOMAIN rdis : n # Rdi => rdis'[n] = rdis[n]
         /\ rdis'[Rdi].rdp = rdis[Rdi].rdp /\ rdis'[Rdi].inds = rdis[Rdi].inds /\ rdis'[Rdi].hhs = rdis[Rdi].hhs
         /\ rdis[Rdi].complete => rdis'[Rdi].complete
         /\ \/ push'.at = "completed" /\ rdis'[Rdi].complete
            \/ push'.at = push.at /\ push'.todo = push.todo
<1> DEFINE c == rdis[Rdi].complete \/ done
           e == [rdis[Rdi] EXCEPT !.complete = c]
<1>1. /\ push.at = (IF MasterDetail THEN "households" ELSE "individuals") /\ push.todo = {}
      /\ UNCHANGED <<rdps, removed>> /\ push.at \in Begun /\ push.mapped \subseteq Individuals
      /\ rdis' = [rdis EXCEPT ![Rdi].complete = @ \/ done] /\ (answered => done)
  BY DEF Complete, PushInv, Begun
<1>2. Rdi \in DOMAIN rdis /\ rdis[Rdi] \in RdiRows /\ DOMAIN push = Fields
  BY <1>1, AtWork
<1>3. c \in BOOLEAN
  OBVIOUS
<1>4. /\ e \in RdiRows /\ e.rdp = rdis[Rdi].rdp /\ e.inds = rdis[Rdi].inds /\ e.hhs = rdis[Rdi].hhs
      /\ e.complete = c
  <2> HIDE DEF c
  <2>1. QED
    BY <1>2, <1>3 DEF RdiRows
<1>5. rdis' = [rdis EXCEPT ![Rdi] = e]
  BY <1>1
<1>6. /\ DOMAIN push' = Fields /\ push'.mapped = push.mapped /\ push'.todo = {}
      /\ \/ push'.at = "completed" /\ push'.failed = push.failed /\ answered
         \/ push'.at = push.at /\ push'.failed = TRUE
  BY <1>1, <1>2 DEF Complete, Fields
<1>7. push'.failed \in BOOLEAN
  BY <1>6 DEF PushInv
<1>8. /\ PushInv' /\ Rdp' = Rdp /\ Rdi' = Rdi /\ DOMAIN rdis' = DOMAIN rdis
      /\ \A n \in DOMAIN rdis : rdis'[n] = IF n = Rdi THEN e ELSE rdis[n]
  <2>1. /\ push'.at \in Begun /\ rdps' = rdps /\ push'.mapped \subseteq Individuals
        /\ push'.todo \subseteq Individuals /\ push'.todo \subseteq Households /\ push'.todo \subseteq Records
        /\ push'.at = "households" => MasterDetail
    BY <1>1, <1>6 DEF Begun
  <2>2. QED
    BY <1>1, <1>4, <1>5, <1>6, <1>7, <2>1, RdiEffect
<1>9. (rdis[Rdi].complete => c) /\ (answered => c)
  BY <1>1
<1>10. QED
  <2> HIDE DEF c, e
  <2>1. QED
    BY <1>1, <1>2, <1>4, <1>6, <1>8, <1>9

\* The ways a step can be one of the status.
LEMMA StatusSteps ==
  ASSUME PushDataAssumption, PushInv, Retry \/ Fail \/ Finish \/ Cancel \/ \E k \in DOMAIN rdps : Reset(k)
  PROVE  \E i \in DOMAIN rdps, s \in RdpStatuses :
           /\ rdps' = [rdps EXCEPT ![i].status = s] /\ rdis' = rdis
           /\ \/ i = Rdp /\ s = "PUSH_PENDING" /\ push' = [Idle EXCEPT !.at = "start"]
                 /\ rdps[i].status = "FAILURE" /\ removed' = removed
              \/ i = Rdp /\ s = "FAILURE" /\ push' = Idle /\ rdps[i].status = "PUSH_PENDING" /\ removed' = removed
              \/ i = Rdp /\ s = "SUCCESS" /\ push' = Idle /\ rdps[i].status = "PUSH_PENDING"
                 /\ removed' = removed \cup Represented(rdps[i].sel) /\ push.at = "completed"
              \/ rdps[i].status = "FAILURE" /\ s = "CANCELLED" /\ push' = push /\ removed' = removed
              \/ rdps[i].status = "SUCCESS" /\ s = "CANCELLED" /\ push' = push
                 /\ removed' = removed \ Represented(rdps[i].sel)
<1>1. Rdp > 0 => Rdp \in DOMAIN rdps
  BY Latest DEF PushInv, Rdp
<1>2. \A s \in {"PUSH_PENDING", "FAILURE", "SUCCESS", "CANCELLED"} : s \in RdpStatuses
  BY DEF RdpStatuses
<1>3. CASE Retry
  BY <1>1, <1>2, <1>3 DEF Retry
<1>4. CASE Fail
  <2>1. push.at # "idle"
    BY <1>4 DEF Fail, PushInv
  <2>2. QED
    BY <1>1, <1>2, <1>4, <2>1 DEF Fail, PushInv
<1>5. CASE Finish
  <2>1. push.at = "completed" /\ push.at # "idle"
    BY <1>5 DEF Finish
  <2>2. Rdp > 0 /\ rdps[Rdp].status = "PUSH_PENDING"
    BY <2>1 DEF PushInv
  <2>3. QED
    BY <1>1, <1>2, <1>5, <2>1, <2>2 DEF Finish
<1>6. CASE Cancel
  BY <1>1, <1>2, <1>6 DEF Cancel
<1>7. CASE \E k \in DOMAIN rdps : Reset(k)
  BY <1>2, <1>7 DEF Reset, Succeeded
<1>8. QED
  BY <1>3, <1>4, <1>5, <1>6, <1>7

-----------------------------------------------------------------------------
(* Households                                                              *)

\* What an RDP of households stands for.
Stands(r, sel) == r \in sel \/ (r \in Individuals /\ Household[r] \in sel)

LEMMA RepresentedFact ==
  ASSUME PushDataAssumption, MasterDetail, NEW sel \in SUBSET Households
  PROVE  /\ \A r : r \in Represented(sel) <=> Stands(r, sel)
         /\ \A r : Stands(r, sel) => r \in Records
BY DEF Represented, Members, Stands, Records

\* Disjoint selections stand for disjoint records.
LEMMA StandsApart ==
  ASSUME PushDataAssumption, NEW s \in SUBSET Households, NEW t \in SUBSET Households, s \cap t = {}, NEW r,
         Stands(r, s)
  PROVE  ~Stands(r, t)
BY DEF Stands, PushDataAssumption

\* A change of status that leaves the rest of the rows.
LEMMA DataStatusStep ==
  ASSUME PushDataAssumption, MasterDetail, DataInv,
         Retry \/ Fail \/ Finish \/ Cancel \/ \E k \in DOMAIN rdps : Reset(k)
  PROVE  DataInv'
<1>1. PICK i \in DOMAIN rdps, s \in RdpStatuses :
           /\ rdps' = [rdps EXCEPT ![i].status = s] /\ rdis' = rdis
           /\ \/ i = Rdp /\ s = "PUSH_PENDING" /\ push' = [Idle EXCEPT !.at = "start"]
                 /\ rdps[i].status = "FAILURE" /\ removed' = removed
              \/ i = Rdp /\ s = "FAILURE" /\ push' = Idle /\ rdps[i].status = "PUSH_PENDING" /\ removed' = removed
              \/ i = Rdp /\ s = "SUCCESS" /\ push' = Idle /\ rdps[i].status = "PUSH_PENDING"
                 /\ removed' = removed \cup Represented(rdps[i].sel) /\ push.at = "completed"
              \/ rdps[i].status = "FAILURE" /\ s = "CANCELLED" /\ push' = push /\ removed' = removed
              \/ rdps[i].status = "SUCCESS" /\ s = "CANCELLED" /\ push' = push
                 /\ removed' = removed \ Represented(rdps[i].sel)
  BY StatusSteps DEF DataInv
<1>2. /\ PushInv' /\ DOMAIN rdps' = DOMAIN rdps /\ Rdp' = Rdp
      /\ \A k \in DOMAIN rdps : rdps'[k].sel = rdps[k].sel /\ rdps'[k].status = IF k = i THEN s ELSE rdps[k].status
  BY <1>1, StatusEffect DEF DataInv
<1>3. rdps[i].status # "CANCELLED" /\ \A k \in DOMAIN rdps : rdps[k].status = "CANCELLED" => rdps'[k].status = "CANCELLED"
  BY <1>1, <1>2
<1>4. \A k \in DOMAIN rdps : rdps[k].sel \subseteq Households
  BY DEF DataInv, PushInv
<1>5. CompletedIsClosed'
  BY <1>1, <1>2 DEF DataInv, CompletedIsClosed, PushInv
<1>6. RemovedIsPushed'
  <2>1. \A r : r \in removed <=> \E k \in DOMAIN rdps : rdps[k].status = "SUCCESS" /\ Stands(r, rdps[k].sel)
    <3>1. \A r : r \in removed <=> r \in Records /\ \E k \in Succeeded : Stands(r, rdps[k].sel)
      BY DEF DataInv, RemovedIsPushed, Stands
    <3>2. QED
      BY <1>4, <3>1, RepresentedFact DEF Succeeded
  <2>2. \A r : r \in removed' <=> \E k \in DOMAIN rdps : rdps'[k].status = "SUCCESS" /\ Stands(r, rdps[k].sel)
    <3>1. CASE removed' = removed /\ rdps[i].status # "SUCCESS" /\ s # "SUCCESS"
      BY <1>2, <2>1, <3>1
    <3>2. CASE removed' = removed \cup Represented(rdps[i].sel) /\ rdps[i].status # "SUCCESS" /\ s = "SUCCESS"
      <4>1. \A r : r \in removed' <=> r \in removed \/ Stands(r, rdps[i].sel)
        BY <1>4, <3>2, RepresentedFact
      <4>2. QED
        BY <1>2, <2>1, <3>2, <4>1
    <3>3. CASE removed' = removed \ Represented(rdps[i].sel) /\ rdps[i].status = "SUCCESS" /\ s = "CANCELLED"
      <4>1. \A r : r \in removed' <=> r \in removed /\ ~Stands(r, rdps[i].sel)
        BY <1>4, <3>3, RepresentedFact
      <4>2. \A k \in DOMAIN rdps : rdps[k].status = "SUCCESS" /\ k # i => rdps[k].sel \cap rdps[i].sel = {}
        BY <3>3 DEF DataInv
      <4>3. \A r : \A k \in DOMAIN rdps : rdps[k].status = "SUCCESS" /\ k # i /\ Stands(r, rdps[k].sel) =>
              ~Stands(r, rdps[i].sel)
        BY <1>4, <4>2, StandsApart
      <4>4. QED
        BY <1>2, <2>1, <3>3, <4>1, <4>3
    <3>4. QED
      BY <1>1, <3>1, <3>2, <3>3
  <2>3. \A r : r \in removed' <=> r \in Records /\ \E k \in Succeeded' : Stands(r, rdps'[k].sel)
    BY <1>2, <1>4, <2>2, RepresentedFact DEF Succeeded
  <2>4. QED
    BY <2>3 DEF RemovedIsPushed, Stands
<1>7. \A k, m \in DOMAIN rdps' : k # m /\ rdps'[k].status # "CANCELLED" /\ rdps'[m].status # "CANCELLED" =>
        rdps'[k].sel \cap rdps'[m].sel = {}
  BY <1>2, <1>3 DEF DataInv
<1>8. /\ push'.at = "start" => push'.mapped = {}
      /\ push'.at \in Begun => push'.at = push.at /\ push'.mapped = push.mapped /\ push'.todo = push.todo
  BY <1>1, IdleFact DEF DataInv, Begun
<1>9. Rdi' = Rdi
  BY <1>1 DEF Rdi
<1>10. rdps[Rdp].sel = rdps'[Rdp].sel
  <2>1. Rdp \in DOMAIN rdps
    BY <1>1, Latest DEF DataInv, PushInv, Rdp
  <2>2. QED
    BY <1>2, <2>1
<1>11. QED
  BY <1>1, <1>2, <1>5, <1>6, <1>7, <1>8, <1>9, <1>10 DEF DataInv, Begun

\* A new RDP has nobody of those that were not cancelled.
LEMMA DataCreateStep ==
  ASSUME PushDataAssumption, MasterDetail, DataInv, NEW sel \in SUBSET Records, Create(sel)
  PROVE  DataInv'
<1>1. /\ PushInv'
      /\ rdis' = rdis /\ removed' = removed /\ push'.at = "start" /\ push'.mapped = {}
      /\ DOMAIN rdps' = DOMAIN rdps \cup {Rdp'} /\ Rdp' \notin DOMAIN rdps
      /\ \A k \in DOMAIN rdps : rdps'[k] = rdps[k]
      /\ rdps'[Rdp'].sel = sel /\ rdps'[Rdp'].status = "PUSH_PENDING"
  BY CreateEffect DEF DataInv
<1>2. \A k \in DOMAIN rdps : rdps[k].status # "CANCELLED" => rdps[k].sel \cap sel = {}
  <2>1. 0 \notin DOMAIN rdps
    BY Latest DEF DataInv, PushInv
  <2>2. QED
    BY <2>1 DEF Create, Preflight
<1>3. CompletedIsClosed'
  BY <1>1 DEF DataInv, CompletedIsClosed, PushInv
<1>4. RemovedIsPushed'
  <2>1. Succeeded' = Succeeded /\ \A k \in Succeeded : rdps'[k].sel = rdps[k].sel
    BY <1>1 DEF Succeeded
  <2>2. QED
    BY <1>1, <2>1 DEF DataInv, RemovedIsPushed
<1>5. \A k, m \in DOMAIN rdps' : k # m /\ rdps'[k].status # "CANCELLED" /\ rdps'[m].status # "CANCELLED" =>
        rdps'[k].sel \cap rdps'[m].sel = {}
  <2>1. \A k, m \in DOMAIN rdps : k # m /\ rdps[k].status # "CANCELLED" /\ rdps[m].status # "CANCELLED" =>
          rdps[k].sel \cap rdps[m].sel = {}
    BY DEF DataInv
  <2>2. QED
    BY <1>1, <1>2, <2>1
<1>6. QED
  BY <1>1, <1>3, <1>4, <1>5 DEF DataInv, Begun

\* The steps of a push leave the RDPs and what is removed as they are.
LEMMA DataRdpsKept ==
  ASSUME DataInv, UNCHANGED <<rdps, removed>>
  PROVE  /\ RemovedIsPushed'
         /\ \A k, m \in DOMAIN rdps' : k # m /\ rdps'[k].status # "CANCELLED" /\ rdps'[m].status # "CANCELLED" =>
              rdps'[k].sel \cap rdps'[m].sel = {}
BY DEF DataInv, RemovedIsPushed, Succeeded

LEMMA DataPushStep ==
  ASSUME PushDataAssumption, MasterDetail, DataInv,
         \/ \E answered \in BOOLEAN : CreateRdi(answered)
         \/ ReadIndividuals \/ ReadHouseholds
         \/ \E done, answered \in BOOLEAN : Complete(done, answered)
  PROVE  DataInv'
<1>1. PushInv /\ (push.at \in Begun => Rdi \in DOMAIN rdis)
  BY AtWork DEF DataInv
<1>2. CASE \E answered \in BOOLEAN : CreateRdi(answered)
  <2>1. /\ PushInv' /\ UNCHANGED <<rdps, removed>> /\ push'.mapped = push.mapped
        /\ \/ rdis' = rdis /\ push'.at = "start"
           \/ /\ push.at = "start" /\ push'.at = "created"
              /\ DOMAIN rdis' = DOMAIN rdis \cup {Rdi'} /\ \A n \in DOMAIN rdis : rdis'[n] = rdis[n]
              /\ Rdi' \notin DOMAIN rdis
              /\ rdis'[Rdi'] = [rdp |-> Rdp, inds |-> {}, hhs |-> {}, complete |-> FALSE]
    BY <1>1, <1>2, CreateRdiEffect
  <2>2. push.mapped = {}
    <3>1. push.at = "start"
      BY <1>2 DEF CreateRdi
    <3>2. QED
      BY <3>1 DEF DataInv
  <2>3. CASE rdis' = rdis /\ push'.at = "start"
    BY <2>1, <2>2, <2>3, DataRdpsKept DEF DataInv, CompletedIsClosed, Begun
  <2>4. CASE /\ push'.at = "created"
             /\ DOMAIN rdis' = DOMAIN rdis \cup {Rdi'} /\ \A n \in DOMAIN rdis : rdis'[n] = rdis[n]
             /\ rdis'[Rdi'] = [rdp |-> Rdp, inds |-> {}, hhs |-> {}, complete |-> FALSE]
    <3>1. rdis'[Rdi'].hhs = {} /\ rdis'[Rdi'].complete = FALSE
      BY <2>4
    <3>2. CompletedIsClosed'
      BY <2>1, <2>4, <3>1 DEF DataInv, CompletedIsClosed
    <3>3. \A n \in DOMAIN rdis' : \A x \in rdis'[n].hhs : x.refs \subseteq rdis'[n].inds
      BY <2>4, <3>1 DEF DataInv
    <3>4. QED
      BY <2>1, <2>2, <2>4, <3>1, <3>2, <3>3, DataRdpsKept DEF DataInv
  <2>5. QED
    BY <2>1, <2>3, <2>4
<1>3. CASE ReadIndividuals \/ ReadHouseholds
  <2>1. /\ PushInv' /\ UNCHANGED <<rdps, rdis, removed>> /\ push'.mapped = push.mapped
        /\ \/ push.at = "created" /\ push'.at = "individuals" /\ push'.todo = ForPush(rdps[Rdp].sel)
           \/ push.at = "individuals" /\ MasterDetail /\ push'.at = "households" /\ push'.todo = rdps[Rdp].sel
    BY <1>1, <1>3, ReadEffect
  <2>2. Rdi' = Rdi /\ Rdp' = Rdp /\ push.at \in Begun
    BY <2>1 DEF Rdi, Rdp, Begun
  <2>3. CompletedIsClosed'
    BY <2>1 DEF DataInv, CompletedIsClosed
  <2>4. rdis[Rdi].hhs = {} /\ push.mapped \subseteq rdis[Rdi].inds
    BY <2>1, <2>2 DEF DataInv
  <2>5. {x.hh : x \in rdis[Rdi].hhs} = {}
    BY <2>4
  <2>6. QED
    BY <2>1, <2>2, <2>3, <2>4, <2>5, DataRdpsKept DEF DataInv
<1>4. CASE \E done, answered \in BOOLEAN : Complete(done, answered)
  <2>1. /\ PushInv' /\ UNCHANGED <<rdps, removed>> /\ Rdi' = Rdi /\ Rdp' = Rdp /\ DOMAIN rdis' = DOMAIN rdis
        /\ push.at = "households" /\ push.todo = {} /\ Rdi \in DOMAIN rdis /\ push'.mapped = push.mapped
        /\ \A n \in DOMAIN rdis : n # Rdi => rdis'[n] = rdis[n]
        /\ rdis'[Rdi].rdp = rdis[Rdi].rdp /\ rdis'[Rdi].inds = rdis[Rdi].inds /\ rdis'[Rdi].hhs = rdis[Rdi].hhs
        /\ \/ push'.at = "completed" /\ rdis'[Rdi].complete
           \/ push'.at = push.at /\ push'.todo = push.todo
    BY <1>1, <1>4, CompleteEffect
  <2>2. {x.hh : x \in rdis[Rdi].hhs} = rdps[Rdp].sel /\ rdis[Rdi].rdp = Rdp /\ push.mapped \subseteq rdis[Rdi].inds
    BY <2>1 DEF DataInv, PushInv, Begun
  <2>3. \A n \in DOMAIN rdis' : \A x \in rdis'[n].hhs : x.refs \subseteq rdis'[n].inds
    BY <2>1 DEF DataInv
  <2>4. CompletedIsClosed'
    BY <2>1, <2>2, <2>3 DEF DataInv, CompletedIsClosed
  <2>5. QED
    BY <2>1, <2>2, <2>3, <2>4, DataRdpsKept DEF DataInv, Begun
<1>5. QED
  BY <1>2, <1>3, <1>4

LEMMA DataPostStep ==
  ASSUME PushDataAssumption, MasterDetail, DataInv, NEW b \in SUBSET push.todo, NEW a \in Answers(b),
         PostIndividuals(b, a) \/ PostHouseholds(b, a)
  PROVE  DataInv'
<1>1. PushInv
  BY DEF DataInv
<1>2. CASE PostIndividuals(b, a)
  <2>1. /\ PushInv' /\ UNCHANGED <<rdps, removed>> /\ Rdi' = Rdi /\ Rdp' = Rdp /\ DOMAIN rdis' = DOMAIN rdis
        /\ push.at = "individuals" /\ push'.at = "individuals" /\ Rdi \in DOMAIN rdis
        /\ \A n \in DOMAIN rdis : n # Rdi => rdis'[n] = rdis[n]
        /\ rdis'[Rdi].rdp = rdis[Rdi].rdp /\ rdis'[Rdi].hhs = rdis[Rdi].hhs
        /\ rdis'[Rdi].complete = rdis[Rdi].complete
        /\ rdis'[Rdi].inds = rdis[Rdi].inds \cup a.kept
        /\ push'.mapped \subseteq push.mapped \cup a.kept
    BY <1>1, <1>2, PostIndividualsEffect
  <2>2. push.mapped \subseteq rdis[Rdi].inds /\ rdis[Rdi].hhs = {}
    BY <2>1 DEF DataInv, Begun
  <2>3. \A n \in DOMAIN rdis' : \A x \in rdis'[n].hhs : x.refs \subseteq rdis'[n].inds
    BY <2>1, <2>2 DEF DataInv
  <2>4. CompletedIsClosed'
    <3>1. \A n \in DOMAIN rdis : rdis'[n].complete = rdis[n].complete /\ rdis'[n].hhs = rdis[n].hhs
                                 /\ rdis'[n].rdp = rdis[n].rdp
      BY <2>1
    <3>2. QED
      BY <2>1, <2>3, <3>1 DEF DataInv, CompletedIsClosed
  <2>5. push'.mapped \subseteq rdis'[Rdi].inds
    BY <2>1, <2>2
  <2>6. QED
    BY <2>1, <2>2, <2>3, <2>4, <2>5, DataRdpsKept DEF DataInv
<1>3. CASE PostHouseholds(b, a)
  <2>1. /\ PushInv' /\ UNCHANGED <<rdps, removed>> /\ Rdi' = Rdi /\ Rdp' = Rdp /\ DOMAIN rdis' = DOMAIN rdis
        /\ push.at = "households" /\ push'.at = "households" /\ Rdi \in DOMAIN rdis /\ push'.mapped = push.mapped
        /\ \A n \in DOMAIN rdis : n # Rdi => rdis'[n] = rdis[n]
        /\ rdis'[Rdi].rdp = rdis[Rdi].rdp /\ rdis'[Rdi].inds = rdis[Rdi].inds
        /\ rdis'[Rdi].complete = rdis[Rdi].complete
        /\ \/ rdis'[Rdi].hhs = rdis[Rdi].hhs /\ push'.todo = push.todo
           \/ /\ BatchMaps(b) /\ a.kept \subseteq push.todo
              /\ rdis'[Rdi].hhs = rdis[Rdi].hhs \cup {[hh |-> h, refs |-> Referred(h)] : h \in a.kept}
              /\ \A h \in a.kept : Referred(h) \subseteq push.mapped
              /\ push'.todo \subseteq push.todo /\ push.todo \subseteq push'.todo \cup a.kept
    BY <1>1, <1>3, PostHouseholdsEffect
  <2>2. /\ push.mapped \subseteq rdis[Rdi].inds /\ rdis[Rdi].rdp = Rdp
        /\ {x.hh : x \in rdis[Rdi].hhs} \cup push.todo = rdps[Rdp].sel
    BY <2>1 DEF DataInv, PushInv, Begun
  <2> DEFINE new == {[hh |-> h, refs |-> Referred(h)] : h \in a.kept}
             names == {x.hh : x \in rdis[Rdi].hhs}
  <2>3. {x.hh : x \in new} = a.kept /\ {x.hh : x \in rdis[Rdi].hhs \cup new} = names \cup {x.hh : x \in new}
    <3>1. \A x \in new : x.hh \in a.kept
      OBVIOUS
    <3>2. \A h \in a.kept : [hh |-> h, refs |-> Referred(h)] \in new /\ [hh |-> h, refs |-> Referred(h)].hh = h
      OBVIOUS
    <3>3. QED
      BY <3>1, <3>2
  <2>4. \A x \in new : x.refs \subseteq push.mapped \/ ~\A h \in a.kept : Referred(h) \subseteq push.mapped
    OBVIOUS
  <2>5. \A n \in DOMAIN rdis' : \A x \in rdis'[n].hhs : x.refs \subseteq rdis'[n].inds
    <3>1. \A n \in DOMAIN rdis : \A x \in rdis[n].hhs : x.refs \subseteq rdis[n].inds
      BY DEF DataInv
    <3>2. \A x \in rdis'[Rdi].hhs : x.refs \subseteq rdis[Rdi].inds
      <4> HIDE DEF new
      <4>1. \A x \in rdis'[Rdi].hhs : x \in rdis[Rdi].hhs \/ (x \in new /\ \A h \in a.kept : Referred(h) \subseteq push.mapped)
        BY <2>1 DEF new
      <4>2. QED
        BY <2>1, <2>2, <2>4, <3>1, <4>1
    <3>3. QED
      BY <2>1, <3>1, <3>2
  <2>6. /\ {x.hh : x \in rdis'[Rdi].hhs} \cup push'.todo = rdps[Rdp].sel
        /\ push.todo = {} => rdis'[Rdi].hhs = rdis[Rdi].hhs \/ a.kept = {}
    <3>1. CASE rdis'[Rdi].hhs = rdis[Rdi].hhs /\ push'.todo = push.todo
      BY <2>2, <3>1
    <3>2. CASE /\ rdis'[Rdi].hhs = rdis[Rdi].hhs \cup new /\ a.kept \subseteq push.todo
               /\ push'.todo \subseteq push.todo /\ push.todo \subseteq push'.todo \cup a.kept
      <4>1. {x.hh : x \in rdis'[Rdi].hhs} = names \cup a.kept
        BY <2>3, <3>2
      <4>2. QED
        <5> HIDE DEF new, names
        <5>1. names \cup push.todo = rdps[Rdp].sel
          BY <2>2 DEF names
        <5>2. QED
          BY <3>2, <4>1, <5>1
    <3>3. QED
      BY <2>1, <3>1, <3>2
  <2>7. rdis[Rdi].complete => {x.hh : x \in rdis'[Rdi].hhs} = rdps[Rdp].sel
    <3>1. rdis[Rdi].complete => names = rdps[Rdp].sel
      BY <2>1, <2>2 DEF DataInv, CompletedIsClosed
    <3>2. names \subseteq {x.hh : x \in rdis'[Rdi].hhs}
      BY <2>1
    <3>3. {x.hh : x \in rdis'[Rdi].hhs} \subseteq rdps[Rdp].sel
      BY <2>6
    <3>4. QED
      BY <3>1, <3>2, <3>3
  <2>8. CompletedIsClosed'
    BY <2>1, <2>2, <2>5, <2>7 DEF DataInv, CompletedIsClosed
  <2>9. QED
    BY <2>1, <2>2, <2>5, <2>6, <2>8, DataRdpsKept DEF DataInv, Begun
<1>4. QED
  BY <1>2, <1>3

LEMMA DataEditStep ==
  ASSUME PushDataAssumption, DataInv, (\E r \in Records : Edit(r)) \/ UNCHANGED vars
  PROVE  DataInv'
<1>1. UNCHANGED <<removed, rdps, rdis, push>>
  BY DEF Edit, vars
<1>2. Rdp' = Rdp /\ Rdi' = Rdi
  BY <1>1 DEF Rdp, Rdi
<1>3. PushInv'
  BY <1>1, <1>2 DEF DataInv, PushInv
<1>4. CompletedIsClosed'
  BY <1>1 DEF DataInv, CompletedIsClosed
<1>5. QED
  BY <1>1, <1>2, <1>3, <1>4, DataRdpsKept DEF DataInv

LEMMA DataNext == ASSUME PushDataAssumption, MasterDetail PROVE DataInv /\ [Steps]_vars => DataInv'
<1> SUFFICES ASSUME DataInv, [Steps]_vars PROVE DataInv'
  OBVIOUS
<1>1. CASE \E sel \in SUBSET Records : Create(sel)
  BY <1>1, DataCreateStep
<1>2. CASE Retry \/ Fail \/ Finish \/ Cancel \/ \E k \in DOMAIN rdps : Reset(k)
  BY <1>2, DataStatusStep
<1>3. CASE \/ \E answered \in BOOLEAN : CreateRdi(answered)
           \/ ReadIndividuals \/ ReadHouseholds
           \/ \E done, answered \in BOOLEAN : Complete(done, answered)
  BY <1>3, DataPushStep
<1>4. CASE \E b \in SUBSET push.todo : \E a \in Answers(b) : PostIndividuals(b, a) \/ PostHouseholds(b, a)
  BY <1>4, DataPostStep
<1>5. CASE (\E r \in Records : Edit(r)) \/ UNCHANGED vars
  BY <1>5, DataEditStep
<1>6. QED
  BY <1>1, <1>2, <1>3, <1>4, <1>5 DEF Steps

LEMMA InitPush == ASSUME PushDataAssumption, Init PROVE PushInv
<1>1. rdps = <<>> /\ rdis = <<>> /\ push = Idle
  BY DEF Init
<1>2. rdps \in Seq(RdpRows) /\ rdis \in Seq(RdiRows) /\ Len(rdps) = 0 /\ Len(rdis) = 0 /\ DOMAIN rdps = {} /\ DOMAIN rdis = {}
  BY <1>1
<1>3. 0 <= MaxRdps /\ 0 <= MaxRdis
  BY DEF PushDataAssumption
<1>4. /\ DOMAIN push = {"at", "todo", "rows", "mapped", "failed"} /\ push.at = "idle"
      /\ push.todo = {} /\ push.mapped = {} /\ push.failed = FALSE
  BY <1>1, IdleFact DEF Fields
<1>5. /\ \A k \in DOMAIN rdps : rdps[k].sel \subseteq IF MasterDetail THEN Households ELSE Individuals
      /\ \A n \in DOMAIN rdis : rdis[n].rdp \in DOMAIN rdps
  BY <1>2
<1>6. Rdp <= MaxRdps /\ Rdi <= MaxRdis /\ Rdp = 0
  BY <1>2, <1>3 DEF Rdp, Rdi
<1>7. push.at \notin {"individuals", "households"} \cup Begun
  BY <1>4 DEF Begun
<1>8. push.at # "idle" <=> Rdp > 0 /\ rdps[Rdp].status = "PUSH_PENDING"
  BY <1>4, <1>6
<1>9. QED
  BY <1>2, <1>4, <1>5, <1>6, <1>7, <1>8 DEF PushInv

LEMMA DataInit == ASSUME PushDataAssumption, Init PROVE DataInv
<1>1. DOMAIN rdps = {} /\ DOMAIN rdis = {} /\ push = Idle /\ removed = {} /\ Succeeded = {}
  BY DEF Init, Succeeded
<1>2. CompletedIsClosed /\ RemovedIsPushed
  BY <1>1 DEF CompletedIsClosed, RemovedIsPushed
<1>3. QED
  BY <1>1, <1>2, InitPush, IdleFact DEF DataInv, Begun

-----------------------------------------------------------------------------
(* People                                                                  *)

\* What was sent stays in the RDI.
LEMMA SentKept ==
  ASSUME RemovedWereSent, DOMAIN rdis \subseteq DOMAIN rdis',
         \A n \in DOMAIN rdis :
           /\ rdis'[n].rdp = rdis[n].rdp /\ (rdis[n].complete => rdis'[n].complete)
           /\ rdis[n].inds \subseteq rdis'[n].inds /\ rdis[n].hhs \subseteq rdis'[n].hhs,
         \A k \in Succeeded' : k \in Succeeded /\ rdps'[k].sel = rdps[k].sel
  PROVE  RemovedWereSent'
<1> SUFFICES ASSUME NEW k \in Succeeded'
             PROVE  \E n \in DOMAIN rdis' :
                      /\ rdis'[n].rdp = k /\ rdis'[n].complete
                      /\ Represented(rdps'[k].sel) \subseteq rdis'[n].inds \cup {x.hh : x \in rdis'[n].hhs}
  BY DEF RemovedWereSent, Represented, Members
<1>1. PICK n \in DOMAIN rdis :
        /\ rdis[n].rdp = k /\ rdis[n].complete
        /\ Represented(rdps[k].sel) \subseteq rdis[n].inds \cup {x.hh : x \in rdis[n].hhs}
  BY DEF RemovedWereSent
<1>2. {x.hh : x \in rdis[n].hhs} \subseteq {x.hh : x \in rdis'[n].hhs} /\ rdps'[k].sel = rdps[k].sel
  OBVIOUS
<1>3. rdis'[n].rdp = k /\ rdis'[n].complete /\ n \in DOMAIN rdis' /\ rdis[n].inds \subseteq rdis'[n].inds
  BY <1>1
<1>4. Represented(rdps'[k].sel) \subseteq rdis'[n].inds \cup {x.hh : x \in rdis'[n].hhs}
  BY <1>1, <1>2, <1>3
<1>5. QED
  BY <1>3, <1>4

LEMMA PeopleStatusStep ==
  ASSUME PushDataAssumption, ~MasterDetail, PeopleInv,
         Retry \/ Fail \/ Finish \/ Cancel \/ \E k \in DOMAIN rdps : Reset(k)
  PROVE  PeopleInv'
<1>1. PICK i \in DOMAIN rdps, s \in RdpStatuses :
           /\ rdps' = [rdps EXCEPT ![i].status = s] /\ rdis' = rdis
           /\ \/ i = Rdp /\ s = "PUSH_PENDING" /\ push' = [Idle EXCEPT !.at = "start"]
                 /\ rdps[i].status = "FAILURE" /\ removed' = removed
              \/ i = Rdp /\ s = "FAILURE" /\ push' = Idle /\ rdps[i].status = "PUSH_PENDING" /\ removed' = removed
              \/ i = Rdp /\ s = "SUCCESS" /\ push' = Idle /\ rdps[i].status = "PUSH_PENDING"
                 /\ removed' = removed \cup Represented(rdps[i].sel) /\ push.at = "completed"
              \/ rdps[i].status = "FAILURE" /\ s = "CANCELLED" /\ push' = push /\ removed' = removed
              \/ rdps[i].status = "SUCCESS" /\ s = "CANCELLED" /\ push' = push
                 /\ removed' = removed \ Represented(rdps[i].sel)
  BY StatusSteps DEF PeopleInv
<1>2. /\ PushInv' /\ DOMAIN rdps' = DOMAIN rdps /\ Rdp' = Rdp
      /\ \A k \in DOMAIN rdps : rdps'[k].sel = rdps[k].sel /\ rdps'[k].status = IF k = i THEN s ELSE rdps[k].status
  <2>1. PushInv
    BY DEF PeopleInv
  <2>2. \/ i = Rdp /\ s = "PUSH_PENDING" /\ push' = [Idle EXCEPT !.at = "start"]
        \/ i = Rdp /\ s \in {"FAILURE", "SUCCESS"} /\ push' = Idle
        \/ rdps[i].status # "PUSH_PENDING" /\ s = "CANCELLED" /\ push' = push
    BY <1>1
  <2>3. QED
    BY <1>1, <2>1, <2>2, StatusEffect
<1>3. Rdi' = Rdi /\ Rdp \in DOMAIN rdps
  BY <1>1, Latest DEF PeopleInv, PushInv, Rdi, Rdp
<1>4. RemovedWereSent'
  <2>1. CASE s = "SUCCESS"
    <3>1. i = Rdp /\ push.at = "completed"
      BY <1>1, <2>1
    <3>2. Rdi \in DOMAIN rdis /\ rdis[Rdi].rdp = Rdp /\ rdis[Rdi].complete /\ rdps[Rdp].sel \subseteq rdis[Rdi].inds
      BY <3>1, AtWork DEF PeopleInv, Begun
    <3>3. \A sel : Represented(sel) = sel
      BY DEF Represented
    <3>4. ASSUME NEW k \in Succeeded'
          PROVE  \E n \in DOMAIN rdis : /\ rdis[n].rdp = k /\ rdis[n].complete
                   /\ Represented(rdps'[k].sel) \subseteq rdis[n].inds \cup {x.hh : x \in rdis[n].hhs}
      <4>1. CASE k = Rdp
        BY <1>2, <1>3, <3>2, <3>3, <4>1
      <4>2. CASE k # Rdp
        BY <1>2, <3>1, <4>2 DEF Succeeded, PeopleInv, RemovedWereSent
      <4>3. QED
        BY <4>1, <4>2
    <3>5. QED
      BY <1>1, <3>4 DEF RemovedWereSent, Represented, Members
  <2>2. CASE s # "SUCCESS"
    <3>1. \A k \in Succeeded' : k \in Succeeded /\ rdps'[k].sel = rdps[k].sel
      BY <1>2, <2>2 DEF Succeeded
    <3>2. QED
      BY <1>1, <3>1, SentKept DEF PeopleInv
  <2>3. QED
    BY <2>1, <2>2
<1>5. push'.at \in Begun => push' = push
  BY <1>1, IdleFact DEF Begun
<1>6. rdps'[Rdp].sel = rdps[Rdp].sel
  BY <1>2, <1>3
<1>7. QED
  BY <1>1, <1>2, <1>3, <1>4, <1>5, <1>6 DEF PeopleInv, Begun

LEMMA PeopleStep ==
  ASSUME PushDataAssumption, ~MasterDetail, PeopleInv,
         \/ \E sel \in SUBSET Records : Create(sel)
         \/ \E answered \in BOOLEAN : CreateRdi(answered)
         \/ ReadIndividuals \/ ReadHouseholds
         \/ \E b \in SUBSET push.todo : \E a \in Answers(b) : PostIndividuals(b, a) \/ PostHouseholds(b, a)
         \/ \E done, answered \in BOOLEAN : Complete(done, answered)
  PROVE  PeopleInv'
<1>1. PushInv /\ RemovedWereSent /\ (push.at \in Begun => Rdi \in DOMAIN rdis)
  BY AtWork DEF PeopleInv
<1>2. CASE \E sel \in SUBSET Records : Create(sel)
  <2>1. /\ PushInv' /\ rdis' = rdis /\ push'.at = "start" /\ Rdp' \notin DOMAIN rdps
        /\ DOMAIN rdps' = DOMAIN rdps \cup {Rdp'} /\ rdps'[Rdp'].status = "PUSH_PENDING"
        /\ \A k \in DOMAIN rdps : rdps'[k] = rdps[k]
    BY <1>1, <1>2, CreateEffect
  <2>2. \A k \in Succeeded' : k \in Succeeded /\ rdps'[k].sel = rdps[k].sel
    BY <2>1 DEF Succeeded
  <2>3. QED
    BY <1>1, <2>1, <2>2, SentKept DEF PeopleInv
<1>3. rdps' = rdps => \A k \in Succeeded' : k \in Succeeded /\ rdps'[k].sel = rdps[k].sel
  BY DEF Succeeded
<1>4. CASE \E answered \in BOOLEAN : CreateRdi(answered)
  <2>1. /\ PushInv' /\ rdps' = rdps
        /\ \/ rdis' = rdis /\ push'.at = "start"
           \/ /\ push'.at = "created"
              /\ DOMAIN rdis' = DOMAIN rdis \cup {Rdi'} /\ \A n \in DOMAIN rdis : rdis'[n] = rdis[n]
    BY <1>1, <1>4, CreateRdiEffect
  <2>2. QED
    BY <1>1, <1>3, <2>1, SentKept DEF PeopleInv
<1>5. CASE ReadIndividuals \/ ReadHouseholds
  <2>1. /\ PushInv' /\ rdps' = rdps /\ rdis' = rdis
        /\ push'.at = "individuals" /\ push'.todo = ForPush(rdps[Rdp].sel)
    BY <1>1, <1>5, ReadEffect
  <2>2. push'.todo = rdps'[Rdp'].sel
    BY <2>1 DEF ForPush, Rdp
  <2>3. QED
    BY <1>1, <1>3, <2>1, <2>2, SentKept DEF PeopleInv
<1>6. CASE \E b \in SUBSET push.todo : \E a \in Answers(b) : PostIndividuals(b, a) \/ PostHouseholds(b, a)
  <2>0. PICK b \in SUBSET push.todo : \E a \in Answers(b) : PostIndividuals(b, a) \/ PostHouseholds(b, a)
    BY <1>6
  <2>1. PICK a \in Answers(b) : PostIndividuals(b, a) \/ PostHouseholds(b, a)
    BY <2>0
  <2>2. PostIndividuals(b, a)
    <3>1. ~PostHouseholds(b, a)
      BY DEF PostHouseholds, PeopleInv, PushInv
    <3>2. QED
      BY <2>1, <3>1
  <2>3. /\ PushInv' /\ rdps' = rdps /\ Rdi' = Rdi /\ Rdp' = Rdp /\ DOMAIN rdis' = DOMAIN rdis
        /\ push.at = "individuals" /\ push'.at = "individuals" /\ Rdi \in DOMAIN rdis
        /\ \A n \in DOMAIN rdis : n # Rdi => rdis'[n] = rdis[n]
        /\ rdis'[Rdi].rdp = rdis[Rdi].rdp /\ rdis'[Rdi].hhs = rdis[Rdi].hhs
        /\ rdis'[Rdi].complete = rdis[Rdi].complete
        /\ rdis'[Rdi].inds = rdis[Rdi].inds \cup a.kept
        /\ push.todo \subseteq push'.todo \cup a.kept
    BY <1>1, <2>2, PostIndividualsEffect
  <2>4. RemovedWereSent'
    <3>1. \A n \in DOMAIN rdis :
           /\ rdis'[n].rdp = rdis[n].rdp /\ (rdis[n].complete => rdis'[n].complete)
           /\ rdis[n].inds \subseteq rdis'[n].inds /\ rdis[n].hhs \subseteq rdis'[n].hhs
      BY <2>3
    <3>2. QED
      BY <1>1, <1>3, <2>3, <3>1, SentKept
  <2>5. rdps[Rdp].sel \subseteq push'.todo \cup rdis'[Rdi].inds
    <3>1. rdps[Rdp].sel \subseteq push.todo \cup rdis[Rdi].inds
      BY <2>3 DEF PeopleInv
    <3>2. QED
      BY <2>3, <3>1
  <2>6. QED
    BY <2>3, <2>4, <2>5 DEF PeopleInv
<1>7. CASE \E done, answered \in BOOLEAN : Complete(done, answered)
  <2>1. /\ PushInv' /\ rdps' = rdps /\ Rdi' = Rdi /\ Rdp' = Rdp /\ DOMAIN rdis' = DOMAIN rdis
        /\ push.at = "individuals" /\ push.todo = {} /\ Rdi \in DOMAIN rdis
        /\ \A n \in DOMAIN rdis : n # Rdi => rdis'[n] = rdis[n]
        /\ rdis'[Rdi].rdp = rdis[Rdi].rdp /\ rdis'[Rdi].inds = rdis[Rdi].inds /\ rdis'[Rdi].hhs = rdis[Rdi].hhs
        /\ rdis[Rdi].complete => rdis'[Rdi].complete
        /\ \/ push'.at = "completed" /\ rdis'[Rdi].complete
           \/ push'.at = push.at /\ push'.todo = push.todo
    BY <1>1, <1>7, CompleteEffect
  <2>2. rdps[Rdp].sel \subseteq rdis[Rdi].inds
    BY <2>1 DEF PeopleInv
  <2>3. RemovedWereSent'
    <3>1. \A n \in DOMAIN rdis :
           /\ rdis'[n].rdp = rdis[n].rdp /\ (rdis[n].complete => rdis'[n].complete)
           /\ rdis[n].inds \subseteq rdis'[n].inds /\ rdis[n].hhs \subseteq rdis'[n].hhs
      BY <2>1
    <3>2. QED
      BY <1>1, <1>3, <2>1, <3>1, SentKept
  <2>4. QED
    BY <2>1, <2>2, <2>3 DEF PeopleInv
<1>8. QED
  BY <1>2, <1>4, <1>5, <1>6, <1>7

LEMMA PeopleNext == ASSUME PushDataAssumption, ~MasterDetail PROVE PeopleInv /\ [Steps]_vars => PeopleInv'
<1> SUFFICES ASSUME PeopleInv, [Steps]_vars PROVE PeopleInv'
  OBVIOUS
<1>1. CASE (\E r \in Records : Edit(r)) \/ UNCHANGED vars
  <2>1. UNCHANGED <<rdps, rdis, push>>
    BY <1>1 DEF Edit, vars
  <2>2. Rdp' = Rdp /\ Rdi' = Rdi /\ Succeeded' = Succeeded
    BY <2>1 DEF Rdp, Rdi, Succeeded
  <2>3. PushInv'
    BY <2>1, <2>2 DEF PeopleInv, PushInv
  <2>4. RemovedWereSent'
    BY <2>1, <2>2, SentKept DEF PeopleInv
  <2>5. QED
    BY <2>1, <2>2, <2>3, <2>4 DEF PeopleInv
<1>2. CASE Retry \/ Fail \/ Finish \/ Cancel \/ \E k \in DOMAIN rdps : Reset(k)
  BY <1>2, PeopleStatusStep
<1>3. QED
  BY <1>1, <1>2, PeopleStep DEF Steps

LEMMA PeopleInit == ASSUME PushDataAssumption, Init PROVE PeopleInv
<1>1. push = Idle /\ Succeeded = {}
  BY DEF Init, Succeeded
<1>2. RemovedWereSent
  BY <1>1 DEF RemovedWereSent
<1>3. QED
  BY <1>1, <1>2, InitPush, IdleFact DEF PeopleInv

-----------------------------------------------------------------------------
(* The types                                                               *)

\* What the invariants of a push say of the types.
LEMMA PushTypes ==
  ASSUME PushInv
  PROVE  /\ Rdp <= MaxRdps /\ Rdi <= MaxRdis
         /\ \A k \in DOMAIN rdps : rdps[k].sel \subseteq Records
              /\ rdps[k].status \in {"PUSH_PENDING", "FAILURE", "SUCCESS", "CANCELLED"}
         /\ \A n \in DOMAIN rdis : rdis[n].rdp \in DOMAIN rdps /\ rdis[n].inds \subseteq Individuals
         /\ push.at \in {"idle", "start", "created", "individuals", "households", "completed"}
         /\ push.at # "idle" <=> Rdp > 0 /\ rdps[Rdp].status = "PUSH_PENDING"
<1>1. \A k \in DOMAIN rdps : rdps[k] \in RdpRows
  BY DEF PushInv
<1>2. \A n \in DOMAIN rdis : rdis[n] \in RdiRows
  BY DEF PushInv
<1>3. \A k \in DOMAIN rdps : rdps[k].sel \subseteq Records
       /\ rdps[k].status \in {"PUSH_PENDING", "FAILURE", "SUCCESS", "CANCELLED"}
  BY <1>1 DEF RdpRows
<1>4. \A n \in DOMAIN rdis : rdis[n].inds \subseteq Individuals
  BY <1>2 DEF RdiRows
<1>5. QED
  BY <1>3, <1>4 DEF PushInv, Begun

\* What is removed, validated or edited is one of the records, and a role reference is one.
RecordTypes ==
  /\ roles \in [Households -> [RoleFields -> Refs]]
  /\ valid \subseteq Records /\ removed \subseteq Records /\ edits \in 0..MaxEdits

LEMMA RecordTypesStep ==
  ASSUME PushDataAssumption, PushInv, RecordTypes, [Steps]_vars
  PROVE  RecordTypes'
<1>1. CASE UNCHANGED <<roles, valid, removed, edits>>
  BY <1>1 DEF RecordTypes
<1>2. CASE Finish
  <2>1. Rdp \in DOMAIN rdps
    <3>1. Rdp > 0
      BY <1>2 DEF Finish, PushInv
    <3>2. QED
      BY <3>1 DEF PushInv, Rdp
  <2>2. Represented(rdps[Rdp].sel) \subseteq Records
    BY <2>1, PushTypes DEF Represented, Members, Records
  <2>3. QED
    BY <1>2, <2>2 DEF Finish, RecordTypes
<1>3. CASE \E k \in DOMAIN rdps : Reset(k)
  BY <1>3 DEF Reset, RecordTypes
<1>4. ASSUME NEW r \in Records, Edit(r) PROVE RecordTypes'
  <2>1. edits' \in 0..MaxEdits
    BY <1>4 DEF Edit, RecordTypes, PushDataAssumption
  <2>2. valid' \subseteq Records /\ removed' = removed
    BY <1>4 DEF Edit, RecordTypes
  <2>3. roles' \in [Households -> [RoleFields -> Refs]]
    <3>1. CASE r \in Households
      <4>1. PICK f \in RoleFields, ref \in EditRefs : roles' = [roles EXCEPT ![r][f] = ref]
        BY <1>4, <3>1 DEF Edit
      <4>2. ref \in Refs /\ roles[r] \in [RoleFields -> Refs]
        BY <3>1 DEF PushDataAssumption, RecordTypes
      <4>3. [roles[r] EXCEPT ![f] = ref] \in [RoleFields -> Refs]
        BY <4>2
      <4>4. QED
        BY <3>1, <4>1, <4>3 DEF RecordTypes
    <3>2. CASE r \notin Households
      BY <1>4, <3>2 DEF Edit, RecordTypes
    <3>3. QED
      BY <3>1, <3>2
  <2>4. QED
    BY <2>1, <2>2, <2>3 DEF RecordTypes
<1>5. QED
  BY <1>1, <1>2, <1>3, <1>4 DEF Steps, vars, Create, Retry, Fail, ReadIndividuals, ReadHouseholds, Cancel,
    CreateRdi, PostIndividuals, PostHouseholds, Complete

LEMMA InitRecordTypes == ASSUME PushDataAssumption, Init PROVE RecordTypes
<1>1. edits = 0 /\ 0 \in 0..MaxEdits
  BY DEF Init, PushDataAssumption
<1>2. QED
  BY <1>1 DEF Init, PushDataAssumption, RecordTypes

LEMMA TypesMeet == PushInv /\ RecordTypes => TypeOK
<1> SUFFICES ASSUME PushInv, RecordTypes PROVE TypeOK
  OBVIOUS
<1>1. (push.at # "idle") = (Rdp > 0 /\ rdps[Rdp].status = "PUSH_PENDING")
  BY PushTypes, Zenon
<1>2. QED
  BY <1>1, PushTypes DEF RecordTypes, TypeOK

-----------------------------------------------------------------------------
(* The theorems                                                            *)

(* Of households: a completed RDI has what its RDP selected and everybody it *)
(* refers to, and what is removed is what successful RDPs stand for.         *)
THEOREM CompletedStaysClosed ==
  ASSUME PushDataAssumption, MasterDetail
  PROVE  Spec => [](CompletedIsClosed /\ RemovedIsPushed)
<1>1. DataInv /\ [Next]_vars => DataInv'
  BY DataNext, NextIsStep
<1>2. DataInv => CompletedIsClosed /\ RemovedIsPushed
  BY DEF DataInv
<1>3. Init => DataInv
  BY DataInit
<1>4. QED
  BY <1>1, <1>2, <1>3, PTL DEF Spec

(* Of people: who is removed is in a completed RDI of a successful RDP.      *)
THEOREM RemovedStaySent ==
  ASSUME PushDataAssumption, ~MasterDetail
  PROVE  Spec => []RemovedWereSent
<1>1. PeopleInv /\ [Next]_vars => PeopleInv'
  BY PeopleNext, NextIsStep
<1>2. PeopleInv => RemovedWereSent
  BY DEF PeopleInv
<1>3. Init => PeopleInv
  BY PeopleInit
<1>4. QED
  BY <1>1, <1>2, <1>3, PTL DEF Spec
=============================================================================
