---------------------------- MODULE Imports_proofs ----------------------------
(***************************************************************************)
(* Theorems about what comes into a program (MCImports), for every set of  *)
(* imports, people and files and all bounds of the imports.                *)
(*                                                                         *)
(* A person has one collector because the advisory lock of a pending one   *)
(* is held by the import that creates it: who holds the lock sees either   *)
(* the collector committed, or none at all.                                *)
(*                                                                         *)
(* An incremental import skips nothing because what a run has gone through *)
(* is imported, by itself or another run, before the watermark says so.    *)
(***************************************************************************)
EXTENDS MCImports, FiniteSetTheorems, WellFoundedInduction, TLAPS

-----------------------------------------------------------------------------
(* Collectors.                                                             *)

\* What the updates of the rows and locks need of their domains.
RowShape ==
  /\ coll \in [Collectors -> {"none", "pending", "live", "gone"}]
  /\ lock \in [People -> Imports \cup {NoOne}]

There(k) == coll[k] \in {"pending", "live"}

\* A collector that is not committed is locked, and stands alone.
PersonInv ==
  /\ RowShape
  /\ \A i \in Imports, h \in People : coll[<<i, h>>] = "pending" => lock[h] = i
  /\ \A h \in People : \A i, j \in Imports : There(<<i, h>>) /\ There(<<j, h>>) => i = j


-----------------------------------------------------------------------------
(* One collector per person.                                               *)

\* Initially there is none.
LEMMA InitPerson == Init => PersonInv
BY DEF Init, PersonInv, RowShape, There, Collectors

\* The lock is what makes the query of get_or_create_collector right.
LEMMA CreatePerson ==
  ASSUME PersonInv, NEW i \in Imports, GetOrCreateCollector(i)
  PROVE  PersonInv'
<1> DEFINE h == Row(i).who
<1>1. lock[h] \in {NoOne, i} /\ lock' = [lock EXCEPT ![h] = i]
  BY DEF GetOrCreateCollector
<1>2. CASE coll' = coll
  BY <1>1, <1>2, ImportsAreNumbers DEF PersonInv, RowShape, There, Collectors
<1>3. CASE coll' # coll
  <2>1. Existing(i, h) = {} /\ coll' = [coll EXCEPT ![<<i, h>>] = "pending"]
    BY <1>3 DEF GetOrCreateCollector, Create
  <2>2. h \in People
    BY <1>3, <2>1 DEF PersonInv, RowShape, Collectors
  <2>3. \A j \in Imports : ~There(<<j, h>>)
    BY <1>1, <2>1, <2>2, ImportsAreNumbers DEF PersonInv, There, Existing
  <2>4. RowShape'
    BY <1>1, <2>1 DEF PersonInv, RowShape
  <2>5. \A j \in Imports, g \in People :
          coll'[<<j, g>>] = IF j = i /\ g = h THEN "pending" ELSE coll[<<j, g>>]
    BY <2>1, <2>2 DEF PersonInv, RowShape, Collectors
  <2>6. \A g \in People : lock'[g] = IF g = h THEN i ELSE lock[g]
    BY <1>1 DEF PersonInv, RowShape
  <2>7. QED
    BY <2>2, <2>3, <2>4, <2>5, <2>6 DEF PersonInv, There
<1>4. QED
  BY <1>2, <1>3

\* An import that ends keeps its collectors or takes them all away, and its locks with them.
LEMMA EndPerson ==
  ASSUME PersonInv, NEW i \in Imports, Commit(i) \/ Rollback(i)
  PROVE  PersonInv'
<1>1. lock' = [h \in People |-> IF lock[h] = i THEN NoOne ELSE lock[h]]
  BY DEF Commit, Rollback, Released
<1>2. coll' \in [Collectors -> {"none", "pending", "live", "gone"}]
  BY DEF Commit, Rollback, PersonInv, RowShape
<1>3. \A j \in Imports, h \in People :
        /\ coll'[<<j, h>>] = "pending" => coll[<<j, h>>] = "pending" /\ j # i
        /\ There(<<j, h>>)' => There(<<j, h>>)
  BY DEF Commit, Rollback, There, Collectors
<1>4. QED
  BY <1>1, <1>2, <1>3 DEF PersonInv, RowShape

\* A cleanup only takes collectors away.
LEMMA DeletePerson ==
  ASSUME PersonInv, NEW b \in Imports, CleanupDelete(b)
  PROVE  PersonInv'
<1>1. coll' \in [Collectors -> {"none", "pending", "live", "gone"}] /\ lock' = lock
  BY DEF CleanupDelete, PersonInv, RowShape
<1>2. \A j \in Imports, h \in People :
        /\ coll'[<<j, h>>] = "pending" => coll[<<j, h>>] = "pending"
        /\ There(<<j, h>>)' => There(<<j, h>>)
  BY DEF CleanupDelete, There, Collectors
<1>3. QED
  BY <1>1, <1>2 DEF PersonInv, RowShape

\* However imports overlap, fail and are cleaned, a person has one collector in the
\* program (get_or_create_collector).
THEOREM OnePerPerson == Spec => []OneCollectorPerPerson
<1>1. PersonInv /\ [Next]_vars => PersonInv'
  <2> SUFFICES ASSUME PersonInv, [Next]_vars PROVE PersonInv'
    OBVIOUS
  <2>1. CASE UNCHANGED <<coll, lock>>
    BY <2>1 DEF PersonInv, RowShape, There
  <2>2. ASSUME NEW i \in Imports, GetOrCreateCollector(i) PROVE PersonInv'
    BY <2>2, CreatePerson
  <2>3. ASSUME NEW i \in Imports, Commit(i) \/ Fail(i) \/ BreakDeadlock(i) PROVE PersonInv'
    BY <2>3, EndPerson DEF Fail, BreakDeadlock
  <2>4. ASSUME NEW i \in Imports, CleanupDelete(i) PROVE PersonInv'
    BY <2>4, DeletePerson
  <2>5. QED
    BY <2>1, <2>2, <2>3, <2>4 DEF Next, vars, ImportStep, Cleanup, Begin, Postprocess, Stop,
      CleanupBegin, CleanupFail, CreateRdp, EndRdp
<1>2. PersonInv => OneCollectorPerPerson
  BY DEF PersonInv, There, OneCollectorPerPerson
<1>3. QED
  BY InitPerson, <1>1, <1>2, PTL DEF Spec

-----------------------------------------------------------------------------
(* Batches of unfinished RDPs.                                             *)

\* The lock of the program: while a cleanup is at work its batch is in no RDP.
PinInv ==
  /\ step \in [Imports -> Steps]
  /\ pinned \subseteq Imports
  /\ PinnedBatchStays
  /\ cleaning \notin pinned

\* Initially no batch is pinned.
LEMMA InitPin == Init => PinInv
BY DEF Init, PinInv, PinnedBatchStays, Steps

\* An import goes on, and does not leave what is committed.
LEMMA ImportKeepsPin ==
  ASSUME PinInv, NEW i \in Imports, ImportStep(i)
  PROVE  PinInv'
<1>1. UNCHANGED program
  BY DEF ImportStep, Begin, GetOrCreateCollector, Commit, Fail, BreakDeadlock, Rollback, Postprocess, Stop
<1>2. step[i] \in Committed => step'[i] \in Committed
  BY DEF ImportStep, Begin, GetOrCreateCollector, HasRow, Commit, Fail, BreakDeadlock, Waits, Rollback,
    Postprocess, Stop, Committed, PinInv
<1>3. step' \in [Imports -> Steps] /\ \A j \in Imports : j # i => step'[j] = step[j]
  BY DEF ImportStep, Begin, GetOrCreateCollector, Commit, Fail, BreakDeadlock, Rollback, Postprocess, Stop,
    Steps, PinInv
<1>4. QED
  BY <1>1, <1>2, <1>3 DEF PinInv, PinnedBatchStays, program

\* The batch of an unfinished RDP is not deleted, whichever of the RDP and the cleanup
\* comes first (batch_cleanup and create_rdp lock the program).
THEOREM PinnedStays == Spec => []PinnedBatchStays
<1>1. PinInv /\ [Next]_vars => PinInv'
  <2> SUFFICES ASSUME PinInv, [Next]_vars PROVE PinInv'
    OBVIOUS
  <2>1. CASE UNCHANGED vars
    BY <2>1 DEF vars, program, PinInv, PinnedBatchStays
  <2>2. ASSUME NEW i \in Imports, ImportStep(i) PROVE PinInv'
    BY <2>2, ImportKeepsPin
  <2>3. ASSUME NEW i \in Imports, Cleanup(i) PROVE PinInv'
    <3>1. CASE CleanupBegin(i)
      BY <3>1 DEF CleanupBegin, PinInv, PinnedBatchStays
    <3>2. CASE CleanupDelete(i)
      BY <3>2, ImportsAreNumbers DEF CleanupDelete, PinInv, PinnedBatchStays, Steps
    <3>3. CASE CleanupFail(i)
      BY <3>3, ImportsAreNumbers DEF CleanupFail, PinInv, PinnedBatchStays
    <3>4. QED
      BY <2>3, <3>1, <3>2, <3>3 DEF Cleanup
  <2>4. ASSUME NEW i \in Imports, CreateRdp(i) PROVE PinInv'
    BY <2>4, ImportsAreNumbers DEF CreateRdp, PinInv, PinnedBatchStays
  <2>5. CASE EndRdp
    BY <2>5 DEF EndRdp, PinInv, PinnedBatchStays
  <2>6. QED
    BY <2>1, <2>2, <2>3, <2>4, <2>5 DEF Next
<1>2. PinInv => PinnedBatchStays
  BY DEF PinInv
<1>3. QED
  BY InitPin, <1>1, <1>2, PTL DEF Spec

-----------------------------------------------------------------------------
(* Roles lead to people.                                                   *)

\* File s calls the person of collector k ref.
Names(s, ref, k) == \E n \in DOMAIN s.rows : s.rows[n].ref = ref /\ s.rows[n].who = k[2]

\* What an import has found is what its file says, and so is what its household gets.
RoleInv ==
  /\ DOMAIN step = Imports
  /\ sheet = [i \in Imports |-> sheet[i]] /\ \A i \in Imports : sheet[i] \in Sheets \cup {NoSheet}
  /\ at \in [Imports -> Nat \ {0}]
  /\ found = [i \in Imports |-> [r \in Refs |-> found[i][r]]]
  /\ hh = [i \in Imports |-> hh[i]]
  /\ \A i \in Imports : step[i] = "new" => hh[i] = NoRefs /\ \A r \in Refs : found[i][r] = NoOne
  /\ \A i \in Imports, r \in Refs : found[i][r] # NoOne => Names(sheet[i], r, found[i][r])
  /\ \A i \in Imports : \A role \in {"primary", "alternate"} :
       hh[i][role] # NoOne => Names(sheet[i], sheet[i][role], hh[i][role])

\* Initially nothing is found.
LEMMA InitRoles == Init => RoleInv
BY DEF Init, RoleInv, NoRefs

\* A new import has its file and nothing else.
LEMMA BeginRoles ==
  ASSUME RoleInv, NEW i \in Imports, Begin(i)
  PROVE  RoleInv'
<1>1. PICK s \in Sheets : sheet' = [sheet EXCEPT ![i] = s]
  BY DEF Begin
<1>2. step[i] = "new" /\ step' = [step EXCEPT ![i] = "rows"] /\ UNCHANGED <<at, found, hh>>
  BY DEF Begin
<1>3. \A j \in Imports : sheet'[j] = IF j = i THEN s ELSE sheet[j]
  BY <1>1 DEF RoleInv
<1>4. \A j \in Imports : step'[j] = "new" => step[j] = "new"
  BY <1>2 DEF RoleInv
<1>5. hh[i] = NoRefs /\ \A r \in Refs : found[i][r] = NoOne
  BY <1>2 DEF RoleInv
<1>6. \A j \in Imports, r \in Refs : found'[j][r] # NoOne => Names(sheet'[j], r, found'[j][r])
  BY <1>2, <1>3, <1>5 DEF RoleInv
<1>7. \A j \in Imports : \A role \in {"primary", "alternate"} :
        hh'[j][role] # NoOne => Names(sheet'[j], sheet'[j][role], hh'[j][role])
  BY <1>2, <1>3, <1>5 DEF RoleInv, NoRefs
<1>8. QED
  BY <1>1, <1>2, <1>3, <1>4, <1>6, <1>7 DEF RoleInv

\* The row names the person whose collector is found.
LEMMA RowRoles ==
  ASSUME RoleInv, NEW i \in Imports, GetOrCreateCollector(i)
  PROVE  RoleInv'
<1>1. PICK u : found' = [found EXCEPT ![i][Row(i).ref] = <<u, Row(i).who>>]
  BY DEF GetOrCreateCollector
<1> DEFINE k == <<u, Row(i).who>>
<1>2. /\ HasRow(i) /\ at' = [at EXCEPT ![i] = @ + 1]
      /\ UNCHANGED <<step, sheet, hh>>
  BY DEF GetOrCreateCollector
<1>3. at[i] \in DOMAIN sheet[i].rows
  BY <1>2, RowsAreSequences DEF HasRow, RoleInv, NoSheet
<1>4. Names(sheet[i], Row(i).ref, k)
  BY <1>3 DEF Names, Row
<1>5. \A j \in Imports, r \in Refs :
        found'[j][r] = IF j = i /\ r = Row(i).ref THEN k ELSE found[j][r]
  BY <1>1 DEF RoleInv
<1>6. found' = [j \in Imports |-> [r \in Refs |-> found'[j][r]]]
  BY <1>1 DEF RoleInv
<1>7. \A j \in Imports, r \in Refs : found'[j][r] # NoOne => Names(sheet[j], r, found'[j][r])
  <2> SUFFICES ASSUME NEW j \in Imports, NEW r \in Refs, found'[j][r] # NoOne
               PROVE  Names(sheet[j], r, found'[j][r])
    OBVIOUS
  <2>1. CASE j = i /\ r = Row(i).ref
    <3>1. found'[j][r] = k
      BY <1>5, <2>1
    <3>2. QED
      BY <1>4, <2>1, <3>1
  <2>2. CASE ~(j = i /\ r = Row(i).ref)
    BY <1>5, <2>2 DEF RoleInv
  <2>3. QED
    BY <2>1, <2>2
<1>8. at' \in [Imports -> Nat \ {0}]
  BY <1>2 DEF RoleInv
<1>9. step[i] # "new"
  BY <1>2 DEF HasRow
<1>10. QED
  BY <1>2, <1>5, <1>6, <1>7, <1>8, <1>9 DEF RoleInv

\* The household gets what was found.
LEMMA CommitRoles ==
  ASSUME RoleInv, NEW i \in Imports, Commit(i)
  PROVE  RoleInv'
<1>1. /\ step' = [step EXCEPT ![i] = "loaded"] /\ UNCHANGED <<at, found, sheet>>
      /\ hh' = [hh EXCEPT ![i] = [primary |-> Resolve(i, sheet[i].primary),
                                  alternate |-> Resolve(i, sheet[i].alternate)]]
  BY DEF Commit, files
<1>2. \A ref : Resolve(i, ref) # NoOne => Names(sheet[i], ref, Resolve(i, ref))
  BY DEF Resolve, RoleInv
<1>3. \A role \in {"primary", "alternate"} : hh'[i][role] = Resolve(i, sheet[i][role])
  BY <1>1 DEF RoleInv
<1>4. \A j \in Imports : j # i => hh'[j] = hh[j] /\ step'[j] = step[j]
  BY <1>1 DEF RoleInv
<1>5. \A j \in Imports : \A role \in {"primary", "alternate"} :
        hh'[j][role] # NoOne => Names(sheet[j], sheet[j][role], hh'[j][role])
  BY <1>2, <1>3, <1>4 DEF RoleInv
<1>6. QED
  BY <1>1, <1>4, <1>5 DEF RoleInv

\* What is deleted has no roles; everything else changes nothing of this.
LEMMA RestRoles ==
  ASSUME RoleInv,
         \/ UNCHANGED vars
         \/ EndRdp
         \/ \E i \in Imports : Fail(i) \/ BreakDeadlock(i) \/ Postprocess(i) \/ Stop(i) \/ Cleanup(i) \/ CreateRdp(i)
  PROVE  RoleInv'
<1>1. UNCHANGED <<sheet, at, found>>
  BY DEF vars, files, EndRdp, Fail, BreakDeadlock, Rollback, Postprocess, Stop, Cleanup, CleanupBegin,
    CleanupDelete, CleanupFail, CreateRdp
<1>2. \/ UNCHANGED step
      \/ \E i \in Imports, t \in {"failed", "complete", "stopped", "gone"} : step' = [step EXCEPT ![i] = t]
  BY DEF vars, EndRdp, Fail, BreakDeadlock, Rollback, Postprocess, Stop, Cleanup, CleanupBegin,
    CleanupDelete, CleanupFail, CreateRdp
<1>3. UNCHANGED hh \/ \E i \in Imports : hh' = [hh EXCEPT ![i] = NoRefs]
  BY DEF vars, EndRdp, Fail, BreakDeadlock, Rollback, Postprocess, Stop, Cleanup, CleanupBegin,
    CleanupDelete, CleanupFail, CreateRdp
<1>4. DOMAIN step' = Imports /\ \A j \in Imports : step'[j] = "new" => step[j] = "new"
  BY <1>2 DEF RoleInv
<1>5. hh' = [j \in Imports |-> hh'[j]] /\ \A j \in Imports : hh'[j] = hh[j] \/ hh'[j] = NoRefs
  BY <1>3 DEF RoleInv
<1>6. QED
  BY <1>1, <1>4, <1>5 DEF RoleInv, NoRefs

\* A role of a household leads to the person its own file names, also when the collector
\* was created by another file (BeneficiaryImportResult).
THEOREM RolesLeadToPeople == Spec => []RolesArePeople
<1>1. RoleInv /\ [Next]_vars => RoleInv'
  BY BeginRoles, RowRoles, CommitRoles, RestRoles DEF Next, ImportStep
<1>2. RoleInv => RolesArePeople
  BY DEF RoleInv, Names, RolesArePeople
<1>3. QED
  BY InitRoles, <1>1, <1>2, PTL DEF Spec

-----------------------------------------------------------------------------
(* OnaImport: its own theorems (OnaImport_proofs), with and without crashes. *)

OnaP == INSTANCE OnaImport_proofs WITH
  MaxPosted <- OnaPosted, PageSize <- OnaPage, MaxRequests <- OnaRequests, MaxJobs <- OnaJobs,
  MaxRedelivered <- OnaRedelivered, MaxCrashes <- OnaCrashes, MaxDeleted <- OnaDeleted, posted
  <- v1, deleted <- v2, cursor <- v3, jobs <- v4, queued <- v5, runs <- v6, lock <- v7, status
  <- v8, made <- v9, requests <- v10, redelivered <- v11, crashes <- v12

\* Cardinality is the same everywhere.
LEMMA OnaSizes == ASSUME NEW S PROVE Ona!Cardinality(S) = Cardinality(S) /\ OnaP!Cardinality(S) = Cardinality(S)
<1>1. Ona!Cardinality(S) = Cardinality(S)
  BY DEF Ona!Cardinality, Cardinality
<1>2. OnaP!Cardinality(S) = Cardinality(S)
  BY DEF OnaP!Cardinality, Cardinality
<1>3. QED
  BY <1>1, <1>2

\* The instance of the theorems speaks of the same things.
LEMMA OnaSame ==
  /\ \A r : Ona!Page(r) = OnaP!Page(r)
  /\ \A id : Ona!Copies(id) = OnaP!Copies(id)
<1>1. ASSUME NEW r PROVE Ona!Page(r) = OnaP!Page(r)
  <2>1. Ona!Listed(r) = OnaP!Listed(r)
    BY DEF Ona!Listed, OnaP!Listed
  <2>2. ASSUME NEW id PROVE Ona!Place(r, id) = OnaP!Place(r, id)
    <3> DEFINE S == {k \in Ona!Listed(r) : k <= id}
               T == {k \in OnaP!Listed(r) : k <= id}
    <3>1. S = T
      BY <2>1
    <3>2. Ona!Place(r, id) = Ona!Cardinality(S) /\ OnaP!Place(r, id) = OnaP!Cardinality(T)
      BY DEF Ona!Place, OnaP!Place
    <3> HIDE DEF S, T
    <3>3. QED
      BY <3>1, <3>2, OnaSizes
  <2>3. QED
    BY <2>1, <2>2 DEF Ona!Page, OnaP!Page
<1>2. ASSUME NEW id PROVE Ona!Copies(id) = OnaP!Copies(id)
  <2> DEFINE S == {n \in DOMAIN v9 : v9[n].id = id}
  <2>1. Ona!Copies(id) = Ona!Cardinality(S) /\ OnaP!Copies(id) = OnaP!Cardinality(S)
    BY DEF Ona!Copies, OnaP!Copies
  <2> HIDE DEF S
  <2>2. QED
    BY <2>1, OnaSizes
<1>3. QED
  BY <1>1, <1>2

\* A step of the component is one of those the theorems are about.
LEMMA OnaSteps == [Ona!Next]_(Ona!vars) => [OnaP!Next]_(OnaP!vars)
<1>1. ASSUME NEW r PROVE Ona!FetchPage(r) => OnaP!FetchPage(r)
  <2>1. Ona!Page(r) = OnaP!Page(r) /\ Ona!Cardinality(Ona!Page(r)) = OnaP!Cardinality(OnaP!Page(r))
    BY OnaSame, OnaSizes
  <2>2. SUFFICES ASSUME Ona!FetchPage(r) PROVE OnaP!FetchPage(r)
    OBVIOUS
  <2>3. /\ OnaP!At(r, "page") /\ OnaP!Page(r) # {}
        /\ v6' = [v6 EXCEPT ![r].at = "import", ![r].page = OnaP!Page(r),
                            ![r].start = @ + OnaP!Cardinality(OnaP!Page(r))]
    BY <2>1, <2>2 DEF Ona!FetchPage, Ona!At, OnaP!At
  <2>4. UNCHANGED <<OnaP!source, v3, v4, v5, v7, v8, v9, OnaP!bounds>>
    BY <2>2 DEF Ona!FetchPage, Ona!source, OnaP!source, Ona!bounds, OnaP!bounds
  <2>5. QED
    BY <2>3, <2>4 DEF OnaP!FetchPage
<1>2. ASSUME NEW r PROVE Ona!Drain(r) => OnaP!Drain(r)
  BY OnaSame DEF Ona!Drain, OnaP!Drain, Ona!At, OnaP!At, Ona!LeaveLoop, OnaP!LeaveLoop, Ona!Leave,
    OnaP!Leave, Ona!Save, OnaP!Save, Ona!None, OnaP!None, Ona!source, OnaP!source, Ona!bounds,
    OnaP!bounds
<1>3. ASSUME NEW id PROVE Ona!Delete(id) => OnaP!Delete(id)
  BY OnaSizes DEF Ona!Delete, OnaP!Delete, Ona!bounds, OnaP!bounds
<1>4. ASSUME NEW r PROVE Ona!Work(r) => OnaP!Work(r)
  BY <1>1, <1>2 DEF Ona!Work, OnaP!Work, Ona!Setup, OnaP!Setup, Ona!ImportSubmission, OnaP!ImportSubmission,
    Ona!Timebox, OnaP!Timebox, Ona!Fail, OnaP!Fail, Ona!Stop, OnaP!Stop, Ona!Continue,
    OnaP!Continue, Ona!Complete, OnaP!Complete, Ona!At, OnaP!At, Ona!Active, OnaP!Active,
    Ona!BatchOf, OnaP!BatchOf, Ona!Go, OnaP!Go, Ona!Leave, OnaP!Leave, Ona!NewJob, OnaP!NewJob,
    Ona!Save, OnaP!Save, Ona!LeaveLoop, OnaP!LeaveLoop, Ona!source, OnaP!source, Ona!bounds,
    OnaP!bounds, Ona!MaxRuns, OnaP!MaxRuns, Ona!Runs, OnaP!Runs, Ona!None, OnaP!None,
    Ona!InLoop, OnaP!InLoop, Ona!Working, OnaP!Working, Ona!Ended, OnaP!Ended
<1>5. QED
  BY <1>3, <1>4 DEF Ona!Next, OnaP!Next, Ona!vars, OnaP!vars, Ona!Submit, OnaP!Submit, Ona!RequestImport,
    OnaP!RequestImport, Ona!Deliver, OnaP!Deliver, Ona!Redeliver, OnaP!Redeliver, Ona!Crash,
    OnaP!Crash, Ona!Expire, OnaP!Expire, Ona!Enter, OnaP!Enter, Ona!At, OnaP!At, Ona!Active,
    OnaP!Active, Ona!BatchOf, OnaP!BatchOf, Ona!Go, OnaP!Go, Ona!Leave, OnaP!Leave, Ona!NewJob,
    OnaP!NewJob, Ona!Save, OnaP!Save, Ona!LeaveLoop, OnaP!LeaveLoop, Ona!source, OnaP!source,
    Ona!bounds, OnaP!bounds, Ona!MaxRuns, OnaP!MaxRuns, Ona!Runs, OnaP!Runs, Ona!None,
    OnaP!None, Ona!InLoop, OnaP!InLoop, Ona!Working, OnaP!Working, Ona!Ended, OnaP!Ended

LEMMA OnaBounds == OnaP!OnaAssumption
BY BoundsAssumption DEF Ona!OnaAssumption, OnaP!OnaAssumption

LEMMA OnaKeeps == OnaP!OnaInv /\ [Ona!Next]_(Ona!vars) => OnaP!OnaInv'
BY OnaSteps, OnaBounds, OnaP!NextOna

LEMMA OnaBegins == Ona!Init => OnaP!OnaInv
<1>1. Ona!Init => OnaP!Init
  BY DEF Ona!Init, OnaP!Init, Ona!Runs, OnaP!Runs, Ona!MaxRuns, OnaP!MaxRuns, Ona!None, OnaP!None
<1>2. QED
  BY <1>1, OnaBounds, OnaP!InitOna

LEMMA OnaMeans == OnaP!OnaInv => Ona!TypeOK /\ Ona!SkipsAreDeletions /\ Ona!RepeatsAreCrashes
<1>1. OnaP!OnaInv => OnaP!TypeOK /\ OnaP!SkipsAreDeletions /\ OnaP!RepeatsAreCrashes
  BY OnaBounds, OnaP!OnaMeans
<1>2. OnaP!TypeOK => Ona!TypeOK
  BY DEF Ona!TypeOK, OnaP!TypeOK, Ona!Runs, OnaP!Runs, Ona!MaxRuns, OnaP!MaxRuns, Ona!None,
    OnaP!None, Ona!Working, OnaP!Working, Ona!Ended, OnaP!Ended, Ona!InLoop, OnaP!InLoop
<1>3. OnaP!SkipsAreDeletions => Ona!SkipsAreDeletions
  <2> DEFINE S == {id \in 1..v3 : id \notin v2 /\ Ona!Copies(id) = 0}
             T == {id \in 1..v3 : id \notin v2 /\ OnaP!Copies(id) = 0}
  <2>1. S = T
    BY OnaSame
  <2>2. Ona!SkipsAreDeletions <=> Ona!Cardinality(S) <= Ona!Cardinality(v2)
    BY DEF Ona!SkipsAreDeletions
  <2>3. OnaP!SkipsAreDeletions <=> OnaP!Cardinality(T) <= OnaP!Cardinality(v2)
    BY DEF OnaP!SkipsAreDeletions
  <2> HIDE DEF S, T
  <2>4. QED
    BY <2>1, <2>2, <2>3, OnaSizes
<1>4. OnaP!RepeatsAreCrashes => Ona!RepeatsAreCrashes
  BY OnaSame DEF Ona!RepeatsAreCrashes, OnaP!RepeatsAreCrashes
<1>5. QED
  BY <1>1, <1>2, <1>3, <1>4

OnaCalmP == INSTANCE OnaImport_proofs WITH
  MaxPosted <- OncePosted, PageSize <- OncePage, MaxRequests <- OnceRequests, MaxJobs <-
  OnceJobs, MaxRedelivered <- OnceRedelivered, MaxCrashes <- 0, MaxDeleted <- OnceDeleted,
  posted <- v1, deleted <- v2, cursor <- v3, jobs <- v4, queued <- v5, runs <- v6, lock <- v7,
  status <- v8, made <- v9, requests <- v10, redelivered <- v11, crashes <- v12

\* Cardinality is the same everywhere.
LEMMA OnaCalmSizes == ASSUME NEW S PROVE OnaCalm!Cardinality(S) = Cardinality(S) /\ OnaCalmP!Cardinality(S) = Cardinality(S)
<1>1. OnaCalm!Cardinality(S) = Cardinality(S)
  BY DEF OnaCalm!Cardinality, Cardinality
<1>2. OnaCalmP!Cardinality(S) = Cardinality(S)
  BY DEF OnaCalmP!Cardinality, Cardinality
<1>3. QED
  BY <1>1, <1>2

\* The instance of the theorems speaks of the same things.
LEMMA OnaCalmSame ==
  /\ \A r : OnaCalm!Page(r) = OnaCalmP!Page(r)
  /\ \A id : OnaCalm!Copies(id) = OnaCalmP!Copies(id)
<1>1. ASSUME NEW r PROVE OnaCalm!Page(r) = OnaCalmP!Page(r)
  <2>1. OnaCalm!Listed(r) = OnaCalmP!Listed(r)
    BY DEF OnaCalm!Listed, OnaCalmP!Listed
  <2>2. ASSUME NEW id PROVE OnaCalm!Place(r, id) = OnaCalmP!Place(r, id)
    <3> DEFINE S == {k \in OnaCalm!Listed(r) : k <= id}
               T == {k \in OnaCalmP!Listed(r) : k <= id}
    <3>1. S = T
      BY <2>1
    <3>2. OnaCalm!Place(r, id) = OnaCalm!Cardinality(S) /\ OnaCalmP!Place(r, id) = OnaCalmP!Cardinality(T)
      BY DEF OnaCalm!Place, OnaCalmP!Place
    <3> HIDE DEF S, T
    <3>3. QED
      BY <3>1, <3>2, OnaCalmSizes
  <2>3. QED
    BY <2>1, <2>2 DEF OnaCalm!Page, OnaCalmP!Page
<1>2. ASSUME NEW id PROVE OnaCalm!Copies(id) = OnaCalmP!Copies(id)
  <2> DEFINE S == {n \in DOMAIN v9 : v9[n].id = id}
  <2>1. OnaCalm!Copies(id) = OnaCalm!Cardinality(S) /\ OnaCalmP!Copies(id) = OnaCalmP!Cardinality(S)
    BY DEF OnaCalm!Copies, OnaCalmP!Copies
  <2> HIDE DEF S
  <2>2. QED
    BY <2>1, OnaCalmSizes
<1>3. QED
  BY <1>1, <1>2

\* A step of the component is one of those the theorems are about.
LEMMA OnaCalmSteps == [OnaCalm!Next]_(OnaCalm!vars) => [OnaCalmP!Next]_(OnaCalmP!vars)
<1>1. ASSUME NEW r PROVE OnaCalm!FetchPage(r) => OnaCalmP!FetchPage(r)
  <2>1. OnaCalm!Page(r) = OnaCalmP!Page(r) /\ OnaCalm!Cardinality(OnaCalm!Page(r)) = OnaCalmP!Cardinality(OnaCalmP!Page(r))
    BY OnaCalmSame, OnaCalmSizes
  <2>2. SUFFICES ASSUME OnaCalm!FetchPage(r) PROVE OnaCalmP!FetchPage(r)
    OBVIOUS
  <2>3. /\ OnaCalmP!At(r, "page") /\ OnaCalmP!Page(r) # {}
        /\ v6' = [v6 EXCEPT ![r].at = "import", ![r].page = OnaCalmP!Page(r),
                            ![r].start = @ + OnaCalmP!Cardinality(OnaCalmP!Page(r))]
    BY <2>1, <2>2 DEF OnaCalm!FetchPage, OnaCalm!At, OnaCalmP!At
  <2>4. UNCHANGED <<OnaCalmP!source, v3, v4, v5, v7, v8, v9, OnaCalmP!bounds>>
    BY <2>2 DEF OnaCalm!FetchPage, OnaCalm!source, OnaCalmP!source, OnaCalm!bounds, OnaCalmP!bounds
  <2>5. QED
    BY <2>3, <2>4 DEF OnaCalmP!FetchPage
<1>2. ASSUME NEW r PROVE OnaCalm!Drain(r) => OnaCalmP!Drain(r)
  BY OnaCalmSame DEF OnaCalm!Drain, OnaCalmP!Drain, OnaCalm!At, OnaCalmP!At, OnaCalm!LeaveLoop,
    OnaCalmP!LeaveLoop, OnaCalm!Leave, OnaCalmP!Leave, OnaCalm!Save, OnaCalmP!Save,
    OnaCalm!None, OnaCalmP!None, OnaCalm!source, OnaCalmP!source, OnaCalm!bounds,
    OnaCalmP!bounds
<1>3. ASSUME NEW id PROVE OnaCalm!Delete(id) => OnaCalmP!Delete(id)
  BY OnaCalmSizes DEF OnaCalm!Delete, OnaCalmP!Delete, OnaCalm!bounds, OnaCalmP!bounds
<1>4. ASSUME NEW r PROVE OnaCalm!Work(r) => OnaCalmP!Work(r)
  BY <1>1, <1>2 DEF OnaCalm!Work, OnaCalmP!Work, OnaCalm!Setup, OnaCalmP!Setup, OnaCalm!ImportSubmission,
    OnaCalmP!ImportSubmission, OnaCalm!Timebox, OnaCalmP!Timebox, OnaCalm!Fail, OnaCalmP!Fail,
    OnaCalm!Stop, OnaCalmP!Stop, OnaCalm!Continue, OnaCalmP!Continue, OnaCalm!Complete,
    OnaCalmP!Complete, OnaCalm!At, OnaCalmP!At, OnaCalm!Active, OnaCalmP!Active,
    OnaCalm!BatchOf, OnaCalmP!BatchOf, OnaCalm!Go, OnaCalmP!Go, OnaCalm!Leave, OnaCalmP!Leave,
    OnaCalm!NewJob, OnaCalmP!NewJob, OnaCalm!Save, OnaCalmP!Save, OnaCalm!LeaveLoop,
    OnaCalmP!LeaveLoop, OnaCalm!source, OnaCalmP!source, OnaCalm!bounds, OnaCalmP!bounds,
    OnaCalm!MaxRuns, OnaCalmP!MaxRuns, OnaCalm!Runs, OnaCalmP!Runs, OnaCalm!None, OnaCalmP!None,
    OnaCalm!InLoop, OnaCalmP!InLoop, OnaCalm!Working, OnaCalmP!Working, OnaCalm!Ended,
    OnaCalmP!Ended
<1>5. QED
  BY <1>3, <1>4 DEF OnaCalm!Next, OnaCalmP!Next, OnaCalm!vars, OnaCalmP!vars, OnaCalm!Submit, OnaCalmP!Submit,
    OnaCalm!RequestImport, OnaCalmP!RequestImport, OnaCalm!Deliver, OnaCalmP!Deliver,
    OnaCalm!Redeliver, OnaCalmP!Redeliver, OnaCalm!Crash, OnaCalmP!Crash, OnaCalm!Expire,
    OnaCalmP!Expire, OnaCalm!Enter, OnaCalmP!Enter, OnaCalm!At, OnaCalmP!At, OnaCalm!Active,
    OnaCalmP!Active, OnaCalm!BatchOf, OnaCalmP!BatchOf, OnaCalm!Go, OnaCalmP!Go, OnaCalm!Leave,
    OnaCalmP!Leave, OnaCalm!NewJob, OnaCalmP!NewJob, OnaCalm!Save, OnaCalmP!Save,
    OnaCalm!LeaveLoop, OnaCalmP!LeaveLoop, OnaCalm!source, OnaCalmP!source, OnaCalm!bounds,
    OnaCalmP!bounds, OnaCalm!MaxRuns, OnaCalmP!MaxRuns, OnaCalm!Runs, OnaCalmP!Runs,
    OnaCalm!None, OnaCalmP!None, OnaCalm!InLoop, OnaCalmP!InLoop, OnaCalm!Working,
    OnaCalmP!Working, OnaCalm!Ended, OnaCalmP!Ended

LEMMA OnaCalmBounds == OnaCalmP!OnaAssumption
BY BoundsAssumption DEF OnaCalm!OnaAssumption, OnaCalmP!OnaAssumption

LEMMA OnaCalmKeeps == OnaCalmP!OnaInv /\ [OnaCalm!Next]_(OnaCalm!vars) => OnaCalmP!OnaInv'
BY OnaCalmSteps, OnaCalmBounds, OnaCalmP!NextOna

LEMMA OnaCalmBegins == OnaCalm!Init => OnaCalmP!OnaInv
<1>1. OnaCalm!Init => OnaCalmP!Init
  BY DEF OnaCalm!Init, OnaCalmP!Init, OnaCalm!Runs, OnaCalmP!Runs, OnaCalm!MaxRuns, OnaCalmP!MaxRuns,
    OnaCalm!None, OnaCalmP!None
<1>2. QED
  BY <1>1, OnaCalmBounds, OnaCalmP!InitOna

LEMMA OnaCalmMeans == OnaCalmP!OnaInv => OnaCalm!TypeOK /\ OnaCalm!SkipsAreDeletions /\ OnaCalm!RepeatsAreCrashes
<1>1. OnaCalmP!OnaInv => OnaCalmP!TypeOK /\ OnaCalmP!SkipsAreDeletions /\ OnaCalmP!RepeatsAreCrashes
  BY OnaCalmBounds, OnaCalmP!OnaMeans
<1>2. OnaCalmP!TypeOK => OnaCalm!TypeOK
  BY DEF OnaCalm!TypeOK, OnaCalmP!TypeOK, OnaCalm!Runs, OnaCalmP!Runs, OnaCalm!MaxRuns,
    OnaCalmP!MaxRuns, OnaCalm!None, OnaCalmP!None, OnaCalm!Working, OnaCalmP!Working,
    OnaCalm!Ended, OnaCalmP!Ended, OnaCalm!InLoop, OnaCalmP!InLoop
<1>3. OnaCalmP!SkipsAreDeletions => OnaCalm!SkipsAreDeletions
  <2> DEFINE S == {id \in 1..v3 : id \notin v2 /\ OnaCalm!Copies(id) = 0}
             T == {id \in 1..v3 : id \notin v2 /\ OnaCalmP!Copies(id) = 0}
  <2>1. S = T
    BY OnaCalmSame
  <2>2. OnaCalm!SkipsAreDeletions <=> OnaCalm!Cardinality(S) <= OnaCalm!Cardinality(v2)
    BY DEF OnaCalm!SkipsAreDeletions
  <2>3. OnaCalmP!SkipsAreDeletions <=> OnaCalmP!Cardinality(T) <= OnaCalmP!Cardinality(v2)
    BY DEF OnaCalmP!SkipsAreDeletions
  <2> HIDE DEF S, T
  <2>4. QED
    BY <2>1, <2>2, <2>3, OnaCalmSizes
<1>4. OnaCalmP!RepeatsAreCrashes => OnaCalm!RepeatsAreCrashes
  BY OnaCalmSame DEF OnaCalm!RepeatsAreCrashes, OnaCalmP!RepeatsAreCrashes
<1>5. QED
  BY <1>1, <1>2, <1>3, <1>4


-----------------------------------------------------------------------------
(* Rows of executions.                                                     *)

\* A row of a list.
LEMMA RowOf == ASSUME NEW S, NEW s \in Seq(S), NEW i \in DOMAIN s PROVE s[i] \in S
OBVIOUS

\* One row is replaced.
LEMMA RowReplaced ==
  ASSUME NEW S, NEW s \in Seq(S), NEW i \in DOMAIN s, NEW e \in S, NEW t, t = [s EXCEPT ![i] = e]
  PROVE  /\ t \in Seq(S) /\ Len(t) = Len(s) /\ DOMAIN t = DOMAIN s
         /\ \A q \in DOMAIN s : t[q] = IF q = i THEN e ELSE s[q]
<1>1. Len(s) \in Nat /\ DOMAIN s = 1..Len(s) /\ s \in [1..Len(s) -> S]
  OBVIOUS
<1>2. t \in [1..Len(s) -> S]
  BY <1>1
<1>3. t \in Seq(S)
  BY <1>1, <1>2
<1>4. DOMAIN t = DOMAIN s /\ \A q \in DOMAIN s : t[q] = IF q = i THEN e ELSE s[q]
  BY <1>1
<1>5. Len(t) = Len(s)
  BY <1>1, <1>3, <1>4
<1>6. QED
  BY <1>3, <1>4, <1>5

\* One row is added.
LEMMA RowAdded ==
  ASSUME NEW S, NEW s \in Seq(S), NEW e \in S, NEW t, t = Append(s, e)
  PROVE  /\ t \in Seq(S) /\ Len(t) = Len(s) + 1 /\ DOMAIN t = DOMAIN s \cup {Len(s) + 1}
         /\ Len(s) + 1 \notin DOMAIN s
         /\ \A q \in DOMAIN t : t[q] = IF q = Len(s) + 1 THEN e ELSE s[q]
<1>1. Len(s) \in Nat /\ DOMAIN s = 1..Len(s)
  OBVIOUS
<1>2. t \in Seq(S) /\ Len(t) = Len(s) + 1
  OBVIOUS
<1>3. DOMAIN t = 1..(Len(s) + 1)
  BY <1>2
<1>4. DOMAIN t = DOMAIN s \cup {Len(s) + 1} /\ Len(s) + 1 \notin DOMAIN s
  BY <1>1, <1>3
<1>5. t[Len(s) + 1] = e /\ \A q \in DOMAIN s : t[q] = s[q]
  BY <1>1
<1>6. QED
  BY <1>2, <1>4, <1>5

-----------------------------------------------------------------------------
(* Kobo, on the slots: what has been gone through is imported.             *)

\* The bounds are numbers.
LEMMA KoboBounds ==
  /\ KoboPosted \in Nat /\ KoboJobs \in Nat /\ KoboFaults \in Nat
  /\ Kobo!MaxRuns \in Nat /\ Kobo!Runs = 1..Kobo!MaxRuns /\ Kobo!None = 0 /\ 0 \notin Kobo!Runs
BY BoundsAssumption DEF Kobo!KoboAssumption, Kobo!MaxRuns, Kobo!Runs, Kobo!None

\* The types of a row.
LEMMA KoboRows ==
  ASSUME Kobo!Shape
  PROVE  /\ v5 \in Seq(Kobo!RunRows) /\ v3 \in Seq([batch : Kobo!Runs \cup {0}, grouped : BOOLEAN])
         /\ \A r \in DOMAIN v5 :
              /\ r \in Kobo!Runs /\ r \in Nat \ {0} /\ r <= Len(v5) /\ v5[r] \in Kobo!RunRows
              /\ v5[r].job \in DOMAIN v3 /\ v5[r].batch \in Kobo!Runs \cup {0}
              /\ v5[r].base \in Nat /\ v5[r].last \in Nat /\ v5[r].next \in Nat
              /\ v5[r].at \in Kobo!Working \cup Kobo!Ended
<1>1. v5 \in Seq(Kobo!RunRows) /\ Len(v5) <= Kobo!MaxRuns /\ \A r \in DOMAIN v5 : v5[r].job \in DOMAIN v3
  BY DEF Kobo!Shape
<1>2. v3 \in Seq([batch : Kobo!Runs \cup {0}, grouped : BOOLEAN])
  BY KoboBounds DEF Kobo!Shape
<1>3. Len(v5) \in Nat /\ DOMAIN v5 = 1..Len(v5) /\ \A r \in DOMAIN v5 : v5[r] \in Kobo!RunRows
  BY <1>1
<1>4. \A r \in DOMAIN v5 : r \in Kobo!Runs /\ r \in Nat \ {0} /\ r <= Len(v5)
  BY <1>1, <1>3, KoboBounds
<1>5. \A e \in Kobo!RunRows : /\ e.batch \in Kobo!Runs \cup {0} /\ e.base \in Nat /\ e.last \in Nat
                              /\ e.next \in Nat /\ e.at \in Kobo!Working \cup Kobo!Ended
  BY KoboBounds DEF Kobo!RunRows
<1>6. QED
  BY <1>1, <1>2, <1>3, <1>4, <1>5

\* Whatever leaves the runs with their jobs and batches keeps the shape.
LEMMA KoboShape ==
  ASSUME Kobo!Shape,
         v1' \in v1..KoboPosted, v2' \in 0..v1',
         v3' \in Seq([batch : Kobo!Runs \cup {0}, grouped : BOOLEAN]), DOMAIN v3 \subseteq DOMAIN v3',
         \A j \in DOMAIN v3' : /\ v3'[j].grouped => v3'[j].batch # 0
                               /\ v3'[j].batch # 0 => Kobo!SetUp(v3'[j].batch),
         v4' \subseteq DOMAIN v3',
         v5' \in Seq(Kobo!RunRows), DOMAIN v5' = DOMAIN v5, Len(v5') = Len(v5),
         \A q \in DOMAIN v5 :
           /\ v5'[q].job = v5[q].job /\ v5'[q].batch = v5[q].batch
           /\ v5'[q].at = "setup" => v5[q].at = "setup"
           /\ v5'[q].at \in Kobo!Working \ {"setup"} => v5[q].at \in Kobo!Working \ {"setup"},
         v6' \in [Kobo!Runs -> Kobo!Runs \cup {0}],
         v7' \in [Kobo!Runs -> {"none", "LOADING", "COMPLETE"}],
         \A b \in Kobo!Runs : v7[b] # "none" => v7'[b] # "none",
         v8' \subseteq [id : 1..v1', batch : Kobo!Runs, number : Nat, run : Kobo!Runs],
         \A h \in v8' : v7'[h.batch] # "none",
         v11' = v11
  PROVE  Kobo!Shape'
<1>1. v1' \in 0..KoboPosted /\ v11' \in [Kobo!Runs -> 0..v1']
  BY KoboBounds DEF Kobo!Shape
<1>2. \A b : Kobo!SetUp(b) => b \in DOMAIN v5' /\ v5'[b].at # "setup" /\ v5'[b].batch = b
  BY DEF Kobo!SetUp
<1>3. \A j \in DOMAIN v3' :
        /\ v3'[j].grouped => v3'[j].batch # 0
        /\ v3'[j].batch # 0 =>
             /\ v3'[j].batch \in DOMAIN v5' /\ v5'[v3'[j].batch].at # "setup"
             /\ v5'[v3'[j].batch].batch = v3'[j].batch
  BY <1>2
<1>4. \A r \in DOMAIN v5 :
        /\ v5[r].job \in DOMAIN v3
        /\ v5[r].batch # 0 => Kobo!SetUp(v5[r].batch)
        /\ v5[r].at \in Kobo!Working \ {"setup"} => v5[r].batch # 0 /\ v7[v5[r].batch] # "none"
  BY KoboBounds DEF Kobo!Shape
<1>5. \A r \in DOMAIN v5' :
        /\ v5'[r].job \in DOMAIN v3'
        /\ v5'[r].batch # 0 =>
             /\ v5'[r].batch \in DOMAIN v5' /\ v5'[v5'[r].batch].at # "setup"
             /\ v5'[v5'[r].batch].batch = v5'[r].batch
        /\ v5'[r].at \in Kobo!Working \ {"setup"} => v5'[r].batch # 0 /\ v7'[v5'[r].batch] # "none"
  <2> TAKE r \in DOMAIN v5'
  <2>1. v5'[r].job = v5[r].job /\ v5'[r].batch = v5[r].batch
    OBVIOUS
  <2>2. v5'[r].job \in DOMAIN v3'
    BY <1>4, <2>1
  <2>3. v5'[r].batch # 0 => v5'[r].batch \in DOMAIN v5' /\ v5'[v5'[r].batch].at # "setup"
                            /\ v5'[v5'[r].batch].batch = v5'[r].batch
    BY <1>2, <1>4, <2>1
  <2>4. v5'[r].at \in Kobo!Working \ {"setup"} => v5'[r].batch # 0 /\ v7'[v5'[r].batch] # "none"
    <3>1. v5[r].batch \in Kobo!Runs \cup {0}
      BY KoboRows
    <3>2. QED
      BY <1>4, <2>1, <3>1
  <2>5. QED
    BY <2>2, <2>3, <2>4
<1>6. Len(v5') <= Kobo!MaxRuns
  BY DEF Kobo!Shape
<1>7. QED
  BY <1>1, <1>3, <1>5, <1>6, KoboBounds DEF Kobo!Shape, Kobo!SetUp

\* What a step that leaves the runs alone has to show.
LEMMA KoboShapeStill ==
  ASSUME Kobo!Shape, v5' = v5, v7' = v7, v8' = v8, v11' = v11, v2' = v2,
         v1' \in v1..KoboPosted,
         v3' \in Seq([batch : Kobo!Runs \cup {0}, grouped : BOOLEAN]), DOMAIN v3 \subseteq DOMAIN v3',
         \A j \in DOMAIN v3' : (j \in DOMAIN v3 /\ v3'[j] = v3[j]) \/ v3'[j] = [batch |-> 0, grouped |-> FALSE],
         v4' \subseteq DOMAIN v3', v6' \in [Kobo!Runs -> Kobo!Runs \cup {0}]
  PROVE  Kobo!Shape'
<1>1. v2' \in 0..v1' /\ v5' \in Seq(Kobo!RunRows) /\ v7' \in [Kobo!Runs -> {"none", "LOADING", "COMPLETE"}]
  BY KoboBounds DEF Kobo!Shape
<1>2. \A j \in DOMAIN v3' : /\ v3'[j].grouped => v3'[j].batch # 0
                            /\ v3'[j].batch # 0 => Kobo!SetUp(v3'[j].batch)
  BY KoboBounds DEF Kobo!Shape
<1>3. v8' \subseteq [id : 1..v1', batch : Kobo!Runs, number : Nat, run : Kobo!Runs]
  BY KoboBounds DEF Kobo!Shape
<1>4. \A h \in v8' : v7'[h.batch] # "none"
  BY DEF Kobo!Shape
<1>5. QED
  BY <1>1, <1>2, <1>3, <1>4, KoboShape

\* What a step of one run has to show that leaves Kobo, jobs and locks alone.
LEMMA KoboShapeMove ==
  ASSUME Kobo!Shape, NEW r \in DOMAIN v5, NEW e \in Kobo!RunRows, v5' = [v5 EXCEPT ![r] = e],
         e.job = v5[r].job, e.batch = v5[r].batch, e.at # "setup",
         e.at \in Kobo!Working => v5[r].at \in Kobo!Working \ {"setup"},
         v1' = v1, v2' \in 0..v1, v3' = v3, v4' \subseteq DOMAIN v3,
         v6' \in [Kobo!Runs -> Kobo!Runs \cup {0}],
         v7' \in [Kobo!Runs -> {"none", "LOADING", "COMPLETE"}],
         \A b \in Kobo!Runs : v7[b] # "none" => v7'[b] # "none",
         v8' \subseteq [id : 1..v1, batch : Kobo!Runs, number : Nat, run : Kobo!Runs],
         \A h \in v8' : v7'[h.batch] # "none",
         v11' = v11
  PROVE  /\ Kobo!Shape'
         /\ DOMAIN v5' = DOMAIN v5 /\ \A q \in DOMAIN v5 : v5'[q] = IF q = r THEN e ELSE v5[q]
<1>1. v5 \in Seq(Kobo!RunRows)
  BY DEF Kobo!Shape
<1>2. /\ v5' \in Seq(Kobo!RunRows) /\ Len(v5') = Len(v5) /\ DOMAIN v5' = DOMAIN v5
      /\ \A q \in DOMAIN v5 : v5'[q] = IF q = r THEN e ELSE v5[q]
  BY <1>1, RowReplaced
<1>3. v1' \in v1..KoboPosted /\ v2' \in 0..v1'
  BY KoboBounds DEF Kobo!Shape
<1>4. v3' \in Seq([batch : Kobo!Runs \cup {0}, grouped : BOOLEAN]) /\ DOMAIN v3 \subseteq DOMAIN v3'
  BY KoboBounds DEF Kobo!Shape
<1>5. \A j \in DOMAIN v3' : /\ v3'[j].grouped => v3'[j].batch # 0
                            /\ v3'[j].batch # 0 => Kobo!SetUp(v3'[j].batch)
  BY KoboBounds DEF Kobo!Shape
<1>6. \A q \in DOMAIN v5 :
        /\ v5'[q].job = v5[q].job /\ v5'[q].batch = v5[q].batch
        /\ v5'[q].at = "setup" => v5[q].at = "setup"
        /\ v5'[q].at \in Kobo!Working \ {"setup"} => v5[q].at \in Kobo!Working \ {"setup"}
  BY <1>2
<1>7. v8' \subseteq [id : 1..v1', batch : Kobo!Runs, number : Nat, run : Kobo!Runs]
  OBVIOUS
<1>8. Kobo!Shape'
  BY <1>2, <1>3, <1>4, <1>5, <1>6, <1>7, KoboShape
<1>9. QED
  BY <1>2, <1>8

\* What is imported stays imported, while the marks stay.
LEMMA KoboImported ==
  ASSUME Kobo!KoboInv, Kobo!Shape', v8 \subseteq v8', v1' >= v1, v2' = v2, v11' = v11,
         \A b \in Kobo!Runs : v7'[b] = "COMPLETE" => v7[b] = "COMPLETE",
         \A r \in DOMAIN v5' : v5'[r].at \in {"import", "drained"} =>
           /\ r \in DOMAIN v5 /\ v5'[r].at = v5[r].at
           /\ v5'[r].last = v5[r].last /\ v5'[r].batch = v5[r].batch
  PROVE  Kobo!KoboInv'
<1>1. \A s : Kobo!Done(s) => \E h \in v8' : h.id = s
  BY DEF Kobo!Done
<1>2. \A s \in 1..v2' : \E h \in v8' : h.id = s
  BY <1>1 DEF Kobo!KoboInv
<1>3. \A r \in DOMAIN v5' : v5'[r].at = "import" =>
        v5'[r].last <= v1' /\ \A s \in 1..v5'[r].last : \E h \in v8' : h.id = s
  <2> SUFFICES ASSUME NEW r \in DOMAIN v5', v5'[r].at = "import"
               PROVE  v5'[r].last <= v1' /\ \A s \in 1..v5'[r].last : \E h \in v8' : h.id = s
    OBVIOUS
  <2>1. r \in DOMAIN v5 /\ v5[r].at = "import" /\ v5'[r].last = v5[r].last
    OBVIOUS
  <2>2. v5[r].last <= v1 /\ \A s \in 1..v5[r].last : Kobo!Done(s)
    BY <2>1 DEF Kobo!KoboInv
  <2>3. v5[r].last \in Nat /\ v1 \in Nat /\ v1' \in Nat
    <3>1. v1 \in Nat /\ v1' \in Nat
      BY KoboBounds DEF Kobo!KoboInv, Kobo!Shape
    <3>2. Kobo!Shape
      BY DEF Kobo!KoboInv
    <3>3. QED
      BY <2>1, <3>1, <3>2, KoboRows
  <2>4. QED
    BY <1>1, <2>1, <2>2, <2>3
<1>4. \A r \in DOMAIN v5' : v5'[r].at = "drained" =>
        \A s \in 1..v11'[v5'[r].batch] : \E h \in v8' : h.id = s
  BY <1>1 DEF Kobo!KoboInv
<1>5. \A b \in Kobo!Runs : v7'[b] = "COMPLETE" => \A s \in 1..v11'[b] : \E h \in v8' : h.id = s
  BY DEF Kobo!KoboInv, Kobo!CompleteIsAll
<1>6. QED
  BY <1>2, <1>3, <1>4, <1>5 DEF Kobo!KoboInv, Kobo!Done, Kobo!CompleteIsAll

\* A calm state stays one while the run that imports, the mark and the households stay.
LEMMA KoboCalm ==
  ASSUME Kobo!CalmInv, Kobo!Shape', v8' = v8, v1' >= v1, v2' = v2,
         v12' \in BOOLEAN,
         ~v12' =>
           /\ ~v12
           /\ \A q, r \in DOMAIN v5' : v5'[q].at \in Kobo!Working /\ v5'[r].at \in Kobo!Working => q = r
           /\ \A r \in DOMAIN v5' : v5'[r].at = "import" => r \in DOMAIN v5 /\ v5'[r] = v5[r]
           /\ \A r \in DOMAIN v5 : v5[r].at = "import" => r \in DOMAIN v5' /\ v5'[r] = v5[r]
           /\ \A r \in DOMAIN v5' : v5'[r].at = "begin" =>
                v5'[r].next = Kobo!Cardinality({h \in v8 : h.batch = v5'[r].batch}) + 1
  PROVE  Kobo!CalmInv'
<1>1. Kobo!IsFiniteSet(v8')
  BY DEF Kobo!CalmInv
<1>2. ASSUME ~v12'
      PROVE  /\ Kobo!OnceInOrder'
             /\ \A q, r \in Kobo!Active' : q = r
             /\ \E n \in 0..v1' : Kobo!Reached(n)' /\ {h.id : h \in v8'} = 1..n
             /\ \A r \in DOMAIN v5' : v5'[r].at \in {"begin", "import"} =>
                  v5'[r].next = Kobo!Cardinality({h \in v8' : h.batch = v5'[r].batch}) + 1
  <2>1. Kobo!OnceInOrder'
    BY <1>2 DEF Kobo!CalmInv, Kobo!OnceInOrder, Kobo!HouseholdsOf
  <2>2. \A q, r \in Kobo!Active' : q = r
    BY <1>2 DEF Kobo!Active
  <2>3. \E n \in 0..v1' : Kobo!Reached(n)' /\ {h.id : h \in v8'} = 1..n
    <3>1. PICK n \in 0..v1 : Kobo!Reached(n) /\ {h.id : h \in v8} = 1..n
      BY <1>2 DEF Kobo!CalmInv
    <3>2. n \in 0..v1'
      BY KoboBounds DEF Kobo!CalmInv, Kobo!Shape
    <3>3. (\E r \in DOMAIN v5 : v5[r].at = "import") <=> (\E r \in DOMAIN v5' : v5'[r].at = "import")
      BY <1>2
    <3>4. Kobo!Reached(n)'
      BY <1>2, <3>1, <3>3 DEF Kobo!Reached
    <3>5. QED
      BY <3>1, <3>2, <3>4
  <2>4. \A r \in DOMAIN v5' : v5'[r].at \in {"begin", "import"} =>
          v5'[r].next = Kobo!Cardinality({h \in v8' : h.batch = v5'[r].batch}) + 1
    BY <1>2 DEF Kobo!CalmInv, Kobo!HouseholdsOf, Kobo!BatchOf
  <2>5. QED
    BY <2>1, <2>2, <2>3, <2>4
<1>3. QED
  BY <1>1, <1>2 DEF Kobo!CalmInv, Kobo!HouseholdsOf, Kobo!BatchOf

-----------------------------------------------------------------------------
\* KoboInv and CalmInv together.
KoboBoth == Kobo!KoboInv /\ Kobo!CalmInv /\ v12 \in BOOLEAN

\* Users, Kobo and the broker leave runs and households alone.
LEMMA KoboOutside ==
  ASSUME KoboBoth, \/ Kobo!Submit \/ Kobo!RequestImport \/ UNCHANGED Kobo!vars
                   \/ \E r \in Kobo!Runs : Kobo!Redeliver(r) \/ Kobo!Expire(r)
  PROVE  KoboBoth'
<1>1. Kobo!Shape
  BY DEF KoboBoth, Kobo!KoboInv
<1>2. v5' = v5 /\ v7' = v7 /\ v8' = v8 /\ v11' = v11 /\ v2' = v2 /\ v12' = v12
  BY DEF Kobo!Submit, Kobo!RequestImport, Kobo!Redeliver, Kobo!Expire, Kobo!history, Kobo!vars
<1>3. v1' \in v1..KoboPosted /\ v1' >= v1
  BY <1>1, KoboBounds DEF Kobo!Shape, Kobo!Submit, Kobo!RequestImport, Kobo!Redeliver, Kobo!Expire, Kobo!vars
<1>4. /\ v3' \in Seq([batch : Kobo!Runs \cup {0}, grouped : BOOLEAN]) /\ DOMAIN v3 \subseteq DOMAIN v3'
      /\ \A j \in DOMAIN v3' : (j \in DOMAIN v3 /\ v3'[j] = v3[j]) \/ v3'[j] = [batch |-> 0, grouped |-> FALSE]
      /\ v4' \subseteq DOMAIN v3'
  <2>1. v3 \in Seq([batch : Kobo!Runs \cup {0}, grouped : BOOLEAN]) /\ v4 \subseteq DOMAIN v3
    BY <1>1, KoboBounds DEF Kobo!Shape
  <2>2. CASE Kobo!RequestImport
    <3>1. v3' = Append(v3, [batch |-> 0, grouped |-> FALSE]) /\ v4' = v4 \cup {Len(v3) + 1}
      BY <2>2, KoboBounds DEF Kobo!RequestImport, Kobo!NewJob
    <3>2. [batch |-> 0, grouped |-> FALSE] \in [batch : Kobo!Runs \cup {0}, grouped : BOOLEAN]
      OBVIOUS
    <3>3. QED
      BY <2>1, <3>1, <3>2, RowAdded
  <2>3. CASE v3' = v3 /\ v4' = v4
    BY <2>1, <2>3
  <2>4. CASE v3' = v3 /\ \E r \in Kobo!Runs : Kobo!Redeliver(r)
    <3>1. PICK r \in DOMAIN v5 : v4' = v4 \cup {v5[r].job}
      BY <2>4 DEF Kobo!Redeliver, Kobo!Active
    <3>2. v5[r].job \in DOMAIN v3
      BY <1>1, KoboRows
    <3>3. QED
      BY <2>1, <2>4, <3>1, <3>2
  <2>5. QED
    BY <2>2, <2>3, <2>4 DEF Kobo!Submit, Kobo!Redeliver, Kobo!Expire, Kobo!vars
<1>5. v6' \in [Kobo!Runs -> Kobo!Runs \cup {0}]
  BY <1>1, KoboBounds DEF Kobo!Shape, Kobo!Submit, Kobo!RequestImport, Kobo!Redeliver, Kobo!Expire, Kobo!vars
<1>6. Kobo!Shape'
  BY <1>1, <1>2, <1>3, <1>4, <1>5, KoboShapeStill
<1>7. Kobo!KoboInv'
  BY <1>2, <1>3, <1>6, KoboImported DEF KoboBoth
<1>8. Kobo!CalmInv'
  <2>1. ~v12 => /\ \A q, r \in DOMAIN v5 : v5[q].at \in Kobo!Working /\ v5[r].at \in Kobo!Working => q = r
                /\ \A r \in DOMAIN v5 : v5[r].at = "begin" =>
                     v5[r].next = Kobo!Cardinality({h \in v8 : h.batch = v5[r].batch}) + 1
    BY DEF KoboBoth, Kobo!CalmInv, Kobo!Active, Kobo!HouseholdsOf, Kobo!BatchOf
  <2>2. QED
    BY <1>2, <1>3, <1>6, <2>1, KoboCalm DEF KoboBoth
<1>9. QED
  BY <1>2, <1>7, <1>8 DEF KoboBoth

\* A delivered job begins a run with its batch.
LEMMA KoboDeliver ==
  ASSUME KoboBoth, NEW j, Kobo!Deliver(j)
  PROVE  KoboBoth'
<1>1. Kobo!Shape /\ j \in DOMAIN v3
  BY DEF KoboBoth, Kobo!KoboInv, Kobo!Shape, Kobo!Deliver
<1> DEFINE n == Len(v5) + 1
           e == [job |-> j, at |-> "setup", batch |-> v3[j].batch, base |-> 0, last |-> 0, next |-> 0]
<1>2. /\ v5' = Append(v5, e) /\ Len(v5) < Kobo!MaxRuns /\ v4' = v4 \ {j}
      /\ v1' = v1 /\ v2' = v2 /\ v3' = v3 /\ v7' = v7 /\ v8' = v8 /\ v11' = v11
      /\ v12' = (v12 \/ Kobo!Active # {})
  BY DEF Kobo!Deliver, Kobo!bounds
<1>3. v3[j].batch \in Kobo!Runs \cup {0} /\ (v3[j].batch # 0 => Kobo!SetUp(v3[j].batch))
      /\ (v3[j].grouped => v3[j].batch # 0)
  <2>1. v3 \in Seq([batch : Kobo!Runs \cup {0}, grouped : BOOLEAN])
    BY <1>1, KoboRows
  <2>2. v3[j] \in [batch : Kobo!Runs \cup {0}, grouped : BOOLEAN]
    BY <1>1, <2>1, RowOf
  <2>3. (v3[j].batch # 0 => Kobo!SetUp(v3[j].batch)) /\ (v3[j].grouped => v3[j].batch # 0)
    BY <1>1, KoboBounds DEF Kobo!Shape
  <2>4. QED
    BY <2>2, <2>3
<1>4. e \in Kobo!RunRows
  <2>1. j \in Nat
    BY <1>1, KoboRows
  <2>2. QED
    BY <1>3, <2>1, KoboBounds DEF Kobo!RunRows, Kobo!Working
<1>5. /\ v5' \in Seq(Kobo!RunRows) /\ Len(v5') = n /\ DOMAIN v5' = DOMAIN v5 \cup {n} /\ n \notin DOMAIN v5
      /\ \A q \in DOMAIN v5' : v5'[q] = IF q = n THEN e ELSE v5[q]
  <2>1. v5 \in Seq(Kobo!RunRows)
    BY <1>1, KoboRows
  <2>2. QED
    BY <1>2, <1>4, <2>1, RowAdded
<1>6. v6' \in [Kobo!Runs -> Kobo!Runs \cup {0}]
  <2>1. v6 \in [Kobo!Runs -> Kobo!Runs \cup {0}] /\ Len(v5) \in Nat
    BY <1>1, KoboBounds DEF Kobo!Shape
  <2>2. n \in Kobo!Runs
    BY <1>2, <2>1, KoboBounds
  <2>3. v6' = v6 \/ v6' = [v6 EXCEPT ![v3[j].batch] = n]
    BY DEF Kobo!Deliver
  <2>4. QED
    BY <2>1, <2>2, <2>3
<1>7. Kobo!Shape'
  <2>1. \A b : Kobo!SetUp(b) => b \in DOMAIN v5' /\ v5'[b].at # "setup" /\ v5'[b].batch = b
    BY <1>5 DEF Kobo!SetUp
  <2> HIDE DEF e, n
  <2>2. \A k \in DOMAIN v3 : /\ v3[k].grouped => v3[k].batch # 0
                             /\ v3[k].batch # 0 => Kobo!SetUp(v3[k].batch)
    BY <1>1, KoboBounds DEF Kobo!Shape
  <2>3. \A r \in DOMAIN v5' :
          /\ v5'[r].job \in DOMAIN v3
          /\ v5'[r].batch # 0 => Kobo!SetUp(v5'[r].batch)
          /\ v5'[r].at \in Kobo!Working \ {"setup"} => v5'[r].batch # 0 /\ v7[v5'[r].batch] # "none"
    <3> TAKE r \in DOMAIN v5'
    <3>1. CASE r = n
      BY <1>1, <1>3, <1>5, <3>1 DEF e
    <3>2. CASE r # n
      BY <1>1, <1>5, <3>2, KoboBounds DEF Kobo!Shape
    <3>3. QED
      BY <3>1, <3>2
  <2>4. Len(v5') <= Kobo!MaxRuns
    BY <1>2, <1>5, KoboBounds DEF n
  <2>5. v4' \subseteq DOMAIN v3'
    BY <1>1, <1>2 DEF Kobo!Shape
  <2>6. QED
    BY <1>1, <1>2, <1>5, <1>6, <2>1, <2>2, <2>3, <2>4, <2>5, KoboBounds DEF Kobo!Shape, Kobo!SetUp
<1>8. Kobo!KoboInv'
  <2>1. v1' >= v1
    BY <1>1, <1>2, KoboBounds DEF Kobo!Shape
  <2>2. \A r \in DOMAIN v5' : v5'[r].at \in {"import", "drained"} => r \in DOMAIN v5 /\ v5'[r] = v5[r]
    BY <1>5
  <2>3. QED
    BY <1>2, <1>7, <2>1, <2>2, KoboImported DEF KoboBoth
<1>9. Kobo!CalmInv'
  <2>1. v1' >= v1 /\ v12' \in BOOLEAN
    BY <1>1, <1>2, KoboBounds DEF Kobo!Shape, KoboBoth
  <2>2. ~v12' =>
           /\ ~v12
           /\ \A q, r \in DOMAIN v5' : v5'[q].at \in Kobo!Working /\ v5'[r].at \in Kobo!Working => q = r
           /\ \A r \in DOMAIN v5' : v5'[r].at = "import" => r \in DOMAIN v5 /\ v5'[r] = v5[r]
           /\ \A r \in DOMAIN v5 : v5[r].at = "import" => r \in DOMAIN v5' /\ v5'[r] = v5[r]
           /\ \A r \in DOMAIN v5' : v5'[r].at = "begin" => FALSE
    <3> SUFFICES ASSUME ~v12' PROVE
           /\ \A q, r \in DOMAIN v5' : v5'[q].at \in Kobo!Working /\ v5'[r].at \in Kobo!Working => q = r
           /\ \A r \in DOMAIN v5' : v5'[r].at = "import" => r \in DOMAIN v5 /\ v5'[r] = v5[r]
           /\ \A r \in DOMAIN v5 : v5[r].at = "import" => r \in DOMAIN v5' /\ v5'[r] = v5[r]
           /\ \A r \in DOMAIN v5' : v5'[r].at = "begin" => FALSE
      BY <1>2
    <3>1. \A q \in DOMAIN v5 : v5[q].at \notin Kobo!Working
      BY <1>2 DEF Kobo!Active
    <3>2. e.at = "setup"
      OBVIOUS
    <3>3. "import" \in Kobo!Working /\ "begin" \in Kobo!Working
      BY DEF Kobo!Working
    <3> HIDE DEF e, n
    <3>4. QED
      BY <1>5, <3>1, <3>2, <3>3
  <2>3. QED
    BY <1>2, <1>7, <2>1, <2>2, KoboCalm DEF KoboBoth
<1>10. QED
  BY <1>2, <1>8, <1>9 DEF KoboBoth
\* A step of a run outside the loop keeps a calm state.
LEMMA KoboOne ==
  ASSUME KoboBoth, Kobo!Shape', NEW r \in DOMAIN v5, NEW e,
         DOMAIN v5' = DOMAIN v5, \A q \in DOMAIN v5 : v5'[q] = IF q = r THEN e ELSE v5[q],
         e.at # "import", e.at \in Kobo!Working => v5[r].at \in Kobo!Working,
         e.at = "begin" => e.next = Kobo!Cardinality({h \in v8 : h.batch = e.batch}) + 1,
         v5[r].at # "import" \/ v12' = TRUE,
         v1' >= v1, v2' = v2, v8' = v8, v12' = v12 \/ v12' = TRUE
  PROVE  Kobo!CalmInv'
<1>1. v12' \in BOOLEAN
  BY DEF KoboBoth
<1>2. ASSUME ~v12'
      PROVE  /\ ~v12
             /\ \A q, p \in DOMAIN v5' : v5'[q].at \in Kobo!Working /\ v5'[p].at \in Kobo!Working => q = p
             /\ \A q \in DOMAIN v5' : v5'[q].at = "import" => q \in DOMAIN v5 /\ v5'[q] = v5[q]
             /\ \A q \in DOMAIN v5 : v5[q].at = "import" => q \in DOMAIN v5' /\ v5'[q] = v5[q]
             /\ \A q \in DOMAIN v5' : v5'[q].at = "begin" =>
                  v5'[q].next = Kobo!Cardinality({h \in v8 : h.batch = v5'[q].batch}) + 1
  <2>1. ~v12 /\ v5[r].at # "import"
    BY <1>2
  <2>2. /\ \A q, p \in DOMAIN v5 : v5[q].at \in Kobo!Working /\ v5[p].at \in Kobo!Working => q = p
        /\ \A q \in DOMAIN v5 : v5[q].at = "begin" =>
             v5[q].next = Kobo!Cardinality({h \in v8 : h.batch = v5[q].batch}) + 1
    BY <2>1 DEF KoboBoth, Kobo!CalmInv, Kobo!Active, Kobo!HouseholdsOf, Kobo!BatchOf
  <2>3. \A q \in DOMAIN v5' : v5'[q] = IF q = r THEN e ELSE v5[q]
    OBVIOUS
  <2>4. \A q \in DOMAIN v5' : v5'[q].at = "begin" =>
          v5'[q].next = Kobo!Cardinality({h \in v8 : h.batch = v5'[q].batch}) + 1
    <3> TAKE q \in DOMAIN v5'
    <3>1. CASE q = r
      BY <2>3, <3>1
    <3>2. CASE q # r
      BY <2>2, <2>3, <3>2
    <3>3. QED
      BY <3>1, <3>2
  <2>5. QED
    BY <2>1, <2>2, <2>3, <2>4
<1>3. QED
  BY <1>1, <1>2, KoboCalm DEF KoboBoth

\* The row of a run that ends.
LEMMA KoboEnd ==
  ASSUME Kobo!Shape, NEW r \in DOMAIN v5, NEW stop \in {"done", "failed", "dead"}, Kobo!End(r, stop)
  PROVE  \E e \in Kobo!RunRows : /\ v5' = [v5 EXCEPT ![r] = e] /\ e.at = stop
                                 /\ e.job = v5[r].job /\ e.batch = v5[r].batch
<1> DEFINE e == [v5[r] EXCEPT !.at = stop, !.base = 0, !.last = 0, !.next = 0]
<1>1. v5[r] \in Kobo!RunRows
  BY KoboRows
<1>2. e \in Kobo!RunRows /\ e.at = stop /\ e.job = v5[r].job /\ e.batch = v5[r].batch
  BY <1>1, KoboBounds DEF Kobo!RunRows, Kobo!Ended
<1>3. v5' = [v5 EXCEPT ![r] = e]
  BY DEF Kobo!End
<1>4. QED
  BY <1>2, <1>3

\* Workers die and runs stop.
LEMMA KoboStops ==
  ASSUME KoboBoth, NEW r, Kobo!Crash(r) \/ Kobo!Stop(r)
  PROVE  KoboBoth'
<1>1. Kobo!Shape /\ r \in DOMAIN v5
  BY DEF KoboBoth, Kobo!KoboInv, Kobo!Crash, Kobo!Stop, Kobo!Active
<1>2. PICK stop \in {"done", "failed", "dead"} : Kobo!End(r, stop)
  BY DEF Kobo!Crash, Kobo!Stop
<1>3. PICK e \in Kobo!RunRows : /\ v5' = [v5 EXCEPT ![r] = e] /\ e.at = stop
                                /\ e.job = v5[r].job /\ e.batch = v5[r].batch
  BY <1>1, <1>2, KoboEnd
<1>4. v1' = v1 /\ v2' = v2 /\ v3' = v3 /\ v6' = v6 /\ v7' = v7 /\ v8' = v8 /\ v11' = v11
  BY DEF Kobo!Crash, Kobo!Stop, Kobo!bounds, Kobo!history
<1>5. v4' \subseteq DOMAIN v3
  <2>1. v5[r].job \in DOMAIN v3 /\ v4 \subseteq DOMAIN v3
    BY <1>1, KoboRows DEF Kobo!Shape
  <2>2. QED
    BY <2>1 DEF Kobo!Crash, Kobo!Stop
<1>6. (v12' = v12 \/ v12' = TRUE) /\ (v5[r].at # "import" \/ v12' = TRUE)
  BY <1>1 DEF Kobo!Crash, Kobo!Stop, Kobo!history, Kobo!At
<1>7. e.at \notin Kobo!Working /\ e.at \notin {"import", "drained", "setup", "begin"}
  BY <1>3 DEF Kobo!Working
<1>8. /\ Kobo!Shape'
      /\ DOMAIN v5' = DOMAIN v5 /\ \A q \in DOMAIN v5 : v5'[q] = IF q = r THEN e ELSE v5[q]
  <2>1. /\ v2 \in 0..v1 /\ v6' \in [Kobo!Runs -> Kobo!Runs \cup {0}]
        /\ v7' \in [Kobo!Runs -> {"none", "LOADING", "COMPLETE"}]
    BY <1>1, <1>4, KoboBounds DEF Kobo!Shape
  <2>2. v8' \subseteq [id : 1..v1, batch : Kobo!Runs, number : Nat, run : Kobo!Runs]
        /\ \A h \in v8' : v7'[h.batch] # "none"
    BY <1>1, <1>4 DEF Kobo!Shape
  <2>3. QED
    BY <1>1, <1>3, <1>4, <1>5, <1>7, <2>1, <2>2, KoboShapeMove
<1>9. v1' >= v1
  BY <1>1, <1>4, KoboBounds DEF Kobo!Shape
<1>10. Kobo!KoboInv'
  BY <1>4, <1>7, <1>8, <1>9, KoboImported DEF KoboBoth
<1>11. Kobo!CalmInv'
  BY <1>1, <1>4, <1>6, <1>7, <1>8, <1>9, KoboOne
<1>12. QED
  BY <1>6, <1>10, <1>11 DEF KoboBoth

\* A run that is over releases its locks.
LEMMA KoboReleased ==
  ASSUME Kobo!Shape, NEW r PROVE Kobo!Released(r) \in [Kobo!Runs -> Kobo!Runs \cup {0}]
BY KoboBounds DEF Kobo!Shape, Kobo!Released

\* A continuation is for a batch that a run has set up.
LEMMA KoboContinue ==
  ASSUME KoboBoth, NEW r, Kobo!Continue(r)
  PROVE  KoboBoth'
<1>1. Kobo!Shape /\ r \in DOMAIN v5 /\ v5[r].at = "timebox"
  BY DEF KoboBoth, Kobo!KoboInv, Kobo!Continue, Kobo!At
<1>2. PICK e \in Kobo!RunRows : /\ v5' = [v5 EXCEPT ![r] = e] /\ e.at = "done"
                                /\ e.job = v5[r].job /\ e.batch = v5[r].batch
  BY <1>1, KoboEnd DEF Kobo!Continue
<1> DEFINE j == [batch |-> v5[r].batch, grouped |-> TRUE]
<1>3. /\ v1' = v1 /\ v2' = v2 /\ v7' = v7 /\ v8' = v8 /\ v11' = v11 /\ v12' = v12 /\ v6' = Kobo!Released(r)
      /\ v3' = Append(v3, j) /\ v4' = v4 \cup {Len(v3) + 1}
  BY DEF Kobo!Continue, Kobo!bounds, Kobo!history, Kobo!NewJob, Kobo!BatchOf
<1>4. v5[r].batch # 0 /\ Kobo!SetUp(v5[r].batch) /\ v5[r].batch \in Kobo!Runs \cup {0}
  <2>1. "timebox" \in Kobo!Working \ {"setup"}
    BY DEF Kobo!Working
  <2>2. v5[r].batch # 0 /\ Kobo!SetUp(v5[r].batch)
    BY <1>1, <2>1, KoboBounds DEF Kobo!Shape
  <2>3. QED
    BY <1>1, <2>2, KoboRows
<1>5. /\ v3' \in Seq([batch : Kobo!Runs \cup {0}, grouped : BOOLEAN]) /\ v4' \subseteq DOMAIN v3'
      /\ DOMAIN v3 \subseteq DOMAIN v3'
      /\ \A k \in DOMAIN v3' : (k \in DOMAIN v3 /\ v3'[k] = v3[k]) \/ v3'[k] = j
  <2>1. j \in [batch : Kobo!Runs \cup {0}, grouped : BOOLEAN]
    BY <1>4
  <2>2. v3 \in Seq([batch : Kobo!Runs \cup {0}, grouped : BOOLEAN]) /\ v4 \subseteq DOMAIN v3
    BY <1>1, KoboRows DEF Kobo!Shape
  <2> HIDE DEF j
  <2>3. /\ v3' \in Seq([batch : Kobo!Runs \cup {0}, grouped : BOOLEAN])
        /\ DOMAIN v3' = DOMAIN v3 \cup {Len(v3) + 1}
        /\ \A k \in DOMAIN v3' : v3'[k] = IF k = Len(v3) + 1 THEN j ELSE v3[k]
    BY <1>3, <2>1, <2>2, RowAdded
  <2>4. QED
    BY <1>3, <2>2, <2>3
<1>6. \A k \in DOMAIN v3' : /\ v3'[k].grouped => v3'[k].batch # 0
                            /\ v3'[k].batch # 0 => Kobo!SetUp(v3'[k].batch)
  <2>1. \A k \in DOMAIN v3 : /\ v3[k].grouped => v3[k].batch # 0
                             /\ v3[k].batch # 0 => Kobo!SetUp(v3[k].batch)
    BY <1>1, KoboBounds DEF Kobo!Shape
  <2>2. QED
    BY <1>4, <1>5, <2>1
<1>7. e.at \notin Kobo!Working /\ e.at \notin {"import", "drained", "setup", "begin"}
  BY <1>2 DEF Kobo!Working
<1>8. /\ v5' \in Seq(Kobo!RunRows) /\ Len(v5') = Len(v5) /\ DOMAIN v5' = DOMAIN v5
      /\ \A q \in DOMAIN v5 : v5'[q] = IF q = r THEN e ELSE v5[q]
  <2>1. v5 \in Seq(Kobo!RunRows)
    BY <1>1, KoboRows
  <2>2. QED
    BY <1>1, <1>2, <2>1, RowReplaced
<1>9. v1' \in v1..KoboPosted /\ v2' \in 0..v1' /\ v1' >= v1
  BY <1>1, <1>3, KoboBounds DEF Kobo!Shape
<1>10. Kobo!Shape'
  <2>1. v6' \in [Kobo!Runs -> Kobo!Runs \cup {0}]
    BY <1>1, <1>3, KoboReleased
  <2>2. v7' \in [Kobo!Runs -> {"none", "LOADING", "COMPLETE"}] /\ \A h \in v8' : v7'[h.batch] # "none"
    BY <1>1, <1>3 DEF Kobo!Shape
  <2>3. v8' \subseteq [id : 1..v1', batch : Kobo!Runs, number : Nat, run : Kobo!Runs]
    BY <1>1, <1>3, KoboBounds DEF Kobo!Shape
  <2>4. \A q \in DOMAIN v5 :
           /\ v5'[q].job = v5[q].job /\ v5'[q].batch = v5[q].batch
           /\ v5'[q].at = "setup" => v5[q].at = "setup"
           /\ v5'[q].at \in Kobo!Working \ {"setup"} => v5[q].at \in Kobo!Working \ {"setup"}
    BY <1>2, <1>7, <1>8
  <2>5. QED
    BY <1>1, <1>3, <1>5, <1>6, <1>8, <1>9, <2>1, <2>2, <2>3, <2>4, KoboShape
<1>11. Kobo!KoboInv'
  BY <1>3, <1>7, <1>8, <1>9, <1>10, KoboImported DEF KoboBoth
<1>12. Kobo!CalmInv'
  BY <1>1, <1>3, <1>7, <1>8, <1>9, <1>10, KoboOne
<1>13. QED
  BY <1>3, <1>11, <1>12 DEF KoboBoth
\* A run that has seen the end completes its batch.
LEMMA KoboComplete ==
  ASSUME KoboBoth, NEW r, Kobo!Complete(r)
  PROVE  KoboBoth'
<1>1. Kobo!Shape /\ r \in DOMAIN v5 /\ v5[r].at = "drained"
  BY DEF KoboBoth, Kobo!KoboInv, Kobo!Complete, Kobo!At
<1>2. PICK e \in Kobo!RunRows : /\ v5' = [v5 EXCEPT ![r] = e] /\ e.at = "done"
                                /\ e.job = v5[r].job /\ e.batch = v5[r].batch
  BY <1>1, KoboEnd DEF Kobo!Complete
<1> DEFINE b == v5[r].batch
<1>3. /\ v1' = v1 /\ v2' = v2 /\ v3' = v3 /\ v4' = v4 /\ v8' = v8 /\ v11' = v11 /\ v12' = v12
      /\ v6' = Kobo!Released(r) /\ v7' = [v7 EXCEPT ![b] = "COMPLETE"]
  BY DEF Kobo!Complete, Kobo!bounds, Kobo!history, Kobo!BatchOf
<1>4. \A c \in Kobo!Runs : v7'[c] = IF c = b THEN "COMPLETE" ELSE v7[c]
  BY <1>1, <1>3 DEF Kobo!Shape
<1>5. e.at \notin Kobo!Working /\ e.at \notin {"import", "drained", "setup", "begin"}
  BY <1>2 DEF Kobo!Working
<1>6. /\ Kobo!Shape'
      /\ DOMAIN v5' = DOMAIN v5 /\ \A q \in DOMAIN v5 : v5'[q] = IF q = r THEN e ELSE v5[q]
  <2>1. v2 \in 0..v1 /\ v4' \subseteq DOMAIN v3 /\ v7' \in [Kobo!Runs -> {"none", "LOADING", "COMPLETE"}]
    BY <1>1, <1>3 DEF Kobo!Shape
  <2>2. v8' \subseteq [id : 1..v1, batch : Kobo!Runs, number : Nat, run : Kobo!Runs]
    BY <1>1, <1>3 DEF Kobo!Shape
  <2>3. \A c \in Kobo!Runs : v7[c] # "none" => v7'[c] # "none"
    BY <1>4
  <2>4. \A h \in v8' : v7'[h.batch] # "none"
    <3>1. \A h \in v8 : h.batch \in Kobo!Runs /\ v7[h.batch] # "none"
      BY <1>1 DEF Kobo!Shape
    <3>2. QED
      BY <1>3, <2>3, <3>1
  <2>5. v6' \in [Kobo!Runs -> Kobo!Runs \cup {0}]
    BY <1>1, <1>3, KoboReleased
  <2>6. QED
    BY <1>1, <1>2, <1>3, <1>5, <2>1, <2>2, <2>3, <2>4, <2>5, KoboShapeMove
<1>7. v1' >= v1 /\ v1' \in Nat
  BY <1>1, <1>3, KoboBounds DEF Kobo!Shape
<1>8. Kobo!KoboInv'
  <2>1. /\ \A s \in 1..v2 : Kobo!Done(s)
        /\ \A q \in DOMAIN v5 :
             /\ v5[q].at = "import" => v5[q].last <= v1 /\ \A s \in 1..v5[q].last : Kobo!Done(s)
             /\ v5[q].at = "drained" => \A s \in 1..v11[v5[q].batch] : Kobo!Done(s)
        /\ \A c \in Kobo!Runs : v7[c] = "COMPLETE" => \A s \in 1..v11[c] : Kobo!Done(s)
    BY DEF KoboBoth, Kobo!KoboInv, Kobo!CompleteIsAll, Kobo!Done
  <2>2. \A c \in Kobo!Runs : v7'[c] = "COMPLETE" => \A s \in 1..v11'[c] : Kobo!Done(s)
    BY <1>1, <1>3, <1>4, <2>1
  <2>3. \A q \in DOMAIN v5' : v5'[q].at \in {"import", "drained"} => q \in DOMAIN v5 /\ v5'[q] = v5[q]
    BY <1>5, <1>6
  <2>4. /\ \A s \in 1..v2' : Kobo!Done(s)
        /\ \A q \in DOMAIN v5' :
             /\ v5'[q].at = "import" => v5'[q].last <= v1' /\ \A s \in 1..v5'[q].last : Kobo!Done(s)
             /\ v5'[q].at = "drained" => \A s \in 1..v11'[v5'[q].batch] : Kobo!Done(s)
    BY <1>3, <2>1, <2>3
  <2>5. QED
    BY <1>3, <1>6, <2>2, <2>4 DEF Kobo!KoboInv, Kobo!CompleteIsAll, Kobo!Done
<1>9. Kobo!CalmInv'
  BY <1>1, <1>3, <1>5, <1>6, <1>7, KoboOne
<1>10. QED
  BY <1>3, <1>8, <1>9 DEF KoboBoth

\* The loop begins at the mark.
LEMMA KoboBegin ==
  ASSUME KoboBoth, NEW r, Kobo!Begin(r)
  PROVE  KoboBoth'
<1>1. Kobo!Shape /\ r \in DOMAIN v5 /\ v5[r].at = "begin"
  BY DEF KoboBoth, Kobo!KoboInv, Kobo!Begin, Kobo!At
<1> DEFINE e == [v5[r] EXCEPT !.at = "import", !.base = v2, !.last = v2]
<1>2. /\ v1' = v1 /\ v2' = v2 /\ v3' = v3 /\ v4' = v4 /\ v6' = v6 /\ v7' = v7 /\ v8' = v8
      /\ v11' = v11 /\ v12' = v12 /\ v5' = [v5 EXCEPT ![r] = e]
  BY DEF Kobo!Begin, Kobo!bounds, Kobo!history
<1>3. v1 \in Nat /\ v2 \in 0..v1 /\ v2 \in Nat
  BY <1>1, KoboBounds DEF Kobo!Shape
<1>4. /\ e \in Kobo!RunRows /\ e.at = "import" /\ e.base = v2 /\ e.last = v2
      /\ e.job = v5[r].job /\ e.batch = v5[r].batch /\ e.next = v5[r].next
  <2>1. v5[r] \in Kobo!RunRows
    BY <1>1, KoboRows
  <2>2. QED
    BY <1>3, <2>1, KoboBounds DEF Kobo!RunRows, Kobo!Working
<1> HIDE DEF e
<1>5. {"begin", "import"} \subseteq Kobo!Working \ {"setup"}
  BY DEF Kobo!Working
<1>6. /\ Kobo!Shape'
      /\ DOMAIN v5' = DOMAIN v5 /\ \A q \in DOMAIN v5 : v5'[q] = IF q = r THEN e ELSE v5[q]
  <2>1. /\ v4' \subseteq DOMAIN v3 /\ v6' \in [Kobo!Runs -> Kobo!Runs \cup {0}]
        /\ v7' \in [Kobo!Runs -> {"none", "LOADING", "COMPLETE"}]
    BY <1>1, <1>2, KoboBounds DEF Kobo!Shape
  <2>2. v8' \subseteq [id : 1..v1, batch : Kobo!Runs, number : Nat, run : Kobo!Runs]
        /\ \A h \in v8' : v7'[h.batch] # "none"
    BY <1>1, <1>2 DEF Kobo!Shape
  <2>3. QED
    BY <1>1, <1>2, <1>3, <1>4, <1>5, <2>1, <2>2, KoboShapeMove
<1>7. Kobo!KoboInv'
  <2>1. /\ \A s \in 1..v2 : Kobo!Done(s)
        /\ \A q \in DOMAIN v5 :
             /\ v5[q].at = "import" => v5[q].last <= v1 /\ \A s \in 1..v5[q].last : Kobo!Done(s)
             /\ v5[q].at = "drained" => \A s \in 1..v11[v5[q].batch] : Kobo!Done(s)
    BY DEF KoboBoth, Kobo!KoboInv
  <2>2. \A q \in DOMAIN v5' :
          /\ v5'[q].at = "import" => v5'[q].last <= v1' /\ \A s \in 1..v5'[q].last : Kobo!Done(s)
          /\ v5'[q].at = "drained" => \A s \in 1..v11'[v5'[q].batch] : Kobo!Done(s)
    <3> TAKE q \in DOMAIN v5'
    <3>1. CASE q = r
      BY <1>2, <1>3, <1>4, <1>6, <2>1, <3>1
    <3>2. CASE q # r
      BY <1>2, <1>6, <2>1, <3>2
    <3>3. QED
      BY <3>1, <3>2
  <2>3. Kobo!CompleteIsAll'
    BY <1>2 DEF KoboBoth, Kobo!KoboInv, Kobo!CompleteIsAll
  <2>4. QED
    BY <1>2, <1>6, <2>1, <2>2, <2>3 DEF Kobo!KoboInv, Kobo!Done
<1>8. Kobo!CalmInv'
  <2>1. ASSUME ~v12'
        PROVE  /\ Kobo!OnceInOrder'
               /\ \A q, p \in Kobo!Active' : q = p
               /\ \E n \in 0..v1' : Kobo!Reached(n)' /\ {h.id : h \in v8'} = 1..n
               /\ \A q \in DOMAIN v5' : v5'[q].at \in {"begin", "import"} =>
                    v5'[q].next = Kobo!Cardinality({h \in v8' : h.batch = v5'[q].batch}) + 1
    <3>1. ~v12 /\ Kobo!OnceInOrder /\ \A q, p \in Kobo!Active : q = p
      BY <1>2, <2>1 DEF KoboBoth, Kobo!CalmInv
    <3>2. Kobo!OnceInOrder'
      BY <1>2, <3>1 DEF Kobo!OnceInOrder, Kobo!HouseholdsOf
    <3>3. Kobo!Active' = Kobo!Active /\ r \in Kobo!Active
      BY <1>1, <1>4, <1>5, <1>6 DEF Kobo!Active
    <3>4. \A q \in DOMAIN v5 : v5[q].at \in {"begin", "import"} => q = r
      BY <1>5, <3>1, <3>3 DEF Kobo!Active
    <3>5. PICK n \in 0..v1 : Kobo!Reached(n) /\ {h.id : h \in v8} = 1..n
      BY <3>1 DEF KoboBoth, Kobo!CalmInv
    <3>6. n = v2
      BY <1>1, <3>4, <3>5 DEF Kobo!Reached
    <3>7. \A q \in DOMAIN v5' : v5'[q].at = "import" => q = r
      BY <1>6, <3>4
    <3>8. Kobo!Reached(n)'
      BY <1>1, <1>2, <1>3, <1>4, <1>6, <3>6, <3>7 DEF Kobo!Reached
    <3>9. v5[r].next = Kobo!Cardinality({h \in v8 : h.batch = v5[r].batch}) + 1
      BY <1>1, <3>1 DEF KoboBoth, Kobo!CalmInv, Kobo!HouseholdsOf, Kobo!BatchOf
    <3>10. \A q \in DOMAIN v5' : v5'[q].at \in {"begin", "import"} =>
             v5'[q].next = Kobo!Cardinality({h \in v8' : h.batch = v5'[q].batch}) + 1
      BY <1>2, <1>4, <1>6, <3>4, <3>9
    <3>11. QED
      BY <1>2, <3>1, <3>2, <3>3, <3>5, <3>8, <3>10
  <2>2. Kobo!IsFiniteSet(v8')
    BY <1>2 DEF KoboBoth, Kobo!CalmInv
  <2>3. QED
    BY <1>6, <2>1, <2>2 DEF Kobo!CalmInv, Kobo!HouseholdsOf, Kobo!BatchOf
<1>9. QED
  BY <1>2, <1>7, <1>8 DEF KoboBoth
\* A run sets up its batch, a new one that nobody has seen or that of its job.
LEMMA KoboSetup ==
  ASSUME KoboBoth, NEW r, Kobo!Setup(r)
  PROVE  KoboBoth'
<1>1. Kobo!Shape /\ r \in DOMAIN v5 /\ v5[r].at = "setup"
  BY DEF KoboBoth, Kobo!KoboInv, Kobo!Setup, Kobo!At
<1> DEFINE b == IF v5[r].batch = 0 THEN r ELSE v5[r].batch
           n == Kobo!Cardinality({h \in v8 : h.batch = b}) + 1
           e == [v5[r] EXCEPT !.at = "begin", !.batch = b, !.next = n]
           j == v5[r].job
           f == [v3[j] EXCEPT !.batch = b]
<1>2. /\ v1' = v1 /\ v2' = v2 /\ v4' = v4 /\ v6' = v6 /\ v8' = v8 /\ v12' = v12
      /\ v7' = [v7 EXCEPT ![b] = "LOADING"]
      /\ v11' = [v11 EXCEPT ![b] = IF b = r THEN v1 ELSE @]
      /\ v5' = [v5 EXCEPT ![r] = e] /\ v3' = [v3 EXCEPT ![j] = f]
  BY KoboBounds DEF Kobo!Setup, Kobo!bounds, Kobo!BatchOf, Kobo!HouseholdsOf
<1>3. v1 \in Nat /\ v2 \in 0..v1
  BY <1>1, KoboBounds DEF Kobo!Shape
<1>4. b \in Kobo!Runs /\ b # 0 /\ (b # r => b = v5[r].batch /\ Kobo!SetUp(b))
  <2>1. r \in Kobo!Runs /\ r # 0 /\ v5[r].batch \in Kobo!Runs \cup {0}
    BY <1>1, KoboRows
  <2>2. v5[r].batch # 0 => Kobo!SetUp(v5[r].batch)
    BY <1>1, KoboBounds DEF Kobo!Shape
  <2>3. QED
    BY <2>1, <2>2
<1>5. ~Kobo!SetUp(r)
  BY <1>1 DEF Kobo!SetUp
<1>6. n \in Nat
  <2>1. IsFiniteSet(v8)
    BY DEF KoboBoth, Kobo!CalmInv, Kobo!IsFiniteSet, IsFiniteSet
  <2>2. {h \in v8 : h.batch = b} \in SUBSET v8
    OBVIOUS
  <2>3. Cardinality({h \in v8 : h.batch = b}) \in Nat
    BY <2>1, <2>2, FS_Subset, FS_CardinalityType
  <2>4. n = Cardinality({h \in v8 : h.batch = b}) + 1
    BY DEF Kobo!Cardinality, Cardinality
  <2>5. QED
    BY <2>3, <2>4
<1>7. /\ e \in Kobo!RunRows /\ e.at = "begin" /\ e.job = j /\ e.batch = b /\ e.next = n
      /\ j \in DOMAIN v3 /\ f \in [batch : Kobo!Runs \cup {0}, grouped : BOOLEAN] /\ f.batch = b
  <2> HIDE DEF b, n
  <2>1. v5[r] \in Kobo!RunRows /\ j \in DOMAIN v3 /\ v3 \in Seq([batch : Kobo!Runs \cup {0}, grouped : BOOLEAN])
    BY <1>1, KoboRows
  <2>2. v3[j] \in [batch : Kobo!Runs \cup {0}, grouped : BOOLEAN]
    BY <2>1, RowOf
  <2>3. e \in Kobo!RunRows /\ e.at = "begin" /\ e.job = j /\ e.batch = b /\ e.next = n
    BY <1>4, <1>6, <2>1, KoboBounds DEF Kobo!RunRows, Kobo!Working
  <2>4. f \in [batch : Kobo!Runs \cup {0}, grouped : BOOLEAN] /\ f.batch = b
    BY <1>4, <2>2
  <2>5. QED
    BY <2>1, <2>3, <2>4
<1> HIDE DEF e, f, n
<1>8. /\ v5' \in Seq(Kobo!RunRows) /\ Len(v5') = Len(v5) /\ DOMAIN v5' = DOMAIN v5
      /\ \A q \in DOMAIN v5 : v5'[q] = IF q = r THEN e ELSE v5[q]
  <2>1. v5 \in Seq(Kobo!RunRows)
    BY <1>1, KoboRows
  <2>2. QED
    BY <1>1, <1>2, <1>7, <2>1, RowReplaced
<1>9. /\ v3' \in Seq([batch : Kobo!Runs \cup {0}, grouped : BOOLEAN]) /\ DOMAIN v3' = DOMAIN v3
      /\ \A k \in DOMAIN v3 : v3'[k] = IF k = j THEN f ELSE v3[k]
  <2>1. v3 \in Seq([batch : Kobo!Runs \cup {0}, grouped : BOOLEAN])
    BY <1>1, KoboRows
  <2>2. QED
    BY <1>2, <1>7, <2>1, RowReplaced
<1>10. \A c : Kobo!SetUp(c) => c \in DOMAIN v5' /\ v5'[c].at # "setup" /\ v5'[c].batch = c
  BY <1>5, <1>8 DEF Kobo!SetUp
<1>11. b \in DOMAIN v5' /\ v5'[b].at # "setup" /\ v5'[b].batch = b
  <2>1. CASE b = r
    BY <1>1, <1>7, <1>8, <2>1
  <2>2. CASE b # r
    BY <1>4, <1>10, <2>2
  <2>3. QED
    BY <2>1, <2>2
<1>12. \A c \in Kobo!Runs : /\ v7'[c] = (IF c = b THEN "LOADING" ELSE v7[c])
                            /\ v11'[c] = (IF c = b /\ b = r THEN v1 ELSE v11[c])
  BY <1>1, <1>2, <1>4 DEF Kobo!Shape
<1>13. /\ v7' \in [Kobo!Runs -> {"none", "LOADING", "COMPLETE"}]
       /\ v11' \in [Kobo!Runs -> 0..v1']
  <2>1. v7' \in [Kobo!Runs -> {"none", "LOADING", "COMPLETE"}]
    BY <1>1, <1>2 DEF Kobo!Shape
  <2>2. v11 \in [Kobo!Runs -> 0..v1]
    BY <1>1 DEF Kobo!Shape
  <2> HIDE DEF b
  <2>3. (IF b = r THEN v1 ELSE v11[b]) \in 0..v1
    BY <1>3, <1>4, <2>2
  <2>4. QED
    BY <1>2, <2>1, <2>2, <2>3
<1> HIDE DEF b, j
<1>14. Kobo!Shape'
  <2>1. \A k \in DOMAIN v3' :
          /\ v3'[k].grouped => v3'[k].batch # 0
          /\ v3'[k].batch # 0 =>
               /\ v3'[k].batch \in DOMAIN v5' /\ v5'[v3'[k].batch].at # "setup"
               /\ v5'[v3'[k].batch].batch = v3'[k].batch
    <3> TAKE k \in DOMAIN v3'
    <3>1. CASE k = j
      BY <1>4, <1>7, <1>9, <1>11, <3>1
    <3>2. CASE k # j
      <4>1. /\ v3[k].grouped => v3[k].batch # 0
            /\ v3[k].batch # 0 => Kobo!SetUp(v3[k].batch)
        BY <1>1, <1>9, KoboBounds DEF Kobo!Shape
      <4>2. QED
        BY <1>9, <1>10, <3>2, <4>1
    <3>3. QED
      BY <3>1, <3>2
  <2>2. \A q \in DOMAIN v5' :
          /\ v5'[q].job \in DOMAIN v3'
          /\ v5'[q].batch # 0 =>
               /\ v5'[q].batch \in DOMAIN v5' /\ v5'[v5'[q].batch].at # "setup"
               /\ v5'[v5'[q].batch].batch = v5'[q].batch
          /\ v5'[q].at \in Kobo!Working \ {"setup"} => v5'[q].batch # 0 /\ v7'[v5'[q].batch] # "none"
    <3> TAKE q \in DOMAIN v5'
    <3>1. CASE q = r
      BY <1>4, <1>7, <1>8, <1>9, <1>11, <1>12, <3>1
    <3>2. CASE q # r
      <4>1. /\ v5[q].job \in DOMAIN v3 /\ v5[q].batch \in Kobo!Runs \cup {0}
            /\ v5[q].batch # 0 => Kobo!SetUp(v5[q].batch)
            /\ v5[q].at \in Kobo!Working \ {"setup"} => v5[q].batch # 0 /\ v7[v5[q].batch] # "none"
        BY <1>1, <1>8, KoboRows, KoboBounds DEF Kobo!Shape
      <4>2. v5'[q] = v5[q]
        BY <1>8, <3>2
      <4>3. QED
        BY <1>9, <1>10, <1>12, <4>1, <4>2
    <3>3. QED
      BY <3>1, <3>2
  <2>3. /\ v1' \in 0..KoboPosted /\ v2' \in 0..v1' /\ v4' \subseteq DOMAIN v3' /\ Len(v5') <= Kobo!MaxRuns
        /\ v6' \in [Kobo!Runs -> Kobo!Runs \cup {0}]
        /\ v8' \subseteq [id : 1..v1', batch : Kobo!Runs, number : Nat, run : Kobo!Runs]
    BY <1>1, <1>2, <1>8, <1>9, KoboBounds DEF Kobo!Shape
  <2>4. \A h \in v8' : v7'[h.batch] # "none"
    <3>1. \A h \in v8 : h.batch \in Kobo!Runs /\ v7[h.batch] # "none"
      BY <1>1 DEF Kobo!Shape
    <3>2. QED
      BY <1>2, <1>12, <3>1
  <2>5. QED
    BY <1>8, <1>9, <1>13, <2>1, <2>2, <2>3, <2>4, KoboBounds DEF Kobo!Shape, Kobo!SetUp
<1>15. Kobo!KoboInv'
  <2>1. /\ \A s \in 1..v2 : Kobo!Done(s)
        /\ \A q \in DOMAIN v5 :
             /\ v5[q].at = "import" => v5[q].last <= v1 /\ \A s \in 1..v5[q].last : Kobo!Done(s)
             /\ v5[q].at = "drained" => \A s \in 1..v11[v5[q].batch] : Kobo!Done(s)
        /\ \A c \in Kobo!Runs : v7[c] = "COMPLETE" => \A s \in 1..v11[c] : Kobo!Done(s)
    BY DEF KoboBoth, Kobo!KoboInv, Kobo!CompleteIsAll, Kobo!Done
  <2>2. \A q \in DOMAIN v5' : v5'[q].at \in {"import", "drained"} =>
          /\ q \in DOMAIN v5 /\ v5'[q] = v5[q] /\ v5[q].batch \in Kobo!Runs /\ v5[q].batch # r
    <3> SUFFICES ASSUME NEW q \in DOMAIN v5', v5'[q].at \in {"import", "drained"}
                 PROVE  /\ q \in DOMAIN v5 /\ v5'[q] = v5[q]
                        /\ v5[q].batch \in Kobo!Runs /\ v5[q].batch # r
      OBVIOUS
    <3>1. q # r /\ q \in DOMAIN v5 /\ v5'[q] = v5[q]
      BY <1>7, <1>8
    <3>2. v5[q].at \in Kobo!Working \ {"setup"} /\ v5[q].batch \in Kobo!Runs \cup {0}
      BY <1>1, <3>1, KoboRows DEF Kobo!Working
    <3>3. v5[q].batch # 0 /\ Kobo!SetUp(v5[q].batch)
      BY <1>1, <3>1, <3>2, KoboBounds DEF Kobo!Shape
    <3>4. QED
      BY <1>5, <3>1, <3>2, <3>3
  <2>3. \A q \in DOMAIN v5' :
          /\ v5'[q].at = "import" => v5'[q].last <= v1' /\ \A s \in 1..v5'[q].last : Kobo!Done(s)
          /\ v5'[q].at = "drained" => \A s \in 1..v11'[v5'[q].batch] : Kobo!Done(s)
    <3> TAKE q \in DOMAIN v5'
    <3>1. CASE v5'[q].at \in {"import", "drained"}
      <4>1. q \in DOMAIN v5 /\ v5'[q] = v5[q] /\ v11'[v5[q].batch] = v11[v5[q].batch]
        BY <1>12, <2>2, <3>1
      <4>2. QED
        BY <1>2, <2>1, <4>1
    <3>2. QED
      BY <3>1
  <2>4. \A c \in Kobo!Runs : v7'[c] = "COMPLETE" => \A s \in 1..v11'[c] : Kobo!Done(s)
    BY <1>12, <2>1
  <2>5. QED
    BY <1>2, <1>14, <2>1, <2>3, <2>4 DEF Kobo!KoboInv, Kobo!CompleteIsAll, Kobo!Done
<1>16. Kobo!CalmInv'
  <2>1. "setup" \in Kobo!Working /\ v1' >= v1 /\ e.at # "import"
    BY <1>2, <1>3, <1>7 DEF Kobo!Working
  <2>2. e.next = Kobo!Cardinality({h \in v8 : h.batch = e.batch}) + 1
    BY <1>7 DEF n
  <2>3. QED
    BY <1>1, <1>2, <1>8, <1>14, <2>1, <2>2, KoboOne
<1>17. QED
  BY <1>2, <1>15, <1>16 DEF KoboBoth

\* A run that leaves the loop saves how far it has come.
LEMMA KoboLoopEnds ==
  ASSUME KoboBoth, NEW r, Kobo!Timebox(r) \/ Kobo!Drain(r) \/ Kobo!Fail(r)
  PROVE  KoboBoth'
<1>1. Kobo!Shape /\ r \in DOMAIN v5 /\ v5[r].at = "import"
  BY DEF KoboBoth, Kobo!KoboInv, Kobo!Timebox, Kobo!Drain, Kobo!Fail, Kobo!At
<1>2. /\ v1' = v1 /\ v3' = v3 /\ v4' = v4 /\ v6' = v6 /\ v7' = v7 /\ v8' = v8 /\ v11' = v11 /\ v12' = v12
      /\ v2' = (IF v5[r].last > v5[r].base THEN v5[r].last ELSE v2)
  BY DEF Kobo!Timebox, Kobo!Drain, Kobo!Fail, Kobo!Save, Kobo!bounds, Kobo!history
<1>3. PICK e \in Kobo!RunRows : /\ v5' = [v5 EXCEPT ![r] = e] /\ e.at \in {"timebox", "drained", "failed"}
                                /\ e.job = v5[r].job /\ e.batch = v5[r].batch
                                /\ e.at = "drained" => v5[r].last >= v1
  <2>1. CASE Kobo!Fail(r)
    <3>1. Kobo!End(r, "failed")
      BY <2>1 DEF Kobo!Fail
    <3>2. QED
      BY <1>1, <3>1, KoboEnd
  <2>2. CASE Kobo!Timebox(r)
    <3>1. v5' = [v5 EXCEPT ![r] = [@ EXCEPT !.at = "timebox"]]
      BY <2>2 DEF Kobo!Timebox, Kobo!Go
    <3>2. v5[r] \in Kobo!RunRows
      BY <1>1, KoboRows
    <3>3. /\ [v5[r] EXCEPT !.at = "timebox"] \in Kobo!RunRows
          /\ [v5[r] EXCEPT !.at = "timebox"].at = "timebox"
          /\ [v5[r] EXCEPT !.at = "timebox"].job = v5[r].job
          /\ [v5[r] EXCEPT !.at = "timebox"].batch = v5[r].batch
      BY <3>2, KoboBounds DEF Kobo!RunRows, Kobo!Working
    <3>4. QED
      BY <3>1, <3>3
  <2>3. CASE Kobo!Drain(r)
    <3>1. v5' = [v5 EXCEPT ![r] = [@ EXCEPT !.at = "drained"]] /\ v5[r].last >= v1
      BY <2>3 DEF Kobo!Drain, Kobo!Go
    <3>2. v5[r] \in Kobo!RunRows
      BY <1>1, KoboRows
    <3>3. /\ [v5[r] EXCEPT !.at = "drained"] \in Kobo!RunRows
          /\ [v5[r] EXCEPT !.at = "drained"].at = "drained"
          /\ [v5[r] EXCEPT !.at = "drained"].job = v5[r].job
          /\ [v5[r] EXCEPT !.at = "drained"].batch = v5[r].batch
      BY <3>2, KoboBounds DEF Kobo!RunRows, Kobo!Working
    <3>4. QED
      BY <3>1, <3>3
  <2>4. QED
    BY <2>1, <2>2, <2>3
<1>4. /\ v1 \in Nat /\ v2 \in 0..v1 /\ v2 \in Nat
      /\ v5[r].last \in Nat /\ v5[r].base \in Nat /\ v5[r].batch \in Kobo!Runs \cup {0}
  <2>1. v1 \in Nat /\ v2 \in 0..v1 /\ v2 \in Nat
    BY <1>1, KoboBounds DEF Kobo!Shape
  <2>2. QED
    BY <1>1, <2>1, KoboRows
<1>5. v5[r].last <= v1 /\ \A s \in 1..v5[r].last : Kobo!Done(s)
  BY <1>1 DEF KoboBoth, Kobo!KoboInv
<1>6. "import" \in Kobo!Working \ {"setup"} /\ e.at \notin {"import", "setup", "begin"}
  BY <1>3 DEF Kobo!Working
<1>7. v5[r].batch \in Kobo!Runs
  <2>1. v5[r].batch # 0
    BY <1>1, <1>6, KoboBounds DEF Kobo!Shape
  <2>2. QED
    BY <1>4, <2>1
<1>8. /\ Kobo!Shape'
      /\ DOMAIN v5' = DOMAIN v5 /\ \A q \in DOMAIN v5 : v5'[q] = IF q = r THEN e ELSE v5[q]
  <2>1. v2' \in 0..v1 /\ v4' \subseteq DOMAIN v3
        /\ v7' \in [Kobo!Runs -> {"none", "LOADING", "COMPLETE"}]
    BY <1>1, <1>2, <1>4, <1>5 DEF Kobo!Shape
  <2>2. v6' \in [Kobo!Runs -> Kobo!Runs \cup {0}]
    BY <1>1, <1>2, KoboBounds DEF Kobo!Shape
  <2>3. v8' \subseteq [id : 1..v1, batch : Kobo!Runs, number : Nat, run : Kobo!Runs]
        /\ \A h \in v8' : v7'[h.batch] # "none"
    BY <1>1, <1>2 DEF Kobo!Shape
  <2>4. e.at # "setup" /\ v5[r].at \in Kobo!Working \ {"setup"}
    BY <1>1, <1>6
  <2>5. QED
    BY <1>1, <1>2, <1>3, <2>1, <2>2, <2>3, <2>4, KoboShapeMove
<1>9. Kobo!KoboInv'
  <2>1. /\ \A s \in 1..v2 : Kobo!Done(s)
        /\ \A q \in DOMAIN v5 :
             /\ v5[q].at = "import" => v5[q].last <= v1 /\ \A s \in 1..v5[q].last : Kobo!Done(s)
             /\ v5[q].at = "drained" => \A s \in 1..v11[v5[q].batch] : Kobo!Done(s)
    BY DEF KoboBoth, Kobo!KoboInv
  <2>2. \A s \in 1..v2' : Kobo!Done(s)
    BY <1>2, <1>5, <2>1
  <2>3. \A q \in DOMAIN v5' :
          /\ v5'[q].at = "import" => v5'[q].last <= v1' /\ \A s \in 1..v5'[q].last : Kobo!Done(s)
          /\ v5'[q].at = "drained" => \A s \in 1..v11'[v5'[q].batch] : Kobo!Done(s)
    <3> TAKE q \in DOMAIN v5'
    <3>1. CASE q = r
      <4>1. v5'[q] = e /\ e.at # "import"
        BY <1>6, <1>8, <3>1
      <4>2. ASSUME e.at = "drained"
            PROVE  \A s \in 1..v11[v5[r].batch] : Kobo!Done(s)
        <5>1. v11[v5[r].batch] \in 0..v1
          BY <1>1, <1>7 DEF Kobo!Shape
        <5>2. v5[r].last >= v1
          BY <1>3, <4>2
        <5>3. QED
          BY <1>4, <1>5, <5>1, <5>2
      <4>3. QED
        BY <1>2, <1>3, <4>1, <4>2
    <3>2. CASE q # r
      BY <1>2, <1>8, <2>1, <3>2
    <3>3. QED
      BY <3>1, <3>2
  <2>4. Kobo!CompleteIsAll'
    BY <1>2 DEF KoboBoth, Kobo!KoboInv, Kobo!CompleteIsAll
  <2>5. QED
    BY <1>2, <1>8, <2>2, <2>3, <2>4 DEF Kobo!KoboInv, Kobo!Done
<1>10. Kobo!CalmInv'
  <2>1. ASSUME ~v12'
        PROVE  /\ Kobo!OnceInOrder'
               /\ \A q, p \in Kobo!Active' : q = p
               /\ \E n \in 0..v1' : Kobo!Reached(n)' /\ {h.id : h \in v8'} = 1..n
               /\ \A q \in DOMAIN v5' : v5'[q].at \in {"begin", "import"} =>
                    v5'[q].next = Kobo!Cardinality({h \in v8' : h.batch = v5'[q].batch}) + 1
    <3>1. ~v12 /\ Kobo!OnceInOrder /\ \A q, p \in Kobo!Active : q = p
      BY <1>2, <2>1 DEF KoboBoth, Kobo!CalmInv
    <3>2. Kobo!OnceInOrder'
      BY <1>2, <3>1 DEF Kobo!OnceInOrder, Kobo!HouseholdsOf
    <3>3. Kobo!Active' \subseteq Kobo!Active /\ r \in Kobo!Active
      BY <1>1, <1>6, <1>8 DEF Kobo!Active
    <3>4. \A q \in DOMAIN v5 : v5[q].at \in Kobo!Working => q = r
      BY <3>1, <3>3 DEF Kobo!Active
    <3>5. {"begin", "import"} \subseteq Kobo!Working
      BY DEF Kobo!Working
    <3>6. \A q \in DOMAIN v5' : v5'[q].at \notin {"begin", "import"}
      BY <1>6, <1>8, <3>4, <3>5
    <3>7. PICK n \in 0..v1 : Kobo!Reached(n) /\ {h.id : h \in v8} = 1..n
      BY <3>1 DEF KoboBoth, Kobo!CalmInv
    <3>8. n = v5[r].last /\ v2 = v5[r].base /\ v2 <= n
      BY <1>1, <3>7 DEF Kobo!Reached
    <3>9. v2' = n
      BY <1>2, <1>4, <3>8
    <3>10. Kobo!Reached(n)'
      BY <3>6, <3>9 DEF Kobo!Reached
    <3>11. QED
      BY <1>2, <3>1, <3>2, <3>3, <3>6, <3>7, <3>10
  <2>2. Kobo!IsFiniteSet(v8')
    BY <1>2 DEF KoboBoth, Kobo!CalmInv
  <2>3. QED
    BY <1>8, <2>1, <2>2 DEF Kobo!CalmInv, Kobo!HouseholdsOf, Kobo!BatchOf
<1>11. QED
  BY <1>2, <1>9, <1>10 DEF KoboBoth
\* The next submission is imported and counted.
LEMMA KoboImport ==
  ASSUME KoboBoth, NEW r, Kobo!ImportSubmission(r)
  PROVE  KoboBoth'
<1>1. Kobo!Shape /\ r \in DOMAIN v5 /\ v5[r].at = "import"
  BY DEF KoboBoth, Kobo!KoboInv, Kobo!ImportSubmission, Kobo!At
<1> DEFINE s == v5[r].last + 1
           b == v5[r].batch
           e == [v5[r] EXCEPT !.last = s, !.next = v5[r].next + 1]
           new == [id |-> s, batch |-> b, number |-> v5[r].next, run |-> r]
<1>2. /\ v1' = v1 /\ v2' = v2 /\ v3' = v3 /\ v4' = v4 /\ v6' = v6 /\ v7' = v7 /\ v11' = v11 /\ v12' = v12
      /\ v8' = v8 \cup {new} /\ v5' = [v5 EXCEPT ![r] = e] /\ s <= v1
  BY DEF Kobo!ImportSubmission, Kobo!bounds, Kobo!history, Kobo!BatchOf
<1>3. /\ v1 \in Nat /\ v2 \in 0..v1 /\ v2 \in Nat /\ r \in Kobo!Runs
      /\ v5[r].last \in Nat /\ v5[r].base \in Nat /\ v5[r].next \in Nat /\ s \in 1..v1
  <2>1. v1 \in Nat /\ v2 \in 0..v1 /\ v2 \in Nat
    BY <1>1, KoboBounds DEF Kobo!Shape
  <2>2. r \in Kobo!Runs /\ v5[r].last \in Nat /\ v5[r].base \in Nat /\ v5[r].next \in Nat
    BY <1>1, KoboRows
  <2>3. QED
    BY <1>2, <2>1, <2>2
<1>4. "import" \in Kobo!Working \ {"setup"}
  BY DEF Kobo!Working
<1>5. b \in Kobo!Runs /\ v7[b] # "none"
  <2>1. b \in Kobo!Runs \cup {0}
    BY <1>1, KoboRows
  <2>2. b # 0 /\ v7[b] # "none"
    BY <1>1, <1>4, KoboBounds DEF Kobo!Shape
  <2>3. QED
    BY <2>1, <2>2
<1>6. /\ e \in Kobo!RunRows /\ e.at = "import" /\ e.last = s /\ e.base = v5[r].base
      /\ e.job = v5[r].job /\ e.batch = b /\ e.next = v5[r].next + 1
  <2>1. v5[r] \in Kobo!RunRows
    BY <1>1, KoboRows
  <2>2. s \in Nat /\ v5[r].next + 1 \in Nat
    BY <1>3
  <2> HIDE DEF s, b
  <2>3. e \in Kobo!RunRows /\ e.at = v5[r].at /\ e.last = s /\ e.base = v5[r].base
        /\ e.job = v5[r].job /\ e.batch = v5[r].batch /\ e.next = v5[r].next + 1
    BY <2>1, <2>2 DEF Kobo!RunRows
  <2>4. QED
    BY <1>1, <2>3 DEF b
<1>7. new \in [id : 1..v1, batch : Kobo!Runs, number : Nat, run : Kobo!Runs]
      /\ new.id = s /\ new.batch = b /\ new.number = v5[r].next
  BY <1>3, <1>5
<1> HIDE DEF e, new
<1>8. /\ Kobo!Shape'
      /\ DOMAIN v5' = DOMAIN v5 /\ \A q \in DOMAIN v5 : v5'[q] = IF q = r THEN e ELSE v5[q]
  <2>1. v2' \in 0..v1 /\ v4' \subseteq DOMAIN v3 /\ v7' \in [Kobo!Runs -> {"none", "LOADING", "COMPLETE"}]
    BY <1>1, <1>2 DEF Kobo!Shape
  <2>2. v6' \in [Kobo!Runs -> Kobo!Runs \cup {0}]
    BY <1>1, <1>2, KoboBounds DEF Kobo!Shape
  <2>3. v8' \subseteq [id : 1..v1, batch : Kobo!Runs, number : Nat, run : Kobo!Runs]
        /\ \A h \in v8' : v7'[h.batch] # "none"
    BY <1>1, <1>2, <1>5, <1>7 DEF Kobo!Shape
  <2>4. e.at # "setup" /\ v5[r].at \in Kobo!Working \ {"setup"}
    BY <1>1, <1>4, <1>6
  <2>5. QED
    BY <1>1, <1>2, <1>6, <2>1, <2>2, <2>3, <2>4, KoboShapeMove
<1>9. Kobo!KoboInv'
  <2>1. /\ \A k \in 1..v2 : Kobo!Done(k)
        /\ \A q \in DOMAIN v5 :
             /\ v5[q].at = "import" => v5[q].last <= v1 /\ \A k \in 1..v5[q].last : Kobo!Done(k)
             /\ v5[q].at = "drained" => \A k \in 1..v11[v5[q].batch] : Kobo!Done(k)
        /\ \A c \in Kobo!Runs : v7[c] = "COMPLETE" => \A k \in 1..v11[c] : Kobo!Done(k)
    BY DEF KoboBoth, Kobo!KoboInv, Kobo!CompleteIsAll, Kobo!Done
  <2>2. /\ \A k : Kobo!Done(k) => \E h \in v8' : h.id = k
        /\ \E h \in v8' : h.id = s
    BY <1>2, <1>7 DEF Kobo!Done
  <2>3. \A q \in DOMAIN v5' :
          /\ v5'[q].at = "import" => v5'[q].last <= v1' /\ \A k \in 1..v5'[q].last : \E h \in v8' : h.id = k
          /\ v5'[q].at = "drained" => \A k \in 1..v11'[v5'[q].batch] : \E h \in v8' : h.id = k
    <3> TAKE q \in DOMAIN v5'
    <3>1. CASE q = r
      <4>1. v5'[q].at = "import" /\ v5'[q].last = s
        BY <1>6, <1>8, <3>1
      <4>2. \A k \in 1..s : k = s \/ k \in 1..v5[r].last
        BY <1>3
      <4> HIDE DEF s
      <4>3. QED
        BY <1>1, <1>2, <2>1, <2>2, <4>1, <4>2
    <3>2. CASE q # r
      BY <1>2, <1>8, <2>1, <2>2, <3>2
    <3>3. QED
      BY <3>1, <3>2
  <2>4. QED
    BY <1>2, <1>8, <2>1, <2>2, <2>3 DEF Kobo!KoboInv, Kobo!CompleteIsAll, Kobo!Done
<1>10. IsFiniteSet(v8)
  BY DEF KoboBoth, Kobo!CalmInv, Kobo!IsFiniteSet, IsFiniteSet
<1>11. Kobo!IsFiniteSet(v8')
  <2>1. IsFiniteSet(v8 \cup {new})
    BY <1>10, FS_AddElement
  <2>2. QED
    BY <1>2, <2>1 DEF Kobo!IsFiniteSet, IsFiniteSet
<1> DEFINE Of(c) == {h \in v8 : h.batch = c}
           Of2(c) == {h \in v8' : h.batch = c}
<1>12. ASSUME ~v12'
       PROVE  /\ Kobo!OnceInOrder'
              /\ \A q, p \in Kobo!Active' : q = p
              /\ \E n \in 0..v1' : Kobo!Reached(n)' /\ {h.id : h \in v8'} = 1..n
              /\ \A q \in DOMAIN v5' : v5'[q].at \in {"begin", "import"} =>
                   v5'[q].next = Kobo!Cardinality(Of2(v5'[q].batch)) + 1
  <2>1. ~v12 /\ \A q, p \in Kobo!Active : q = p
    BY <1>2, <1>12 DEF KoboBoth, Kobo!CalmInv
  <2>2. Kobo!Active' = Kobo!Active /\ r \in Kobo!Active
    BY <1>1, <1>4, <1>6, <1>8 DEF Kobo!Active
  <2>3. \A q \in DOMAIN v5' : v5'[q].at \in {"begin", "import"} => q = r
    <3>1. {"begin", "import"} \subseteq Kobo!Working
      BY DEF Kobo!Working
    <3>2. QED
      BY <2>1, <2>2, <3>1 DEF Kobo!Active
  <2>4. PICK n \in 0..v1 : Kobo!Reached(n) /\ {h.id : h \in v8} = 1..n
    BY <2>1 DEF KoboBoth, Kobo!CalmInv
  <2>5. n = v5[r].last /\ v2 = v5[r].base /\ v2 <= n
    BY <1>1, <2>4 DEF Kobo!Reached
  <2>6. \A h \in v8 : h.id \in 1..n
    BY <2>4
  <2>7. {h.id : h \in v8'} = 1..s
    <3>1. \A h \in v8' : h.id \in 1..s
      BY <1>2, <1>3, <1>7, <2>5, <2>6
    <3>2. \A k \in 1..s : \E h \in v8' : h.id = k
      <4>1. \A k \in 1..s : k = s \/ k \in 1..n
        BY <1>3, <2>5
      <4>2. \A k \in 1..n : \E h \in v8 : h.id = k
        BY <2>4
      <4> HIDE DEF s
      <4>3. QED
        BY <1>2, <1>7, <4>1, <4>2
    <3> HIDE DEF s
    <3>3. QED
      BY <3>1, <3>2
  <2>8. \E m \in 0..v1' : Kobo!Reached(m)' /\ {h.id : h \in v8'} = 1..m
    <3> PICK m \in Nat : m = s
      BY <1>3
    <3>1. v2 <= s
      BY <1>3, <2>5
    <3>2. \A q \in DOMAIN v5' : v5'[q].at = "import" => m = v5'[q].last /\ v2' = v5'[q].base /\ v2' <= m
      BY <1>2, <1>6, <1>8, <2>3, <2>5, <3>1
    <3>3. \E q \in DOMAIN v5' : v5'[q].at = "import"
      BY <1>1, <1>6, <1>8
    <3>4. m \in 0..v1' /\ {h.id : h \in v8'} = 1..m
      BY <1>2, <1>3, <2>7
    <3> HIDE DEF s
    <3>5. Kobo!Reached(m)'
      BY <3>2, <3>3 DEF Kobo!Reached
    <3>6. QED
      BY <3>4, <3>5
  <2>9. /\ \A g, h \in v8 : g.id = h.id => g = h
        /\ \A c \in Kobo!Runs : {h.number : h \in Of(c)} = 1..Kobo!Cardinality(Of(c))
        /\ \A g, h \in v8 : g.batch = h.batch /\ g.id < h.id => g.number < h.number
    BY <2>1 DEF KoboBoth, Kobo!CalmInv, Kobo!OnceInOrder, Kobo!HouseholdsOf
  <2>10. v5[r].next = Kobo!Cardinality(Of(b)) + 1
    BY <1>1, <2>1 DEF KoboBoth, Kobo!CalmInv, Kobo!HouseholdsOf, Kobo!BatchOf
  <2>11. new \notin v8
    BY <1>3, <1>7, <2>5, <2>6
  <2>12. /\ Of2(b) = Of(b) \cup {new} /\ \A c \in Kobo!Runs \ {b} : Of2(c) = Of(c)
    BY <1>2, <1>7
  <2>13. /\ Kobo!Cardinality(Of(b)) \in Nat
         /\ Kobo!Cardinality(Of2(b)) = Kobo!Cardinality(Of(b)) + 1
    <3>1. IsFiniteSet(Of(b)) /\ new \notin Of(b)
      BY <1>10, <2>11, FS_Subset
    <3>2. Cardinality(Of(b)) \in Nat /\ Cardinality(Of(b) \cup {new}) = Cardinality(Of(b)) + 1
      BY <3>1, FS_CardinalityType, FS_AddElement
    <3>3. \A S : Kobo!Cardinality(S) = Cardinality(S)
      BY DEF Kobo!Cardinality, Cardinality
    <3> HIDE DEF Of, Of2
    <3>4. QED
      BY <2>12, <3>2, <3>3
  <2>14. \A h \in Of(b) : h.number \in 1..Kobo!Cardinality(Of(b))
    BY <1>5, <2>9
  <2>15. \A g, h \in v8' : g.id = h.id => g = h
    BY <1>2, <1>3, <1>7, <2>5, <2>6, <2>9
  <2>16. \A c \in Kobo!Runs : {h.number : h \in Of2(c)} = 1..Kobo!Cardinality(Of2(c))
    <3> TAKE c \in Kobo!Runs
    <3> DEFINE m == Kobo!Cardinality(Of(b))
    <3>1. CASE c = b
      <4>1. {h.number : h \in Of(b)} = 1..m
        BY <1>5, <2>9
      <4>2. m \in Nat /\ Kobo!Cardinality(Of2(b)) = m + 1 /\ new.number = m + 1
        BY <1>7, <2>10, <2>13
      <4>3. {h.number : h \in Of(b) \cup {new}} = {h.number : h \in Of(b)} \cup {new.number}
        OBVIOUS
      <4> HIDE DEF m, Of, Of2
      <4>4. 1..(m + 1) = (1..m) \cup {m + 1}
        BY <4>2
      <4>5. QED
        BY <2>12, <3>1, <4>1, <4>2, <4>3, <4>4
    <3>2. CASE c # b
      <4>1. Of2(c) = Of(c) /\ {h.number : h \in Of(c)} = 1..Kobo!Cardinality(Of(c))
        BY <2>9, <2>12, <3>2
      <4> HIDE DEF Of, Of2
      <4>2. QED
        BY <4>1
    <3>3. QED
      BY <3>1, <3>2
  <2>17. \A g, h \in v8' : g.batch = h.batch /\ g.id < h.id => g.number < h.number
    <3> SUFFICES ASSUME NEW g \in v8', NEW h \in v8', g.batch = h.batch, g.id < h.id
                 PROVE  g.number < h.number
      OBVIOUS
    <3>1. CASE g \in v8 /\ h \in v8
      BY <2>9, <3>1
    <3>2. CASE g \in v8 /\ h = new
      <4>1. g \in Of(b)
        BY <1>7, <3>2
      <4>2. g.number \in 1..Kobo!Cardinality(Of(b))
        BY <2>14, <4>1
      <4>3. QED
        BY <1>7, <2>10, <2>13, <3>2, <4>2
    <3>3. CASE g = new
      <4>1. h.id \in 1..s
        BY <2>7
      <4>2. QED
        BY <1>3, <1>7, <3>3, <4>1
    <3>4. QED
      BY <1>2, <3>1, <3>2, <3>3
  <2>18. Kobo!OnceInOrder'
    BY <2>15, <2>16, <2>17 DEF Kobo!OnceInOrder, Kobo!HouseholdsOf
  <2>19. \A q \in DOMAIN v5' : v5'[q].at \in {"begin", "import"} =>
           v5'[q].next = Kobo!Cardinality(Of2(v5'[q].batch)) + 1
    <3>1. v5'[r] = e /\ e.batch = b /\ e.next = Kobo!Cardinality(Of2(b)) + 1
      BY <1>1, <1>6, <1>8, <2>10, <2>13
    <3> HIDE DEF Of2
    <3>2. QED
      BY <2>3, <3>1
  <2>20. QED
    BY <2>1, <2>2, <2>8, <2>18, <2>19
<1>13. Kobo!CalmInv'
  BY <1>8, <1>11, <1>12 DEF Kobo!CalmInv, Kobo!HouseholdsOf, Kobo!BatchOf
<1>14. QED
  BY <1>2, <1>9, <1>13 DEF KoboBoth

\* At first there is nothing.
LEMMA KoboBegins == Kobo!Init => KoboBoth
<1> SUFFICES ASSUME Kobo!Init PROVE KoboBoth
  OBVIOUS
<1>1. /\ v1 = 0 /\ v2 = 0 /\ v3 = <<>> /\ v4 = {} /\ v5 = <<>> /\ v8 = {} /\ v12 = FALSE
      /\ v6 = [b \in Kobo!Runs |-> 0] /\ v7 = [b \in Kobo!Runs |-> "none"] /\ v11 = [b \in Kobo!Runs |-> 0]
  BY KoboBounds DEF Kobo!Init
<1>2. DOMAIN v3 = {} /\ DOMAIN v5 = {} /\ Len(v5) = 0
  BY <1>1
<1>3. v3 \in Seq([batch : Kobo!Runs \cup {0}, grouped : BOOLEAN]) /\ v5 \in Seq(Kobo!RunRows)
  BY <1>1
<1>4. Kobo!Shape
  BY <1>1, <1>2, <1>3, KoboBounds DEF Kobo!Shape
<1>5. Kobo!KoboInv
  BY <1>1, <1>2, <1>4 DEF Kobo!KoboInv, Kobo!CompleteIsAll
<1>6. IsFiniteSet({}) /\ Cardinality({}) = 0
  BY FS_EmptySet
<1>7. Kobo!IsFiniteSet({}) /\ Kobo!Cardinality({}) = 0
  BY <1>6 DEF Kobo!IsFiniteSet, IsFiniteSet, Kobo!Cardinality, Cardinality
<1>8. Kobo!OnceInOrder
  <2>1. \A b : Kobo!HouseholdsOf(b) = {}
    BY <1>1 DEF Kobo!HouseholdsOf
  <2>2. 1..0 = {}
    OBVIOUS
  <2>3. QED
    BY <1>1, <1>7, <2>1, <2>2 DEF Kobo!OnceInOrder
<1>9. Kobo!Active = {} /\ Kobo!Reached(0) /\ {h.id : h \in v8} = 1..0 /\ 0 \in 0..v1
  BY <1>1, <1>2 DEF Kobo!Active, Kobo!Reached
<1>10. Kobo!CalmInv
  BY <1>1, <1>2, <1>4, <1>7, <1>8, <1>9 DEF Kobo!CalmInv
<1>11. QED
  BY <1>1, <1>5, <1>10 DEF KoboBoth

LEMMA KoboKeeps == KoboBoth /\ [Kobo!Next]_(Kobo!vars) => KoboBoth'
<1> SUFFICES ASSUME KoboBoth, [Kobo!Next]_(Kobo!vars) PROVE KoboBoth'
  OBVIOUS
<1>1. CASE UNCHANGED Kobo!vars
  BY <1>1, KoboOutside
<1>2. CASE Kobo!Next
  BY <1>2, KoboOutside, KoboDeliver, KoboStops, KoboContinue, KoboComplete, KoboBegin, KoboSetup,
    KoboLoopEnds, KoboImport DEF Kobo!Next, Kobo!Work
<1>3. QED
  BY <1>1, <1>2

LEMMA KoboMeans ==
  KoboBoth => Kobo!TypeOK /\ Kobo!NothingSkipped /\ Kobo!CompleteIsAll /\ Kobo!OnceInOrder
<1> SUFFICES ASSUME KoboBoth
             PROVE  Kobo!TypeOK /\ Kobo!NothingSkipped /\ Kobo!CompleteIsAll /\ Kobo!OnceInOrder
  OBVIOUS
<1>1. Kobo!Shape
  BY DEF KoboBoth, Kobo!KoboInv
<1>2. Kobo!NothingSkipped /\ Kobo!CompleteIsAll
  BY DEF KoboBoth, Kobo!KoboInv, Kobo!NothingSkipped, Kobo!Done
<1>3. Kobo!OnceInOrder
  BY DEF KoboBoth, Kobo!CalmInv, Kobo!OnceInOrder
<1>4. Kobo!TypeOK
  <2>1. v1 \in 0..KoboPosted /\ v2 \in 0..KoboPosted
    BY <1>1, KoboBounds DEF Kobo!Shape
  <2>2. \A j \in DOMAIN v3 : /\ v3[j].batch \in Kobo!Runs \cup {0} /\ v3[j].grouped \in BOOLEAN
                             /\ v3[j].grouped => v3[j].batch # 0
    <3> TAKE j \in DOMAIN v3
    <3>1. v3 \in Seq([batch : Kobo!Runs \cup {0}, grouped : BOOLEAN])
      BY <1>1, KoboRows
    <3>2. v3[j] \in [batch : Kobo!Runs \cup {0}, grouped : BOOLEAN]
      BY <3>1, RowOf
    <3>3. v3[j].grouped => v3[j].batch # 0
      BY <1>1, KoboBounds DEF Kobo!Shape
    <3>4. QED
      BY <3>2, <3>3
  <2>3. \A r \in DOMAIN v5 : v5[r].job \in DOMAIN v3 /\ v5[r].at \in Kobo!Working \cup Kobo!Ended
    BY <1>1, KoboRows
  <2>4. v4 \subseteq DOMAIN v3 /\ v6 \in [Kobo!Runs -> Kobo!Runs \cup {0}]
        /\ v7 \in [Kobo!Runs -> {"none", "LOADING", "COMPLETE"}]
    BY <1>1, KoboBounds DEF Kobo!Shape
  <2>5. \A h \in v8 : h.id \in 1..KoboPosted /\ v7[h.batch] # "none"
    <3>1. \A h \in v8 : h.id \in 1..v1 /\ v7[h.batch] # "none"
      BY <1>1 DEF Kobo!Shape
    <3>2. QED
      BY <2>1, <3>1, KoboBounds
  <2>6. QED
    BY <2>1, <2>2, <2>3, <2>4, <2>5, KoboBounds DEF Kobo!TypeOK
<1>5. QED
  BY <1>2, <1>3, <1>4


-----------------------------------------------------------------------------
(* Aurora, on the slots.                                                   *)

AuroraRows == [at : Aurora!Working \cup Aurora!Ended, next : Nat, base : Nat]
AuroraPks  == {m.pk : m \in v6}
AuroraBoth == Aurora!AuroraInv /\ Aurora!CalmInv /\ v9 \in BOOLEAN

LEMMA AuroraBounds ==
  /\ AuroraRecords \in Nat /\ AuroraRuns \in Nat /\ AuroraCrashes \in Nat
  /\ Aurora!Runs = 1..AuroraRuns
BY BoundsAssumption DEF Aurora!AuroraAssumption, Aurora!Runs

LEMMA AuroraSizes ==
  ASSUME NEW S
  PROVE  Aurora!Cardinality(S) = Cardinality(S) /\ (Aurora!IsFiniteSet(S) <=> IsFiniteSet(S))
BY DEF Aurora!Cardinality, Cardinality, Aurora!IsFiniteSet, IsFiniteSet

\* What the invariants say of the runs.
LEMMA AuroraFacts ==
  ASSUME AuroraBoth
  PROVE  /\ v1 \in 0..AuroraRecords /\ v1 \in Nat /\ v2 \in 0..v1 /\ v2 \in Nat /\ v3 \in Nat /\ v7 \in Nat
         /\ v4 \in Seq(AuroraRows) /\ Len(v4) \in Nat /\ Len(v4) + v3 <= AuroraRuns
         /\ v5 \in [Aurora!Runs -> {"none", "LOADING", "COMPLETE"}] /\ v8 \in [Aurora!Runs -> 0..v1]
         /\ \A r \in Aurora!Runs : v5[r] = "none" <=> r \notin DOMAIN v4
         /\ v6 \subseteq [pk : 1..v1, run : Aurora!Runs] /\ IsFiniteSet(v6)
         /\ \A r \in DOMAIN v4 : r \in Aurora!Runs /\ v4[r] \in AuroraRows
                                 /\ v4[r].next \in Nat /\ v4[r].base \in Nat
         /\ 1..v2 \subseteq AuroraPks
         /\ \A r \in Aurora!Runs : v5[r] = "COMPLETE" => 1..v8[r] \subseteq AuroraPks
         /\ \A r \in DOMAIN v4 :
              /\ v4[r].at \in {"next", "checked", "committed"} =>
                   v4[r].next > 0 /\ 1..(v4[r].next - 1) \subseteq AuroraPks
              /\ v4[r].at = "checked" => v4[r].next <= v1
              /\ v4[r].at = "committed" => v4[r].next \in AuroraPks
              /\ v4[r].at = "listed" => 1..v8[r] \subseteq AuroraPks
<1>1. /\ v1 \in 0..AuroraRecords /\ v1 \in Nat /\ v2 \in 0..v1 /\ v2 \in Nat /\ v3 \in Nat /\ v7 \in Nat
  BY AuroraBounds DEF AuroraBoth, Aurora!AuroraInv, Aurora!Shape
<1>2. /\ v4 \in Seq(AuroraRows) /\ Len(v4) + v3 <= AuroraRuns
      /\ v5 \in [Aurora!Runs -> {"none", "LOADING", "COMPLETE"}] /\ v8 \in [Aurora!Runs -> 0..v1]
      /\ \A r \in Aurora!Runs : v5[r] = "none" <=> r \notin DOMAIN v4
      /\ v6 \subseteq [pk : 1..v1, run : Aurora!Runs]
  BY DEF AuroraBoth, Aurora!AuroraInv, Aurora!Shape, AuroraRows
<1>3. IsFiniteSet(v6)
  BY AuroraSizes DEF AuroraBoth, Aurora!CalmInv
<1>4. Len(v4) \in Nat /\ DOMAIN v4 = 1..Len(v4)
  BY <1>2
<1>5. \A r \in DOMAIN v4 : r \in Aurora!Runs
  BY <1>1, <1>2, <1>4, AuroraBounds
<1>6. \A r \in DOMAIN v4 : v4[r] \in AuroraRows
  BY <1>2, RowOf
<1>7. \A e \in AuroraRows : e.next \in Nat /\ e.base \in Nat
  BY DEF AuroraRows
<1>8. 1..v2 \subseteq AuroraPks /\ \A r \in Aurora!Runs : v5[r] = "COMPLETE" => 1..v8[r] \subseteq AuroraPks
  BY DEF AuroraBoth, Aurora!AuroraInv, Aurora!NothingSkipped, Aurora!CompleteIsAll, Aurora!Imported, AuroraPks
<1>9. \A r \in DOMAIN v4 :
        /\ v4[r].at \in {"next", "checked", "committed"} =>
             v4[r].next > 0 /\ 1..(v4[r].next - 1) \subseteq AuroraPks
        /\ v4[r].at = "checked" => v4[r].next <= v1
        /\ v4[r].at = "committed" => v4[r].next \in AuroraPks
        /\ v4[r].at = "listed" => 1..v8[r] \subseteq AuroraPks
  BY DEF AuroraBoth, Aurora!AuroraInv, Aurora!Imported, AuroraPks
<1>10. QED
  BY <1>1, <1>2, <1>3, <1>4, <1>5, <1>6, <1>7, <1>8, <1>9

\* What a step has to show for the next state.
LEMMA AuroraInvariant ==
  ASSUME NEW P, P = AuroraPks',
         v1' \in 0..AuroraRecords, v2' \in 0..v1', v3' \in Nat, v7' \in Nat,
         v4' \in Seq(AuroraRows), Len(v4') + v3' <= AuroraRuns,
         v5' \in [Aurora!Runs -> {"none", "LOADING", "COMPLETE"}], v8' \in [Aurora!Runs -> 0..v1'],
         \A r \in Aurora!Runs : v5'[r] = "none" <=> r \notin DOMAIN v4',
         v6' \subseteq [pk : 1..v1', run : Aurora!Runs], IsFiniteSet(v6'),
         1..v2' \subseteq P,
         \A r \in Aurora!Runs : v5'[r] = "COMPLETE" => 1..v8'[r] \subseteq P,
         \A r \in DOMAIN v4' :
              /\ v4'[r].at \in {"next", "checked", "committed"} =>
                   v4'[r].next > 0 /\ 1..(v4'[r].next - 1) \subseteq P
              /\ v4'[r].at = "checked" => v4'[r].next <= v1'
              /\ v4'[r].at = "committed" => v4'[r].next \in P
              /\ v4'[r].at = "listed" => 1..v8'[r] \subseteq P,
         v9' \in BOOLEAN,
         ~v9' =>
           /\ \A q, r \in DOMAIN v4' : v4'[q].at \in Aurora!Working /\ v4'[r].at \in Aurora!Working => q = r
           /\ P \subseteq 1..(v2' + 1)
           /\ \A r \in DOMAIN v4' :
                /\ v4'[r].at = "next" => v4'[r].next <= v2' + 1
                /\ v4'[r].at \in {"checked", "committed"} => v4'[r].base = v2' /\ v4'[r].next = v2' + 1
           /\ Cardinality(v6') - Cardinality(P)
                + (IF v2' + 1 \in P /\ \A r \in DOMAIN v4' : v4'[r].at # "committed" THEN 1 ELSE 0) <= v7'
  PROVE  AuroraBoth'
<1>1. Aurora!Shape'
  BY DEF Aurora!Shape, AuroraRows
<1>2. Aurora!Imported' = P
  BY DEF Aurora!Imported, AuroraPks
<1>3. Aurora!AuroraInv'
  BY <1>1, <1>2 DEF Aurora!AuroraInv, Aurora!NothingSkipped, Aurora!CompleteIsAll
<1>4. Aurora!IsFiniteSet(v6') /\ Aurora!Cardinality(v6') = Cardinality(v6')
      /\ Aurora!Cardinality(P) = Cardinality(P)
  BY AuroraSizes
<1>5. Aurora!CalmInv'
  BY <1>1, <1>2, <1>4 DEF Aurora!CalmInv, Aurora!Active, Aurora!Ahead
<1>6. QED
  BY <1>3, <1>5 DEF AuroraBoth

\* While runs do not overlap.
LEMMA AuroraCalm ==
  ASSUME AuroraBoth, ~v9
  PROVE  /\ \A q, r \in DOMAIN v4 : v4[q].at \in Aurora!Working /\ v4[r].at \in Aurora!Working => q = r
         /\ AuroraPks \subseteq 1..(v2 + 1)
         /\ \A r \in DOMAIN v4 :
              /\ v4[r].at = "next" => v4[r].next <= v2 + 1
              /\ v4[r].at \in {"checked", "committed"} => v4[r].base = v2 /\ v4[r].next = v2 + 1
         /\ Cardinality(v6) - Cardinality(AuroraPks)
              + (IF v2 + 1 \in AuroraPks /\ \A r \in DOMAIN v4 : v4[r].at # "committed" THEN 1 ELSE 0) <= v7
<1>1. Aurora!Imported = AuroraPks
  BY DEF Aurora!Imported, AuroraPks
<1>2. Aurora!Cardinality(v6) = Cardinality(v6) /\ Aurora!Cardinality(AuroraPks) = Cardinality(AuroraPks)
  BY AuroraSizes
<1>3. QED
  BY <1>1, <1>2 DEF AuroraBoth, Aurora!CalmInv, Aurora!Active, Aurora!Ahead

\* The records and their pks are finitely many.
LEMMA AuroraCounts ==
  ASSUME AuroraBoth
  PROVE  /\ IsFiniteSet(AuroraPks) /\ Cardinality(AuroraPks) \in Nat /\ Cardinality(v6) \in Nat
         /\ Cardinality(AuroraPks) <= Cardinality(v6)
<1>1. IsFiniteSet(v6)
  BY AuroraFacts
<1>2. IsFiniteSet(AuroraPks) /\ Cardinality(AuroraPks) <= Cardinality(v6)
  <2> DEFINE f == [m \in v6 |-> m.pk]
  <2>1. f \in Surjection(v6, AuroraPks)
    BY DEF Surjection, AuroraPks
  <2>2. QED
    BY <1>1, <2>1, FS_Surjection
<1>3. QED
  BY <1>1, <1>2, FS_CardinalityType

\* What a step of a run that works has to show.
LEMMA AuroraMove ==
  ASSUME AuroraBoth, NEW r \in DOMAIN v4, v4[r].at \in Aurora!Working,
         NEW e \in AuroraRows, v4' = [v4 EXCEPT ![r] = e],
         v1' = v1, v8' = v8, v9' = v9, v2' \in 0..v1, v3' \in Nat, Len(v4) + v3' <= AuroraRuns, v7' \in Nat,
         NEW P, P = AuroraPks', AuroraPks \subseteq P,
         v6' \subseteq [pk : 1..v1, run : Aurora!Runs], IsFiniteSet(v6'), 1..v2' \subseteq P,
         v5' \in [Aurora!Runs -> {"none", "LOADING", "COMPLETE"}],
         \A q \in Aurora!Runs : v5'[q] = "none" <=> v5[q] = "none",
         \A q \in Aurora!Runs : v5'[q] = "COMPLETE" => v5[q] = "COMPLETE" \/ 1..v8[q] \subseteq P,
         e.at \in {"next", "checked", "committed"} => e.next > 0 /\ 1..(e.next - 1) \subseteq P,
         e.at = "checked" => e.next <= v1,
         e.at = "committed" => e.next \in P,
         e.at = "listed" => 1..v8[r] \subseteq P,
         ~v9 =>
           /\ P \subseteq 1..(v2' + 1)
           /\ e.at = "next" => e.next <= v2' + 1
           /\ e.at \in {"checked", "committed"} => e.base = v2' /\ e.next = v2' + 1
           /\ Cardinality(v6') - Cardinality(P)
                + (IF v2' + 1 \in P /\ e.at # "committed" THEN 1 ELSE 0) <= v7'
  PROVE  AuroraBoth'
<1>1. /\ v4' \in Seq(AuroraRows) /\ Len(v4') = Len(v4) /\ DOMAIN v4' = DOMAIN v4
      /\ \A q \in DOMAIN v4 : v4'[q] = IF q = r THEN e ELSE v4[q]
  <2>1. v4 \in Seq(AuroraRows)
    BY AuroraFacts
  <2>2. QED
    BY <2>1, RowReplaced
<1>2. /\ v1' \in 0..AuroraRecords /\ v2' \in 0..v1' /\ Len(v4') + v3' <= AuroraRuns
      /\ v8' \in [Aurora!Runs -> 0..v1'] /\ v9' \in BOOLEAN
      /\ \A q \in Aurora!Runs : v5'[q] = "none" <=> q \notin DOMAIN v4'
      /\ v6' \subseteq [pk : 1..v1', run : Aurora!Runs]
  BY <1>1, AuroraFacts DEF AuroraBoth
<1>3. \A q \in Aurora!Runs : v5'[q] = "COMPLETE" => 1..v8'[q] \subseteq P
  BY AuroraFacts
<1>4. \A q \in DOMAIN v4' :
        /\ v4'[q].at \in {"next", "checked", "committed"} =>
             v4'[q].next > 0 /\ 1..(v4'[q].next - 1) \subseteq P
        /\ v4'[q].at = "checked" => v4'[q].next <= v1'
        /\ v4'[q].at = "committed" => v4'[q].next \in P
        /\ v4'[q].at = "listed" => 1..v8'[q] \subseteq P
  <2> TAKE q \in DOMAIN v4'
  <2>1. CASE q = r
    BY <1>1, <2>1
  <2>2. CASE q # r
    <3>1. v4'[q] = v4[q] /\ q \in DOMAIN v4
      BY <1>1, <2>2
    <3>2. /\ v4[q].at \in {"next", "checked", "committed"} =>
               v4[q].next > 0 /\ 1..(v4[q].next - 1) \subseteq AuroraPks
          /\ v4[q].at = "checked" => v4[q].next <= v1
          /\ v4[q].at = "committed" => v4[q].next \in AuroraPks
          /\ v4[q].at = "listed" => 1..v8[q] \subseteq AuroraPks
      BY <3>1, AuroraFacts
    <3>3. QED
      BY <3>1, <3>2
  <2>3. QED
    BY <2>1, <2>2
<1>5. ASSUME ~v9'
      PROVE  /\ \A q, p \in DOMAIN v4' : v4'[q].at \in Aurora!Working /\ v4'[p].at \in Aurora!Working => q = p
             /\ P \subseteq 1..(v2' + 1)
             /\ \A q \in DOMAIN v4' :
                  /\ v4'[q].at = "next" => v4'[q].next <= v2' + 1
                  /\ v4'[q].at \in {"checked", "committed"} => v4'[q].base = v2' /\ v4'[q].next = v2' + 1
             /\ Cardinality(v6') - Cardinality(P)
                  + (IF v2' + 1 \in P /\ \A q \in DOMAIN v4' : v4'[q].at # "committed" THEN 1 ELSE 0) <= v7'
  <2>1. ~v9 /\ \A q \in DOMAIN v4 : v4[q].at \in Aurora!Working => q = r
    BY <1>5, AuroraCalm
  <2>2. {"next", "checked", "committed"} \subseteq Aurora!Working
    BY DEF Aurora!Working
  <2>3. \A q \in DOMAIN v4' : q # r => v4'[q].at \notin Aurora!Working
    BY <1>1, <2>1
  <2>4. v4'[r] = e
    BY <1>1
  <2>5. (\A q \in DOMAIN v4' : v4'[q].at # "committed") <=> e.at # "committed"
    BY <1>1, <2>2, <2>3, <2>4
  <2>6. QED
    BY <2>1, <2>2, <2>3, <2>4, <2>5
<1>6. QED
  BY <1>1, <1>2, <1>3, <1>4, <1>5, AuroraInvariant

\* What a run learns changes no record.
LEMMA AuroraQuiet ==
  ASSUME AuroraBoth, NEW r, Aurora!Check(r) \/ Aurora!Fail(r) \/ Aurora!Drain(r) \/ Aurora!Complete(r) \/ Aurora!Crash(r)
  PROVE  AuroraBoth'
<1>1. r \in DOMAIN v4 /\ v4[r].at \in Aurora!Working /\ r \in Aurora!Runs
  BY AuroraFacts DEF Aurora!Check, Aurora!Fail, Aurora!Drain, Aurora!Complete, Aurora!Crash, Aurora!At,
    Aurora!Working, Aurora!Active
<1>2. v1' = v1 /\ v8' = v8 /\ v9' = v9 /\ v6' = v6 /\ v2' = v2
  BY DEF Aurora!Check, Aurora!Fail, Aurora!Drain, Aurora!Complete, Aurora!Crash, Aurora!history
<1>3. v1 \in Nat /\ v2 \in 0..v1 /\ v2 \in Nat /\ v3 \in Nat /\ v7 \in Nat /\ Len(v4) \in Nat
      /\ Len(v4) + v3 <= AuroraRuns /\ AuroraRuns \in Nat
      /\ v4[r] \in AuroraRows /\ v4[r].next \in Nat /\ v4[r].base \in Nat
  BY <1>1, AuroraFacts, AuroraBounds
<1>4. v3' \in Nat /\ Len(v4) + v3' <= AuroraRuns /\ v7' \in Nat /\ v7' >= v7
      /\ (Aurora!Crash(r) => v7' = v7 + 1)
  BY <1>3 DEF Aurora!Check, Aurora!Fail, Aurora!Drain, Aurora!Complete, Aurora!Crash, Aurora!history
<1>5. PICK e \in AuroraRows :
        /\ v4' = [v4 EXCEPT ![r] = e]
        /\ \/ e.at \in {"failed", "dead", "done"}
           \/ v4[r].at = "next" /\ v4[r].next <= v1 /\ e.at = "next" /\ v4[r].next <= v2 /\ e.next = v4[r].next + 1
           \/ v4[r].at = "next" /\ v4[r].next <= v1 /\ e.at = "checked" /\ v4[r].next > v2
                /\ e.next = v4[r].next /\ e.base = v2
           \/ v4[r].at = "next" /\ v4[r].next > v1 /\ e.at = "listed"
  <2>1. CASE Aurora!Fail(r) \/ Aurora!Complete(r) \/ Aurora!Crash(r)
    <3>1. PICK s \in {"failed", "dead", "done"} : v4' = [v4 EXCEPT ![r] = [at |-> s, next |-> 0, base |-> 0]]
      BY <2>1 DEF Aurora!Fail, Aurora!Complete, Aurora!Crash, Aurora!End
    <3>2. [at |-> s, next |-> 0, base |-> 0] \in AuroraRows
      BY DEF AuroraRows, Aurora!Ended
    <3>3. QED
      BY <3>1, <3>2
  <2>2. CASE Aurora!Check(r)
    <3>1. v4[r].at = "next" /\ v4[r].next <= v1
      BY <2>2 DEF Aurora!Check, Aurora!At
    <3>2. CASE v4[r].next <= v2
      <4> DEFINE e == [v4[r] EXCEPT !.next = v4[r].next + 1]
      <4>1. v4' = [v4 EXCEPT ![r] = e]
        BY <2>2, <3>2 DEF Aurora!Check
      <4>2. e \in AuroraRows /\ e.at = "next" /\ e.next = v4[r].next + 1
        BY <1>3, <3>1 DEF AuroraRows
      <4>3. QED
        BY <3>1, <3>2, <4>1, <4>2
    <3>3. CASE ~(v4[r].next <= v2)
      <4> DEFINE e == [v4[r] EXCEPT !.at = "checked", !.base = v2]
      <4>1. v4' = [v4 EXCEPT ![r] = e]
        BY <2>2, <3>3 DEF Aurora!Check
      <4>2. e \in AuroraRows /\ e.at = "checked" /\ e.next = v4[r].next /\ e.base = v2
        BY <1>3 DEF AuroraRows, Aurora!Working
      <4>3. v4[r].next > v2
        BY <1>3, <3>3
      <4> HIDE DEF e
      <4>4. QED
        BY <3>1, <4>1, <4>2, <4>3
    <3>4. QED
      BY <3>2, <3>3
  <2>3. CASE Aurora!Drain(r)
    <3> DEFINE e == [v4[r] EXCEPT !.at = "listed"]
    <3>1. v4' = [v4 EXCEPT ![r] = e] /\ v4[r].at = "next" /\ v4[r].next > v1
      BY <2>3 DEF Aurora!Drain, Aurora!Go, Aurora!At
    <3>2. e \in AuroraRows /\ e.at = "listed"
      BY <1>3 DEF AuroraRows, Aurora!Working
    <3>3. QED
      BY <3>1, <3>2
  <2>4. QED
    BY <2>1, <2>2, <2>3
<1>6. v5' \in [Aurora!Runs -> {"none", "LOADING", "COMPLETE"}]
      /\ \A q \in Aurora!Runs : /\ v5'[q] = "none" <=> v5[q] = "none"
                                /\ v5'[q] = "COMPLETE" => v5[q] = "COMPLETE" \/ 1..v8[q] \subseteq AuroraPks
  <2>1. v5 \in [Aurora!Runs -> {"none", "LOADING", "COMPLETE"}] /\ v5[r] # "none"
    BY <1>1, AuroraFacts
  <2>2. CASE Aurora!Complete(r)
    <3>1. v5' = [v5 EXCEPT ![r] = "COMPLETE"] /\ v4[r].at = "listed"
      BY <2>2 DEF Aurora!Complete, Aurora!At
    <3>2. 1..v8[r] \subseteq AuroraPks
      BY <1>1, <3>1, AuroraFacts
    <3>3. QED
      BY <1>1, <2>1, <3>1, <3>2
  <2>3. CASE v5' = v5
    BY <2>1, <2>3
  <2>4. QED
    BY <2>2, <2>3 DEF Aurora!Check, Aurora!Fail, Aurora!Drain, Aurora!Crash
<1>7. 1..v2 \subseteq AuroraPks
      /\ (v4[r].at \in {"next", "checked", "committed"} =>
            v4[r].next > 0 /\ 1..(v4[r].next - 1) \subseteq AuroraPks)
  BY <1>1, AuroraFacts
<1>8. /\ e.at \in {"next", "checked", "committed"} => e.next > 0 /\ 1..(e.next - 1) \subseteq AuroraPks
      /\ e.at = "checked" => e.next <= v1
      /\ e.at = "committed" => FALSE
      /\ e.at = "listed" => 1..v8[r] \subseteq AuroraPks
  <2>1. ASSUME e.at = "next" PROVE e.next > 0 /\ 1..(e.next - 1) \subseteq AuroraPks
    <3>1. e.next = v4[r].next + 1 /\ v4[r].next <= v2
      BY <1>5, <2>1
    <3>2. QED
      BY <1>3, <1>7, <3>1
  <2>2. ASSUME e.at = "checked" PROVE e.next > 0 /\ 1..(e.next - 1) \subseteq AuroraPks /\ e.next <= v1
    <3>1. e.next = v4[r].next /\ v4[r].at = "next" /\ v4[r].next <= v1
      BY <1>5, <2>2
    <3>2. QED
      BY <1>7, <3>1
  <2>3. ASSUME e.at = "listed" PROVE 1..v8[r] \subseteq AuroraPks
    <3>1. v4[r].at = "next" /\ v4[r].next > v1 /\ v8[r] \in 0..v1
      BY <1>1, <1>5, <2>3, AuroraFacts
    <3>2. QED
      BY <1>3, <1>7, <3>1
  <2>4. QED
    BY <1>5, <2>1, <2>2, <2>3
<1>9. ASSUME ~v9
      PROVE  /\ AuroraPks \subseteq 1..(v2 + 1)
             /\ e.at = "next" => e.next <= v2 + 1
             /\ e.at \in {"checked", "committed"} => e.base = v2 /\ e.next = v2 + 1
             /\ Cardinality(v6) - Cardinality(AuroraPks)
                  + (IF v2 + 1 \in AuroraPks /\ e.at # "committed" THEN 1 ELSE 0) <= v7'
  <2>1. /\ AuroraPks \subseteq 1..(v2 + 1)
        /\ v4[r].at = "next" => v4[r].next <= v2 + 1
        /\ \A q \in DOMAIN v4 : v4[q].at \in Aurora!Working => q = r
    BY <1>1, <1>9, AuroraCalm
  <2>2. Cardinality(v6) - Cardinality(AuroraPks)
          + (IF v2 + 1 \in AuroraPks /\ \A q \in DOMAIN v4 : v4[q].at # "committed" THEN 1 ELSE 0) <= v7
    BY <1>9, AuroraCalm
  <2>3. Cardinality(AuroraPks) \in Nat /\ Cardinality(v6) \in Nat
    BY AuroraCounts
  <2>4. "committed" \in Aurora!Working
    BY DEF Aurora!Working
  <2>5. CASE v4[r].at = "committed"
    <3>1. Aurora!Crash(r)
      BY <2>5 DEF Aurora!Check, Aurora!Fail, Aurora!Drain, Aurora!Complete, Aurora!At
    <3>2. QED
      BY <1>3, <1>4, <1>5, <2>1, <2>2, <2>3, <2>5, <3>1
  <2>6. CASE v4[r].at # "committed"
    <3>1. \A q \in DOMAIN v4 : v4[q].at # "committed"
      BY <2>1, <2>4, <2>6
    <3>2. e.at \in {"checked", "committed"} => e.base = v2 /\ e.next = v2 + 1
      BY <1>3, <1>5, <2>1
    <3>3. e.at = "next" => e.next <= v2 + 1
      BY <1>3, <1>5
    <3>4. QED
      BY <1>3, <1>4, <2>1, <2>2, <2>3, <3>1, <3>2, <3>3
  <2>7. QED
    BY <2>5, <2>6
<1>10. v6' \subseteq [pk : 1..v1, run : Aurora!Runs] /\ IsFiniteSet(v6') /\ AuroraPks = AuroraPks'
       /\ v2' \in 0..v1 /\ 1..v2' \subseteq AuroraPks
  BY <1>2, <1>3, <1>7, AuroraFacts DEF AuroraPks
<1>11. PICK P : P = AuroraPks
  OBVIOUS
<1>12. QED
  BY <1>1, <1>2, <1>4, <1>5, <1>6, <1>8, <1>9, <1>10, <1>11, AuroraMove

\* A record is created, again if the watermark was not saved before.
LEMMA AuroraCreate ==
  ASSUME AuroraBoth, NEW r, Aurora!Create(r)
  PROVE  AuroraBoth'
<1>1. r \in DOMAIN v4 /\ v4[r].at = "checked" /\ v4[r].at \in Aurora!Working /\ r \in Aurora!Runs
  BY AuroraFacts DEF Aurora!Create, Aurora!At, Aurora!Working
<1> DEFINE n == v4[r].next
           new == [pk |-> n, run |-> r]
           e == [v4[r] EXCEPT !.at = "committed"]
<1>2. /\ v1' = v1 /\ v2' = v2 /\ v3' = v3 /\ v5' = v5 /\ v7' = v7 /\ v8' = v8 /\ v9' = v9
      /\ v6' = v6 \cup {new} /\ v4' = [v4 EXCEPT ![r] = e]
  BY DEF Aurora!Create, Aurora!history, Aurora!Go
<1>3. /\ v1 \in Nat /\ v2 \in 0..v1 /\ v2 \in Nat /\ v3 \in Nat /\ v7 \in Nat
      /\ Len(v4) + v3 <= AuroraRuns /\ 1..v2 \subseteq AuroraPks
      /\ v5 \in [Aurora!Runs -> {"none", "LOADING", "COMPLETE"}]
      /\ v6 \subseteq [pk : 1..v1, run : Aurora!Runs] /\ IsFiniteSet(v6)
  BY AuroraFacts
<1>4. n \in Nat /\ n > 0 /\ n <= v1 /\ 1..(n - 1) \subseteq AuroraPks /\ v4[r] \in AuroraRows
  BY <1>1, AuroraFacts
<1>5. /\ e \in AuroraRows /\ e.at = "committed" /\ e.next = n /\ e.base = v4[r].base
      /\ new.pk = n /\ new \in [pk : 1..v1, run : Aurora!Runs]
  BY <1>1, <1>3, <1>4 DEF AuroraRows, Aurora!Working
<1>6. PICK P : P = AuroraPks'
  OBVIOUS
<1>7. P = AuroraPks \cup {n}
  <2>1. \A m \in v6 : m.pk \in AuroraPks
    BY DEF AuroraPks
  <2>2. P \subseteq AuroraPks \cup {n}
    BY <1>2, <1>6, <2>1 DEF AuroraPks
  <2>3. AuroraPks \subseteq P /\ n \in P
    BY <1>2, <1>5, <1>6 DEF AuroraPks
  <2>4. QED
    BY <2>2, <2>3
<1>8. IsFiniteSet(v6') /\ v6' \subseteq [pk : 1..v1, run : Aurora!Runs]
  <2>1. IsFiniteSet(v6 \cup {new})
    BY <1>3, FS_AddElement
  <2>2. QED
    BY <1>2, <1>3, <1>5, <2>1
<1> HIDE DEF e
<1>9. ASSUME ~v9
      PROVE  /\ P \subseteq 1..(v2 + 1)
             /\ e.base = v2 /\ e.next = v2 + 1
             /\ Cardinality(v6') - Cardinality(P) <= v7
  <2>1. /\ AuroraPks \subseteq 1..(v2 + 1) /\ v4[r].base = v2 /\ n = v2 + 1
        /\ \A q \in DOMAIN v4 : v4[q].at \in Aurora!Working => q = r
    BY <1>1, <1>9, AuroraCalm
  <2>2. Cardinality(v6) - Cardinality(AuroraPks)
          + (IF v2 + 1 \in AuroraPks /\ \A q \in DOMAIN v4 : v4[q].at # "committed" THEN 1 ELSE 0) <= v7
    BY <1>9, AuroraCalm
  <2>3. \A q \in DOMAIN v4 : v4[q].at # "committed"
    BY <1>1, <2>1 DEF Aurora!Working
  <2>4. IsFiniteSet(AuroraPks) /\ Cardinality(AuroraPks) \in Nat /\ Cardinality(v6) \in Nat
    BY AuroraCounts
  <2>5. Cardinality(v6') \in Nat /\ Cardinality(v6') <= Cardinality(v6) + 1
    <3>1. Cardinality(v6 \cup {new}) = IF new \in v6 THEN Cardinality(v6) ELSE Cardinality(v6) + 1
      BY <1>3, FS_AddElement
    <3> HIDE DEF new
    <3>2. QED
      BY <1>2, <2>4, <3>1
  <2>6. Cardinality(P) = IF n \in AuroraPks THEN Cardinality(AuroraPks) ELSE Cardinality(AuroraPks) + 1
    BY <1>7, <2>4, FS_AddElement
  <2>7. Cardinality(v6') - Cardinality(P) <= v7
    <3>1. CASE n \in AuroraPks
      BY <1>3, <2>1, <2>2, <2>3, <2>4, <2>5, <2>6, <3>1
    <3>2. CASE n \notin AuroraPks
      BY <1>3, <2>1, <2>2, <2>3, <2>4, <2>5, <2>6, <3>2
    <3>3. QED
      BY <3>1, <3>2
  <2>8. QED
    BY <1>3, <1>5, <1>7, <2>1, <2>7
<1>10. /\ Cardinality(v6') - Cardinality(P)
            + (IF v2 + 1 \in P /\ e.at # "committed" THEN 1 ELSE 0) = Cardinality(v6') - Cardinality(P)
  <2>1. Cardinality(v6') \in Nat /\ Cardinality(P) \in Nat
    BY <1>3, <1>7, <1>8, AuroraCounts, FS_AddElement, FS_CardinalityType
  <2>2. QED
    BY <1>5, <2>1
<1>11. /\ v2' \in 0..v1 /\ v3' \in Nat /\ Len(v4) + v3' <= AuroraRuns /\ v7' \in Nat
       /\ AuroraPks \subseteq P /\ 1..v2' \subseteq P /\ 1..(e.next - 1) \subseteq P /\ e.next \in P /\ e.next > 0
  BY <1>2, <1>3, <1>4, <1>5, <1>7
<1> HIDE DEF n, new
<1>12. QED
  BY <1>1, <1>2, <1>3, <1>5, <1>6, <1>8, <1>9, <1>10, <1>11, AuroraMove

\* The watermark is saved after the record.
LEMMA AuroraSave ==
  ASSUME AuroraBoth, NEW r, Aurora!Save(r)
  PROVE  AuroraBoth'
<1>1. r \in DOMAIN v4 /\ v4[r].at = "committed" /\ v4[r].at \in Aurora!Working
  BY AuroraFacts DEF Aurora!Save, Aurora!At, Aurora!Working
<1> DEFINE n == v4[r].next
           e == [at |-> "next", next |-> n + 1, base |-> 0]
<1>2. /\ v1' = v1 /\ v3' = v3 /\ v5' = v5 /\ v6' = v6 /\ v7' = v7 /\ v8' = v8 /\ v9' = v9
      /\ v2' = (IF n > v4[r].base THEN n ELSE v2) /\ v4' = [v4 EXCEPT ![r] = e]
  BY DEF Aurora!Save, Aurora!history
<1>3. /\ v1 \in Nat /\ v2 \in 0..v1 /\ v2 \in Nat /\ v3 \in Nat /\ v7 \in Nat
      /\ Len(v4) + v3 <= AuroraRuns /\ 1..v2 \subseteq AuroraPks
      /\ v5 \in [Aurora!Runs -> {"none", "LOADING", "COMPLETE"}]
      /\ v6 \subseteq [pk : 1..v1, run : Aurora!Runs] /\ IsFiniteSet(v6)
  BY AuroraFacts
<1>4. n \in Nat /\ n > 0 /\ v4[r].base \in Nat /\ 1..(n - 1) \subseteq AuroraPks /\ n \in AuroraPks
  BY <1>1, AuroraFacts
<1>5. n <= v1 /\ 1..n \subseteq AuroraPks
  <2>1. \A m \in v6 : m.pk \in 1..v1
    BY <1>3
  <2>2. n <= v1
    BY <1>3, <1>4, <2>1 DEF AuroraPks
  <2>3. \A k \in 1..n : k = n \/ k \in 1..(n - 1)
    BY <1>4
  <2> HIDE DEF n
  <2>4. QED
    BY <1>4, <2>2, <2>3
<1>6. e \in AuroraRows /\ e.at = "next" /\ e.next = n + 1
  BY <1>4 DEF AuroraRows, Aurora!Working
<1>7. AuroraPks' = AuroraPks
  BY <1>2 DEF AuroraPks
<1>8. v2' \in 0..v1 /\ 1..v2' \subseteq AuroraPks
  BY <1>2, <1>3, <1>4, <1>5
<1> HIDE DEF e
<1>9. ASSUME ~v9
      PROVE  /\ AuroraPks \subseteq 1..(v2' + 1) /\ e.next <= v2' + 1
             /\ Cardinality(v6) - Cardinality(AuroraPks)
                  + (IF v2' + 1 \in AuroraPks /\ e.at # "committed" THEN 1 ELSE 0) <= v7
  <2>1. AuroraPks \subseteq 1..(v2 + 1) /\ v4[r].base = v2 /\ n = v2 + 1
    BY <1>1, <1>9, AuroraCalm
  <2>2. Cardinality(v6) - Cardinality(AuroraPks)
          + (IF v2 + 1 \in AuroraPks /\ \A q \in DOMAIN v4 : v4[q].at # "committed" THEN 1 ELSE 0) <= v7
    BY <1>9, AuroraCalm
  <2>3. ~\A q \in DOMAIN v4 : v4[q].at # "committed"
    BY <1>1
  <2>4. v2' = v2 + 1
    BY <1>2, <1>3, <2>1
  <2>5. v2' + 1 \notin AuroraPks
    BY <1>3, <2>1, <2>4
  <2>6. QED
    BY <1>3, <1>6, <2>1, <2>2, <2>3, <2>4, <2>5
<1>10. PICK P : P = AuroraPks
  OBVIOUS
<1>11. e.next > 0 /\ 1..(e.next - 1) \subseteq AuroraPks
  <2>1. e.next - 1 = n
    BY <1>4, <1>6
  <2>2. QED
    BY <1>4, <1>5, <1>6, <2>1
<1> HIDE DEF n
<1>12. QED
  BY <1>1, <1>2, <1>3, <1>6, <1>7, <1>8, <1>9, <1>10, <1>11, AuroraMove

\* Aurora, users, and what stutters.
LEMMA AuroraOutside ==
  ASSUME AuroraBoth, Aurora!Register \/ Aurora!RequestImport \/ UNCHANGED Aurora!vars
  PROVE  AuroraBoth'
<1>1. /\ v2' = v2 /\ v4' = v4 /\ v5' = v5 /\ v6' = v6 /\ v7' = v7 /\ v8' = v8 /\ v9' = v9
  BY DEF Aurora!Register, Aurora!RequestImport, Aurora!vars, Aurora!history
<1>2. v1' \in 0..AuroraRecords /\ v1' >= v1 /\ v1' \in Nat /\ v3' \in Nat /\ Len(v4) + v3' <= AuroraRuns
  BY AuroraFacts, AuroraBounds DEF Aurora!Register, Aurora!RequestImport, Aurora!vars, Aurora!history
<1>3. v1 \in Nat /\ v2' \in 0..v1' /\ v8' \in [Aurora!Runs -> 0..v1']
      /\ v6' \subseteq [pk : 1..v1', run : Aurora!Runs]
  BY <1>1, <1>2, AuroraFacts
<1>4. AuroraPks' = AuroraPks
  BY <1>1 DEF AuroraPks
<1>5. \A r \in DOMAIN v4' :
        /\ v4'[r].at \in {"next", "checked", "committed"} =>
             v4'[r].next > 0 /\ 1..(v4'[r].next - 1) \subseteq AuroraPks
        /\ v4'[r].at = "checked" => v4'[r].next <= v1'
        /\ v4'[r].at = "committed" => v4'[r].next \in AuroraPks
        /\ v4'[r].at = "listed" => 1..v8'[r] \subseteq AuroraPks
  <2> TAKE r \in DOMAIN v4'
  <2>1. /\ v4[r].next \in Nat
        /\ v4[r].at \in {"next", "checked", "committed"} =>
             v4[r].next > 0 /\ 1..(v4[r].next - 1) \subseteq AuroraPks
        /\ v4[r].at = "checked" => v4[r].next <= v1
        /\ v4[r].at = "committed" => v4[r].next \in AuroraPks
        /\ v4[r].at = "listed" => 1..v8[r] \subseteq AuroraPks
    BY <1>1, AuroraFacts
  <2>2. QED
    BY <1>1, <1>2, <1>3, <2>1
<1>6. v9' \in BOOLEAN
  BY <1>1 DEF AuroraBoth
<1>7. PICK P : P = AuroraPks
  OBVIOUS
<1>8. QED
  BY <1>1, <1>2, <1>3, <1>4, <1>5, <1>6, <1>7, AuroraFacts, AuroraCalm, AuroraInvariant

\* A new run begins with a new batch.
LEMMA AuroraBegin ==
  ASSUME AuroraBoth, Aurora!Begin
  PROVE  AuroraBoth'
<1> DEFINE r == Len(v4) + 1
           e == [at |-> "next", next |-> 1, base |-> 0]
<1>1. /\ v1' = v1 /\ v2' = v2 /\ v6' = v6 /\ v7' = v7 /\ v3 > 0 /\ v3' = v3 - 1
      /\ v4' = Append(v4, e) /\ v5' = [v5 EXCEPT ![r] = "LOADING"] /\ v8' = [v8 EXCEPT ![r] = v1]
      /\ v9' = (v9 \/ Aurora!Active # {})
  BY DEF Aurora!Begin
<1>2. /\ v1 \in 0..AuroraRecords /\ v1 \in Nat /\ v2 \in 0..v1 /\ v3 \in Nat /\ v7 \in Nat
      /\ v4 \in Seq(AuroraRows) /\ Len(v4) \in Nat /\ Len(v4) + v3 <= AuroraRuns /\ AuroraRuns \in Nat
      /\ v5 \in [Aurora!Runs -> {"none", "LOADING", "COMPLETE"}] /\ v8 \in [Aurora!Runs -> 0..v1]
      /\ v6 \subseteq [pk : 1..v1, run : Aurora!Runs] /\ IsFiniteSet(v6) /\ 1..v2 \subseteq AuroraPks
  BY AuroraFacts, AuroraBounds
<1>3. e \in AuroraRows /\ e.at = "next" /\ e.next = 1
  BY DEF AuroraRows, Aurora!Working
<1> HIDE DEF e
<1>4. /\ v4' \in Seq(AuroraRows) /\ Len(v4') = r /\ DOMAIN v4' = DOMAIN v4 \cup {r} /\ r \notin DOMAIN v4
      /\ \A q \in DOMAIN v4' : v4'[q] = IF q = r THEN e ELSE v4[q]
  BY <1>1, <1>2, <1>3, RowAdded
<1>5. r \in Aurora!Runs /\ v3' \in Nat /\ Len(v4') + v3' <= AuroraRuns
  BY <1>1, <1>2, <1>4, AuroraBounds
<1> HIDE DEF r
<1>6. /\ v5' \in [Aurora!Runs -> {"none", "LOADING", "COMPLETE"}] /\ v8' \in [Aurora!Runs -> 0..v1']
      /\ \A q \in Aurora!Runs : /\ v5'[q] = IF q = r THEN "LOADING" ELSE v5[q]
                                /\ q # r => v8'[q] = v8[q]
  <2>1. v1 \in 0..v1
    BY <1>2
  <2>2. QED
    BY <1>1, <1>2, <1>5, <2>1
<1>7. \A q \in Aurora!Runs : v5'[q] = "none" <=> q \notin DOMAIN v4'
  BY <1>4, <1>6, AuroraFacts
<1>8. AuroraPks' = AuroraPks
  BY <1>1 DEF AuroraPks
<1>9. \A q \in Aurora!Runs : v5'[q] = "COMPLETE" => 1..v8'[q] \subseteq AuroraPks
  BY <1>6, AuroraFacts
<1>10. \A q \in DOMAIN v4' :
         /\ v4'[q].at \in {"next", "checked", "committed"} =>
              v4'[q].next > 0 /\ 1..(v4'[q].next - 1) \subseteq AuroraPks
         /\ v4'[q].at = "checked" => v4'[q].next <= v1'
         /\ v4'[q].at = "committed" => v4'[q].next \in AuroraPks
         /\ v4'[q].at = "listed" => 1..v8'[q] \subseteq AuroraPks
  <2> TAKE q \in DOMAIN v4'
  <2>1. CASE q = r
    <3>1. v4'[q] = e /\ 1..(1 - 1) = {}
      BY <1>4, <2>1
    <3>2. QED
      BY <1>3, <3>1
  <2>2. CASE q # r
    <3>1. v4'[q] = v4[q] /\ q \in DOMAIN v4 /\ q \in Aurora!Runs /\ v8'[q] = v8[q]
      BY <1>4, <1>6, <2>2, AuroraFacts
    <3>2. QED
      BY <1>1, <3>1, AuroraFacts
  <2>3. QED
    BY <2>1, <2>2
<1>11. v9' \in BOOLEAN
  BY <1>1 DEF AuroraBoth
<1>12. ASSUME ~v9'
       PROVE  /\ \A q, p \in DOMAIN v4' : v4'[q].at \in Aurora!Working /\ v4'[p].at \in Aurora!Working => q = p
              /\ AuroraPks \subseteq 1..(v2' + 1)
              /\ \A q \in DOMAIN v4' :
                   /\ v4'[q].at = "next" => v4'[q].next <= v2' + 1
                   /\ v4'[q].at \in {"checked", "committed"} => v4'[q].base = v2' /\ v4'[q].next = v2' + 1
              /\ Cardinality(v6') - Cardinality(AuroraPks)
                   + (IF v2' + 1 \in AuroraPks /\ \A q \in DOMAIN v4' : v4'[q].at # "committed"
                      THEN 1 ELSE 0) <= v7'
  <2>1. ~v9 /\ Aurora!Active = {}
    BY <1>1, <1>12 DEF AuroraBoth
  <2>2. \A q \in DOMAIN v4 : v4[q].at \notin Aurora!Working
    BY <2>1 DEF Aurora!Active
  <2>3. {"next", "checked", "committed"} \subseteq Aurora!Working
    BY DEF Aurora!Working
  <2>4. \A q \in DOMAIN v4' : q # r => v4'[q].at \notin Aurora!Working
    BY <1>4, <2>2
  <2>5. v4'[r] = e /\ 1 <= v2' + 1
    BY <1>1, <1>2, <1>4
  <2>6. (\A q \in DOMAIN v4' : v4'[q].at # "committed") /\ \A q \in DOMAIN v4 : v4[q].at # "committed"
    BY <1>3, <1>4, <2>2, <2>3, <2>4, <2>5
  <2>7. AuroraPks \subseteq 1..(v2 + 1)
        /\ Cardinality(v6) - Cardinality(AuroraPks)
             + (IF v2 + 1 \in AuroraPks /\ \A q \in DOMAIN v4 : v4[q].at # "committed" THEN 1 ELSE 0) <= v7
    BY <2>1, AuroraCalm
  <2>8. /\ \A q, p \in DOMAIN v4' : v4'[q].at \in Aurora!Working /\ v4'[p].at \in Aurora!Working => q = p
        /\ \A q \in DOMAIN v4' :
             /\ v4'[q].at = "next" => v4'[q].next <= v2' + 1
             /\ v4'[q].at \in {"checked", "committed"} => v4'[q].base = v2' /\ v4'[q].next = v2' + 1
    BY <1>3, <2>3, <2>4, <2>5
  <2>9. QED
    BY <1>1, <2>6, <2>7, <2>8
<1>13. PICK P : P = AuroraPks
  OBVIOUS
<1>14. /\ v1' \in 0..AuroraRecords /\ v2' \in 0..v1' /\ v7' \in Nat
       /\ v6' \subseteq [pk : 1..v1', run : Aurora!Runs] /\ IsFiniteSet(v6') /\ 1..v2' \subseteq AuroraPks
  BY <1>1, <1>2
<1>15. QED
  BY <1>4, <1>5, <1>6, <1>7, <1>8, <1>9, <1>10, <1>11, <1>12, <1>13, <1>14, AuroraInvariant

LEMMA AuroraKeeps == AuroraBoth /\ [Aurora!Next]_(Aurora!vars) => AuroraBoth'
BY AuroraOutside, AuroraBegin, AuroraCreate, AuroraSave, AuroraQuiet DEF Aurora!Next, Aurora!Work

LEMMA AuroraBegins == Aurora!Init => AuroraBoth
<1> SUFFICES ASSUME Aurora!Init PROVE AuroraBoth
  OBVIOUS
<1>1. /\ v1 = 0 /\ v2 = 0 /\ v3 = 0 /\ v4 = <<>> /\ v6 = {} /\ v7 = 0 /\ v9 = FALSE
      /\ v5 = [r \in Aurora!Runs |-> "none"] /\ v8 = [r \in Aurora!Runs |-> 0]
  BY DEF Aurora!Init
<1>2. DOMAIN v4 = {} /\ Len(v4) = 0 /\ 1..0 = {} /\ v4 \in Seq(AuroraRows)
  BY <1>1
<1>3. Aurora!Imported = {} /\ Aurora!Active = {} /\ IsFiniteSet({}) /\ Cardinality({}) = 0
  BY <1>1, <1>2, FS_EmptySet DEF Aurora!Imported, Aurora!Active
<1>4. Aurora!IsFiniteSet({}) /\ Aurora!Cardinality({}) = 0
  BY <1>3, AuroraSizes
<1>5. Aurora!Shape
  BY <1>1, <1>2, AuroraBounds DEF Aurora!Shape, AuroraRows
<1>6. Aurora!AuroraInv
  BY <1>1, <1>2, <1>3, <1>5 DEF Aurora!AuroraInv, Aurora!NothingSkipped, Aurora!CompleteIsAll
<1>7. ~Aurora!Ahead
  BY <1>3 DEF Aurora!Ahead
<1>8. Aurora!CalmInv
  BY <1>1, <1>2, <1>3, <1>4, <1>5, <1>7 DEF Aurora!CalmInv
<1>9. QED
  BY <1>1, <1>6, <1>8 DEF AuroraBoth

LEMMA AuroraMeans ==
  AuroraBoth => Aurora!TypeOK /\ Aurora!NothingSkipped /\ Aurora!CompleteIsAll /\ Aurora!RepeatsAreCrashes
<1> SUFFICES ASSUME AuroraBoth
             PROVE  Aurora!TypeOK /\ Aurora!NothingSkipped /\ Aurora!CompleteIsAll /\ Aurora!RepeatsAreCrashes
  OBVIOUS
<1>1. Aurora!TypeOK
  <2>1. v1 \in 0..AuroraRecords /\ v2 \in 0..AuroraRecords /\ v3 \in 0..AuroraRuns
        /\ v5 \in [Aurora!Runs -> {"none", "LOADING", "COMPLETE"}]
    BY AuroraFacts, AuroraBounds
  <2>2. \A r \in DOMAIN v4 : v4[r].at \in Aurora!Working \cup Aurora!Ended /\ v5[r] # "none"
    <3>1. \A e \in AuroraRows : e.at \in Aurora!Working \cup Aurora!Ended
      BY DEF AuroraRows
    <3>2. QED
      BY <3>1, AuroraFacts
  <2>3. QED
    BY <2>1, <2>2 DEF Aurora!TypeOK
<1>2. Aurora!NothingSkipped /\ Aurora!CompleteIsAll
  BY DEF AuroraBoth, Aurora!AuroraInv
<1>3. Aurora!RepeatsAreCrashes
  <2> SUFFICES ASSUME ~v9 PROVE Cardinality(v6) - Cardinality(AuroraPks) <= v7
    BY AuroraSizes DEF Aurora!RepeatsAreCrashes, Aurora!Imported, AuroraPks
  <2>1. Cardinality(v6) - Cardinality(AuroraPks)
          + (IF v2 + 1 \in AuroraPks /\ \A r \in DOMAIN v4 : v4[r].at # "committed" THEN 1 ELSE 0) <= v7
    BY AuroraCalm
  <2>2. QED
    BY <2>1, AuroraFacts, AuroraCounts
<1>4. QED
  BY <1>1, <1>2, <1>3


-----------------------------------------------------------------------------
(* ONA implements ImportOnce, on the slots.                                *)

LEMMA OnceBegins == InitAll => Promise!Init
BY DEF InitAll, In, CollectorsInit, KoboInit, AuroraInit, OnaInit, OnaCalmInit, PictureInit, FlexInit,
  FlexFormInit, BlobsInit, OnaCalm!Init, OnaCalm!ImportedIds, Promise!Init

LEMMA OnceKeeps ==
  ASSUME OnaCalmP!OnaInv, v12 = 0, [OnaCalm!Next]_(OnaCalm!vars), In("OnaCalm"), component' = component
  PROVE  v12' = 0 /\ [Promise!Next]_(Promise!vars)
<1>1. [OnaCalmP!Next]_(OnaCalmP!vars)
  BY OnaCalmSteps
<1>2. v12' = 0
  BY <1>1, OnaCalmBounds, OnaCalmP!NoCrash
<1>3. [OnaCalmP!Once!Next]_(OnaCalmP!Once!vars)
  BY <1>1, OnaCalmBounds, OnaCalmP!NextOnce
<1>4. OnaCalm!ImportedIds = OnaCalmP!ImportedIds /\ OnaCalm!ImportedIds' = OnaCalmP!ImportedIds'
  BY DEF OnaCalm!ImportedIds, OnaCalmP!ImportedIds
<1>5. QED
  BY <1>2, <1>3, <1>4 DEF OnaCalmP!Once!Next, OnaCalmP!Once!vars, OnaCalmP!Once!Save, OnaCalmP!Once!Import,
    OnaCalmP!Once!Newest, Promise!Next, Promise!vars, Promise!Save, Promise!Import, Promise!Newest, In

-----------------------------------------------------------------------------
(* The types, and what a cleanup has read.                                   *)

LEMMA Earliest ==
  ASSUME NEW S \in SUBSET Imports, S # {}
  PROVE  First(S) \in S
<1> DEFINE Rel == OpToRel(<, Nat)
<1>1. IsWellFoundedOn(Rel, Nat)
  BY NatLessThanWellFounded
<1>2. S \subseteq Nat
  BY ImportsAreNumbers
<1>3. PICK m \in S : \A u \in S : ~(<<u, m>> \in Rel)
  BY <1>1, <1>2, WFMin
<1>4. \A u \in S : ~(u < m)
  BY <1>2, <1>3 DEF OpToRel
<1>5. \A u \in S : m <= u
  BY <1>2, <1>4
<1>6. QED
  BY <1>5 DEF First

\* The transaction of an import has ended, for good.
Over(i) == i \in Imports /\ step[i] \in Committed \cup {"gone"}

(* What others refer to was committed: a collector that is found is the       *)
(* import's own, or one of an import that is over.                            *)
RefInv ==
  /\ sheet \in [Imports -> Sheets \cup {NoSheet}]
  /\ \A i \in Imports : at[i] # 0
  /\ \A k \in Collectors : coll[k] = "live" => Over(k[1])
  /\ \A i \in Imports, r \in Refs : found[i][r] # NoOne => found[i][r][1] = i \/ Over(found[i][r][1])
  /\ \A i \in Imports : \A role \in {"primary", "alternate"} : hh[i][role] # NoOne => Over(hh[i][role][1])
  /\ \A pair \in snapshot : pair \in Collectors \X Imports /\ Over(pair[1][1])
  /\ cleaning # NoOne => Over(cleaning)

CollInv == TypeOK /\ RefInv

LEMMA CollectorsBegin == Init => CollInv
<1> SUFFICES ASSUME Init PROVE CollInv
  OBVIOUS
<1>1. TypeOK
  BY DEF Init, TypeOK, Steps, Collectors, NoRefs
<1>2. RefInv
  BY DEF Init, RefInv, NoRefs
<1>3. QED
  BY <1>1, <1>2 DEF CollInv

LEMMA CollectorFact ==
  ASSUME NEW k \in Collectors
  PROVE  /\ k = <<k[1], k[2]>> /\ k[1] \in Imports /\ k[2] \in People
         /\ \A i \in Imports, h \in People : <<i, h>> \in Collectors /\ <<i, h>>[1] = i
BY DEF Collectors

\* A step of an import changes where it is, and nobody else.
LEMMA OverKept ==
  ASSUME CollInv, NEW i \in Imports, NEW t \in Steps,
         step' = step \/ step' = [step EXCEPT ![i] = t], Over(i) => t \in Committed \cup {"gone"}
  PROVE  /\ step' \in [Imports -> Steps]
         /\ \A j : Over(j) => Over(j)'
BY DEF CollInv, TypeOK, Over

LEMMA CollBegin ==
  ASSUME CollInv, NEW i \in Imports, Begin(i)
  PROVE  CollInv'
<1>1. /\ step[i] = "new" /\ step' = [step EXCEPT ![i] = "rows"]
      /\ UNCHANGED <<at, found, lock, coll, ownId, owner, hh, link, cleaning, snapshot, pinned>>
  BY DEF Begin, program
<1>2. step' \in [Imports -> Steps] /\ \A j : Over(j) => Over(j)'
  BY <1>1, OverKept DEF Over, Committed, Steps
<1>3. sheet' \in [Imports -> Sheets \cup {NoSheet}]
  BY DEF Begin, CollInv, RefInv
<1>4. \A j \in Imports : step[j] = "rows" => step'[j] = "rows"
  BY <1>1 DEF CollInv, TypeOK
<1>5. \A k \in Collectors : coll[k] = "pending" => step'[k[1]] = "rows"
  BY <1>4, CollectorFact DEF CollInv, TypeOK
<1>6. \A h \in People : lock[h] # NoOne => step'[lock[h]] = "rows"
  BY <1>4 DEF CollInv, TypeOK
<1>7. TypeOK'
  BY <1>1, <1>2, <1>5, <1>6 DEF CollInv, TypeOK
<1>8. RefInv'
  BY <1>1, <1>2, <1>3 DEF CollInv, RefInv
<1>9. QED
  BY <1>7, <1>8 DEF CollInv

\* The row that an import reads names somebody.
LEMMA RowFact ==
  ASSUME CollInv, NEW i \in Imports, HasRow(i)
  PROVE  /\ Row(i).ref \in Refs /\ Row(i).who \in People
         /\ sheet[i] \in Sheets /\ at[i] \in DOMAIN sheet[i].rows
<1>1. at[i] \in Nat \ {0} /\ sheet[i] \in Sheets \cup {NoSheet} /\ at[i] <= Len(sheet[i].rows)
  BY DEF CollInv, TypeOK, RefInv, HasRow
<1>2. sheet[i] # NoSheet
  BY <1>1 DEF NoSheet
<1>3. sheet[i] \in Sheets /\ at[i] \in DOMAIN sheet[i].rows
  BY <1>1, <1>2, RowsAreSequences
<1>4. QED
  BY <1>3, RowsNamePeople DEF Row, Refs

LEMMA CollRow ==
  ASSUME CollInv, NEW i \in Imports, GetOrCreateCollector(i)
  PROVE  CollInv'
<1> DEFINE ref == Row(i).ref
           h == Row(i).who
           use == IF Existing(i, h) = {} THEN i ELSE First(Existing(i, h))
<1>1. /\ HasRow(i) /\ step[i] = "rows" /\ lock[h] \in {NoOne, i} /\ lock' = [lock EXCEPT ![h] = i]
      /\ IF Existing(i, h) = {} THEN Create(i, h, ref) ELSE UNCHANGED <<coll, ownId, owner>>
      /\ found' = [found EXCEPT ![i][ref] = <<use, h>>] /\ at' = [at EXCEPT ![i] = at[i] + 1]
      /\ UNCHANGED <<step, sheet, hh, link, cleaning, snapshot, pinned>>
  BY DEF GetOrCreateCollector, HasRow, program
<1>2. ref \in Refs /\ h \in People
  BY <1>1, RowFact
<1>3. use \in Imports /\ (use = i \/ Over(use))
  <2>1. CASE Existing(i, h) = {}
    BY <2>1
  <2>2. CASE Existing(i, h) # {}
    <3>1. use \in Existing(i, h)
      BY <2>2, Earliest DEF Existing
    <3>2. <<use, h>> \in Collectors /\ <<use, h>>[1] = use
      BY <1>2, <3>1 DEF Existing, Collectors
    <3>3. QED
      BY <3>1, <3>2 DEF Existing, CollInv, RefInv
  <2>3. QED
    BY <2>1, <2>2
<1>4. <<use, h>> \in Collectors /\ <<use, h>>[1] = use /\ <<i, h>> \in Collectors /\ <<i, h>>[1] = i
  BY <1>2, <1>3 DEF Collectors
<1> HIDE DEF use, ref, h
<1>5. /\ coll' \in [Collectors -> {"none", "pending", "live", "gone"}]
      /\ owner' \in [Collectors -> Imports \cup {NoOne}]
      /\ \A k \in Collectors : coll'[k] = coll[k] \/ (k = <<i, h>> /\ coll'[k] = "pending")
  BY <1>1, <1>4 DEF CollInv, TypeOK, Create
<1>6. found' \in [Imports -> [Refs -> Collectors \cup {NoOne}]]
  BY <1>1, <1>2, <1>4 DEF CollInv, TypeOK
<1>7. \A j \in Imports, r \in Refs : found'[j][r] = IF j = i /\ r = ref THEN <<use, h>> ELSE found[j][r]
  BY <1>1, <1>2 DEF CollInv, TypeOK
<1>8. at' \in [Imports -> Nat] /\ \A j \in Imports : at'[j] # 0
  BY <1>1 DEF CollInv, TypeOK, RefInv
<1>9. lock' \in [People -> Imports \cup {NoOne}] /\ \A g \in People : lock'[g] = lock[g] \/ lock'[g] = i
  BY <1>1 DEF CollInv, TypeOK
<1>10. TypeOK'
  <2>1. \A k \in Collectors : coll'[k] = "pending" => step[k[1]] = "rows"
    BY <1>1, <1>4, <1>5 DEF CollInv, TypeOK
  <2>2. \A g \in People : lock'[g] # NoOne => step[lock'[g]] = "rows"
    BY <1>1, <1>9 DEF CollInv, TypeOK
  <2>3. QED
    BY <1>1, <1>5, <1>6, <1>8, <1>9, <2>1, <2>2 DEF CollInv, TypeOK
<1>11. \A j : Over(j) <=> Over(j)'
  BY <1>1 DEF Over
<1>12. \A j \in Imports, r \in Refs : found'[j][r] # NoOne => found'[j][r][1] = j \/ Over(found'[j][r][1])
  <2> TAKE j \in Imports, r \in Refs
  <2>1. CASE j = i /\ r = ref
    BY <1>3, <1>4, <1>7, <2>1
  <2>2. CASE ~(j = i /\ r = ref)
    BY <1>7, <2>2 DEF CollInv, RefInv
  <2>3. QED
    BY <2>1, <2>2
<1>13. \A k \in Collectors : coll'[k] = "live" => Over(k[1])
  BY <1>5 DEF CollInv, RefInv
<1>14. RefInv'
  BY <1>1, <1>8, <1>11, <1>12, <1>13 DEF CollInv, RefInv, Over
<1>15. QED
  BY <1>10, <1>14 DEF CollInv

LEMMA CollCommit ==
  ASSUME CollInv, NEW i \in Imports, Commit(i)
  PROVE  CollInv'
<1> DEFINE refs == [primary |-> Resolve(i, sheet[i].primary), alternate |-> Resolve(i, sheet[i].alternate)]
           Then(j) == j \in Imports /\ step'[j] \in Committed \cup {"gone"}
<1>1. /\ step[i] = "rows" /\ step' = [step EXCEPT ![i] = "loaded"] /\ hh' = [hh EXCEPT ![i] = refs]
      /\ coll' = [k \in Collectors |-> IF k[1] = i /\ coll[k] = "pending" THEN "live" ELSE coll[k]]
      /\ lock' = Released(i)
      /\ UNCHANGED <<at, found, sheet, owner, link, cleaning, snapshot, pinned>>
  BY DEF Commit, files, program
<1>2. step' \in [Imports -> Steps] /\ \A j : Over(j) => Then(j)
  BY <1>1, OverKept DEF Over, Committed, Steps
<1>3. Then(i) /\ \A j \in Imports : j # i => step'[j] = step[j]
  BY <1>1 DEF CollInv, TypeOK, Over, Committed
<1>4. \A ref : /\ Resolve(i, ref) \in Collectors \cup {NoOne}
               /\ Resolve(i, ref) # NoOne => Resolve(i, ref)[1] = i \/ Over(Resolve(i, ref)[1])
  BY DEF Resolve, CollInv, TypeOK, RefInv
<1>5. refs \in [{"primary", "alternate"} -> Collectors \cup {NoOne}]
  BY <1>4
<1>6. \A role \in {"primary", "alternate"} : refs[role] # NoOne => Then(refs[role][1])
  BY <1>2, <1>3, <1>4
<1> HIDE DEF refs, Then
<1>7. /\ hh' \in [Imports -> [{"primary", "alternate"} -> Collectors \cup {NoOne}]]
      /\ \A j \in Imports : hh'[j] = IF j = i THEN refs ELSE hh[j]
  BY <1>1, <1>5 DEF CollInv, TypeOK
<1>8. coll' \in [Collectors -> {"none", "pending", "live", "gone"}]
  BY <1>1 DEF CollInv, TypeOK
<1>9. \A k \in Collectors : coll'[k] = "pending" => step'[k[1]] = "rows"
  BY <1>1, <1>3, CollectorFact DEF CollInv, TypeOK
<1>10. \A k \in Collectors : coll'[k] = "live" => Then(k[1])
  BY <1>1, <1>2, <1>3 DEF CollInv, RefInv
<1>11. /\ lock' \in [People -> Imports \cup {NoOne}]
       /\ \A h \in People : lock'[h] # NoOne => step'[lock'[h]] = "rows"
  BY <1>1, <1>3 DEF Released, CollInv, TypeOK
<1>12. TypeOK'
  BY <1>1, <1>2, <1>7, <1>8, <1>9, <1>11 DEF CollInv, TypeOK
<1>13. \A j \in Imports : \A role \in {"primary", "alternate"} : hh'[j][role] # NoOne => Then(hh'[j][role][1])
  BY <1>2, <1>6, <1>7 DEF CollInv, RefInv
<1>14. RefInv'
  BY <1>1, <1>2, <1>10, <1>13 DEF CollInv, RefInv, Over, Then
<1>15. QED
  BY <1>12, <1>14 DEF CollInv

LEMMA CollRollback ==
  ASSUME CollInv, NEW i \in Imports, step[i] = "rows", Rollback(i)
  PROVE  CollInv'
<1>1. /\ step' = [step EXCEPT ![i] = "failed"]
      /\ coll' = [k \in Collectors |-> IF k[1] = i THEN "none" ELSE coll[k]]
      /\ owner' = [k \in Collectors |-> IF k[1] = i THEN NoOne ELSE owner[k]]
      /\ lock' = Released(i)
      /\ UNCHANGED <<at, found, sheet, hh, link, cleaning, snapshot, pinned>>
  BY DEF Rollback, files, program
<1>2. step' \in [Imports -> Steps] /\ \A j : Over(j) => Over(j)'
  BY <1>1, OverKept DEF Over, Committed, Steps
<1>3. \A j \in Imports : j # i => step'[j] = step[j]
  BY <1>1 DEF CollInv, TypeOK
<1>4. /\ coll' \in [Collectors -> {"none", "pending", "live", "gone"}]
      /\ owner' \in [Collectors -> Imports \cup {NoOne}]
      /\ \A k \in Collectors : coll'[k] # "none" => coll'[k] = coll[k] /\ k[1] # i
  BY <1>1 DEF CollInv, TypeOK
<1>5. /\ lock' \in [People -> Imports \cup {NoOne}]
      /\ \A h \in People : lock'[h] # NoOne => step'[lock'[h]] = "rows"
  BY <1>1, <1>3 DEF Released, CollInv, TypeOK
<1>6. \A k \in Collectors : coll'[k] = "pending" => step'[k[1]] = "rows"
  BY <1>3, <1>4, CollectorFact DEF CollInv, TypeOK
<1>7. TypeOK'
  BY <1>1, <1>2, <1>4, <1>5, <1>6 DEF CollInv, TypeOK
<1>8. \A k \in Collectors : coll'[k] = "live" => Over(k[1])'
  BY <1>2, <1>4 DEF CollInv, RefInv
<1>9. RefInv'
  BY <1>1, <1>2, <1>8 DEF CollInv, RefInv
<1>10. QED
  BY <1>7, <1>9 DEF CollInv

LEMMA CollAfter ==
  ASSUME CollInv, NEW i \in Imports, Postprocess(i) \/ Stop(i)
  PROVE  CollInv'
<1>1. /\ step[i] = "loaded"
      /\ step' = [step EXCEPT ![i] = "complete"] \/ step' = [step EXCEPT ![i] = "stopped"]
      /\ UNCHANGED <<at, found, sheet, lock, coll, owner, hh, cleaning, snapshot, pinned>>
  BY DEF Postprocess, Stop, files, program
<1>2. step' \in [Imports -> Steps] /\ \A j : Over(j) => Over(j)'
  BY <1>1, OverKept DEF Over, Committed, Steps
<1>3. \A j \in Imports : step[j] = "rows" => step'[j] = "rows"
  BY <1>1 DEF CollInv, TypeOK
<1>4. link' \in [Imports -> Collectors \cup {NoOne}]
  <2>1. \A ref : CarriersOf(ref, i) \subseteq Collectors
    BY DEF CarriersOf
  <2>2. QED
    BY <2>1 DEF Postprocess, Stop, CollInv, TypeOK
<1>5. /\ \A k \in Collectors : coll[k] = "pending" => step'[k[1]] = "rows"
      /\ \A h \in People : lock[h] # NoOne => step'[lock[h]] = "rows"
  BY <1>3, CollectorFact DEF CollInv, TypeOK
<1>6. TypeOK'
  BY <1>1, <1>2, <1>4, <1>5 DEF CollInv, TypeOK
<1>7. RefInv'
  BY <1>1, <1>2 DEF CollInv, RefInv
<1>8. QED
  BY <1>6, <1>7 DEF CollInv

\* RDPs and the begin and the failure of a cleanup change no record.
LEMMA CollOutside ==
  ASSUME CollInv,
         \/ EndRdp \/ UNCHANGED vars
         \/ \E i \in Imports : CreateRdp(i) \/ CleanupBegin(i) \/ CleanupFail(i)
  PROVE  CollInv'
<1>1. UNCHANGED <<step, sheet, at, found, lock, coll, owner, hh, link>>
  BY DEF EndRdp, CreateRdp, CleanupBegin, CleanupFail, vars, files
<1>2. pinned' \subseteq Imports /\ cleaning' \in Imports \cup {NoOne}
  BY DEF EndRdp, CreateRdp, CleanupBegin, CleanupFail, vars, CollInv, TypeOK
<1>3. TypeOK'
  BY <1>1, <1>2 DEF CollInv, TypeOK
<1>4. ASSUME NEW b, NEW pair \in RefsOutside(b)
      PROVE  pair \in Collectors \X Imports /\ Over(pair[1][1])
  <2>1. pair \in Collectors \X Imports /\ pair[2] \in Imports /\ pair[1] \in Collectors
        /\ pair[1] \in {hh[pair[2]].primary, hh[pair[2]].alternate}
    BY <1>4 DEF RefsOutside
  <2>2. CASE pair[1] = NoOne
    BY <2>1, <2>2, ImportsAreNumbers DEF Collectors
  <2>3. CASE pair[1] # NoOne
    BY <2>1, <2>3 DEF CollInv, RefInv
  <2>4. QED
    BY <2>2, <2>3
<1>5. snapshot' = snapshot \/ snapshot' = {} \/ \E b \in Imports : snapshot' = RefsOutside(b)
  BY DEF EndRdp, CreateRdp, CleanupBegin, CleanupFail, vars
<1>6. cleaning' # NoOne => Over(cleaning')
  BY DEF EndRdp, CreateRdp, CleanupBegin, CleanupFail, vars, CollInv, RefInv, Over
<1>7. RefInv'
  BY <1>1, <1>4, <1>5, <1>6 DEF CollInv, RefInv, Over
<1>8. QED
  BY <1>3, <1>7 DEF CollInv

LEMMA CollDelete ==
  ASSUME CollInv, NEW b \in Imports, CleanupDelete(b)
  PROVE  CollInv'
<1>1. \A k \in Collectors : NewOwner(k) \in Imports \cup {NoOne}
  <2> TAKE k \in Collectors
  <2> DEFINE users == {i \in Imports : <<k, i>> \in snapshot}
  <2>1. users # {} => First(users) \in Imports
    <3>1. users \subseteq Imports
      OBVIOUS
    <3> HIDE DEF users
    <3>2. QED
      BY <3>1, Earliest
  <2>2. QED
    BY <2>1 DEF NewOwner
<1>2. /\ cleaning' = NoOne /\ snapshot' = {} /\ step' = [step EXCEPT ![b] = "gone"]
      /\ hh' = [hh EXCEPT ![b] = NoRefs] /\ link' = [link EXCEPT ![b] = NoOne]
      /\ UNCHANGED <<at, found, lock, sheet, pinned>>
  BY DEF CleanupDelete, files
<1>3. /\ owner' \in [Collectors -> Imports \cup {NoOne}]
      /\ coll' \in [Collectors -> {"none", "pending", "live", "gone"}]
      /\ \A k \in Collectors : coll'[k] = coll[k] \/ coll'[k] = "gone"
  BY <1>1 DEF CleanupDelete, CollInv, TypeOK
<1>4. step' \in [Imports -> Steps] /\ \A j : Over(j) => Over(j)'
  BY <1>2, OverKept DEF Over, Committed, Steps
<1>5. \A j \in Imports : step[j] = "rows" => step'[j] = "rows"
  <2>1. Over(b)
    BY ImportsAreNumbers DEF CleanupDelete, CollInv, RefInv
  <2>2. QED
    BY <1>2, <2>1 DEF CollInv, TypeOK, Committed, Over
<1>6. /\ \A k \in Collectors : coll'[k] = "pending" => step'[k[1]] = "rows"
      /\ \A h \in People : lock[h] # NoOne => step'[lock[h]] = "rows"
  BY <1>3, <1>5, CollectorFact DEF CollInv, TypeOK
<1>7. /\ hh' \in [Imports -> [{"primary", "alternate"} -> Collectors \cup {NoOne}]]
      /\ link' \in [Imports -> Collectors \cup {NoOne}]
      /\ \A j \in Imports : hh'[j] = hh[j] \/ hh'[j] = NoRefs
  BY <1>2 DEF CollInv, TypeOK, NoRefs
<1>8. TypeOK'
  BY <1>2, <1>3, <1>4, <1>6, <1>7 DEF CollInv, TypeOK
<1>9. RefInv'
  BY <1>2, <1>3, <1>4, <1>7 DEF CollInv, RefInv, NoRefs
<1>10. QED
  BY <1>8, <1>9 DEF CollInv

LEMMA CollKept == CollInv /\ [Next]_vars => CollInv'
<1> SUFFICES ASSUME CollInv, [Next]_vars PROVE CollInv'
  OBVIOUS
<1>1. ASSUME NEW i \in Imports, Fail(i) \/ BreakDeadlock(i) PROVE CollInv'
  <2>1. Rollback(i) /\ step[i] = "rows"
    BY <1>1 DEF Fail, BreakDeadlock, Waits, HasRow
  <2>2. QED
    BY <2>1, CollRollback
<1>2. QED
  BY <1>1, CollBegin, CollRow, CollCommit, CollAfter, CollOutside, CollDelete DEF Next, ImportStep, Cleanup

\* Only what nobody refers to is created, committed, rolled back or deleted.
LEMMA ReadSurvive ==
  ASSUME CollInv, [Next]_vars
  PROVE  ReadReferencesSurvive
<1> SUFFICES ASSUME NEW pair \in snapshot PROVE coll'[pair[1]] = coll[pair[1]]
  BY DEF ReadReferencesSurvive
<1>1. pair \in Collectors \X Imports /\ Over(pair[1][1])
  BY DEF CollInv, RefInv
<1>2. pair = <<pair[1], pair[2]>> /\ pair[1] \in Collectors /\ pair[2] \in Imports
  BY <1>1
<1> DEFINE k == pair[1]
<1>3. step[k[1]] # "rows" /\ k[1] \in Imports
  BY <1>1 DEF Over, Committed
<1>4. ASSUME NEW i \in Imports, GetOrCreateCollector(i)
      PROVE  coll'[k] = coll[k]
  <2>1. step[i] = "rows" /\ Row(i).who \in People
    BY <1>4, RowFact DEF GetOrCreateCollector, HasRow
  <2>2. coll' = coll \/ coll' = [coll EXCEPT ![<<i, Row(i).who>>] = "pending"]
    BY <1>4 DEF GetOrCreateCollector, Create
  <2>3. <<i, Row(i).who>> # k
    BY <1>2, <1>3, <2>1
  <2>4. QED
    BY <1>2, <2>2, <2>3 DEF CollInv, TypeOK
<1>5. ASSUME NEW i \in Imports, Commit(i) \/ Fail(i) \/ BreakDeadlock(i)
      PROVE  coll'[k] = coll[k]
  <2>1. step[i] = "rows"
    BY <1>5 DEF Commit, Fail, BreakDeadlock, Waits, HasRow
  <2>2. k[1] # i
    BY <1>3, <2>1
  <2>3. QED
    BY <1>2, <1>5, <2>2 DEF Commit, Fail, BreakDeadlock, Rollback
<1>6. ASSUME NEW b \in Imports, CleanupDelete(b)
      PROVE  coll'[k] = coll[k]
  <2> DEFINE users == {i \in Imports : <<k, i>> \in snapshot}
  <2>1. pair[2] \in users
    BY <1>2
  <2>2. First(users) \in Imports
    <3>1. users \subseteq Imports /\ users # {}
      BY <2>1
    <3> HIDE DEF users
    <3>2. QED
      BY <3>1, Earliest
  <2>3. NewOwner(k) # NoOne
    BY <2>1, <2>2, ImportsAreNumbers DEF NewOwner
  <2>4. QED
    BY <1>2, <1>6, <2>3 DEF CleanupDelete
<1>7. CASE UNCHANGED coll
  BY <1>7
<1>8. ASSUME ~UNCHANGED coll
      PROVE  \E i \in Imports : GetOrCreateCollector(i) \/ Commit(i) \/ Fail(i) \/ BreakDeadlock(i) \/ CleanupDelete(i)
  BY <1>8 DEF Next, ImportStep, Cleanup, vars, EndRdp, Begin, Postprocess, Stop, CreateRdp, CleanupBegin, CleanupFail
<1>9. QED
  BY <1>4, <1>5, <1>6, <1>7, <1>8

-----------------------------------------------------------------------------
(* PictureImport, on the slots (v1: the draft, v2: the archives, v3: the      *)
(* requests, v4: the jobs, v5: the pictures, v6: who is removed, v7 and v8:   *)
(* who is reset and due, v9: the crashes).  An archive is the draft once:     *)
(* what deletes it has seen another draft in its place, or has cleared it,    *)
(* and while no worker dies it is applied before it stops to be the draft.    *)

PicRequests == [st : {"new", "open", "stored", "saved", "done"},
                by : PictureUsers \cup {NoPicture}, old : Picture!Drafts]
PicJobs == [st : {"none", "queued", "done"} \cup Picture!Running,
            confirmed : PictureRequests \cup {NoPicture}, zip : PictureRequests \cup {NoPicture},
            changed : SUBSET Portrayed, res : Picture!Results]
PicOf == {NoPicture} \cup (PictureRequests \X MatchKeys)

\* The archive of z was or is a draft, or will never be one.
Named(z) == v3[z].st \in {"saved", "done"}
NotDraft(z) == v1 = NoPicture \/ v1.zip # z
Shows(r) == v5[r] # NoPicture /\ v5[r][2] = MatchKeyOf[r]

PicTypes ==
  /\ v1 \in Picture!Drafts /\ v2 \subseteq PictureRequests
  /\ v3 \in [PictureRequests -> PicRequests] /\ v4 \in [PictureJobs -> PicJobs]
  /\ v5 \in [Portrayed -> PicOf]
  /\ v6 \subseteq Portrayed /\ v8 \subseteq Portrayed /\ v7 \subseteq Portrayed
  /\ v9 \in 0..PictureCrashes

PicZips ==
  /\ v1 # NoPicture => v1.zip \in v2 /\ Named(v1.zip)
  /\ \A q \in PictureRequests :
       /\ v3[q].st = "stored" => q \in v2
       /\ v3[q].st # "new" => v3[q].by \in PictureUsers
       /\ v3[q].old # NoPicture => Named(v3[q].old.zip)
       /\ v3[q].st = "saved" /\ v3[q].old # NoPicture => NotDraft(v3[q].old.zip)

PicJobInv ==
  /\ \A j \in PictureJobs :
       /\ v4[j].zip # NoPicture => Named(v4[j].zip)
       /\ v4[j].st \in Picture!Running => v4[j].zip # NoPicture
       /\ v4[j].st = "dropping" => NotDraft(v4[j].zip)
       /\ \A r \in v4[j].changed : Shows(r)
  /\ \A i, j \in PictureJobs : v4[i].st \in Picture!Running /\ v4[j].st \in Picture!Running => i = j

PicShown ==
  /\ \A r \in v7 \cup v8 : Shows(r)
  /\ \A r \in Portrayed : v5[r] # NoPicture => Named(v5[r][1])

PicOnce ==
  v9 = 0 =>
    /\ \A j \in PictureJobs, r \in Portrayed : v4[j].st = "reading" /\ v5[r] # NoPicture => v5[r][1] # v4[j].zip
    /\ v1 # NoPicture /\ (\A j \in PictureJobs : v4[j].st \notin {"applied", "clearing"}) =>
         \A r \in Portrayed : v5[r] # NoPicture => v5[r][1] # v1.zip
    /\ \A r, s \in Portrayed : v5[r] # NoPicture /\ v5[r] = v5[s] => r = s

PicInv == PicTypes /\ PicZips /\ PicJobInv /\ PicShown /\ PicOnce

LEMMA PicBounds ==
  /\ NoKey \notin MatchKeys /\ PictureCrashes \in Nat
  /\ NoPicture \notin PictureRequests /\ NoPicture \notin PictureRequests \X MatchKeys
  /\ \A d \in Picture!Drafts : d # NoPicture => d.zip \in PictureRequests /\ d.by \in PictureUsers
  /\ \A z \in PictureRequests, u \in PictureUsers :
       [zip |-> z, by |-> u] \in Picture!Drafts \ {NoPicture}
  /\ NoPicture \in Picture!Drafts
  /\ MatchKeyOf \in [Portrayed -> MatchKeys \cup {NoKey}]
BY BoundsAssumption DEF Picture!PictureAssumption, Picture!Drafts

LEMMA PicRows ==
  ASSUME PicTypes
  PROVE  /\ \A q \in PictureRequests :
              /\ v3[q] \in PicRequests /\ v3[q].st \in {"new", "open", "stored", "saved", "done"}
              /\ v3[q].by \in PictureUsers \cup {NoPicture} /\ v3[q].old \in Picture!Drafts
              /\ v3[q].old # NoPicture => v3[q].old.zip \in PictureRequests
         /\ \A j \in PictureJobs :
              /\ v4[j] \in PicJobs /\ v4[j].st \in {"none", "queued", "done"} \cup Picture!Running
              /\ v4[j].confirmed \in PictureRequests \cup {NoPicture}
              /\ v4[j].zip \in PictureRequests \cup {NoPicture}
              /\ v4[j].changed \subseteq Portrayed /\ v4[j].res \in Picture!Results
         /\ v1 # NoPicture => v1.zip \in PictureRequests
         /\ \A r \in Portrayed : v5[r] # NoPicture => v5[r][1] \in PictureRequests
<1>1. \A q \in PictureRequests : v3[q] \in PicRequests
  BY DEF PicTypes
<1>2. \A j \in PictureJobs : v4[j] \in PicJobs
  BY DEF PicTypes
<1>3. \A r \in Portrayed : v5[r] \in PicOf
  BY DEF PicTypes
<1>4. \A e \in PicRequests : e.st \in {"new", "open", "stored", "saved", "done"}
        /\ e.by \in PictureUsers \cup {NoPicture} /\ e.old \in Picture!Drafts
  BY DEF PicRequests
<1>5. \A e \in PicJobs : e.st \in {"none", "queued", "done"} \cup Picture!Running
        /\ e.confirmed \in PictureRequests \cup {NoPicture} /\ e.zip \in PictureRequests \cup {NoPicture}
        /\ e.changed \subseteq Portrayed /\ e.res \in Picture!Results
  BY DEF PicJobs
<1>6. \A p \in PicOf : p # NoPicture => p[1] \in PictureRequests
  BY DEF PicOf
<1>7. v1 # NoPicture => v1.zip \in PictureRequests
  BY PicBounds DEF PicTypes
<1>8. \A q \in PictureRequests : v3[q].old # NoPicture => v3[q].old.zip \in PictureRequests
  BY <1>1, <1>4, PicBounds
<1>9. QED
  BY <1>1, <1>2, <1>3, <1>4, <1>5, <1>6, <1>7, <1>8

LEMMA PicBegins == Picture!Init => PicInv
<1> SUFFICES ASSUME Picture!Init PROVE PicInv
  OBVIOUS
<1> DEFINE e == [st |-> "new", by |-> NoPicture, old |-> NoPicture]
           f == [st |-> "none", confirmed |-> NoPicture, zip |-> NoPicture, changed |-> {}, res |-> "success"]
<1>1. e \in PicRequests /\ e.st = "new" /\ e.old = NoPicture
  BY PicBounds DEF PicRequests
<1>2. f \in PicJobs /\ f.st = "none" /\ f.zip = NoPicture /\ f.changed = {}
  BY DEF PicJobs, Picture!Results
<1>3. v3 = [q \in PictureRequests |-> e] /\ v4 = [j \in PictureJobs |-> f]
  BY DEF Picture!Init
<1>4. /\ v1 = NoPicture /\ v2 = {} /\ v9 = 0 /\ v6 = {} /\ v7 = {} /\ v8 = {}
      /\ v5 = [r \in Portrayed |-> NoPicture]
  BY DEF Picture!Init
<1> HIDE DEF e, f
<1>5. PicTypes
  BY <1>1, <1>2, <1>3, <1>4, PicBounds DEF PicTypes, PicOf
<1>6. PicZips /\ PicJobInv
  BY <1>1, <1>2, <1>3, <1>4 DEF PicZips, PicJobInv, Picture!Running
<1>7. PicShown /\ PicOnce
  BY <1>4 DEF PicShown, PicOnce
<1>8. QED
  BY <1>5, <1>6, <1>7 DEF PicInv

\* A request goes on; what was named is so for good.
LEMMA PicRequestMoves ==
  ASSUME PicInv, NEW q \in PictureRequests, NEW e \in PicRequests, v3' = [v3 EXCEPT ![q] = e],
         v3[q].st \in {"saved", "done"} => e.st \in {"saved", "done"}
  PROVE  /\ v3' \in [PictureRequests -> PicRequests] /\ v3'[q] = e
         /\ \A p \in PictureRequests : p # q => v3'[p] = v3[p]
         /\ \A z \in PictureRequests : Named(z) => Named(z)'
BY DEF PicInv, PicTypes, Named

\* The pictures stay, and so do the jobs, or one is queued.
LEMMA PicRest ==
  ASSUME PicInv, UNCHANGED <<v5, v6, v7, v8, v9>>,
         \A z \in PictureRequests : Named(z) => Named(z)',
         \A z \in PictureRequests : Named(z) /\ NotDraft(z) => NotDraft(z)',
         v1' = v1 \/ v1' = NoPicture \/ (~Named(v1'.zip) /\ v1' # NoPicture),
         v4' = v4 \/ \E j \in PictureJobs, z \in PictureRequests :
                       /\ v4[j].st = "none"
                       /\ v4' = [v4 EXCEPT ![j].st = "queued", ![j].confirmed = z]
  PROVE  v4' \in [PictureJobs -> PicJobs] /\ PicJobInv' /\ PicShown' /\ PicOnce'
<1> DEFINE Jobs4 == /\ v4' \in [PictureJobs -> PicJobs]
                    /\ \A j \in PictureJobs : v4'[j].zip = v4[j].zip /\ v4'[j].changed = v4[j].changed
                         /\ (v4'[j].st = v4[j].st \/ (v4[j].st = "none" /\ v4'[j].st = "queued"))
<1>1. Jobs4
  <2>1. CASE v4' = v4
    BY <2>1 DEF PicInv, PicTypes
  <2>2. ASSUME NEW j \in PictureJobs, NEW z \in PictureRequests, v4[j].st = "none",
               v4' = [v4 EXCEPT ![j].st = "queued", ![j].confirmed = z]
        PROVE  Jobs4
    <3> DEFINE e == [v4[j] EXCEPT !.st = "queued", !.confirmed = z]
    <3>1. v4[j] \in PicJobs
      BY DEF PicInv, PicTypes
    <3>2. e \in PicJobs /\ e.zip = v4[j].zip /\ e.changed = v4[j].changed /\ e.st = "queued"
      BY <3>1 DEF PicJobs
    <3>3. v4' = [v4 EXCEPT ![j] = e]
      BY <2>2 DEF PicInv, PicTypes
    <3> HIDE DEF e
    <3>4. v4' \in [PictureJobs -> PicJobs] /\ \A i \in PictureJobs : v4'[i] = IF i = j THEN e ELSE v4[i]
      BY <3>2, <3>3 DEF PicInv, PicTypes
    <3>5. QED
      BY <2>2, <3>2, <3>4
  <2>3. QED
    BY <2>1, <2>2
<1>2. \A j \in PictureJobs : v4'[j].st \in Picture!Running <=> v4[j].st \in Picture!Running
  BY <1>1 DEF Picture!Running
<1>3. \A r : Shows(r) => Shows(r)'
  BY DEF Shows
<1>4. PicJobInv'
  <2>1. ASSUME NEW j \in PictureJobs, NEW z, z = v4[j].zip
        PROVE  /\ z # NoPicture => Named(z)'
               /\ v4[j].st = "dropping" => NotDraft(z)'
    <3>1. z \in PictureRequests \cup {NoPicture} /\ (z # NoPicture => Named(z))
      BY <2>1, PicRows DEF PicInv, PicJobInv
    <3>2. v4[j].st = "dropping" => z # NoPicture /\ NotDraft(z)
      BY <2>1 DEF PicInv, PicJobInv, Picture!Running
    <3>3. QED
      BY <3>1, <3>2
  <2>2. QED
    BY <1>1, <1>2, <1>3, <2>1 DEF PicInv, PicJobInv, Named, NotDraft
<1>5. PicShown'
  <2>1. \A r \in Portrayed : v5[r] # NoPicture => Named(v5[r][1])'
    BY PicRows DEF PicInv, PicShown
  <2>2. \A r \in v7 \cup v8 : Shows(r)'
    BY <1>3 DEF PicInv, PicShown
  <2>3. QED
    BY <2>1, <2>2 DEF PicShown, Shows, Named
<1>6. ASSUME v9 = 0, NEW r \in Portrayed, v1' # NoPicture, v5[r] # NoPicture,
             \A j \in PictureJobs : v4'[j].st \notin {"applied", "clearing"}
      PROVE  v5[r][1] # v1'.zip
  <2>1. \A j \in PictureJobs : v4[j].st \notin {"applied", "clearing"}
    BY <1>1, <1>6
  <2>2. Named(v5[r][1])
    BY <1>6 DEF PicInv, PicShown
  <2>3. QED
    BY <1>6, <2>1, <2>2 DEF PicInv, PicOnce
<1>7. PicOnce'
  BY <1>1, <1>6 DEF PicInv, PicOnce
<1>8. QED
  BY <1>1, <1>4, <1>5, <1>7

LEMMA PicOpen ==
  ASSUME PicInv, NEW q \in PictureRequests, NEW u \in PictureUsers, Picture!Open(q, u)
  PROVE  PicInv'
<1> DEFINE e == [st |-> "open", by |-> u, old |-> v1]
<1>1. v3[q].st = "new" /\ v3' = [v3 EXCEPT ![q] = e] /\ UNCHANGED <<v1, v2, v4, v5, v6, v7, v8, v9>>
  BY DEF Picture!Open
<1>2. e \in PicRequests /\ e.st = "open" /\ e.by = u /\ e.old = v1
  BY DEF PicRequests, PicInv, PicTypes
<1> HIDE DEF e
<1>3. /\ v3' \in [PictureRequests -> PicRequests] /\ v3'[q] = e
      /\ \A p \in PictureRequests : p # q => v3'[p] = v3[p]
      /\ \A z \in PictureRequests : Named(z) => Named(z)'
  BY <1>1, <1>2, PicRequestMoves
<1>4. PicTypes'
  BY <1>1, <1>3 DEF PicInv, PicTypes
<1>5. v1 # NoPicture => v1.zip \in PictureRequests /\ Named(v1.zip)
  BY PicRows DEF PicInv, PicZips
<1>6. PicZips'
  BY <1>1, <1>2, <1>3, <1>5, PicRows DEF PicInv, PicZips, Named, NotDraft
<1>7. QED
  BY <1>1, <1>3, <1>4, <1>6, PicRest DEF PicInv, NotDraft

LEMMA PicStore ==
  ASSUME PicInv, NEW q \in PictureRequests, Picture!Store(q) \/ Picture!Refuse(q)
  PROVE  PicInv'
<1> DEFINE e == [v3[q] EXCEPT !.st = IF v3[q].st = "open" THEN "stored" ELSE "done"]
<1>1. /\ v3[q].st \in {"open", "stored"} /\ v3' = [v3 EXCEPT ![q] = e]
      /\ v2' = IF v3[q].st = "open" THEN v2 \cup {q} ELSE v2 \ {q}
      /\ UNCHANGED <<v1, v4, v5, v6, v7, v8, v9>>
  BY DEF Picture!Store, Picture!Refuse
<1>2. v3[q] \in PicRequests
  BY PicRows DEF PicInv
<1>3. e \in PicRequests /\ e.st = (IF v3[q].st = "open" THEN "stored" ELSE "done")
      /\ e.old = v3[q].old /\ e.by = v3[q].by
  BY <1>2 DEF PicRequests
<1> HIDE DEF e
<1>4. /\ v3' \in [PictureRequests -> PicRequests] /\ v3'[q] = e
      /\ \A p \in PictureRequests : p # q => v3'[p] = v3[p]
      /\ \A z \in PictureRequests : Named(z) => Named(z)'
  BY <1>1, <1>3, PicRequestMoves
<1>5. PicTypes'
  BY <1>1, <1>4 DEF PicInv, PicTypes
<1>6. \A p \in PictureRequests : v3'[p].old = v3[p].old
  BY <1>3, <1>4
<1>7. ~Named(q)
  BY <1>1 DEF Named
<1>8. v1 # NoPicture => v1.zip \in v2' /\ Named(v1.zip)'
  BY <1>1, <1>4, <1>7, PicRows DEF PicInv, PicZips
<1>9. \A p \in PictureRequests : (v3'[p].st = "stored" => p \in v2')
        /\ (v3'[p].st # "new" => v3'[p].by \in PictureUsers)
  BY <1>1, <1>3, <1>4 DEF PicInv, PicZips
<1>10. \A p \in PictureRequests : v3'[p].st = "saved" => v3[p].st = "saved"
  BY <1>1, <1>3, <1>4
<1>11. \A p \in PictureRequests : v3[p].old # NoPicture => Named(v3[p].old.zip)'
  <2> TAKE p \in PictureRequests
  <2> HAVE v3[p].old # NoPicture
  <2>1. v3[p].old.zip \in PictureRequests /\ Named(v3[p].old.zip)
    BY PicRows DEF PicInv, PicZips
  <2> DEFINE z == v3[p].old.zip
  <2>2. z = v3'[p].old.zip
    BY <1>6
  <2>3. \A y \in PictureRequests : y = z => Named(y)'
    BY <1>4, <2>1
  <2>4. QED
    BY <2>1, <2>2, <2>3 DEF Named
<1>12. PicZips'
  BY <1>1, <1>6, <1>8, <1>9, <1>10, <1>11 DEF PicInv, PicZips, Named, NotDraft
<1>13. QED
  BY <1>1, <1>4, <1>5, <1>12, PicRest DEF PicInv, NotDraft

LEMMA PicSave ==
  ASSUME PicInv, NEW q \in PictureRequests, Picture!Save(q)
  PROVE  PicInv'
<1> DEFINE e == [v3[q] EXCEPT !.st = "saved"]
           d == [zip |-> q, by |-> v3[q].by]
<1>1. /\ v3[q].st = "stored" /\ v3' = [v3 EXCEPT ![q] = e] /\ v1' = d
      /\ UNCHANGED <<v2, v4, v5, v6, v7, v8, v9>>
  BY DEF Picture!Save
<1>2. v3[q] \in PicRequests
  BY PicRows DEF PicInv
<1>3. e \in PicRequests /\ e.st = "saved" /\ e.old = v3[q].old /\ e.by = v3[q].by
  BY <1>2 DEF PicRequests
<1>4. d \in Picture!Drafts \ {NoPicture} /\ d.zip = q
  BY <1>1, PicBounds DEF PicInv, PicZips
<1> HIDE DEF e, d
<1>5. /\ v3' \in [PictureRequests -> PicRequests] /\ v3'[q] = e
      /\ \A p \in PictureRequests : p # q => v3'[p] = v3[p]
      /\ \A z \in PictureRequests : Named(z) => Named(z)'
  BY <1>1, <1>3, PicRequestMoves
<1>6. PicTypes'
  BY <1>1, <1>4, <1>5 DEF PicInv, PicTypes
<1>7. ~Named(q) /\ v1' # NoPicture /\ v1'.zip = q
  BY <1>1, <1>4 DEF Named
<1>8. \A z \in PictureRequests : Named(z) => NotDraft(z)'
  BY <1>7 DEF NotDraft
<1>9. \A p \in PictureRequests : v3'[p].old = v3[p].old
  BY <1>3, <1>5
<1>10. \A p \in PictureRequests : v3[p].old # NoPicture =>
         \A z : z = v3[p].old.zip => Named(z)' /\ NotDraft(z)'
  BY <1>5, <1>8, PicRows DEF PicInv, PicZips
<1>11. \A p \in PictureRequests : (v3'[p].st = "stored" => p \in v2')
         /\ (v3'[p].st # "new" => v3'[p].by \in PictureUsers)
  BY <1>1, <1>3, <1>5 DEF PicInv, PicZips
<1>12. v1' # NoPicture => v1'.zip \in v2' /\ Named(q)'
  BY <1>1, <1>3, <1>5, <1>7 DEF PicInv, PicZips, Named
<1>13. PicZips'
  BY <1>7, <1>9, <1>10, <1>11, <1>12 DEF PicZips, Named, NotDraft
<1>14. QED
  BY <1>1, <1>5, <1>6, <1>7, <1>8, <1>13, PicRest DEF PicInv

LEMMA PicDropOld ==
  ASSUME PicInv, NEW q \in PictureRequests, Picture!DropOld(q)
  PROVE  PicInv'
<1> DEFINE e == [v3[q] EXCEPT !.st = "done", !.old = NoPicture]
<1>1. /\ v3[q].st = "saved" /\ v3' = [v3 EXCEPT ![q] = e]
      /\ v2' = IF v3[q].old = NoPicture THEN v2 ELSE v2 \ {v3[q].old.zip}
      /\ UNCHANGED <<v1, v4, v5, v6, v7, v8, v9>>
  BY DEF Picture!DropOld
<1>2. v3[q] \in PicRequests
  BY PicRows DEF PicInv
<1>3. e \in PicRequests /\ e.st = "done" /\ e.old = NoPicture /\ e.by = v3[q].by
  BY <1>2, PicBounds DEF PicRequests
<1> HIDE DEF e
<1>4. /\ v3' \in [PictureRequests -> PicRequests] /\ v3'[q] = e
      /\ \A p \in PictureRequests : p # q => v3'[p] = v3[p]
      /\ \A z \in PictureRequests : Named(z) => Named(z)'
  BY <1>1, <1>3, PicRequestMoves
<1>5. PicTypes'
  BY <1>1, <1>4 DEF PicInv, PicTypes
<1>6. v1 # NoPicture => v1.zip \in v2' /\ v1.zip \in PictureRequests /\ Named(v1.zip)
  BY <1>1, PicRows DEF PicInv, PicZips, NotDraft
<1>7. \A p \in PictureRequests : (v3'[p].st = "stored" => p \in v2')
         /\ (v3'[p].st # "new" => v3'[p].by \in PictureUsers)
  BY <1>1, <1>3, <1>4 DEF PicInv, PicZips, Named
<1>8. \A p \in PictureRequests : v3'[p].old # NoPicture =>
        \A z : z = v3'[p].old.zip => Named(z)' /\ (v3'[p].st = "saved" => NotDraft(z)')
  BY <1>1, <1>3, <1>4, PicRows DEF PicInv, PicZips, NotDraft
<1>9. v1' # NoPicture => v1'.zip \in v2' /\ \A z : z = v1'.zip => Named(z)'
  BY <1>1, <1>4, <1>6
<1>10. PicZips'
  BY <1>7, <1>8, <1>9 DEF PicZips, Named, NotDraft
<1>11. QED
  BY <1>1, <1>4, <1>5, <1>10, PicRest DEF PicInv, NotDraft

LEMMA PicConfirm ==
  ASSUME PicInv, NEW q \in PictureRequests, Picture!Confirm(q)
  PROVE  PicInv'
<1> DEFINE e == [v3[q] EXCEPT !.st = "done", !.old = NoPicture]
<1>1. /\ v3[q].st = "open" /\ v3' = [v3 EXCEPT ![q] = e] /\ UNCHANGED <<v2, v5, v6, v7, v8, v9>>
      /\ v1' = v1 \/ v1' = NoPicture
  BY DEF Picture!Confirm
<1>2. v4' = v4 \/ \E j \in PictureJobs, z \in PictureRequests :
                    /\ v4[j].st = "none"
                    /\ v4' = [v4 EXCEPT ![j].st = "queued", ![j].confirmed = z]
  <2>1. CASE v4' = v4
    BY <2>1
  <2>2. CASE v4' # v4
    <3>1. v3[q].old # NoPicture
          /\ \E j \in PictureJobs : v4[j].st = "none"
               /\ v4' = [v4 EXCEPT ![j].st = "queued", ![j].confirmed = v3[q].old.zip]
      BY <2>2 DEF Picture!Confirm
    <3>2. v3[q].old.zip \in PictureRequests
      BY <3>1, PicRows DEF PicInv
    <3>3. QED
      BY <3>1, <3>2
  <2>3. QED
    BY <2>1, <2>2
<1>3. v3[q] \in PicRequests
  BY PicRows DEF PicInv
<1>4. e \in PicRequests /\ e.st = "done" /\ e.old = NoPicture /\ e.by = v3[q].by
  BY <1>3, PicBounds DEF PicRequests
<1> HIDE DEF e
<1>5. /\ v3' \in [PictureRequests -> PicRequests] /\ v3'[q] = e
      /\ \A p \in PictureRequests : p # q => v3'[p] = v3[p]
      /\ \A z \in PictureRequests : Named(z) => Named(z)'
  BY <1>1, <1>4, PicRequestMoves
<1>6. \A z \in PictureRequests : NotDraft(z) => NotDraft(z)'
  BY <1>1 DEF NotDraft
<1>7. v4' \in [PictureJobs -> PicJobs] /\ PicJobInv' /\ PicShown' /\ PicOnce'
  BY <1>1, <1>2, <1>5, <1>6, PicRest
<1>8. PicTypes'
  BY <1>1, <1>5, <1>7, PicBounds DEF PicInv, PicTypes
<1>9. \A p \in PictureRequests : (v3'[p].st = "stored" => p \in v2')
         /\ (v3'[p].st # "new" => v3'[p].by \in PictureUsers)
  BY <1>1, <1>4, <1>5, PicRows DEF PicInv, PicZips
<1>10. \A p \in PictureRequests : v3'[p].old # NoPicture =>
        \A z : z = v3'[p].old.zip => Named(z)' /\ (v3'[p].st = "saved" => NotDraft(z)')
  BY <1>1, <1>4, <1>5, <1>6, PicRows DEF PicInv, PicZips
<1>11. v1' # NoPicture => v1'.zip \in v2' /\ \A z : z = v1'.zip => Named(z)'
  BY <1>1, <1>5, PicRows DEF PicInv, PicZips
<1>12. PicZips'
  BY <1>9, <1>10, <1>11 DEF PicZips, Named, NotDraft
<1>13. QED
  BY <1>7, <1>8, <1>12 DEF PicInv

\* A job goes on: what it may say of itself, and what has to hold for the others.
LEMMA PicJobMoves ==
  ASSUME PicInv, NEW j \in PictureJobs, NEW e \in PicJobs, v4' = [v4 EXCEPT ![j] = e], v3' = v3,
         e.st \in Picture!Running => \A i \in PictureJobs : i # j => v4[i].st \notin Picture!Running,
         e.st \in Picture!Running => e.zip # NoPicture,
         e.zip # NoPicture => Named(e.zip),
         e.st = "dropping" => v1' = NoPicture \/ v1'.zip # e.zip,
         v1' \in {v1, NoPicture},
         \A r \in e.changed : Shows(r)', \A r \in Portrayed : Shows(r) => Shows(r)'
  PROVE  /\ v4' \in [PictureJobs -> PicJobs] /\ v4'[j] = e
         /\ \A i \in PictureJobs : i # j => v4'[i] = v4[i]
         /\ PicJobInv'
<1>1. /\ v4' \in [PictureJobs -> PicJobs] /\ v4'[j] = e
      /\ \A i \in PictureJobs : i # j => v4'[i] = v4[i]
  BY DEF PicInv, PicTypes
<1>2. ASSUME NEW i \in PictureJobs
      PROVE  /\ v4'[i].zip # NoPicture => v3'[v4'[i].zip].st \in {"saved", "done"}
             /\ v4'[i].st \in Picture!Running => v4'[i].zip # NoPicture
             /\ v4'[i].st = "dropping" => v1' = NoPicture \/ v1'.zip # v4'[i].zip
             /\ \A r \in v4'[i].changed : Shows(r)'
  <2>1. CASE i = j
    BY <1>1, <2>1 DEF Named
  <2>2. CASE i # j
    <3>1. \A r \in v4[i].changed : r \in Portrayed /\ Shows(r)
      BY PicRows DEF PicInv, PicJobInv
    <3>2. v4'[i] = v4[i]
      BY <1>1, <2>2
    <3>3. QED
      BY <3>1, <3>2 DEF PicInv, PicJobInv, Named, NotDraft
  <2>3. QED
    BY <2>1, <2>2
<1>3. \A i, k \in PictureJobs : v4'[i].st \in Picture!Running /\ v4'[k].st \in Picture!Running => i = k
  BY <1>1 DEF PicInv, PicJobInv
<1>4. QED
  BY <1>1, <1>2, <1>3 DEF PicJobInv, Named, NotDraft

LEMMA PicBegin ==
  ASSUME PicInv, NEW j \in PictureJobs, Picture!Begin(j)
  PROVE  PicInv'
<1> DEFINE e == IF v1 = NoPicture THEN [v4[j] EXCEPT !.st = "done", !.res = "failure"]
                                  ELSE [v4[j] EXCEPT !.st = "reading", !.zip = v1.zip]
<1>1. /\ v4[j].st = "queued" /\ v4' = [v4 EXCEPT ![j] = e]
      /\ \A i \in PictureJobs : v4[i].st \notin Picture!Running
      /\ UNCHANGED <<v1, v2, v3, v5, v6, v7, v8, v9>>
  BY DEF Picture!Begin
<1>2. v4[j] \in PicJobs
  BY PicRows DEF PicInv
<1>3. /\ e \in PicJobs /\ e.changed = v4[j].changed
      /\ IF v1 = NoPicture THEN e.st = "done" /\ e.zip = v4[j].zip ELSE e.st = "reading" /\ e.zip = v1.zip
  BY <1>2, PicRows DEF PicJobs, PicInv, Picture!Running, Picture!Results
<1> HIDE DEF e
<1>4. \A r : Shows(r) => Shows(r)'
  BY <1>1 DEF Shows
<1>5. (e.zip # NoPicture => Named(e.zip)) /\ (e.st \in Picture!Running => e.zip # NoPicture)
  BY <1>3, PicRows, PicBounds DEF PicInv, PicZips, PicJobInv, Picture!Running
<1>6. (\A r \in e.changed : Shows(r)') /\ e.st # "dropping"
  BY <1>3, <1>4 DEF PicInv, PicJobInv
<1>7. /\ v4' \in [PictureJobs -> PicJobs] /\ v4'[j] = e
      /\ \A i \in PictureJobs : i # j => v4'[i] = v4[i]
      /\ PicJobInv'
  BY <1>1, <1>3, <1>4, <1>5, <1>6, PicJobMoves
<1>8. PicTypes' /\ PicZips' /\ PicShown'
  BY <1>1, <1>7 DEF PicInv, PicTypes, PicZips, PicShown, Named, NotDraft, Shows
<1>9. ASSUME v9 = 0, NEW i \in PictureJobs, NEW r \in Portrayed, v4'[i].st = "reading", v5[r] # NoPicture
      PROVE  v5[r][1] # v4'[i].zip
  <2>1. i = j /\ v1 # NoPicture /\ v4'[i].zip = v1.zip
    BY <1>1, <1>3, <1>7, <1>9 DEF Picture!Running
  <2>2. \A k \in PictureJobs : v4[k].st \notin {"applied", "clearing"}
    BY <1>1 DEF Picture!Running
  <2>3. QED
    BY <1>9, <2>1, <2>2 DEF PicInv, PicOnce
<1>10. v9 = 0 /\ v1 # NoPicture => \A r \in Portrayed : v5[r] # NoPicture => v5[r][1] # v1.zip
  <2>1. \A k \in PictureJobs : v4[k].st \notin {"applied", "clearing"}
    BY <1>1 DEF Picture!Running
  <2>2. QED
    BY <2>1 DEF PicInv, PicOnce
<1>11. PicOnce'
  BY <1>1, <1>9, <1>10 DEF PicInv, PicOnce
<1>12. QED
  BY <1>7, <1>8, <1>11 DEF PicInv

\* A file goes to the one active record of its key.
LEMMA PicMatched ==
  ASSUME NEW z
  PROVE  /\ Picture!Matched(z) \subseteq Portrayed
         /\ \A r \in Picture!Matched(z) : MatchKeyOf[r] \in MatchKeys
         /\ \A r, s \in Picture!Matched(z) : MatchKeyOf[r] = MatchKeyOf[s] => r = s
BY PicBounds DEF Picture!Matched

LEMMA PicApply ==
  ASSUME PicInv, NEW j \in PictureJobs, Picture!Apply(j)
  PROVE  PicInv'
<1> DEFINE z == v4[j].zip
           new == [r \in Portrayed |-> IF r \in Picture!Matched(z) THEN <<z, MatchKeyOf[r]>> ELSE v5[r]]
           changed == {r \in Portrayed : new[r] # v5[r]}
           e == IF v5' = v5 /\ v7' = v7 /\ v4'[j].st = "clearing"
                  THEN [v4[j] EXCEPT !.st = "clearing", !.res = "failure"]
                  ELSE [v4[j] EXCEPT !.st = "applied", !.changed = changed]
<1>1. v4[j].st = "reading" /\ UNCHANGED <<v1, v2, v3, v6, v8, v9>>
  BY DEF Picture!Apply
<1>2. v4[j] \in PicJobs /\ z \in PictureRequests /\ Named(z)
  BY <1>1, PicRows DEF PicInv, PicJobInv, Picture!Running
<1>3. \A i \in PictureJobs : i # j => v4[i].st \notin Picture!Running
  BY <1>1 DEF PicInv, PicJobInv, Picture!Running
<1>4. \A r \in Portrayed : v5[r] # NoPicture => v5[r] \in PictureRequests \X MatchKeys
  BY DEF PicInv, PicTypes, PicOf
<1>5. ASSUME v5' = new, v7' = v7 \cup changed,
             v4' = [v4 EXCEPT ![j] = [v4[j] EXCEPT !.st = "applied", !.changed = changed]]
      PROVE  PicInv'
  <2> DEFINE f == [v4[j] EXCEPT !.st = "applied", !.changed = changed]
  <2>1. f \in PicJobs /\ f.st = "applied" /\ f.zip = z /\ f.changed = changed
    <3>1. changed \in SUBSET Portrayed
      OBVIOUS
    <3> HIDE DEF changed
    <3>2. QED
      BY <1>2, <3>1 DEF PicJobs, Picture!Running
  <2>2. \A r \in Picture!Matched(z) : <<z, MatchKeyOf[r]>> \in PictureRequests \X MatchKeys
    BY <1>2, PicMatched
  <2>3. \A r \in Portrayed : new[r] = IF r \in Picture!Matched(z) THEN <<z, MatchKeyOf[r]>> ELSE v5[r]
    OBVIOUS
  <2>4. \A r \in changed : r \in Portrayed /\ r \in Picture!Matched(z)
    BY <2>3
  <2>5. new \in [Portrayed -> PicOf] /\ changed \subseteq Portrayed
    BY <2>2 DEF PicInv, PicTypes, PicOf
  <2>6. v4' = [v4 EXCEPT ![j] = f]
    BY <1>5
  <2> HIDE DEF new, changed, f
  <2>7. \A r \in Portrayed : r \in Picture!Matched(z) => Shows(r)'
    <3> TAKE r \in Portrayed
    <3> HAVE r \in Picture!Matched(z)
    <3>1. v5'[r] = <<z, MatchKeyOf[r]>>
      BY <1>5, <2>3
    <3>2. v5'[r] # NoPicture
      BY <2>2, <3>1, PicBounds
    <3>3. <<z, MatchKeyOf[r]>>[2] = MatchKeyOf[r]
      OBVIOUS
    <3>4. QED
      BY <3>1, <3>2, <3>3 DEF Shows
  <2>8. \A r \in Portrayed : Shows(r) => Shows(r)'
    BY <1>5, <2>3, <2>7 DEF Shows
  <2>9. \A r \in f.changed : Shows(r)'
    BY <2>1, <2>4, <2>7
  <2>10. /\ v4' \in [PictureJobs -> PicJobs] /\ v4'[j] = f
         /\ \A i \in PictureJobs : i # j => v4'[i] = v4[i]
         /\ PicJobInv'
    BY <1>1, <1>2, <1>3, <2>1, <2>6, <2>8, <2>9, PicJobMoves, PicBounds
  <2>11. PicTypes'
    BY <1>1, <1>5, <2>5, <2>10 DEF PicInv, PicTypes
  <2>12. PicZips'
    BY <1>1 DEF PicInv, PicZips, Named, NotDraft
  <2>13. PicShown'
    <3>1. \A r \in v7' \cup v8' : Shows(r)'
      BY <1>1, <1>5, <2>4, <2>7, <2>8 DEF PicInv, PicTypes, PicShown
    <3>2. \A r \in Portrayed : v5'[r] # NoPicture => Named(v5'[r][1])
      <4> TAKE r \in Portrayed
      <4> HAVE v5'[r] # NoPicture
      <4>1. CASE r \in Picture!Matched(z)
        <5>1. v5'[r] = <<z, MatchKeyOf[r]>>
          BY <1>5, <2>3, <4>1
        <5>2. v5'[r][1] = z
          BY <5>1
        <5>3. QED
          BY <1>2, <5>2
      <4>2. CASE r \notin Picture!Matched(z)
        BY <1>5, <2>3, <4>2 DEF PicInv, PicShown
      <4>3. QED
        BY <4>1, <4>2
    <3>3. QED
      BY <1>1, <3>1, <3>2 DEF PicShown, Named, Shows
  <2>14. PicOnce'
    <3>1. \A i \in PictureJobs : v4'[i].st # "reading"
      BY <1>3, <2>1, <2>10 DEF Picture!Running
    <3>2. v4'[j].st = "applied"
      BY <2>1, <2>10
    <3>3. ASSUME v9 = 0, NEW r \in Portrayed, NEW s \in Portrayed, v5'[r] # NoPicture, v5'[r] = v5'[s]
          PROVE  r = s
      <4>1. \A t \in Portrayed : v5[t] # NoPicture => v5[t][1] # z
        BY <1>1, <3>3 DEF PicInv, PicOnce
      <4>2. CASE r \in Picture!Matched(z) /\ s \in Picture!Matched(z)
        <5>1. v5'[r] = <<z, MatchKeyOf[r]>> /\ v5'[s] = <<z, MatchKeyOf[s]>>
          BY <1>5, <2>3, <4>2
        <5>2. <<z, MatchKeyOf[r]>> = <<z, MatchKeyOf[s]>>
          BY <3>3, <5>1 DEF PicInv
        <5> HIDE DEF z
        <5>3. MatchKeyOf[r] = MatchKeyOf[s]
          BY <5>2
        <5>4. QED
          BY <4>2, <5>3, PicMatched
      <4>3. CASE r \notin Picture!Matched(z) /\ s \notin Picture!Matched(z)
        BY <1>5, <2>3, <3>3, <4>3 DEF PicInv, PicOnce
      <4>4. CASE r \in Picture!Matched(z) /\ s \notin Picture!Matched(z)
        <5>1. v5'[r] = <<z, MatchKeyOf[r]>> /\ v5[s] = v5'[r]
          BY <1>5, <2>3, <3>3, <4>4
        <5>2. v5[s] # NoPicture /\ v5[s][1] = z
          BY <3>3, <5>1
        <5>3. QED
          BY <4>1, <5>2
      <4>5. CASE r \notin Picture!Matched(z) /\ s \in Picture!Matched(z)
        <5>1. v5'[s] = <<z, MatchKeyOf[s]>> /\ v5[r] = v5'[s]
          BY <1>5, <2>3, <3>3, <4>5
        <5>2. v5[r] # NoPicture /\ v5[r][1] = z
          BY <3>3, <5>1
        <5>3. QED
          BY <4>1, <5>2
      <4>6. QED
        BY <4>2, <4>3, <4>4, <4>5
    <3>4. QED
      BY <1>1, <3>1, <3>2, <3>3 DEF PicOnce
  <2>15. QED
    BY <2>10, <2>11, <2>12, <2>13, <2>14 DEF PicInv
<1>6. ASSUME v5' = v5, v7' = v7, v4' = [v4 EXCEPT ![j] = [v4[j] EXCEPT !.st = "clearing", !.res = "failure"]]
      PROVE  PicInv'
  <2> DEFINE f == [v4[j] EXCEPT !.st = "clearing", !.res = "failure"]
  <2>1. f \in PicJobs /\ f.st = "clearing" /\ f.zip = z /\ f.changed = v4[j].changed
    BY <1>2 DEF PicJobs, Picture!Running, Picture!Results
  <2>2. v4' = [v4 EXCEPT ![j] = f]
    BY <1>6
  <2> HIDE DEF f
  <2>3. \A r : Shows(r) => Shows(r)'
    BY <1>6 DEF Shows
  <2>4. \A r \in f.changed : Shows(r)'
    BY <2>1, <2>3 DEF PicInv, PicJobInv
  <2>5. /\ v4' \in [PictureJobs -> PicJobs] /\ v4'[j] = f
        /\ \A i \in PictureJobs : i # j => v4'[i] = v4[i]
        /\ PicJobInv'
    BY <1>1, <1>2, <1>3, <2>1, <2>2, <2>3, <2>4, PicJobMoves, PicBounds
  <2>6. PicTypes' /\ PicZips' /\ PicShown'
    BY <1>1, <1>6, <2>5 DEF PicInv, PicTypes, PicZips, PicShown, Named, NotDraft, Shows
  <2>7. PicOnce'
    BY <1>1, <1>6, <2>1, <2>5 DEF PicInv, PicOnce
  <2>8. QED
    BY <2>5, <2>6, <2>7 DEF PicInv
<1>7. QED
  BY <1>5, <1>6 DEF Picture!Apply

LEMMA PicSchedule ==
  ASSUME PicInv, NEW j \in PictureJobs, Picture!Schedule(j)
  PROVE  PicInv'
<1>1. PICK ok \in BOOLEAN :
        /\ v8' = IF ok THEN v8 \cup v4[j].changed ELSE v8
        /\ v4' = [v4 EXCEPT ![j] = [v4[j] EXCEPT !.st = "clearing", !.res = IF ok THEN v4[j].res ELSE "unscheduled"]]
  BY DEF Picture!Schedule
<1> DEFINE e == [v4[j] EXCEPT !.st = "clearing", !.res = IF ok THEN v4[j].res ELSE "unscheduled"]
<1>2. v4[j].st = "applied" /\ UNCHANGED <<v1, v2, v3, v5, v6, v7, v9>> /\ v4' = [v4 EXCEPT ![j] = e]
  BY <1>1 DEF Picture!Schedule
<1>3. v4[j] \in PicJobs /\ v4[j].zip # NoPicture /\ Named(v4[j].zip) /\ v4[j].changed \subseteq Portrayed
  BY <1>2, PicRows DEF PicInv, PicJobInv, Picture!Running
<1>4. e \in PicJobs /\ e.st = "clearing" /\ e.zip = v4[j].zip /\ e.changed = v4[j].changed
  BY <1>3 DEF PicJobs, Picture!Running, Picture!Results
<1> HIDE DEF e
<1>5. \A r : Shows(r) => Shows(r)'
  BY <1>2 DEF Shows
<1>6. \A r \in v4[j].changed : Shows(r)
  BY DEF PicInv, PicJobInv
<1>7. \A i \in PictureJobs : i # j => v4[i].st \notin Picture!Running
  BY <1>2 DEF PicInv, PicJobInv, Picture!Running
<1>8. /\ v4' \in [PictureJobs -> PicJobs] /\ v4'[j] = e
      /\ \A i \in PictureJobs : i # j => v4'[i] = v4[i]
      /\ PicJobInv'
  BY <1>2, <1>3, <1>4, <1>5, <1>6, <1>7, PicJobMoves
<1>9. v8' \subseteq Portrayed /\ \A r \in v8' : Shows(r)
  BY <1>1, <1>3, <1>6 DEF PicInv, PicTypes, PicShown
<1>10. PicTypes' /\ PicZips' /\ PicShown'
  BY <1>2, <1>5, <1>8, <1>9 DEF PicInv, PicTypes, PicZips, PicShown, Named, NotDraft, Shows
<1>11. PicOnce'
  BY <1>2, <1>4, <1>8 DEF PicInv, PicOnce
<1>12. QED
  BY <1>8, <1>10, <1>11 DEF PicInv

LEMMA PicClear ==
  ASSUME PicInv, NEW j \in PictureJobs, Picture!Clear(j)
  PROVE  PicInv'
<1> DEFINE e == [v4[j] EXCEPT !.st = "dropping"]
<1>1. v4[j].st = "clearing" /\ v1' = NoPicture /\ UNCHANGED <<v2, v3, v5, v6, v7, v8, v9>>
      /\ v4' = [v4 EXCEPT ![j] = e]
  BY DEF Picture!Clear
<1>2. v4[j] \in PicJobs /\ v4[j].zip # NoPicture /\ Named(v4[j].zip)
  BY <1>1, PicRows DEF PicInv, PicJobInv, Picture!Running
<1>3. e \in PicJobs /\ e.st = "dropping" /\ e.zip = v4[j].zip /\ e.changed = v4[j].changed
  BY <1>2 DEF PicJobs, Picture!Running
<1> HIDE DEF e
<1>4. \A r : Shows(r) => Shows(r)'
  BY <1>1 DEF Shows
<1>5. \A r \in e.changed : Shows(r)'
  BY <1>3, <1>4 DEF PicInv, PicJobInv
<1>6. \A i \in PictureJobs : i # j => v4[i].st \notin Picture!Running
  BY <1>1 DEF PicInv, PicJobInv, Picture!Running
<1>7. /\ v4' \in [PictureJobs -> PicJobs] /\ v4'[j] = e
      /\ \A i \in PictureJobs : i # j => v4'[i] = v4[i]
      /\ PicJobInv'
  BY <1>1, <1>2, <1>3, <1>4, <1>5, <1>6, PicJobMoves
<1>8. PicTypes' /\ PicZips' /\ PicShown'
  BY <1>1, <1>7, PicBounds DEF PicInv, PicTypes, PicZips, PicShown, Named, NotDraft, Shows
<1>9. PicOnce'
  BY <1>1, <1>3, <1>7 DEF PicInv, PicOnce
<1>10. QED
  BY <1>7, <1>8, <1>9 DEF PicInv

LEMMA PicDrop ==
  ASSUME PicInv, NEW j \in PictureJobs, Picture!Drop(j)
  PROVE  PicInv'
<1> DEFINE e == [v4[j] EXCEPT !.st = "done", !.changed = {}]
<1>1. v4[j].st = "dropping" /\ v2' = v2 \ {v4[j].zip} /\ UNCHANGED <<v1, v3, v5, v6, v7, v8, v9>>
      /\ v4' = [v4 EXCEPT ![j] = e]
  BY DEF Picture!Drop
<1>2. v4[j] \in PicJobs /\ v4[j].zip # NoPicture /\ Named(v4[j].zip) /\ NotDraft(v4[j].zip)
  BY <1>1, PicRows DEF PicInv, PicJobInv, Picture!Running
<1>3. e \in PicJobs /\ e.st = "done" /\ e.zip = v4[j].zip /\ e.changed = {}
  BY <1>2 DEF PicJobs
<1> HIDE DEF e
<1>4. \A r : Shows(r) => Shows(r)'
  BY <1>1 DEF Shows
<1>5. /\ v4' \in [PictureJobs -> PicJobs] /\ v4'[j] = e
      /\ \A i \in PictureJobs : i # j => v4'[i] = v4[i]
      /\ PicJobInv'
  BY <1>1, <1>2, <1>3, <1>4, PicJobMoves DEF Picture!Running
<1>6. PicTypes' /\ PicShown'
  BY <1>1, <1>5 DEF PicInv, PicTypes, PicShown, Named, Shows
<1>7. v1 # NoPicture => v1.zip \in v2'
  BY <1>1, <1>2 DEF PicInv, PicZips, NotDraft
<1>8. \A q \in PictureRequests : v3[q].st = "stored" => q \in v2'
  BY <1>1, <1>2 DEF PicInv, PicZips, Named
<1>9. PicZips'
  BY <1>1, <1>7, <1>8 DEF PicInv, PicZips, Named, NotDraft
<1>10. PicOnce'
  <2>1. \A i \in PictureJobs : v4'[i].st \in {"applied", "clearing", "reading"} <=> v4[i].st \in {"applied", "clearing", "reading"}
    BY <1>1, <1>3, <1>5
  <2>2. \A i \in PictureJobs : v4'[i].st = "reading" => v4'[i] = v4[i]
    BY <1>3, <1>5
  <2>3. \A i \in PictureJobs : v4[i].st \in {"applied", "clearing"} => v4'[i].st \in {"applied", "clearing"}
    BY <1>1, <1>5
  <2>4. QED
    BY <1>1, <2>2, <2>3 DEF PicInv, PicOnce
<1>11. QED
  BY <1>5, <1>6, <1>9, <1>10 DEF PicInv

LEMMA PicCrash ==
  ASSUME PicInv, NEW j \in PictureJobs, Picture!Crash(j)
  PROVE  PicInv'
<1> DEFINE e == [v4[j] EXCEPT !.st = "queued", !.zip = NoPicture, !.changed = {}, !.res = "success"]
<1>1. v9 < PictureCrashes /\ v9' = v9 + 1 /\ UNCHANGED <<v1, v2, v3, v5, v6, v7, v8>>
      /\ v4' = [v4 EXCEPT ![j] = e]
  BY DEF Picture!Crash
<1>2. v4[j] \in PicJobs
  BY PicRows DEF PicInv
<1>3. e \in PicJobs /\ e.st = "queued" /\ e.zip = NoPicture /\ e.changed = {}
  BY <1>2 DEF PicJobs, Picture!Results
<1> HIDE DEF e
<1>4. \A r : Shows(r) => Shows(r)'
  BY <1>1 DEF Shows
<1>5. /\ v4' \in [PictureJobs -> PicJobs] /\ v4'[j] = e
      /\ \A i \in PictureJobs : i # j => v4'[i] = v4[i]
      /\ PicJobInv'
  BY <1>1, <1>3, <1>4, PicJobMoves DEF Picture!Running
<1>6. v9' \in 0..PictureCrashes /\ v9' # 0
  BY <1>1, PicBounds DEF PicInv, PicTypes
<1>7. PicTypes' /\ PicZips' /\ PicShown' /\ PicOnce'
  BY <1>1, <1>5, <1>6 DEF PicInv, PicTypes, PicZips, PicShown, PicOnce, Named, NotDraft, Shows
<1>8. QED
  BY <1>5, <1>7 DEF PicInv

\* The pictures: archives that are offered exist, and are given to one person each.
LEMMA PicKept == PicInv /\ [Picture!Next]_(Picture!vars) => PicInv'
<1> SUFFICES ASSUME PicInv, [Picture!Next]_(Picture!vars) PROVE PicInv'
  OBVIOUS
<1>1. CASE UNCHANGED Picture!vars
  BY <1>1 DEF Picture!vars, PicInv, PicTypes, PicZips, PicJobInv, PicShown, PicOnce, Named, NotDraft, Shows
<1>2. ASSUME NEW q \in PictureRequests, Picture!RequestStep(q) PROVE PicInv'
  BY <1>2, PicOpen, PicStore, PicSave, PicDropOld, PicConfirm DEF Picture!RequestStep
<1>3. ASSUME NEW j \in PictureJobs, Picture!JobStep(j) \/ Picture!Crash(j) PROVE PicInv'
  BY <1>3, PicBegin, PicApply, PicSchedule, PicClear, PicDrop, PicCrash DEF Picture!JobStep
<1>4. ASSUME NEW r \in Portrayed, Picture!Validate(r) \/ Picture!SetRemoved(r) PROVE PicInv'
  <2>1. v7' \subseteq v7 /\ v8' \subseteq v8 /\ v6' \subseteq Portrayed /\ UNCHANGED <<v1, v2, v3, v4, v5, v9>>
    BY <1>4 DEF PicInv, PicTypes, Picture!Validate, Picture!SetRemoved
  <2>2. QED
    BY <2>1 DEF PicInv, PicTypes, PicZips, PicJobInv, PicShown, PicOnce, Named, NotDraft, Shows
<1>5. QED
  BY <1>1, <1>2, <1>3, <1>4 DEF Picture!Next

LEMMA PicMeans == PicInv => Picture!TypeOK /\ Picture!DraftHasZip /\ Picture!NotTwoPersons
BY DEF PicInv, PicTypes, PicZips, PicShown, PicOnce, PicRequests, PicJobs, PicOf, Shows,
       Picture!TypeOK, Picture!DraftHasZip, Picture!NotTwoPersons

-----------------------------------------------------------------------------
(* FlexFiles, on the slots (v1: the records, v2: the last key, v3: the rows,  *)
(* v4: the last row, v5: what was put into the records, v6: the command,      *)
(* v7: its hint, v8: how it ended, v9: the form, v10 and v11: runs and forms).*)
(* What the two instances share: a reference, in a record, a loaded batch or  *)
(* an open form, is to a row that exists and that the record owns.            *)

FileRows == [id : Nat, owner : Nat, content : FlexContents]
FileVals == {Flex!None} \cup {Flex!Inline(c) : c \in FlexContents} \cup {Flex!Ref(w) : w \in FileRows}
Payloads == [Flex!Slots -> FileVals]

Found(v, r) == v.kind = "ref" => v.row \in v3 /\ v.row.owner = r

FileTypes ==
  /\ v2 \in Nat /\ v2 <= FlexRecords /\ DOMAIN v1 \subseteq 1..v2
  /\ v1 \in [DOMAIN v1 -> Payloads] /\ DOMAIN v5 = DOMAIN v1
  /\ v4 \in Nat /\ \A w \in v3 : w \in FileRows /\ w.id \in 1..v4 /\ w.owner \in 1..v2
  /\ v8 \in {"none", "forward", "reverse"}
  /\ v9 = Flex!Closed \/ (v9.pk \in DOMAIN v1 /\ v9.flex \in FileVals)
  /\ v10 \in 0..FlexRuns /\ v11 \in 0..FlexForms

CommandTypes ==
  /\ DOMAIN v6 = {"mode", "batch", "pk", "owned", "failed", "keepGoing"}
  /\ v6.mode \in {"off", "forward", "reverse"} /\ v6.pk \in Nat
  /\ v6 = Flex!Off \/ v6.mode # "off"
  /\ DOMAIN v6.batch \subseteq DOMAIN v1 /\ (v6.batch = <<>> \/ DOMAIN v6.batch # {})
  /\ \A r \in DOMAIN v6.batch : r > v6.pk /\ v6.batch[r] \in Payloads

Resolved ==
  /\ \A r \in DOMAIN v1, s \in Flex!Slots : Found(v1[r][s], r)
  /\ \A r \in DOMAIN v6.batch, s \in Flex!Slots : Found(v6.batch[r][s], r)
  /\ v9 # Flex!Closed => Found(v9.flex, v9.pk)

FilesInv == FileTypes /\ CommandTypes /\ Resolved

LEMMA FlexBounds ==
  /\ FlexRecords \in Nat /\ FlexRuns \in Nat /\ FlexForms \in Nat /\ FlexBatch \in Nat \ {0}
  /\ FlexReverse \in BOOLEAN
BY BoundsAssumption DEF Flex!FlexFilesAssumption

\* The two instances speak of the same files.
LEMMA SameFiles ==
  /\ FlexForm!Slots = Flex!Slots /\ FlexForm!None = Flex!None
  /\ FlexForm!Closed = Flex!Closed /\ FlexForm!Off = Flex!Off
  /\ \A w : FlexForm!Ref(w) = Flex!Ref(w)
  /\ \A r, c : FlexForm!RowFor(r, c) = Flex!RowFor(r, c)
  /\ \A r, S : FlexForm!Stored(r, S) = Flex!Stored(r, S)
BY DEF Flex!Slots, FlexForm!Slots, Flex!None, FlexForm!None, Flex!Closed, FlexForm!Closed,
       Flex!Off, FlexForm!Off, Flex!Ref, FlexForm!Ref, Flex!Same, FlexForm!Same,
       Flex!RowFor, FlexForm!RowFor, Flex!Stored, FlexForm!Stored

LEMMA FileValues ==
  /\ \A v \in FileVals :
       /\ v.kind \in {"none", "inline", "ref"}
       /\ v.kind = "inline" => v.content \in FlexContents
       /\ v.kind = "ref" => v.row \in FileRows
  /\ Flex!None \in FileVals /\ Flex!None.kind = "none"
  /\ \A c \in FlexContents : Flex!Inline(c) \in FileVals
  /\ \A c : Flex!Inline(c).kind = "inline" /\ Flex!Inline(c).content = c
  /\ \A w \in FileRows : Flex!Ref(w) \in FileVals
  /\ \A w : Flex!Ref(w).kind = "ref" /\ Flex!Ref(w).row = w
<1>1. \A c : Flex!Inline(c).kind = "inline" /\ Flex!Inline(c).content = c
  BY DEF Flex!Inline
<1>2. \A w : Flex!Ref(w).kind = "ref" /\ Flex!Ref(w).row = w
  BY DEF Flex!Ref
<1>3. Flex!None.kind = "none"
  BY DEF Flex!None
<1>4. \A v \in FileVals : v.kind \in {"none", "inline", "ref"}
  BY <1>1, <1>2, <1>3 DEF FileVals
<1>5. \A v \in FileVals : v.kind = "inline" => v.content \in FlexContents
  BY <1>1, <1>2, <1>3 DEF FileVals
<1>6. \A v \in FileVals : v.kind = "ref" => v.row \in FileRows
  BY <1>1, <1>2, <1>3 DEF FileVals
<1>7. Flex!None \in FileVals /\ (\A c \in FlexContents : Flex!Inline(c) \in FileVals)
      /\ \A w \in FileRows : Flex!Ref(w) \in FileVals
  BY DEF FileVals
<1>8. QED
  BY <1>1, <1>2, <1>3, <1>4, <1>5, <1>6, <1>7

LEMMA PayloadOf ==
  ASSUME NEW a \in FileVals, NEW b \in FileVals, NEW c \in FileVals
  PROVE  LET p == [flex |-> a, raw |-> b, nested |-> c] IN
           /\ p \in Payloads /\ p["flex"] = a /\ p["raw"] = b /\ p["nested"] = c
           /\ \A s \in Flex!Slots : p[s] \in {a, b, c}
BY DEF Payloads, Flex!Slots

\* write_flex_file: the row has the content and the owner, and no other row is touched.
LEMMA RowIsRight ==
  ASSUME FileTypes, NEW r \in Nat, NEW c \in FlexContents, NEW w, w = Flex!RowFor(r, c)
  PROVE  /\ w \in FileRows /\ w.owner = r /\ w.content = c
         /\ w.id \in 1..(v4 + 1)
<1>1. CASE Flex!Same(r, c) # {}
  <2>1. w \in Flex!Same(r, c)
    BY <1>1 DEF Flex!RowFor
  <2>2. QED
    BY <2>1 DEF Flex!Same, FileTypes
<1>2. CASE Flex!Same(r, c) = {}
  BY <1>2 DEF Flex!RowFor, FileTypes, FileRows
<1>3. QED
  BY <1>1, <1>2

LEMMA RowsStored ==
  ASSUME FileTypes, NEW r \in Nat, NEW S \in SUBSET FlexContents, v3' = Flex!Stored(r, S), v4' = v4 + 1,
         v2' \in Nat, v2 <= v2', r \in 1..v2'
  PROVE  /\ v3 \subseteq v3' /\ \A c \in S : Flex!RowFor(r, c) \in v3' /\ Flex!RowFor(r, c).owner = r
         /\ \A w \in v3' : w \in FileRows /\ w.id \in 1..v4' /\ w.owner \in 1..v2'
         /\ \A v, q : Found(v, q) => Found(v, q)'
<1>1. v3 \subseteq v3' /\ \A c \in S : Flex!RowFor(r, c) \in v3'
  BY DEF Flex!Stored
<1>2. \A v, q : Found(v, q) => Found(v, q)'
  BY <1>1 DEF Found
<1>3. \A c \in S : Flex!RowFor(r, c).owner = r
  BY RowIsRight
<1>4. ASSUME NEW w \in v3' PROVE w \in FileRows /\ w.id \in 1..v4' /\ w.owner \in 1..v2'
  <2>1. CASE w \in v3
    BY <2>1 DEF FileTypes
  <2>2. ASSUME NEW c \in S, w = Flex!RowFor(r, c) PROVE w \in FileRows /\ w.id \in 1..v4' /\ w.owner \in 1..v2'
    BY <2>2, RowIsRight
  <2>3. QED
    BY <2>1, <2>2 DEF Flex!Stored
<1>5. QED
  BY <1>1, <1>2, <1>3, <1>4

LEMMA FilesBegin == Flex!Init \/ FlexForm!Init => FilesInv
<1> SUFFICES ASSUME Flex!Init \/ FlexForm!Init PROVE FilesInv
  OBVIOUS
<1>1. /\ v2 \in 0..FlexRecords /\ v3 = {} /\ v4 = 0 /\ v8 = "none" /\ v10 = 0 /\ v11 = 0
      /\ v6 = Flex!Off /\ v9 = Flex!Closed
  BY SameFiles DEF Flex!Init, FlexForm!Init
<1>2. PICK c \in [1..v2 -> FlexContents] :
           /\ v1 = [r \in 1..v2 |-> [flex |-> Flex!Inline(c[r]), raw |-> Flex!Inline(c[r]), nested |-> Flex!None]]
           /\ v5 = [r \in 1..v2 |-> [flex |-> c[r], raw |-> c[r], nested |-> ""]]
  BY DEF Flex!Init, FlexForm!Init, Flex!Inline, FlexForm!Inline, Flex!None, FlexForm!None
<1>3. DOMAIN v1 = 1..v2 /\ DOMAIN v5 = 1..v2
  BY <1>2
<1>4. ASSUME NEW r \in 1..v2
      PROVE  v1[r] \in Payloads /\ \A s \in Flex!Slots : v1[r][s].kind # "ref"
  <2>1. c[r] \in FlexContents
    OBVIOUS
  <2>2. v1[r] = [flex |-> Flex!Inline(c[r]), raw |-> Flex!Inline(c[r]), nested |-> Flex!None]
    BY <1>2
  <2>3. Flex!Inline(c[r]) \in FileVals /\ Flex!None \in FileVals
        /\ Flex!Inline(c[r]).kind # "ref" /\ Flex!None.kind # "ref"
    BY <2>1, FileValues
  <2>4. v1[r] \in Payloads /\ \A s \in Flex!Slots : v1[r][s] \in {Flex!Inline(c[r]), Flex!None}
    BY <2>2, <2>3, PayloadOf
  <2>5. QED
    BY <2>3, <2>4
<1>5. v1 \in [DOMAIN v1 -> Payloads]
  BY <1>2, <1>3, <1>4
<1>6. FileTypes
  <2>1. v2 \in Nat /\ v2 <= FlexRecords /\ v10 \in 0..FlexRuns /\ v11 \in 0..FlexForms
    BY <1>1, FlexBounds
  <2>2. v4 \in Nat /\ \A w \in v3 : w \in FileRows /\ w.id \in 1..v4 /\ w.owner \in 1..v2
    BY <1>1
  <2>3. v8 \in {"none", "forward", "reverse"} /\ v9 = Flex!Closed
    BY <1>1
  <2>4. QED
    BY <1>3, <1>5, <2>1, <2>2, <2>3 DEF FileTypes
<1>7. CommandTypes
  <2>1. /\ DOMAIN Flex!Off = {"mode", "batch", "pk", "owned", "failed", "keepGoing"}
        /\ Flex!Off.mode = "off" /\ Flex!Off.pk = 0 /\ Flex!Off.batch = <<>>
    BY DEF Flex!Off
  <2>2. DOMAIN <<>> = {}
    OBVIOUS
  <2>3. QED
    BY <1>1, <2>1, <2>2 DEF CommandTypes
<1>8. Resolved
  <2>1. v6.batch = <<>> /\ DOMAIN <<>> = {}
    BY <1>1 DEF Flex!Off
  <2>2. QED
    BY <1>1, <1>3, <1>4, <2>1 DEF Resolved, Found
<1>9. QED
  BY <1>6, <1>7, <1>8 DEF FilesInv

\* The record that is worked on is the first of the batch.
LEMMA CurrentIsFirst ==
  ASSUME FilesInv, v6.batch # <<>>, NEW b, b = FlexForm!Current
  PROVE  /\ b \in DOMAIN v6.batch /\ b \in Nat /\ b > v6.pk
         /\ \A r \in DOMAIN v6.batch : b <= r
<1> DEFINE S == DOMAIN v6.batch
           Rel == OpToRel(<, Nat)
<1>1. S # {} /\ S \subseteq Nat /\ \A r \in S : r > v6.pk
  BY DEF FilesInv, FileTypes, CommandTypes
<1>2. IsWellFoundedOn(Rel, Nat)
  BY NatLessThanWellFounded
<1>3. PICK m \in S : \A u \in S : ~(<<u, m>> \in Rel)
  BY <1>1, <1>2, WFMin
<1>4. \A u \in S : ~(u < m)
  BY <1>1, <1>3 DEF OpToRel
<1>5. \A u \in S : m <= u
  BY <1>1, <1>4
<1>6. b = CHOOSE x \in S : \A y \in S : x <= y
  BY DEF FlexForm!Current, FlexForm!Min
<1>7. b \in S /\ \A y \in S : b <= y
  BY <1>5, <1>6
<1>8. QED
  BY <1>1, <1>7

\* The records that remain.
LEMMA RestOf ==
  ASSUME FilesInv, v6.batch # <<>>, NEW b, b = FlexForm!Current, NEW t, t = FlexForm!Rest
  PROVE  /\ DOMAIN t = DOMAIN v6.batch \ {b} /\ \A r \in DOMAIN t : t[r] = v6.batch[r]
         /\ t = <<>> \/ DOMAIN t # {}
<1>1. t = [x \in DOMAIN v6.batch \ {b} |-> v6.batch[x]]
  BY DEF FlexForm!Rest, FlexForm!Values
<1>2. DOMAIN v6.batch \ {b} = {} => t = <<>>
  BY <1>1
<1>3. QED
  BY <1>1, <1>2

\* The record that is done leaves the batch.
LEMMA CommandAdvances ==
  ASSUME FilesInv, v6.batch # <<>>,
         v6' = FlexForm!Advanced \/ v6' = [FlexForm!Advanced EXCEPT !.failed = TRUE],
         DOMAIN v1' = DOMAIN v1, \A v, r : Found(v, r) /\ r # FlexForm!Current => Found(v, r)'
  PROVE  /\ CommandTypes' /\ \A r \in DOMAIN v6'.batch, s \in Flex!Slots : \A v : v = v6'.batch[r][s] => Found(v, r)'
         /\ v6'.mode = v6.mode /\ v6'.pk = FlexForm!Current /\ v6'.batch = FlexForm!Rest /\ v6'.owned = {}
         /\ v6'.keepGoing = v6.keepGoing
<1> DEFINE b == FlexForm!Current
           t == FlexForm!Rest
           a == FlexForm!Advanced
<1>1. /\ b \in DOMAIN v6.batch /\ b \in Nat /\ b > v6.pk
      /\ \A r \in DOMAIN v6.batch : b <= r
  BY CurrentIsFirst
<1>2. /\ DOMAIN t = DOMAIN v6.batch \ {b} /\ \A r \in DOMAIN t : t[r] = v6.batch[r]
      /\ t = <<>> \/ DOMAIN t # {}
  BY RestOf
<1>3. a = [v6 EXCEPT !.batch = t, !.pk = b, !.owned = {}]
  BY DEF FlexForm!Advanced
<1> HIDE DEF a, b, t
<1>4. DOMAIN v6 = {"mode", "batch", "pk", "owned", "failed", "keepGoing"}
  BY DEF FilesInv, CommandTypes
<1>5. DOMAIN a = DOMAIN v6 /\ a.mode = v6.mode /\ a.batch = t /\ a.pk = b /\ a.owned = {} /\ a.keepGoing = v6.keepGoing
  BY <1>3, <1>4
<1>6. DOMAIN v6' = DOMAIN v6 /\ v6'.mode = v6.mode /\ v6'.batch = t /\ v6'.pk = b /\ v6'.owned = {} /\ v6'.keepGoing = v6.keepGoing
  BY <1>4, <1>5 DEF a
<1>7. v6.mode # "off"
  BY DEF FilesInv, CommandTypes, Flex!Off
<1>8. \A r \in DOMAIN t : r \in DOMAIN v6.batch /\ r # b /\ r > b /\ t[r] = v6.batch[r]
  <2>1. \A r \in DOMAIN v6.batch : r \in Nat
    BY DEF FilesInv, FileTypes, CommandTypes
  <2>2. QED
    BY <1>1, <1>2, <2>1
<1>9. CommandTypes'
  BY <1>1, <1>2, <1>4, <1>6, <1>7, <1>8 DEF FilesInv, CommandTypes
<1>10. \A r \in DOMAIN t, s \in Flex!Slots : Found(v6.batch[r][s], r)
  BY <1>8 DEF FilesInv, Resolved
<1>11. ASSUME NEW r \in DOMAIN t, NEW s \in Flex!Slots, NEW v, v = v6.batch[r][s] PROVE Found(v, r)'
  BY <1>8, <1>10, <1>11 DEF b
<1>12. \A r \in DOMAIN v6'.batch, s \in Flex!Slots : \A v : v = v6'.batch[r][s] => Found(v, r)'
  BY <1>6, <1>8, <1>11
<1>13. QED
  BY <1>6, <1>9, <1>12 DEF b, t

\* Without a command nothing is loaded.
LEMMA NothingLoaded == Flex!Off.mode = "off" /\ Flex!Off.batch = <<>> /\ DOMAIN Flex!Off.batch = {}
                       /\ Flex!Off.pk = 0 /\ Flex!Off.owned = {} /\ Flex!Off.failed = FALSE
                       /\ DOMAIN Flex!Off = {"mode", "batch", "pk", "owned", "failed", "keepGoing"}
<1>1. DOMAIN <<>> = {}
  OBVIOUS
<1>2. QED
  BY <1>1 DEF Flex!Off

LEMMA CommandStops ==
  ASSUME v6' = Flex!Off
  PROVE  CommandTypes' /\ DOMAIN v6'.batch = {}
BY NothingLoaded DEF CommandTypes

LEMMA FilesImport ==
  ASSUME FilesInv, NEW c \in FlexContents, Flex!Import(c) \/ FlexForm!Import(c)
  PROVE  /\ FilesInv' /\ v3' = Flex!Stored(v2 + 1, {c})
         /\ DOMAIN v1' = DOMAIN v1 \cup {v2 + 1} /\ v2 + 1 \notin DOMAIN v1
         /\ \A q \in DOMAIN v1 : v1'[q] = v1[q]
         /\ \A q, v : Found(v, q) => Found(v, q)'
<1> DEFINE r == v2 + 1
           w == Flex!RowFor(r, c)
           ref == Flex!Ref(w)
<1>1. PICK n \in {ref, Flex!None} :
        v1' = [x \in DOMAIN v1 \cup {r} |-> IF x # r THEN v1[x] ELSE [flex |-> ref, raw |-> ref, nested |-> n]]
  BY SameFiles DEF Flex!Import, FlexForm!Import
<1>2. /\ v2 < FlexRecords /\ v2' = r /\ v4' = v4 + 1 /\ v3' = Flex!Stored(r, {c}) /\ v8' = "none"
      /\ UNCHANGED <<v6, v9, v10, v11>>
  BY SameFiles DEF Flex!Import, FlexForm!Import
<1>3. DOMAIN v5' = DOMAIN v5 \cup {r}
  BY DEF Flex!Import, FlexForm!Import
<1>4. v2 \in Nat /\ r \in Nat /\ r \in 1..v2' /\ v2 <= v2' /\ r \notin DOMAIN v1
  BY <1>2 DEF FilesInv, FileTypes
<1>5. w \in FileRows
  BY <1>4, RowIsRight DEF FilesInv
<1>6. /\ v3 \subseteq v3' /\ w \in v3' /\ w.owner = r
      /\ \A u \in v3' : u \in FileRows /\ u.id \in 1..v4' /\ u.owner \in 1..v2'
      /\ \A v, q : Found(v, q) => Found(v, q)'
  <2>1. {c} \in SUBSET FlexContents
    OBVIOUS
  <2>2. FileTypes
    BY DEF FilesInv
  <2>3. v2' \in Nat
    BY <1>2, <1>4
  <2>4. QED
    BY <1>2, <1>4, <2>1, <2>2, <2>3, RowsStored
<1>7. ref \in FileVals /\ ref.kind = "ref" /\ ref.row = w
  BY <1>5, FileValues
<1>8. n \in FileVals /\ (n = ref \/ n.kind = "none")
  BY <1>7, FileValues
<1> DEFINE p == [flex |-> ref, raw |-> ref, nested |-> n]
<1>9. p \in Payloads /\ \A s \in Flex!Slots : p[s] \in {ref, n}
  BY <1>7, <1>8, PayloadOf
<1>10. \A s \in Flex!Slots : p[s].kind = "ref" => p[s].row = w
  BY <1>7, <1>8, <1>9
<1>11. v1' = [x \in DOMAIN v1 \cup {r} |-> IF x # r THEN v1[x] ELSE p]
  BY <1>1
<1> HIDE DEF p, ref, w, r
<1>12. DOMAIN v1' = DOMAIN v1 \cup {r} /\ v1'[r] = p /\ \A q \in DOMAIN v1 : v1'[q] = v1[q]
  BY <1>4, <1>11
<1>13. v1' \in [DOMAIN v1' -> Payloads]
  BY <1>4, <1>9, <1>11 DEF FilesInv, FileTypes
<1>14. FileTypes'
  <2>1. v2' \in Nat /\ v2' <= FlexRecords /\ DOMAIN v1' \subseteq 1..v2'
    BY <1>2, <1>4, <1>12, FlexBounds DEF FilesInv, FileTypes, r
  <2>2. v4' \in Nat
    BY <1>2 DEF FilesInv, FileTypes
  <2>3. QED
    BY <1>2, <1>3, <1>6, <1>12, <1>13, <2>1, <2>2 DEF FilesInv, FileTypes
<1>15. CommandTypes'
  BY <1>2, <1>12 DEF FilesInv, CommandTypes
<1>16. ASSUME NEW q \in DOMAIN v1', NEW s \in Flex!Slots, NEW v, v = v1'[q][s] PROVE Found(v, q)'
  <2>1. CASE q = r
    BY <1>6, <1>10, <1>12, <1>16, <2>1 DEF Found
  <2>2. CASE q # r
    BY <1>6, <1>12, <1>16, <2>2 DEF FilesInv, Resolved
  <2>3. QED
    BY <2>1, <2>2
<1>17. ASSUME NEW q \in DOMAIN v6.batch, NEW s \in Flex!Slots, NEW v, v = v6.batch[q][s] PROVE Found(v, q)'
  BY <1>6, <1>17 DEF FilesInv, Resolved
<1>18. v9' # Flex!Closed => Found(v9.flex, v9.pk)'
  <2> SUFFICES ASSUME v9 # Flex!Closed, NEW k, k = v9.pk, NEW v, v = v9.flex PROVE Found(v, k)'
    BY <1>2 DEF Found
  <2>1. Found(v, k)
    BY DEF FilesInv, Resolved
  <2>2. QED
    BY <1>6, <2>1
<1>19. Resolved'
  <2>1. (\A q \in DOMAIN v1, s \in Flex!Slots : Found(v1[q][s], q))'
    BY <1>16 DEF Found
  <2>2. (\A q \in DOMAIN v6.batch, s \in Flex!Slots : Found(v6.batch[q][s], q))'
    BY <1>2, <1>17 DEF Found
  <2>3. (v9 # Flex!Closed => Found(v9.flex, v9.pk))'
    BY <1>18 DEF Flex!Closed, Flex!None
  <2>4. QED
    BY <2>1, <2>2, <2>3 DEF Resolved
<1>20. QED
  BY <1>2, <1>4, <1>6, <1>12, <1>14, <1>15, <1>19 DEF FilesInv, r

LEMMA FilesDelete ==
  ASSUME FilesInv, NEW r \in DOMAIN v1, FlexForm!Delete(r)
  PROVE  /\ FilesInv' /\ DOMAIN v1' = DOMAIN v1 \ {r} /\ DOMAIN v5' = DOMAIN v1 \ {r}
         /\ \A q \in DOMAIN v1' : v1'[q] = v1[q] /\ v5'[q] = v5[q]
         /\ \A q \in DOMAIN v1' : \A v : Found(v, q) => Found(v, q)'
<1>1. /\ v6 = Flex!Off /\ v9 = Flex!Closed /\ v8' = "none" /\ UNCHANGED <<v2, v4, v6, v9, v10, v11>>
      /\ v3' = {w \in v3 : w.owner # r} \/ v3' = v3
  BY SameFiles DEF FlexForm!Delete
<1>2. /\ v1' = [q \in DOMAIN v1 \ {r} |-> v1[q]] /\ v5' = [q \in DOMAIN v1 \ {r} |-> v5[q]]
  BY DEF FlexForm!Delete, FlexForm!Values
<1>3. /\ DOMAIN v1' = DOMAIN v1 \ {r} /\ DOMAIN v5' = DOMAIN v1 \ {r}
      /\ \A q \in DOMAIN v1' : v1'[q] = v1[q] /\ v5'[q] = v5[q]
  BY <1>2
<1>4. \A q \in DOMAIN v1' : \A v : Found(v, q) => Found(v, q)'
  BY <1>1, <1>3 DEF Found
<1>5. FileTypes'
  <2>1. v1' \in [DOMAIN v1' -> Payloads]
    BY <1>2 DEF FilesInv, FileTypes
  <2>2. v3' \subseteq v3
    BY <1>1
  <2>3. QED
    BY <1>1, <1>3, <2>1, <2>2 DEF FilesInv, FileTypes
<1>6. CommandTypes' /\ DOMAIN v6'.batch = {}
  BY <1>1, CommandStops
<1>7. ASSUME NEW q \in DOMAIN v1', NEW s \in Flex!Slots, NEW v, v = v1'[q][s] PROVE Found(v, q)'
  BY <1>3, <1>4, <1>7 DEF FilesInv, Resolved
<1>8. Resolved'
  BY <1>1, <1>6, <1>7 DEF Resolved, Found
<1>9. QED
  BY <1>3, <1>4, <1>5, <1>6, <1>8 DEF FilesInv

LEMMA FilesOpen ==
  ASSUME FilesInv, NEW r \in DOMAIN v1, FlexForm!OpenForm(r)
  PROVE  FilesInv'
<1>1. /\ v9' = [pk |-> r, flex |-> v1[r].flex] /\ v11 < FlexForms /\ v11' = v11 + 1
      /\ UNCHANGED <<v1, v2, v3, v4, v5, v6, v8, v10>>
  BY DEF FlexForm!OpenForm
<1>2. v1[r] \in Payloads /\ "flex" \in Flex!Slots
  BY DEF FilesInv, FileTypes, Flex!Slots
<1>3. v1[r].flex \in FileVals /\ Found(v1[r].flex, r)
  BY <1>2 DEF Payloads, FilesInv, Resolved
<1>4. v9'.pk = r /\ v9'.flex = v1[r].flex
  BY <1>1
<1>5. v11' \in 0..FlexForms
  BY <1>1, FlexBounds DEF FilesInv, FileTypes
<1>6. FileTypes'
  BY <1>1, <1>3, <1>4, <1>5 DEF FilesInv, FileTypes
<1>7. CommandTypes' /\ Resolved'
  BY <1>1, <1>3, <1>4 DEF FilesInv, CommandTypes, Resolved, Found
<1>8. QED
  BY <1>6, <1>7 DEF FilesInv

\* A value is written to the record of the form, which is closed.
LEMMA FormWritten ==
  ASSUME FilesInv, v9 # Flex!Closed, NEW k, k = v9.pk, NEW v \in FileVals,
         v1' = [v1 EXCEPT ![k].flex = v], DOMAIN v5' = DOMAIN v5, v9' = Flex!Closed, v8' = "none",
         UNCHANGED <<v2, v6, v10, v11>>,
         v4' \in Nat, \A w \in v3' : w \in FileRows /\ w.id \in 1..v4' /\ w.owner \in 1..v2,
         \A u, q : Found(u, q) => Found(u, q)', Found(v, k)'
  PROVE  /\ FilesInv' /\ DOMAIN v1' = DOMAIN v1 /\ k \in DOMAIN v1 /\ v1'[k]["flex"] = v
         /\ \A q \in DOMAIN v1, s \in Flex!Slots : q # k \/ s # "flex" => v1'[q][s] = v1[q][s]
<1>1. k \in DOMAIN v1 /\ v1[k] \in Payloads
  BY DEF FilesInv, FileTypes
<1> DEFINE p == [v1[k] EXCEPT !.flex = v]
<1>2. p \in Payloads /\ p["flex"] = v /\ \A s \in Flex!Slots : s # "flex" => p[s] = v1[k][s]
  BY <1>1 DEF Payloads, Flex!Slots
<1>3. v1' = [v1 EXCEPT ![k] = p]
  BY <1>1
<1> HIDE DEF p
<1>4. /\ DOMAIN v1' = DOMAIN v1 /\ v1'[k] = p /\ \A q \in DOMAIN v1 : q # k => v1'[q] = v1[q]
      /\ v1' \in [DOMAIN v1' -> Payloads]
  BY <1>1, <1>2, <1>3 DEF FilesInv, FileTypes
<1>5. FileTypes' /\ CommandTypes'
  BY <1>4 DEF FilesInv, FileTypes, CommandTypes
<1>6. ASSUME NEW q \in DOMAIN v1', NEW s \in Flex!Slots, NEW u, u = v1'[q][s] PROVE Found(u, q)'
  <2>1. CASE q = k /\ s = "flex"
    BY <1>2, <1>4, <1>6, <2>1
  <2>2. CASE ~(q = k /\ s = "flex")
    BY <1>2, <1>4, <1>6, <2>2 DEF FilesInv, Resolved
  <2>3. QED
    BY <2>1, <2>2
<1>7. ASSUME NEW q \in DOMAIN v6.batch, NEW s \in Flex!Slots, NEW u, u = v6.batch[q][s] PROVE Found(u, q)'
  BY <1>7 DEF FilesInv, Resolved
<1>8. Resolved'
  BY <1>6, <1>7 DEF Resolved, Found
<1>9. QED
  BY <1>1, <1>2, <1>4, <1>5, <1>8 DEF FilesInv

LEMMA FilesUpload ==
  ASSUME FilesInv, NEW c \in FlexContents, Flex!Upload(c) \/ FlexForm!Upload(c), NEW k, k = v9.pk
  PROVE  /\ FilesInv' /\ DOMAIN v1' = DOMAIN v1 /\ k \in DOMAIN v1
         /\ \A w : w = Flex!RowFor(k, c) => v1'[k]["flex"] = Flex!Ref(w) /\ w.content = c /\ w \in v3'
         /\ \A q \in DOMAIN v1, s \in Flex!Slots : q # k \/ s # "flex" => v1'[q][s] = v1[q][s]
         /\ \A u, q : Found(u, q) => Found(u, q)'
<1> DEFINE w == Flex!RowFor(k, c)
           v == Flex!Ref(w)
<1>1. /\ v9 # Flex!Closed /\ v3' = Flex!Stored(k, {c}) /\ v4' = v4 + 1
      /\ v1' = [v1 EXCEPT ![k].flex = v] /\ v5' = [v5 EXCEPT ![k].flex = c]
      /\ v9' = Flex!Closed /\ v8' = "none" /\ UNCHANGED <<v2, v6, v10, v11>>
  BY SameFiles DEF Flex!Upload, FlexForm!Upload
<1>2. k \in DOMAIN v1 /\ k \in Nat /\ k \in 1..v2
  BY <1>1 DEF FilesInv, FileTypes
<1>3. w \in FileRows /\ w.owner = k /\ w.content = c
  BY <1>2, RowIsRight DEF FilesInv
<1>4. v \in FileVals /\ v.kind = "ref" /\ v.row = w
  BY <1>3, FileValues
<1>5. /\ v3 \subseteq v3' /\ w \in v3'
      /\ \A u \in v3' : u \in FileRows /\ u.id \in 1..v4' /\ u.owner \in 1..v2'
      /\ \A u, q : Found(u, q) => Found(u, q)'
  <2>1. {c} \in SUBSET FlexContents
    OBVIOUS
  <2>2. FileTypes
    BY DEF FilesInv
  <2>3. v2' \in Nat /\ v2 <= v2' /\ k \in 1..v2'
    BY <1>1, <1>2 DEF FilesInv, FileTypes
  <2>4. QED
    BY <1>1, <1>2, <2>1, <2>2, <2>3, RowsStored
<1>6. v4' \in Nat /\ DOMAIN v5' = DOMAIN v5
  BY <1>1 DEF FilesInv, FileTypes
<1> HIDE DEF v, w
<1>7. ASSUME NEW u, u = v PROVE Found(u, k)'
  BY <1>3, <1>4, <1>5, <1>7 DEF Found
<1>8. ASSUME NEW u \in FileVals, u = v
      PROVE  /\ FilesInv' /\ DOMAIN v1' = DOMAIN v1 /\ k \in DOMAIN v1 /\ v1'[k]["flex"] = u
             /\ \A q \in DOMAIN v1, s \in Flex!Slots : q # k \/ s # "flex" => v1'[q][s] = v1[q][s]
  <2>1. Found(u, k)'
    BY <1>7, <1>8
  <2>2. v1' = [v1 EXCEPT ![k].flex = u]
    BY <1>1, <1>8
  <2>3. \A t \in v3' : t \in FileRows /\ t.id \in 1..v4' /\ t.owner \in 1..v2
    BY <1>1, <1>5
  <2>4. v9 # Flex!Closed /\ v9' = Flex!Closed /\ v8' = "none" /\ UNCHANGED <<v2, v6, v10, v11>>
    BY <1>1
  <2>5. \A t, q : Found(t, q) => Found(t, q)'
    BY <1>5
  <2>6. QED
    BY <1>6, <2>1, <2>2, <2>3, <2>4, <2>5, FormWritten
<1>9. QED
  BY <1>3, <1>4, <1>5, <1>8 DEF v, w

LEMMA FilesSave ==
  ASSUME FilesInv, FlexForm!SaveForm, NEW k, k = v9.pk, NEW v, v = v9.flex
  PROVE  /\ FilesInv' /\ DOMAIN v1' = DOMAIN v1 /\ k \in DOMAIN v1 /\ v1'[k]["flex"] = v
         /\ \A q \in DOMAIN v1, s \in Flex!Slots : q # k \/ s # "flex" => v1'[q][s] = v1[q][s]
<1>1. /\ v9 # Flex!Closed /\ v1' = [v1 EXCEPT ![k].flex = v] /\ v9' = Flex!Closed /\ v8' = "none"
      /\ UNCHANGED <<v2, v3, v4, v5, v6, v10, v11>>
  BY SameFiles DEF FlexForm!SaveForm
<1>2. v \in FileVals /\ Found(v, k)
  BY <1>1 DEF FilesInv, FileTypes, Resolved
<1>3. \A u, q : Found(u, q) => Found(u, q)'
  BY <1>1 DEF Found
<1>4. \A w \in v3' : w \in FileRows /\ w.id \in 1..v4' /\ w.owner \in 1..v2
  BY <1>1 DEF FilesInv, FileTypes
<1>5. v4' \in Nat /\ DOMAIN v5' = DOMAIN v5
  BY <1>1 DEF FilesInv, FileTypes
<1>6. Found(v, k)'
  BY <1>2, <1>3
<1>7. QED
  BY <1>1, <1>2, <1>3, <1>4, <1>5, <1>6, FormWritten

\* A run begins.
LEMMA FilesBeginRun ==
  ASSUME FilesInv, NEW mode \in {"forward", "reverse"}, NEW from \in 0..FlexRecords, FlexForm!Begin(mode, from)
  PROVE  /\ FilesInv' /\ DOMAIN v6'.batch = {} /\ v6'.batch = <<>> /\ v6'.mode = mode /\ v6'.pk = from
         /\ v6'.owned = {} /\ v6'.failed = FALSE
<1>1. PICK g \in BOOLEAN : v6' = [Flex!Off EXCEPT !.mode = mode, !.pk = from, !.keepGoing = g]
  BY SameFiles DEF FlexForm!Begin
<1>2. v10 < FlexRuns /\ v10' = v10 + 1 /\ v8' = "none" /\ UNCHANGED <<v1, v2, v3, v4, v5, v9, v11>>
  BY DEF FlexForm!Begin
<1>3. /\ DOMAIN v6' = {"mode", "batch", "pk", "owned", "failed", "keepGoing"}
      /\ v6'.mode = mode /\ v6'.pk = from /\ v6'.batch = <<>> /\ v6'.owned = {} /\ v6'.failed = FALSE
  BY <1>1, NothingLoaded
<1>4. DOMAIN v6'.batch = {}
  <2>1. DOMAIN <<>> = {}
    OBVIOUS
  <2>2. QED
    BY <1>3, <2>1
<1>5. v10' \in 0..FlexRuns
  BY <1>2, FlexBounds DEF FilesInv, FileTypes
<1>6. FileTypes' /\ from \in Nat
  BY <1>2, <1>5 DEF FilesInv, FileTypes
<1>7. CommandTypes'
  BY <1>3, <1>4, <1>6 DEF CommandTypes
<1>8. Resolved'
  BY <1>2, <1>4 DEF FilesInv, Resolved, Found
<1>9. QED
  BY <1>3, <1>4, <1>6, <1>7, <1>8 DEF FilesInv

\* The tables stay, and the command goes on with what it has, or with a batch of the records.
LEMMA FilesLoad ==
  ASSUME FilesInv, FlexForm!LoadBatch
  PROVE  /\ FilesInv' /\ UNCHANGED <<v1, v2, v3, v4, v5, v7, v8, v9>>
         /\ DOMAIN v6'.batch = {r \in FlexForm!Candidates :
                                  FlexForm!Cardinality({q \in FlexForm!Candidates : q < r}) < FlexBatch}
         /\ \A r \in DOMAIN v6'.batch : v6'.batch[r] = v1[r]
         /\ v6.mode # "off" /\ v6'.mode = v6.mode /\ v6'.pk = v6.pk /\ v6'.owned = v6.owned /\ v6.batch = <<>>
         /\ v6'.failed = v6.failed /\ v6'.keepGoing = v6.keepGoing
<1> DEFINE S == {r \in FlexForm!Candidates :
                   FlexForm!Cardinality({q \in FlexForm!Candidates : q < r}) < FlexBatch}
           b == [r \in S |-> v1[r]]
<1>1. /\ v6' = [v6 EXCEPT !.batch = b] /\ v6.mode # "off" /\ v6.batch = <<>>
      /\ UNCHANGED <<v1, v2, v3, v4, v5, v7, v8, v9, v10, v11>>
  BY DEF FlexForm!LoadBatch, FlexForm!Idle, FlexForm!Values
<1>2. S \subseteq DOMAIN v1 /\ \A r \in S : r > v6.pk
  BY DEF FlexForm!Candidates
<1> HIDE DEF S
<1>3. DOMAIN b = S /\ (\A r \in S : b[r] = v1[r]) /\ (S = {} => b = <<>>)
  OBVIOUS
<1> HIDE DEF b
<1>4. DOMAIN v6 = {"mode", "batch", "pk", "owned", "failed", "keepGoing"}
  BY DEF FilesInv, CommandTypes
<1>5. DOMAIN v6' = DOMAIN v6 /\ v6'.batch = b /\ v6'.mode = v6.mode /\ v6'.pk = v6.pk /\ v6'.owned = v6.owned
  BY <1>1, <1>4
<1>6. v6'.failed = v6.failed /\ v6'.keepGoing = v6.keepGoing
  BY <1>1, <1>4
<1>7. \A r \in S : b[r] \in Payloads
  BY <1>2, <1>3 DEF FilesInv, FileTypes
<1>8. CommandTypes'
  BY <1>1, <1>2, <1>3, <1>4, <1>5, <1>7 DEF FilesInv, CommandTypes
<1>9. FileTypes'
  BY <1>1 DEF FilesInv, FileTypes
<1>10. \A r \in DOMAIN v6'.batch : r \in DOMAIN v1 /\ v6'.batch[r] = v1[r]
  BY <1>2, <1>3, <1>5
<1>11. Resolved'
  <2>1. (\A r \in DOMAIN v6.batch, s \in Flex!Slots : Found(v6.batch[r][s], r))'
    BY <1>1, <1>10 DEF FilesInv, Resolved, Found
  <2>2. QED
    BY <1>1, <2>1 DEF FilesInv, Resolved, Found
<1>12. QED
  BY <1>1, <1>5, <1>6, <1>8, <1>9, <1>10, <1>11, <1>3 DEF FilesInv, S

\* What is inline in the record that is worked on.
LEMMA InlineOf ==
  ASSUME FilesInv, v6.batch # <<>>
  PROVE  FlexForm!InlineContents \in SUBSET FlexContents
<1> DEFINE b == FlexForm!Current
<1>1. b \in DOMAIN v6.batch
  BY CurrentIsFirst
<1>2. v6.batch[b] \in Payloads
  BY <1>1 DEF FilesInv, CommandTypes
<1> HIDE DEF b
<1>3. \A s \in FlexForm!TopLevel : v6.batch[b][s] \in FileVals
  BY <1>2 DEF Payloads, FlexForm!TopLevel, Flex!Slots
<1>4. \A s \in {t \in FlexForm!TopLevel : v6.batch[b][t].kind = "inline"} : v6.batch[b][s].content \in FlexContents
  BY <1>3, FileValues
<1>5. QED
  BY <1>4 DEF FlexForm!InlineContents, b

\* The payload that is written: the values of the fields, and the batch below them.
LEMMA PayloadSaved ==
  ASSUME FilesInv, v6.batch # <<>>, NEW values, FlexForm!Save(values), NEW b, b = FlexForm!Current,
         \A s \in FlexForm!TopLevel : values[s] \in FileVals
  PROVE  /\ DOMAIN v1' = DOMAIN v1 /\ b \in DOMAIN v1 /\ v1' \in [DOMAIN v1' -> Payloads]
         /\ \A r \in DOMAIN v1 : r # b => v1'[r] = v1[r]
         /\ \A s \in FlexForm!TopLevel : v1'[b][s] = values[s]
         /\ v1'[b]["nested"] = v6.batch[b]["nested"]
<1> DEFINE new == [s \in FlexForm!Slots |-> IF s \in FlexForm!TopLevel THEN values[s] ELSE v6.batch[b][s]]
<1>1. v1' = [r \in DOMAIN v1 |-> IF r = b THEN new ELSE v1[r]]
  BY DEF FlexForm!Save
<1>2. b \in DOMAIN v6.batch /\ b \in DOMAIN v1 /\ v6.batch[b] \in Payloads
  BY CurrentIsFirst DEF FilesInv, CommandTypes
<1>3. new \in Payloads /\ (\A s \in FlexForm!TopLevel : new[s] = values[s]) /\ new["nested"] = v6.batch[b]["nested"]
  BY <1>2 DEF FlexForm!TopLevel, FlexForm!Slots, Flex!Slots, Payloads
<1> HIDE DEF new
<1>4. DOMAIN v1' = DOMAIN v1 /\ v1'[b] = new /\ \A r \in DOMAIN v1 : r # b => v1'[r] = v1[r]
  BY <1>1, <1>2
<1>5. v1' \in [DOMAIN v1' -> Payloads]
  BY <1>1, <1>2, <1>3 DEF FilesInv, FileTypes
<1>6. QED
  BY <1>2, <1>3, <1>4, <1>5

\* _convert_record: what was inline is a row of the record, with the same content.
LEMMA FilesConvert ==
  ASSUME FilesInv, FlexForm!Convert, NEW b, b = FlexForm!Current
  PROVE  /\ FilesInv' /\ v6.mode = "forward" /\ b \in DOMAIN v6.batch
         /\ UNCHANGED <<v2, v5, v7, v8, v9>> /\ DOMAIN v1' = DOMAIN v1
         /\ v6'.mode = v6.mode /\ v6'.pk = b /\ v6'.batch = FlexForm!Rest /\ v6'.owned = {}
         /\ v6'.keepGoing = v6.keepGoing /\ v6'.failed = v6.failed
         /\ \A r \in DOMAIN v1 : r # b => v1'[r] = v1[r]
         /\ \A v, q : Found(v, q) => Found(v, q)'
         /\ v1'[b]["nested"] = v1[b]["nested"] \/ v1'[b]["nested"] = v6.batch[b]["nested"]
         /\ \/ v1'[b] = v1[b] /\ \A s \in FlexForm!TopLevel : v6.batch[b][s].kind # "inline"
            \/ \A s \in FlexForm!TopLevel :
                 /\ v6.batch[b][s].kind # "inline" => v1'[b][s] = v6.batch[b][s]
                 /\ v6.batch[b][s].kind = "inline" =>
                      /\ v1'[b][s].kind = "ref" /\ v1'[b][s].row \in v3'
                      /\ v1'[b][s].row.content = v6.batch[b][s].content
<1> DEFINE C == FlexForm!InlineContents
           values == [s \in FlexForm!TopLevel |->
                        IF v6.batch[b][s].kind = "inline"
                          THEN Flex!Ref(Flex!RowFor(b, v6.batch[b][s].content)) ELSE v6.batch[b][s]]
<1>1. /\ v6.mode = "forward" /\ v6.batch # <<>> /\ v3' = Flex!Stored(b, C) /\ v4' = v4 + 1
      /\ IF C = {} THEN v1' = v1 ELSE FlexForm!Save(values)
      /\ v6' = FlexForm!Advanced /\ UNCHANGED <<v2, v5, v7, v8, v9, v10, v11>>
  BY SameFiles DEF FlexForm!Convert, FlexForm!Loaded
<1>2. b \in DOMAIN v6.batch /\ b \in DOMAIN v1 /\ b \in 1..v2 /\ b \in Nat /\ v6.batch[b] \in Payloads
  BY <1>1, CurrentIsFirst DEF FilesInv, FileTypes, CommandTypes
<1>3. C \in SUBSET FlexContents
  BY <1>1, InlineOf
<1>4. /\ v3 \subseteq v3' /\ \A c \in C : Flex!RowFor(b, c) \in v3' /\ Flex!RowFor(b, c).owner = b
      /\ \A w \in v3' : w \in FileRows /\ w.id \in 1..v4' /\ w.owner \in 1..v2'
      /\ \A v, q : Found(v, q) => Found(v, q)'
  <2>1. FileTypes /\ v2' \in Nat /\ v2 <= v2' /\ b \in 1..v2'
    BY <1>1, <1>2 DEF FilesInv, FileTypes
  <2> HIDE DEF C
  <2>2. QED
    BY <1>1, <1>2, <1>3, <2>1, RowsStored
<1>5. \A s \in FlexForm!TopLevel : v6.batch[b][s].kind = "inline" => v6.batch[b][s].content \in C
  BY DEF FlexForm!InlineContents
<1>6. \A c \in C : Flex!RowFor(b, c) \in FileRows /\ Flex!RowFor(b, c).content = c
  BY <1>2, <1>3, RowIsRight DEF FilesInv
<1>7. \A s \in FlexForm!TopLevel : v6.batch[b][s] \in FileVals
  BY <1>2 DEF Payloads, FlexForm!TopLevel, Flex!Slots
<1>8. ASSUME NEW s \in FlexForm!TopLevel
      PROVE  /\ values[s] \in FileVals
             /\ v6.batch[b][s].kind # "inline" => values[s] = v6.batch[b][s]
             /\ v6.batch[b][s].kind = "inline" =>
                  /\ values[s].kind = "ref" /\ values[s].row \in v3' /\ values[s].row.owner = b
                  /\ values[s].row.content = v6.batch[b][s].content
  <2>1. CASE v6.batch[b][s].kind = "inline"
    <3> DEFINE w == Flex!RowFor(b, v6.batch[b][s].content)
    <3>1. w \in v3' /\ w.owner = b /\ w \in FileRows /\ w.content = v6.batch[b][s].content
      BY <1>4, <1>5, <1>6, <2>1
    <3>2. values[s] = Flex!Ref(w)
      BY <2>1
    <3> HIDE DEF w, values
    <3>3. QED
      BY <2>1, <3>1, <3>2, FileValues
  <2>2. CASE v6.batch[b][s].kind # "inline"
    BY <1>7, <2>2
  <2>3. QED
    BY <2>1, <2>2
<1> HIDE DEF values
<1>9. /\ DOMAIN v1' = DOMAIN v1 /\ v1' \in [DOMAIN v1' -> Payloads]
      /\ \A r \in DOMAIN v1 : r # b => v1'[r] = v1[r]
      /\ \/ v1' = v1 /\ C = {}
         \/ /\ \A s \in FlexForm!TopLevel : v1'[b][s] = values[s]
            /\ v1'[b]["nested"] = v6.batch[b]["nested"]
  <2>1. CASE C = {}
    BY <1>1, <2>1 DEF FilesInv, FileTypes
  <2>2. CASE C # {}
    <3>1. FlexForm!Save(values)
      BY <1>1, <2>2
    <3>2. /\ DOMAIN v1' = DOMAIN v1 /\ b \in DOMAIN v1 /\ v1' \in [DOMAIN v1' -> Payloads]
          /\ \A r \in DOMAIN v1 : r # b => v1'[r] = v1[r]
          /\ \A s \in FlexForm!TopLevel : v1'[b][s] = values[s]
          /\ v1'[b]["nested"] = v6.batch[b]["nested"]
      BY <1>1, <1>8, <3>1, PayloadSaved
    <3>3. QED
      BY <3>2
  <2>3. QED
    BY <2>1, <2>2
<1>10. /\ CommandTypes' /\ \A r \in DOMAIN v6'.batch, s \in Flex!Slots : \A v : v = v6'.batch[r][s] => Found(v, r)'
       /\ v6'.mode = v6.mode /\ v6'.pk = b /\ v6'.batch = FlexForm!Rest /\ v6'.owned = {}
       /\ v6'.keepGoing = v6.keepGoing
  BY <1>1, <1>4, <1>9, CommandAdvances
<1>11. v6'.failed = v6.failed
  BY <1>1 DEF FlexForm!Advanced, FilesInv, CommandTypes
<1>12. FileTypes'
  <2>1. v4' \in Nat
    BY <1>1 DEF FilesInv, FileTypes
  <2>2. QED
    BY <1>1, <1>4, <1>9, <2>1 DEF FilesInv, FileTypes
<1>13. ASSUME NEW r \in DOMAIN v1, NEW s \in Flex!Slots, NEW v, v = v1'[r][s] PROVE Found(v, r)'
  <2>1. CASE r # b \/ v1' = v1
    BY <1>4, <1>9, <1>13, <2>1 DEF FilesInv, Resolved
  <2>2. CASE r = b /\ v1' # v1
    <3>1. ASSUME s \in FlexForm!TopLevel PROVE Found(v, r)'
      <4>1. v = values[s]
        BY <1>9, <1>13, <2>2, <3>1
      <4>2. CASE v6.batch[b][s].kind = "inline"
        BY <1>8, <2>2, <3>1, <4>1, <4>2 DEF Found
      <4>3. CASE v6.batch[b][s].kind # "inline"
        <5>1. v = v6.batch[b][s]
          BY <1>8, <3>1, <4>1, <4>3
        <5>2. Found(v, b)
          BY <1>2, <5>1 DEF FilesInv, Resolved
        <5>3. QED
          BY <1>4, <2>2, <5>2
      <4>4. QED
        BY <4>2, <4>3
    <3>2. ASSUME s \notin FlexForm!TopLevel PROVE Found(v, r)'
      <4>1. s = "nested"
        BY <3>2 DEF FlexForm!TopLevel, Flex!Slots
      <4>2. v = v6.batch[b]["nested"]
        BY <1>9, <1>13, <2>2, <4>1
      <4>3. Found(v, b)
        BY <1>2, <4>1, <4>2 DEF FilesInv, Resolved
      <4>4. QED
        BY <1>4, <2>2, <4>3
    <3>3. QED
      BY <3>1, <3>2
  <2>3. QED
    BY <2>1, <2>2
<1>14. Resolved'
  <2>1. (\A r \in DOMAIN v1, s \in Flex!Slots : Found(v1[r][s], r))'
    BY <1>9, <1>13 DEF Found
  <2>2. (\A r \in DOMAIN v6.batch, s \in Flex!Slots : Found(v6.batch[r][s], r))'
    BY <1>10 DEF Found
  <2>3. (v9 # Flex!Closed => Found(v9.flex, v9.pk))'
    <3> SUFFICES ASSUME v9 # Flex!Closed, NEW k, k = v9.pk, NEW v, v = v9.flex PROVE Found(v, k)'
      BY <1>1 DEF Found
    <3>1. Found(v, k)
      BY DEF FilesInv, Resolved
    <3>2. QED
      BY <1>4, <3>1
  <2>4. QED
    BY <2>1, <2>2, <2>3 DEF Resolved
<1>15. /\ v1'[b]["nested"] = v1[b]["nested"] \/ v1'[b]["nested"] = v6.batch[b]["nested"]
       /\ \/ v1'[b] = v1[b] /\ \A s \in FlexForm!TopLevel : v6.batch[b][s].kind # "inline"
          \/ \A s \in FlexForm!TopLevel :
               /\ v6.batch[b][s].kind # "inline" => v1'[b][s] = v6.batch[b][s]
               /\ v6.batch[b][s].kind = "inline" =>
                    /\ v1'[b][s].kind = "ref" /\ v1'[b][s].row \in v3'
                    /\ v1'[b][s].row.content = v6.batch[b][s].content
  <2>1. CASE v1' = v1 /\ C = {}
    <3>1. \A s \in FlexForm!TopLevel : v6.batch[b][s].kind # "inline"
      BY <1>5, <2>1
    <3>2. QED
      BY <2>1, <3>1
  <2>2. CASE (\A s \in FlexForm!TopLevel : v1'[b][s] = values[s]) /\ v1'[b]["nested"] = v6.batch[b]["nested"]
    BY <1>8, <2>2
  <2>3. QED
    BY <1>9, <2>1, <2>2
<1>16. QED
  BY <1>1, <1>2, <1>4, <1>9, <1>10, <1>11, <1>12, <1>14, <1>15 DEF FilesInv

\* A step of the command that leaves the tables alone.
LEMMA CommandOnly ==
  ASSUME FilesInv, UNCHANGED <<v1, v2, v3, v4, v5, v8, v9, v10, v11>>, CommandTypes',
         \A r \in DOMAIN v6'.batch : r \in DOMAIN v6.batch /\ v6'.batch[r] = v6.batch[r]
  PROVE  FilesInv'
<1>1. FileTypes'
  BY DEF FilesInv, FileTypes
<1>2. (\A r \in DOMAIN v6.batch, s \in Flex!Slots : Found(v6.batch[r][s], r))'
  BY DEF FilesInv, Resolved, Found
<1>3. Resolved'
  BY <1>2 DEF FilesInv, Resolved, Found
<1>4. QED
  BY <1>1, <1>3 DEF FilesInv

LEMMA FilesReadRows ==
  ASSUME FilesInv, FlexForm!ReadRows, NEW b, b = FlexForm!Current, NEW owned, owned = {w \in v3 : w.owner = b}
  PROVE  /\ FilesInv' /\ v6.mode = "reverse" /\ b \in DOMAIN v6.batch
         /\ v6'.mode = v6.mode /\ v6'.keepGoing = v6.keepGoing /\ v6'.failed = v6.failed
         /\ UNCHANGED <<v1, v2, v3, v4, v5, v7, v8, v9>>
         /\ \/ owned = {} /\ v6'.pk = b /\ v6'.batch = FlexForm!Rest /\ v6'.owned = {}
            \/ v6'.pk = v6.pk /\ v6'.batch = v6.batch /\ v6'.owned = owned
<1>1. /\ v6.mode = "reverse" /\ v6.batch # <<>>
      /\ UNCHANGED <<v1, v2, v3, v4, v5, v7, v8, v9, v10, v11>>
      /\ v6' = IF owned = {} THEN FlexForm!Advanced ELSE [v6 EXCEPT !.owned = owned]
  BY DEF FlexForm!ReadRows, FlexForm!Loaded
<1>2. b \in DOMAIN v6.batch
  BY <1>1, CurrentIsFirst
<1>3. DOMAIN v6 = {"mode", "batch", "pk", "owned", "failed", "keepGoing"}
  BY DEF FilesInv, CommandTypes
<1>4. CASE owned = {}
  <2>1. v6' = FlexForm!Advanced /\ DOMAIN v1' = DOMAIN v1 /\ \A v, r : Found(v, r) => Found(v, r)'
    BY <1>1, <1>4 DEF Found
  <2>2. /\ CommandTypes'
        /\ v6'.mode = v6.mode /\ v6'.pk = b /\ v6'.batch = FlexForm!Rest /\ v6'.owned = {}
        /\ v6'.keepGoing = v6.keepGoing
    BY <1>1, <2>1, CommandAdvances
  <2>3. v6'.failed = v6.failed
    BY <1>3, <2>1 DEF FlexForm!Advanced
  <2>4. \A r \in DOMAIN v6'.batch : r \in DOMAIN v6.batch /\ v6'.batch[r] = v6.batch[r]
    BY <1>1, <2>2, RestOf
  <2>5. FilesInv'
    BY <1>1, <2>2, <2>4, CommandOnly
  <2>6. QED
    BY <1>1, <1>2, <1>4, <2>2, <2>3, <2>5
<1>5. CASE owned # {}
  <2>1. v6' = [v6 EXCEPT !.owned = owned]
    BY <1>1, <1>5
  <2>2. /\ DOMAIN v6' = DOMAIN v6 /\ v6'.mode = v6.mode /\ v6'.pk = v6.pk /\ v6'.batch = v6.batch
        /\ v6'.owned = owned /\ v6'.keepGoing = v6.keepGoing /\ v6'.failed = v6.failed
    BY <1>3, <2>1
  <2>3. CommandTypes'
    BY <1>1, <2>2 DEF FilesInv, CommandTypes
  <2>4. FilesInv'
    BY <1>1, <2>2, <2>3, CommandOnly
  <2>5. QED
    BY <1>1, <1>2, <2>2, <2>4
<1>6. QED
  BY <1>4, <1>5

\* _restore_record: with the form closed, only the values of the record name the rows that go.
LEMMA FilesRestore ==
  ASSUME FilesInv, FlexForm!Restore, v9 = Flex!Closed, NEW b, b = FlexForm!Current,
         v6.owned = {w \in v3 : w.owner = b}, v6.batch[b]["nested"].kind # "ref"
  PROVE  /\ FilesInv' /\ v6.mode = "reverse" /\ b \in DOMAIN v6.batch
         /\ UNCHANGED <<v2, v5, v7, v8, v9>> /\ DOMAIN v1' = DOMAIN v1
         /\ v6'.mode = v6.mode /\ v6'.pk = b /\ v6'.batch = FlexForm!Rest /\ v6'.owned = {}
         /\ v6'.keepGoing = v6.keepGoing /\ v6'.failed = v6.failed
         /\ v3' = {w \in v3 : w.owner # b}
         /\ \A r \in DOMAIN v1 : r # b => v1'[r] = v1[r]
         /\ \A v, q : Found(v, q) /\ q # b => Found(v, q)'
         /\ v1'[b]["nested"] = v6.batch[b]["nested"]
         /\ \A s \in FlexForm!TopLevel :
              /\ v6.batch[b][s].kind # "ref" => v1'[b][s] = v6.batch[b][s]
              /\ v6.batch[b][s].kind = "ref" =>
                   v1'[b][s].kind = "inline" /\ v1'[b][s].content = v6.batch[b][s].row.content
<1> DEFINE values == [s \in FlexForm!TopLevel |->
                        IF v6.batch[b][s].kind = "ref" /\ v6.batch[b][s].row \in v6.owned
                          THEN Flex!Inline(v6.batch[b][s].row.content) ELSE v6.batch[b][s]]
<1>1. /\ v6.mode = "reverse" /\ v6.batch # <<>> /\ v3' = v3 \ v6.owned /\ FlexForm!Save(values)
      /\ v6' = FlexForm!Advanced /\ UNCHANGED <<v2, v4, v5, v7, v8, v9, v10, v11>>
  BY DEF FlexForm!Restore, FlexForm!Loaded, FlexForm!Inline, Flex!Inline
<1>2. b \in DOMAIN v6.batch /\ b \in DOMAIN v1 /\ v6.batch[b] \in Payloads
  BY <1>1, CurrentIsFirst DEF FilesInv, CommandTypes
<1>3. v3' = {w \in v3 : w.owner # b}
  BY <1>1
<1>4. \A v, q : Found(v, q) /\ q # b => Found(v, q)'
  BY <1>3 DEF Found
<1>5. \A s \in FlexForm!TopLevel : v6.batch[b][s] \in FileVals /\ Found(v6.batch[b][s], b)
  BY <1>2 DEF Payloads, FlexForm!TopLevel, Flex!Slots, FilesInv, Resolved
<1>6. ASSUME NEW s \in FlexForm!TopLevel
      PROVE  /\ values[s] \in FileVals
             /\ v6.batch[b][s].kind # "ref" => values[s] = v6.batch[b][s]
             /\ v6.batch[b][s].kind = "ref" =>
                  values[s].kind = "inline" /\ values[s].content = v6.batch[b][s].row.content
  <2> DEFINE x == v6.batch[b][s]
  <2>1. x \in FileVals /\ Found(x, b)
    BY <1>5
  <2>2. CASE x.kind = "ref"
    <3>1. x.row \in v3 /\ x.row.owner = b /\ x.row \in FileRows
      BY <2>1, <2>2, FileValues DEF Found
    <3>2. values[s] = Flex!Inline(x.row.content)
      BY <2>2, <3>1
    <3>3. x.row.content \in FlexContents
      BY <3>1 DEF FileRows
    <3> HIDE DEF x, values
    <3>4. QED
      BY <2>2, <3>2, <3>3, FileValues DEF x
  <2>3. CASE x.kind # "ref"
    BY <2>1, <2>3
  <2>4. QED
    BY <2>2, <2>3
<1> HIDE DEF values
<1>7. /\ DOMAIN v1' = DOMAIN v1 /\ v1' \in [DOMAIN v1' -> Payloads]
      /\ \A r \in DOMAIN v1 : r # b => v1'[r] = v1[r]
      /\ \A s \in FlexForm!TopLevel : v1'[b][s] = values[s]
      /\ v1'[b]["nested"] = v6.batch[b]["nested"]
  BY <1>1, <1>6, PayloadSaved
<1>8. /\ CommandTypes' /\ \A r \in DOMAIN v6'.batch, s \in Flex!Slots : \A v : v = v6'.batch[r][s] => Found(v, r)'
      /\ v6'.mode = v6.mode /\ v6'.pk = b /\ v6'.batch = FlexForm!Rest /\ v6'.owned = {}
      /\ v6'.keepGoing = v6.keepGoing
  BY <1>1, <1>4, <1>7, CommandAdvances
<1>9. v6'.failed = v6.failed
  BY <1>1 DEF FlexForm!Advanced, FilesInv, CommandTypes
<1>10. FileTypes'
  BY <1>1, <1>3, <1>7 DEF FilesInv, FileTypes
<1>11. \A s \in FlexForm!TopLevel : v1'[b][s].kind # "ref"
  <2> TAKE s \in FlexForm!TopLevel
  <2>1. v1'[b][s] = values[s]
    BY <1>7
  <2>2. QED
    BY <1>6, <2>1
<1>12. Resolved'
  <2>1. ASSUME NEW r \in DOMAIN v1, NEW s \in Flex!Slots, NEW v, v = v1'[r][s] PROVE Found(v, r)'
    <3>1. CASE r = b
      BY <1>7, <1>11, <2>1, <3>1 DEF Found, Flex!Slots, FlexForm!TopLevel
    <3>2. CASE r # b
      BY <1>4, <1>7, <2>1, <3>2 DEF FilesInv, Resolved
    <3>3. QED
      BY <3>1, <3>2
  <2>2. (\A r \in DOMAIN v1, s \in Flex!Slots : Found(v1[r][s], r))'
    BY <1>7, <2>1 DEF Found
  <2>3. (\A r \in DOMAIN v6.batch, s \in Flex!Slots : Found(v6.batch[r][s], r))'
    BY <1>8 DEF Found
  <2>4. QED
    BY <1>1, <2>2, <2>3 DEF Resolved
<1>13. ASSUME NEW s \in FlexForm!TopLevel
       PROVE  /\ v6.batch[b][s].kind # "ref" => v1'[b][s] = v6.batch[b][s]
              /\ v6.batch[b][s].kind = "ref" =>
                   v1'[b][s].kind = "inline" /\ v1'[b][s].content = v6.batch[b][s].row.content
  <2>1. v1'[b][s] = values[s]
    BY <1>7
  <2>2. QED
    BY <1>6, <2>1
<1>14. FilesInv'
  BY <1>8, <1>10, <1>12 DEF FilesInv
<1>15. QED
  BY <1>1, <1>2, <1>3, <1>4, <1>7, <1>8, <1>9, <1>13, <1>14

LEMMA FilesFail ==
  ASSUME FilesInv, FlexForm!FailRecord, NEW b, b = FlexForm!Current
  PROVE  /\ FilesInv' /\ UNCHANGED <<v1, v2, v3, v4, v5, v8, v9>>
         /\ v6.batch # <<>> /\ b \in DOMAIN v6.batch
         /\ \/ /\ v7' = v7 /\ v6'.mode = v6.mode /\ v6'.pk = b /\ v6'.batch = FlexForm!Rest /\ v6'.owned = {}
               /\ v6'.keepGoing /\ v6'.failed
            \/ v6' = Flex!Off /\ v7' = [mode |-> v6.mode, pk |-> b - 1] /\ ~v6.keepGoing
<1>1. v6.batch # <<>> /\ UNCHANGED <<v1, v2, v3, v4, v5, v8, v9, v10, v11>>
  BY DEF FlexForm!FailRecord
<1>2. b \in DOMAIN v6.batch
  BY <1>1, CurrentIsFirst
<1>3. CASE v6.keepGoing /\ v6' = [FlexForm!Advanced EXCEPT !.failed = TRUE] /\ v7' = v7
  <2>1. DOMAIN v1' = DOMAIN v1 /\ \A v, r : Found(v, r) => Found(v, r)'
    BY <1>1 DEF Found
  <2>2. /\ CommandTypes'
        /\ v6'.mode = v6.mode /\ v6'.pk = b /\ v6'.batch = FlexForm!Rest /\ v6'.owned = {}
        /\ v6'.keepGoing = v6.keepGoing
    BY <1>1, <1>3, <2>1, CommandAdvances
  <2>3. v6'.failed
    BY <1>3 DEF FlexForm!Advanced, FilesInv, CommandTypes
  <2>4. \A r \in DOMAIN v6'.batch : r \in DOMAIN v6.batch /\ v6'.batch[r] = v6.batch[r]
    BY <1>1, <2>2, RestOf
  <2>5. FilesInv'
    BY <1>1, <2>2, <2>4, CommandOnly
  <2>6. v6'.keepGoing
    BY <1>3, <2>2
  <2>7. QED
    BY <1>1, <1>2, <1>3, <2>2, <2>3, <2>5, <2>6
<1>4. CASE ~v6.keepGoing /\ v6' = Flex!Off /\ v7' = [mode |-> v6.mode, pk |-> b - 1]
  BY <1>1, <1>2, <1>4, CommandStops, CommandOnly
<1>5. QED
  BY <1>3, <1>4, SameFiles DEF FlexForm!FailRecord

LEMMA FilesStop ==
  ASSUME FilesInv, FlexForm!StopAtLimit \/ FlexForm!Kill
  PROVE  /\ FilesInv' /\ v6' = Flex!Off /\ UNCHANGED <<v1, v2, v3, v4, v5, v8, v9>>
         /\ v7' = v7 \/ v7' = [mode |-> "off", pk |-> 0] \/ (~v6.failed /\ v7' = [mode |-> v6.mode, pk |-> v6.pk])
<1>1. v6' = Flex!Off /\ UNCHANGED <<v1, v2, v3, v4, v5, v8, v9, v10, v11>>
  BY SameFiles DEF FlexForm!StopAtLimit, FlexForm!Kill
<1>2. CommandTypes' /\ DOMAIN v6'.batch = {}
  BY <1>1, CommandStops
<1>3. FilesInv'
  BY <1>1, <1>2, CommandOnly
<1>4. QED
  BY <1>1, <1>3 DEF FlexForm!StopAtLimit, FlexForm!Kill, FlexForm!NoHint

\* _drop_orphan_rows takes no row that a record owns; no form is open on a record that is gone.
LEMMA FilesFinish ==
  ASSUME FilesInv, FlexForm!Finish
  PROVE  /\ FilesInv' /\ v6' = Flex!Off /\ UNCHANGED <<v1, v2, v4, v5, v7, v9>>
         /\ v6.mode # "off" /\ FlexForm!Candidates = {}
         /\ v3' = IF v6.mode = "forward" THEN v3 ELSE {w \in v3 : w.owner \in DOMAIN v1}
         /\ v8' = "none" \/ (~v6.failed /\ v8' = v6.mode)
<1>1. /\ v6' = Flex!Off /\ UNCHANGED <<v1, v2, v4, v5, v7, v9, v10, v11>>
      /\ v6.mode # "off" /\ FlexForm!Candidates = {}
      /\ v3' = IF v6.mode = "forward" THEN v3 ELSE {w \in v3 : w.owner \in DOMAIN v1}
      /\ v8' = "none" \/ (~v6.failed /\ v8' = v6.mode)
  BY SameFiles DEF FlexForm!Finish, FlexForm!Idle
<1>2. CommandTypes' /\ DOMAIN v6'.batch = {}
  BY <1>1, CommandStops
<1>3. v3' \subseteq v3 /\ \A v : \A q \in DOMAIN v1 : Found(v, q) => Found(v, q)'
  BY <1>1 DEF Found
<1>4. v8' \in {"none", "forward", "reverse"}
  BY <1>1 DEF FilesInv, CommandTypes
<1>5. FileTypes'
  BY <1>1, <1>3, <1>4 DEF FilesInv, FileTypes
<1>6. (\A r \in DOMAIN v1, s \in Flex!Slots : Found(v1[r][s], r))'
  BY <1>1, <1>3 DEF FilesInv, Resolved, Found
<1>7. (v9 # Flex!Closed => Found(v9.flex, v9.pk))'
  <2> SUFFICES ASSUME v9 # Flex!Closed, NEW k, k = v9.pk, NEW v, v = v9.flex PROVE Found(v, k)'
    BY <1>1 DEF Found
  <2>1. Found(v, k) /\ k \in DOMAIN v1
    BY DEF FilesInv, Resolved, FileTypes
  <2>2. QED
    BY <1>3, <2>1
<1>8. Resolved'
  BY <1>2, <1>6, <1>7 DEF Resolved
<1>9. QED
  BY <1>1, <1>2, <1>5, <1>8 DEF FilesInv

-----------------------------------------------------------------------------
(* FlexForm: runs forward only, beside imports and the form.                  *)

FormInv == FilesInv /\ v6.mode # "reverse"

LEMMA FormBegins == FlexForm!Init => FormInv
BY FilesBegin, SameFiles, NothingLoaded DEF FormInv, FlexForm!Init

LEMMA FormKept == FormInv /\ [FlexForm!Next]_(FlexForm!vars) => FormInv'
<1> SUFFICES ASSUME FormInv, [FlexForm!Next]_(FlexForm!vars) PROVE FormInv'
  OBVIOUS
<1>1. FilesInv /\ v6.mode # "reverse"
  BY DEF FormInv
<1>2. CASE UNCHANGED FlexForm!vars
  BY <1>1, <1>2 DEF FormInv, FlexForm!vars, FilesInv, FileTypes, CommandTypes, Resolved, Found
<1>3. ASSUME NEW c \in FlexContents, FlexForm!Import(c) PROVE FormInv'
  BY <1>1, <1>3, FilesImport DEF FormInv, FlexForm!Import
<1>4. ASSUME NEW c \in FlexContents, FlexForm!Upload(c) PROVE FormInv'
  BY <1>1, <1>4, FilesUpload DEF FormInv, FlexForm!Upload
<1>5. ASSUME NEW r \in DOMAIN v1, FlexForm!Delete(r) PROVE FormInv'
  BY <1>1, <1>5, FilesDelete DEF FormInv, FlexForm!Delete
<1>6. ASSUME NEW r \in DOMAIN v1, FlexForm!OpenForm(r) PROVE FormInv'
  BY <1>1, <1>6, FilesOpen DEF FormInv, FlexForm!OpenForm
<1>7. CASE FlexForm!SaveForm
  BY <1>1, <1>7, FilesSave DEF FormInv, FlexForm!SaveForm
<1>8. ASSUME NEW from \in 0..FlexRecords, FlexForm!Begin("forward", from) PROVE FormInv'
  <2>1. "forward" \in {"forward", "reverse"}
    OBVIOUS
  <2>2. QED
    BY <1>1, <1>8, <2>1, FilesBeginRun DEF FormInv
<1>9. CASE FlexForm!LoadBatch
  BY <1>1, <1>9, FilesLoad DEF FormInv
<1>10. CASE FlexForm!Convert
  BY <1>1, <1>10, FilesConvert DEF FormInv
<1>11. CASE FlexForm!ReadRows \/ FlexForm!Restore
  BY <1>1, <1>11 DEF FlexForm!ReadRows, FlexForm!Restore, FlexForm!Loaded
<1>12. CASE FlexForm!FailRecord
  BY <1>1, <1>12, FilesFail, NothingLoaded DEF FormInv
<1>13. CASE FlexForm!StopAtLimit \/ FlexForm!Kill \/ FlexForm!Finish
  BY <1>1, <1>13, FilesStop, FilesFinish, NothingLoaded DEF FormInv
<1>14. QED
  BY <1>2, <1>3, <1>4, <1>5, <1>6, <1>7, <1>8, <1>9, <1>10, <1>11, <1>12, <1>13 DEF FlexForm!Next, FlexForm!Run

LEMMA FormMeans == FormInv => FlexForm!TypeOK /\ FlexForm!ReferencesResolve
<1> SUFFICES ASSUME FilesInv PROVE FlexForm!TypeOK /\ FlexForm!ReferencesResolve
  BY DEF FormInv
<1>1. FlexForm!TypeOK
  <2>1. v9.pk \in 0..v2
    BY DEF FilesInv, FileTypes, Flex!Closed
  <2>2. \A w \in v3 : w.id \in 1..v4 /\ w.owner \in 1..v2 /\ w.content \in FlexContents
    BY DEF FilesInv, FileTypes, FileRows
  <2>3. QED
    BY <2>1, <2>2 DEF FilesInv, FileTypes, CommandTypes, FlexForm!TypeOK
<1>2. FlexForm!ReferencesResolve
  BY SameFiles DEF FilesInv, Resolved, Found, FlexForm!ReferencesResolve
<1>3. QED
  BY <1>1, <1>2

-----------------------------------------------------------------------------
(* Flex: both directions, by a command that runs alone.  What it loaded is    *)
(* what the records hold, and all it went past without a failure is moved;    *)
(* so is what the hint of a run that stopped went past.                       *)

\* Nothing of the record is left to move.
Moved(mode, r) ==
  IF mode = "forward" THEN \A s \in Flex!Slots : v1[r][s].kind # "inline"
  ELSE \A w \in v3 : w.owner # r

Holds(v, c) ==
  /\ v.kind = "inline" => v.content = c
  /\ v.kind = "ref" => v.row.content = c
  /\ v.kind = "none" => c = ""

FlexKeeps ==
  \A r \in DOMAIN v1 :
    /\ v1[r]["nested"].kind = "none" /\ DOMAIN v5[r] = Flex!Slots
    /\ \A s \in Flex!Slots : Holds(v1[r][s], v5[r][s])

\* Who runs, runs alone.
FlexAlone ==
  /\ v6.mode # "off" => v9 = Flex!Closed /\ v8 = "none" /\ v7.mode = "off"
  /\ v9 # Flex!Closed => v9.flex = v1[v9.pk]["flex"]
  /\ \A r \in DOMAIN v6.batch : v6.batch[r] = v1[r]
  /\ v6.owned # {} => v6.batch # <<>> /\ v6.owned = {w \in v3 : w.owner = Flex!Current}
  /\ v6.failed => v6.keepGoing
  /\ v7.mode \in {"off", "forward", "reverse"}

FlexMoved ==
  /\ v6.mode # "off" /\ ~v6.failed =>
       \A r \in DOMAIN v1 :
         r <= v6.pk \/ (\E b \in DOMAIN v6.batch : r < b /\ r \notin DOMAIN v6.batch) => Moved(v6.mode, r)
  /\ v7.mode # "off" => \A r \in DOMAIN v1 : r <= v7.pk => Moved(v7.mode, r)
  /\ v8 = "forward" => \A r \in DOMAIN v1 : Moved("forward", r)
  /\ v8 = "reverse" => v3 = {}

FlexInv == FilesInv /\ FlexKeeps /\ FlexAlone /\ FlexMoved

\* Apart from imports, the steps of Flex are steps of FlexForm.
LEMMA FlexIsForm ==
  /\ Flex!Current = FlexForm!Current /\ Flex!Rest = FlexForm!Rest /\ Flex!TopLevel = FlexForm!TopLevel
  /\ \A r : (Flex!Delete(r) => FlexForm!Delete(r)) /\ (Flex!OpenForm(r) => FlexForm!OpenForm(r))
  /\ \A mode, from : Flex!Begin(mode, from) => FlexForm!Begin(mode, from)
  /\ Flex!SaveForm => FlexForm!SaveForm
<1>1. Flex!Current = FlexForm!Current /\ Flex!TopLevel = FlexForm!TopLevel
  BY DEF Flex!Current, FlexForm!Current, Flex!Min, FlexForm!Min, Flex!TopLevel, FlexForm!TopLevel
<1>2. Flex!Rest = FlexForm!Rest
  BY <1>1 DEF Flex!Rest, FlexForm!Rest, Flex!Values, FlexForm!Values
<1>3. ASSUME NEW r PROVE Flex!Delete(r) => FlexForm!Delete(r)
  BY DEF Flex!Delete, FlexForm!Delete, Flex!Values, FlexForm!Values, Flex!Off, FlexForm!Off, Flex!Closed, FlexForm!Closed,
         Flex!None, FlexForm!None, Flex!NoHint, FlexForm!NoHint
<1>4. ASSUME NEW r PROVE Flex!OpenForm(r) => FlexForm!OpenForm(r)
  BY DEF Flex!OpenForm, FlexForm!OpenForm, Flex!Off, FlexForm!Off, Flex!Closed, FlexForm!Closed,
         Flex!None, FlexForm!None
<1>5. ASSUME NEW mode, NEW from PROVE Flex!Begin(mode, from) => FlexForm!Begin(mode, from)
  BY DEF Flex!Begin, FlexForm!Begin, Flex!Off, FlexForm!Off, Flex!Closed, FlexForm!Closed,
         Flex!None, FlexForm!None, Flex!NoHint, FlexForm!NoHint
<1>6. Flex!SaveForm => FlexForm!SaveForm
  BY DEF Flex!SaveForm, FlexForm!SaveForm, Flex!Closed, FlexForm!Closed,
         Flex!None, FlexForm!None, Flex!NoHint, FlexForm!NoHint
<1>7. QED
  BY <1>1, <1>2, <1>3, <1>4, <1>5, <1>6

LEMMA RunIsForm ==
  /\ Flex!Candidates = FlexForm!Candidates
  /\ Flex!LoadBatch => FlexForm!LoadBatch
  /\ Flex!Convert => FlexForm!Convert
  /\ Flex!ReadRows => FlexForm!ReadRows
  /\ Flex!Restore => FlexForm!Restore
  /\ Flex!FailRecord => FlexForm!FailRecord
  /\ Flex!StopAtLimit => FlexForm!StopAtLimit
  /\ Flex!Kill => FlexForm!Kill
  /\ Flex!Finish => FlexForm!Finish
<1>1. Flex!Candidates = FlexForm!Candidates
  BY DEF Flex!Candidates, FlexForm!Candidates, Flex!Slots, FlexForm!Slots
<1>2. Flex!Idle = FlexForm!Idle
  BY DEF Flex!Idle, FlexForm!Idle
<1>3. Flex!Advanced = FlexForm!Advanced
  BY FlexIsForm DEF Flex!Advanced, FlexForm!Advanced
<1>4. Flex!InlineContents = FlexForm!InlineContents
  BY FlexIsForm DEF Flex!InlineContents, FlexForm!InlineContents
<1>5. \A values : Flex!Save(values) = FlexForm!Save(values)
  BY FlexIsForm, SameFiles DEF Flex!Save, FlexForm!Save
<1>6. Flex!LoadBatch => FlexForm!LoadBatch
  BY <1>1, <1>2 DEF Flex!LoadBatch, FlexForm!LoadBatch, Flex!Values, FlexForm!Values,
                    Flex!Cardinality, FlexForm!Cardinality
<1>7. Flex!Convert => FlexForm!Convert
  BY <1>3, <1>4, <1>5, FlexIsForm, SameFiles DEF Flex!Convert, FlexForm!Convert, Flex!Loaded, FlexForm!Loaded
<1>8. Flex!ReadRows => FlexForm!ReadRows
  BY <1>3, FlexIsForm DEF Flex!ReadRows, FlexForm!ReadRows, Flex!Loaded, FlexForm!Loaded
<1>9. Flex!Restore => FlexForm!Restore
  BY <1>3, <1>5, FlexIsForm DEF Flex!Restore, FlexForm!Restore, Flex!Loaded, FlexForm!Loaded, Flex!Inline, FlexForm!Inline
<1>10. Flex!FailRecord => FlexForm!FailRecord
  BY <1>3, FlexIsForm, SameFiles DEF Flex!FailRecord, FlexForm!FailRecord
<1>11. (Flex!StopAtLimit => FlexForm!StopAtLimit) /\ (Flex!Kill => FlexForm!Kill)
  BY SameFiles DEF Flex!StopAtLimit, FlexForm!StopAtLimit, Flex!Kill, FlexForm!Kill, Flex!NoHint, FlexForm!NoHint
<1>12. Flex!Finish => FlexForm!Finish
  BY <1>1, <1>2, SameFiles DEF Flex!Finish, FlexForm!Finish
<1>13. QED
  BY <1>1, <1>6, <1>7, <1>8, <1>9, <1>10, <1>11, <1>12

LEMMA SlotsAre == Flex!Slots = {"flex", "raw", "nested"} /\ FlexForm!TopLevel = {"flex", "raw"}
BY DEF Flex!Slots, FlexForm!TopLevel

LEMMA FlexBegins == Flex!Init => FlexInv
<1> SUFFICES ASSUME Flex!Init PROVE FlexInv
  OBVIOUS
<1>1. FilesInv
  BY FilesBegin
<1>2. PICK c \in [1..v2 -> FlexContents] :
           /\ v1 = [r \in 1..v2 |-> [flex |-> Flex!Inline(c[r]), raw |-> Flex!Inline(c[r]), nested |-> Flex!None]]
           /\ v5 = [r \in 1..v2 |-> [flex |-> c[r], raw |-> c[r], nested |-> ""]]
  BY DEF Flex!Init
<1>3. v6 = Flex!Off /\ v7.mode = "off" /\ v8 = "none" /\ v9 = Flex!Closed
  BY DEF Flex!Init, Flex!NoHint
<1>4. ASSUME NEW r \in DOMAIN v1
      PROVE  /\ v1[r]["nested"].kind = "none" /\ DOMAIN v5[r] = Flex!Slots
             /\ \A s \in Flex!Slots : Holds(v1[r][s], v5[r][s])
  <2> DEFINE i == Flex!Inline(c[r])
             p == [flex |-> i, raw |-> i, nested |-> Flex!None]
             m == [flex |-> c[r], raw |-> c[r], nested |-> ""]
  <2>1. v1[r] = p /\ v5[r] = m
    BY <1>2
  <2>2. i.kind = "inline" /\ i.content = c[r] /\ Flex!None.kind = "none"
    BY FileValues
  <2> HIDE DEF i
  <2>3. p["flex"] = i /\ p["raw"] = i /\ p["nested"] = Flex!None
    OBVIOUS
  <2>4. m["flex"] = c[r] /\ m["raw"] = c[r] /\ m["nested"] = "" /\ DOMAIN m = {"flex", "raw", "nested"}
    OBVIOUS
  <2> HIDE DEF p, m
  <2>5. DOMAIN v5[r] = Flex!Slots
    BY <2>1, <2>4, SlotsAre
  <2>6. QED
    BY <2>1, <2>2, <2>3, <2>4, <2>5, SlotsAre DEF Holds
<1>5. FlexKeeps
  BY <1>4 DEF FlexKeeps
<1>6. FlexAlone /\ FlexMoved
  BY <1>3, NothingLoaded DEF FlexAlone, FlexMoved
<1>7. QED
  BY <1>1, <1>5, <1>6 DEF FlexInv

\* While no command runs nothing else is to be shown of it.
LEMMA FlexAtRest ==
  ASSUME v6' = Flex!Off, v7'.mode = "off", v8' = "none",
         v9' = Flex!Closed \/ (v9' # Flex!Closed => v9'.flex = v1'[v9'.pk]["flex"])
  PROVE  FlexAlone' /\ FlexMoved'
<1>1. v6'.mode = "off" /\ v6'.owned = {} /\ DOMAIN v6'.batch = {} /\ v6'.failed = FALSE
  BY NothingLoaded
<1>2. QED
  BY <1>1 DEF FlexAlone, FlexMoved

LEMMA FlexImport ==
  ASSUME FlexInv, NEW c \in FlexContents, Flex!Import(c)
  PROVE  FlexInv'
<1> DEFINE r == v2 + 1
           w == Flex!RowFor(r, c)
           ref == Flex!Ref(w)
           p == [flex |-> ref, raw |-> ref, nested |-> Flex!None]
           m == [flex |-> c, raw |-> c, nested |-> ""]
<1>1. FilesInv
  BY DEF FlexInv
<1>2. /\ FilesInv' /\ DOMAIN v1' = DOMAIN v1 \cup {r} /\ r \notin DOMAIN v1
      /\ \A q \in DOMAIN v1 : v1'[q] = v1[q]
  BY <1>1, FilesImport
<1>3. /\ v6 = Flex!Off /\ v6' = v6 /\ v7'.mode = "off" /\ v8' = "none" /\ v9' = v9
      /\ v1' = [x \in DOMAIN v1 \cup {r} |-> IF x # r THEN v1[x] ELSE p]
      /\ v5' = [x \in DOMAIN v5 \cup {r} |-> IF x # r THEN v5[x] ELSE m]
  BY DEF Flex!Import, Flex!NoHint
<1>4. w.content = c
  <2>1. FileTypes /\ r \in Nat
    BY <1>1 DEF FilesInv, FileTypes
  <2>2. QED
    BY <2>1, RowIsRight
<1>5. ref.kind = "ref" /\ ref.row = w /\ Flex!None.kind = "none"
  BY FileValues
<1> HIDE DEF ref, w
<1>6. p["flex"] = ref /\ p["raw"] = ref /\ p["nested"] = Flex!None
  OBVIOUS
<1>7. m["flex"] = c /\ m["raw"] = c /\ m["nested"] = "" /\ DOMAIN m = Flex!Slots
  BY SlotsAre
<1> HIDE DEF p, m
<1>8. DOMAIN v5 = DOMAIN v1 /\ v1'[r] = p /\ v5'[r] = m /\ \A q \in DOMAIN v1 : v5'[q] = v5[q]
  BY <1>1, <1>2, <1>3 DEF FilesInv, FileTypes
<1>9. FlexKeeps'
  <2>1. /\ v1'[r]["nested"].kind = "none" /\ DOMAIN v5'[r] = Flex!Slots
        /\ \A s \in Flex!Slots : Holds(v1'[r][s], v5'[r][s])
    BY <1>4, <1>5, <1>6, <1>7, <1>8, SlotsAre DEF Holds
  <2>2. ASSUME NEW q \in DOMAIN v1
        PROVE  /\ v1'[q]["nested"].kind = "none" /\ DOMAIN v5'[q] = Flex!Slots
               /\ \A s \in Flex!Slots : Holds(v1'[q][s], v5'[q][s])
    BY <1>2, <1>8 DEF FlexInv, FlexKeeps
  <2>3. QED
    BY <1>2, <2>1, <2>2 DEF FlexKeeps
<1>10. v9 # Flex!Closed => v9.flex = v1'[v9.pk]["flex"]
  <2>1. v9 # Flex!Closed => v9.pk \in DOMAIN v1
    BY <1>1 DEF FilesInv, FileTypes
  <2>2. QED
    BY <1>2, <2>1 DEF FlexInv, FlexAlone
<1>11. FlexAlone' /\ FlexMoved'
  BY <1>3, <1>10, FlexAtRest
<1>12. QED
  BY <1>2, <1>9, <1>11 DEF FlexInv

LEMMA FlexDelete ==
  ASSUME FlexInv, NEW r \in DOMAIN v1, Flex!Delete(r)
  PROVE  FlexInv'
<1>1. /\ FilesInv' /\ DOMAIN v1' = DOMAIN v1 \ {r} /\ DOMAIN v5' = DOMAIN v1 \ {r}
      /\ \A q \in DOMAIN v1' : v1'[q] = v1[q] /\ v5'[q] = v5[q]
  BY FlexIsForm, FilesDelete DEF FlexInv
<1>2. v6' = Flex!Off /\ v7'.mode = "off" /\ v8' = "none" /\ v9' = Flex!Closed
  BY DEF Flex!Delete, Flex!NoHint
<1>3. FlexKeeps'
  BY <1>1 DEF FlexInv, FlexKeeps
<1>4. QED
  BY <1>1, <1>2, <1>3, FlexAtRest DEF FlexInv

LEMMA FlexOpen ==
  ASSUME FlexInv, NEW r \in DOMAIN v1, Flex!OpenForm(r)
  PROVE  FlexInv'
<1>1. FilesInv'
  BY FlexIsForm, FilesOpen DEF FlexInv
<1>2. /\ v6 = Flex!Off /\ v9' = [pk |-> r, flex |-> v1[r].flex]
      /\ UNCHANGED <<v1, v2, v3, v5, v6, v7, v8>>
  BY DEF Flex!OpenForm
<1>3. v9'.pk = r /\ v9'.flex = v1[r].flex
  BY <1>2
<1>4. v6.mode = "off" /\ v6.owned = {} /\ DOMAIN v6.batch = {} /\ v6.failed = FALSE
  BY <1>2, NothingLoaded
<1>5. FlexKeeps' /\ FlexMoved'
  <2>1. FlexKeeps'
    BY <1>2 DEF FlexInv, FlexKeeps
  <2>2. FlexMoved'
    BY <1>2 DEF FlexInv, FlexMoved, Moved
  <2>3. QED
    BY <2>1, <2>2
<1>6. FlexAlone'
  BY <1>2, <1>3, <1>4 DEF FlexInv, FlexAlone
<1>7. QED
  BY <1>1, <1>5, <1>6 DEF FlexInv

LEMMA FlexUpload ==
  ASSUME FlexInv, NEW c \in FlexContents, Flex!Upload(c)
  PROVE  FlexInv'
<1> DEFINE k == v9.pk
           w == Flex!RowFor(k, c)
<1>1. /\ v9 # Flex!Closed /\ v9' = Flex!Closed /\ v6' = v6 /\ v7'.mode = "off" /\ v8' = "none"
      /\ v5' = [v5 EXCEPT ![k].flex = c]
  BY DEF Flex!Upload, Flex!NoHint
<1>2. /\ FilesInv' /\ DOMAIN v1' = DOMAIN v1 /\ k \in DOMAIN v1
      /\ v1'[k]["flex"] = Flex!Ref(w) /\ w.content = c
      /\ \A q \in DOMAIN v1, s \in Flex!Slots : q # k \/ s # "flex" => v1'[q][s] = v1[q][s]
  BY FilesUpload DEF FlexInv
<1>3. v6' = Flex!Off
  BY <1>1 DEF FlexInv, FlexAlone, FilesInv, CommandTypes
<1>4. Flex!Ref(w).kind = "ref" /\ Flex!Ref(w).row = w
  BY FileValues
<1>5. DOMAIN v5 = DOMAIN v1 /\ DOMAIN v5[k] = Flex!Slots
  BY <1>2 DEF FlexInv, FilesInv, FileTypes, FlexKeeps
<1>6. /\ \A q \in DOMAIN v1 : q # k => v5'[q] = v5[q]
      /\ DOMAIN v5'[k] = Flex!Slots /\ v5'[k]["flex"] = c
      /\ \A s \in Flex!Slots : s # "flex" => v5'[k][s] = v5[k][s]
  BY <1>1, <1>2, <1>5, SlotsAre
<1> HIDE DEF k, w
<1>7. FlexKeeps'
  <2>1. ASSUME NEW q \in DOMAIN v1
        PROVE  v1'[q]["nested"].kind = "none" /\ DOMAIN v5'[q] = Flex!Slots
    BY <1>2, <1>6, SlotsAre DEF FlexInv, FlexKeeps
  <2>2. ASSUME NEW q \in DOMAIN v1, NEW s \in Flex!Slots PROVE Holds(v1'[q][s], v5'[q][s])
    <3>1. CASE q = k /\ s = "flex"
      BY <1>2, <1>4, <1>6, <3>1 DEF Holds
    <3>2. CASE ~(q = k /\ s = "flex")
      BY <1>2, <1>6, <3>2 DEF FlexInv, FlexKeeps
    <3>3. QED
      BY <3>1, <3>2
  <2>3. QED
    BY <1>2, <2>1, <2>2 DEF FlexKeeps
<1>8. QED
  BY <1>1, <1>2, <1>3, <1>7, FlexAtRest DEF FlexInv

LEMMA FlexSave ==
  ASSUME FlexInv, Flex!SaveForm
  PROVE  FlexInv'
<1> DEFINE k == v9.pk
<1>1. v9 # Flex!Closed /\ v9' = Flex!Closed /\ v6' = v6 /\ v7'.mode = "off" /\ v8' = "none" /\ v5' = v5
  BY DEF Flex!SaveForm, Flex!NoHint
<1>2. /\ FilesInv' /\ DOMAIN v1' = DOMAIN v1 /\ k \in DOMAIN v1 /\ v1'[k]["flex"] = v9.flex
      /\ \A q \in DOMAIN v1, s \in Flex!Slots : q # k \/ s # "flex" => v1'[q][s] = v1[q][s]
  BY FlexIsForm, FilesSave DEF FlexInv
<1>3. v9.flex = v1[k]["flex"]
  BY <1>1 DEF FlexInv, FlexAlone
<1>4. \A q \in DOMAIN v1, s \in Flex!Slots : v1'[q][s] = v1[q][s]
  BY <1>2, <1>3
<1>5. v6' = Flex!Off
  BY <1>1 DEF FlexInv, FlexAlone, FilesInv, CommandTypes
<1>6. FlexKeeps'
  BY <1>1, <1>2, <1>4, SlotsAre DEF FlexInv, FlexKeeps
<1>7. QED
  BY <1>1, <1>2, <1>5, <1>6, FlexAtRest DEF FlexInv

\* A run alone: nothing ended, nothing to resume, no form.
LEMMA RunsAlone ==
  ASSUME FlexInv, v6.batch # <<>>
  PROVE  v6.mode # "off" /\ v9 = Flex!Closed /\ v8 = "none" /\ v7.mode = "off"
BY NothingLoaded DEF FlexInv, FlexAlone, FilesInv, CommandTypes

\* The record that is done is moved, or the run has failed.
LEMMA RunAdvances ==
  ASSUME FlexInv, v6.batch # <<>>, NEW b, b = Flex!Current, NEW mode, mode = v6.mode,
         DOMAIN v1' = DOMAIN v1, \A r \in DOMAIN v1 : r # b => v1'[r] = v1[r],
         v6'.batch = Flex!Rest, v6'.pk = b, v6'.mode = mode, v6'.owned = {}, UNCHANGED <<v7, v8, v9>>,
         v6'.failed => v6'.keepGoing,
         v6'.failed \/ (v6'.failed = v6.failed /\ Moved(mode, b)'),
         v3' \subseteq v3 \/ mode = "forward"
  PROVE  FlexAlone' /\ FlexMoved'
<1>1. v6.mode # "off" /\ v9 = Flex!Closed /\ v8 = "none" /\ v7.mode = "off"
  BY RunsAlone
<1>2. /\ b \in DOMAIN v6.batch /\ b \in DOMAIN v1 /\ b \in Nat /\ b > v6.pk
      /\ \A r \in DOMAIN v6.batch : b <= r /\ r \in DOMAIN v1
  BY FlexIsForm, CurrentIsFirst DEF FlexInv, FilesInv, CommandTypes
<1>3. DOMAIN v6'.batch = DOMAIN v6.batch \ {b} /\ \A r \in DOMAIN v6'.batch : v6'.batch[r] = v6.batch[r]
  BY FlexIsForm, RestOf DEF FlexInv
<1>4. FlexAlone'
  BY <1>1, <1>2, <1>3 DEF FlexInv, FlexAlone
<1>5. \A r \in DOMAIN v1 : r \in Nat
  BY DEF FlexInv, FilesInv, FileTypes
<1>6. \A r \in DOMAIN v1 : r # b /\ Moved(mode, r) => Moved(mode, r)'
  BY DEF Moved
<1>7. ASSUME ~v6'.failed, NEW r \in DOMAIN v1, r <= b \/ \E d \in DOMAIN v6'.batch : r < d /\ r \notin DOMAIN v6'.batch
      PROVE  Moved(mode, r)'
  <2>1. CASE r = b
    BY <1>7, <2>1
  <2>2. CASE r # b
    <3>1. ~v6.failed
      BY <1>7
    <3>2. r \notin DOMAIN v6.batch
      BY <1>2, <1>3, <1>5, <1>7, <2>2
    <3>3. \E d \in DOMAIN v6.batch : r < d
      BY <1>2, <1>3, <1>5, <1>7, <2>2
    <3>4. Moved(mode, r)
      BY <1>1, <3>1, <3>2, <3>3 DEF FlexInv, FlexMoved
    <3>5. QED
      BY <1>6, <2>2, <3>4
  <2>3. QED
    BY <2>1, <2>2
<1>8. FlexMoved'
  BY <1>1, <1>7 DEF FlexMoved, Moved
<1>9. QED
  BY <1>4, <1>8

LEMMA FlexBeginRun ==
  ASSUME FlexInv, NEW mode \in {"forward", "reverse"}, NEW from \in 0..FlexRecords, Flex!Begin(mode, from)
  PROVE  FlexInv'
<1>1. /\ FilesInv' /\ DOMAIN v6'.batch = {} /\ v6'.batch = <<>> /\ v6'.mode = mode /\ v6'.pk = from
      /\ v6'.owned = {} /\ v6'.failed = FALSE
  BY FlexIsForm, FilesBeginRun DEF FlexInv
<1>2. /\ v9 = Flex!Closed /\ v8' = "none" /\ v7'.mode = "off" /\ UNCHANGED <<v1, v3, v5, v9>>
      /\ from = 0 \/ (v7.mode = mode /\ from = v7.pk)
  BY DEF Flex!Begin, Flex!NoHint
<1>3. FlexKeeps'
  BY <1>2 DEF FlexInv, FlexKeeps
<1>4. FlexAlone'
  BY <1>1, <1>2 DEF FlexAlone
<1>5. \A r \in DOMAIN v1 : r <= from => Moved(mode, r)
  BY <1>2 DEF FlexInv, FlexMoved, FilesInv, FileTypes
<1>6. FlexMoved'
  BY <1>1, <1>2, <1>5 DEF FlexMoved, Moved
<1>7. QED
  BY <1>1, <1>3, <1>4, <1>6 DEF FlexInv

\* The batch is the first of the candidates: what lies before one of them and is not in it, is none.
LEMMA FlexLoad ==
  ASSUME FlexInv, Flex!LoadBatch
  PROVE  FlexInv'
<1> DEFINE C == FlexForm!Candidates
           Less(r) == {q \in C : q < r}
           S == {r \in C : FlexForm!Cardinality(Less(r)) < FlexBatch}
<1>1. /\ FilesInv' /\ UNCHANGED <<v1, v2, v3, v4, v5, v7, v8, v9>>
      /\ DOMAIN v6'.batch = S /\ \A r \in DOMAIN v6'.batch : v6'.batch[r] = v1[r]
      /\ v6.mode # "off" /\ v6'.mode = v6.mode /\ v6'.pk = v6.pk /\ v6'.owned = v6.owned /\ v6.batch = <<>>
      /\ v6'.failed = v6.failed /\ v6'.keepGoing = v6.keepGoing
  BY RunIsForm, FilesLoad DEF FlexInv
<1>2. FlexKeeps' /\ FlexAlone'
  BY <1>1 DEF FlexInv, FlexKeeps, FlexAlone
<1>3. C \subseteq DOMAIN v1 /\ DOMAIN v1 \subseteq 1..v2 /\ v2 \in Nat
  BY DEF FlexInv, FilesInv, FileTypes, FlexForm!Candidates
<1>4. \A r \in DOMAIN v1 : r > v6.pk /\ r \notin C => Moved(v6.mode, r)
  <2> TAKE r \in DOMAIN v1
  <2>1. CASE v6.mode = "forward"
    BY <2>1, SameFiles DEF FlexForm!Candidates, Moved
  <2>2. CASE v6.mode # "forward"
    BY <2>2 DEF FlexForm!Candidates, Moved
  <2>3. QED
    BY <2>1, <2>2
<1>5. ASSUME NEW r \in C, NEW b \in S, r < b PROVE r \in S
  <2>1. IsFiniteSet(C)
    <3>1. IsFiniteSet(1..v2)
      BY <1>3, FS_Interval
    <3>2. QED
      BY <1>3, <3>1, FS_Subset
  <2>2. Less(r) \subseteq Less(b)
    BY <1>3, <1>5
  <2>3. IsFiniteSet(Less(b)) /\ IsFiniteSet(Less(r))
    BY <2>1, FS_Subset
  <2>4. Cardinality(Less(r)) <= Cardinality(Less(b))
    BY <2>2, <2>3, FS_Subset
  <2>5. Cardinality(Less(r)) \in Nat /\ Cardinality(Less(b)) \in Nat
    BY <2>3, FS_CardinalityType
  <2>6. FlexForm!Cardinality(Less(r)) = Cardinality(Less(r)) /\ FlexForm!Cardinality(Less(b)) = Cardinality(Less(b))
    BY DEF FlexForm!Cardinality, Cardinality
  <2>7. QED
    BY <2>4, <2>5, <2>6, FlexBounds
<1>6. ASSUME ~v6.failed, NEW r \in DOMAIN v1, r <= v6.pk \/ \E b \in S : r < b /\ r \notin S
      PROVE  Moved(v6.mode, r)
  <2>1. CASE r <= v6.pk
    BY <1>1, <1>6, <2>1 DEF FlexInv, FlexMoved
  <2>2. CASE ~(r <= v6.pk)
    <3>1. r \notin C
      BY <1>5, <1>6, <2>2
    <3>2. r > v6.pk
      BY <1>3, <2>2 DEF FlexInv, FilesInv, CommandTypes
    <3>3. QED
      BY <1>4, <3>1, <3>2
  <2>3. QED
    BY <2>1, <2>2
<1> HIDE DEF S, C
<1>7. FlexMoved'
  BY <1>1, <1>6 DEF FlexInv, FlexMoved, Moved
<1>8. QED
  BY <1>1, <1>2, <1>7 DEF FlexInv

LEMMA FlexConvert ==
  ASSUME FlexInv, Flex!Convert
  PROVE  FlexInv'
<1> DEFINE b == FlexForm!Current
<1>1. v6.batch # <<>>
  BY DEF Flex!Convert, Flex!Loaded
<1>2. /\ FilesInv' /\ v6.mode = "forward" /\ b \in DOMAIN v6.batch
      /\ UNCHANGED <<v2, v5, v7, v8, v9>> /\ DOMAIN v1' = DOMAIN v1
      /\ v6'.mode = v6.mode /\ v6'.pk = b /\ v6'.batch = FlexForm!Rest /\ v6'.owned = {}
      /\ v6'.keepGoing = v6.keepGoing /\ v6'.failed = v6.failed
      /\ \A r \in DOMAIN v1 : r # b => v1'[r] = v1[r]
      /\ v1'[b]["nested"] = v1[b]["nested"] \/ v1'[b]["nested"] = v6.batch[b]["nested"]
      /\ \/ v1'[b] = v1[b] /\ \A s \in FlexForm!TopLevel : v6.batch[b][s].kind # "inline"
         \/ \A s \in FlexForm!TopLevel :
              /\ v6.batch[b][s].kind # "inline" => v1'[b][s] = v6.batch[b][s]
              /\ v6.batch[b][s].kind = "inline" =>
                   /\ v1'[b][s].kind = "ref" /\ v1'[b][s].row \in v3'
                   /\ v1'[b][s].row.content = v6.batch[b][s].content
  BY RunIsForm, FilesConvert DEF FlexInv
<1>3. b \in DOMAIN v1 /\ v6.batch[b] = v1[b]
  BY <1>2 DEF FlexInv, FlexAlone, FilesInv, CommandTypes
<1> HIDE DEF b
<1>4. v1[b]["nested"].kind = "none" /\ v1'[b]["nested"] = v1[b]["nested"]
  BY <1>2, <1>3 DEF FlexInv, FlexKeeps
<1>5. ASSUME NEW s \in Flex!Slots
      PROVE  Holds(v1'[b][s], v5[b][s]) /\ v1'[b][s].kind # "inline"
  <2>1. Holds(v1[b][s], v5[b][s])
    BY <1>3 DEF FlexInv, FlexKeeps
  <2>2. CASE s = "nested"
    BY <1>4, <2>1, <2>2
  <2>3. CASE s # "nested"
    <3>1. s \in FlexForm!TopLevel
      BY <2>3, SlotsAre
    <3>2. CASE v1[b][s].kind = "inline"
      <4>1. v1'[b][s].kind = "ref" /\ v1'[b][s].row.content = v1[b][s].content
        BY <1>2, <1>3, <3>1, <3>2
      <4>2. QED
        BY <2>1, <3>2, <4>1 DEF Holds
    <3>3. CASE v1[b][s].kind # "inline"
      <4>1. v1'[b][s] = v1[b][s]
        BY <1>2, <1>3, <3>1, <3>3
      <4>2. QED
        BY <2>1, <3>3, <4>1
    <3>4. QED
      BY <3>2, <3>3
  <2>4. QED
    BY <2>2, <2>3
<1>6. FlexKeeps'
  BY <1>2, <1>4, <1>5 DEF FlexInv, FlexKeeps
<1>7. \A d : d = b => Moved("forward", d)'
  BY <1>5 DEF Moved
<1>8. v6'.failed => v6'.keepGoing
  BY <1>2 DEF FlexInv, FlexAlone
<1>9. Flex!Current = b /\ Flex!Rest = FlexForm!Rest
  BY FlexIsForm DEF b
<1>10. ASSUME NEW d, d = b PROVE FlexAlone' /\ FlexMoved'
  <2>1. Moved("forward", d)'
    BY <1>7, <1>10
  <2>2. QED
    BY <1>1, <1>2, <1>8, <1>9, <1>10, <2>1, RunAdvances
<1>11. QED
  BY <1>2, <1>6, <1>10 DEF FlexInv

LEMMA FlexReadRows ==
  ASSUME FlexInv, Flex!ReadRows
  PROVE  FlexInv'
<1> DEFINE b == FlexForm!Current
           owned == {w \in v3 : w.owner = b}
<1>1. v6.batch # <<>>
  BY DEF Flex!ReadRows, Flex!Loaded
<1>2. /\ FilesInv' /\ v6.mode = "reverse" /\ b \in DOMAIN v6.batch
      /\ v6'.mode = v6.mode /\ v6'.keepGoing = v6.keepGoing /\ v6'.failed = v6.failed
      /\ UNCHANGED <<v1, v2, v3, v4, v5, v7, v8, v9>>
      /\ \/ owned = {} /\ v6'.pk = b /\ v6'.batch = FlexForm!Rest /\ v6'.owned = {}
         \/ v6'.pk = v6.pk /\ v6'.batch = v6.batch /\ v6'.owned = owned
  BY RunIsForm, FilesReadRows DEF FlexInv
<1>3. FlexKeeps'
  BY <1>2 DEF FlexInv, FlexKeeps
<1>4. v6'.failed => v6'.keepGoing
  BY <1>2 DEF FlexInv, FlexAlone
<1>5. CASE owned = {} /\ v6'.pk = b /\ v6'.batch = FlexForm!Rest /\ v6'.owned = {}
  <2>1. ASSUME NEW d, d = b PROVE FlexAlone' /\ FlexMoved'
    <3>1. Moved("reverse", d)'
      BY <1>2, <1>5, <2>1 DEF Moved
    <3>2. d = Flex!Current /\ Flex!Rest = FlexForm!Rest
      BY <2>1, FlexIsForm
    <3>3. v3' \subseteq v3 /\ DOMAIN v1' = DOMAIN v1 /\ \A r \in DOMAIN v1 : v1'[r] = v1[r]
      BY <1>2
    <3> HIDE DEF b, owned
    <3>4. QED
      BY <1>1, <1>2, <1>4, <1>5, <2>1, <3>1, <3>2, <3>3, RunAdvances
  <2>2. QED
    BY <1>2, <1>3, <2>1 DEF FlexInv
<1>6. CASE v6'.pk = v6.pk /\ v6'.batch = v6.batch /\ v6'.owned = owned
  <2>1. \A d : d = Flex!Current => owned = {w \in v3 : w.owner = d}
    BY FlexIsForm
  <2>2. ASSUME NEW d, d = Flex!Current, NEW e, e = Flex!Current' PROVE e = d
    BY <1>6, <2>2 DEF Flex!Current
  <2>3. FlexAlone'
    BY <1>1, <1>2, <1>4, <1>6, <2>1, <2>2 DEF FlexInv, FlexAlone
  <2>4. FlexMoved'
    BY <1>2, <1>6 DEF FlexInv, FlexMoved, Moved
  <2>5. QED
    BY <1>2, <1>3, <2>3, <2>4 DEF FlexInv
<1>7. QED
  BY <1>2, <1>5, <1>6

LEMMA FlexRestore ==
  ASSUME FlexInv, Flex!Restore
  PROVE  FlexInv'
<1> DEFINE b == FlexForm!Current
<1>1. v6.batch # <<>> /\ v6.owned # {}
  BY DEF Flex!Restore, Flex!Loaded
<1>2. v9 = Flex!Closed /\ v6.owned = {w \in v3 : w.owner = b}
  BY <1>1, RunsAlone, FlexIsForm DEF FlexInv, FlexAlone
<1>3. b \in DOMAIN v6.batch /\ b \in DOMAIN v1 /\ v6.batch[b] = v1[b] /\ v1[b]["nested"].kind = "none"
  BY <1>1, CurrentIsFirst DEF FlexInv, FlexAlone, FlexKeeps, FilesInv, CommandTypes
<1>4. /\ FilesInv' /\ v6.mode = "reverse"
      /\ UNCHANGED <<v2, v5, v7, v8, v9>> /\ DOMAIN v1' = DOMAIN v1
      /\ v6'.mode = v6.mode /\ v6'.pk = b /\ v6'.batch = FlexForm!Rest /\ v6'.owned = {}
      /\ v6'.keepGoing = v6.keepGoing /\ v6'.failed = v6.failed
      /\ v3' = {w \in v3 : w.owner # b}
      /\ \A r \in DOMAIN v1 : r # b => v1'[r] = v1[r]
      /\ v1'[b]["nested"] = v6.batch[b]["nested"]
      /\ \A s \in FlexForm!TopLevel :
           /\ v6.batch[b][s].kind # "ref" => v1'[b][s] = v6.batch[b][s]
           /\ v6.batch[b][s].kind = "ref" =>
                v1'[b][s].kind = "inline" /\ v1'[b][s].content = v6.batch[b][s].row.content
  <2>1. \A d : d = b => v6.batch[d]["nested"].kind # "ref"
    BY <1>3
  <2>2. QED
    BY <1>2, <2>1, RunIsForm, FilesRestore DEF FlexInv
<1> HIDE DEF b
<1>5. ASSUME NEW s \in Flex!Slots
      PROVE  Holds(v1'[b][s], v5[b][s])
  <2>1. Holds(v1[b][s], v5[b][s])
    BY <1>3 DEF FlexInv, FlexKeeps
  <2>2. CASE s = "nested"
    BY <1>3, <1>4, <2>1, <2>2
  <2>3. CASE s # "nested"
    <3>1. s \in FlexForm!TopLevel
      BY <2>3, SlotsAre
    <3>2. CASE v1[b][s].kind = "ref"
      <4>1. v1'[b][s].kind = "inline" /\ v1'[b][s].content = v1[b][s].row.content
        BY <1>3, <1>4, <3>1, <3>2
      <4>2. QED
        BY <2>1, <3>2, <4>1 DEF Holds
    <3>3. CASE v1[b][s].kind # "ref"
      <4>1. v1'[b][s] = v1[b][s]
        BY <1>3, <1>4, <3>1, <3>3
      <4>2. QED
        BY <2>1, <4>1
    <3>4. QED
      BY <3>2, <3>3
  <2>4. QED
    BY <2>2, <2>3
<1>6. FlexKeeps'
  BY <1>3, <1>4, <1>5 DEF FlexInv, FlexKeeps
<1>7. v6'.failed => v6'.keepGoing
  BY <1>4 DEF FlexInv, FlexAlone
<1>8. ASSUME NEW d, d = b PROVE FlexAlone' /\ FlexMoved'
  <2>1. Moved("reverse", d)'
    BY <1>4, <1>8 DEF Moved
  <2>2. d = Flex!Current /\ Flex!Rest = FlexForm!Rest
    BY <1>8, FlexIsForm DEF b
  <2>3. v3' \subseteq v3
    BY <1>4
  <2>4. QED
    BY <1>1, <1>4, <1>7, <1>8, <2>1, <2>2, <2>3, RunAdvances
<1>9. QED
  BY <1>4, <1>6, <1>8 DEF FlexInv

LEMMA FlexFail ==
  ASSUME FlexInv, Flex!FailRecord
  PROVE  FlexInv'
<1> DEFINE b == FlexForm!Current
<1>1. /\ FilesInv' /\ UNCHANGED <<v1, v2, v3, v4, v5, v8, v9>>
      /\ v6.batch # <<>> /\ b \in DOMAIN v6.batch
      /\ \/ /\ v7' = v7 /\ v6'.mode = v6.mode /\ v6'.pk = b /\ v6'.batch = FlexForm!Rest /\ v6'.owned = {}
            /\ v6'.keepGoing /\ v6'.failed
         \/ v6' = Flex!Off /\ v7' = [mode |-> v6.mode, pk |-> b - 1] /\ ~v6.keepGoing
  BY RunIsForm, FilesFail DEF FlexInv
<1>2. FlexKeeps'
  BY <1>1 DEF FlexInv, FlexKeeps
<1>3. v6.mode # "off" /\ v9 = Flex!Closed /\ v8 = "none" /\ v7.mode = "off"
  BY <1>1, RunsAlone
<1>4. ASSUME v7' = v7, v6'.mode = v6.mode, v6'.pk = b, v6'.batch = FlexForm!Rest, v6'.owned = {},
             v6'.keepGoing, v6'.failed
      PROVE  FlexAlone' /\ FlexMoved'
  <2>1. b = Flex!Current /\ Flex!Rest = FlexForm!Rest
    BY FlexIsForm
  <2>2. DOMAIN v1' = DOMAIN v1 /\ (\A r \in DOMAIN v1 : v1'[r] = v1[r]) /\ v3' \subseteq v3
    BY <1>1
  <2>3. QED
    BY <1>1, <1>4, <2>1, <2>2, RunAdvances
<1>5. ASSUME v6' = Flex!Off, v7' = [mode |-> v6.mode, pk |-> b - 1], ~v6.keepGoing
      PROVE  FlexAlone' /\ FlexMoved'
  <2>1. v7'.mode = v6.mode /\ v7'.pk = b - 1
    BY <1>5
  <2>2. v6'.mode = "off" /\ v6'.owned = {} /\ DOMAIN v6'.batch = {} /\ v6'.failed = FALSE
    BY <1>5, NothingLoaded
  <2>3. FlexAlone'
    BY <1>1, <1>3, <2>1, <2>2 DEF FlexAlone, FlexInv, FilesInv, CommandTypes
  <2>4. b \in Nat /\ \A r \in DOMAIN v6.batch : b <= r
    BY <1>1, CurrentIsFirst DEF FlexInv
  <2>5. ~v6.failed
    BY <1>5 DEF FlexInv, FlexAlone
  <2>6. ASSUME NEW r \in DOMAIN v1, r <= b - 1 PROVE Moved(v6.mode, r)
    <3>1. r \in Nat
      BY DEF FlexInv, FilesInv, FileTypes
    <3>2. r < b /\ r \notin DOMAIN v6.batch
      BY <2>4, <2>6, <3>1
    <3>3. QED
      BY <1>1, <1>3, <2>5, <3>2 DEF FlexInv, FlexMoved
  <2>7. FlexMoved'
    BY <1>1, <1>3, <2>1, <2>2, <2>6 DEF FlexMoved, Moved
  <2>8. QED
    BY <2>3, <2>7
<1>6. QED
  BY <1>1, <1>2, <1>4, <1>5 DEF FlexInv

LEMMA FlexStop ==
  ASSUME FlexInv, Flex!StopAtLimit \/ Flex!Kill
  PROVE  FlexInv'
<1>1. /\ FilesInv' /\ v6' = Flex!Off /\ UNCHANGED <<v1, v2, v3, v4, v5, v8, v9>>
      /\ v7' = v7 \/ v7' = [mode |-> "off", pk |-> 0] \/ (~v6.failed /\ v7' = [mode |-> v6.mode, pk |-> v6.pk])
  BY RunIsForm, FilesStop DEF FlexInv
<1>2. v6.mode # "off"
  BY DEF Flex!StopAtLimit, Flex!Kill
<1>3. v9 = Flex!Closed /\ v8 = "none" /\ v7.mode = "off" /\ v6.mode \in {"off", "forward", "reverse"}
  BY <1>2 DEF FlexInv, FlexAlone, FilesInv, CommandTypes
<1>4. v6'.mode = "off" /\ v6'.owned = {} /\ DOMAIN v6'.batch = {} /\ v6'.failed = FALSE
  BY <1>1, NothingLoaded
<1>5. v7'.mode \in {"off", "forward", "reverse"}
      /\ (v7'.mode # "off" => ~v6.failed /\ v7'.mode = v6.mode /\ v7'.pk = v6.pk)
  BY <1>1, <1>3
<1>6. FlexKeeps' /\ FlexAlone'
  BY <1>1, <1>3, <1>4, <1>5 DEF FlexInv, FlexKeeps, FlexAlone
<1>7. v7'.mode # "off" => \A r \in DOMAIN v1 : r <= v7'.pk => Moved(v6.mode, r)
  BY <1>2, <1>5 DEF FlexInv, FlexMoved
<1>8. FlexMoved'
  BY <1>1, <1>3, <1>4, <1>5, <1>7 DEF FlexMoved, Moved
<1>9. QED
  BY <1>1, <1>6, <1>8 DEF FlexInv

LEMMA FlexFinish ==
  ASSUME FlexInv, Flex!Finish
  PROVE  FlexInv'
<1>1. /\ FilesInv' /\ v6' = Flex!Off /\ UNCHANGED <<v1, v2, v4, v5, v7, v9>>
      /\ v6.mode # "off" /\ FlexForm!Candidates = {}
      /\ v3' = IF v6.mode = "forward" THEN v3 ELSE {w \in v3 : w.owner \in DOMAIN v1}
      /\ v8' = "none" \/ (~v6.failed /\ v8' = v6.mode)
  BY RunIsForm, FilesFinish DEF FlexInv
<1>2. v9 = Flex!Closed /\ v8 = "none" /\ v7.mode = "off" /\ v6.mode \in {"forward", "reverse"}
  BY <1>1 DEF FlexInv, FlexAlone, FilesInv, CommandTypes
<1>3. v6'.mode = "off" /\ v6'.owned = {} /\ DOMAIN v6'.batch = {} /\ v6'.failed = FALSE
  BY <1>1, NothingLoaded
<1>4. FlexKeeps' /\ FlexAlone'
  BY <1>1, <1>2, <1>3 DEF FlexInv, FlexKeeps, FlexAlone
<1>5. ASSUME ~v6.failed, NEW r \in DOMAIN v1 PROVE Moved(v6.mode, r)
  <2>1. CASE r <= v6.pk
    BY <1>1, <1>5, <2>1 DEF FlexInv, FlexMoved
  <2>2. CASE ~(r <= v6.pk)
    <3>1. r > v6.pk
      BY <2>2 DEF FlexInv, FilesInv, FileTypes, CommandTypes
    <3>2. CASE v6.mode = "forward"
      BY <1>1, <3>1, <3>2, SameFiles DEF FlexForm!Candidates, Moved
    <3>3. CASE v6.mode = "reverse"
      BY <1>1, <3>1, <3>3 DEF FlexForm!Candidates, Moved
    <3>4. QED
      BY <1>2, <3>2, <3>3
  <2>3. QED
    BY <2>1, <2>2
<1>6. v8' = "forward" => \A r \in DOMAIN v1 : Moved("forward", r)
  BY <1>1, <1>5
<1>7. v8' = "reverse" => v3' = {}
  BY <1>1, <1>5 DEF Moved
<1>8. FlexMoved'
  BY <1>1, <1>2, <1>3, <1>6, <1>7 DEF FlexMoved, Moved
<1>9. QED
  BY <1>1, <1>4, <1>8 DEF FlexInv

\* Nothing is lost or left behind, in both directions.
LEMMA FlexKept == FlexInv /\ [Flex!Next]_(Flex!vars) => FlexInv'
<1> SUFFICES ASSUME FlexInv, [Flex!Next]_(Flex!vars) PROVE FlexInv'
  OBVIOUS
<1>1. CASE UNCHANGED Flex!vars
  <2>1. FilesInv'
    BY <1>1 DEF FlexInv, Flex!vars, FilesInv, FileTypes, CommandTypes, Resolved, Found
  <2>2. FlexKeeps' /\ FlexMoved'
    BY <1>1 DEF FlexInv, Flex!vars, FlexKeeps, FlexMoved, Moved
  <2>3. FlexAlone'
    BY <1>1 DEF FlexInv, Flex!vars, FlexAlone, Flex!Current
  <2>4. QED
    BY <2>1, <2>2, <2>3 DEF FlexInv
<1>2. ASSUME NEW c \in FlexContents, Flex!Import(c) \/ Flex!Upload(c) PROVE FlexInv'
  BY <1>2, FlexImport, FlexUpload
<1>3. ASSUME NEW r \in DOMAIN v1, Flex!Delete(r) \/ Flex!OpenForm(r) PROVE FlexInv'
  BY <1>3, FlexDelete, FlexOpen
<1>4. ASSUME NEW mode \in {"forward"} \cup (IF FlexReverse THEN {"reverse"} ELSE {}), NEW from \in 0..FlexRecords,
             Flex!Begin(mode, from)
      PROVE  FlexInv'
  <2>1. mode \in {"forward", "reverse"}
    OBVIOUS
  <2>2. QED
    BY <1>4, <2>1, FlexBeginRun
<1>5. CASE Flex!SaveForm \/ Flex!Run
  BY <1>5, FlexSave, FlexLoad, FlexConvert, FlexReadRows, FlexRestore, FlexFail, FlexStop, FlexFinish DEF Flex!Run
<1>6. QED
  BY <1>1, <1>2, <1>3, <1>4, <1>5 DEF Flex!Next

LEMMA FlexMeans == FlexInv => Flex!TypeOK /\ Flex!ContentKept /\ Flex!EndedRunIsComplete
<1> SUFFICES ASSUME FlexInv PROVE Flex!TypeOK /\ Flex!ContentKept /\ Flex!EndedRunIsComplete
  OBVIOUS
<1>1. Flex!TypeOK
  <2>1. v9.pk \in 0..v2
    BY DEF FlexInv, FilesInv, FileTypes, Flex!Closed
  <2>2. \A w \in v3 : w.id \in 1..v4 /\ w.owner \in 1..v2 /\ w.content \in FlexContents
    BY DEF FlexInv, FilesInv, FileTypes, FileRows
  <2>3. QED
    BY <2>1, <2>2 DEF FlexInv, FilesInv, FileTypes, CommandTypes, Flex!TypeOK
<1>2. ASSUME NEW r \in DOMAIN v1, NEW s \in Flex!Slots
      PROVE  Flex!ContentOf(v1[r][s]) = v5[r][s]
  <2> DEFINE v == v1[r][s]
  <2>1. v \in FileVals
    BY DEF FlexInv, FilesInv, FileTypes, Payloads
  <2>2. Found(v, r) /\ Holds(v, v5[r][s])
    BY DEF FlexInv, FilesInv, Resolved, FlexKeeps
  <2> HIDE DEF v
  <2>3. v.kind \in {"none", "inline", "ref"}
    BY <2>1, FileValues
  <2>4. Flex!ContentOf(v) = v5[r][s]
    BY <2>2, <2>3 DEF Flex!ContentOf, Found, Holds
  <2>5. QED
    BY <2>4 DEF v
<1>3. Flex!EndedRunIsComplete
  BY FlexIsForm, SlotsAre DEF FlexInv, FlexMoved, Moved, Flex!EndedRunIsComplete
<1>4. QED
  BY <1>1, <1>2, <1>3 DEF Flex!ContentKept

-----------------------------------------------------------------------------
(* HopeBlobs, on the slots (v1: the images of the record, v2: its hashes, v3: *)
(* the place of the program, v4: the storage, v5: the synchronisation, v6 and *)
(* v7: edits and failures).  While nothing fails a hash is of an image that   *)
(* is under some key, the one the synchronisation has, or the record.         *)

BlobImages == [BlobFields -> Blobs!Maybe]
BlobSyncs == [at : {"saving", "returned"}, left : SUBSET BlobFields, only : SUBSET BlobFields,
              image : BlobImages, place : Blobs!Places, hashes : BlobImages]

BlobShape ==
  /\ v1 \in BlobImages /\ v2 \in BlobImages /\ v3 \in Blobs!Places
  /\ v4 \in [Blobs!Places \X BlobFields -> Blobs!Maybe]
  /\ v5 = Blobs!Idle \/ v5 \in BlobSyncs
  /\ v6 \in 0..BlobEdits /\ v7 \in 0..BlobFails

BlobHolds(f, c) == c # NoImage => \E p \in 0..v3 : v4[<<p, f>>] = c

BlobInv ==
  /\ BlobShape
  /\ v7 = 0 =>
       /\ v5.at = "idle" => \A f \in BlobFields : BlobHolds(f, v2[f])
       /\ v5.at # "idle" =>
            /\ v5.place <= v3
            /\ \A f \in BlobFields : BlobHolds(f, v5.hashes[f])
            /\ \A f \in BlobFields \ v5.left : Blobs!Present(f) => v5.hashes[f] = v5.image[f]
            /\ v5.at = "returned" => v5.left = {} /\ v2 = v5.hashes

LEMMA BlobBounds ==
  /\ PhotoField \in BlobFields /\ NoImage \notin Images
  /\ BlobEdits \in Nat /\ BlobFails \in Nat /\ BlobMoves \in Nat
  /\ Blobs!Places = 0..BlobMoves /\ Blobs!Maybe = Images \cup {NoImage}
BY BoundsAssumption DEF Blobs!BlobsAssumption, Blobs!Places, Blobs!Maybe

LEMMA BlobsBegin == Blobs!Init => BlobInv
<1> SUFFICES ASSUME Blobs!Init PROVE BlobInv
  OBVIOUS
<1>1. v5 = Blobs!Idle /\ v5.at = "idle"
  BY DEF Blobs!Init, Blobs!Idle
<1>2. BlobShape
  BY <1>1, BlobBounds DEF Blobs!Init, BlobShape, BlobImages
<1>3. \A f \in BlobFields : BlobHolds(f, v2[f])
  BY DEF Blobs!Init, BlobHolds
<1>4. QED
  BY <1>1, <1>2, <1>3 DEF BlobInv

\* A synchronisation that runs is a record of its fields.
LEMMA BlobSync ==
  ASSUME BlobInv
  PROVE  /\ v5.at # "idle" => v5 \in BlobSyncs
         /\ v5.at = "idle" => v5 = Blobs!Idle
<1>1. \A s \in BlobSyncs : s.at # "idle"
  BY DEF BlobSyncs
<1>2. QED
  BY <1>1 DEF BlobInv, BlobShape, Blobs!Idle

LEMMA BlobStart ==
  ASSUME BlobInv, NEW only \in {{PhotoField}, BlobFields}, Blobs!Start(only)
  PROVE  BlobInv'
<1> DEFINE s == [at |-> "saving", left |-> only, only |-> only, image |-> v1, place |-> v3, hashes |-> v2]
<1>1. v5.at = "idle" /\ v5' = s /\ UNCHANGED <<v1, v2, v3, v4, v6, v7>>
  BY DEF Blobs!Start, Blobs!Idle
<1>2. s \in BlobSyncs
  BY BlobBounds DEF BlobSyncs, BlobInv, BlobShape
<1>3. /\ s.at = "saving" /\ s.place = v3 /\ s.hashes = v2 /\ s.left = only /\ s.only = only
  OBVIOUS
<1> HIDE DEF s
<1>4. BlobShape'
  BY <1>1, <1>2 DEF BlobInv, BlobShape
<1>5. \A f \in BlobFields : BlobHolds(f, v2[f])' <=> BlobHolds(f, v2[f])
  BY <1>1 DEF BlobHolds
<1>6. v3 <= v3
  BY BlobBounds DEF BlobInv, BlobShape
<1>7. QED
  BY <1>1, <1>3, <1>4, <1>5, <1>6 DEF BlobInv, BlobHolds, Blobs!Present

LEMMA BlobSave ==
  ASSUME BlobInv, NEW f \in BlobFields, Blobs!SaveImage(f)
  PROVE  BlobInv'
<1> DEFINE h == IF Blobs!Present(f) THEN v5.image[f] ELSE v5.hashes[f]
           s == [v5 EXCEPT !.left = v5.left \ {f}, !.hashes[f] = h]
<1>1. v5 \in BlobSyncs /\ v5.at = "saving" /\ f \in v5.left
  BY BlobSync DEF Blobs!SaveImage
<1>2. h \in Blobs!Maybe
  BY <1>1 DEF BlobSyncs, BlobImages
<1>3. v5' = s /\ UNCHANGED <<v1, v2, v3, v6, v7>>
  BY DEF Blobs!SaveImage
<1>4. /\ s \in BlobSyncs /\ s.at = "saving" /\ s.left = v5.left \ {f} /\ s.place = v5.place
      /\ s.image = v5.image /\ s.only = v5.only
      /\ \A g \in BlobFields : s.hashes[g] = IF g = f THEN h ELSE v5.hashes[g]
  BY <1>1, <1>2 DEF BlobSyncs, BlobImages
<1>5. v4' = IF Blobs!Present(f) /\ v5.hashes[f] # v5.image[f]
            THEN [v4 EXCEPT ![<<v5.place, f>>] = h] ELSE v4
  BY DEF Blobs!SaveImage, Blobs!Key
<1>6. v4' \in [Blobs!Places \X BlobFields -> Blobs!Maybe]
  BY <1>2, <1>5 DEF BlobInv, BlobShape
<1> HIDE DEF s
<1>7. BlobShape'
  BY <1>3, <1>4, <1>6 DEF BlobInv, BlobShape
<1>8. ASSUME v7 = 0, NEW g \in BlobFields
      PROVE  BlobHolds(g, v5.hashes[g])'
  <2>1. BlobHolds(g, v5.hashes[g]) /\ v5.place \in 0..v3 /\ v3 \in Nat /\ v5.place \in Blobs!Places
    <3>1. v5.place \in 0..BlobMoves /\ v3 \in 0..BlobMoves
      BY <1>1, BlobBounds DEF BlobSyncs, BlobInv, BlobShape
    <3>2. QED
      BY <1>1, <1>8, <3>1, BlobBounds DEF BlobInv
  <2>2. CASE g = f /\ Blobs!Present(f) /\ v5.hashes[f] # v5.image[f]
    <3>1. v4'[<<v5.place, f>>] = h
      BY <1>5, <2>1, <2>2 DEF BlobInv, BlobShape
    <3>2. v5'.hashes[g] = h
      BY <1>3, <1>4, <2>2
    <3> HIDE DEF h
    <3>3. QED
      BY <1>3, <2>1, <2>2, <3>1, <3>2 DEF BlobHolds
  <2>3. CASE ~(g = f /\ Blobs!Present(f) /\ v5.hashes[f] # v5.image[f])
    <3>1. v5'.hashes[g] = v5.hashes[g]
      BY <1>1, <1>3, <1>4, <2>3
    <3>2. \A p \in 0..v3 : v4'[<<p, g>>] = v4[<<p, g>>]
      <4> TAKE p \in 0..v3
      <4>1. <<p, g>> \in Blobs!Places \X BlobFields
        BY BlobBounds DEF BlobInv, BlobShape
      <4>2. CASE g # f
        BY <1>5, <4>1, <4>2 DEF BlobInv, BlobShape
      <4>3. CASE g = f
        BY <1>5, <2>3, <4>3
      <4>4. QED
        BY <4>2, <4>3
    <3>3. QED
      BY <1>3, <2>1, <3>1, <3>2 DEF BlobHolds
  <2>4. QED
    BY <2>2, <2>3
<1>9. ASSUME v7 = 0, NEW g \in BlobFields \ v5'.left, Blobs!Present(g)'
      PROVE  v5'.hashes[g] = v5'.image[g]
  <2>1. Blobs!Present(g)
    BY <1>3, <1>4, <1>9 DEF Blobs!Present
  <2>2. CASE g = f
    BY <1>3, <1>4, <2>1, <2>2
  <2>3. CASE g # f
    BY <1>1, <1>3, <1>4, <1>9, <2>1, <2>3 DEF BlobInv
  <2>4. QED
    BY <2>2, <2>3
<1>10. v7 = 0 => v5.place <= v3
  BY <1>1 DEF BlobInv
<1>11. v7' = v7 /\ v3' = v3 /\ v5'.at = "saving" /\ v5'.place = v5.place
  BY <1>3, <1>4
<1>12. QED
  BY <1>7, <1>8, <1>9, <1>10, <1>11 DEF BlobInv

LEMMA BlobDelete ==
  ASSUME BlobInv, NEW f \in BlobFields, Blobs!DeleteImage(f)
  PROVE  BlobInv'
<1> DEFINE s == [v5 EXCEPT !.hashes[f] = NoImage]
<1>1. v5 \in BlobSyncs /\ v5.at = "saving" /\ ~Blobs!Present(f)
  BY BlobSync DEF Blobs!DeleteImage, Blobs!Obsolete, Blobs!Stale
<1>2. NoImage \in Blobs!Maybe
  BY BlobBounds
<1>3. v5' = s /\ UNCHANGED <<v1, v2, v3, v6, v7>>
  BY DEF Blobs!DeleteImage
<1>4. /\ s \in BlobSyncs /\ s.at = "saving" /\ s.left = v5.left /\ s.place = v5.place
      /\ s.image = v5.image /\ s.only = v5.only
      /\ \A g \in BlobFields : s.hashes[g] = IF g = f THEN NoImage ELSE v5.hashes[g]
  BY <1>1, <1>2 DEF BlobSyncs, BlobImages
<1>5. v4' = [v4 EXCEPT ![<<v5.place, f>>] = NoImage]
  BY DEF Blobs!DeleteImage, Blobs!Key
<1>6. v4' \in [Blobs!Places \X BlobFields -> Blobs!Maybe]
  BY <1>2, <1>5 DEF BlobInv, BlobShape
<1> HIDE DEF s
<1>7. BlobShape'
  BY <1>3, <1>4, <1>6 DEF BlobInv, BlobShape
<1>8. ASSUME v7 = 0, NEW g \in BlobFields
      PROVE  BlobHolds(g, v5.hashes[g])'
  <2>1. BlobHolds(g, v5.hashes[g])
    BY <1>1, <1>8 DEF BlobInv
  <2>2. CASE g = f
    <3>1. v5'.hashes[g] = NoImage
      BY <1>3, <1>4, <2>2
    <3>2. QED
      BY <3>1 DEF BlobHolds
  <2>3. CASE g # f
    <3>1. v5'.hashes[g] = v5.hashes[g]
      BY <1>3, <1>4, <2>3
    <3>2. \A p \in 0..v3 : v4'[<<p, g>>] = v4[<<p, g>>]
      <4> TAKE p \in 0..v3
      <4>1. <<p, g>> \in Blobs!Places \X BlobFields
        BY BlobBounds DEF BlobInv, BlobShape
      <4>2. QED
        BY <1>5, <2>3, <4>1 DEF BlobInv, BlobShape
    <3>3. QED
      BY <1>3, <2>1, <3>1, <3>2 DEF BlobHolds
  <2>4. QED
    BY <2>2, <2>3
<1>9. ASSUME v7 = 0, NEW g \in BlobFields \ v5'.left, Blobs!Present(g)'
      PROVE  v5'.hashes[g] = v5'.image[g]
  <2>1. Blobs!Present(g) /\ g # f
    BY <1>1, <1>3, <1>4, <1>9 DEF Blobs!Present
  <2>2. QED
    BY <1>1, <1>3, <1>4, <1>9, <2>1 DEF BlobInv
<1>10. v7 = 0 => v5.place <= v3
  BY <1>1 DEF BlobInv
<1>11. v7' = v7 /\ v3' = v3 /\ v5'.at = "saving" /\ v5'.place = v5.place
  BY <1>3, <1>4
<1>12. QED
  BY <1>7, <1>8, <1>9, <1>10, <1>11 DEF BlobInv

LEMMA BlobFinish ==
  ASSUME BlobInv, Blobs!Finish
  PROVE  BlobInv'
<1> DEFINE s == [v5 EXCEPT !.at = "returned"]
<1>1. v5 \in BlobSyncs /\ v5.at = "saving" /\ v5.left = {}
  BY BlobSync DEF Blobs!Finish
<1>2. v5' = s /\ v2' = v5.hashes /\ UNCHANGED <<v1, v3, v4, v6, v7>>
  BY DEF Blobs!Finish
<1>3. /\ s \in BlobSyncs /\ s.at = "returned" /\ s.left = v5.left /\ s.place = v5.place
      /\ s.image = v5.image /\ s.only = v5.only /\ s.hashes = v5.hashes
  BY <1>1 DEF BlobSyncs
<1> HIDE DEF s
<1>4. v5.hashes \in BlobImages
  BY <1>1 DEF BlobSyncs
<1>5. BlobShape'
  BY <1>2, <1>3, <1>4 DEF BlobInv, BlobShape
<1>6. QED
  BY <1>1, <1>2, <1>3, <1>5 DEF BlobInv, BlobHolds, Blobs!Present

LEMMA BlobsKeep == BlobInv /\ [Blobs!Next]_(Blobs!vars) => BlobInv'
<1> SUFFICES ASSUME BlobInv, [Blobs!Next]_(Blobs!vars) PROVE BlobInv'
  OBVIOUS
<1>1. CASE Blobs!Transfer
  <2>1. v5.at = "returned" /\ v5' = Blobs!Idle /\ UNCHANGED <<v1, v2, v3, v4, v6, v7>>
    BY <1>1 DEF Blobs!Transfer
  <2>2. v5'.at = "idle" /\ BlobShape'
    BY <2>1 DEF BlobInv, BlobShape, Blobs!Idle
  <2>3. QED
    BY <2>1, <2>2 DEF BlobInv, BlobHolds
<1>2. CASE Blobs!Fail
  <2>1. v5' = Blobs!Idle /\ UNCHANGED <<v1, v2, v3, v4, v6>> /\ v7' = v7 + 1 /\ v7' \in 0..BlobFails /\ v7' # 0
    BY <1>2, BlobBounds DEF Blobs!Fail, BlobInv, BlobShape
  <2>2. QED
    BY <2>1 DEF BlobInv, BlobShape
<1>3. ASSUME NEW f \in BlobFields, NEW c \in Blobs!Maybe, Blobs!Edit(f, c)
      PROVE  BlobInv'
  <2>1. v1' \in BlobImages /\ v6' \in 0..BlobEdits /\ UNCHANGED <<v2, v3, v4, v5, v7>>
    BY <1>3, BlobBounds DEF Blobs!Edit, BlobInv, BlobShape, BlobImages
  <2>2. BlobShape'
    BY <2>1 DEF BlobInv, BlobShape
  <2>3. QED
    BY <2>1, <2>2 DEF BlobInv, BlobHolds, Blobs!Present
<1>4. CASE Blobs!MoveProgram
  <2>1. v3' = v3 + 1 /\ v3' \in Blobs!Places /\ v3 \in Nat /\ UNCHANGED <<v1, v2, v4, v5, v6, v7>>
    BY <1>4, BlobBounds DEF Blobs!MoveProgram, BlobInv, BlobShape
  <2>2. BlobShape'
    BY <2>1 DEF BlobInv, BlobShape
  <2>3. ASSUME NEW f \in BlobFields, NEW c, BlobHolds(f, c)
        PROVE  c # NoImage => \E p \in 0..v3' : v4[<<p, f>>] = c
    BY <2>1, <2>3 DEF BlobHolds
  <2>4. v5.at # "idle" => v5.place \in Nat
    BY BlobSync, BlobBounds DEF BlobSyncs
  <2>5. /\ \A f \in BlobFields : BlobHolds(f, v2[f]) => BlobHolds(f, v2[f])'
        /\ \A f \in BlobFields : BlobHolds(f, v5.hashes[f]) => BlobHolds(f, v5.hashes[f])'
    BY <2>1, <2>3 DEF BlobHolds
  <2>6. v7 = 0 /\ v5.at # "idle" => v5.place <= v3'
    BY <2>1, <2>4 DEF BlobInv
  <2>0. /\ v7 = 0 /\ v5.at = "idle" => \A f \in BlobFields : BlobHolds(f, v2[f])
        /\ v7 = 0 /\ v5.at # "idle" => \A f \in BlobFields : BlobHolds(f, v5.hashes[f])
    BY DEF BlobInv
  <2>7. CASE v7 # 0
    BY <2>1, <2>2, <2>7 DEF BlobInv
  <2>8. CASE v7 = 0 /\ v5.at = "idle"
    <3>1. \A f \in BlobFields : BlobHolds(f, v2[f])'
      <4> TAKE f \in BlobFields
      <4>1. BlobHolds(f, v2[f])
        BY <2>0, <2>8
      <4>2. QED
        BY <2>5, <4>1
    <3>2. QED
      BY <2>1, <2>2, <2>8, <3>1 DEF BlobInv
  <2>9. CASE v7 = 0 /\ v5.at # "idle"
    <3>1. \A f \in BlobFields : BlobHolds(f, v5.hashes[f])'
      <4> TAKE f \in BlobFields
      <4>1. BlobHolds(f, v5.hashes[f])
        BY <2>0, <2>9
      <4>2. QED
        BY <2>5, <4>1
    <3>2. /\ \A f \in BlobFields \ v5'.left : Blobs!Present(f)' => v5'.hashes[f] = v5'.image[f]
          /\ v5'.at = "returned" => v5'.left = {} /\ v2' = v5'.hashes
      BY <2>1, <2>9 DEF BlobInv, Blobs!Present
    <3>3. QED
      BY <2>1, <2>2, <2>6, <2>9, <3>1, <3>2 DEF BlobInv
  <2>10. QED
    BY <2>7, <2>8, <2>9
<1>5. CASE UNCHANGED Blobs!vars
  BY <1>5 DEF Blobs!vars, BlobInv, BlobShape, BlobHolds, Blobs!Present
<1>6. QED
  BY <1>1, <1>2, <1>3, <1>4, <1>5, BlobStart, BlobSave, BlobDelete, BlobFinish DEF Blobs!Next

LEMMA BlobsMean == BlobInv => Blobs!TypeOK /\ Blobs!CalmKeysHoldImages
<1> SUFFICES ASSUME BlobInv PROVE Blobs!TypeOK /\ Blobs!CalmKeysHoldImages
  OBVIOUS
<1>1. 0..v3 \subseteq Blobs!Places
  BY BlobBounds DEF BlobInv, BlobShape
<1>2. v5 = Blobs!Idle /\ v7 = 0 =>
        \A f \in BlobFields : v2[f] # NoImage => \E p \in Blobs!Places : v4[<<p, f>>] = v2[f]
  <2> SUFFICES ASSUME v5 = Blobs!Idle, v7 = 0, NEW f \in BlobFields, v2[f] # NoImage
               PROVE  \E p \in Blobs!Places : v4[<<p, f>>] = v2[f]
    OBVIOUS
  <2>1. BlobHolds(f, v2[f])
    BY DEF BlobInv, Blobs!Idle
  <2>2. PICK p \in 0..v3 : v4[<<p, f>>] = v2[f]
    BY <2>1 DEF BlobHolds
  <2>3. QED
    BY <1>1, <2>2
<1>3. Blobs!TypeOK
  BY <1>2 DEF BlobInv, BlobShape, BlobImages, Blobs!TypeOK
<1>4. ASSUME v7 = 0, v3 = 0, NEW f \in BlobFields, Blobs!Returned(f)
      PROVE  v4[Blobs!Key(f)] = v5.image[f]
  <2>1. v5.at = "returned" /\ Blobs!Present(f)
    BY <1>4 DEF Blobs!Returned
  <2>2. v5.place = 0
    BY <1>4, <2>1, BlobSync, BlobBounds DEF BlobInv, BlobSyncs
  <2>3. v5.hashes[f] = v5.image[f] /\ v5.hashes[f] # NoImage
    BY <1>4, <2>1 DEF BlobInv, Blobs!Present
  <2>4. \E p \in 0..0 : v4[<<p, f>>] = v5.hashes[f]
    BY <1>4, <2>1, <2>3 DEF BlobInv, BlobHolds
  <2>5. QED
    BY <2>2, <2>3, <2>4 DEF Blobs!Key
<1>5. QED
  BY <1>3, <1>4 DEF Blobs!CalmKeysHoldImages, Blobs!KeysHoldImages

-----------------------------------------------------------------------------
(* All of them.                                                            *)

\* A step of the whole is a step of the component that is in, or none.
LEMMA StepOfComponent ==
  ASSUME [NextAll]_all
  PROVE  /\ component' = component
         /\ In("Kobo") => [Kobo!Next]_(Kobo!vars)
         /\ In("Aurora") => [Aurora!Next]_(Aurora!vars)
         /\ In("Ona") => [Ona!Next]_(Ona!vars)
         /\ In("OnaCalm") => [OnaCalm!Next]_(OnaCalm!vars)
         /\ In("Picture") => [Picture!Next]_(Picture!vars)
         /\ In("Flex") => [Flex!Next]_(Flex!vars)
         /\ In("FlexForm") => [FlexForm!Next]_(FlexForm!vars)
         /\ In("Blobs") => [Blobs!Next]_(Blobs!vars)
         /\ [Next]_vars
<1>1. CASE NextAll
  BY <1>1 DEF NextAll, In, CollectorsNext, KoboNext, AuroraNext, OnaNext, OnaCalmNext, PictureNext, FlexNext,
    FlexFormNext, BlobsNext
<1>2. CASE UNCHANGED all
  BY <1>2 DEF all, slots, Kobo!vars, Aurora!vars, Ona!vars, OnaCalm!vars, Picture!vars, Flex!vars,
    FlexForm!vars, Blobs!vars
<1>3. QED
  BY <1>1, <1>2

ImportsInv ==
  /\ CollInv
  /\ In("Kobo") => KoboBoth
  /\ In("Aurora") => AuroraBoth
  /\ In("Ona") => OnaP!OnaInv
  /\ In("OnaCalm") => OnaCalmP!OnaInv /\ v12 = 0
  /\ In("Picture") => PicInv
  /\ In("Flex") => FlexInv
  /\ In("FlexForm") => FormInv
  /\ In("Blobs") => BlobInv

LEMMA InitImports == InitAll => ImportsInv
<1> SUFFICES ASSUME InitAll PROVE ImportsInv
  OBVIOUS
<1>1. /\ In("Kobo") => Kobo!Init
      /\ In("Aurora") => Aurora!Init
      /\ In("Ona") => Ona!Init
      /\ In("OnaCalm") => OnaCalm!Init
      /\ In("Picture") => Picture!Init
      /\ In("Flex") => Flex!Init
      /\ In("FlexForm") => FlexForm!Init
      /\ In("Blobs") => Blobs!Init
      /\ Init
  BY DEF InitAll, In, CollectorsInit, KoboInit, AuroraInit, OnaInit, OnaCalmInit, PictureInit, FlexInit,
    FlexFormInit, BlobsInit
<1>2. OnaCalm!Init => v12 = 0
  BY DEF OnaCalm!Init
<1>3. QED
  BY <1>1, <1>2, KoboBegins, AuroraBegins, OnaBegins, OnaCalmBegins, CollectorsBegin, PicBegins,
    FlexBegins, FormBegins, BlobsBegin DEF ImportsInv

LEMMA NextImports == ImportsInv /\ [NextAll]_all => ImportsInv'
<1> SUFFICES ASSUME ImportsInv, [NextAll]_all PROVE ImportsInv'
  OBVIOUS
<1>1. component' = component
  BY StepOfComponent
<1>2. In("Kobo") => KoboBoth'
  BY StepOfComponent, KoboKeeps DEF ImportsInv
<1>3. In("Aurora") => AuroraBoth'
  BY StepOfComponent, AuroraKeeps DEF ImportsInv
<1>4. In("Ona") => OnaP!OnaInv'
  BY StepOfComponent, OnaKeeps DEF ImportsInv
<1>5. In("OnaCalm") => OnaCalmP!OnaInv' /\ v12' = 0
  BY <1>1, StepOfComponent, OnaCalmKeeps, OnceKeeps DEF ImportsInv
<1>6. CollInv'
  BY StepOfComponent, CollKept DEF ImportsInv
<1>7. In("Picture") => PicInv'
  BY StepOfComponent, PicKept DEF ImportsInv
<1>8. In("Flex") => FlexInv'
  BY StepOfComponent, FlexKept DEF ImportsInv
<1>9. In("FlexForm") => FormInv'
  BY StepOfComponent, FormKept DEF ImportsInv
<1>10. In("Blobs") => BlobInv'
  BY StepOfComponent, BlobsKeep DEF ImportsInv
<1>11. QED
  BY <1>1, <1>2, <1>3, <1>4, <1>5, <1>6, <1>7, <1>8, <1>9, <1>10 DEF ImportsInv, In

(* The watermarks of Kobo and Aurora pass nothing that was not imported, a    *)
(* complete batch has all there was, ONA passes over no more than was deleted *)
(* there, records are created again by dead workers and overlapping runs      *)
(* only: for any number of records, requests, jobs, pages and faults.         *)
THEOREM ImportsStayComplete == SpecAll => []ImportsComplete
<1>1. ImportsInv => ImportsComplete
  BY KoboMeans, AuroraMeans, OnaMeans DEF ImportsInv, ImportsComplete
<1>2. QED
  BY <1>1, InitImports, NextImports, PTL DEF SpecAll

(* The type invariants, with what they say of records, jobs and batches       *)
(* besides: a flexible file has an owner that exists or existed, a command    *)
(* has loaded only what it has not reached, a job resets only records it gave *)
(* a picture.                                                                 *)
THEOREM TypesAlwaysOK == SpecAll => []TypesOK
<1>1. ImportsInv => TypesOK
  BY KoboMeans, AuroraMeans, OnaMeans, OnaCalmMeans, PicMeans, FlexMeans, FormMeans, BlobsMean
     DEF ImportsInv, TypesOK, CollInv
<1>2. QED
  BY <1>1, InitImports, NextImports, PTL DEF SpecAll

(* Nothing that is used is lost, for any number of requests, jobs, records,   *)
(* rows, runs and contents: an archive a user is asked to confirm exists and, *)
(* while no worker dies, gives no file to two persons; flexible files keep    *)
(* their content through conversions that fail, stop, are killed and go back, *)
(* and a run that ends without a failure has left nothing behind; references, *)
(* an open form's too, find their rows; a key in a payload leads to the image *)
(* of the record; and the collector that a cleanup has read as referred to    *)
(* stays.                                                                     *)
THEOREM NothingIsLost == SpecAll => NothingUsedIsLost
<1> DEFINE Kept == /\ In("Picture") => Picture!DraftHasZip /\ Picture!NotTwoPersons
                   /\ In("Flex") => Flex!ContentKept /\ Flex!EndedRunIsComplete
                   /\ In("FlexForm") => FlexForm!ReferencesResolve
                   /\ In("Blobs") => Blobs!CalmKeysHoldImages
<1>1. ImportsInv => Kept
  BY PicMeans, FlexMeans, FormMeans, BlobsMean DEF ImportsInv
<1>2. ImportsInv /\ [NextAll]_all => [In("Collectors") => ReadReferencesSurvive]_all
  BY StepOfComponent, ReadSurvive DEF ImportsInv
<1> HIDE DEF Kept
<1>3. SpecAll => []Kept /\ [][In("Collectors") => ReadReferencesSurvive]_all
  BY <1>1, <1>2, InitImports, NextImports, PTL DEF SpecAll
<1>4. QED
  BY <1>3 DEF Kept, NothingUsedIsLost

(* While no worker dies, ONA imports that overlap and messages that are       *)
(* delivered again implement ImportOnce.                                      *)
THEOREM ImportedOnce == SpecAll => ImportsOnce
<1>1. ImportsInv /\ [NextAll]_all => [Promise!Next]_(Promise!vars)
  <2> SUFFICES ASSUME ImportsInv, [NextAll]_all PROVE [Promise!Next]_(Promise!vars)
    OBVIOUS
  <2>1. component' = component
    BY StepOfComponent
  <2>2. CASE In("OnaCalm")
    BY <2>1, <2>2, StepOfComponent, OnceKeeps DEF ImportsInv
  <2>3. CASE ~In("OnaCalm")
    <3>1. ~In("OnaCalm")'
      BY <2>1, <2>3 DEF In
    <3>2. UNCHANGED Promise!vars
      BY <2>3, <3>1 DEF Promise!vars
    <3>3. QED
      BY <3>2
  <2>4. QED
    BY <2>2, <2>3
<1>2. QED
  BY <1>1, OnceBegins, InitImports, NextImports, PTL DEF SpecAll, ImportsOnce, Promise!Spec
=============================================================================
