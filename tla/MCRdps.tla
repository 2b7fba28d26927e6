------------------------------ MODULE MCRdps ------------------------------
(*****************************************************************************)
(* An RDP beside its push and its deduplication: the pages and the            *)
(* administration's form (RdpPages), the creation of RDPs (RdpCreate), the    *)
(* data of a push (PushData), what deduplication finds and where it is shown  *)
(* (DedupFindings), and the rows its transactions lock (RdpLocks). A behaviour*)
(* is one of one of these components, as in MCImports.                        *)
(*****************************************************************************)
EXTENDS RdpPages, TLC

CONSTANTS
  Components,   \* the components that the run exercises
  FormUsers, FormAttempts,       \* Form: users, bound on push attempts
  Creators, Beneficiaries, MaxCreated, MaxValidity,  \* Create: jobs; bounds on RDPs and edits
  Households, Individuals, NoOne, HouseholdOf, RolesOf, EditsOf, BatchSize,  \* Data, People
  MaxPushed, MaxRdis, DataEdits, PeopleEdits,        \* their bounds
  Procs, LockedRdps,             \* Locks: transactions, RDPs
  Photographed, Families, FamilyOf, Outsiders, Callbacks,  \* Findings, Results
  FoundRdps, FoundPairs, PhotoEdits, ResultRdps,     \* their bounds, that of Results
  h1, h2, i1, i2, i3, c1,        \* households, their members, another individual
  k1, k2                         \* readers

(* PushData: two households with a member each, and an external collector     *)
(* both may refer to.  An edit gives a member of the other household, a key   *)
(* that became text, a HOPE tag, or nobody.                                   *)
NoKey == [kind |-> "none", pk |-> NoOne]
Key(i) == [kind |-> "int", pk |-> i]
TwoHouseholds == (i1 :> h1) @@ (i2 :> h2) @@ (c1 :> NoOne)
TwoRoles == [h \in {h1, h2} |->
  [head_of_household_id |-> Key(IF h = h1 THEN i1 ELSE i2), primary_collector_id |-> Key(c1),
   alternate_collector_id |-> NoKey]]
SomeEdits == {NoKey, [kind |-> "tag", pk |-> NoOne], [kind |-> "text", pk |-> c1], Key(c1), Key(i2)}

(* DedupFindings: one household with two members, one with one, and an        *)
(* individual of another program.                                             *)
HouseOf == (i1 :> h1) @@ (i2 :> h1) @@ (i3 :> h2) @@ (c1 :> NoOne)

VARIABLES component, v1, v2, v3, v4, v5, v6, v7, v8

slots == <<v1, v2, v3, v4, v5, v6, v7, v8>>
all == <<component, slots, vars>>
In(part) == component = part

Form == INSTANCE RdpPages WITH Users <- FormUsers, MaxAttempts <- FormAttempts, Forms <- TRUE,
  status <- v1, rdi <- v2, attempt <- v3, prepared <- v4, op <- v5, hope <- v6, page <- v7,
  used <- v8
FormInit == In("Form") /\ Form!Init
FormNext == In("Form") /\ Form!Next /\ UNCHANGED <<component, vars>>

Create == INSTANCE RdpCreate WITH Jobs <- Creators, Beneficiaries <- Beneficiaries,
  MaxRdps <- MaxCreated, MaxEdits <- MaxValidity, rdps <- v1, removed <- v2, valid <- v3,
  cleanup <- v4, job <- v5, edits <- v6
CreateInit == In("Create") /\ Create!Init /\ v7 = 0 /\ v8 = 0
CreateNext == In("Create") /\ Create!Next /\ UNCHANGED <<component, vars, v7, v8>>

Data == INSTANCE PushData WITH Households <- Households, Individuals <- Individuals,
  NoOne <- NoOne, Household <- HouseholdOf, FirstRoles <- RolesOf, EditRefs <- EditsOf,
  MasterDetail <- TRUE, BatchSize <- BatchSize, MaxRdps <- MaxPushed, MaxRdis <- MaxRdis,
  MaxEdits <- DataEdits, roles <- v1, valid <- v2, removed <- v3, rdps <- v4, rdis <- v5,
  push <- v6, edits <- v7
DataInit == In("Data") /\ Data!Init /\ v8 = 0
DataNext == In("Data") /\ Data!Next /\ UNCHANGED <<component, vars, v8>>

People == INSTANCE PushData WITH Households <- Households, Individuals <- Individuals,
  NoOne <- NoOne, Household <- HouseholdOf, FirstRoles <- RolesOf, EditRefs <- EditsOf,
  MasterDetail <- FALSE, BatchSize <- BatchSize, MaxRdps <- MaxPushed, MaxRdis <- MaxRdis,
  MaxEdits <- PeopleEdits, roles <- v1, valid <- v2, removed <- v3, rdps <- v4, rdis <- v5,
  push <- v6, edits <- v7
PeopleInit == In("People") /\ People!Init /\ v8 = 0
PeopleNext == In("People") /\ People!Next /\ UNCHANGED <<component, vars, v8>>

Findings == INSTANCE DedupFindings WITH Individuals <- Photographed, Households <- Families,
  house <- FamilyOf, Strangers <- Outsiders, NoOne <- NoOne, Readers <- Callbacks,
  MaxRdps <- FoundRdps, MaxFindings <- FoundPairs, MaxEdits <- PhotoEdits, rdp <- v1, set <- v2,
  reader <- v3, photo <- v4, removed <- v5
FindingsInit == In("Findings") /\ Findings!Init /\ v6 = 0 /\ v7 = 0 /\ v8 = 0
\* Findings: any results, read by one callback, of photos that stay
FindingsFits == (\A i \in Photographed : v4[i] = 0) /\ \A k \in Callbacks \ {k1} : v3[k].rdp = 0
FindingsNext == In("Findings") /\ Findings!Next /\ FindingsFits'
    /\ UNCHANGED <<component, vars, v6, v7, v8>>

ResultsInit == In("Results") /\ Findings!Init /\ v6 = 0 /\ v7 = 0 /\ v8 = 0
\* Results: few results of few RDPs, read by any callbacks, of photos that are changed
ResultsFits == \A r \in Findings!Created : r <= ResultRdps /\ \A f, g \in v2[r].findings : f = g
ResultsNext == In("Results") /\ Findings!Next /\ ResultsFits'
    /\ UNCHANGED <<component, vars, v6, v7, v8>>

Locks == INSTANCE RdpLocks WITH Procs <- Procs, Rdps <- LockedRdps, status <- v1, op <- v2,
  tx <- v3
LocksInit == In("Locks") /\ Locks!Init /\ v4 = 0 /\ v5 = 0 /\ v6 = 0 /\ v7 = 0 /\ v8 = 0
LocksNext == In("Locks") /\ Locks!Next /\ UNCHANGED <<component, vars, v4, v5, v6, v7, v8>>

(* One of the states an RDP may begin with, for the other components.         *)
Single == op = "none"
RdpPagesInit == In("RdpPages") /\ v1 = 0 /\ v2 = 0 /\ v3 = 0 /\ v4 = 0 /\ v5 = 0 /\ v6 = 0
    /\ v7 = 0 /\ v8 = 0
RdpPagesNext == In("RdpPages") /\ Next /\ UNCHANGED <<component, slots>>

InitAll ==
  /\ component \in Components /\ Init /\ (~In("RdpPages") => Single)
  /\ \/ RdpPagesInit \/ FormInit \/ CreateInit \/ DataInit \/ PeopleInit \/ FindingsInit
     \/ ResultsInit \/ LocksInit
NextAll ==
  \/ RdpPagesNext \/ FormNext \/ CreateNext \/ DataNext \/ PeopleNext \/ FindingsNext
  \/ ResultsNext \/ LocksNext
SpecAll == InitAll /\ [][NextAll]_all

ASSUME BoundsAssumption ==
  Form!PagesAssumption /\ Create!CreateAssumption /\ Data!PushDataAssumption
    /\ People!PushDataAssumption /\ Findings!FindingsAssumption

------------------------------------------------------------------------------
(* The type invariants of the components.                                     *)
TypesOK ==
  /\ TypeOK
  /\ In("Create") => Create!TypeOK
  /\ In("Data") => Data!TypeOK
  /\ In("People") => People!TypeOK
  /\ In("Findings") \/ In("Results") => Findings!TypeOK
  /\ In("Locks") => Locks!TypeOK

(* Whatever pages, forms, jobs and edits do, the RDPs agree with each other   *)
(* and with HOPE: a form leaves attempt and status together, an RDP whose     *)
(* operation runs is still wanted, nobody is in two unfinished or successful  *)
(* RDPs, what is removed was pushed, and what was completed in HOPE is all    *)
(* there.  A page ends no attempt but the one it showed.                      *)
RdpsConsistent ==
  /\ [](/\ In("RdpPages") => RunningIsWanted
        /\ In("Form") => Form!AttemptMatches
        /\ In("Create") => Create!LinkedOnce /\ Create!RemovedIsPushed
        /\ In("Data") => Data!CompletedIsClosed /\ Data!RemovedIsPushed
        /\ In("People") => People!RemovedWereSent)
  /\ [][In("RdpPages") => StuckEndsItsOwn]_all

(* Findings are of members of the RDP, shown at both ends, gone from a clean  *)
(* RDP, and decided once, by the first of several readers.                    *)
FindingsAreTrue ==
  /\ [](In("Findings") => /\ Findings!FindingsAreOwn /\ Findings!NoPairStays
                          /\ Findings!Mirrored /\ Findings!ShownTwice /\ Findings!LinksOpen)
  /\ [][/\ In("Findings") => Findings!CleanIsSpotless
        /\ In("Results") => Findings!ResultStands]_all

(* Transactions wait for each other only where a clean RDP is created, and    *)
(* such a deadlock never costs the result of a running operation.             *)
LocksAreSafe ==
  /\ [](In("Locks") => Locks!OnlyCleanDeadlocks)
  /\ [][In("Locks") => Locks!ResultsAreKept]_all
==============================================================================
