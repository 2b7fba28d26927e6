----------------------------- MODULE Collectors -----------------------------
(***************************************************************************)
(* External collectors of one program: imports of RDI files that share     *)
(* them (datasources/rdi/processors.py, utils/import_flow), the links that *)
(* post-processing adds, and the cleanup of a batch (tasks.py).            *)
(*                                                                         *)
(* An import runs in one READ COMMITTED transaction up to the commit of    *)
(* its batch; post-processing follows outside of it.  An import is also    *)
(* the name of its batch, and <<import, person>> that of the collector the *)
(* import creates for a person, so both are unique for good.               *)
(*                                                                         *)
(* A file is one household, with the row references of its primary and     *)
(* alternate collector, one member with a collector_id, and the collector  *)
(* rows in order; a person stands for the identity hash of a row.          *)
(***************************************************************************)
EXTENDS Naturals, Sequences

CONSTANTS
  Imports,     \* numbers: the order in which batches are created
  People,      \* who collects, as the identity hash tells people apart
  Sheets,      \* the files: [rows : Seq([ref, who]), primary, alternate, member]
  NoOne        \* no lock holder, no reference, no link

ASSUME ImportsAreNumbers == Imports \subseteq Nat /\ NoOne \notin Imports \cup (Imports \X People)

ASSUME RowsAreSequences == \A s \in Sheets : s.rows \in Seq({s.rows[n] : n \in DOMAIN s.rows})

ASSUME RowsNamePeople == \A s \in Sheets : \A n \in DOMAIN s.rows : s.rows[n].who \in People

VARIABLES
  step,        \* import -> where it is
  sheet,       \* import -> its file
  at,          \* import -> next row
  found,       \* import -> reference_pks: row reference -> collector
  lock,        \* person -> the import that holds the advisory lock
  coll,        \* collector -> its state
  ownId,       \* collector -> the individual_id of the row that created it
  owner,       \* collector -> Individual.batch
  hh,          \* import -> role references of its household
  link,        \* import -> the collector_id of its member
  cleaning,    \* the batch whose cleanup holds the lock of the program
  snapshot,    \* the role references that cleanup has read
  pinned       \* batches that an unfinished RDP references

vars == <<step, sheet, at, found, lock, coll, ownId, owner, hh, link, cleaning,
          snapshot, pinned>>

Collectors == Imports \X People
Refs       == UNION {{s.rows[n].ref : n \in DOMAIN s.rows} : s \in Sheets}
NoRefs     == [primary |-> NoOne, alternate |-> NoOne]
NoSheet    == [rows |-> <<>>, primary |-> NoOne, alternate |-> NoOne, member |-> NoOne]

\* "loaded": committed, in post-processing.  "stopped": committed, status LOADING for good.
Steps     == {"new", "rows", "loaded", "complete", "stopped", "failed", "gone"}
Committed == {"loaded", "complete", "stopped"}

Init ==
  /\ step = [i \in Imports |-> "new"]
  /\ sheet = [i \in Imports |-> NoSheet]
  /\ at = [i \in Imports |-> 1]
  /\ found = [i \in Imports |-> [r \in Refs |-> NoOne]]
  /\ lock = [h \in People |-> NoOne]
  /\ coll = [k \in Collectors |-> "none"]
  /\ ownId = [k \in Collectors |-> NoOne]
  /\ owner = [k \in Collectors |-> NoOne]
  /\ hh = [i \in Imports |-> NoRefs]
  /\ link = [i \in Imports |-> NoOne]
  /\ cleaning = NoOne /\ snapshot = {} /\ pinned = {}

files   == <<sheet, ownId>>
program == <<cleaning, snapshot, pinned>>

-----------------------------------------------------------------------------
(* The import.                                                             *)

\* import_from_rdi: the transaction begins, and Batch.objects.create
Begin(i) ==
  /\ step[i] = "new"
  /\ \A j \in Imports : j < i => step[j] # "new"
  /\ step' = [step EXCEPT ![i] = "rows"]
  /\ \E s \in Sheets : sheet' = [sheet EXCEPT ![i] = s]
  /\ UNCHANGED <<at, found, lock, coll, ownId, owner, hh, link, program>>

HasRow(i) == step[i] = "rows" /\ at[i] <= Len(sheet[i].rows)
Row(i)    == sheet[i].rows[at[i]]

\* the collectors the query of get_or_create_collector returns to import i
Existing(i, h) ==
  {j \in Imports : coll[<<j, h>>] = "live" \/ (j = i /\ coll[<<j, h>>] = "pending")}

Create(i, h, ref) ==
  /\ coll' = [coll EXCEPT ![<<i, h>>] = "pending"]
  /\ ownId' = [ownId EXCEPT ![<<i, h>>] = ref]
  /\ owner' = [owner EXCEPT ![<<i, h>>] = i]

First(S) == CHOOSE j \in S : \A other \in S : j <= other

\* Mutant of GetOrCreateCollector: no lock around query and creation.
GetOrCreateUnlocked(i) ==
  LET ref == Row(i).ref
      h   == Row(i).who
      use == IF Existing(i, h) = {} THEN i ELSE First(Existing(i, h)) IN
  /\ HasRow(i)
  /\ IF Existing(i, h) = {} THEN Create(i, h, ref) ELSE UNCHANGED <<coll, ownId, owner>>
  /\ found' = [found EXCEPT ![i][ref] = <<use, h>>]
  /\ at' = [at EXCEPT ![i] = @ + 1]
  /\ UNCHANGED <<step, sheet, lock, hh, link, program>>

\* _lock_collector and get_or_create_collector for the next row
GetOrCreateCollector(i) ==
  LET ref == Row(i).ref
      h   == Row(i).who
      use == IF Existing(i, h) = {} THEN i ELSE First(Existing(i, h)) IN
  /\ HasRow(i)
  /\ lock[h] \in {NoOne, i}
  /\ lock' = [lock EXCEPT ![h] = i]
  /\ IF Existing(i, h) = {} THEN Create(i, h, ref) ELSE UNCHANGED <<coll, ownId, owner>>
  /\ found' = [found EXCEPT ![i][ref] = <<use, h>>]
  /\ at' = [at EXCEPT ![i] = @ + 1]
  /\ UNCHANGED <<step, sheet, hh, link, program>>

Released(i) == [h \in People |-> IF lock[h] = i THEN NoOne ELSE lock[h]]

\* Mutant of Resolve: looked up by the individual_id the collector itself carries.
ResolveByOwnId(i, ref) ==
  LET same == {k \in Collectors : ownId[k] = ref /\ k \in {found[i][r] : r \in Refs}} IN
  IF same = {} THEN NoOne ELSE CHOOSE k \in same : TRUE

\* _sync_ind_pks: a reference of the sheet becomes a key, or is cleared
Resolve(i, ref) == IF ref \in Refs THEN found[i][ref] ELSE NoOne

\* The household refers to its collectors and the transaction commits.  The deferred
\* foreign key of the batch locks the row of the program, which a cleanup may hold.
Commit(i) ==
  /\ step[i] = "rows" /\ ~HasRow(i)
  /\ cleaning = NoOne
  /\ step' = [step EXCEPT ![i] = "loaded"]
  /\ hh' = [hh EXCEPT ![i] = [primary   |-> Resolve(i, sheet[i].primary),
                              alternate |-> Resolve(i, sheet[i].alternate)]]
  /\ coll' = [k \in Collectors |-> IF k[1] = i /\ coll[k] = "pending" THEN "live" ELSE coll[k]]
  /\ lock' = Released(i)
  /\ UNCHANGED <<at, found, files, owner, link, program>>

Rollback(i) ==
  /\ step' = [step EXCEPT ![i] = "failed"]
  /\ coll' = [k \in Collectors |-> IF k[1] = i THEN "none" ELSE coll[k]]
  /\ owner' = [k \in Collectors |-> IF k[1] = i THEN NoOne ELSE owner[k]]
  /\ lock' = Released(i)
  /\ UNCHANGED <<at, found, files, hh, link, program>>

\* the job is cancelled, or a row is wrong: everything is rolled back
Fail(i) == step[i] = "rows" /\ Rollback(i)

Waits(i, j) == HasRow(i) /\ i # j /\ lock[Row(i).who] = j

\* PostgreSQL ends one of the transactions that wait for each other
BreakDeadlock(i) ==
  /\ \E S \in SUBSET Imports : i \in S /\ \A j \in S : \E k \in S : Waits(j, k)
  /\ Rollback(i)

\* sync_collector_links: collectors of the batch come before those of the program
CarriersOf(ref, i) ==
  LET all == {k \in Collectors : coll[k] = "live" /\ ownId[k] = ref}
      own == {k \in all : owner[k] = i} IN
  IF own # {} THEN own ELSE all

\* run_batch_postprocessing and the end of import_from_rdi
Postprocess(i) ==
  /\ step[i] = "loaded"
  /\ step' = [step EXCEPT ![i] = "complete"]
  /\ LET targets == CarriersOf(sheet[i].member, i) IN
     IF targets = {} THEN UNCHANGED link
     ELSE \E k \in targets : link' = [link EXCEPT ![i] = k]
  /\ UNCHANGED <<at, found, lock, coll, files, owner, hh, program>>

\* post-processing fails or is cancelled
Stop(i) ==
  /\ step[i] = "loaded"
  /\ step' = [step EXCEPT ![i] = "stopped"]
  /\ UNCHANGED <<at, found, lock, coll, files, owner, hh, link, program>>

-----------------------------------------------------------------------------
(* RDPs and the cleanup of a batch.                                        *)

\* create_rdp locks the program and selects beneficiaries of batch i
CreateRdp(i) ==
  /\ cleaning = NoOne
  /\ step[i] \in Committed
  /\ pinned = {}
  /\ pinned' = {i}
  /\ UNCHANGED <<step, at, found, lock, coll, files, owner, hh, link, cleaning, snapshot>>

EndRdp ==
  /\ pinned # {}
  /\ pinned' = {}
  /\ UNCHANGED <<step, at, found, lock, coll, files, owner, hh, link, cleaning, snapshot>>

\* _referenced_collector_reparenting: <<collector, batch>> for the households of other batches
RefsOutside(b) ==
  {pair \in Collectors \X Imports :
     /\ pair[2] # b /\ step[pair[2]] \in Committed
     /\ pair[1] \in {hh[pair[2]].primary, hh[pair[2]].alternate}}

\* Mutant of CleanupBegin: RDPs are not looked at.
CleanupBeginAnyway(b) ==
  /\ cleaning = NoOne
  /\ step[b] \in Committed
  /\ cleaning' = b
  /\ snapshot' = RefsOutside(b)
  /\ UNCHANGED <<step, at, found, lock, coll, files, owner, hh, link, pinned>>

\* batch_cleanup up to the first change
CleanupBegin(b) ==
  /\ cleaning = NoOne
  /\ step[b] \in Committed
  /\ b \notin pinned
  /\ cleaning' = b
  /\ snapshot' = RefsOutside(b)
  /\ UNCHANGED <<step, at, found, lock, coll, files, owner, hh, link, pinned>>

\* the batch a collector moves to
NewOwner(k) ==
  LET users == {i \in Imports : <<k, i>> \in snapshot} IN
  IF users = {} THEN NoOne ELSE First(users)

\* _cleanup_batches for the one batch, and the commit
CleanupDelete(b) ==
  LET Mine(k) == coll[k] = "live" /\ owner[k] = b IN
  /\ cleaning = b
  /\ cleaning' = NoOne /\ snapshot' = {}
  /\ step' = [step EXCEPT ![b] = "gone"]
  /\ owner' = [k \in Collectors |-> IF Mine(k) THEN NewOwner(k) ELSE owner[k]]
  /\ coll' = [k \in Collectors |-> IF Mine(k) /\ NewOwner(k) = NoOne THEN "gone" ELSE coll[k]]
  /\ hh' = [hh EXCEPT ![b] = NoRefs]
  /\ link' = [link EXCEPT ![b] = NoOne]
  /\ UNCHANGED <<at, found, lock, files, pinned>>

\* the cleanup fails or is terminated: its transaction is rolled back
CleanupFail(b) ==
  /\ cleaning = b
  /\ cleaning' = NoOne /\ snapshot' = {}
  /\ UNCHANGED <<step, at, found, lock, coll, files, owner, hh, link, pinned>>

-----------------------------------------------------------------------------
ImportStep(i) ==
  \/ Begin(i) \/ GetOrCreateCollector(i) \/ Commit(i) \/ Fail(i)
  \/ BreakDeadlock(i) \/ Postprocess(i) \/ Stop(i)
Cleanup(b) == CleanupBegin(b) \/ CleanupDelete(b) \/ CleanupFail(b)

Next == \/ EndRdp
        \/ \E i \in Imports : ImportStep(i) \/ Cleanup(i) \/ CreateRdp(i)

Spec == Init /\ [][Next]_vars

-----------------------------------------------------------------------------
(* Properties.                                                             *)

\* The types, and: rows of a transaction exist only while it runs, locks likewise.
TypeOK ==
  /\ step \in [Imports -> Steps]
  /\ at \in [Imports -> Nat]
  /\ found \in [Imports -> [Refs -> Collectors \cup {NoOne}]]
  /\ lock \in [People -> Imports \cup {NoOne}]
  /\ coll \in [Collectors -> {"none", "pending", "live", "gone"}]
  /\ owner \in [Collectors -> Imports \cup {NoOne}]
  /\ hh \in [Imports -> [{"primary", "alternate"} -> Collectors \cup {NoOne}]]
  /\ link \in [Imports -> Collectors \cup {NoOne}]
  /\ cleaning \in Imports \cup {NoOne}
  /\ pinned \subseteq Imports
  /\ \A k \in Collectors : coll[k] = "pending" => step[k[1]] = "rows"
  /\ \A h \in People : lock[h] # NoOne => step[lock[h]] = "rows"

\* However imports overlap, a person has one collector in the program
\* (get_or_create_collector: "the single program-wide Individual").
OneCollectorPerPerson ==
  \A h \in People : \A i, j \in Imports :
    coll[<<i, h>>] = "live" /\ coll[<<j, h>>] = "live" => i = j

\* A role of a household leads to the person its own file names, also when the collector
\* was created by another file under another individual_id (BeneficiaryImportResult).
RolesArePeople ==
  \A i \in Imports : \A role \in {"primary", "alternate"} :
    hh[i][role] # NoOne =>
      \E n \in DOMAIN sheet[i].rows :
        /\ sheet[i].rows[n].ref = sheet[i][role]
        /\ sheet[i].rows[n].who = hh[i][role][2]

\* A batch that an unfinished RDP references is not deleted, whichever of the RDP and the
\* cleanup comes first (batch_cleanup and create_rdp lock the program).
PinnedBatchStays == \A i \in pinned : step[i] \in Committed

\* A cleanup leaves every collector that the households it has read refer to, by
\* whichever role (_referenced_collector_reparenting).
ReadReferencesSurvive == \A pair \in snapshot : coll'[pair[1]] = coll[pair[1]]

\* A role never refers to a deleted collector (docstring at tasks.py:213).
NoDanglingRole ==
  \A i \in Imports : \A role \in {"primary", "alternate"} :
    step[i] \in Committed /\ hh[i][role] # NoOne => coll[hh[i][role]] = "live"

\* A collector_id that a file resolves within itself leads to the person it names there
\* (docstring at collector_linkage.py:37).
LinkIsThePerson ==
  \A i \in Imports : \A n \in DOMAIN sheet[i].rows :
    link[i] # NoOne /\ sheet[i].rows[n].ref = sheet[i].member
      => link[i][2] = sheet[i].rows[n].who
=============================================================================
