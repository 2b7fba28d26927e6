------------------------------- MODULE RefSync -------------------------------
(***************************************************************************)
(* The synchronisation of reference data from HOPE: offices, and then the    *)
(* programs of the offices the workspace knows, all of them or those HOPE    *)
(* changed since the date of the last synchronisation that succeeded.        *)
(***************************************************************************)
EXTENDS Naturals, FiniteSets

CONSTANTS
  Syncs,          \* the periodic task, the buttons of the admin
  Offices, Programs,
  OfficeOf,       \* the office of every program
  Deactivation,   \* offices may be inactive in HOPE
  Closing,        \* programs may be finished in HOPE
  Midnight,       \* a day may end while a synchronisation runs
  MaxChanges, MaxDay, MaxFails, MaxKills   \* bounds

SyncAssumption ==
  /\ OfficeOf \in [Programs -> Offices] /\ Offices \cap Programs = {} /\ "free" \notin Syncs
  /\ {Deactivation, Closing, Midnight} \subseteq BOOLEAN
  /\ MaxDay \in Nat \ {0} /\ {MaxChanges, MaxFails, MaxKills} \subseteq Nat

Entities == {"offices", "programs"}
Unknown == [status |-> "unknown", version |-> 0]

VARIABLES
  hope,     \* the records in HOPE: [status, version, day] of the last change
  local,    \* the rows in the workspace: [status, version]
  log,      \* SyncLog: the day of the last success, 0 for none
  lock,     \* who holds hope-sync:<model>, with no expiry
  sync,     \* the synchronisations: [at, entity, full, after, left, failed]
  day, changes, fails, kills

vars == <<hope, local, log, lock, sync, day, changes, fails, kills>>

Records == Offices \cup Programs
Of(e) == IF e = "offices" THEN Offices ELSE Programs
Free == "free"
Idle == [at |-> "idle"]

Init ==
  /\ hope = [r \in Records |-> [status |-> "active", version |-> 1, day |-> 1]]
  /\ local = [r \in Records |-> Unknown]
  /\ log = [e \in Entities |-> 0] /\ lock = [e \in Entities |-> Free]
  /\ sync = [s \in Syncs |-> Idle]
  /\ day = 1 /\ changes = 0 /\ fails = 0 /\ kills = 0

-----------------------------------------------------------------------------
(* build_endpoint reads the date before the lock is taken. *)
Waiting(e, full) ==
  [at |-> "waiting", entity |-> e, full |-> full, after |-> IF full THEN 0 ELSE log[e],
   left |-> <<>>, failed |-> FALSE]

Begin(s, full) ==
  /\ sync[s] = Idle
  /\ sync' = [sync EXCEPT ![s] = Waiting("offices", full)]
  /\ UNCHANGED <<hope, local, log, lock, day, changes, fails, kills>>

Acquire(s) ==
  /\ sync[s].at = "waiting" /\ lock[sync[s].entity] = Free
  /\ lock' = [lock EXCEPT ![sync[s].entity] = s]
  /\ sync' = [sync EXCEPT ![s].at = "locked"]
  /\ UNCHANGED <<hope, local, log, day, changes, fails, kills>>

Listed(r) == [status |-> hope[r].status, version |-> hope[r].version]

(* HOPE lists the records changed on that day or later. *)
Fetch(s) ==
  /\ sync[s].at = "locked"
  /\ sync' = [sync EXCEPT ![s].at = "listed",
        ![s].left = [r \in {q \in Of(sync[s].entity) : hope[q].day >= sync[s].after} |-> Listed(r)]]
  /\ UNCHANGED <<hope, local, log, lock, day, changes, fails, kills>>

(* Inactive offices and finished programs are passed over (should_process), *)
(* and programs of unknown offices skipped (SkipRecordError).                *)
Wanted(r, row) ==
  /\ row.status = "active"
  /\ r \in Programs => local[OfficeOf[r]] # Unknown

Without(s, r) == [q \in DOMAIN sync[s].left \ {r} |-> sync[s].left[q]]

(* One transaction for every record ... *)
Apply(s, r) ==
  /\ sync[s].at = "listed" /\ r \in DOMAIN sync[s].left
  /\ local' = IF Wanted(r, sync[s].left[r]) THEN [local EXCEPT ![r] = sync[s].left[r]] ELSE local
  /\ sync' = [sync EXCEPT ![s].left = Without(s, r)]
  /\ UNCHANGED <<hope, log, lock, day, changes, fails, kills>>

(* ... and an error of one does not keep the others from being applied. *)
ApplyFails(s, r) ==
  /\ sync[s].at = "listed" /\ r \in DOMAIN sync[s].left /\ fails < MaxFails
  /\ sync' = [sync EXCEPT ![s].left = Without(s, r), ![s].failed = TRUE]
  /\ fails' = fails + 1
  /\ UNCHANGED <<hope, local, log, lock, day, changes, kills>>

Unlocked(s) == [lock EXCEPT ![sync[s].entity] = Free]

(* After the offices the programs; a failed synchronisation ends the block. *)
After(s) ==
  IF sync[s].entity = "offices" THEN Waiting("programs", sync[s].full) ELSE Idle

\* Mutant of Finish: errors of single records do not count.
FinishAnyway(s) ==
  /\ sync[s].at = "listed" /\ DOMAIN sync[s].left = {}
  /\ log' = [log EXCEPT ![sync[s].entity] = day]
  /\ lock' = Unlocked(s)
  /\ sync' = [sync EXCEPT ![s] = After(s)]
  /\ UNCHANGED <<hope, local, day, changes, fails, kills>>

Finish(s) ==
  /\ sync[s].at = "listed" /\ DOMAIN sync[s].left = {}
  /\ lock' = Unlocked(s)
  /\ IF sync[s].failed THEN sync' = [sync EXCEPT ![s] = Idle] /\ UNCHANGED log
     ELSE /\ log' = [log EXCEPT ![sync[s].entity] = day]
          /\ sync' = [sync EXCEPT ![s] = After(s)]
  /\ UNCHANGED <<hope, local, day, changes, fails, kills>>

(* HOPE does not answer: HopeSyncError, the lock is released. *)
FetchFails(s) ==
  /\ sync[s].at \in {"locked", "listed"} /\ fails < MaxFails
  /\ lock' = Unlocked(s)
  /\ sync' = [sync EXCEPT ![s] = Idle]
  /\ fails' = fails + 1
  /\ UNCHANGED <<hope, local, log, day, changes, kills>>

(* The process is killed and leaves its lock. *)
Kill(s) ==
  /\ sync[s] # Idle /\ kills < MaxKills
  /\ sync' = [sync EXCEPT ![s] = Idle]
  /\ kills' = kills + 1
  /\ UNCHANGED <<hope, local, log, lock, day, changes, fails>>

-----------------------------------------------------------------------------
(* HOPE and the clock *)

Change(r, status) ==
  /\ changes < MaxChanges
  /\ status = "inactive" => IF r \in Offices THEN Deactivation ELSE Closing
  /\ hope' = [hope EXCEPT ![r] = [status |-> status, version |-> @.version + 1, day |-> day]]
  /\ changes' = changes + 1
  /\ UNCHANGED <<local, log, lock, sync, day, fails, kills>>

NextDay ==
  /\ day < MaxDay
  /\ Midnight \/ \A s \in Syncs : sync[s].at # "listed"
  /\ day' = day + 1
  /\ UNCHANGED <<hope, local, log, lock, sync, changes, fails, kills>>

Step(s) ==
  \/ \E full \in BOOLEAN : Begin(s, full)
  \/ Acquire(s) \/ Fetch(s) \/ Finish(s)
  \/ \E r \in Records : Apply(s, r)

Fault(s) == FetchFails(s) \/ Kill(s) \/ \E r \in Records : ApplyFails(s, r)

Next ==
  \/ \E s \in Syncs : Step(s) \/ Fault(s)
  \/ \E r \in Records, status \in {"active", "inactive"} : Change(r, status)
  \/ NextDay

Spec == Init /\ [][Next]_vars

-----------------------------------------------------------------------------
(* Properties *)

(* The type invariant; a synchronisation that has the records of HOPE holds *)
(* the lock, unless another was killed with it.                              *)
TypeOK ==
  /\ day \in 1..MaxDay /\ changes \in 0..MaxChanges /\ fails \in 0..MaxFails /\ kills \in 0..MaxKills
  /\ \A e \in Entities : log[e] \in 0..day /\ lock[e] \in Syncs \cup {Free}
  /\ \A s \in Syncs : sync[s].at \in {"locked", "listed"} => lock[sync[s].entity] = s

(* No program is of an office the workspace does not know. *)
ProgramsHaveOffices == \A p \in Programs : local[p] # Unknown => local[OfficeOf[p]] # Unknown

Same(r) == local[r].status = hope[r].status /\ local[r].version = hope[r].version

(* docs/src/config/data_sync.md: what was updated since the last success is *)
(* fetched by the next delta.  While none runs, a record that differs from   *)
(* HOPE was changed on the day of the last success or later, so that a       *)
(* failure, of a record or of all, never hides a change.                     *)
NextDeltaFetches ==
  (\A s \in Syncs : sync[s] = Idle) =>
    \A e \in Entities : \A r \in Of(e) : Same(r) \/ hope[r].day >= log[e]

-----------------------------------------------------------------------------
(* The inductive invariants behind the properties.                           *)

Rows == [status : {"active", "inactive"}, version : Nat]
Runs(S) == [at : {"waiting", "locked", "listed"}, entity : Entities, full : BOOLEAN, after : Nat,
            left : [S -> Rows], failed : BOOLEAN]

(* The records HOPE has listed are of the entity that is locked. *)
SyncInv ==
  /\ TypeOK /\ log \in [Entities -> Nat] /\ lock \in [Entities -> Syncs \cup {Free}]
  /\ hope \in [Records -> [status : {"active", "inactive"}, version : Nat, day : Nat]]
  /\ local \in [Records -> Rows \cup {Unknown}]
  /\ sync = [s \in Syncs |-> sync[s]]
  /\ \A s \in Syncs : sync[s] # Idle =>
       /\ sync[s] \in Runs(DOMAIN sync[s].left)
       /\ sync[s].after <= log[sync[s].entity] /\ DOMAIN sync[s].left \subseteq Of(sync[s].entity)

Known(r) == local[r] # Unknown
Listing(s) == sync[s].at = "listed"

(* For NextDeltaFetches: all records were active and no day passes while    *)
(* records are listed.  What HOPE listed and a synchronisation has gone     *)
(* through is stored, unless one record failed or HOPE changed it today;    *)
(* programs are only listed when all offices are known.                     *)
MissInv ==
  /\ SyncInv /\ \A r \in Records : hope[r].status = "active" /\ hope[r].day <= day
  /\ \A e \in Entities : \A r \in Of(e) : Same(r) \/ hope[r].day >= log[e]
  /\ log["offices"] > 0 => \A r \in Offices : Known(r)
  /\ \A s \in Syncs :
       /\ sync[s] # Idle /\ sync[s].entity = "programs" => log["offices"] > 0
       /\ Listing(s) => \A r \in Of(sync[s].entity) :
            /\ r \in DOMAIN sync[s].left =>
                 sync[s].left[r].status = "active" /\ (sync[s].left[r] = Listed(r) \/ hope[r].day = day)
            /\ r \notin DOMAIN sync[s].left =>
                 sync[s].failed \/ (Known(r) /\ (Same(r) \/ hope[r].day = day))

==============================================================================
