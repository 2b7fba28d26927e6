------------------------------ MODULE AreaSync ------------------------------
(***************************************************************************)
(* The administrative areas.  A synchronisation stores the areas HOPE lists  *)
(* one by one, without their parents; after the date of the synchronisation  *)
(* is registered and the lock released it sets the parents of those listed.  *)
(* The areas of an office and level are the choices of an admin field; the   *)
(* list is cached for a day and no synchronisation drops it.                 *)
(***************************************************************************)
EXTENDS Naturals, FiniteSets

CONSTANTS
  Syncs,           \* the periodic task, the command, the buttons of the admin
  Areas, Level,    \* the areas of an office's countries, and their levels
  Coded,           \* those with a p-code
  NoArea,          \* no parent
  Overlap,         \* synchronisations may overlap
  Roots,           \* HOPE may take an area out of its parent
  KillSteps,       \* where a worker may be killed
  MaxChanges, MaxDay, MaxFails, MaxKills   \* bounds

AreaAssumption ==
  /\ Level \in [Areas -> Nat \ {0}] /\ Coded \subseteq Areas /\ NoArea \notin Areas
  /\ "absent" \notin Areas \cup {NoArea} /\ "free" \notin Syncs
  /\ {Overlap, Roots} \subseteq BOOLEAN
  /\ KillSteps \subseteq {"waiting", "locked", "listed", "parents"}
  /\ MaxDay \in Nat \ {0} /\ {MaxChanges, MaxFails, MaxKills} \subseteq Nat

VARIABLES
  hope,      \* HOPE's areas: [parent, day] of the last change, day 0 before there is one
  local,     \* the workspace's: the parent, Absent without a row
  log,       \* SyncLog: the day of the last success, 0 for none
  lock,      \* who holds hope-sync:area, with no expiry
  sync,      \* the synchronisations: [at, after, left, parents, failed]
  choices,   \* the cache entry of every level: NotCached, or the one list of choices
  day, changes, fails, kills

vars == <<hope, local, log, lock, sync, choices, day, changes, fails, kills>>

Absent == "absent"
Free == "free"
NotCached == {}
Idle == [at |-> "idle"]
Levels == {Level[a] : a \in Areas}

Init ==
  /\ hope = [a \in Areas |-> [parent |-> NoArea, day |-> 0]]
  /\ local = [a \in Areas |-> Absent]
  /\ log = 0 /\ lock = Free
  /\ sync = [s \in Syncs |-> Idle]
  /\ choices = [l \in Levels |-> NotCached]
  /\ day = 1 /\ changes = 0 /\ fails = 0 /\ kills = 0

-----------------------------------------------------------------------------
(* A synchronisation.  Its endpoint, with the date, is built before it waits *)
(* for the lock.                                                             *)

Begin(s, full) ==
  /\ sync[s] = Idle
  /\ Overlap \/ \A t \in Syncs : sync[t] = Idle
  /\ sync' = [sync EXCEPT ![s] = [at |-> "waiting", after |-> IF full THEN 0 ELSE log,
                                  left |-> <<>>, parents |-> <<>>, failed |-> FALSE]]
  /\ UNCHANGED <<hope, local, log, lock, choices, day, changes, fails, kills>>

Acquire(s) ==
  /\ sync[s].at = "waiting" /\ lock = Free
  /\ lock' = s
  /\ sync' = [sync EXCEPT ![s].at = "locked"]
  /\ UNCHANGED <<hope, local, log, choices, day, changes, fails, kills>>

Fetch(s) ==
  /\ sync[s].at = "locked"
  /\ sync' = [sync EXCEPT ![s].at = "listed",
        ![s].left = [a \in {b \in Areas : hope[b].day > 0 /\ hope[b].day >= sync[s].after} |->
                       hope[a].parent]]
  /\ UNCHANGED <<hope, local, log, lock, choices, day, changes, fails, kills>>

Without(s, a) == [b \in DOMAIN sync[s].left \ {a} |-> sync[s].left[b]]

\* parent_mapping, with the parent of this record when it has one
Mapping(s, a) ==
  LET p == sync[s].left[a] IN
  [b \in DOMAIN sync[s].parents \cup (IF p = NoArea THEN {} ELSE {a}) |->
     IF b = a THEN p ELSE sync[s].parents[b]]

(* A row is created without a parent, or keeps the one it has. *)
Apply(s, a) ==
  /\ sync[s].at = "listed" /\ a \in DOMAIN sync[s].left
  /\ local' = [local EXCEPT ![a] = IF @ = Absent THEN NoArea ELSE @]
  /\ sync' = [sync EXCEPT ![s].left = Without(s, a), ![s].parents = Mapping(s, a)]
  /\ UNCHANGED <<hope, log, lock, choices, day, changes, fails, kills>>

ApplyFails(s, a) ==
  /\ sync[s].at = "listed" /\ a \in DOMAIN sync[s].left /\ fails < MaxFails
  /\ sync' = [sync EXCEPT ![s].left = Without(s, a), ![s].parents = Mapping(s, a), ![s].failed = TRUE]
  /\ fails' = fails + 1
  /\ UNCHANGED <<hope, local, log, lock, choices, day, changes, kills>>

(* Without errors the synchronisation is registered; with any it ends here, *)
(* and the parents of the rows it stored are forgotten.                      *)
Finish(s) ==
  /\ sync[s].at = "listed" /\ DOMAIN sync[s].left = {}
  /\ lock' = Free
  /\ IF sync[s].failed THEN sync' = [sync EXCEPT ![s] = Idle] /\ UNCHANGED log
     ELSE log' = day /\ sync' = [sync EXCEPT ![s].at = "parents"]
  /\ UNCHANGED <<hope, local, choices, day, changes, fails, kills>>

(* Outside the lock, in one bulk update: children and parents with a row. *)
AssignParents(s) ==
  /\ sync[s].at = "parents"
  /\ local' = [a \in Areas |->
       IF /\ a \in DOMAIN sync[s].parents
          /\ Absent \notin {local[a], local[sync[s].parents[a]]}
       THEN sync[s].parents[a] ELSE local[a]]
  /\ sync' = [sync EXCEPT ![s] = Idle]
  /\ UNCHANGED <<hope, log, lock, choices, day, changes, fails, kills>>

(* HOPE does not answer: HopeSyncError, the lock is released. *)
FetchFails(s) ==
  /\ sync[s].at \in {"locked", "listed"} /\ fails < MaxFails
  /\ lock' = Free
  /\ sync' = [sync EXCEPT ![s] = Idle]
  /\ fails' = fails + 1
  /\ UNCHANGED <<hope, local, log, choices, day, changes, kills>>

Kill(s) ==
  /\ sync[s].at \in KillSteps /\ kills < MaxKills
  /\ sync' = [sync EXCEPT ![s] = Idle]
  /\ kills' = kills + 1
  /\ UNCHANGED <<hope, local, log, lock, choices, day, changes, fails>>

-----------------------------------------------------------------------------
(* The choices of an admin field *)

(* AdminLevelChoice: a form is built, or a record validated, and there is no *)
(* entry; an empty list is an entry too.                                     *)
ReadChoices(l) ==
  /\ choices[l] = NotCached
  /\ choices' = [choices EXCEPT ![l] = {{a \in Coded : Level[a] = l /\ local[a] # Absent}}]
  /\ UNCHANGED <<hope, local, log, lock, sync, day, changes, fails, kills>>

(* The entry is a day old (store takes no timeout as the default one). *)
Expire(l) ==
  /\ choices[l] # NotCached
  /\ choices' = [choices EXCEPT ![l] = NotCached]
  /\ UNCHANGED <<hope, local, log, lock, sync, day, changes, fails, kills>>

-----------------------------------------------------------------------------
(* HOPE and the clock *)

Change(a, p) ==
  /\ changes < MaxChanges
  /\ IF p = NoArea THEN Level[a] = 1 \/ Roots
     ELSE hope[p].day > 0 /\ Level[p] = Level[a] - 1
  /\ hope' = [hope EXCEPT ![a] = [parent |-> p, day |-> day]]
  /\ changes' = changes + 1
  /\ UNCHANGED <<local, log, lock, sync, choices, day, fails, kills>>

(* That a day may end between the listing and the registration is in RefSync. *)
NextDay ==
  /\ day < MaxDay /\ \A s \in Syncs : sync[s].at # "listed"
  /\ day' = day + 1
  /\ UNCHANGED <<hope, local, log, lock, sync, choices, changes, fails, kills>>

Step(s) ==
  \/ \E full \in BOOLEAN : Begin(s, full)
  \/ Acquire(s) \/ Fetch(s) \/ Finish(s) \/ AssignParents(s)
  \/ \E a \in Areas : Apply(s, a)

Fault(s) == FetchFails(s) \/ Kill(s) \/ \E a \in Areas : ApplyFails(s, a)

Next ==
  \/ \E s \in Syncs : Step(s) \/ Fault(s)
  \/ \E l \in Levels : ReadChoices(l) \/ Expire(l)
  \/ \E a \in Areas, p \in Areas \cup {NoArea} : Change(a, p)
  \/ NextDay

Spec == Init /\ [][Next]_vars

-----------------------------------------------------------------------------
(* Properties *)

(* The type invariant.  Parents are set for areas with a row only, and a *)
(* synchronisation that stores rows holds the lock.                       *)
TypeOK ==
  /\ local \in [Areas -> Areas \cup {NoArea, Absent}]
  /\ log \in 0..day /\ day \in 1..MaxDay
  /\ \A s \in Syncs : sync[s].at \in {"locked", "listed"} => lock = s
  /\ lock \in Syncs /\ kills = 0 => sync[lock].at \in {"locked", "listed"}

(* docs/src/config/data_sync.md: synchronised data is kept up to date.  While *)
(* none runs, an area no later delta lists, its last change being older than  *)
(* the last success, has the parent it has in HOPE: the parents are set after *)
(* that success is registered, so nobody would notice one that was not.       *)
ParentsKeptUp ==
  (\A s \in Syncs : sync[s] = Idle) =>
    \A a \in Areas : hope[a].day \in 1..(log - 1) => local[a] = hope[a].parent

(* However synchronisations overlap, fail or die, an area that has a parent *)
(* is never left without one.                                                *)
NeverOrphaned == \A a \in Areas : local[a] \in Areas => local'[a] \in Areas

(* An area has not moved where it moved in HOPE, or is no choice of the     *)
(* fields of its level, though a list without it is cached.  With the      *)
(* periodic delta only, neither lasts.                                      *)
Misplaced(a) == hope[a].day > 0 /\ local[a] # hope[a].parent
Unlisted(a)  == hope[a].day > 0 /\ a \notin UNION choices[Level[a]]

-----------------------------------------------------------------------------
(* The inductive invariants behind the properties.                           *)

Runs(S, P) == [at : {"waiting", "locked", "listed", "parents"}, after : Nat,
               left : [S -> Areas \cup {NoArea}], parents : [P -> Areas], failed : BOOLEAN]

IsRun(t) ==
  /\ t \in Runs(DOMAIN t.left, DOMAIN t.parents)
  /\ DOMAIN t.parents \subseteq Areas /\ DOMAIN t.left \subseteq Areas \ DOMAIN t.parents
  /\ t.at \in {"waiting", "locked"} => DOMAIN t.parents = {}

(* Who is to get a parent gets an area, never none. *)
AreaInv ==
  /\ TypeOK /\ lock \in Syncs \cup {Free} /\ kills \in Nat
  /\ hope \in [Areas -> [parent : Areas \cup {NoArea}, day : Nat]]
  /\ sync = [s \in Syncs |-> sync[s]]
  /\ \A s \in Syncs : sync[s] # Idle => IsRun(sync[s])

Old(a, d) == hope[a].day \in 1..(d - 1)
Stored(a) == local[a] # Absent

(* The area has its parent, or will have when the parents are set. *)
Settled(s, a) ==
  Stored(a) /\ IF a \in DOMAIN sync[s].parents THEN sync[s].parents[a] = hope[a].parent
               ELSE local[a] = hope[a].parent

(* HOPE's areas are a forest of levels whose roots stay roots. *)
Forest ==
  \A a \in Areas :
    /\ hope[a].day <= day
    /\ Level[a] = 1 => hope[a].parent = NoArea /\ local[a] \in {NoArea, Absent}
    /\ Level[a] # 1 /\ hope[a].day > 0 => hope[a].parent \in Areas /\ hope[hope[a].parent].day > 0

(* For ParentsKeptUp: one synchronisation at a time, which is not killed     *)
(* before the parents are set.  What was changed before today is to be       *)
(* applied as it is in HOPE, or settled; a parent is stored, or will be.     *)
ParentInv ==
  /\ AreaInv /\ Forest
  /\ \A s, q \in Syncs : sync[s] # Idle /\ sync[q] # Idle => s = q
  /\ \A a \in Areas : Old(a, log) =>
       Stored(a) /\ (local[a] = hope[a].parent \/ \E s \in Syncs : sync[s].at = "parents")
  /\ \A s \in Syncs : sync[s] # Idle =>
       sync[s].after <= log /\ \A a \in DOMAIN sync[s].parents : Level[a] # 1
  /\ \A s \in Syncs : sync[s].at = "listed" =>
       /\ \A a \in DOMAIN sync[s].left : Level[a] = 1 => sync[s].left[a] = NoArea
       /\ \A a \in Areas : Old(a, day) =>
            /\ a \in DOMAIN sync[s].left => sync[s].left[a] = hope[a].parent
            /\ a \notin DOMAIN sync[s].left => sync[s].failed \/ Settled(s, a)
       /\ \A p \in Areas : /\ ~Stored(p) /\ p \notin DOMAIN sync[s].left
                          /\ \/ \E a \in DOMAIN sync[s].left : sync[s].left[a] = p
                             \/ \E a \in DOMAIN sync[s].parents : sync[s].parents[a] = p
                          => sync[s].failed
  /\ \A s \in Syncs : sync[s].at = "parents" =>
       /\ \A a \in Areas : Old(a, log) => Settled(s, a)
       /\ \A a \in DOMAIN sync[s].parents : Stored(sync[s].parents[a])
=============================================================================
