----------------------------- MODULE Versioning -----------------------------
(***************************************************************************)
(* The upgrade scripts: a folder of numbered files, each with operations,    *)
(* the table of those applied, and the command that goes up or down.  No     *)
(* transaction spans the operations of a script and its row.                 *)
(***************************************************************************)
EXTENDS Naturals, FiniteSets, FiniteSetsExt

CONSTANTS
  Procs,          \* containers that run the command
  N,              \* the number of files
  Num,            \* the number a name starts with
  Irreversible,   \* scripts whose operations have no backward
  Late,           \* files that a later release brings
  Fakes,          \* the command is called with --fake
  MaxDowns, MaxFaults   \* bounds

(* The files in the order of their names. *)
Scripts == 1..N

VersionAssumption ==
  /\ N \in Nat \ {0}
  /\ Num \in [Scripts -> Nat \ {0}]
  /\ \A s, t \in Scripts : s < t => Num[s] <= Num[t]
  /\ Irreversible \subseteq Scripts /\ Late \subseteq Scripts
  /\ Fakes \in BOOLEAN /\ {MaxDowns, MaxFaults} \subseteq Nat

VARIABLES
  folder,   \* the files there are
  applied,  \* the rows of Script
  effect,   \* how often each operation of a script is in force
  proc,     \* the processes
  downs, faults

vars == <<folder, applied, effect, proc, downs, faults>>

Ops == 1..2
Idle == [at |-> "idle"]

Init ==
  /\ folder = Scripts \ Late /\ applied = {}
  /\ effect = [s \in Scripts |-> [k \in Ops |-> 0]]
  /\ proc = [p \in Procs |-> Idle] /\ downs = 0 /\ faults = 0

-----------------------------------------------------------------------------
Highest(S) == Max({Num[s] : s \in S} \cup {0})

(* forward takes 0 for no number. *)
Goal(num) == IF num = 0 THEN Highest(folder) ELSE num

(* The command compares the number with the highest one applied; the rows   *)
(* are read once, in the constructor of Manager.                             *)
Start(p, num, fake) ==
  /\ proc[p] = Idle /\ (fake => Fakes)
  /\ LET up == num >= Highest(applied) IN
     /\ up \/ downs < MaxDowns
     /\ downs' = IF up THEN downs ELSE downs + 1
     /\ proc' = [proc EXCEPT ![p] =
          [at |-> "pick", up |-> up, to |-> IF up THEN Goal(num) ELSE num, fake |-> fake,
           script |-> 0, op |-> 0, rows |-> applied, todo |-> IF up THEN folder ELSE applied]]
  /\ UNCHANGED <<folder, applied, effect, faults>>

(* In the order of the names going up, in reverse going down. *)
NextFile(p) == IF proc[p].up THEN Min(proc[p].todo) ELSE Max(proc[p].todo)

Beyond(p) ==
  IF proc[p].up THEN Num[NextFile(p)] > proc[p].to ELSE Num[NextFile(p)] <= proc[p].to

Over(p) == proc[p].todo # {} => Beyond(p)

ToRun(p) == proc[p].up => NextFile(p) \notin proc[p].rows

Pick(p) ==
  /\ proc[p].at = "pick" /\ ~Over(p)
  /\ LET rest == [proc[p] EXCEPT !.todo = @ \ {NextFile(p)}] IN
     proc' = [proc EXCEPT ![p] =
       IF ToRun(p) THEN [rest EXCEPT !.at = "run", !.script = NextFile(p), !.op = 1] ELSE rest]
  /\ UNCHANGED <<folder, applied, effect, downs, faults>>

End(p) ==
  /\ proc[p].at = "pick" /\ Over(p)
  /\ proc' = [proc EXCEPT ![p] = Idle]
  /\ UNCHANGED <<folder, applied, effect, downs, faults>>

Undone(s, n) == IF s \in Irreversible \/ n = 0 THEN n ELSE n - 1

Ran(p) ==
  LET s == proc[p].script  k == proc[p].op IN
  [effect EXCEPT ![s][k] = IF proc[p].up THEN @ + 1 ELSE Undone(s, @)]

\* Mutant of Run: the row is written after the first operation.
RunFirst(p) ==
  /\ proc[p].at = "run"
  /\ effect' = Ran(p)
  /\ proc' = [proc EXCEPT ![p].at = "record"]
  /\ UNCHANGED <<folder, applied, downs, faults>>

(* One operation; --fake changes what is printed only. *)
Run(p) ==
  /\ proc[p].at = "run"
  /\ effect' = Ran(p)
  /\ proc' = [proc EXCEPT ![p] =
       IF @.op \in Ops \ {Max(Ops)} THEN [@ EXCEPT !.op = proc[p].op + 1] ELSE [@ EXCEPT !.at = "record"]]
  /\ UNCHANGED <<folder, applied, downs, faults>>

(* The name is unique and get() wants the row: who comes second halts. *)
Record(p) ==
  /\ proc[p].at = "record"
  /\ IF (proc[p].script \in applied) = proc[p].up
     THEN proc' = [proc EXCEPT ![p] = Idle] /\ UNCHANGED applied
     ELSE /\ applied' = IF proc[p].up THEN applied \cup {proc[p].script} ELSE applied \ {proc[p].script}
          /\ proc' = [proc EXCEPT ![p].at = "pick"]
  /\ UNCHANGED <<folder, effect, downs, faults>>

(* An operation raises, or the container is killed. *)
Halt(p) ==
  /\ proc[p] # Idle /\ faults < MaxFaults
  /\ proc' = [proc EXCEPT ![p] = Idle]
  /\ faults' = faults + 1
  /\ UNCHANGED <<folder, applied, effect, downs>>

Release(s) ==
  /\ s \notin folder
  /\ folder' = folder \cup {s}
  /\ UNCHANGED <<applied, effect, proc, downs, faults>>

Step(p) == Pick(p) \/ End(p) \/ Run(p) \/ Record(p)

Numbers == {Num[s] : s \in Scripts} \cup {0}

Next ==
  \/ \E p \in Procs : Step(p) \/ Halt(p)
  \/ \E p \in Procs, n \in Numbers, fake \in BOOLEAN : Start(p, n, fake)
  \/ \E s \in Scripts : Release(s)

Spec == Init /\ [][Next]_vars

-----------------------------------------------------------------------------
(* Properties *)

(* The type invariant; what runs is an operation of a file there is. *)
TypeOK ==
  /\ folder \subseteq Scripts /\ applied \subseteq folder
  /\ effect \in [Scripts -> [Ops -> Nat]]
  /\ downs \in 0..MaxDowns /\ faults \in 0..MaxFaults
  /\ \A p \in Procs : proc[p].at = "run" => proc[p].script \in folder /\ proc[p].op \in Ops

(* Going up only, whatever fails, is killed or runs at the same time: a      *)
(* script is recorded only after all its operations were in force, and       *)
(* scripts are recorded in the order of their names.                         *)
RecordedHaveRun == \A s \in applied : \A k \in Ops : effect[s][k] > 0

InOrder ==
  \A s \in applied, t \in Scripts \ Late : t < s => t \in applied

(* What the table says is what is in force, when the command is not running; *)
(* scripts that cannot go back stay in force.                                *)
TableIsTrue ==
  (\A p \in Procs : proc[p] = Idle) =>
    \A s \in Scripts \ Irreversible : \A k \in Ops : effect[s][k] = IF s \in applied THEN 1 ELSE 0

(* versioning/management/commands/upgradescripts.py: --fake marks scripts as *)
(* run without actually running them.                                        *)
FakeRunsNothing == [][\A p \in Procs : proc[p].at = "run" /\ proc[p].fake => effect' = effect]_vars

-----------------------------------------------------------------------------
(* The inductive invariants behind the properties.                           *)

Runs == [at : {"pick", "run", "record"}, up : BOOLEAN, to : Nat, fake : BOOLEAN, script : Scripts \cup {0},
         op : Ops \cup {0}, rows : SUBSET Scripts, todo : SUBSET Scripts]

AtScript(p) == proc[p].at \in {"run", "record"}

(* A command goes through files there are. *)
VersionInv ==
  /\ TypeOK /\ Scripts \ Late \subseteq folder
  /\ proc \in [Procs -> {Idle} \cup Runs]
  /\ \A p \in Procs : proc[p] # Idle => proc[p].todo \subseteq folder
  /\ \A p \in Procs : AtScript(p) => proc[p].script \in folder /\ proc[p].op \in Ops

(* What a command that goes up has passed is recorded, but for the script it *)
(* is at, whose operations are in force when it is to be recorded.           *)
UpInv ==
  /\ VersionInv /\ RecordedHaveRun /\ InOrder
  /\ \A p \in Procs : proc[p] # Idle =>
       /\ proc[p].up /\ proc[p].rows \subseteq applied
       /\ \A t \in Scripts \ Late : t \notin proc[p].todo =>
            t \in applied \/ (AtScript(p) /\ t = proc[p].script)
  /\ \A p \in Procs : AtScript(p) =>
       /\ \A t \in Scripts \ Late : t < proc[p].script => t \notin proc[p].todo
       /\ \A k \in Ops : proc[p].at = "record" \/ k < proc[p].op =>
            effect[proc[p].script][k] > 0

InForce(s) == IF s \in applied THEN 1 ELSE 0

(* For TableIsTrue: one command at a time, which does not fail.  What is in  *)
(* force differs from the table in the operations it has run of its script.  *)
TableInv ==
  /\ VersionInv
  /\ \A s \in Scripts \ Irreversible : \A k \in Ops :
       effect[s][k] = InForce(s) \/ \E p \in Procs : AtScript(p) /\ proc[p].script = s
  /\ \A p \in Procs : proc[p] # Idle =>
       IF proc[p].up THEN proc[p].todo \cap applied \subseteq proc[p].rows ELSE proc[p].todo \subseteq applied
  /\ \A p \in Procs : AtScript(p) =>
       /\ proc[p].script \notin proc[p].todo /\ (proc[p].up <=> proc[p].script \notin applied)
       /\ proc[p].script \notin Irreversible => \A k \in Ops : effect[proc[p].script][k] =
            IF proc[p].at = "run" /\ k >= proc[p].op THEN InForce(proc[p].script)
            ELSE 1 - InForce(proc[p].script)
=============================================================================
