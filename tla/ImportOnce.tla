----------------------------- MODULE ImportOnce -----------------------------
(***************************************************************************)
(* What an incremental import promises: records enter the program in the   *)
(* order of their ids, each of them once, and the stored cursor is always  *)
(* the id of a record that is imported and never goes back.                *)
(***************************************************************************)
EXTENDS Naturals, Sequences

CONSTANT MaxId

VARIABLES
  imported,    \* ids in the order of their import
  cursor       \* the stored cursor, 0 for none

vars == <<imported, cursor>>

Newest == IF imported = <<>> THEN 0 ELSE imported[Len(imported)]

Init == imported = <<>> /\ cursor = 0

Import(id) ==
  /\ id > Newest
  /\ imported' = Append(imported, id)
  /\ UNCHANGED cursor

Save ==
  /\ cursor' = Newest
  /\ UNCHANGED imported

Next == Save \/ \E id \in 1..MaxId : Import(id)

Spec == Init /\ [][Next]_vars
=============================================================================
