SPECIFICATION Spec
CONSTANTS
  Rdps = {x1, x2}
  Procs = {p1, p2}
  NoRdp = NoRdp
  MaxFaults = 1
SYMMETRY Symmetry
INVARIANTS
  TypeOK
  RunningIsPending
  ResultBehindPush
  CleanAfterRelease
PROPERTIES
  CancelledIsFrozen
CHECK_DEADLOCK FALSE
