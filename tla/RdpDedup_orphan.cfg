SPECIFICATION Spec
CONSTANTS
  Rdps = {x1, x2}
  Procs = {p1, p2}
  NoRdp = NoRdp
  MaxFaults = 0
INVARIANTS
  CancelledSetReleased
CHECK_DEADLOCK FALSE
