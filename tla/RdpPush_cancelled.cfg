SPECIFICATION Spec
CONSTANTS
  Attempts = {a1, a2}
  Rdis = {r1, r2}
  Workers = {w1, w2}
  NoAttempt = NoAttempt
  NoRdi = NoRdi
  NA = NA
  MaxFaults = 0
PROPERTIES
  CancelledIsInert
CHECK_DEADLOCK FALSE
