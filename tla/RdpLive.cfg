SPECIFICATION LiveSpec
CONSTANTS
  Components = {"RdpPush", "Dedup", "Clean", "Locks"}
  Attempts = {a1, a2}
  Rdis = {r1, r2}
  Workers = {w1, w2}
  NoAttempt = NoAttempt
  NoRdi = NoRdi
  NA = NA
  MaxFaults = 0
  x1 = x1  x2 = x2  p1 = p1  p2 = p2  NoRdp = NoRdp
PROPERTIES
  PushesEnd
  RdpsMoveOn
CHECK_DEADLOCK FALSE
