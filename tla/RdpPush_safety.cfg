SPECIFICATION Spec
CONSTANTS
  Attempts = {a1, a2, a3}
  Rdis = {r1, r2, r3}
  Workers = {w1, w2}
  NoAttempt = NoAttempt
  NoRdi = NoRdi
  NA = NA
  MaxFaults = 1
SYMMETRY Symmetry
INVARIANTS
  TypeOK
  TrackedImport
  SuccessIsDelivered
  OneSenderPerAttempt
  NoPushDuringCleanup
PROPERTIES
  StaleJobsAreInert
  PromiseSpec
CHECK_DEADLOCK FALSE
