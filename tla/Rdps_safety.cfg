SPECIFICATION SpecAll
CONSTANTS
  Components = {"RdpPages", "Form", "Create", "Data", "People", "Findings", "Results", "Locks"}
  Users = {u1, u2}
  MaxAttempts = 3
  Forms = FALSE
  FormUsers = {u1, u2}
  FormAttempts = 2
  Creators = {j1}
  Beneficiaries = {b1, b2, b3}
  MaxCreated = 3
  MaxValidity = 1
  Households = {h1, h2}
  Individuals = {i1, i2, c1}
  NoOne = NoOne
  HouseholdOf <- TwoHouseholds
  RolesOf <- TwoRoles
  EditsOf <- SomeEdits
  BatchSize = 2
  MaxPushed = 2
  MaxRdis = 2
  DataEdits = 1
  PeopleEdits = 0
  Procs = {p1, p2, p3}
  LockedRdps = {rdp1}
  h1 = h1  h2 = h2  i1 = i1  i2 = i2  i3 = i3  c1 = c1
  k1 = k1  k2 = k2
  Photographed = {i1, i2, i3, c1}  Families = {h1, h2}  Outsiders = {c1}  Callbacks = {k1, k2}
  FamilyOf <- HouseOf
  FoundRdps = 2  FoundPairs = 2  PhotoEdits = 1  ResultRdps = 1
INVARIANTS
  TypesOK
PROPERTIES
  
  DoneIsDone
  FindingsAreTrue
  
CHECK_DEADLOCK FALSE
