SPECIFICATION Spec
CONSTANTS
  Ids = {i1, i2}
  Digests = {d1, d2}
  Tenants = {t1, t2}
  Users = {ann, bob}
  Reviewers = {ann, bob}
  NoOne = NoOne
  Ttl = 2
  MaxRecords = 1
  MaxClock = 3
SYMMETRY Symmetry
INVARIANTS
  TypeOK
  QueueMatchesRecords
  ExactSingleUse
  SeparationOfDuties
  EveryApprovalCounted
PROPERTIES
  TotalsNeverGoBackwards
  KeepsLifecycle
