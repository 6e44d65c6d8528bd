SPECIFICATION Spec
CONSTANTS
  Ids = {i1}
  Digests = {d1, d2}
  Tenants = {t1, t2}
  Users = {ann, bob, cy}
  Reviewers = {ann, bob}
  Workers = {w1, w2}
  NoOne = NoOne
  Ttl = 1
  Retention = 0
  Skew = 1
  MaxTime = 2
SYMMETRY Symmetry
INVARIANTS
  TypeOK
  ExactSingleUse
  SeparationOfDuties
  GrantedInTime
  AnswersHold
PROPERTIES
  KeepsLifecycle
