SPECIFICATION Spec
CONSTANTS
  Threads = {h1, h2}
  Traces = {t1, t2}
  Users = {ann, bob}
  NoOne = NoOne
  Ids = {i1}
  ReadOnly = {calc}
  Risky = {call}
  Forbidden = {raze}
  Code = {calc, call}
  Restricted = TRUE
  MaxActions = 1
  MaxKeys = 1
  MaxRequests = 3
SYMMETRY Symmetry
INVARIANTS
  TypeOK
  RiskyNeedsOwnApproval
  BudgetHolds
PROPERTIES
  KeepsLifecycle
