SPECIFICATION Spec
CONSTANTS
  Replicas = {r1}
  Slots = {s1, s2}
  Tenants = {t1, t2}
  Traces = {x1, x2}
  Ids = {i1, i2}
  Canary = Canary
  OtherTitle = OtherTitle
  MaxLog = 1
  MaxDecisions = 2
SYMMETRY Symmetry
INVARIANTS
  OneCasePerLeak
