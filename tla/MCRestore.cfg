SPECIFICATION Spec
CONSTANTS
  Threads = {h1, h2}
  Tenants = {acme, rival}
  Traces = {t1}
  Values = {v1, v2}
  Keys = {k1, k2}
  FirstKey = k1
  NoKid = nokid
  CacheSeconds = 2
  MaxStale = 1
  MinRefresh = 1
  Never = never
  Ttl = 2
  MaxScopes = 1
  MaxClock = 4
  MaxRequests = 3
CHECK_DEADLOCK FALSE
SYMMETRY Symmetry
INVARIANTS
  RevokedKeyLapses
  RotationPickedUp
  ToldApart
  RestoresOwnValue
