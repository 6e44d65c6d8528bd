SPECIFICATION Spec
CONSTANTS
  Threads = {h1, h2}
  Callers = {ann, bob}
  Tenant = acme
  MaxKeys = 1
  IdentityLimit = 1
  TenantLimit = 4
  Window = 2
  Threshold = 1
  LockWindow = 4
  MaxContext = 2
  MaxContent = 2
  MaxDocs = 2
  DocCounts = {0, 2}
  MaxDelay = 1
  MaxClock = 4
  MaxRequests = 3
CHECK_DEADLOCK FALSE
SYMMETRY Symmetry
INVARIANTS
  NoisyCallerSparesTenant
  LockoutHolds
