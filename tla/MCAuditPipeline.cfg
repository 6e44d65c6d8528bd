SPECIFICATION Spec
CONSTANTS
  Handlers = {h1, h2}
  Tenants = {t1}
  Keyless = Keyless
  MaxLen = 1
  Mandatory = TRUE
  MaxBatch = 2
  MaxEvents = 3
  MaxFaults = 3
INVARIANTS
  TypeOK
  NothingVanishes
  NothingTwice
  NeverOvertakes
  AdmittedAloneIsKept
PROPERTIES
  BufferDrains
