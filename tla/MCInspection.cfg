SPECIFICATION InspectionSpec
CONSTANTS
  Pii = {"pii_email"}
  NoTenant = none
  OwnTenant = acme
  OtherTenant = rival
  Length = 3
  MaxFindings = 2
  WindowChars = 2
  OverlapChars = 1
  DeploymentRules = {"unset", "allow"}
  TenantRules = {"unset", "pseudonymize", "deny"}
  MaxSteps = 3
  MaxValues = 3
INVARIANTS
  NothingSensitivePasses
  InjectionNeverPasses
  RemoteAgrees
  UnsafeArgumentsRefused
