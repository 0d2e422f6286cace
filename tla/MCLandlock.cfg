SPECIFICATION Spec
CONSTANTS
  Missing = Missing
  MaxGrants = 2
  Paths <- MCPaths
  Devices <- MCDevices
  Filesystems <- MCFilesystems
  Policies <- MCPolicies
  Kernels <- MCKernels
CHECK_DEADLOCK FALSE
INVARIANTS EnforcesTheGrants EnforcesTheTier FailsOnlyWhenUnsupported
