SPECIFICATION Spec
CONSTANTS
  None = None
  host = host
  docker = docker
  Policy = {host}
  Family <- One
  Rules <- PolicyRules
  Hooks <- PolicyHooks
  SuiteChain <- Chains
  Shared <- TablesOf
  ForeignRule <- Neighbour
  Spots <- Places
  Disturbances = {"reboot"}
  MaxDisturbances = 1
INVARIANTS
  RecoverySucceeds
