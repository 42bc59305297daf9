SPECIFICATION Spec
CONSTANTS
  None = None
  host = host
  docker = docker
  Policy = {host, docker}
  Family <- Both
  Rules <- PolicyRules
  Hooks <- PolicyHooks
  SuiteChain <- Chains
  Shared <- TablesOf
  ForeignRule <- NeighbourAndReference
  Spots <- Places
  Disturbances = {"insert", "remove", "refer", "reboot", "docker"}
  MaxDisturbances = 3
INVARIANTS
  TypeOK
  Exact
  
  HookOnce
PROPERTIES
  Restored
  ForeignKept
