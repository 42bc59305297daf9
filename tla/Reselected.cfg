SPECIFICATION Spec
CONSTANTS
  V4 <- MCV4
  V6 <- MCV6
  Requests <- MCRequests
  Updates <- MCUpdates
  Removals <- MCRemovals
  Disk <- MCDisk
  Refreshed <- MCRefreshed
  Edited <- MCEdited
  MaxOperations = 2
  Arrivals <- MCArrivals
  Transits <- MCTransits
  Targets <- MCTargets
  Reviewed = {"main", "vpn_nat"}
  Objects = {"main", "suite_nat"}
  Others = {"docker"}
  MaxOutside = 2
  MaxCrashes = 2
  Year = 4
  Slack = 1
  Window = 1
  Horizon = 5
  MaxLines = 2
  MaxRotations = 1
  MaxEmpty = 1
  MaxDeaths = 1
PROPERTIES PartialKeepsSelection
CHECK_DEADLOCK FALSE
