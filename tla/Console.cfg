SPECIFICATION Spec
CONSTANTS
  p1 = p1
  p2 = p2
  p3 = p3
  Policy = {p1, p3}
  None = None
  Shape <- MCShape
  Scope <- MCScope
  Owner = {o1, o2}
  NUnits = 2
  MaxToken = 2
  MaxBoot = 2
  Commands <- Console
  CrashOps <- AllOps
  Faults = TRUE
  Flushes = TRUE
  Disciplined = TRUE
INVARIANTS
  KernelJournaled
  ReadyMeansInstalled
