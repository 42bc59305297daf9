SPECIFICATION Spec
CONSTANTS
  p1 = p1
  p2 = p2
  p3 = p3
  Policy = {p1, p2}
  None = None
  Shape <- MCShape
  Scope <- MCScope
  Owner = {o1, o2}
  NUnits = 1
  MaxToken = 2
  MaxBoot = 1
  Commands <- Timed
  CrashOps <- AllOps
  Faults = FALSE
  Flushes = FALSE
  Disciplined = FALSE
INVARIANTS
  ReadyMeansInstalled
