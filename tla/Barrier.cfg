SPECIFICATION Spec
CONSTANTS
  p1 = p1
  p2 = p2
  p3 = p3
  Policy = {p1, p2, p3}
  None = None
  Shape <- MCShape
  Scope <- MCScope
  Owner = {o1, o2}
  NUnits = 1
  MaxToken = 3
  MaxBoot = 2
  Commands <- AtBoot
  CrashOps <- AllOps
  Faults = TRUE
  Flushes = FALSE
  Disciplined = TRUE
SYMMETRY OwnerSymmetry
INVARIANTS
  ScopeHeld
  GuardRegistered
PROPERTIES
  BarrierKept
