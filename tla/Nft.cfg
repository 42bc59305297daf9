SPECIFICATION Spec
CONSTANTS
  None = None
  plain = plain
  routed = routed
  both = both
  m1 = m1
  m2 = m2
  Policy = {plain, routed, both}
  Mark = {m1, m2}
  Shared <- PolicyShared
  Name = {"l4d2", "l4d2_nat4"}
  Objects <- PolicyObjects
  Disturbances = {"insert", "delete", "alter", "copy", "reboot", "docker", "kill"}
  MaxDisturbances = 2
  MaxApplies = 3
INVARIANTS
  TypeOK
  Exact
  NoOrphans
  Recoverable
PROPERTIES
  Restored
  ForeignKept
