SPECIFICATION FairSpec
CONSTANTS
  a = a
  b = b
  Address = {a, b}
  Process = {timer, manual}
  Timer = timer
  None = None
  MaxWan = 3
  WanAt <- Returning
  MaxFailures = 2
  MaxManual = 3
INVARIANTS
  TypeOK
  OneAtATime
  FreshState
PROPERTIES
  NeverBackwards
  Converges
