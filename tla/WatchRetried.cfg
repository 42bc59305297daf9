SPECIFICATION Spec
CONSTANTS
  a = a
  b = b
  Address = {a, b}
  Process = {timer, manual}
  Timer = timer
  None = None
  MaxWan = 3
  WanAt <- Returning
  MaxFailures = 1
  MaxManual = 0
PROPERTIES
  Retried
