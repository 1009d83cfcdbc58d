\* A slot is used twice.
CONSTANTS
  CPU = {c1}
  NPROC = 2
  MaxPid = 3
  NapTicks = 1
  None = None
SPECIFICATION Spec
PROPERTY BornAlive
CHECK_DEADLOCK FALSE
