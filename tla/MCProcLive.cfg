\* One CPU for init and two more processes.
CONSTANTS
  CPU = {c1}
  NPROC = 3
  MaxPid = 3
  NapTicks = 1
  None = None
SPECIFICATION FairSpec
PROPERTIES KilledExits OrphanReaped
CHECK_DEADLOCK FALSE
