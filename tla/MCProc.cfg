\* Two CPUs; init and up to three more processes, so that a process can have
\* both a parent other than init and a dead child.
CONSTANTS
  CPU = {c1, c2}
  NPROC = 4
  MaxPid = 4
  NapTicks = 0
  None = None
SPECIFICATION Spec
INVARIANTS OneCPU NoLostWakeup Family
CHECK_DEADLOCK FALSE
