CONSTANTS
  NFrame = 17
  NPT = 3
  NPD = 2
  NKTab = 1
  PGSIZE = 2
  Slot = {1, 2}
  Programs <- TwoPrograms
  Deltas <- GrowAndShrink
  MaxFail = 1
  MaxCall = 6
  None = None
SPECIFICATION Spec
INVARIANTS OneOwner NothingLost ImageWhole
PROPERTY FailureKeeps
CHECK_DEADLOCK FALSE
