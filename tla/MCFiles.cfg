CONSTANTS
  Proc = {p, q}
  First = p
  Openers = {p}
  NOFILE = 2
  NFILE = 2
  NDIRECT = 1
  NINDIRECT = 1
  BSIZE = 2
  NBlock = 3
  LOGSIZE = 6
  Inum = {i, j}
  Pairs = {x}
  Modes <- ReadWrite
  Lens = {1, 3}
  MaxRead = 4
  MaxCrash = 1
  None = None
SYMMETRY Symmetric
SPECIFICATION Spec
INVARIANTS BlocksExact FitsLog RefsExact
PROPERTY OpenKept
