CONSTANTS
  Proc = {p1, p2}
  Root = r
  Inode = {r, i1, i2}
  Name = {a, b}
  NFILE = 1
  MaxPath = 1
  MaxLink = 2
  MaxLost = 1
  NoProc = NoProc
  NoInode = NoInode
  NoName = NoName
SYMMETRY Symmetric
SPECIFICATION Spec
INVARIANTS PointerInv TreeInv
CHECK_DEADLOCK FALSE
