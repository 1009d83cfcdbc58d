\* Two processes are enough for the race.
CONSTANTS
  Proc = {p1, p2}
  Root = r
  Inode = {r, i1, i2}
  Type = {"dir", "file"}
  NINODE = 2
  MaxLink = 2
  NoInode = NoInode
SYMMETRY Symmetric
SPECIFICATION Spec
INVARIANT LockExcludes
CHECK_DEADLOCK FALSE
