\* Three processes and inodes for two entries.
CONSTANTS
  Proc = {p1, p2, p3}
  Root = r
  Inode = {r, i1, i2}
  Type = {"dir", "file"}
  NINODE = 2
  MaxLink = 2
  NoInode = NoInode
SYMMETRY Symmetric
SPECIFICATION Spec
CONSTRAINTS BeforeRace OneRoot
INVARIANTS EntriesExact FreedAtLastUse
CHECK_DEADLOCK FALSE
