\* The inductive invariant of InodeCacheProofs, on the instance of the run.
CONSTANTS
  Proc = {p1, p2, p3}
  Root = r
  Inode = {r, i1, i2}
  Type = {"dir", "file"}
  NINODE = 2
  MaxLink = 2
  NoInode = NoInode
SYMMETRY Symmetric
SPECIFICATION Spec
CONSTRAINT BeforeRace
INVARIANTS EntryInv
CHECK_DEADLOCK FALSE
