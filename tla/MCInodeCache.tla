---------------------------- MODULE MCInodeCache ----------------------------
(* The inode cache for TLC: processes are interchangeable, and so are the  *)
(* inodes other than the root.                                             *)
EXTENDS InodeCache, TLC

\* Nothing is said of the table after the race.
BeforeRace == ~raced
\* A bound: the root keeps one name (MCInodeInv.cfg is without it).
OneRoot == names[Root] = 1

Symmetric == Permutations(Proc) \cup Permutations(Inode \ {Root})
=============================================================================
