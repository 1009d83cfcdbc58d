----------------------------- MODULE MCFileTree -----------------------------
(* The file system calls for TLC: processes, names, and inodes other than  *)
(* the root are interchangeable.                                           *)
EXTENDS FileTree, TLC

Symmetric == Permutations(Proc) \cup Permutations(Name) \cup Permutations(Inode \ {Root})
=============================================================================
