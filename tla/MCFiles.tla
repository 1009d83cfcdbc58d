------------------------------ MODULE MCFiles ------------------------------
(***************************************************************************)
(* Files for two files that nothing tells apart.                           *)
(***************************************************************************)
EXTENDS Files, TLC

ReadWrite == {<<TRUE, TRUE>>}
Symmetric == Permutations(Inum)

=============================================================================
