----------------------------- MODULE MCFilesInv -----------------------------
(***************************************************************************)
(* Files with the inductive invariants of FilesProofs.                     *)
(***************************************************************************)
EXTENDS MCFiles, FilesProofs

=============================================================================
