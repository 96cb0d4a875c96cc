---------------------------- MODULE MCFolderLock ----------------------------
(* Small instances of FolderLock for TLC. *)
EXTENDS FolderLock, TLC

Symmetry == Permutations(Instance)
=============================================================================
