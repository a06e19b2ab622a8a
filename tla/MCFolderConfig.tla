---------------------------- MODULE MCFolderConfig ----------------------------
(* Instances of FolderConfig for TLC.                                       *)
EXTENDS FolderConfig, TLC

Symmetry == Permutations(Folders) \cup Permutations(Requests)
===============================================================================
