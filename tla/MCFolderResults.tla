-------------------------- MODULE MCFolderResults --------------------------
(* FolderResults on small trees; the compare threads are interchangeable.  *)
EXTENDS FolderResults, TLC

ThreadSymmetry == Permutations(Threads)
=============================================================================
