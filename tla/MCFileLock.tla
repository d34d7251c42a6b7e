----------------------------- MODULE MCFileLock -----------------------------
(* FileLock for TLC.                                                       *)
EXTENDS FileLock, TLC

Symm == Permutations(Proc) \cup Permutations(Inode)
=============================================================================
