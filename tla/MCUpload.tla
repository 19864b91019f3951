------------------------------ MODULE MCUpload ------------------------------
(* Instances of UploadManager for TLC.                                     *)
EXTENDS UploadManager, TLC

CONSTANTS t1, t2, t3, a1, a2

ThreadSymmetry == Permutations(Threads)
Symmetry       == Permutations(Threads) \cup Permutations(Auths)
=============================================================================
