----------------------------- MODULE MCMohqLock -----------------------------
(* Instances of MohqLock for TLC.                                          *)
EXTENDS MohqLock, TLC

(* The processes are interchangeable; used for the safety run only.        *)
ProcSymmetry == Permutations(Procs)
=============================================================================
