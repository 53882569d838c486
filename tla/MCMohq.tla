------------------------------- MODULE MCMohq -------------------------------
(* Instances of Mohq for TLC. The processes are interchangeable, and so    *)
(* are the calls; no run that uses symmetry checks a liveness property.    *)
EXTENDS Mohq, TLC

ProcSymmetry == Permutations(Procs)
Symmetry == ProcSymmetry \cup Permutations(Dialogs)
=============================================================================
