------------------------------ MODULE MCQueues ------------------------------
(* Instances of LifeCycle for TLC. Processes, ids, URIs and names are each *)
(* interchangeable.                                                        *)
EXTENDS LifeCycle, TLC

Symmetry ==
    Permutations(Procs) \cup Permutations(Ids) \cup Permutations(Uris) \cup Permutations(Names)
=============================================================================
