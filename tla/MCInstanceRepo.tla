--------------------------- MODULE MCInstanceRepo ---------------------------
(***************************************************************************)
(* Instances of InstanceRepo for TLC.                                      *)
(***************************************************************************)
EXTENDS InstanceRepo, TLC

Symmetry == Permutations(Ids) \cup Permutations(Procs)
=============================================================================
