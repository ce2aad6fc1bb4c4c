--------------------------- MODULE MCWriteCustody ---------------------------
(* Small instances of WriteCustody. *)
EXTENDS WriteCustody, TLC

CoordinatorSymmetry == Permutations(Coordinators)
Symmetry == Permutations(Executions) \union Permutations(Coordinators)
=============================================================================
