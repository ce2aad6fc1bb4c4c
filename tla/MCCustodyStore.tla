--------------------------- MODULE MCCustodyStore ---------------------------
(* Small instances of CustodyStore. *)
EXTENDS CustodyStore, TLC

Symmetry == Permutations(Mutations) \union Permutations(Coordinators)
=============================================================================
