-------------------------- MODULE MCReviewBinding --------------------------
(* A small instance of ReviewBinding: two files, a target and a submodule    *)
(* that can each move, one managed writer and a writer past custody.         *)
EXTENDS ReviewBinding, TLC

Symmetry == Permutations(Paths) \union Permutations(Texts)
              \union Permutations(Targets) \union Permutations(Heads)
=============================================================================
