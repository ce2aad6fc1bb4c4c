-------------------------- MODULE MCReviewHistory --------------------------
(* A small instance of ReviewHistory: three reviews in order of age, and     *)
(* every bound low enough to be met.  Reviews cannot be permuted, nor can    *)
(* the change set and the scope of the search.                               *)
EXTENDS ReviewHistory, TLC

CONSTANT other

MCResult == [r \in Reviews |-> r = 1]
MCScope == [r \in Reviews |-> IF r = 2 THEN other ELSE Ours]
MCEvidenced == Reviews \ {1}

Symmetry == Permutations(ChangeSets \ {Current})
=============================================================================
