------------------------ MODULE MCReviewPublication ------------------------
(* A small instance of ReviewPublication.  Liveness is checked in it, so it  *)
(* takes no symmetry.                                                        *)
EXTENDS ReviewPublication
=============================================================================
