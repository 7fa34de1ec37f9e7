-------------------------- MODULE MCGutaAdmission --------------------------
(* Small instances of GutaAdmission for TLC.                               *)
EXTENDS GutaAdmission, TLC

\* Requests differ only in their names.
Symmetry == Permutations(Requests)
=============================================================================
