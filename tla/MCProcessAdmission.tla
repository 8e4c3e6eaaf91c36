------------------------- MODULE MCProcessAdmission -------------------------
(* TLC instance of ProcessAdmission: interchangeable workers.                *)
EXTENDS ProcessAdmission, TLC

Symmetry == Permutations(Workers)

=============================================================================
