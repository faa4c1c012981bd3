------------------------------ MODULE MCAdoption ------------------------------
(* TLC instance of Adoption.                                                 *)
EXTENDS Adoption, TLC

Symmetry == Permutations(Agents)
=============================================================================
