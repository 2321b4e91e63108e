------------------------------ MODULE MCTable ------------------------------
(* The table module for model checking. *)
EXTENDS Table, TLC

Symmetry == Permutations(AValues) \cup Permutations(Texts)
=============================================================================
