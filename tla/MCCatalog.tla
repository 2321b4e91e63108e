----------------------------- MODULE MCCatalog -----------------------------
(* The catalog for TLC.                                                     *)
EXTENDS Catalog, TLC

Symmetry == Permutations(Tables) \cup Permutations(Sessions)
=============================================================================
