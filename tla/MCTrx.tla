------------------------------- MODULE MCTrx -------------------------------
(* Trx for TLC: the sessions are interchangeable. *)
EXTENDS Trx, TLC

Symmetry == Permutations(Session)
=============================================================================
