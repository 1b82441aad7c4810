------------------------------- MODULE MCTsh -------------------------------
(* Instances of Tsh for TLC.                                               *)
EXTENDS Tsh, TLC

Symmetry == Permutations(Pids)
=============================================================================
