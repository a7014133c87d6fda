------------------------------ MODULE MCForker ------------------------------
(* Small instances of the dispatcher for TLC. *)
EXTENDS ForkerRefinement, TLC

Symmetry == Permutations(Conns)
=============================================================================
