---------------------------- MODULE MCConsensus ----------------------------
(* Consensus for TLC: model values for the repeaters, which are alike. *)
EXTENDS Consensus

Symmetry == Permutations(Repeaters)
=============================================================================
