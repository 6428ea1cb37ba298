-------------------------- MODULE MCSessionManager --------------------------
(* Instances of SessionManager for TLC: ids and peers are interchangeable. *)
EXTENDS SessionManager, TLC

Symmetry == Permutations(Peers) \cup Permutations(SessionIds)
=============================================================================
