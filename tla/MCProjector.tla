----------------------------- MODULE MCProjector -----------------------------
(* Small instances of Projector for TLC. *)
EXTENDS Projector, TLC

CONSTANTS a1, a2, s1

Symmetry == Permutations(Actors)
=============================================================================
