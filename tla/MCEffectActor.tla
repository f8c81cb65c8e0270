--------------------------- MODULE MCEffectActor ---------------------------
(* Small instances of EffectActor for TLC. *)
EXTENDS EffectActor, TLC

CONSTANTS a1, a2, w1, k1, k2, s1

\* Two partition keys that hash to the same keyed worker.
MCRoute == [k \in PartitionKeys |-> w1]

\* Dispatchers are alike, and so are keys with the same worker.
Symmetry == Permutations(Actors) \cup Permutations(PartitionKeys)
=============================================================================
