---------------------------- MODULE MCTieredStore ----------------------------
(* TieredStore for TLC. *)
EXTENDS TieredStore, TLC

CONSTANTS a, b, c

MCMemories == {a, b}
MCThree == {a, b, c}
\* Memories differ in nothing but their rows.
MCSymmetry == Permutations(Memories)
=============================================================================
