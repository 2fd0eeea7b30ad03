--------------------------- MODULE MCProjectItems ---------------------------
(* A small instance of ProjectItems for TLC.  The spec does not tell its      *)
(* nodes or requests apart, and no liveness is checked.                        *)
EXTENDS ProjectItems, TLC

CONSTANTS p1, i1, i2, c1, c2, c3

Symmetry == Permutations(Page) \cup Permutations(Item) \cup Permutations(Call)
=============================================================================
