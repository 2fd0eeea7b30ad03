------------------------- MODULE MCTaskDiscussion -------------------------
(* Small instances of TaskDiscussion for TLC. *)
EXTENDS TaskDiscussion, TLC

CONSTANTS p1, p2

Symmetry == Permutations(Page)
=============================================================================
