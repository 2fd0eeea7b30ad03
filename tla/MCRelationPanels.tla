-------------------------- MODULE MCRelationPanels --------------------------
(* A small instance of RelationPanels for TLC. *)
EXTENDS RelationPanels

CONSTANTS a, n, self, c1, c2
=============================================================================
