---------------------------- MODULE MCRelations ----------------------------
(* Small instances of Relations for TLC. *)
EXTENDS Relations, TLC

CONSTANTS c1, c2, v1, v2, p1, d1

None == {}
ConnSymmetry == Permutations(Conn)
=============================================================================
