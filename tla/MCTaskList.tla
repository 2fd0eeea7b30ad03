----------------------------- MODULE MCTaskList -----------------------------
(* A small instance of TaskList for TLC: one task of each of two workflows,    *)
(* the second of which may be started in the header.                           *)
EXTENDS TaskList

CONSTANTS t1, t2, w1, w2, c1, c2, p1

MCWorkflowOf == [t \in Task |-> IF t = t1 THEN w1 ELSE w2]
MCPageOf == [t \in Task |-> IF t = t1 THEN 1 ELSE 2]
=============================================================================
