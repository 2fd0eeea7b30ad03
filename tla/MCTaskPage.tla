----------------------------- MODULE MCTaskPage -----------------------------
(* A small instance of TaskPage for TLC: one task of a user, one of a pool. *)
EXTENDS TaskPage

CONSTANTS p1, p2, ann, bob, own, pooled

MCAssignee == [t \in Task |-> IF t = own THEN bob ELSE Nobody]
MCPool == [t \in Task |-> IF t = own THEN {} ELSE {ann, bob}]
MCUserOf == [p \in Page |-> IF p = p1 THEN ann ELSE bob]
Id(t, w) == [task |-> t, workflow |-> w]
MCAddress == [p \in Page |-> IF p = p1 THEN {Id(pooled, TRUE)} ELSE {Id(own, FALSE), Id(pooled, FALSE), Id(NoTask, TRUE)}]
=============================================================================
