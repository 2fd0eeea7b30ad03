--------------------------- MODULE MCWfScheduler ---------------------------
(* Small instances of WfScheduler for TLC. *)
EXTENDS WfScheduler, TLC

CONSTANTS u1, u2, j1, j2, k1, k2, s1, s2, w1, w2, c1, c2

\* One submission per user, or both by the same user.
EachAuthor == (j1 :> u1) @@ (j2 :> u2)
SameAuthor == (j1 :> u1) @@ (j2 :> u1)

\* k1 is due in hour 0 only, k2 in both hours of the calendar.
TwoCrons == (k1 :> {0}) @@ (k2 :> {0, 1})
Repeating == {k2}

OneHost  == (w1 :> s1) @@ (w2 :> s1)
TwoHosts == (w1 :> s1) @@ (w2 :> s2)

\* Connections, and the threads of one server, are interchangeable.
Symmetry == Permutations(Conn) \cup Permutations(Worker)
=============================================================================
