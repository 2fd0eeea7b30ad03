--------------------------- MODULE MCEmailService ---------------------------
(* Small instances of EmailService for TLC. *)
EXTENDS EmailService, TLC

CONSTANTS t1, t2, g1, inbox, sub

Nested == (inbox :> Top) @@ (sub :> inbox)
\* The second message of the inbox concerns two contacts, the first none.
TwoContacts == [m \in Mail |-> IF m[2] = 2 THEN 2 ELSE 0]
FewMessages == (inbox :> 2) @@ (sub :> 1)
NoPoison == {}

Symmetry == Permutations(Client)
=============================================================================
