----------------------------- MODULE MCIdentity -----------------------------
(* Small instances of Identity for TLC. *)
EXTENDS Identity, TLC

CONSTANTS e1, e2, p1, p2, r1, r2, t1, t2, t3

\* The second user registers, logs in and refreshes; the first also changes the
\* password and cuts sessions.
Changes == e1 :> 2 @@ e2 :> 0

Cuts == e1 :> 2 @@ e2 :> 0

Symmetry == UNION {Permutations(S) : S \in {Passwords, TokenIds, Requests}}

=============================================================================
