----------------------------- MODULE MCRequests -----------------------------
(* A small instance of Requests for TLC. *)
EXTENDS Requests, TLC

CONSTANTS k1, k2, k3, k4, r1, r2

Symmetry == Permutations(Requests) \cup Permutations(Topups)

=============================================================================
