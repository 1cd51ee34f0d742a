-------------------------- MODULE MCCircleFormation --------------------------
(* A circle for two, with one person too many to join and an invite to      *)
(* spare.                                                                   *)
EXTENDS CircleFormation, TLC

CircleSymmetry ==
  Permutations(Sessions) \cup Permutations(Invites) \cup Permutations(People \ {Owner})

=============================================================================
