---------------------------- MODULE MCCircleMoney ----------------------------
(* A circle of two members and two cycles, that fall due on the last days    *)
(* of two months.                                                            *)
EXTENDS CircleMoney, TLC

MCStart == <<2028, 1, 31>>

SessionSymmetry == Permutations(Sessions)

=============================================================================
