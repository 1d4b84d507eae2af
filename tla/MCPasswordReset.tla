--------------------------- MODULE MCPasswordReset ---------------------------
(* Instances of PasswordReset for TLC. *)
EXTENDS PasswordReset, TLC

CONSTANTS p1, p2, s1, s2

SlotSymmetry == Permutations(Slots)
=============================================================================
