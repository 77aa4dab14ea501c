------------------------------ MODULE MCContainer ------------------------------
(* Instances of Container for TLC. *)
EXTENDS Container, TLC

CONSTANTS d1, d2, w1, w2, s1, s2, s3, s4, zero, torn, none

TwoDirs == {d1, d2}
TwoPasswords == {w1, w2}
FourSalts == {s1, s2, s3, s4}

Symmetry == Permutations(Dirs) \union Permutations(Passwords) \union Permutations(Salts)

=============================================================================
