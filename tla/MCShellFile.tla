----------------------------- MODULE MCShellFile -----------------------------
(* Instances of ShellFile for TLC. *)
EXTENDS ShellFile, TLC

CONSTANTS i1, i2, d1, d2, w1, w2, k1, k2, zero, torn, none

OneProc == {i1}
TwoProcs == {i1, i2}
OneDir == {d1}
TwoDirs == {d1, d2}
TwoPasswords == {w1, w2}
TwoKeys == {k1, k2}

Symmetry ==
  Permutations(Procs) \union Permutations(Dirs) \union Permutations(Passwords)
    \union Permutations(DataKeys)

=============================================================================
