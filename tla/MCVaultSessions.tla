--------------------------- MODULE MCVaultSessions ---------------------------
(* Instances of VaultSessions for TLC. *)
EXTENDS VaultSessions, TLC

CONSTANTS p1, p2, k1, k2, k3, k4, empty, c1, none

OnePath    == {p1}
TwoPaths   == {p1, p2}
TwoKeys    == {k1, k2}
ThreeKeys  == {k1, k2, k3}
FourKeys   == {k1, k2, k3, k4}
TwoContents == {empty, c1}
OneZone    == {1}
TwoZones   == {1, 2}

\* Nothing tells two Shell files, or two keys, apart but what happened to them.
Symmetry == Permutations(TwoPaths) \union Permutations(FourKeys)

=============================================================================
