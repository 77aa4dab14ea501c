----------------------------- MODULE MCFilesZone -----------------------------
(* Instances of FilesZone for TLC. *)
EXTENDS FilesZone, TLC

CONSTANTS f1, f2, f3, x1, root, none

TwoFolders == {f1, f2}
ThreeFolders == {f1, f2, f3}
OneFile == {x1}

Symmetry == Permutations(FolderIds)

=============================================================================
