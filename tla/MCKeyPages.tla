------------------------------ MODULE MCKeyPages ------------------------------
(* An instance of KeyPages for TLC: the main thread and the watcher. *)
EXTENDS KeyPages, TLC

CONSTANTS main, watcher, p1, p2, p3, none

TwoThreads == {main, watcher}
ThreePages == {p1, p2, p3}

OneMaker == {main}

Symmetry == Permutations(Pages)

=============================================================================
