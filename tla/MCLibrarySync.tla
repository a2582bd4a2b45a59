---------------------------- MODULE MCLibrarySync ----------------------------
(***************************************************************************)
(* Model values and symmetry for TLC.                                      *)
(***************************************************************************)
EXTENDS LibraryHistory, TLC

CONSTANTS g1, g2

OneGoroutine == {g1}
TwoGoroutines == {g1, g2}
GoroutineSymmetry == Permutations(Goroutines)
=============================================================================
