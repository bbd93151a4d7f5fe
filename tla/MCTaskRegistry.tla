--------------------------- MODULE MCTaskRegistry ---------------------------
(***************************************************************************)
(* Instances of TaskRegistry for TLC: main is app_main, sup the supervisor *)
(***************************************************************************)
EXTENDS TaskRegistry, TLC

CONSTANTS main, sup

HandleSymmetry == Permutations(Handles)

=============================================================================
