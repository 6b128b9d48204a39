---------------------------- MODULE MCOutputGate ----------------------------
(* Small instances of OutputGate for TLC.  No action tells cells apart, so the *)
(* safety runs may take them up to a permutation.                              *)
EXTENDS OutputGate, TLC

CellSymmetry == Permutations(Cells)
=============================================================================
