---------------------------- MODULE MC_OrderSync ----------------------------
EXTENDS OrderSync, TLC

(* Nothing distinguishes two runs.                                         *)
Symmetry == Permutations(Runs)
=============================================================================
