------------------------------- MODULE MC_Otp -------------------------------
EXTENDS Otp, TLC

(* Nothing distinguishes two handlers, two codes, or two numbers.          *)
Symmetry == Permutations(Handlers) \cup Permutations(Codes) \cup Permutations(Phones)
=============================================================================
