-------------------------- MODULE MC_Registration --------------------------
(* Small instances of Registration.                                        *)
EXTENDS Registration, TLC

CONSTANTS p1, p2, p3, u1, u2

(* The first user has two numbers.                                         *)
TwoAndOne == p1 :> u1 @@ p2 :> u1 @@ p3 :> u2

(* Licences and plates are alike.                                          *)
Symmetry == Permutations(Licences) \cup Permutations(Plates)
=============================================================================
