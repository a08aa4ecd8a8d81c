----------------------------- MODULE MCOperations -----------------------------
(* Instances of Operations for TLC. *)
EXTENDS Operations, TLC

SourceSymmetry == Permutations(Sources)

(* Thresholds 90 (recovery 85), and a pair that violates warn <= recovery. *)
OnePolicy   == {<<75, 90>>}
TwoPolicies == {<<75, 90>>, <<88, 90>>}
=============================================================================
