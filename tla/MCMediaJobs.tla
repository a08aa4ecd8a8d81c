----------------------------- MODULE MCMediaJobs -----------------------------
(* Instances of MediaJobs for TLC. *)
EXTENDS MediaJobs, TLC

(* Nothing tells two media assignments apart but being different. *)
SourceSymmetry == Permutations(Sources)
(* The retry delays, scaled down to the few seconds of the instances. *)
ShortBackoff == <<1>>
=============================================================================
