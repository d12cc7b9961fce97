------------------------ MODULE MCSpecRhythmScheduler ------------------------
(* Instances of SpecRhythmScheduler small enough for TLC.                  *)
EXTENDS SpecRhythmScheduler, TLC

RequestSymmetry == Permutations(Request)
=============================================================================
