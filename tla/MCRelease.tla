----------------------------- MODULE MCRelease -----------------------------
(* The release scripts, checked for two overlapping runs.                  *)
EXTENDS Release, TLC

CONSTANTS r1, r2, k0, k1, k2

MCSymmetry == Permutations(Runs) \cup Permutations(Keys)
=============================================================================
