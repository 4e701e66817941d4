----------------------------- MODULE MCStorage -----------------------------
(* Storage on a small instance.                                              *)
EXTENDS Storage, TLC

MCSymmetry == Permutations(Keys) \cup Permutations(Bytes)

=============================================================================
