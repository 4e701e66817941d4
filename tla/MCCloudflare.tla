---------------------------- MODULE MCCloudflare ----------------------------
(* Cloudflare on a small instance.                                           *)
EXTENDS Cloudflare, TLC

MCSymmetry == Permutations(Grants) \cup Permutations(Handlers)

=============================================================================
