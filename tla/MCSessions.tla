----------------------------- MODULE MCSessions -----------------------------
(* Requests are interchangeable, and so are sign-ins. *)
EXTENDS Sessions, TLC

MCSymmetry == Permutations(Requests) \cup Permutations(Logins)
=============================================================================
