--------------------------- MODULE MCDraftSchedule ---------------------------
(* DraftSchedule on small instances. *)
EXTENDS DraftSchedule, TLC

(* Keys are told apart by BeginSome, so they are not permuted. *)
Symmetry == Permutations(Clients) \cup Permutations(Deliveries)

=============================================================================
