----------------------------- MODULE MCOutbound -----------------------------
(* Outbound on small instances. *)
EXTENDS Outbound, TLC

(* Processes of one kind, queue entries and messages are interchangeable;    *)
(* used by the runs that check safety only.                                  *)
Symmetry == Permutations(Workers) \cup Permutations(Dispatchers)
              \cup Permutations(Deliveries)

=============================================================================
