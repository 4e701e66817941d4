----------------------------- MODULE MCCompose -----------------------------
(* Compose on a small instance. *)
EXTENDS Compose, TLC

(* Tabs and clicks are interchangeable. *)
Symmetry == Permutations(Ops) \cup Permutations(Tabs)

(* What both properties excuse is not followed any further: `doubts` never   *)
(* shrinks.                                                                  *)
MCUndoubted == doubts # Doubts

=============================================================================
