--------------------------- MODULE ProviderStatus ---------------------------
(***************************************************************************)
(* The order in which the status of a provider message moves: by the time  *)
(* of the event first, by the rank of the status among events of one time. *)
(***************************************************************************)
EXTENDS Naturals

Statuses == {"sent", "delayed", "delivered", "bounced", "failed", "complained"}

statusRank == [ sent |-> 30, delayed |-> 40, delivered |-> 50, bounced |-> 60,
                failed |-> 60, complained |-> 70 ]

Position(x) == [ time |-> x.time, rank |-> statusRank[x.status] ]

(* status_event_time IS NULL, or no row in provider_message_state. *)
NoPosition == [ time |-> 0, rank |-> 0 ]

Positions == [ time : Nat, rank : Nat ]

(* shouldApplyProviderStatus, and the WHERE of applyStatus. *)
ShouldApply(stored, incoming) ==
    \/ stored = NoPosition
    \/ incoming.time > stored.time
    \/ incoming.time = stored.time /\ incoming.rank >= stored.rank

=============================================================================
