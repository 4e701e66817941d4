--------------------------- MODULE StatusRegister ---------------------------
(***************************************************************************)
(* What provider sync promises, without locks, statements or retries: each *)
(* provider message has a position in the order of its status; an event    *)
(* moves it forward or not at all; an event is acknowledged only when the  *)
(* position has reached it.  A reconciliation writes what the provider     *)
(* reports, wherever that lies: it is the only step that may move back, and *)
(* from then on the message is among `demoted`.                            *)
(***************************************************************************)
EXTENDS ProviderStatus

CONSTANTS
    ProviderMessages,  \* provider message ids of one connection
    Events,            \* webhook events: records with about, time, status
    Reports            \* what a listing may report: records of the same form

VARIABLES
    stored,            \* the position of each provider message
    acked,             \* the events answered with 200
    demoted            \* the provider messages ever moved back

Init ==
    /\ stored = [p \in ProviderMessages |-> NoPosition]
    /\ acked = {}
    /\ demoted = {}

Apply(e) ==
    /\ ShouldApply(stored[e.about], Position(e))
    /\ stored' = [stored EXCEPT ![e.about] = Position(e)]
    /\ UNCHANGED <<acked, demoted>>

Acknowledge(e) ==
    /\ \/ stored[e.about] # NoPosition /\ ShouldApply(Position(e), stored[e.about])
       \/ e.about \in demoted
    /\ acked' = acked \cup {e}
    /\ UNCHANGED <<stored, demoted>>

Reconcile(x) ==
    /\ stored' = [stored EXCEPT ![x.about] = Position(x)]
    /\ demoted' = IF ShouldApply(stored[x.about], Position(x))
                  THEN demoted ELSE demoted \cup {x.about}
    /\ UNCHANGED acked

Next == \/ \E e \in Events : Apply(e) \/ Acknowledge(e)
        \/ \E x \in Reports : Reconcile(x)

Spec == Init /\ [][Next]_<<stored, acked, demoted>>

=============================================================================
