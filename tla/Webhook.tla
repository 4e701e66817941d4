------------------------------ MODULE Webhook ------------------------------
(***************************************************************************)
(* Provider sync of one connection: webhook handlers that claim a delivery,*)
(* find or import its message and apply its status; reconciliations of     *)
(* what the provider lists; and the success batch of the outbound pipeline,*)
(* which records the provider's id of a message of our own.                *)
(*                                                                         *)
(* One action is one D1 statement or batch, or one call of the provider.   *)
(* Expiry times are the flags `live`; they run out in actions of their own.*)
(***************************************************************************)
EXTENDS ProviderStatus, FiniteSets

CONSTANTS
    ProviderMessages,  \* provider message ids of the connection
    Events,            \* webhook events: [key, about, time, status]
    Reports,           \* details a listing may hold: [about, time, status]
    Handlers,          \* webhook requests that may run at once
    Reconcilers,       \* reconciliations that may run at once
    MaxFaults          \* how many faults a behaviour may contain (bound)

ASSUME FactsAssumption ==
    /\ Events \subseteq
         [key : STRING, about : ProviderMessages, time : Nat \ {0}, status : Statuses]
    /\ Reports \subseteq
         [about : ProviderMessages, time : Nat \ {0}, status : Statuses]
ASSUME BoundAssumption == MaxFaults \in Nat

None == "none"
ASSUME HandlersAssumption == None \notin Handlers

VARIABLES
    row,       \* the row of messages that carries a provider message id
    state,     \* provider_message_state
    delivery,  \* webhook_deliveries
    handler,   \* the webhook requests
    rec,       \* the reconciliations
    own,       \* messages the pipeline has sent, by the provider's id
    acked,     \* events answered with { accepted: true }
    demoted,   \* messages a reconciliation has moved back (history)
    overran,   \* a handler has outlasted webhookLockTtlMs (history)
    faults     \* faults so far (bounds the model only)

vars == <<row, state, delivery, handler, rec, own, acked, demoted, overran, faults>>

-----------------------------------------------------------------------------
(* Types *)

Rows == [ status : Statuses \cup {None}, domain : BOOLEAN ]
NoRow == [ status |-> None, domain |-> FALSE ]

StateRows ==
    [ there  : BOOLEAN,               \* the row exists
      at     : Positions,             \* status_event_time, status_rank
      linked : BOOLEAN,               \* message_id IS NOT NULL
      token  : Handlers \cup {None},  \* import_lock_token
      live   : BOOLEAN ]              \* import_lock_expires_at >= now
NoState == [ there |-> FALSE, at |-> NoPosition, linked |-> FALSE,
             token |-> None, live |-> FALSE ]

(* A delivery is locked exactly while it is being processed. *)
DeliveryRows ==
    [ status : {"processing"}, lock : {"live", "expired"} ]
      \cup [ status : {None, "succeeded", "failed"}, lock : {None} ]
NoDelivery == [ status |-> None, lock |-> None ]

HandlerSteps ==
    {"idle", "select", "takeover", "find", "lock", "reread", "import",
     "insert", "apply", "finish", "fail"}

Idle == [ pc |-> "idle" ]

TypeOK ==
    /\ row \in [ProviderMessages -> Rows]
    /\ state \in [ProviderMessages -> StateRows]
    /\ delivery \in [Events -> DeliveryRows]
    /\ handler \in [Handlers ->
                      {Idle} \cup [pc : HandlerSteps \ {"idle"}, event : Events]]
    /\ rec \in [Reconcilers ->
                  {Idle} \cup [pc : {"update", "insert"}, report : Reports]]
    /\ own \in [ProviderMessages -> {"accepted", "recorded", "refused"}]
    /\ acked \subseteq Events
    /\ demoted \subseteq ProviderMessages
    /\ overran \in BOOLEAN
    /\ faults \in 0..MaxFaults

-----------------------------------------------------------------------------
(* Helpers *)

At(h, pc) == handler[h].pc = pc
Goto(h, pc) == handler' = [handler EXCEPT ![h].pc = pc]
Leave(h) == handler' = [handler EXCEPT ![h] = Idle]

Event(h) == handler[h].event
About(h) == Event(h).about

Exists(p) == row[p].status # None

(* A handler past the claim of its delivery. *)
Working(h) == ~At(h, "idle") /\ ~At(h, "select") /\ ~At(h, "takeover")

Fault == faults < MaxFaults /\ faults' = faults + 1

(* A detail the provider may answer with at any time. *)
Details(p) == {x.status : x \in {y \in Events \cup Reports : y.about = p}}

-----------------------------------------------------------------------------
(* Claim of a delivery *)

(* INSERT ... ON CONFLICT DO NOTHING. *)
Receive(h, e) ==
    /\ At(h, "idle")
    /\ LET fresh == delivery[e].status = None IN
         /\ handler' = [handler EXCEPT ![h] =
                          [pc |-> IF fresh THEN "find" ELSE "select", event |-> e]]
         /\ delivery' = IF fresh
                        THEN [delivery EXCEPT ![e] =
                                [status |-> "processing", lock |-> "live"]]
                        ELSE delivery
    /\ UNCHANGED <<row, state, rec, own, acked, faults, demoted, overran>>

(* A settled delivery is answered as a duplicate. *)
AnswerDuplicate(h) ==
    /\ At(h, "select")
    /\ delivery[Event(h)].status = "succeeded"
    /\ acked' = acked \cup {Event(h)}
    /\ Leave(h)
    /\ UNCHANGED <<row, state, delivery, rec, own, faults, demoted, overran>>

FindUnsettled(h) ==
    /\ At(h, "select")
    /\ delivery[Event(h)].status # "succeeded"
    /\ Goto(h, "takeover")
    /\ UNCHANGED <<row, state, delivery, rec, own, acked, faults, demoted, overran>>

(* Mutant: only a failed delivery is taken over, a stale lock never. *)
ClaimableIfFailed(d) == d.status = "failed"

(* The WHERE of the takeover, which a settled delivery meets as well. *)
Claimable(d) == d.status = "failed" \/ d.lock # "live"

TakeOver(h) ==
    /\ At(h, "takeover")
    /\ Claimable(delivery[Event(h)])
    /\ delivery' = [delivery EXCEPT ![Event(h)] =
                      [status |-> "processing", lock |-> "live"]]
    /\ Goto(h, "find")
    /\ UNCHANGED <<row, state, rec, own, acked, faults, demoted, overran>>

(* WEBHOOK_BUSY *)
AnswerBusy(h) ==
    /\ At(h, "takeover")
    /\ ~Claimable(delivery[Event(h)])
    /\ Leave(h)
    /\ UNCHANGED <<row, state, delivery, rec, own, acked, faults, demoted, overran>>

-----------------------------------------------------------------------------
(* findOrImport *)

FindKnown(h) ==
    /\ At(h, "find")
    /\ Exists(About(h))
    /\ row' = [row EXCEPT ![About(h)].domain = TRUE]
    /\ Goto(h, "apply")
    /\ UNCHANGED <<state, delivery, rec, own, acked, faults, demoted, overran>>

FindUnknown(h) ==
    /\ At(h, "find")
    /\ ~Exists(About(h))
    /\ Goto(h, "lock")
    /\ UNCHANGED <<row, state, delivery, rec, own, acked, faults, demoted, overran>>

(* Mutant: the import lock is taken without looking at its expiry. *)
LockableAlways(s) == ~s.there \/ ~s.linked

Lockable(s) == ~s.there \/ (~s.linked /\ (s.token = None \/ ~s.live))

(* A new row takes the event's position before its message exists. *)
LockImport(h) ==
    LET s == state[About(h)] IN
    /\ At(h, "lock")
    /\ Lockable(s)
    /\ state' = [state EXCEPT ![About(h)] =
                   [s EXCEPT !.there = TRUE,
                             !.at = IF s.there THEN @ ELSE Position(Event(h)),
                             !.token = h,
                             !.live = TRUE]]
    /\ Goto(h, "import")
    /\ UNCHANGED <<row, delivery, rec, own, acked, faults, demoted, overran>>

ImportLocked(h) ==
    /\ At(h, "lock")
    /\ ~Lockable(state[About(h)])
    /\ Goto(h, "reread")
    /\ UNCHANGED <<row, state, delivery, rec, own, acked, faults, demoted, overran>>

(* Linked meanwhile: go on; else PROVIDER_IMPORT_BUSY. *)
Reread(h) ==
    /\ At(h, "reread")
    /\ Goto(h, IF state[About(h)].linked /\ row[About(h)].domain
               THEN "apply" ELSE "fail")
    /\ UNCHANGED <<row, state, delivery, rec, own, acked, faults, demoted, overran>>

(* sync.getMessage and resolveDomain(..., true); a provider that does not    *)
(* answer and a domain that is not bound to the connection are CallFails.    *)
FetchDetail(h) ==
    /\ At(h, "import")
    /\ Goto(h, "insert")
    /\ UNCHANGED <<row, state, delivery, rec, own, acked, faults, demoted, overran>>

(* The batch: the message, and its link if the lock is still ours. *)
InsertMessage(h) ==
    LET p == About(h) IN
    /\ At(h, "insert")
    /\ ~Exists(p)
    /\ \E d \in Details(p) : row' = [row EXCEPT ![p] = [status |-> d, domain |-> TRUE]]
    /\ state' = IF state[p].token = h
                THEN [state EXCEPT ![p].linked = TRUE, ![p].token = None,
                                   ![p].live = FALSE]
                ELSE state
    /\ Goto(h, "apply")
    /\ UNCHANGED <<delivery, rec, own, acked, faults, demoted, overran>>

(* UNIQUE refuses the batch; the row that won is read and used. *)
InsertRaced(h) ==
    /\ At(h, "insert")
    /\ Exists(About(h))
    /\ Goto(h, "apply")
    /\ UNCHANGED <<row, state, delivery, rec, own, acked, faults, demoted, overran>>

-----------------------------------------------------------------------------
(* applyStatus, and the end of a request *)

(* Mutant: the upsert has lost its WHERE, the last event wins. *)
ApplyStatusLatest(h) ==
    LET e == Event(h)
        p == About(h)
    IN
    /\ At(h, "apply")
    /\ state' = [state EXCEPT ![p].there = TRUE, ![p].at = Position(e),
                              ![p].linked = TRUE]
    /\ row' = [row EXCEPT ![p].status = e.status]
    /\ Goto(h, "finish")
    /\ UNCHANGED <<delivery, rec, own, acked, faults, demoted, overran>>

(* Mutant: the message is updated whether or not the position moved. *)
ApplyStatusAlways(h) ==
    LET e == Event(h)
        p == About(h)
        s == state[p]
    IN
    /\ At(h, "apply")
    /\ state' = [state EXCEPT ![p] =
                   IF ShouldApply(s.at, Position(e))
                   THEN [s EXCEPT !.there = TRUE, !.at = Position(e), !.linked = TRUE]
                   ELSE s]
    /\ row' = [row EXCEPT ![p].status = e.status]
    /\ Goto(h, "finish")
    /\ UNCHANGED <<delivery, rec, own, acked, faults, demoted, overran>>

ApplyStatus(h) ==
    LET e == Event(h)
        p == About(h)
        s == state[p]
    IN
    /\ At(h, "apply")
    /\ state' = [state EXCEPT ![p] =
                   IF ShouldApply(s.at, Position(e))
                   THEN [s EXCEPT !.there = TRUE, !.at = Position(e), !.linked = TRUE]
                   ELSE s]
    /\ row' = IF state'[p].at = Position(e)
              THEN [row EXCEPT ![p].status = e.status]
              ELSE row
    /\ Goto(h, "finish")
    /\ UNCHANGED <<delivery, rec, own, acked, faults, demoted, overran>>

(* The last batch: the audit row (not modelled) and the settled delivery,    *)
(* whoever holds its lock by now.                                           *)
Finish(h) ==
    /\ At(h, "finish")
    /\ delivery' = [delivery EXCEPT ![Event(h)] =
                      [status |-> "succeeded", lock |-> None]]
    /\ acked' = acked \cup {Event(h)}
    /\ Leave(h)
    /\ UNCHANGED <<row, state, rec, own, faults, demoted, overran>>

(* Mutant: the failed delivery keeps its lock. *)
MarkFailedLocked(h) ==
    /\ At(h, "fail")
    /\ delivery' = [delivery EXCEPT ![Event(h)].status = "failed"]
    /\ Leave(h)
    /\ UNCHANGED <<row, state, rec, own, acked, faults, demoted, overran>>

(* catch (error): the delivery is failed, whoever holds its lock by now. *)
MarkFailed(h) ==
    /\ At(h, "fail")
    /\ delivery' = [delivery EXCEPT ![Event(h)] =
                      [status |-> "failed", lock |-> None]]
    /\ Leave(h)
    /\ UNCHANGED <<row, state, rec, own, acked, faults, demoted, overran>>

(* A call to D1 or to the provider throws, or a check of its answer does. *)
CallFails(h) ==
    /\ Working(h)
    /\ ~At(h, "fail")
    /\ Fault
    /\ Goto(h, "fail")
    /\ UNCHANGED <<row, state, delivery, rec, own, acked, demoted, overran>>

(* The invocation ends where it stands; its locks stay. *)
Crash(h) ==
    /\ Working(h)
    /\ Fault
    /\ Leave(h)
    /\ UNCHANGED <<row, state, delivery, rec, own, acked, demoted, overran>>

-----------------------------------------------------------------------------
(* Reconciliation of one listed message *)

(* The SELECT of reconcileMessage; an older report is skipped at once, and   *)
(* so is an unknown message whose sender is no mailbox of a bound domain.    *)
ReconcileKnown(r, x) ==
    /\ rec[r] = Idle
    /\ Exists(x.about)
    /\ ShouldApply(state[x.about].at, Position(x))
    /\ rec' = [rec EXCEPT ![r] = [pc |-> "update", report |-> x]]
    /\ UNCHANGED <<row, state, delivery, handler, own, acked, faults, demoted, overran>>

ReconcileUnknown(r, x) ==
    /\ rec[r] = Idle
    /\ ~Exists(x.about)
    /\ rec' = [rec EXCEPT ![r] = [pc |-> "insert", report |-> x]]
    /\ UNCHANGED <<row, state, delivery, handler, own, acked, faults, demoted, overran>>

(* The batch writes what was decided on the position read before. *)
ReconcileUpdate(r) ==
    LET x == rec[r].report
        s == state[x.about]
    IN
    /\ rec[r].pc = "update"
    /\ row' = [row EXCEPT ![x.about].status = x.status]
    /\ state' = [state EXCEPT ![x.about] =
                   [s EXCEPT !.there = TRUE, !.at = Position(x),
                             !.linked = @ \/ ~s.there]]
    /\ demoted' = IF ShouldApply(s.at, Position(x))
                  THEN demoted ELSE demoted \cup {x.about}
    /\ rec' = [rec EXCEPT ![r] = Idle]
    /\ UNCHANGED <<delivery, handler, own, acked, faults, overran>>

(* The batch inserts message and state, or breaks a key and is counted as    *)
(* failed.                                                                   *)
ReconcileInsert(r) ==
    LET x == rec[r].report IN
    /\ rec[r].pc = "insert"
    /\ rec' = [rec EXCEPT ![r] = Idle]
    /\ IF ~Exists(x.about) /\ ~state[x.about].there
       THEN /\ row' = [row EXCEPT ![x.about] = [status |-> x.status, domain |-> TRUE]]
            /\ state' = [state EXCEPT ![x.about] =
                           [NoState EXCEPT !.there = TRUE, !.at = Position(x),
                                           !.linked = TRUE]]
       ELSE UNCHANGED <<row, state>>
    /\ UNCHANGED <<delivery, handler, own, acked, faults, demoted, overran>>

-----------------------------------------------------------------------------
(* The outbound pipeline and the clocks *)

(* The success batch writes provider_message_id (for a message that was not *)
(* sent from here it never does) ...                                        *)
RecordSent(p) ==
    /\ own[p] = "accepted"
    /\ ~Exists(p)
    /\ row' = [row EXCEPT ![p] = [status |-> "sent", domain |-> FALSE]]
    /\ own' = [own EXCEPT ![p] = "recorded"]
    /\ UNCHANGED <<state, delivery, handler, rec, acked, faults, demoted, overran>>

(* ... which UNIQUE refuses once the message was imported.  Every retry asks *)
(* the provider under the same idempotency key and is refused again.         *)
RecordRefused(p) ==
    /\ own[p] = "accepted"
    /\ Exists(p)
    /\ own' = [own EXCEPT ![p] = "refused"]
    /\ UNCHANGED <<row, state, delivery, handler, rec, acked, faults, demoted, overran>>

(* Time passes lock_expires_at, of a claim whose owner is gone or slow. *)
DeliveryLockExpires(e) ==
    /\ delivery[e].lock = "live"
    /\ IF \E h \in Handlers : Working(h) /\ Event(h) = e
       THEN Fault /\ overran' = TRUE
       ELSE UNCHANGED <<faults, overran>>
    /\ delivery' = [delivery EXCEPT ![e].lock = "expired"]
    /\ UNCHANGED <<row, state, handler, rec, own, acked, demoted>>

ImportLockExpires(p) ==
    /\ state[p].live
    /\ IF \E h \in Handlers : state[p].token = h /\ (At(h, "import") \/ At(h, "insert"))
       THEN Fault /\ overran' = TRUE
       ELSE UNCHANGED <<faults, overran>>
    /\ state' = [state EXCEPT ![p].live = FALSE]
    /\ UNCHANGED <<row, delivery, handler, rec, own, acked, demoted>>

-----------------------------------------------------------------------------
Init ==
    /\ row = [p \in ProviderMessages |-> NoRow]
    /\ state = [p \in ProviderMessages |-> NoState]
    /\ delivery = [e \in Events |-> NoDelivery]
    /\ handler = [h \in Handlers |-> Idle]
    /\ rec = [r \in Reconcilers |-> Idle]
    /\ own = [p \in ProviderMessages |-> "accepted"]
    /\ acked = {}
    /\ demoted = {}
    /\ overran = FALSE
    /\ faults = 0

HandlerStep(h) ==
    \/ AnswerDuplicate(h) \/ FindUnsettled(h) \/ TakeOver(h) \/ AnswerBusy(h)
    \/ FindKnown(h) \/ FindUnknown(h)
    \/ LockImport(h) \/ ImportLocked(h) \/ Reread(h)
    \/ FetchDetail(h) \/ InsertMessage(h) \/ InsertRaced(h)
    \/ ApplyStatus(h) \/ Finish(h) \/ MarkFailed(h)

ReconcilerStep(r) ==
    \/ \E x \in Reports : ReconcileKnown(r, x) \/ ReconcileUnknown(r, x)
    \/ ReconcileUpdate(r) \/ ReconcileInsert(r)

Next ==
    \/ \E h \in Handlers :
         \/ \E e \in Events : Receive(h, e)
         \/ HandlerStep(h)
         \/ CallFails(h)
         \/ Crash(h)
    \/ \E r \in Reconcilers : ReconcilerStep(r)
    \/ \E p \in ProviderMessages :
         RecordSent(p) \/ RecordRefused(p) \/ ImportLockExpires(p)
    \/ \E e \in Events : DeliveryLockExpires(e)

Spec == Init /\ [][Next]_vars

(* Fairness.  A request that runs goes on, time passes, and the provider     *)
(* delivers an event again until it is answered with 200 (strongly fair:     *)
(* new requests are always served, only the model bounds how many run).      *)
Fairness ==
    /\ \A h \in Handlers : WF_vars(HandlerStep(h))
    /\ \A e \in Events :
         /\ SF_vars(e \notin acked /\ \E h \in Handlers : Receive(h, e))
         /\ WF_vars(DeliveryLockExpires(e))
    /\ \A p \in ProviderMessages : WF_vars(ImportLockExpires(p))

FairSpec == Spec /\ Fairness

-----------------------------------------------------------------------------
(* Properties *)

(* Provider sync implements StatusRegister: whatever the interleaving of     *)
(* imports, takeovers and late handlers, an event moves the stored position  *)
(* forward or not at all, and is answered with 200 only once the position    *)
(* has reached it; only reconcileMessage may move it back.                   *)
Register == INSTANCE StatusRegister
                WITH stored <- [p \in ProviderMessages |-> state[p].at]
ImplementsRegister == Register!Spec

(* As long as no handler has outlasted its lock, no two handlers import one message:   *)
(* the provider is asked once, and the insert meets no twin of its own kind. *)
SoleImporter ==
    ~overran =>
        \A g, h \in Handlers :
            /\ At(g, "import") \/ At(g, "insert")
            /\ At(h, "import") \/ At(h, "insert")
            /\ About(g) = About(h)
            => g = h

(* Position and status are rows of two tables.  Once an event has been       *)
(* acknowledged, and as long as its position stands, the message shows the   *)
(* status of an event (or report) at that position, never the status some    *)
(* import or older event left there.                                         *)
StatusMatchesPosition ==
    \A e \in acked :
        state[e.about].at = Position(e) =>
            \E x \in Events \cup Reports :
                /\ x.about = e.about
                /\ Position(x) = Position(e)
                /\ row[x.about].status = x.status

(* Every event the provider delivers, again and again until it is answered,  *)
(* is acknowledged in the end, whatever failed on the way: no claim and no   *)
(* import lock that somebody left behind blocks it for ever.                 *)
EventuallyAcknowledged ==
    \A e \in Events :
        delivery[e].status # None ~> e \in acked

=============================================================================
