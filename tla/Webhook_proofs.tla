--------------------------- MODULE Webhook_proofs ---------------------------
(***************************************************************************)
(* Theorems about Webhook, for every set of events, reports, handlers and  *)
(* reconciliations: type correctness, that no two handlers import one      *)
(* message, that provider sync implements StatusRegister, and that the     *)
(* message shows the status of the position stored for it.                 *)
(***************************************************************************)
EXTENDS Webhook, TLAPS

USE BoundAssumption, HandlersAssumption

-----------------------------------------------------------------------------
(* The order of positions *)

(* An event has a time, so its position is not the missing one. *)
LEMMA EventPosition ==
    ASSUME NEW x \in Events \cup Reports
    PROVE  /\ Position(x) \in Positions
           /\ Position(x) # NoPosition
           /\ x.about \in ProviderMessages
           /\ x.status \in Statuses
  <1>1. x.about \in ProviderMessages /\ x.time \in Nat \ {0} /\ x.status \in Statuses
    BY FactsAssumption
  <1>2. statusRank[x.status] \in Nat
    BY <1>1 DEF statusRank, Statuses
  <1> QED
    BY <1>1, <1>2 DEF Position, Positions, NoPosition

(* What is past an event stays past it when the position moves forward. *)
LEMMA OrderTransitive ==
    ASSUME NEW a \in Positions, NEW b \in Positions, NEW c \in Positions,
           a # NoPosition, b # NoPosition, ShouldApply(a, b), ShouldApply(b, c)
    PROVE  ShouldApply(a, c)
  BY DEF ShouldApply, Positions

-----------------------------------------------------------------------------
(* Type correctness *)

HandlerRows == {Idle} \cup [pc : HandlerSteps \ {"idle"}, event : Events]

(* A handler that goes on keeps its event; the others stand still. *)
LEMMA Moves ==
    ASSUME TypeOK, NEW h \in Handlers, handler[h].pc # "idle",
           NEW s \in HandlerSteps \ {"idle"}, Goto(h, s)
    PROVE  /\ handler' \in [Handlers -> HandlerRows]
           /\ handler[h].event \in Events
           /\ handler'[h].pc = s
           /\ handler'[h].event = handler[h].event
           /\ \A g \in Handlers : g # h => handler'[g] = handler[g]
  <1>1. handler[h] \in [pc : HandlerSteps \ {"idle"}, event : Events]
    BY DEF TypeOK, Idle
  <1>2. [handler[h] EXCEPT !.pc = s] \in [pc : HandlerSteps \ {"idle"}, event : Events]
    BY <1>1
  <1>3. handler' = [handler EXCEPT ![h] = [handler[h] EXCEPT !.pc = s]]
    BY DEF Goto, TypeOK
  <1> QED
    BY <1>1, <1>2, <1>3 DEF TypeOK, HandlerRows

(* A handler that ends. *)
LEMMA Leaves ==
    ASSUME TypeOK, NEW h \in Handlers, Leave(h)
    PROVE  /\ handler' \in [Handlers -> HandlerRows]
           /\ handler'[h] = Idle
           /\ \A g \in Handlers : g # h => handler'[g] = handler[g]
  BY DEF Leave, TypeOK, HandlerRows

LEMMA EventTyped ==
    ASSUME TypeOK, NEW h \in Handlers, handler[h].pc # "idle"
    PROVE  /\ Event(h) \in Events
           /\ About(h) \in ProviderMessages
           /\ state[About(h)] \in StateRows
           /\ row[About(h)] \in Rows
           /\ delivery[Event(h)] \in DeliveryRows
  <1>1. Event(h) \in Events
    BY DEF TypeOK, Idle, Event
  <1> QED
    BY <1>1, EventPosition DEF TypeOK, About

LEMMA FaultTyped ==
    ASSUME TypeOK, Fault
    PROVE  faults' \in 0..MaxFaults
  BY DEF Fault, TypeOK

LEMMA TypeInit == Init => TypeOK
  <1> SUFFICES ASSUME Init PROVE TypeOK
    OBVIOUS
  <1>1. row \in [ProviderMessages -> Rows]
    BY DEF Init, NoRow, Rows
  <1>2. state \in [ProviderMessages -> StateRows]
    BY DEF Init, NoState, StateRows, NoPosition, Positions
  <1>3. delivery \in [Events -> DeliveryRows]
    BY DEF Init, NoDelivery, DeliveryRows
  <1>4. handler \in [Handlers -> HandlerRows]
    BY DEF Init, HandlerRows
  <1>5. rec \in [Reconcilers ->
                   {Idle} \cup [pc : {"update", "insert"}, report : Reports]]
    BY DEF Init
  <1>6. own \in [ProviderMessages -> {"accepted", "recorded", "refused"}]
    BY DEF Init
  <1>7. faults \in 0..MaxFaults
    BY DEF Init
  <1>8. acked \subseteq Events /\ demoted \subseteq ProviderMessages /\ overran \in BOOLEAN
    BY DEF Init
  <1> QED
    BY <1>1, <1>2, <1>3, <1>4, <1>5, <1>6, <1>7, <1>8 DEF TypeOK, HandlerRows

LEMMA TypeReceive ==
    ASSUME TypeOK, NEW h \in Handlers, NEW e \in Events, Receive(h, e)
    PROVE  TypeOK'
  <1>1. handler' \in [Handlers -> HandlerRows]
    BY DEF Receive, TypeOK, HandlerRows, HandlerSteps
  <1>2. delivery' \in [Events -> DeliveryRows]
    BY DEF Receive, TypeOK, DeliveryRows
  <1> QED
    BY <1>1, <1>2 DEF Receive, TypeOK, HandlerRows

LEMMA TypeHandler ==
    ASSUME TypeOK, NEW h \in Handlers, HandlerStep(h)
    PROVE  TypeOK'
  <1>0. handler[h].pc # "idle"
    BY DEF HandlerStep, At, AnswerDuplicate, FindUnsettled, TakeOver, AnswerBusy,
           FindKnown, FindUnknown, LockImport, ImportLocked, Reread, FetchDetail,
           InsertMessage, InsertRaced, ApplyStatus, Finish, MarkFailed
  <1>1. handler' \in [Handlers -> HandlerRows]
    <2>1. \/ Leave(h)
          \/ \E s \in HandlerSteps \ {"idle"} : Goto(h, s)
      BY DEF HandlerStep, HandlerSteps, AnswerDuplicate, FindUnsettled, TakeOver,
             AnswerBusy, FindKnown, FindUnknown, LockImport, ImportLocked, Reread,
             FetchDetail, InsertMessage, InsertRaced, ApplyStatus, Finish, MarkFailed
    <2> QED
      BY <1>0, <2>1, Moves, Leaves
  <1>2. Event(h) \in Events /\ About(h) \in ProviderMessages
    BY <1>0, EventTyped
  <1>3. state[About(h)] \in StateRows /\ row[About(h)] \in Rows
    BY <1>0, EventTyped
  <1>4. Position(Event(h)) \in Positions /\ Event(h).status \in Statuses
    BY <1>2, EventPosition
  <1>5. delivery' \in [Events -> DeliveryRows]
    BY <1>2
    DEF TypeOK, DeliveryRows, HandlerStep, AnswerDuplicate, FindUnsettled, TakeOver,
        AnswerBusy, FindKnown, FindUnknown, LockImport, ImportLocked, Reread,
        FetchDetail, InsertMessage, InsertRaced, ApplyStatus, Finish, MarkFailed
  <1>6. state' \in [ProviderMessages -> StateRows]
    <2>1. CASE LockImport(h)
      <3>1. [state[About(h)] EXCEPT
               !.there = TRUE,
               !.at = IF state[About(h)].there THEN @ ELSE Position(Event(h)),
               !.token = h, !.live = TRUE] \in StateRows
        BY <1>3, <1>4 DEF StateRows
      <3> QED
        BY <2>1, <1>2, <3>1 DEF LockImport, TypeOK
    <2>2. CASE InsertMessage(h)
      <3>1. [state[About(h)] EXCEPT !.linked = TRUE, !.token = None, !.live = FALSE]
              \in StateRows
        BY <1>3 DEF StateRows
      <3>2. state' = state \/
            state' = [state EXCEPT ![About(h)] =
              [state[About(h)] EXCEPT !.linked = TRUE, !.token = None, !.live = FALSE]]
        BY <2>2 DEF InsertMessage, TypeOK
      <3> QED
        BY <1>2, <3>1, <3>2 DEF TypeOK
    <2>3. CASE ApplyStatus(h)
      <3>1. [state[About(h)] EXCEPT !.there = TRUE, !.at = Position(Event(h)),
                                    !.linked = TRUE] \in StateRows
        BY <1>3, <1>4 DEF StateRows
      <3> QED
        BY <2>3, <1>2, <1>3, <3>1 DEF ApplyStatus, TypeOK
    <2>4. CASE UNCHANGED state
      BY <2>4 DEF TypeOK
    <2> QED
      BY <2>1, <2>2, <2>3, <2>4
      DEF HandlerStep, AnswerDuplicate, FindUnsettled, TakeOver, AnswerBusy,
          FindKnown, FindUnknown, ImportLocked, Reread, FetchDetail, InsertRaced,
          Finish, MarkFailed
  <1>7. row' \in [ProviderMessages -> Rows]
    <2>1. CASE FindKnown(h)
      BY <2>1, <1>2, <1>3 DEF FindKnown, TypeOK, Rows
    <2>2. CASE InsertMessage(h)
      <3>1. Details(About(h)) \subseteq Statuses
        BY EventPosition DEF Details
      <3> QED
        BY <2>2, <1>2, <3>1 DEF InsertMessage, TypeOK, Rows
    <2>3. CASE ApplyStatus(h)
      <3>1. row' = row \/ row' = [row EXCEPT ![About(h)].status = Event(h).status]
        BY <2>3 DEF ApplyStatus
      <3> QED
        BY <1>2, <1>3, <1>4, <3>1 DEF TypeOK, Rows
    <2>4. CASE UNCHANGED row
      BY <2>4 DEF TypeOK
    <2> QED
      BY <2>1, <2>2, <2>3, <2>4
      DEF HandlerStep, AnswerDuplicate, FindUnsettled, TakeOver, AnswerBusy,
          FindUnknown, LockImport, ImportLocked, Reread, FetchDetail, InsertRaced,
          Finish, MarkFailed
  <1>8. /\ acked' \subseteq Events
        /\ UNCHANGED <<rec, own, demoted, overran, faults>>
    BY <1>2
    DEF TypeOK, HandlerStep, AnswerDuplicate, FindUnsettled, TakeOver, AnswerBusy,
        FindKnown, FindUnknown, LockImport, ImportLocked, Reread, FetchDetail,
        InsertMessage, InsertRaced, ApplyStatus, Finish, MarkFailed
  <1> QED
    BY <1>1, <1>5, <1>6, <1>7, <1>8 DEF TypeOK, HandlerRows

LEMMA TypeReconciler ==
    ASSUME TypeOK, NEW r \in Reconcilers, ReconcilerStep(r)
    PROVE  TypeOK'
  <1>1. CASE \E x \in Reports : ReconcileKnown(r, x) \/ ReconcileUnknown(r, x)
    BY <1>1 DEF ReconcileKnown, ReconcileUnknown, TypeOK
  <1>2. CASE ReconcileUpdate(r)
    <2> DEFINE x == rec[r].report
               p == x.about
    <2>1. x \in Reports
      BY <1>2 DEF ReconcileUpdate, TypeOK, Idle
    <2>2. p \in ProviderMessages /\ Position(x) \in Positions /\ x.status \in Statuses
      BY <2>1, EventPosition
    <2>3. /\ [row[p] EXCEPT !.status = x.status] \in Rows
          /\ [state[p] EXCEPT !.there = TRUE, !.at = Position(x),
                              !.linked = @ \/ ~state[p].there] \in StateRows
      <3> HIDE DEF p, x
      <3>1. row[p] \in Rows /\ state[p] \in StateRows
        BY <2>2 DEF TypeOK
      <3>2. [row[p] EXCEPT !.status = x.status] \in Rows
        BY <2>2, <3>1 DEF Rows
      <3>3. (state[p].linked \/ ~state[p].there) \in BOOLEAN
        OBVIOUS
      <3>4. [state[p] EXCEPT !.there = TRUE, !.at = Position(x),
                             !.linked = @ \/ ~state[p].there] \in StateRows
        BY <2>2, <3>1, <3>3 DEF StateRows
      <3> QED
        BY <3>2, <3>4
    <2>4. row' \in [ProviderMessages -> Rows]
      BY <1>2, <2>2, <2>3 DEF ReconcileUpdate, TypeOK
    <2>5. state' \in [ProviderMessages -> StateRows]
      BY <1>2, <2>2, <2>3 DEF ReconcileUpdate, TypeOK
    <2>6. /\ demoted' \subseteq ProviderMessages
          /\ rec' \in [Reconcilers -> {Idle} \cup [pc : {"update", "insert"}, report : Reports]]
      BY <1>2, <2>2 DEF ReconcileUpdate, TypeOK
    <2> QED
      BY <1>2, <2>4, <2>5, <2>6 DEF ReconcileUpdate, TypeOK
  <1>3. CASE ReconcileInsert(r)
    <2> DEFINE x == rec[r].report
               p == x.about
               inserted == [NoState EXCEPT !.there = TRUE, !.at = Position(x), !.linked = TRUE]
    <2>1. x \in Reports
      BY <1>3 DEF ReconcileInsert, TypeOK, Idle
    <2>2. p \in ProviderMessages /\ Position(x) \in Positions /\ x.status \in Statuses
      BY <2>1, EventPosition
    <2>3. inserted \in StateRows /\ [status |-> x.status, domain |-> TRUE] \in Rows
      BY <2>2 DEF NoState, StateRows, Rows
    <2>4. \/ UNCHANGED <<row, state>>
          \/ /\ row' = [row EXCEPT ![p] = [status |-> x.status, domain |-> TRUE]]
             /\ state' = [state EXCEPT ![p] = inserted]
      BY <1>3 DEF ReconcileInsert
    <2>5. row' \in [ProviderMessages -> Rows] /\ state' \in [ProviderMessages -> StateRows]
      <3> HIDE DEF inserted
      <3> QED
        BY <2>2, <2>3, <2>4 DEF TypeOK
    <2>6. rec' \in [Reconcilers -> {Idle} \cup [pc : {"update", "insert"}, report : Reports]]
      BY <1>3 DEF ReconcileInsert, TypeOK
    <2> QED
      BY <1>3, <2>5, <2>6 DEF ReconcileInsert, TypeOK
  <1> QED
    BY <1>1, <1>2, <1>3 DEF ReconcilerStep

LEMMA TypeStep == TypeOK /\ [Next]_vars => TypeOK'
  <1> SUFFICES ASSUME TypeOK, [Next]_vars PROVE TypeOK'
    OBVIOUS
  <1>1. CASE \E h \in Handlers, e \in Events : Receive(h, e)
    BY <1>1, TypeReceive
  <1>2. CASE \E h \in Handlers : HandlerStep(h)
    BY <1>2, TypeHandler
  <1>3. CASE \E h \in Handlers : CallFails(h) \/ Crash(h)
    <2>1. PICK h \in Handlers : CallFails(h) \/ Crash(h)
      BY <1>3
    <2>2. handler' \in [Handlers -> HandlerRows]
      <3>1. CASE CallFails(h)
        BY <3>1, Moves DEF CallFails, Working, At, HandlerSteps
      <3>2. CASE Crash(h)
        BY <3>2, Leaves DEF Crash
      <3> QED
        BY <2>1, <3>1, <3>2
    <2> QED
      BY <2>1, <2>2, FaultTyped DEF CallFails, Crash, TypeOK, HandlerRows
  <1>4. CASE \E r \in Reconcilers : ReconcilerStep(r)
    BY <1>4, TypeReconciler
  <1>5. CASE \E p \in ProviderMessages : RecordSent(p) \/ RecordRefused(p)
    <2>1. [status |-> "sent", domain |-> FALSE] \in Rows
      BY DEF Rows, Statuses
    <2> QED
      BY <1>5, <2>1 DEF RecordSent, RecordRefused, TypeOK
  <1>6. CASE \E p \in ProviderMessages : ImportLockExpires(p)
    <2>1. PICK p \in ProviderMessages : ImportLockExpires(p)
      BY <1>6
    <2>2. [state[p] EXCEPT !.live = FALSE] \in StateRows
      <3>1. state[p] \in StateRows
        BY DEF TypeOK
      <3> QED
        BY <3>1 DEF StateRows
    <2>3. state' \in [ProviderMessages -> StateRows]
      BY <2>1, <2>2 DEF ImportLockExpires, TypeOK
    <2>4. overran' \in BOOLEAN /\ faults' \in 0..MaxFaults
      BY <2>1, FaultTyped DEF ImportLockExpires, TypeOK
    <2> QED
      BY <2>1, <2>3, <2>4 DEF ImportLockExpires, TypeOK
  <1>7. CASE \E e \in Events : DeliveryLockExpires(e)
    <2>1. PICK e \in Events : DeliveryLockExpires(e)
      BY <1>7
    <2>2. [delivery[e] EXCEPT !.lock = "expired"] \in DeliveryRows
      <3>1. "live" # None
        BY DEF None
      <3> QED
        BY <2>1, <3>1 DEF DeliveryLockExpires, TypeOK, DeliveryRows
    <2>3. delivery' \in [Events -> DeliveryRows]
      BY <2>1, <2>2 DEF DeliveryLockExpires, TypeOK
    <2>4. overran' \in BOOLEAN /\ faults' \in 0..MaxFaults
      BY <2>1, FaultTyped DEF DeliveryLockExpires, TypeOK
    <2> QED
      BY <2>1, <2>3, <2>4 DEF DeliveryLockExpires, TypeOK
  <1>8. CASE UNCHANGED vars
    BY <1>8 DEF vars, TypeOK
  <1> QED
    BY <1>1, <1>2, <1>3, <1>4, <1>5, <1>6, <1>7, <1>8 DEF Next

(* Every reachable state is of the declared types, so no handler uses an     *)
(* event it does not have and no row takes a value outside its columns.      *)
THEOREM TypeCorrect == Spec => []TypeOK
  BY TypeInit, TypeStep, PTL DEF Spec

-----------------------------------------------------------------------------
(* One importer at a time.  The lock of a message is what keeps importers    *)
(* apart: as long as no handler outlasts it, a handler between the lock and  *)
(* the insert holds the live lock of its message, and live locks belong to   *)
(* rows that exist, so nobody finds the row missing or the lock stale.       *)
Importing(h) == At(h, "import") \/ At(h, "insert")

LiveLocksExist == \A p \in ProviderMessages : state[p].live => state[p].there

ImportersHoldLocks ==
    ~overran => \A h \in Handlers :
        Importing(h) => state[About(h)].token = h /\ state[About(h)].live

ImportInv == TypeOK /\ LiveLocksExist /\ ImportersHoldLocks

(* A handler enters the import by taking the lock, and by nothing else. *)
LEMMA EntersByLock ==
    ASSUME TypeOK, Next, NEW g \in Handlers, Importing(g)'
    PROVE  \/ LockImport(g)
           \/ /\ Importing(g)
              /\ handler'[g].event = handler[g].event
  <1>1. CASE UNCHANGED handler
    BY <1>1 DEF Importing, At
  <1>2. CASE \E h \in Handlers, e \in Events : Receive(h, e)
    <2>1. PICK h \in Handlers, e \in Events : Receive(h, e)
      BY <1>2
    <2>2. handler'[h].pc \in {"find", "select"}
      BY <2>1 DEF Receive, TypeOK
    <2>3. g # h => handler'[g] = handler[g]
      BY <2>1 DEF Receive, TypeOK
    <2> QED
      BY <2>2, <2>3 DEF Importing, At
  <1>3. CASE \E h \in Handlers : HandlerStep(h) \/ CallFails(h) \/ Crash(h)
    <2>1. PICK h \in Handlers : HandlerStep(h) \/ CallFails(h) \/ Crash(h)
      BY <1>3
    <2>2. \/ LockImport(h)
          \/ FetchDetail(h)
          \/ Leave(h)
          \/ \E s \in HandlerSteps \ {"idle", "import", "insert"} : Goto(h, s)
      BY <2>1
      DEF HandlerStep, HandlerSteps, AnswerDuplicate, FindUnsettled, TakeOver,
          AnswerBusy, FindKnown, FindUnknown, ImportLocked, Reread, InsertMessage,
          InsertRaced, ApplyStatus, Finish, MarkFailed, CallFails, Crash
    <2>3. handler[h].pc # "idle"
      BY <2>1
      DEF HandlerStep, At, Working, AnswerDuplicate, FindUnsettled, TakeOver,
          AnswerBusy, FindKnown, FindUnknown, LockImport, ImportLocked, Reread,
          FetchDetail, InsertMessage, InsertRaced, ApplyStatus, Finish, MarkFailed,
          CallFails, Crash
    <2>4. CASE LockImport(h)
      <3>1. Goto(h, "import")
        BY <2>4 DEF LockImport
      <3>2. g # h => handler'[g] = handler[g]
        BY <2>3, <3>1, Moves DEF HandlerSteps
      <3> QED
        BY <2>4, <3>2 DEF Importing, At
    <2>5. CASE FetchDetail(h)
      <3>1. At(h, "import") /\ Goto(h, "insert")
        BY <2>5 DEF FetchDetail
      <3>2. /\ g # h => handler'[g] = handler[g]
            /\ handler'[h].event = handler[h].event
        BY <2>3, <3>1, Moves DEF HandlerSteps
      <3> QED
        BY <3>1, <3>2 DEF Importing, At
    <2>6. CASE Leave(h)
      <3>1. /\ g # h => handler'[g] = handler[g]
            /\ handler'[h].pc = "idle"
        BY <2>6, Leaves DEF Idle
      <3> QED
        BY <3>1 DEF Importing, At
    <2>7. CASE \E s \in HandlerSteps \ {"idle", "import", "insert"} : Goto(h, s)
      <3>1. PICK s \in HandlerSteps \ {"idle", "import", "insert"} : Goto(h, s)
        BY <2>7
      <3>2. /\ g # h => handler'[g] = handler[g]
            /\ handler'[h].pc = s
        BY <2>3, <3>1, Moves
      <3> QED
        BY <3>1, <3>2 DEF Importing, At
    <2> QED
      BY <2>2, <2>4, <2>5, <2>6, <2>7
  <1> QED
    BY <1>1, <1>2, <1>3
    DEF Next, ReconcilerStep, ReconcileKnown, ReconcileUnknown, ReconcileUpdate,
        ReconcileInsert, RecordSent, RecordRefused, ImportLockExpires,
        DeliveryLockExpires

(* What a step may do to the lock of a message: leave it to its holder, take *)
(* it where it is free or stale, give it up after the insert, replace a row  *)
(* that did not exist, or let it run out.                                    *)
LEMMA LockMoves ==
    ASSUME TypeOK, Next, NEW p \in ProviderMessages
    PROVE  \/ /\ state'[p].token = state[p].token
              /\ state'[p].live = state[p].live
              /\ state[p].there => state'[p].there
           \/ \E h \in Handlers : /\ LockImport(h) /\ About(h) = p
                                  /\ state'[p].there /\ state'[p].live
                                  /\ state'[p].token = h
           \/ \E h \in Handlers : /\ InsertMessage(h) /\ About(h) = p
                                  /\ state[p].token = h /\ ~state'[p].live
           \/ ~state[p].there /\ ~state'[p].live
           \/ ImportLockExpires(p) /\ ~state'[p].live
  <1>1. CASE UNCHANGED state
    BY <1>1
  <1>2. CASE \E h \in Handlers : HandlerStep(h)
    <2>1. PICK h \in Handlers : HandlerStep(h)
      BY <1>2
    <2>2. CASE LockImport(h)
      <3>1. About(h) \in ProviderMessages /\ state[About(h)] \in StateRows
        BY <2>2, EventTyped DEF LockImport, At
      <3> QED
        BY <2>2, <3>1 DEF LockImport, TypeOK, StateRows
    <2>3. CASE InsertMessage(h)
      <3>1. About(h) \in ProviderMessages /\ state[About(h)] \in StateRows
        BY <2>3, EventTyped DEF InsertMessage, At
      <3> QED
        BY <2>3, <3>1 DEF InsertMessage, TypeOK, StateRows
    <2>4. CASE ApplyStatus(h)
      <3>1. About(h) \in ProviderMessages /\ state[About(h)] \in StateRows
        BY <2>4, EventTyped DEF ApplyStatus, At
      <3> QED
        BY <2>4, <3>1 DEF ApplyStatus, TypeOK, StateRows
    <2> QED
      BY <1>1, <2>1, <2>2, <2>3, <2>4
      DEF HandlerStep, AnswerDuplicate, FindUnsettled, TakeOver, AnswerBusy,
          FindKnown, FindUnknown, ImportLocked, Reread, FetchDetail, InsertRaced,
          Finish, MarkFailed
  <1>3. CASE \E r \in Reconcilers : ReconcilerStep(r)
    <2>1. PICK r \in Reconcilers : ReconcilerStep(r)
      BY <1>3
    <2>2. CASE ReconcileUpdate(r)
      BY <2>2 DEF ReconcileUpdate, TypeOK, StateRows
    <2>3. CASE ReconcileInsert(r)
      <3> DEFINE q == rec[r].report.about
      <3>1. CASE p = q /\ state' # state
        <4>1. ~state[p].there
          BY <2>3, <3>1 DEF ReconcileInsert
        <4>2. state' = [state EXCEPT ![p] = [NoState EXCEPT !.there = TRUE,
                           !.at = Position(rec[r].report), !.linked = TRUE]]
          BY <2>3, <3>1 DEF ReconcileInsert
        <4>3. ~state'[p].live
          BY <4>2 DEF TypeOK, NoState
        <4> QED
          BY <4>1, <4>3
      <3>2. CASE p # q /\ state' # state
        BY <2>3, <3>2 DEF ReconcileInsert, TypeOK
      <3> QED
        BY <1>1, <3>1, <3>2
    <2> QED
      BY <1>1, <2>1, <2>2, <2>3 DEF ReconcilerStep, ReconcileKnown, ReconcileUnknown
  <1>4. CASE \E q \in ProviderMessages : ImportLockExpires(q)
    <2>1. PICK q \in ProviderMessages : ImportLockExpires(q)
      BY <1>4
    <2>2. state' = [state EXCEPT ![q].live = FALSE] /\ state[p] \in StateRows
      BY <2>1 DEF ImportLockExpires, TypeOK
    <2>3. CASE p = q
      BY <2>1, <2>2, <2>3 DEF TypeOK, StateRows
    <2>4. CASE p # q
      BY <2>2, <2>4 DEF TypeOK
    <2> QED
      BY <2>3, <2>4
  <1> QED
    BY <1>1, <1>2, <1>3, <1>4
    DEF Next, Receive, CallFails, Crash, RecordSent, RecordRefused,
        DeliveryLockExpires

LEMMA ImportInit == Init => ImportInv
  BY TypeInit
  DEF Init, ImportInv, LiveLocksExist, ImportersHoldLocks, Importing, At, Idle, NoState

LEMMA ImportStep == ImportInv /\ [Next]_vars => ImportInv'
  <1> SUFFICES ASSUME ImportInv, [Next]_vars PROVE ImportInv'
    OBVIOUS
  <1>1. TypeOK /\ TypeOK'
    BY TypeStep DEF ImportInv
  <1>2. CASE UNCHANGED vars
    BY <1>1, <1>2
    DEF vars, ImportInv, LiveLocksExist, ImportersHoldLocks, Importing, At, About, Event
  <1>3. CASE Next
    <2>1. LiveLocksExist'
      BY <1>1, <1>3, LockMoves DEF ImportInv, LiveLocksExist
    <2>2. overran' \in BOOLEAN /\ (overran => overran')
      BY <1>1, <1>3
      DEF TypeOK, Next, Receive, HandlerStep, AnswerDuplicate, FindUnsettled, TakeOver,
          AnswerBusy, FindKnown, FindUnknown, LockImport, ImportLocked, Reread,
          FetchDetail, InsertMessage, InsertRaced, ApplyStatus, Finish, MarkFailed,
          CallFails, Crash, ReconcilerStep, ReconcileKnown, ReconcileUnknown,
          ReconcileUpdate, ReconcileInsert, RecordSent, RecordRefused,
          ImportLockExpires, DeliveryLockExpires
    <2>3. ASSUME ~overran', NEW g \in Handlers, Importing(g)'
          PROVE  state'[About(g)'].token = g /\ state'[About(g)'].live
      <3>1. CASE LockImport(g)
        <4>1. /\ About(g) \in ProviderMessages
              /\ state[About(g)] \in StateRows
              /\ handler[g].pc # "idle"
          BY <1>1, <3>1, EventTyped DEF LockImport, At
        <4>2. About(g)' = About(g)
          BY <1>1, <3>1, <4>1, Moves DEF LockImport, About, Event, HandlerSteps
        <4> QED
          BY <1>1, <3>1, <4>1, <4>2 DEF LockImport, TypeOK, StateRows
      <3>2. CASE ~LockImport(g)
        <4> DEFINE p == About(g)
        <4>1. Importing(g) /\ About(g)' = p
          BY <1>1, <1>3, <2>3, <3>2, EntersByLock DEF About, Event
        <4>2. p \in ProviderMessages
          BY <1>1, <4>1, EventTyped DEF Importing, At
        <4>3. state[p].token = g /\ state[p].live /\ state[p].there
          BY <2>2, <2>3, <4>1, <4>2 DEF ImportInv, ImportersHoldLocks, LiveLocksExist
        <4>4. g # None
          OBVIOUS
        <4>5. ~\E h \in Handlers : LockImport(h) /\ About(h) = p
          <5>1. ~Lockable(state[p])
            BY <4>3, <4>4 DEF Lockable
          <5> QED
            BY <5>1 DEF LockImport
        <4>6. ~InsertMessage(g)
          <5>1. InsertMessage(g) => ~Importing(g)'
            BY <1>1, Moves DEF InsertMessage, Importing, At, HandlerSteps
          <5> QED
            BY <2>3, <5>1
        <4>7. ~ImportLockExpires(p)
          BY <2>3, <4>1, <4>3 DEF ImportLockExpires, Importing
        <4>8. state'[p].token = state[p].token /\ state'[p].live = state[p].live
          <5> HIDE DEF p
          <5> QED
            BY <1>1, <1>3, <4>2, <4>3, <4>5, <4>6, <4>7, LockMoves
        <4> QED
          BY <4>1, <4>3, <4>8
      <3> QED
        BY <3>1, <3>2
    <2>4. ImportersHoldLocks'
      BY <2>3 DEF ImportersHoldLocks
    <2> QED
      BY <1>1, <2>1, <2>4 DEF ImportInv
  <1> QED
    BY <1>2, <1>3

(* However handlers overlap, fail, crash and come back, only one of them at  *)
(* a time fetches and inserts a provider message, as long as none of them    *)
(* has outlasted its lock (the import lock of findOrImport).                 *)
THEOREM OneImporter == Spec => []SoleImporter
  <1>1. ImportInv => SoleImporter
    BY DEF ImportInv, ImportersHoldLocks, SoleImporter, Importing
  <1> QED
    BY <1>1, ImportInit, ImportStep, PTL DEF Spec

-----------------------------------------------------------------------------
(* The refinement.  An event is acknowledged by Finish or AnswerDuplicate,   *)
(* so the invariant says that the position has reached the event of every    *)
(* handler that is about to finish and of every delivery that has succeeded, *)
(* unless a reconciliation has moved the message back since.                 *)
Reached(e) ==
    \/ /\ state[e.about].at # NoPosition
       /\ ShouldApply(Position(e), state[e.about].at)
    \/ e.about \in demoted

MissingHasNoPosition ==
    \A p \in ProviderMessages : ~state[p].there => state[p].at = NoPosition

FinishingReached == \A h \in Handlers : At(h, "finish") => Reached(Event(h))

SettledReached == \A e \in Events : delivery[e].status = "succeeded" => Reached(e)

RegisterInv ==
    TypeOK /\ MissingHasNoPosition /\ FinishingReached /\ SettledReached

(* The three ways in which the position of p may move in a step. *)
Stays(p) == state'[p].at = state[p].at

Applies(e) ==
    /\ ShouldApply(state[e.about].at, Position(e))
    /\ state'[e.about].at = Position(e)
    /\ \A q \in ProviderMessages : q # e.about => Stays(q)
    /\ UNCHANGED demoted

Reconciles(x) ==
    /\ state'[x.about].at = Position(x)
    /\ \A q \in ProviderMessages : q # x.about => Stays(q)
    /\ demoted' = IF ShouldApply(state[x.about].at, Position(x))
                  THEN demoted ELSE demoted \cup {x.about}

NothingMoves == (\A p \in ProviderMessages : Stays(p)) /\ UNCHANGED demoted

LEMMA ApplyMoves ==
    ASSUME TypeOK, NEW h \in Handlers, ApplyStatus(h)
    PROVE  /\ Event(h) \in Events
           /\ NothingMoves \/ Applies(Event(h))
           /\ MissingHasNoPosition => MissingHasNoPosition'
           /\ state'[About(h)].at # NoPosition
           /\ ShouldApply(Position(Event(h)), state'[About(h)].at)
  <1> DEFINE e == Event(h)
             p == About(h)
             s == state[p]
  <1>1. e \in Events /\ p \in ProviderMessages /\ s \in StateRows
    BY EventTyped DEF ApplyStatus, At
  <1>2. Position(e) \in Positions /\ Position(e) # NoPosition
    BY <1>1, EventPosition
  <1>3. state' = [state EXCEPT ![p] =
                   IF ShouldApply(s.at, Position(e))
                   THEN [s EXCEPT !.there = TRUE, !.at = Position(e), !.linked = TRUE]
                   ELSE s]
        /\ UNCHANGED demoted
    BY DEF ApplyStatus
  <1>4. p = e.about
    BY DEF About
  <1> HIDE DEF e, p
  <1>5. CASE ShouldApply(s.at, Position(e))
    <2>1. state'[p].at = Position(e) /\ state'[p].there
      BY <1>1, <1>3, <1>5 DEF TypeOK, StateRows
    <2>2. \A q \in ProviderMessages : q # p => state'[q] = state[q]
      BY <1>3 DEF TypeOK
    <2>3. ShouldApply(Position(e), Position(e))
      BY <1>2 DEF ShouldApply, Positions
    <2>4. Applies(e)
      BY <1>3, <1>4, <1>5, <2>1, <2>2 DEF Applies, Stays
    <2> QED
      BY <1>1, <1>2, <2>1, <2>2, <2>3, <2>4 DEF MissingHasNoPosition, e, p
  <1>6. CASE ~ShouldApply(s.at, Position(e))
    <2>1. state' = state
      BY <1>1, <1>3, <1>6 DEF TypeOK
    <2>2. s.at # NoPosition /\ ShouldApply(Position(e), s.at)
      BY <1>1, <1>2, <1>6 DEF ShouldApply, StateRows, Positions
    <2> QED
      BY <1>1, <1>3, <2>1, <2>2 DEF MissingHasNoPosition, NothingMoves, Stays, e, p
  <1> QED
    BY <1>5, <1>6

LEMMA LockPositions ==
    ASSUME TypeOK, MissingHasNoPosition, NEW h \in Handlers, LockImport(h)
    PROVE  /\ Event(h) \in Events
           /\ NothingMoves \/ Applies(Event(h))
           /\ MissingHasNoPosition'
  <1> DEFINE e == Event(h)
             p == About(h)
             s == state[p]
  <1>1. e \in Events /\ p \in ProviderMessages /\ s \in StateRows
    BY EventTyped DEF LockImport, At
  <1>2. state' = [state EXCEPT ![p] =
                   [s EXCEPT !.there = TRUE,
                             !.at = IF s.there THEN @ ELSE Position(e),
                             !.token = h,
                             !.live = TRUE]]
        /\ UNCHANGED demoted
    BY DEF LockImport
  <1>3. p = e.about
    BY DEF About
  <1> HIDE DEF e, p
  <1>4. /\ state'[p].there
        /\ state'[p].at = IF s.there THEN s.at ELSE Position(e)
    BY <1>1, <1>2 DEF TypeOK, StateRows
  <1>5. \A q \in ProviderMessages : q # p => state'[q] = state[q]
    BY <1>2 DEF TypeOK
  <1>6. MissingHasNoPosition'
    BY <1>4, <1>5 DEF MissingHasNoPosition
  <1>7. CASE s.there
    BY <1>1, <1>2, <1>4, <1>5, <1>6, <1>7 DEF NothingMoves, Stays, e
  <1>8. CASE ~s.there
    <2>1. ShouldApply(s.at, Position(e))
      BY <1>1, <1>8 DEF MissingHasNoPosition, ShouldApply
    <2> QED
      BY <1>1, <1>2, <1>3, <1>4, <1>5, <1>6, <1>8, <2>1 DEF Applies, Stays, e
  <1> QED
    BY <1>7, <1>8

LEMMA ReconcilePositions ==
    ASSUME TypeOK, MissingHasNoPosition, NEW r \in Reconcilers,
           ReconcileUpdate(r) \/ ReconcileInsert(r)
    PROVE  /\ NothingMoves \/ \E x \in Reports : Reconciles(x)
           /\ MissingHasNoPosition'
  <1> DEFINE x == rec[r].report
             p == x.about
             s == state[p]
  <1>1. x \in Reports
    BY DEF ReconcileUpdate, ReconcileInsert, TypeOK, Idle
  <1>2. p \in ProviderMessages /\ s \in StateRows
    BY <1>1, EventPosition DEF TypeOK
  <1>3. CASE ReconcileUpdate(r)
    <2>1. /\ state' = [state EXCEPT ![p] =
                        [s EXCEPT !.there = TRUE, !.at = Position(x),
                                  !.linked = @ \/ ~s.there]]
          /\ demoted' = IF ShouldApply(s.at, Position(x))
                        THEN demoted ELSE demoted \cup {p}
      BY <1>3 DEF ReconcileUpdate
    <2> HIDE DEF x
    <2>2. state'[p].there /\ state'[p].at = Position(x)
      BY <1>2, <2>1 DEF TypeOK, StateRows
    <2>3. \A q \in ProviderMessages : q # p => state'[q] = state[q]
      BY <1>2, <2>1 DEF TypeOK
    <2> QED
      BY <1>1, <2>1, <2>2, <2>3 DEF MissingHasNoPosition, Reconciles, Stays
  <1>4. CASE ReconcileInsert(r) /\ state' # state
    <2>1. /\ ~s.there
          /\ state' = [state EXCEPT ![p] = [NoState EXCEPT !.there = TRUE,
                         !.at = Position(x), !.linked = TRUE]]
          /\ UNCHANGED demoted
      BY <1>4 DEF ReconcileInsert
    <2> HIDE DEF x
    <2>2. state'[p].there /\ state'[p].at = Position(x)
      BY <1>2, <2>1 DEF TypeOK, NoState
    <2>3. \A q \in ProviderMessages : q # p => state'[q] = state[q]
      BY <1>2, <2>1 DEF TypeOK
    <2>4. ShouldApply(s.at, Position(x))
      BY <1>2, <2>1 DEF MissingHasNoPosition, ShouldApply
    <2> QED
      BY <1>1, <2>1, <2>2, <2>3, <2>4 DEF MissingHasNoPosition, Reconciles, Stays
  <1>5. CASE ReconcileInsert(r) /\ state' = state
    BY <1>5 DEF ReconcileInsert, NothingMoves, Stays, MissingHasNoPosition
  <1> QED
    BY <1>3, <1>4, <1>5

(* Every other statement leaves the positions alone. *)
LEMMA PositionMoves ==
    ASSUME TypeOK, MissingHasNoPosition, Next
    PROVE  /\ \/ NothingMoves
              \/ \E e \in Events : Applies(e)
              \/ \E x \in Reports : Reconciles(x)
           /\ MissingHasNoPosition'
  <1>1. CASE UNCHANGED <<state, demoted>>
    BY <1>1 DEF NothingMoves, Stays, MissingHasNoPosition
  <1>2. CASE \E h \in Handlers : HandlerStep(h)
    <2>1. PICK h \in Handlers : HandlerStep(h)
      BY <1>2
    <2>2. CASE InsertMessage(h)
      <3>1. About(h) \in ProviderMessages /\ state[About(h)] \in StateRows
        BY <2>2, EventTyped DEF InsertMessage, At
      <3>2. /\ \A q \in ProviderMessages :
                 state'[q].at = state[q].at /\ state'[q].there = state[q].there
            /\ UNCHANGED demoted
        BY <2>2, <3>1 DEF InsertMessage, TypeOK, StateRows
      <3> QED
        BY <3>2 DEF NothingMoves, Stays, MissingHasNoPosition
    <2> QED
      BY <1>1, <2>1, <2>2, ApplyMoves, LockPositions
      DEF HandlerStep, AnswerDuplicate, FindUnsettled, TakeOver, AnswerBusy,
          FindKnown, FindUnknown, ImportLocked, Reread, FetchDetail, InsertRaced,
          Finish, MarkFailed
  <1>3. CASE \E r \in Reconcilers : ReconcilerStep(r)
    BY <1>1, <1>3, ReconcilePositions
    DEF ReconcilerStep, ReconcileKnown, ReconcileUnknown
  <1>4. CASE \E q \in ProviderMessages : ImportLockExpires(q)
    <2>1. PICK q \in ProviderMessages : ImportLockExpires(q)
      BY <1>4
    <2>2. state' = [state EXCEPT ![q].live = FALSE] /\ UNCHANGED demoted
      BY <2>1 DEF ImportLockExpires
    <2>3. \A p \in ProviderMessages :
            state'[p].at = state[p].at /\ state'[p].there = state[p].there
      BY <2>2 DEF TypeOK, StateRows
    <2> QED
      BY <2>2, <2>3 DEF NothingMoves, Stays, MissingHasNoPosition
  <1> QED
    BY <1>1, <1>2, <1>3, <1>4
    DEF Next, Receive, CallFails, Crash, RecordSent, RecordRefused,
        DeliveryLockExpires

(* What has been reached stays reached. *)
LEMMA ReachedStays ==
    ASSUME TypeOK, TypeOK', MissingHasNoPosition, Next,
           NEW e \in Events, Reached(e)
    PROVE  Reached(e)'
  <1> DEFINE p == e.about
  <1>1. p \in ProviderMessages /\ Position(e) \in Positions /\ Position(e) # NoPosition
    BY EventPosition
  <1>2. state[p].at \in Positions
    BY <1>1 DEF TypeOK, StateRows
  <1>3. demoted \subseteq demoted'
    BY PositionMoves DEF NothingMoves, Applies, Reconciles
  <1>4. CASE e.about \in demoted
    BY <1>3, <1>4 DEF Reached
  <1>5. CASE e.about \notin demoted
    <2>1. state[p].at # NoPosition /\ ShouldApply(Position(e), state[p].at)
      BY <1>5 DEF Reached
    <2>2. CASE Stays(p)
      BY <2>1, <2>2 DEF Stays, Reached, Position
    <2>3. CASE \E x \in Events \cup Reports :
                 /\ x.about = p /\ state'[p].at = Position(x)
                 /\ ShouldApply(state[p].at, Position(x)) \/ p \in demoted'
      <3>1. PICK x \in Events \cup Reports :
                   /\ x.about = p /\ state'[p].at = Position(x)
                   /\ ShouldApply(state[p].at, Position(x)) \/ p \in demoted'
        BY <2>3
      <3>2. Position(x) \in Positions /\ Position(x) # NoPosition
        BY EventPosition
      <3>3. CASE ShouldApply(state[p].at, Position(x))
        <4>1. ShouldApply(Position(e), Position(x))
          BY <1>1, <1>2, <2>1, <3>2, <3>3, OrderTransitive
        <4> QED
          BY <3>1, <3>2, <4>1 DEF Reached, Position
      <3>4. CASE p \in demoted'
        BY <3>4 DEF Reached
      <3> QED
        BY <3>1, <3>3, <3>4
    <2> QED
      BY <1>1, <2>2, <2>3, PositionMoves DEF NothingMoves, Applies, Reconciles
  <1> QED
    BY <1>4, <1>5

-----------------------------------------------------------------------------
(* The invariant of the refinement is inductive *)

LEMMA RegisterInit == Init => RegisterInv
  <1> SUFFICES ASSUME Init PROVE RegisterInv
    OBVIOUS
  <1>1. TypeOK
    BY TypeInit
  <1>2. \A p \in ProviderMessages : state[p] = NoState
    BY DEF Init
  <1>3. \A h \in Handlers : handler[h] = Idle
    BY DEF Init
  <1>4. \A e \in Events : delivery[e] = NoDelivery
    BY DEF Init
  <1>5. MissingHasNoPosition
    BY <1>2 DEF MissingHasNoPosition, NoState
  <1>6. FinishingReached
    BY <1>3 DEF FinishingReached, At, Idle
  <1>7. SettledReached
    BY <1>4 DEF SettledReached, NoDelivery, None
  <1> QED
    BY <1>1, <1>5, <1>6, <1>7 DEF RegisterInv

(* A handler that is about to finish was so before, with the same event, or  *)
(* has just applied its status.                                              *)
LEMMA EntersFinish ==
    ASSUME TypeOK, Next, NEW h \in Handlers, At(h, "finish")'
    PROVE  ApplyStatus(h) \/ (At(h, "finish") /\ Event(h)' = Event(h))
  <1>1. CASE UNCHANGED handler
    BY <1>1 DEF At, Event
  <1>2. CASE \E g \in Handlers, e \in Events : Receive(g, e)
    <2>1. PICK g \in Handlers, e \in Events : Receive(g, e)
      BY <1>2
    <2>2. handler'[g].pc \in {"find", "select"}
      BY <2>1 DEF Receive, TypeOK
    <2>3. h # g => handler'[h] = handler[h]
      BY <2>1 DEF Receive, TypeOK
    <2> QED
      BY <2>2, <2>3 DEF At, Event
  <1>3. CASE \E g \in Handlers : HandlerStep(g) \/ CallFails(g) \/ Crash(g)
    <2>1. PICK g \in Handlers : HandlerStep(g) \/ CallFails(g) \/ Crash(g)
      BY <1>3
    <2>2. \/ ApplyStatus(g)
          \/ Leave(g)
          \/ \E s \in HandlerSteps \ {"idle", "finish"} : Goto(g, s)
      BY <2>1
      DEF HandlerStep, HandlerSteps, AnswerDuplicate, FindUnsettled, TakeOver,
          AnswerBusy, FindKnown, FindUnknown, LockImport, ImportLocked, Reread,
          FetchDetail, InsertMessage, InsertRaced, Finish, MarkFailed, CallFails,
          Crash
    <2>3. handler[g].pc # "idle"
      BY <2>1
      DEF HandlerStep, At, Working, AnswerDuplicate, FindUnsettled, TakeOver,
          AnswerBusy, FindKnown, FindUnknown, LockImport, ImportLocked, Reread,
          FetchDetail, InsertMessage, InsertRaced, ApplyStatus, Finish, MarkFailed,
          CallFails, Crash
    <2>4. CASE ApplyStatus(g)
      <3>1. Goto(g, "finish")
        BY <2>4 DEF ApplyStatus
      <3>2. h # g => handler'[h] = handler[h]
        BY <2>3, <3>1, Moves DEF HandlerSteps
      <3> QED
        BY <2>4, <3>2 DEF At, Event
    <2>5. CASE Leave(g)
      <3>1. /\ h # g => handler'[h] = handler[h]
            /\ handler'[g].pc = "idle"
        BY <2>5, Leaves DEF Idle
      <3> QED
        BY <3>1 DEF At, Event
    <2>6. CASE \E s \in HandlerSteps \ {"idle", "finish"} : Goto(g, s)
      <3>1. PICK s \in HandlerSteps \ {"idle", "finish"} : Goto(g, s)
        BY <2>6
      <3>2. /\ h # g => handler'[h] = handler[h]
            /\ handler'[g].pc = s
        BY <2>3, <3>1, Moves
      <3> QED
        BY <3>1, <3>2 DEF At, Event
    <2> QED
      BY <2>2, <2>4, <2>5, <2>6
  <1> QED
    BY <1>1, <1>2, <1>3
    DEF Next, ReconcilerStep, ReconcileKnown, ReconcileUnknown, ReconcileUpdate,
        ReconcileInsert, RecordSent, RecordRefused, ImportLockExpires,
        DeliveryLockExpires

(* Only a handler that finishes settles a delivery: its own.                 *)
LEMMA Settles ==
    ASSUME TypeOK, Next, NEW e \in Events,
           delivery'[e].status = "succeeded", delivery[e].status # "succeeded"
    PROVE  \E h \in Handlers : At(h, "finish") /\ Event(h) = e
  <1>1. CASE UNCHANGED delivery
    BY <1>1
  <1>2. CASE \E h \in Handlers, f \in Events : Receive(h, f)
    BY <1>2 DEF Receive, TypeOK
  <1>3. CASE \E h \in Handlers : TakeOver(h)
    BY <1>3 DEF TakeOver, TypeOK
  <1>4. CASE \E h \in Handlers : Finish(h)
    BY <1>4 DEF Finish, TypeOK
  <1>5. CASE \E h \in Handlers : MarkFailed(h)
    BY <1>5 DEF MarkFailed, TypeOK
  <1>6. CASE \E f \in Events : DeliveryLockExpires(f)
    <2>1. PICK f \in Events : DeliveryLockExpires(f)
      BY <1>6
    <2>2. delivery' = [delivery EXCEPT ![f].lock = "expired"]
      BY <2>1 DEF DeliveryLockExpires
    <2>3. delivery[e] \in DeliveryRows
      BY DEF TypeOK
    <2> QED
      BY <2>2, <2>3 DEF TypeOK, DeliveryRows
  <1> QED
    BY <1>1, <1>2, <1>3, <1>4, <1>5, <1>6
    DEF Next, HandlerStep, AnswerDuplicate, FindUnsettled, AnswerBusy, FindKnown,
        FindUnknown, LockImport, ImportLocked, Reread, FetchDetail, InsertMessage,
        InsertRaced, ApplyStatus, CallFails, Crash, ReconcilerStep, ReconcileKnown,
        ReconcileUnknown, ReconcileUpdate, ReconcileInsert, RecordSent,
        RecordRefused, ImportLockExpires

LEMMA RegisterStep == RegisterInv /\ [Next]_vars => RegisterInv'
  <1> SUFFICES ASSUME RegisterInv, [Next]_vars PROVE RegisterInv'
    OBVIOUS
  <1>1. TypeOK'
    BY TypeStep DEF RegisterInv
  <1>2. CASE Next
    <2>1. TypeOK /\ MissingHasNoPosition
      BY DEF RegisterInv
    <2>2. MissingHasNoPosition'
      BY <1>2, <2>1, PositionMoves
    <2>3. FinishingReached'
      <3> SUFFICES ASSUME NEW h \in Handlers, At(h, "finish")'
                   PROVE  Reached(Event(h))'
        BY DEF FinishingReached
      <3>1. CASE ApplyStatus(h)
        <4>1. /\ state'[About(h)].at # NoPosition
              /\ ShouldApply(Position(Event(h)), state'[About(h)].at)
          BY <2>1, <3>1, ApplyMoves
        <4>2. Event(h)' = Event(h)
          BY <2>1, <3>1, Moves DEF ApplyStatus, At, Event, HandlerSteps
        <4> QED
          BY <4>1, <4>2 DEF Reached, About, Position
      <3>2. CASE At(h, "finish") /\ Event(h)' = Event(h)
        <4>1. PICK e \in Events : e = Event(h)
          BY <2>1, <3>2, EventTyped DEF At
        <4>2. Reached(e)
          BY <3>2, <4>1 DEF RegisterInv, FinishingReached
        <4>3. Reached(e)'
          BY <1>1, <1>2, <2>1, <4>2, ReachedStays
        <4> QED
          BY <3>2, <4>1, <4>3 DEF Reached
      <3> QED
        BY <1>2, <2>1, <3>1, <3>2, EntersFinish
    <2>4. SettledReached'
      <3> SUFFICES ASSUME NEW e \in Events, delivery'[e].status = "succeeded"
                   PROVE  Reached(e)'
        BY DEF SettledReached
      <3>1. Reached(e)
        BY <1>2, <2>1, Settles DEF RegisterInv, SettledReached, FinishingReached
      <3> QED
        BY <1>1, <1>2, <2>1, <3>1, ReachedStays
    <2> QED
      BY <1>1, <2>2, <2>3, <2>4 DEF RegisterInv
  <1>3. CASE UNCHANGED vars
    <2>1. MissingHasNoPosition'
      BY <1>3 DEF vars, RegisterInv, MissingHasNoPosition
    <2>2. FinishingReached'
      BY <1>3 DEF vars, RegisterInv, FinishingReached, At, Event, Reached, Position
    <2>3. SettledReached'
      BY <1>3 DEF vars, RegisterInv, SettledReached, Reached, Position
    <2> QED
      BY <1>1, <2>1, <2>2, <2>3 DEF RegisterInv
  <1> QED
    BY <1>2, <1>3

-----------------------------------------------------------------------------
(* The step of the refinement *)

Positioned == [p \in ProviderMessages |-> state[p].at]

(* An event is acknowledged by a handler about to finish, or by one that has *)
(* read its delivery as settled; neither touches a position.                 *)
LEMMA Acknowledges ==
    ASSUME RegisterInv, Next
    PROVE  \/ UNCHANGED acked
           \/ /\ \E e \in Events : Reached(e) /\ acked' = acked \cup {e}
              /\ UNCHANGED <<state, demoted>>
  <1>1. CASE UNCHANGED acked
    BY <1>1
  <1>2. CASE \E h \in Handlers : Finish(h)
    <2>1. PICK h \in Handlers : Finish(h)
      BY <1>2
    <2>2. Event(h) \in Events
      BY <2>1, EventTyped DEF Finish, At, RegisterInv
    <2>3. Reached(Event(h))
      BY <2>1 DEF Finish, RegisterInv, FinishingReached
    <2> QED
      BY <2>1, <2>2, <2>3 DEF Finish
  <1>3. CASE \E h \in Handlers : AnswerDuplicate(h)
    <2>1. PICK h \in Handlers : AnswerDuplicate(h)
      BY <1>3
    <2>2. Event(h) \in Events
      BY <2>1, EventTyped DEF AnswerDuplicate, At, RegisterInv
    <2>3. Reached(Event(h))
      BY <2>1, <2>2 DEF AnswerDuplicate, RegisterInv, SettledReached
    <2> QED
      BY <2>1, <2>2, <2>3 DEF AnswerDuplicate
  <1> QED
    BY <1>1, <1>2, <1>3
    DEF Next, Receive, HandlerStep, FindUnsettled, TakeOver, AnswerBusy, FindKnown,
        FindUnknown, LockImport, ImportLocked, Reread, FetchDetail, InsertMessage,
        InsertRaced, ApplyStatus, MarkFailed, CallFails, Crash, ReconcilerStep,
        ReconcileKnown, ReconcileUnknown, ReconcileUpdate, ReconcileInsert,
        RecordSent, RecordRefused, ImportLockExpires, DeliveryLockExpires

(* The register orders positions as provider sync does. *)
LEMMA SameOrder ==
    /\ Register!NoPosition = NoPosition
    /\ \A x : Register!Position(x) = Position(x)
    /\ \A a, b : Register!ShouldApply(a, b) <=> ShouldApply(a, b)
  BY DEF Register!NoPosition, NoPosition, Register!Position, Position,
         Register!statusRank, statusRank, Register!ShouldApply, ShouldApply

LEMMA RegisterInitMaps == Init => Register!Init
  <1> SUFFICES ASSUME Init PROVE Register!Init
    OBVIOUS
  <1>1. \A p \in ProviderMessages : state[p].at = NoPosition
    BY DEF Init, NoState
  <1>2. acked = {} /\ demoted = {}
    BY DEF Init
  <1> QED
    BY <1>1, <1>2, SameOrder DEF Register!Init

LEMMA RegisterStepMaps ==
    RegisterInv /\ [Next]_vars
      => [Register!Next]_<<Positioned, acked, demoted>>
  <1> SUFFICES ASSUME RegisterInv, [Next]_vars
               PROVE  \/ Register!Next
                      \/ UNCHANGED <<Positioned, acked, demoted>>
    OBVIOUS
  <1>1. CASE UNCHANGED vars
    BY <1>1 DEF vars, Positioned
  <1>2. CASE Next /\ acked' # acked
    <2>1. PICK e \in Events : /\ Reached(e) /\ acked' = acked \cup {e}
                              /\ UNCHANGED <<state, demoted>>
      BY <1>2, Acknowledges
    <2>2. e.about \in ProviderMessages
      BY EventPosition
    <2>3. Positioned[e.about] = state[e.about].at
      BY <2>2 DEF Positioned
    <2>4. UNCHANGED Positioned
      BY <2>1 DEF Positioned
    <2>5. Register!Acknowledge(e)
      BY <2>1, <2>3, <2>4, SameOrder DEF Reached, Positioned, Register!Acknowledge
    <2> QED
      BY <2>5 DEF Register!Next
  <1>3. CASE Next /\ acked' = acked
    <2>1. TypeOK /\ MissingHasNoPosition
      BY DEF RegisterInv
    <2>2. CASE NothingMoves
      <3>1. UNCHANGED Positioned
        BY <2>2 DEF NothingMoves, Stays, Positioned
      <3> QED
        BY <1>3, <2>2, <3>1 DEF NothingMoves
    <2>3. CASE \E e \in Events : Applies(e)
      <3>1. PICK e \in Events : Applies(e)
        BY <2>3
      <3>2. e.about \in ProviderMessages
        BY EventPosition
      <3>3. Positioned' = [Positioned EXCEPT ![e.about] = Position(e)]
        BY <3>1, <3>2 DEF Applies, Stays, Positioned
      <3>4. ShouldApply(Positioned[e.about], Position(e))
        BY <3>1, <3>2 DEF Applies, Positioned
      <3>5. Register!Apply(e)
        BY <1>3, <3>1, <3>3, <3>4, SameOrder DEF Applies, Register!Apply, Positioned
      <3> QED
        BY <3>5 DEF Register!Next
    <2>4. CASE \E x \in Reports : Reconciles(x)
      <3>1. PICK x \in Reports : Reconciles(x)
        BY <2>4
      <3>2. x.about \in ProviderMessages
        BY EventPosition
      <3>3. Positioned' = [Positioned EXCEPT ![x.about] = Position(x)]
        BY <3>1, <3>2 DEF Reconciles, Stays, Positioned
      <3>4. demoted' = IF ShouldApply(Positioned[x.about], Position(x))
                       THEN demoted ELSE demoted \cup {x.about}
        BY <3>1, <3>2 DEF Reconciles, Positioned
      <3>5. Register!Reconcile(x)
        BY <1>3, <3>3, <3>4, SameOrder DEF Register!Reconcile, Positioned
      <3> QED
        BY <3>5 DEF Register!Next
    <2> QED
      BY <1>3, <2>1, <2>2, <2>3, <2>4, PositionMoves
  <1> QED
    BY <1>1, <1>2, <1>3

(* Provider sync implements StatusRegister: whatever the interleaving of     *)
(* imports, takeovers, late handlers and crashes, the stored position of a   *)
(* provider message moves as the register's does, and an event is answered   *)
(* with 200 only once the position has reached it.                           *)
THEOREM Implements == Spec => ImplementsRegister
  <1>1. RegisterInv /\ [Next]_vars
          => [Register!Next]_<<[p \in ProviderMessages |-> state[p].at], acked, demoted>>
    BY RegisterStepMaps DEF Positioned
  <1> QED
    BY <1>1, RegisterInit, RegisterStep, RegisterInitMaps, PTL
    DEF Spec, ImplementsRegister, Register!Spec

-----------------------------------------------------------------------------
(* The status of an acknowledged event.  A claim for import may store a      *)
(* position before its message shows anything, but only for a message that   *)
(* has no position row; so the invariant says of every event about to be     *)
(* answered that the row is there, and that the message shows the status of  *)
(* the position if the position is the event's.                              *)
Shown(p) ==
    \E x \in Events \cup Reports :
        /\ x.about = p /\ Position(x) = state[p].at
        /\ row[p].status = x.status

Placed(e) ==
    /\ state[e.about].there
    /\ state[e.about].at = Position(e) => Shown(e.about)

FinishingPlaced == \A h \in Handlers : At(h, "finish") => Placed(Event(h))

SettledPlaced ==
    \A e \in Events : delivery[e].status = "succeeded" \/ e \in acked => Placed(e)

StatusInv == RegisterInv /\ FinishingPlaced /\ SettledPlaced

(* The status and the position of a message once its position row exists.    *)
StatusStays(p) ==
    /\ state'[p].there /\ state'[p].at = state[p].at
    /\ Exists(p) => row'[p].status = row[p].status

StatusFollows(p) ==
    /\ state'[p].there
    /\ \E x \in Events \cup Reports :
         /\ x.about = p /\ Position(x) = state'[p].at /\ row'[p].status = x.status

LEMMA ApplyFollows ==
    ASSUME TypeOK, MissingHasNoPosition, NEW h \in Handlers, ApplyStatus(h), NEW p \in ProviderMessages,
           state[p].there \/ p = About(h)
    PROVE  /\ StatusStays(p) \/ StatusFollows(p)
           /\ p = About(h) =>
                /\ state'[p].there
                /\ state'[p].at = Position(Event(h)) => StatusFollows(p)
  <1>a. PICK e : e = Event(h)
    OBVIOUS
  <1>1. /\ e \in Events /\ About(h) = e.about /\ e.about \in ProviderMessages
        /\ state[e.about] \in StateRows /\ row[e.about] \in Rows
    BY <1>a, EventTyped DEF ApplyStatus, At, About
  <1>2. Position(e) \in Positions /\ Position(e) # NoPosition
    BY <1>1, EventPosition
  <1>3. /\ state' = [state EXCEPT ![e.about] =
                   IF ShouldApply(state[e.about].at, Position(e))
                   THEN [state[e.about] EXCEPT !.there = TRUE, !.at = Position(e), !.linked = TRUE]
                   ELSE state[e.about]]
        /\ row' = IF state'[e.about].at = Position(e)
                  THEN [row EXCEPT ![e.about].status = e.status] ELSE row
    BY <1>1, <1>a DEF ApplyStatus
  <1>4. CASE p # e.about
    BY <1>1, <1>3, <1>4 DEF StatusStays, TypeOK
  <1>5. CASE p = e.about /\ state'[p].at = Position(e)
    <2>1. row'[p].status = e.status
      BY <1>1, <1>3, <1>5 DEF TypeOK, Rows
    <2>2. state'[p].there
      <3>1. CASE ShouldApply(state[p].at, Position(e))
        BY <1>1, <1>3, <1>5, <3>1 DEF TypeOK, StateRows
      <3>2. CASE ~ShouldApply(state[p].at, Position(e))
        <4>1. state'[p] = state[p]
          BY <1>1, <1>3, <1>5, <3>2 DEF TypeOK
        <4>2. ShouldApply(Position(e), Position(e))
          BY <1>2 DEF ShouldApply, Positions
        <4> QED
          BY <1>5, <3>2, <4>1, <4>2
      <3> QED
        BY <3>1, <3>2
    <2> QED
      BY <1>1, <1>5, <2>1, <2>2 DEF StatusFollows
  <1>6. CASE p = e.about /\ state'[p].at # Position(e)
    <2>1. ~ShouldApply(state[p].at, Position(e))
      BY <1>1, <1>3, <1>6 DEF TypeOK, StateRows
    <2>2. state'[p] = state[p] /\ row' = row
      BY <1>1, <1>3, <1>6, <2>1 DEF TypeOK
    <2>3. state[p].there
      BY <1>1, <1>6, <2>1 DEF MissingHasNoPosition, ShouldApply
    <2> QED
      BY <1>1, <1>a, <1>6, <2>2, <2>3 DEF StatusStays
  <1> QED
    BY <1>1, <1>a, <1>4, <1>5, <1>6

LEMMA StatusMoves ==
    ASSUME TypeOK, MissingHasNoPosition, Next, NEW p \in ProviderMessages, state[p].there
    PROVE  StatusStays(p) \/ StatusFollows(p)
  <1>1. CASE UNCHANGED <<state, row>>
    BY <1>1 DEF StatusStays
  <1>2. CASE \E h \in Handlers : HandlerStep(h)
    <2>1. PICK h \in Handlers : HandlerStep(h)
      BY <1>2
    <2>2. CASE FindKnown(h)
      <3>1. About(h) \in ProviderMessages /\ row[About(h)] \in Rows
        BY <2>2, EventTyped DEF FindKnown, At
      <3>2. row'[p].status = row[p].status
        BY <2>2, <3>1 DEF FindKnown, TypeOK, Rows
      <3> QED
        BY <2>2, <3>2 DEF FindKnown, StatusStays
    <2>3. CASE LockImport(h)
      <3>1. About(h) \in ProviderMessages /\ state[About(h)] \in StateRows
        BY <2>3, EventTyped DEF LockImport, At
      <3>2. state'[p].there /\ state'[p].at = state[p].at
        BY <2>3, <3>1 DEF LockImport, TypeOK, StateRows
      <3> QED
        BY <2>3, <3>2 DEF LockImport, StatusStays
    <2>4. CASE InsertMessage(h)
      <3>1. About(h) \in ProviderMessages /\ state[About(h)] \in StateRows
        BY <2>4, EventTyped DEF InsertMessage, At
      <3>2. state'[p].there /\ state'[p].at = state[p].at
        BY <2>4, <3>1 DEF InsertMessage, TypeOK, StateRows
      <3>3. Exists(p) => row'[p] = row[p]
        BY <2>4, <3>1 DEF InsertMessage, TypeOK, Exists
      <3> QED
        BY <3>2, <3>3 DEF StatusStays
    <2>5. CASE ApplyStatus(h)
      BY <2>5, ApplyFollows
    <2> QED
      BY <1>1, <2>1, <2>2, <2>3, <2>4, <2>5
      DEF HandlerStep, AnswerDuplicate, FindUnsettled, TakeOver, AnswerBusy,
          FindUnknown, ImportLocked, Reread, FetchDetail, InsertRaced,
          Finish, MarkFailed
  <1>3. CASE \E r \in Reconcilers : ReconcilerStep(r)
    <2>1. PICK r \in Reconcilers : ReconcilerStep(r)
      BY <1>3
    <2>2. CASE ReconcileUpdate(r) \/ ReconcileInsert(r)
      <3>1. PICK x : x = rec[r].report
        OBVIOUS
      <3>2. x \in Reports /\ x.about \in ProviderMessages
        BY <2>2, <3>1, EventPosition DEF ReconcileUpdate, ReconcileInsert, TypeOK, Idle
      <3>3. state[x.about] \in StateRows /\ row[x.about] \in Rows
        BY <3>2 DEF TypeOK
      <3>4. CASE ReconcileUpdate(r)
        <4>1. /\ row' = [row EXCEPT ![x.about].status = x.status]
              /\ state' = [state EXCEPT ![x.about] =
                   [state[x.about] EXCEPT !.there = TRUE, !.at = Position(x),
                             !.linked = @ \/ ~state[x.about].there]]
          BY <3>1, <3>4 DEF ReconcileUpdate
        <4>2. CASE p = x.about
          <5>1. /\ state'[p].there /\ state'[p].at = Position(x)
                /\ row'[p].status = x.status
            BY <3>2, <3>3, <4>1, <4>2 DEF TypeOK, StateRows, Rows
          <5> QED
            BY <3>2, <4>2, <5>1 DEF StatusFollows
        <4>3. CASE p # x.about
          BY <4>1, <4>3 DEF StatusStays, TypeOK
        <4> QED
          BY <4>2, <4>3
      <3>5. CASE ReconcileInsert(r)
        <4>1. \/ UNCHANGED <<row, state>>
              \/ p # x.about /\ state'[p] = state[p] /\ row'[p] = row[p]
          BY <3>1, <3>5 DEF ReconcileInsert, TypeOK
        <4> QED
          BY <4>1 DEF StatusStays
      <3> QED
        BY <2>2, <3>4, <3>5
    <2> QED
      BY <1>1, <2>1, <2>2 DEF ReconcilerStep, ReconcileKnown, ReconcileUnknown
  <1>4. CASE \E q \in ProviderMessages : ImportLockExpires(q)
    <2>1. PICK q \in ProviderMessages : ImportLockExpires(q)
      BY <1>4
    <2>2. state' = [state EXCEPT ![q].live = FALSE] /\ UNCHANGED row
      BY <2>1 DEF ImportLockExpires
    <2>3. state'[p].at = state[p].at /\ state'[p].there = state[p].there
      BY <2>2 DEF TypeOK, StateRows
    <2> QED
      BY <2>2, <2>3 DEF StatusStays
  <1>5. CASE \E q \in ProviderMessages : RecordSent(q)
    <2>1. PICK q \in ProviderMessages : RecordSent(q)
      BY <1>5
    <2>2. (Exists(p) => row'[p] = row[p]) /\ UNCHANGED state
      BY <2>1 DEF RecordSent, TypeOK, Exists
    <2> QED
      BY <2>2 DEF StatusStays
  <1> QED
    BY <1>1, <1>2, <1>3, <1>4, <1>5
    DEF Next, Receive, CallFails, Crash, RecordRefused, DeliveryLockExpires

(* What has been placed stays placed. *)
LEMMA PlacedStays ==
    ASSUME TypeOK, MissingHasNoPosition, Next, NEW e \in Events, Placed(e)
    PROVE  Placed(e)'
  <1>1. PICK p : p = e.about
    OBVIOUS
  <1>2. p \in ProviderMessages /\ state[p].there
    BY <1>1, EventPosition DEF Placed
  <1>3. CASE StatusStays(p)
    <2>1. Shown(p) => Exists(p)
      <3>1. \A x \in Events \cup Reports : x.status # None
        BY EventPosition DEF Statuses, None
      <3> QED
        BY <3>1 DEF Shown, Exists
    <2>2. ASSUME state'[p].at = Position(e)
          PROVE  \E x \in Events \cup Reports :
                   x.about = p /\ Position(x) = state'[p].at /\ row'[p].status = x.status
      BY <1>1, <1>3, <2>1, <2>2 DEF StatusStays, Placed, Shown
    <2> QED
      BY <1>1, <1>3, <2>2 DEF StatusStays, Placed, Shown, Position
  <1>4. CASE StatusFollows(p)
    BY <1>1, <1>4 DEF StatusFollows, Placed, Shown, Position
  <1> QED
    BY <1>2, <1>3, <1>4, StatusMoves

(* An event is answered by a handler about to finish or by one that has read *)
(* its delivery as settled.                                                  *)
LEMMA Answers ==
    ASSUME TypeOK, Next, NEW e \in Events, e \in acked', e \notin acked
    PROVE  \/ \E h \in Handlers : At(h, "finish") /\ Event(h) = e
           \/ delivery[e].status = "succeeded"
  <1>1. CASE UNCHANGED acked
    BY <1>1
  <1>2. CASE \E h \in Handlers : Finish(h)
    BY <1>2 DEF Finish
  <1>3. CASE \E h \in Handlers : AnswerDuplicate(h)
    BY <1>3 DEF AnswerDuplicate
  <1> QED
    BY <1>1, <1>2, <1>3
    DEF Next, Receive, HandlerStep, FindUnsettled, TakeOver, AnswerBusy, FindKnown,
        FindUnknown, LockImport, ImportLocked, Reread, FetchDetail, InsertMessage,
        InsertRaced, ApplyStatus, MarkFailed, CallFails, Crash, ReconcilerStep,
        ReconcileKnown, ReconcileUnknown, ReconcileUpdate, ReconcileInsert,
        RecordSent, RecordRefused, ImportLockExpires, DeliveryLockExpires

LEMMA StatusInit == Init => StatusInv
  <1> SUFFICES ASSUME Init PROVE StatusInv
    OBVIOUS
  <1>1. FinishingPlaced /\ SettledPlaced
    BY DEF Init, FinishingPlaced, SettledPlaced, At, Idle, NoDelivery, None
  <1> QED
    BY <1>1, RegisterInit DEF StatusInv

LEMMA StatusStep == StatusInv /\ [Next]_vars => StatusInv'
  <1> SUFFICES ASSUME StatusInv, [Next]_vars PROVE StatusInv'
    OBVIOUS
  <1>1. RegisterInv' /\ TypeOK /\ MissingHasNoPosition
    BY RegisterStep DEF StatusInv, RegisterInv
  <1>2. CASE Next
    <2>1. FinishingPlaced'
      <3> SUFFICES ASSUME NEW h \in Handlers, At(h, "finish")'
                   PROVE  Placed(Event(h))'
        BY DEF FinishingPlaced
      <3>1. CASE ApplyStatus(h)
        <4>1. PICK e : e = Event(h)
          OBVIOUS
        <4>2. e \in Events /\ e.about \in ProviderMessages /\ About(h) = e.about
          BY <1>1, <3>1, <4>1, EventTyped DEF ApplyStatus, At, About
        <4>3. Event(h)' = e
          BY <1>1, <3>1, <4>1, Moves DEF ApplyStatus, At, Event, HandlerSteps
        <4>4. /\ state'[e.about].there
              /\ state'[e.about].at = Position(e) => StatusFollows(e.about)
          BY <1>1, <3>1, <4>1, <4>2, ApplyFollows
        <4>5. Placed(e)'
          BY <4>4 DEF Placed, StatusFollows, Shown, Position
        <4> QED
          BY <4>3, <4>5 DEF Placed, Shown, Position
      <3>2. CASE At(h, "finish") /\ Event(h)' = Event(h)
        <4>1. PICK e \in Events : e = Event(h)
          BY <1>1, <3>2, EventTyped DEF At
        <4>2. Placed(e)
          BY <3>2, <4>1 DEF StatusInv, FinishingPlaced
        <4>3. Placed(e)'
          BY <1>1, <1>2, <4>2, PlacedStays
        <4> QED
          BY <3>2, <4>1, <4>3 DEF Placed, Shown, Position
      <3> QED
        BY <1>1, <1>2, <3>1, <3>2, EntersFinish
    <2>2. SettledPlaced'
      <3> SUFFICES ASSUME NEW e \in Events,
                          delivery'[e].status = "succeeded" \/ e \in acked'
                   PROVE  Placed(e)'
        BY DEF SettledPlaced
      <3>1. Placed(e)
        <4>1. CASE delivery[e].status = "succeeded" \/ e \in acked
          BY <4>1 DEF StatusInv, SettledPlaced
        <4>2. CASE ~(delivery[e].status = "succeeded" \/ e \in acked)
          <5>1. \E h \in Handlers : At(h, "finish") /\ Event(h) = e
            BY <1>1, <1>2, <4>2, Answers, Settles
          <5> QED
            BY <5>1 DEF StatusInv, FinishingPlaced
        <4> QED
          BY <4>1, <4>2
      <3> QED
        BY <1>1, <1>2, <3>1, PlacedStays
    <2> QED
      BY <1>1, <2>1, <2>2 DEF StatusInv
  <1>3. CASE UNCHANGED vars
    <2>1. FinishingPlaced'
      BY <1>3 DEF vars, StatusInv, FinishingPlaced, At, Event, Placed, Shown, Position
    <2>2. SettledPlaced'
      BY <1>3 DEF vars, StatusInv, SettledPlaced, Placed, Shown, Position
    <2> QED
      BY <1>1, <2>1, <2>2 DEF StatusInv
  <1> QED
    BY <1>2, <1>3

(* Whatever imports, late handlers and reconciliations interleave, a message *)
(* whose stored position is that of an acknowledged event shows the status   *)
(* of an event or a report at that position, not what an import or an older  *)
(* event left there.                                                         *)
THEOREM StatusAgrees == Spec => []StatusMatchesPosition
  <1>1. ASSUME StatusInv PROVE StatusMatchesPosition
    <2>1. \A e \in acked : e \in Events /\ Placed(e)
      BY <1>1 DEF StatusInv, RegisterInv, TypeOK, SettledPlaced
    <2> QED
      BY <2>1 DEF Placed, Shown, StatusMatchesPosition
  <1> QED
    BY <1>1, StatusInit, StatusStep, PTL DEF Spec

=============================================================================
