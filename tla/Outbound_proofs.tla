--------------------------- MODULE Outbound_proofs ---------------------------
(***************************************************************************)
(* Theorems about Outbound and DraftSchedule, for every value of their     *)
(* constants.                                                              *)
(*                                                                         *)
(* Part I, the pipeline: type correctness, the lock-token discipline, that *)
(* settled jobs stay settled, that success is only reported for mail the   *)
(* provider took, and, unless a lock was overrun, that a job has one       *)
(* sender and one outcome.                                                 *)
(*                                                                         *)
(* Part II, scheduled drafts, which hand their messages to the pipeline:   *)
(* type correctness, that a request writes only what its client has seen,  *)
(* that a send or an update answered with an error has changed nothing,    *)
(* and that a confirmed cancellation is final.  The facts about the        *)
(* pipeline are those of Part I that hold whoever submits the messages.    *)
(***************************************************************************)
EXTENDS DraftSchedule, TLAPS

USE NoneAssumption

(* What a busy worker holds: a delivery of its own that is still in the      *)
(* Queue, and a message.  It is what makes Ack and Retry well defined.       *)
Holding ==
    /\ \A w \in Workers :
         IF Busy(w) THEN /\ worker[w].delivery \in Deliveries
                         /\ worker[w].msg \in Messages
                         /\ queue[worker[w].delivery] # NoEntry
                    ELSE worker[w] = IdleWorker
    /\ \A v, w \in Workers :
         Busy(v) /\ Busy(w) /\ worker[v].delivery = worker[w].delivery => v = w
    /\ \A d \in Dispatchers : disp[d].pc # "idle" => disp[d].msg \in Messages

TypeInv == TypeOK /\ Holding

-----------------------------------------------------------------------------
(* Steps that leave worker, queue and disp alone keep Holding. *)
LEMMA HoldingUnchanged ==
    ASSUME Holding, UNCHANGED <<worker, queue, disp>>
    PROVE  Holding'
  BY DEF Holding, Busy

(* A worker that moves on with the delivery it holds. *)
LEMMA HoldingMoves ==
    ASSUME TypeInv, NEW w \in Workers, Busy(w), UNCHANGED <<queue, disp>>,
           NEW r \in WorkerStates,
           r.pc # "idle", r.delivery = worker[w].delivery,
           r.msg = worker[w].msg,
           worker' = [worker EXCEPT ![w] = r]
    PROVE  Holding'
  BY DEF TypeInv, TypeOK, Holding, Busy

(* A worker that lets go of its delivery, acknowledged or to be retried. *)
LEMMA HoldingEnds ==
    ASSUME TypeInv, NEW w \in Workers, Busy(w), UNCHANGED disp,
           NEW e,
           queue' = [queue EXCEPT ![worker[w].delivery] = e],
           worker' = [worker EXCEPT ![w] = IdleWorker]
    PROVE  Holding'
  BY DEF TypeInv, TypeOK, Holding, Busy, IdleWorker

LEMMA RetryTyped ==
    ASSUME TypeInv, NEW x \in Deliveries, queue[x] # NoEntry, Retry(x)
    PROVE  /\ queue' \in [Deliveries -> QueueEntries \cup {NoEntry}]
           /\ \E e : queue' = [queue EXCEPT ![x] = e]
  <1>1. queue[x] \in QueueEntries
    BY DEF TypeInv, TypeOK
  <1>2. queue[x].tries < MaxRetries =>
          [queue[x] EXCEPT !.tries = @ + 1] \in QueueEntries
    BY <1>1, LimitsAssumption DEF QueueEntries
  <1> QED
    BY <1>1, <1>2 DEF Retry, TypeInv, TypeOK

LEMMA AckTyped ==
    ASSUME TypeInv, NEW x \in Deliveries, Ack(x)
    PROVE  queue' \in [Deliveries -> QueueEntries \cup {NoEntry}]
  BY DEF Ack, TypeInv, TypeOK

LEMMA FaultTyped ==
    ASSUME TypeInv, Fault
    PROVE  faults' \in 0..MaxFaults
  BY LimitsAssumption DEF Fault, TypeInv, TypeOK

-----------------------------------------------------------------------------
LEMMA TypeInit == Init => TypeInv
  BY LimitsAssumption
  DEF Init, TypeInv, TypeOK, Holding, Busy, MessageRows, NoMessage, Kinds,
      JobRows, NoJob, WorkerStates, IdleWorker, DispatcherStates, IdleDispatcher

(* Messages that enter. *)
LEMMA TypeCompose == TypeInv /\ Compose => TypeInv'
  <1> SUFFICES ASSUME TypeInv, NEW m \in Messages, NEW to \in SUBSET Kinds,
                      SendMessage(m, to) \/ ScheduleDraft(m, to)
               PROVE  TypeInv'
    BY DEF Compose
  <1>1. \A status \in {"draft", "queued", "sent"} :
          NewMessage(m, to, status) \in MessageRows
    BY DEF NewMessage, MessageRows
  <1>2. \A due \in BOOLEAN : NewJob(1, due) \in JobRows
    BY DEF NewJob, NoJob, JobRows
  <1>3. msg' \in [Messages -> MessageRows]
    <2>1. CASE SendMessage(m, to)
      <3>1. PICK status \in {"queued", "sent"} :
               msg' = [msg EXCEPT ![m] = NewMessage(m, to, status)]
        BY <2>1 DEF SendMessage
      <3> QED
        BY <3>1, <1>1 DEF TypeInv, TypeOK
    <2>2. CASE ScheduleDraft(m, to)
      BY <2>2, <1>1 DEF ScheduleDraft, TypeInv, TypeOK
    <2> QED
      BY <2>1, <2>2
  <1>4. job' \in [Messages -> JobRows]
    <2>1. NewJob(1, TRUE) \in JobRows /\ NewJob(1, FALSE) \in JobRows
      BY <1>2
    <2> QED
      BY <2>1 DEF SendMessage, ScheduleDraft, TypeInv, TypeOK
  <1>5. TypeOK'
    BY <1>3, <1>4 DEF SendMessage, ScheduleDraft, TypeInv, TypeOK
  <1>6. Holding'
    BY HoldingUnchanged DEF SendMessage, ScheduleDraft, TypeInv
  <1> QED
    BY <1>5, <1>6 DEF TypeInv

(* Dispatchers. *)
LEMMA TypeDispatch ==
    ASSUME TypeInv, NEW d \in Dispatchers, Dispatch(d) \/ DispatchAbort(d)
    PROVE  TypeInv'
  <1> USE DEF TypeInv, TypeOK
  <1>1. CASE \E m \in Messages : DispatchSelect(d, m)
    <2> PICK m \in Messages : DispatchSelect(d, m)
      BY <1>1
    <2>1. TypeOK'
      BY DEF DispatchSelect, DispatcherStates, JobRows
    <2>2. Holding'
      BY DEF DispatchSelect, Holding, Busy
    <2> QED
      BY <2>1, <2>2
  <1>2. CASE DispatchSend(d)
    <2> DEFINE entry == [msg |-> disp[d].msg, id |-> disp[d].id, tries |-> 0]
    <2>1. PICK x \in Deliveries :
             queue[x] = NoEntry /\ queue' = [queue EXCEPT ![x] = entry]
      BY <1>2 DEF DispatchSend
    <2>2. disp[d].msg \in Messages /\ disp[d].id \in Nat
      BY <1>2 DEF DispatchSend, Holding, DispatcherStates
    <2>3. entry \in QueueEntries /\ entry # NoEntry
      BY <2>2, LimitsAssumption DEF QueueEntries, NoEntry
    <2>4. disp' \in [Dispatchers -> DispatcherStates]
      BY <1>2 DEF DispatchSend, DispatcherStates
    <2>5. TypeOK'
      BY <1>2, <2>1, <2>3, <2>4 DEF DispatchSend
    <2>6. Holding'
      BY <1>2, <2>1, <2>3 DEF DispatchSend, Holding, Busy
    <2> QED
      BY <2>5, <2>6
  <1>3. CASE DispatchMark(d)
    <2>1. IdleDispatcher \in DispatcherStates
      BY DEF IdleDispatcher, DispatcherStates
    <2>2. job' \in [Messages -> JobRows]
      <3>1. disp[d].msg \in Messages
        BY <1>3 DEF DispatchMark, Holding
      <3>2. job[disp[d].msg] \in JobRows
        BY <3>1
      <3>3. [job[disp[d].msg] EXCEPT !.status = "enqueued"] \in JobRows
        BY <3>2, ZenonT(60) DEF JobRows
      <3> QED
        BY <1>3, <3>1, <3>3 DEF DispatchMark
    <2>3. Holding'
      BY <1>3 DEF DispatchMark, Holding, Busy, IdleDispatcher
    <2> QED
      BY <1>3, <2>1, <2>2, <2>3 DEF DispatchMark
  <1>4. CASE DispatchAbort(d)
    <2>1. IdleDispatcher \in DispatcherStates
      BY DEF IdleDispatcher, DispatcherStates
    <2>2. Holding'
      BY <1>4 DEF DispatchAbort, Holding, Busy, IdleDispatcher
    <2> QED
      BY <1>4, <2>1, <2>2, FaultTyped DEF DispatchAbort
  <1> QED
    BY <1>1, <1>2, <1>3, <1>4 DEF Dispatch

-----------------------------------------------------------------------------
(* Workers.  First the steps that only move the worker itself. *)
LEMMA MovedWorker ==
    ASSUME TypeInv, NEW w \in Workers, Busy(w),
           NEW pc \in {"claimed", "sending", "commit", "failing", "recording"},
           NEW to \in SUBSET Kinds,
           NEW error \in {"none", "unavailable", "transient", "rejected"},
           NEW giveUp \in BOOLEAN,
           worker' = [worker EXCEPT ![w] =
               [worker[w] EXCEPT !.pc = pc, !.to = to, !.error = error,
                                 !.giveUp = giveUp]],
           UNCHANGED <<queue, disp>>
    PROVE  worker' \in [Workers -> WorkerStates] /\ Holding'
  <1> DEFINE r == [worker[w] EXCEPT !.pc = pc, !.to = to, !.error = error,
                                    !.giveUp = giveUp]
  <1>0. worker[w] \in WorkerStates
    BY DEF TypeInv, TypeOK
  <1>1. r \in WorkerStates
    BY <1>0 DEF WorkerStates
  <1>2. r.pc # "idle" /\ r.delivery = worker[w].delivery /\ r.msg = worker[w].msg
    BY <1>0 DEF WorkerStates
  <1>3. Holding'
    BY <1>1, <1>2, HoldingMoves
  <1> QED
    BY <1>1, <1>3 DEF TypeInv, TypeOK

LEMMA FailMoves ==
    ASSUME TypeInv, NEW w \in Workers, Busy(w),
           NEW error \in {"unavailable", "transient", "rejected"},
           Fail(w, error), UNCHANGED <<queue, disp>>
    PROVE  worker' \in [Workers -> WorkerStates] /\ Holding'
  <1>1. worker' = [worker EXCEPT ![w] =
               [worker[w] EXCEPT !.pc = "failing", !.to = worker[w].to,
                                 !.error = error,
                                 !.giveUp = (error # "transient")]]
    BY DEF Fail, TypeInv, TypeOK, WorkerStates
  <1>2. worker[w].to \in SUBSET Kinds
    BY DEF TypeInv, TypeOK, WorkerStates
  <1> QED
    BY <1>1, <1>2, MovedWorker

(* The success batch keeps the rows well typed. *)
LEMMA CommitTyped ==
    ASSUME TypeInv, NEW w \in Workers, Busy(w), CommitRows(w)
    PROVE  /\ msg' \in [Messages -> MessageRows]
           /\ job' \in [Messages -> JobRows]
  <1> DEFINE m == worker[w].msg
  <1>1. m \in Messages
    BY DEF TypeInv, Holding
  <1>2. SentRow(msg[m], worker[w].to) \in MessageRows
    <2>1. msg[m] \in MessageRows
      BY <1>1 DEF TypeInv, TypeOK
    <2> QED
      BY <2>1, ZenonT(60) DEF SentRow, MessageRows
  <1>3. [job[m] EXCEPT !.status = "succeeded", !.token = None, !.live = FALSE]
          \in JobRows
    <2>1. job[m] \in JobRows
      BY <1>1 DEF TypeInv, TypeOK
    <2> QED
      BY <2>1 DEF JobRows
  <1> QED
    BY <1>1, <1>2, <1>3 DEF CommitRows, TypeInv, TypeOK

LEMMA ClaimedRow ==
    ASSUME NEW j \in JobRows, NEW w \in Workers
    PROVE  [j EXCEPT !.status = "processing", !.attempts = @ + 1,
                     !.token = w, !.live = TRUE] \in JobRows
  <1>1. j.attempts + 1 \in Nat
    BY DEF JobRows
  <1> QED
    BY <1>1 DEF JobRows

LEMMA ClaimTyped ==
    ASSUME TypeInv, NEW w \in Workers, NEW x \in Deliveries, Claim(w, x)
    PROVE  TypeInv'
  <1> DEFINE e == queue[x]
             r == [IdleWorker EXCEPT !.pc = "claimed", !.delivery = x,
                                     !.msg = e.msg, !.id = e.id]
  <1>1. e \in QueueEntries
    BY DEF Claim, TypeInv, TypeOK
  <1>2. r \in WorkerStates
    BY <1>1 DEF IdleWorker, WorkerStates, QueueEntries, Kinds
  <1>3. [job[e.msg] EXCEPT !.status = "processing", !.attempts = @ + 1,
                           !.token = w, !.live = TRUE] \in JobRows
    <2>1. job[e.msg] \in JobRows
      BY <1>1 DEF TypeInv, TypeOK, QueueEntries
    <2> QED
      BY <2>1, ClaimedRow
  <1>4. worker' = [worker EXCEPT ![w] = r]
    BY DEF Claim
  <1>5. TypeOK'
    <2>1. e.msg \in Messages
      BY <1>1 DEF QueueEntries
    <2>2. job' \in [Messages -> JobRows]
      BY <1>3, <2>1 DEF Claim, TypeInv, TypeOK
    <2>3. worker' \in [Workers -> WorkerStates]
      BY <1>2, <1>4 DEF TypeInv, TypeOK
    <2> QED
      BY <2>2, <2>3 DEF Claim, TypeInv, TypeOK
  <1>6. Holding'
    <2>1. r.pc # "idle" /\ r.delivery = x /\ r.msg = e.msg /\ e.msg \in Messages
      BY <1>1 DEF IdleWorker, QueueEntries
    <2>2. worker \in [Workers -> WorkerStates] /\ ~Busy(w) /\ ~Held(x)
      BY DEF Claim, TypeInv, TypeOK
    <2>3. \A v \in Workers : worker'[v] = IF v = w THEN r ELSE worker[v]
      BY <1>4, <2>2
    <2>4. UNCHANGED <<queue, disp>> /\ queue[x] # NoEntry
      BY DEF Claim
    <2> HIDE DEF r, e
    <2> QED
      BY <2>1, <2>2, <2>3, <2>4 DEF TypeInv, Holding, Busy, Held
  <1> QED
    BY <1>5, <1>6 DEF TypeInv

(* A worker that ends; its delivery is acknowledged or comes back. *)
LEMMA EndTyped ==
    ASSUME TypeInv, NEW w \in Workers, Busy(w),
           Ack(worker[w].delivery) \/ Retry(worker[w].delivery),
           worker' = [worker EXCEPT ![w] = IdleWorker], UNCHANGED disp
    PROVE  /\ queue' \in [Deliveries -> QueueEntries \cup {NoEntry}]
           /\ worker' \in [Workers -> WorkerStates]
           /\ Holding'
  <1>1. worker[w].delivery \in Deliveries /\ queue[worker[w].delivery] # NoEntry
    BY DEF TypeInv, Holding
  <1>2. IdleWorker \in WorkerStates
    BY DEF IdleWorker, WorkerStates, Kinds
  <1>3. queue' \in [Deliveries -> QueueEntries \cup {NoEntry}]
    BY <1>1, RetryTyped, AckTyped
  <1>4. PICK e : queue' = [queue EXCEPT ![worker[w].delivery] = e]
    BY <1>1, RetryTyped DEF Ack
  <1>5. Holding'
    BY <1>4, HoldingEnds
  <1> QED
    BY <1>2, <1>3, <1>5 DEF TypeInv, TypeOK

LEMMA FailedTyped ==
    ASSUME TypeInv, NEW m \in Messages, NEW giveUp \in BOOLEAN
    PROVE  FailedRow(msg[m], giveUp) \in MessageRows
  <1>1. msg[m] \in MessageRows
    BY DEF TypeInv, TypeOK
  <1> QED
    BY <1>1 DEF FailedRow, MessageRows

LEMMA RecordTyped ==
    ASSUME TypeInv, NEW w \in Workers, RecordFailure(w)
    PROVE  TypeInv'
  <1> DEFINE m == worker[w].msg
             giveUp == worker[w].giveUp
             j == [job[m] EXCEPT
                     !.status = IF giveUp THEN "failed" ELSE "pending",
                     !.due = FALSE, !.token = None, !.live = FALSE,
                     !.lastError = worker[w].error]
  <1>1. Busy(w) /\ m \in Messages
    BY DEF RecordFailure, Busy, TypeInv, Holding
  <1>2. giveUp \in BOOLEAN
        /\ worker[w].error \in {"none", "unavailable", "transient", "rejected"}
    BY DEF TypeInv, TypeOK, WorkerStates
  <1>3. j \in JobRows
    <2>1. job[m] \in JobRows
      BY <1>1 DEF TypeInv, TypeOK
    <2> QED
      BY <1>2, <2>1 DEF JobRows
  <1>4. job' \in [Messages -> JobRows]
    <2>1. job' = job \/ job' = [job EXCEPT ![m] = j]
      BY <1>1 DEF RecordFailure, TypeInv, TypeOK
    <2> QED
      BY <1>3, <2>1 DEF TypeInv, TypeOK
  <1>5. msg' \in [Messages -> MessageRows]
    BY <1>1, <1>2, FailedTyped DEF RecordFailure, TypeInv, TypeOK
  <1>6. Ack(worker[w].delivery) \/ Retry(worker[w].delivery)
    BY DEF RecordFailure
  <1> QED
    BY <1>1, <1>4, <1>5, <1>6, EndTyped DEF RecordFailure, TypeInv, TypeOK

LEMMA ReadAttemptsTyped ==
    ASSUME TypeInv, NEW w \in Workers, ReadAttempts(w)
    PROVE  TypeInv'
  <1> DEFINE giveUp == \/ worker[w].giveUp
                       \/ ~Owns(w)
                       \/ job[worker[w].msg].attempts >= AttemptLimit
  <1>1. Busy(w)
    BY DEF ReadAttempts, Busy
  <1>2. PICK g \in BOOLEAN :
           worker' = [worker EXCEPT ![w].pc = "recording", ![w].giveUp = g]
    <2>1. giveUp \in BOOLEAN
      BY DEF TypeInv, TypeOK, WorkerStates
    <2>2. worker' = [worker EXCEPT ![w].pc = "recording", ![w].giveUp = giveUp]
      BY DEF ReadAttempts
    <2> QED
      BY <2>1, <2>2
  <1>3. /\ worker[w].to \in SUBSET Kinds
        /\ worker[w].error \in {"none", "unavailable", "transient", "rejected"}
    BY DEF TypeInv, TypeOK, WorkerStates
  <1>4. worker' = [worker EXCEPT ![w] =
          [worker[w] EXCEPT !.pc = "recording", !.to = worker[w].to,
                            !.error = worker[w].error, !.giveUp = g]]
    BY <1>2 DEF TypeInv, TypeOK, WorkerStates
  <1>5. worker' \in [Workers -> WorkerStates] /\ Holding'
    <2>1. "recording" \in {"claimed", "sending", "commit", "failing", "recording"}
      OBVIOUS
    <2>2. UNCHANGED <<queue, disp>>
      BY DEF ReadAttempts
    <2> QED
      BY <1>1, <1>3, <1>4, <2>1, <2>2, MovedWorker, ZenonT(60)
  <1> QED
    BY <1>5 DEF ReadAttempts, TypeInv, TypeOK

LEMMA GotoMoves ==
    ASSUME TypeInv, NEW w \in Workers, Busy(w),
           NEW pc \in {"sending", "commit"}, NEW to \in SUBSET Kinds,
           worker' = [worker EXCEPT ![w].to = to, ![w].pc = pc],
           UNCHANGED <<queue, disp>>
    PROVE  worker' \in [Workers -> WorkerStates] /\ Holding'
  <1> DEFINE r == [worker[w] EXCEPT !.pc = pc, !.to = to]
  <1>1. worker[w] \in WorkerStates
    BY DEF TypeInv, TypeOK
  <1>2. r \in WorkerStates
    BY <1>1 DEF WorkerStates
  <1>3. r.pc # "idle" /\ r.delivery = worker[w].delivery /\ r.msg = worker[w].msg
    BY <1>1 DEF WorkerStates
  <1>4. worker' = [worker EXCEPT ![w] = r]
    BY <1>1 DEF TypeInv, TypeOK, WorkerStates
  <1> HIDE DEF r
  <1>5. Holding'
    BY <1>2, <1>3, <1>4, HoldingMoves
  <1>6. worker' \in [Workers -> WorkerStates]
    <2>1. worker \in [Workers -> WorkerStates]
      BY DEF TypeInv, TypeOK
    <2> QED
      BY <1>2, <1>4, <2>1
  <1> QED
    BY <1>5, <1>6

(* One step per action of a worker. *)
LEMMA TypeWorker ==
    ASSUME TypeInv, NEW w \in Workers, WorkerStep(w) \/ WorkerFault(w)
    PROVE  TypeInv'
  <1>1. CASE \E x \in Deliveries : Claim(w, x)
    BY <1>1, ClaimTyped
  <1>2. CASE \E x \in Deliveries : SkipUnclaimable(w, x)
    <2>1. PICK x \in Deliveries : SkipUnclaimable(w, x)
      BY <1>2
    <2>2. queue' \in [Deliveries -> QueueEntries \cup {NoEntry}]
      BY <2>1, AckTyped DEF SkipUnclaimable
    <2>3. Holding'
      BY <2>1 DEF SkipUnclaimable, Ack, Held, TypeInv, TypeOK, Holding, Busy
    <2> QED
      BY <2>1, <2>2, <2>3 DEF SkipUnclaimable, TypeInv, TypeOK
  <1>3. CASE LoadMessage(w)
    <2> DEFINE m == worker[w].msg
               pc == IF "external" \in msg[m].to THEN "sending" ELSE "commit"
    <2>1. Busy(w) /\ m \in Messages
      BY <1>3 DEF LoadMessage, Busy, TypeInv, Holding
    <2>2. msg[m].to \in SUBSET Kinds
      BY <2>1 DEF TypeInv, TypeOK, MessageRows
    <2>3. worker' = [worker EXCEPT ![w].to = msg[m].to, ![w].pc = pc]
      BY <1>3 DEF LoadMessage
    <2>4. pc \in {"sending", "commit"} /\ UNCHANGED <<queue, disp>>
      BY <1>3 DEF LoadMessage
    <2> HIDE DEF pc, m
    <2>5. worker' \in [Workers -> WorkerStates] /\ Holding'
      BY <2>1, <2>2, <2>3, <2>4, GotoMoves
    <2> QED
      BY <1>3, <2>5 DEF LoadMessage, TypeInv, TypeOK
  <1>4. CASE LoadUnavailable(w) \/ LoadFails(w)
             \/ CommitFails(w) \/ ProviderAnswerLost(w)
             \/ \E error \in {"transient", "rejected"} : ProviderRefuses(w, error)
    <2>1. PICK error \in {"unavailable", "transient", "rejected"} : Fail(w, error)
      BY <1>4 DEF LoadUnavailable, LoadFails,
                  CommitFails, ProviderAnswerLost, ProviderRefuses
    <2>2. Busy(w) /\ UNCHANGED <<msg, job, queue, disp, active>>
      BY <1>4 DEF LoadUnavailable, LoadFails,
                  CommitFails, ProviderAnswerLost, ProviderRefuses, Busy
    <2>3. accepted' \in [Messages -> Nat]
      <3>1. accepted' = accepted \/ Accept(w)
        BY <1>4 DEF LoadUnavailable, LoadFails,
                    CommitFails, ProviderAnswerLost, ProviderRefuses
      <3> QED
        BY <2>2, <3>1 DEF Accept, TypeInv, TypeOK, Holding
    <2>4. faults' \in 0..MaxFaults
      BY <1>4, FaultTyped
      DEF LoadUnavailable, LoadFails, CommitFails,
          ProviderAnswerLost, ProviderRefuses, TypeInv, TypeOK
    <2>5. worker' \in [Workers -> WorkerStates] /\ Holding'
      BY <2>1, <2>2, FailMoves
    <2> QED
      BY <2>2, <2>3, <2>4, <2>5 DEF TypeInv, TypeOK
  <1>5. CASE ProviderAccepts(w)
    <2>1. Busy(w) /\ UNCHANGED <<msg, job, queue, disp, active, faults>>
      BY <1>5 DEF ProviderAccepts, Busy
    <2>2. accepted' \in [Messages -> Nat]
      BY <1>5, <2>1 DEF ProviderAccepts, Accept, TypeInv, TypeOK, Holding
    <2>3. worker[w].to \in SUBSET Kinds
      BY DEF TypeInv, TypeOK, WorkerStates
    <2>4. worker' = [worker EXCEPT ![w].to = worker[w].to, ![w].pc = "commit"]
      BY <1>5 DEF ProviderAccepts, Goto, TypeInv, TypeOK, WorkerStates
    <2>5. worker' \in [Workers -> WorkerStates] /\ Holding'
      BY <2>1, <2>3, <2>4, GotoMoves
    <2> QED
      BY <2>1, <2>2, <2>5 DEF TypeInv, TypeOK
  <1>6. CASE Commit(w)
    <2>1. Busy(w)
      BY <1>6 DEF Commit, Busy
    <2>2. msg' \in [Messages -> MessageRows] /\ job' \in [Messages -> JobRows]
      BY <1>6, <2>1, CommitTyped DEF Commit, TypeInv, TypeOK
    <2>3. /\ queue' \in [Deliveries -> QueueEntries \cup {NoEntry}]
          /\ worker' \in [Workers -> WorkerStates]
          /\ Holding'
      BY <1>6, <2>1, EndTyped DEF Commit
    <2> QED
      BY <1>6, <2>2, <2>3 DEF Commit, TypeInv, TypeOK
  <1>7. CASE CommitAnswerLost(w)
    <2>1. Busy(w)
      BY <1>7 DEF CommitAnswerLost, Busy
    <2>2. msg' \in [Messages -> MessageRows] /\ job' \in [Messages -> JobRows]
      BY <1>7, <2>1, CommitTyped DEF CommitAnswerLost
    <2>3. worker' \in [Workers -> WorkerStates] /\ Holding'
      BY <1>7, <2>1, FailMoves DEF CommitAnswerLost
    <2> QED
      BY <1>7, <2>2, <2>3, FaultTyped DEF CommitAnswerLost, TypeInv, TypeOK
  <1>8. CASE ReadAttempts(w)
    BY <1>8, ReadAttemptsTyped
  <1>9. CASE RecordFailure(w)
    BY <1>9, RecordTyped
  <1>10. CASE Crash(w)
    <2>1. Busy(w)
      BY <1>10 DEF Crash
    <2>2. /\ queue' \in [Deliveries -> QueueEntries \cup {NoEntry}]
          /\ worker' \in [Workers -> WorkerStates]
          /\ Holding'
      BY <1>10, <2>1, EndTyped DEF Crash
    <2> QED
      BY <1>10, <2>2, FaultTyped DEF Crash, TypeInv, TypeOK
  <1> QED
    BY <1>1, <1>2, <1>3, <1>4, <1>5, <1>6, <1>7, <1>8, <1>9, <1>10
    DEF WorkerStep, WorkerFault

(* Recovery, the clocks and the administrator touch no process. *)
LEMMA TypeRest ==
    ASSUME TypeInv,
           RecoverExpiredOutboundLocks \/ Clock
             \/ DisableConnection \/ EnableConnection
    PROVE  TypeInv'
  <1>1. Holding'
    BY HoldingUnchanged DEF RecoverExpiredOutboundLocks, Clock, BecomesDue,
       LockExpires, LockOverrun, DisableConnection, EnableConnection, TypeInv
  <1>2. CASE RecoverExpiredOutboundLocks
    <2>1. \A m \in Messages :
            [job[m] EXCEPT !.status = "pending", !.token = None] \in JobRows
      <3> TAKE m \in Messages
      <3>1. job[m] \in JobRows
        BY DEF TypeInv, TypeOK
      <3> QED
        BY <3>1 DEF JobRows
    <2> QED
      BY <1>1, <1>2, <2>1 DEF RecoverExpiredOutboundLocks, TypeInv, TypeOK
  <1>3. CASE Clock
    <2>1. PICK m \in Messages : BecomesDue(m) \/ LockExpires(m) \/ LockOverrun(m)
      BY <1>3 DEF Clock
    <2>2. job[m] \in JobRows
      BY DEF TypeInv, TypeOK
    <2>3. /\ [job[m] EXCEPT !.due = TRUE] \in JobRows
          /\ [job[m] EXCEPT !.live = FALSE] \in JobRows
          /\ [job[m] EXCEPT !.live = FALSE, !.overran = TRUE] \in JobRows
      BY <2>2 DEF JobRows
    <2>4. job' \in [Messages -> JobRows]
      BY <2>1, <2>3 DEF BecomesDue, LockExpires, LockOverrun, TypeInv, TypeOK
    <2>5. faults' \in 0..MaxFaults
      BY <2>1, FaultTyped DEF BecomesDue, LockExpires, LockOverrun, TypeInv, TypeOK
    <2> QED
      BY <1>1, <2>1, <2>4, <2>5
      DEF BecomesDue, LockExpires, LockOverrun, TypeInv, TypeOK
  <1>4. CASE DisableConnection \/ EnableConnection
    BY <1>1, <1>4, FaultTyped DEF DisableConnection, EnableConnection, TypeInv, TypeOK
  <1> QED
    BY <1>2, <1>3, <1>4

LEMMA TypeStep == TypeInv /\ [Next]_vars => TypeInv'
  <1>1. TypeInv /\ UNCHANGED vars => TypeInv'
    BY DEF vars, TypeInv, TypeOK, Holding, Busy
  <1> QED
    BY <1>1, TypeCompose, TypeDispatch, TypeWorker, TypeRest DEF Next, Pipeline

(* The rows of the database, the Queue and every process keep their types,   *)
(* and a busy worker always holds a delivery of its own.                     *)
THEOREM TypeCorrect == Spec => [](TypeOK /\ Holding)
  <1>1. Init => TypeInv
    BY TypeInit
  <1>2. TypeInv /\ [Next]_vars => TypeInv'
    BY TypeStep
  <1> QED
    BY <1>1, <1>2, PTL DEF Spec, TypeInv

-----------------------------------------------------------------------------
(* The lock token.  What LockMarksProcessing says of one row. *)
LockFits(j) ==
    /\ j.token # None <=> j.status = "processing"
    /\ j.live => j.status = "processing"

(* A message that does not exist has no job (message_id REFERENCES messages  *)
(* ON DELETE CASCADE).                                                       *)
AbsentHasNoJob ==
    \A m \in Messages : msg[m].status = "absent" => job[m].status = "none"

LockInv == TypeInv /\ LockMarksProcessing /\ AbsentHasNoJob

(* What a step of the pipeline may make of the row j of a job. *)
JobMoves(j, k) ==
    \/ k = j
    \/ /\ j.status \in {"pending", "enqueued", "processing"}
       /\ k.status # "none"
       /\ LockFits(k)

LEMMA OwnedIsProcessing ==
    ASSUME LockInv, NEW w \in Workers, Owns(w)
    PROVE  /\ worker[w].msg \in Messages
           /\ job[worker[w].msg].status = "processing"
  <1>1. worker[w].msg \in Messages
    BY DEF LockInv, TypeInv, Holding, Owns
  <1> QED
    BY <1>1 DEF LockInv, LockMarksProcessing, Owns

(* The rows a worker writes when it owns the job. *)
LEMMA JobMovesAtCommit ==
    ASSUME LockInv, NEW w \in Workers, CommitRows(w), NEW m \in Messages
    PROVE  JobMoves(job[m], job'[m])
  <1>1. CASE ~Owns(w)
    BY <1>1 DEF CommitRows, JobMoves
  <1>2. CASE Owns(w)
    <2> DEFINE r == [job[worker[w].msg] EXCEPT !.status = "succeeded",
                        !.token = None, !.live = FALSE]
    <2>1. worker[w].msg \in Messages /\ job[worker[w].msg].status = "processing"
      BY <1>2, OwnedIsProcessing
    <2>2. job[worker[w].msg] \in JobRows
      BY <2>1 DEF LockInv, TypeInv, TypeOK
    <2>3. r.status # "none" /\ LockFits(r)
      BY <2>2 DEF JobRows, LockFits
    <2>4. job' = [job EXCEPT ![worker[w].msg] = r]
      BY <1>2 DEF CommitRows
    <2> HIDE DEF r
    <2> QED
      BY <2>1, <2>3, <2>4 DEF JobMoves, LockInv, TypeInv, TypeOK
  <1> QED
    BY <1>1, <1>2

LEMMA JobMovesAtFailure ==
    ASSUME LockInv, NEW w \in Workers, RecordFailure(w), NEW m \in Messages
    PROVE  JobMoves(job[m], job'[m])
  <1>1. CASE ~Owns(w)
    BY <1>1 DEF RecordFailure, JobMoves
  <1>2. CASE Owns(w)
    <2> DEFINE r == [job[worker[w].msg] EXCEPT
                        !.status = IF worker[w].giveUp THEN "failed"
                                                       ELSE "pending",
                        !.due = FALSE, !.token = None, !.live = FALSE,
                        !.lastError = worker[w].error]
    <2>1. worker[w].msg \in Messages /\ job[worker[w].msg].status = "processing"
      BY <1>2, OwnedIsProcessing
    <2>2. job[worker[w].msg] \in JobRows
      BY <2>1 DEF LockInv, TypeInv, TypeOK
    <2>3. r.status # "none" /\ LockFits(r)
      BY <2>2 DEF JobRows, LockFits
    <2>4. job' = [job EXCEPT ![worker[w].msg] = r]
      BY <1>2 DEF RecordFailure
    <2> HIDE DEF r
    <2> QED
      BY <2>1, <2>3, <2>4 DEF JobMoves, LockInv, TypeInv, TypeOK
  <1> QED
    BY <1>1, <1>2

LEMMA JobMovesAtClaim ==
    ASSUME LockInv, NEW w \in Workers, NEW x \in Deliveries, Claim(w, x),
           NEW m \in Messages
    PROVE  JobMoves(job[m], job'[m])
  <1> DEFINE n == queue[x].msg
             r == [job[n] EXCEPT !.status = "processing", !.attempts = @ + 1,
                                 !.token = w, !.live = TRUE]
  <1>1. n \in Messages
    BY DEF Claim, LockInv, TypeInv, TypeOK, QueueEntries
  <1>2. job[n] \in JobRows
    BY <1>1 DEF LockInv, TypeInv, TypeOK
  <1>3. r.status # "none" /\ LockFits(r)
    BY <1>2 DEF JobRows, LockFits
  <1>4. job' = [job EXCEPT ![n] = r] /\ job[n].status \in {"pending", "enqueued"}
    BY DEF Claim, Claimable
  <1> HIDE DEF r, n
  <1> QED
    BY <1>1, <1>3, <1>4 DEF JobMoves, LockInv, TypeInv, TypeOK

LEMMA JobMovesOtherwise ==
    ASSUME LockInv, NEW m \in Messages,
           \/ \E d \in Dispatchers : DispatchMark(d)
           \/ RecoverExpiredOutboundLocks
           \/ Clock
    PROVE  JobMoves(job[m], job'[m])
  <1>0. job[m] \in JobRows /\ LockFits(job[m])
    BY DEF LockInv, TypeInv, TypeOK, LockMarksProcessing, LockFits
  <1>1. CASE \E d \in Dispatchers : DispatchMark(d)
    <2>1. PICK d \in Dispatchers : DispatchMark(d)
      BY <1>1
    <2>2. \/ job'[m] = job[m]
          \/ /\ job[m].status = "pending"
             /\ job'[m] = [job[m] EXCEPT !.status = "enqueued"]
      BY <2>1 DEF DispatchMark, LockInv, TypeInv, TypeOK
    <2> QED
      BY <1>0, <2>2 DEF JobMoves, JobRows, LockFits
  <1>2. CASE RecoverExpiredOutboundLocks
    <2>1. \/ job'[m] = job[m]
          \/ /\ job[m].status = "processing" /\ ~job[m].live
             /\ job'[m] = [job[m] EXCEPT !.status = "pending", !.token = None]
      BY <1>2 DEF RecoverExpiredOutboundLocks, Expired
    <2> QED
      BY <1>0, <2>1 DEF JobMoves, JobRows, LockFits
  <1>3. CASE Clock
    <2>1. PICK n \in Messages : BecomesDue(n) \/ LockExpires(n) \/ LockOverrun(n)
      BY <1>3 DEF Clock
    <2>2. \/ job'[m] = job[m]
          \/ /\ job[m].status \in {"pending", "enqueued"}
             /\ job'[m] = [job[m] EXCEPT !.due = TRUE]
          \/ /\ job[m].live
             /\ \/ job'[m] = [job[m] EXCEPT !.live = FALSE]
                \/ job'[m] = [job[m] EXCEPT !.live = FALSE, !.overran = TRUE]
      BY <2>1 DEF BecomesDue, LockExpires, LockOverrun, LockInv, TypeInv, TypeOK
    <2> QED
      BY <1>0, <2>2 DEF JobMoves, JobRows, LockFits
  <1> QED
    BY <1>1, <1>2, <1>3

LEMMA JobMovesInPipeline ==
    ASSUME LockInv, Pipeline, NEW m \in Messages
    PROVE  JobMoves(job[m], job'[m])
  <1>1. CASE \E d \in Dispatchers : Dispatch(d) \/ DispatchAbort(d)
    <2>1. PICK d \in Dispatchers : Dispatch(d) \/ DispatchAbort(d)
      BY <1>1
    <2>2. UNCHANGED job \/ DispatchMark(d)
      BY <2>1 DEF Dispatch, DispatchSelect, DispatchSend, DispatchAbort
    <2> QED
      BY <2>2, JobMovesOtherwise DEF JobMoves
  <1>2. CASE \E w \in Workers : WorkerStep(w) \/ WorkerFault(w)
    <2>1. PICK w \in Workers : WorkerStep(w) \/ WorkerFault(w)
      BY <1>2
    <2>2. \/ UNCHANGED job
          \/ \E x \in Deliveries : Claim(w, x)
          \/ CommitRows(w)
          \/ RecordFailure(w)
      BY <2>1
      DEF WorkerStep, WorkerFault, SkipUnclaimable, LoadMessage,
          LoadUnavailable, LoadFails, ProviderAccepts, ProviderRefuses,
          ProviderAnswerLost, Commit, CommitFails,
          CommitAnswerLost, ReadAttempts, Crash
    <2> QED
      BY <2>2, JobMovesAtClaim, JobMovesAtCommit, JobMovesAtFailure DEF JobMoves
  <1>3. CASE RecoverExpiredOutboundLocks \/ Clock
    BY <1>3, JobMovesOtherwise
  <1>4. CASE DisableConnection \/ EnableConnection
    BY <1>4 DEF DisableConnection, EnableConnection, JobMoves
  <1> QED
    BY <1>1, <1>2, <1>3, <1>4 DEF Pipeline

(* What a step of the pipeline may make of the row r of a message. *)
RowMoves(r, s) ==
    /\ s.to = r.to
    /\ s.status = "absent" <=> r.status = "absent"

LEMMA RowMovesInPipeline ==
    ASSUME LockInv, Pipeline, NEW m \in Messages
    PROVE  RowMoves(msg[m], msg'[m])
  <1>0. msg[m] \in MessageRows
    BY DEF LockInv, TypeInv, TypeOK
  <1>1. \/ UNCHANGED msg
        \/ \E w \in Workers : CommitRows(w) \/ RecordFailure(w)
    <2>1. CASE \E w \in Workers : WorkerStep(w)
      BY <2>1, ZenonT(60)
      DEF WorkerStep, Claim, SkipUnclaimable, LoadMessage, LoadUnavailable,
          ProviderAccepts, ProviderRefuses, Commit, ReadAttempts
    <2>2. CASE \E w \in Workers : WorkerFault(w)
      BY <2>2 DEF WorkerFault, LoadFails, ProviderAnswerLost, CommitFails,
                  CommitAnswerLost, Crash
    <2>3. CASE \E d \in Dispatchers : Dispatch(d) \/ DispatchAbort(d)
      BY <2>3 DEF Dispatch, DispatchSelect, DispatchSend, DispatchMark,
                  DispatchAbort
    <2>4. CASE \/ RecoverExpiredOutboundLocks \/ Clock
               \/ DisableConnection \/ EnableConnection
      BY <2>4 DEF RecoverExpiredOutboundLocks, Clock, BecomesDue, LockExpires,
                  LockOverrun, DisableConnection, EnableConnection
    <2> QED
      BY <2>1, <2>2, <2>3, <2>4 DEF Pipeline
  <1>2. CASE \E w \in Workers : CommitRows(w)
    <2>1. PICK w \in Workers : CommitRows(w)
      BY <1>2
    <2>2. msg'[m] = msg[m] \/ msg'[m] = SentRow(msg[m], worker[w].to)
      BY <2>1 DEF CommitRows, LockInv, TypeInv, TypeOK
    <2> QED
      BY <1>0, <2>2 DEF RowMoves, SentRow, MessageRows
  <1>3. CASE \E w \in Workers : RecordFailure(w)
    <2>1. PICK w \in Workers : RecordFailure(w)
      BY <1>3
    <2>2. msg'[m] = msg[m] \/ msg'[m] = FailedRow(msg[m], worker[w].giveUp)
      BY <2>1 DEF RecordFailure, LockInv, TypeInv, TypeOK
    <2> QED
      BY <1>0, <2>2 DEF RowMoves, FailedRow, MessageRows
  <1> QED
    BY <1>1, <1>2, <1>3 DEF RowMoves

(* Messages that enter bring a fresh job, where there was none. *)
LEMMA LockCompose ==
    ASSUME LockInv, NEW n \in Messages, NEW to \in SUBSET Kinds,
           SendMessage(n, to) \/ ScheduleDraft(n, to)
    PROVE  /\ \A m \in Messages : job'[m] # job[m] =>
                 job[m].status = "none" /\ LockFits(job'[m])
           /\ AbsentHasNoJob'
  <1>0. \A m \in Messages : LockFits(job[m])
    BY DEF LockInv, LockMarksProcessing, LockFits
  <1>1. \A due \in BOOLEAN : LockFits(NewJob(1, due))
    BY DEF LockFits, NewJob, NoJob
  <1>2. msg[n].status = "absent" /\ job[n].status = "none"
    BY DEF SendMessage, ScheduleDraft, LockInv, AbsentHasNoJob
  <1>3. \/ UNCHANGED job
        \/ \E due \in BOOLEAN : job' = [job EXCEPT ![n] = NewJob(1, due)]
    BY DEF SendMessage, ScheduleDraft
  <1>4. PICK status \in {"draft", "queued", "sent"} :
           msg' = [msg EXCEPT ![n] = NewMessage(n, to, status)]
    BY DEF SendMessage, ScheduleDraft
  <1>5. NewMessage(n, to, status).status # "absent"
    BY DEF NewMessage
  <1>6. AbsentHasNoJob'
    BY <1>3, <1>4, <1>5 DEF LockInv, AbsentHasNoJob, TypeInv, TypeOK
  <1> QED
    BY <1>1, <1>2, <1>3, <1>6 DEF LockInv, TypeInv, TypeOK

LEMMA LockInit == Init => LockInv
  BY TypeInit
  DEF Init, LockInv, LockMarksProcessing, AbsentHasNoJob, NoJob, NoMessage

LEMMA LockStep == LockInv /\ [Next]_vars => LockInv'
  <1> SUFFICES ASSUME LockInv, [Next]_vars PROVE LockInv'
    OBVIOUS
  <1>1. TypeInv'
    BY TypeStep DEF LockInv
  <1>2. CASE UNCHANGED vars
    BY <1>1, <1>2 DEF vars, LockInv, LockMarksProcessing, AbsentHasNoJob
  <1>3. CASE Compose
    <2>1. PICK n \in Messages, to \in SUBSET Kinds :
             SendMessage(n, to) \/ ScheduleDraft(n, to)
      BY <1>3 DEF Compose
    <2>2. LockMarksProcessing'
      BY <2>1, LockCompose DEF LockInv, LockMarksProcessing, LockFits
    <2> QED
      BY <1>1, <2>1, <2>2, LockCompose DEF LockInv
  <1>4. CASE Pipeline
    <2>1. \A m \in Messages : JobMoves(job[m], job'[m])
      BY <1>4, JobMovesInPipeline
    <2>2. \A m \in Messages : RowMoves(msg[m], msg'[m])
      BY <1>4, RowMovesInPipeline
    <2>3. LockMarksProcessing'
      BY <2>1 DEF LockInv, LockMarksProcessing, JobMoves, LockFits
    <2>4. AbsentHasNoJob'
      BY <2>1, <2>2 DEF LockInv, AbsentHasNoJob, JobMoves, RowMoves
    <2> QED
      BY <1>1, <2>3, <2>4 DEF LockInv
  <1> QED
    BY <1>2, <1>3, <1>4 DEF Next

(* The inductive invariant of the lock: its two parts need each other, since *)
(* only a job that exists can be claimed and only a claimed one be written.  *)
THEOREM LockInvariant == Spec => []LockInv
  BY LockInit, LockStep, PTL DEF Spec

(* outbound_jobs.lock_token is set exactly while the job is processing, so   *)
(* no fenced UPDATE of a late worker can touch a waiting or settled job.     *)
THEOREM LockCorrect == Spec => []LockMarksProcessing
  <1>1. LockInv => LockMarksProcessing
    BY DEF LockInv
  <1> QED
    BY <1>1, LockInvariant, PTL

(* The step behind SettledIsFinal. *)
LEMMA SettledStep ==
    LockInv /\ [Next]_vars =>
        [\A m \in Messages : Terminal(job[m]) => job'[m] = job[m]]_vars
  <1> SUFFICES ASSUME LockInv, Next, NEW m \in Messages, Terminal(job[m])
               PROVE  job'[m] = job[m]
    OBVIOUS
  <1>1. CASE Compose
    <2>1. PICK n \in Messages, to \in SUBSET Kinds :
             SendMessage(n, to) \/ ScheduleDraft(n, to)
      BY <1>1 DEF Compose
    <2> QED
      BY <2>1, LockCompose DEF Terminal
  <1>2. CASE Pipeline
    BY <1>2, JobMovesInPipeline DEF JobMoves, Terminal
  <1> QED
    BY <1>1, <1>2 DEF Next

(* A job that succeeded or failed is never claimed, recovered or rewritten,  *)
(* whatever the Queue redelivers, also when locks are overrun.               *)
THEOREM SettledForever == Spec => SettledIsFinal
  BY LockInvariant, SettledStep, PTL DEF Spec, SettledIsFinal

-----------------------------------------------------------------------------
(* Success.  What each worker knows on its way to the success batch. *)
Knows(w) ==
    LET m == worker[w].msg IN
    Busy(w) =>
        /\ msg[m].status # "absent"
        /\ worker[w].pc \in {"sending", "commit"} => worker[w].to = msg[m].to
        /\ worker[w].pc = "commit" /\ "external" \in worker[w].to
              => accepted[m] > 0

AcceptInv == LockInv /\ SuccessWasAccepted /\ \A w \in Workers : Knows(w)

(* The provider's acceptances are never forgotten. *)
LEMMA AcceptedGrows ==
    ASSUME LockInv, Next, NEW m \in Messages, accepted[m] > 0
    PROVE  accepted'[m] > 0
  <1>0. accepted[m] \in Nat
    BY DEF LockInv, TypeInv, TypeOK
  <1>1. UNCHANGED accepted \/ \E w \in Workers : Accept(w)
    <2>1. CASE \E w \in Workers : WorkerStep(w)
      BY <2>1, ZenonT(60)
      DEF WorkerStep, Claim, SkipUnclaimable, LoadMessage, LoadUnavailable,
          ProviderAccepts, ProviderRefuses, Commit, ReadAttempts, RecordFailure
    <2>2. CASE \E w \in Workers : WorkerFault(w)
      BY <2>2 DEF WorkerFault, LoadFails, ProviderAnswerLost, CommitFails,
                  CommitAnswerLost, Crash
    <2>3. CASE Compose
      BY <2>3 DEF Compose, SendMessage, ScheduleDraft
    <2>4. CASE \E d \in Dispatchers : Dispatch(d) \/ DispatchAbort(d)
      BY <2>4 DEF Dispatch, DispatchSelect, DispatchSend, DispatchMark,
                  DispatchAbort
    <2>5. CASE \/ RecoverExpiredOutboundLocks \/ Clock
               \/ DisableConnection \/ EnableConnection
      BY <2>5 DEF RecoverExpiredOutboundLocks, Clock, BecomesDue, LockExpires,
                  LockOverrun, DisableConnection, EnableConnection
    <2> QED
      BY <2>1, <2>2, <2>3, <2>4, <2>5 DEF Next, Pipeline
  <1>2. CASE \E w \in Workers : Accept(w)
    <2>1. accepted'[m] = accepted[m] \/ accepted'[m] = accepted[m] + 1
      BY <1>2 DEF Accept, LockInv, TypeInv, TypeOK
    <2> QED
      BY <1>0, <2>1
  <1> QED
    BY <1>0, <1>1, <1>2

(* A row becomes a success only in the success batch of some worker. *)
LEMMA SuccessComesFromCommit ==
    ASSUME LockInv, Pipeline, NEW m \in Messages,
           job'[m].status = "succeeded" \/ msg'[m].status = "sent"
    PROVE  \/ job[m].status = "succeeded" \/ msg[m].status = "sent"
           \/ \E w \in Workers : worker[w].pc = "commit" /\ worker[w].msg = m
  <1>0. msg[m] \in MessageRows /\ job[m] \in JobRows
    BY DEF LockInv, TypeInv, TypeOK
  <1>1. CASE \E w \in Workers : worker[w].pc = "commit" /\ CommitRows(w)
    <2>1. PICK w \in Workers : worker[w].pc = "commit" /\ CommitRows(w)
      BY <1>1
    <2>2. worker[w].msg # m => job'[m] = job[m] /\ msg'[m] = msg[m]
      BY <2>1 DEF CommitRows, LockInv, TypeInv, TypeOK
    <2> QED
      BY <2>1, <2>2
  <1>2. CASE \E w \in Workers : RecordFailure(w)
    <2>1. PICK w \in Workers : RecordFailure(w)
      BY <1>2
    <2>2. msg'[m] = msg[m] \/ msg'[m] = FailedRow(msg[m], worker[w].giveUp)
      BY <2>1 DEF RecordFailure, LockInv, TypeInv, TypeOK
    <2>3. msg'[m].status = "sent" => msg[m].status = "sent"
      BY <1>0, <2>2 DEF FailedRow, MessageRows
    <2>4. \/ job'[m] = job[m]
          \/ job'[m] = [job[m] EXCEPT
                !.status = IF worker[w].giveUp THEN "failed" ELSE "pending",
                !.due = FALSE, !.token = None, !.live = FALSE,
                !.lastError = worker[w].error]
      BY <2>1 DEF RecordFailure, LockInv, TypeInv, TypeOK
    <2>5. job'[m].status = "succeeded" => job[m].status = "succeeded"
      BY <1>0, <2>4 DEF JobRows
    <2> QED
      BY <2>3, <2>5
  <1>3. CASE \E w \in Workers, x \in Deliveries : Claim(w, x)
    <2>1. PICK w \in Workers, x \in Deliveries : Claim(w, x)
      BY <1>3
    <2>2. UNCHANGED msg
      BY <2>1 DEF Claim
    <2>3. \/ job'[m] = job[m]
          \/ job'[m] = [job[m] EXCEPT !.status = "processing", !.attempts = @ + 1,
                                      !.token = w, !.live = TRUE]
      BY <2>1 DEF Claim, LockInv, TypeInv, TypeOK
    <2>4. job'[m].status = "succeeded" => job[m].status = "succeeded"
      BY <1>0, <2>3 DEF JobRows
    <2> QED
      BY <2>2, <2>4
  <1>4. CASE /\ UNCHANGED msg
             /\ \/ \E d \in Dispatchers : DispatchMark(d)
                \/ RecoverExpiredOutboundLocks
                \/ Clock
    <2>1. CASE \E d \in Dispatchers : DispatchMark(d)
      <3>1. \/ job'[m] = job[m]
            \/ job'[m] = [job[m] EXCEPT !.status = "enqueued"]
        BY <2>1 DEF DispatchMark, LockInv, TypeInv, TypeOK
      <3> QED
        BY <1>0, <1>4, <3>1 DEF JobRows
    <2>2. CASE RecoverExpiredOutboundLocks
      <3>1. \/ job'[m] = job[m]
            \/ job'[m] = [job[m] EXCEPT !.status = "pending", !.token = None]
        BY <2>2 DEF RecoverExpiredOutboundLocks
      <3> QED
        BY <1>0, <1>4, <3>1 DEF JobRows
    <2>3. CASE Clock
      <3>1. PICK n \in Messages : BecomesDue(n) \/ LockExpires(n) \/ LockOverrun(n)
        BY <2>3 DEF Clock
      <3>2. \/ job'[m] = job[m]
            \/ job'[m] = [job[m] EXCEPT !.due = TRUE]
            \/ job'[m] = [job[m] EXCEPT !.live = FALSE]
            \/ job'[m] = [job[m] EXCEPT !.live = FALSE, !.overran = TRUE]
        BY <3>1 DEF BecomesDue, LockExpires, LockOverrun, LockInv, TypeInv, TypeOK
      <3> QED
        BY <1>0, <1>4, <3>2 DEF JobRows
    <2> QED
      BY <1>4, <2>1, <2>2, <2>3
  <1>5. CASE UNCHANGED <<msg, job>>
    BY <1>5
  <1>6. CASE \E w \in Workers : WorkerStep(w)
    <2>1. PICK w \in Workers : WorkerStep(w)
      BY <1>6
    <2>2. \/ worker[w].pc = "commit" /\ CommitRows(w)
          \/ RecordFailure(w)
          \/ \E x \in Deliveries : Claim(w, x)
          \/ UNCHANGED <<msg, job>>
      BY <2>1 DEF WorkerStep, SkipUnclaimable, LoadMessage, LoadUnavailable,
                  ProviderAccepts, ProviderRefuses, Commit, ReadAttempts
    <2> QED
      BY <1>1, <1>2, <1>3, <1>5, <2>2
  <1>7. CASE \E w \in Workers : WorkerFault(w)
    <2>1. PICK w \in Workers : WorkerFault(w)
      BY <1>7
    <2>2. \/ worker[w].pc = "commit" /\ CommitRows(w)
          \/ UNCHANGED <<msg, job>>
      BY <2>1 DEF WorkerFault, LoadFails, ProviderAnswerLost, CommitFails,
                  CommitAnswerLost, Crash
    <2> QED
      BY <1>1, <1>5, <2>2
  <1>8. CASE \E d \in Dispatchers : Dispatch(d) \/ DispatchAbort(d)
    <2>1. PICK d \in Dispatchers : Dispatch(d) \/ DispatchAbort(d)
      BY <1>8
    <2>2. UNCHANGED msg /\ (DispatchMark(d) \/ UNCHANGED job)
      BY <2>1 DEF Dispatch, DispatchSelect, DispatchSend, DispatchMark,
                  DispatchAbort
    <2> QED
      BY <1>4, <1>5, <2>2
  <1>9. CASE RecoverExpiredOutboundLocks \/ Clock
    <2>1. UNCHANGED msg
      BY <1>9 DEF RecoverExpiredOutboundLocks, Clock, BecomesDue, LockExpires,
                  LockOverrun
    <2> QED
      BY <1>4, <1>9, <2>1
  <1>10. CASE DisableConnection \/ EnableConnection
    BY <1>5, <1>10 DEF DisableConnection, EnableConnection
  <1> QED
    BY <1>6, <1>7, <1>8, <1>9, <1>10 DEF Pipeline

(* How a worker may have moved: it did not, it is past the success batch or  *)
(* before the provider, or it has just learned something true.               *)
LEMMA KnowledgeIsGained ==
    ASSUME AcceptInv, Pipeline, NEW v \in Workers
    PROVE  \/ worker'[v] = worker[v]
           \/ worker'[v].pc = "idle"
           \/ /\ worker'[v].pc \in {"failing", "recording"}
              /\ Busy(v) /\ worker'[v].msg = worker[v].msg
           \/ /\ worker'[v].pc = "claimed"
              /\ worker'[v].msg \in Messages
              /\ job[worker'[v].msg].status # "none"
           \/ /\ Busy(v) /\ worker'[v].msg = worker[v].msg
              /\ worker'[v].to = msg[worker[v].msg].to
              /\ worker'[v].pc = "commit" /\ "external" \in worker'[v].to =>
                    accepted'[worker[v].msg] > 0
  <1>0. worker \in [Workers -> WorkerStates]
    BY DEF AcceptInv, LockInv, TypeInv, TypeOK
  <1>1. CASE \E w \in Workers, x \in Deliveries : Claim(w, x)
    <2>1. PICK w \in Workers, x \in Deliveries : Claim(w, x)
      BY <1>1
    <2>2. queue[x].msg \in Messages
      BY <2>1 DEF Claim, AcceptInv, LockInv, TypeInv, TypeOK, QueueEntries
    <2>3. job[queue[x].msg].status # "none"
      BY <2>1 DEF Claim, Claimable
    <2>4. worker' = [worker EXCEPT ![w] =
                        [IdleWorker EXCEPT !.pc = "claimed", !.delivery = x,
                           !.msg = queue[x].msg, !.id = queue[x].id]]
      BY <2>1 DEF Claim
    <2> QED
      BY <1>0, <2>2, <2>3, <2>4 DEF IdleWorker
  <1>2. CASE \E w \in Workers : LoadMessage(w)
    <2>1. PICK w \in Workers : LoadMessage(w)
      BY <1>2
    <2>2. worker[w] \in WorkerStates /\ Busy(w)
      BY <1>0, <2>1 DEF LoadMessage, Busy
    <2> DEFINE n == worker[w].msg
               pc == IF "external" \in msg[n].to THEN "sending" ELSE "commit"
    <2>3. worker' = [worker EXCEPT ![w].to = msg[n].to, ![w].pc = pc]
      BY <2>1 DEF LoadMessage
    <2>4. CASE v # w
      BY <1>0, <2>3, <2>4
    <2>5. CASE v = w
      <3>1. /\ worker'[w].pc = pc
            /\ worker'[w].to = msg[n].to
            /\ worker'[w].msg = n
        BY <1>0, <2>2, <2>3 DEF WorkerStates
      <3>2. pc = "commit" => "external" \notin msg[n].to
        OBVIOUS
      <3> QED
        BY <2>2, <2>5, <3>1, <3>2
    <2> QED
      BY <2>4, <2>5
  <1>3. CASE \E w \in Workers : ProviderAccepts(w)
    <2>1. PICK w \in Workers : ProviderAccepts(w)
      BY <1>3
    <2>2. worker[w] \in WorkerStates /\ Busy(w) /\ worker[w].msg \in Messages
      BY <1>0, <2>1
      DEF ProviderAccepts, Busy, AcceptInv, LockInv, TypeInv, Holding
    <2>3. worker' = [worker EXCEPT ![w].pc = "commit"]
      BY <2>1 DEF ProviderAccepts, Goto
    <2>4. accepted'[worker[w].msg] > 0
      <3>1. accepted[worker[w].msg] \in Nat
        BY <2>2 DEF AcceptInv, LockInv, TypeInv, TypeOK
      <3>2. accepted'[worker[w].msg] = accepted[worker[w].msg] + 1
        BY <2>1, <2>2 DEF ProviderAccepts, Accept, AcceptInv, LockInv, TypeInv, TypeOK
      <3> QED
        BY <3>1, <3>2
    <2>5. worker[w].to = msg[worker[w].msg].to
      BY <2>1, <2>2 DEF ProviderAccepts, AcceptInv, Knows
    <2>6. /\ worker'[w].msg = worker[w].msg
          /\ worker'[w].to = worker[w].to
          /\ v # w => worker'[v] = worker[v]
      BY <1>0, <2>2, <2>3 DEF WorkerStates
    <2> QED
      BY <2>2, <2>4, <2>5, <2>6
  <1>4. CASE \E w \in Workers : Busy(w) /\ worker' = [worker EXCEPT ![w] = IdleWorker]
    BY <1>0, <1>4 DEF IdleWorker
  <1>5. CASE \E w \in Workers : Busy(w) /\ \E error \in {"unavailable", "transient",
                                                       "rejected"} : Fail(w, error)
    <2>1. PICK w \in Workers : Busy(w) /\ \E error \in {"unavailable", "transient",
                                                     "rejected"} : Fail(w, error)
      BY <1>5
    <2>2. /\ v = w => worker'[v].pc = "failing" /\ worker'[v].msg = worker[v].msg
          /\ v # w => worker'[v] = worker[v]
      BY <1>0, <2>1 DEF Fail, WorkerStates
    <2> QED
      BY <2>1, <2>2
  <1>6. CASE \E w \in Workers : ReadAttempts(w)
    <2>1. PICK w \in Workers : ReadAttempts(w)
      BY <1>6
    <2>2. /\ v = w => worker'[v].pc = "recording" /\ worker'[v].msg = worker[v].msg
          /\ v # w => worker'[v] = worker[v]
      BY <1>0, <2>1 DEF ReadAttempts, WorkerStates
    <2>3. Busy(w)
      BY <2>1 DEF ReadAttempts, Busy
    <2> QED
      BY <2>2, <2>3
  <1>7. CASE UNCHANGED worker
    BY <1>7
  <1>8. ASSUME NEW w \in Workers, WorkerStep(w)
        PROVE  \/ \E x \in Deliveries : Claim(w, x)
               \/ LoadMessage(w) \/ ProviderAccepts(w) \/ ReadAttempts(w)
               \/ Busy(w) /\ worker' = [worker EXCEPT ![w] = IdleWorker]
               \/ Busy(w) /\ \E error \in {"unavailable", "transient", "rejected"} :
                               Fail(w, error)
               \/ UNCHANGED worker
    BY <1>8 DEF WorkerStep, SkipUnclaimable, LoadUnavailable, ProviderRefuses,
                Commit, RecordFailure, Busy
  <1>9. ASSUME NEW w \in Workers, WorkerFault(w)
        PROVE  \/ Busy(w) /\ worker' = [worker EXCEPT ![w] = IdleWorker]
               \/ Busy(w) /\ \E error \in {"unavailable", "transient", "rejected"} :
                               Fail(w, error)
    BY <1>9 DEF WorkerFault, LoadFails, ProviderAnswerLost, CommitFails,
                CommitAnswerLost, Crash, Busy
  <1>10. \/ \E w \in Workers : WorkerStep(w) \/ WorkerFault(w)
         \/ UNCHANGED worker
    BY DEF Pipeline, Dispatch, DispatchSelect, DispatchSend, DispatchMark,
           DispatchAbort, RecoverExpiredOutboundLocks, Clock, BecomesDue,
           LockExpires, LockOverrun, DisableConnection, EnableConnection
  <1>11. CASE \E w \in Workers : WorkerStep(w)
    <2>1. PICK w \in Workers : WorkerStep(w)
      BY <1>11
    <2> QED
      BY <1>1, <1>2, <1>3, <1>4, <1>5, <1>6, <1>7, <1>8, <2>1
  <1>12. CASE \E w \in Workers : WorkerFault(w)
    <2>1. PICK w \in Workers : WorkerFault(w)
      BY <1>12
    <2> QED
      BY <1>4, <1>5, <1>9, <2>1
  <1> QED
    BY <1>7, <1>10, <1>11, <1>12

LEMMA KnowsInPipeline ==
    ASSUME AcceptInv, Pipeline, NEW v \in Workers
    PROVE  Knows(v)'
  <1> DEFINE n == worker[v].msg
  <1>1. \A m \in Messages : RowMoves(msg[m], msg'[m])
    BY RowMovesInPipeline DEF AcceptInv
  <1>2. \A m \in Messages : accepted[m] > 0 => accepted'[m] > 0
    BY AcceptedGrows DEF AcceptInv, Next
  <1>3. Knows(v) /\ (Busy(v) => n \in Messages)
    BY DEF AcceptInv, LockInv, TypeInv, Holding
  <1>4. CASE worker'[v] = worker[v]
    BY <1>1, <1>2, <1>3, <1>4 DEF Knows, Busy, RowMoves
  <1>5. CASE worker'[v].pc = "idle"
    BY <1>5 DEF Knows, Busy
  <1>6. CASE /\ worker'[v].pc \in {"failing", "recording"}
             /\ Busy(v) /\ worker'[v].msg = worker[v].msg
    BY <1>1, <1>3, <1>6 DEF Knows, Busy, RowMoves
  <1>7. CASE /\ worker'[v].pc = "claimed"
             /\ worker'[v].msg \in Messages
             /\ job[worker'[v].msg].status # "none"
    BY <1>1, <1>7 DEF Knows, Busy, RowMoves, AcceptInv, LockInv, AbsentHasNoJob
  <1>8. CASE /\ Busy(v) /\ worker'[v].msg = worker[v].msg
             /\ worker'[v].to = msg[worker[v].msg].to
             /\ worker'[v].pc = "commit" /\ "external" \in worker'[v].to =>
                   accepted'[worker[v].msg] > 0
    BY <1>1, <1>3, <1>8 DEF Knows, Busy, RowMoves
  <1> QED
    BY <1>4, <1>5, <1>6, <1>7, <1>8, KnowledgeIsGained

LEMMA AcceptPipeline ==
    ASSUME AcceptInv, Pipeline
    PROVE  SuccessWasAccepted'
  <1> SUFFICES ASSUME NEW m \in Messages, "external" \in msg'[m].to,
                      job'[m].status = "succeeded" \/ msg'[m].status = "sent"
               PROVE  accepted'[m] > 0
    BY DEF SuccessWasAccepted
  <1>1. "external" \in msg[m].to
    BY RowMovesInPipeline DEF RowMoves, AcceptInv
  <1>2. accepted[m] > 0
    <2>1. CASE job[m].status = "succeeded" \/ msg[m].status = "sent"
      BY <1>1, <2>1 DEF AcceptInv, SuccessWasAccepted
    <2>2. CASE \E w \in Workers : worker[w].pc = "commit" /\ worker[w].msg = m
      BY <1>1, <2>2 DEF AcceptInv, Knows, Busy
    <2> QED
      BY <2>1, <2>2, SuccessComesFromCommit DEF AcceptInv
  <1> QED
    BY <1>2, AcceptedGrows DEF AcceptInv, Next

(* A message that enters is not yet anybody's success. *)
LEMMA AcceptCompose ==
    ASSUME AcceptInv, Compose
    PROVE  SuccessWasAccepted' /\ \A v \in Workers : Knows(v)'
  <1>1. PICK n \in Messages, to \in SUBSET Kinds :
           SendMessage(n, to) \/ ScheduleDraft(n, to)
    BY DEF Compose
  <1>2. UNCHANGED <<worker, accepted>> /\ msg[n].status = "absent"
    BY <1>1 DEF SendMessage, ScheduleDraft
  <1>3. \A m \in Messages : m # n => msg'[m] = msg[m] /\ job'[m] = job[m]
    BY <1>1 DEF SendMessage, ScheduleDraft, AcceptInv, LockInv, TypeInv, TypeOK
  <1>4. \A v \in Workers : Knows(v)'
    BY <1>2, <1>3 DEF Knows, Busy, AcceptInv, LockInv, TypeInv, Holding
  <1>5. job'[n].status # "succeeded"
    <2>1. job[n].status = "none"
      BY <1>2 DEF AcceptInv, LockInv, AbsentHasNoJob
    <2>2. \A due \in BOOLEAN : NewJob(1, due).status = "pending"
      BY DEF NewJob, NoJob
    <2> QED
      BY <1>1, <2>1, <2>2
      DEF SendMessage, ScheduleDraft, AcceptInv, LockInv, TypeInv, TypeOK
  <1>6. msg'[n].status = "sent" => "external" \notin msg'[n].to
    <2>1. \A status : /\ NewMessage(n, to, status).status = status
                      /\ NewMessage(n, to, status).to = to
      BY DEF NewMessage
    <2>2. PICK status \in {"draft", "queued", "sent"} :
             /\ msg' = [msg EXCEPT ![n] = NewMessage(n, to, status)]
             /\ status = "sent" => "external" \notin to
      BY <1>1 DEF SendMessage, ScheduleDraft
    <2>3. msg'[n] = NewMessage(n, to, status)
      BY <2>2 DEF AcceptInv, LockInv, TypeInv, TypeOK
    <2> QED
      BY <2>1, <2>2, <2>3
  <1>7. SuccessWasAccepted'
    BY <1>2, <1>3, <1>5, <1>6 DEF AcceptInv, SuccessWasAccepted
  <1> QED
    BY <1>4, <1>7

LEMMA AcceptStep == AcceptInv /\ [Next]_vars => AcceptInv'
  <1> SUFFICES ASSUME AcceptInv, [Next]_vars PROVE AcceptInv'
    OBVIOUS
  <1>1. LockInv'
    BY LockStep DEF AcceptInv
  <1>2. CASE UNCHANGED vars
    BY <1>1, <1>2 DEF vars, AcceptInv, SuccessWasAccepted, Knows, Busy
  <1>3. CASE Compose
    BY <1>1, <1>3, AcceptCompose DEF AcceptInv
  <1>4. CASE Pipeline
    BY <1>1, <1>4, AcceptPipeline, KnowsInPipeline DEF AcceptInv
  <1> QED
    BY <1>2, <1>3, <1>4 DEF Next

LEMMA AcceptInit == Init => AcceptInv
  BY LockInit
  DEF Init, AcceptInv, SuccessWasAccepted, Knows, Busy, NoJob, NoMessage,
      IdleWorker

(* No row reports success for external mail the provider never took, even    *)
(* when locks are overrun, answers are lost and deliveries are duplicated.   *)
THEOREM SuccessIsReal == Spec => []SuccessWasAccepted
  <1>1. AcceptInv => SuccessWasAccepted
    BY DEF AcceptInv
  <1> QED
    BY <1>1, AcceptInit, AcceptStep, PTL DEF Spec

-----------------------------------------------------------------------------
(* The sole sender.  Until a lock is overrun, a busy worker owns its job, or *)
(* it has settled it in a success batch of which it lost the answer.         *)
Owner(w) ==
    LET j == job[worker[w].msg] IN
    Busy(w) =>
        /\ j.status # "none" /\ j.id = worker[w].id
        /\ ~j.overran =>
             \/ j.token = w /\ j.live
             \/ j.status = "succeeded" /\ worker[w].pc \in {"failing", "recording"}

NoRival ==
    \A v, w \in Workers :
        /\ Busy(v) /\ Busy(w) /\ worker[v].msg = worker[w].msg
        /\ ~job[worker[v].msg].overran
        => v = w

(* Without a fault no lock is overrun, and an acceptance is followed by the  *)
(* success batch of the worker that got it.                                  *)
AcceptedOnce(m) ==
    /\ ~job[m].overran
    /\ accepted[m] <= 1
    /\ accepted[m] > 0 =>
         \/ job[m].status = "succeeded"
         \/ \E w \in Workers : worker[w].pc = "commit" /\ worker[w].msg = m

Counted == faults = 0 => \A m \in Messages : AcceptedOnce(m)

SenderInv == AcceptInv /\ (\A w \in Workers : Owner(w)) /\ NoRival /\ Counted

(* What OutcomeAgrees says of one message.                                   *)
Agrees(m) ==
    /\ msg[m].folder # "none" /\ msg[m].status # "queued"
    /\ job[m].status # "none" /\ ~job[m].overran
    => /\ msg[m].status = "sent" <=> job[m].status = "succeeded"
       /\ msg[m].status = "failed" <=> job[m].status = "failed"
       /\ msg[m].folder = "drafts" <=> msg[m].status # "sent"
       /\ msg[m].inbox <=> msg[m].status = "sent" /\ "internal" \in msg[m].to

OutcomeInv == SenderInv /\ OutcomeAgrees

LEMMA LockTypes ==
    ASSUME LockInv
    PROVE  /\ TypeInv
           /\ \A m \in Messages : job[m] \in JobRows /\ msg[m] \in MessageRows
                                  /\ accepted[m] \in Nat
           /\ \A w \in Workers : worker[w] \in WorkerStates
           /\ \A w \in Workers : Busy(w) => worker[w].msg \in Messages
           /\ job \in [Messages -> JobRows] /\ msg \in [Messages -> MessageRows]
           /\ accepted \in [Messages -> Nat]
           /\ worker \in [Workers -> WorkerStates]
           /\ faults \in Nat
  BY DEF LockInv, TypeInv, TypeOK, Holding

LEMMA SenderTypes ==
    ASSUME SenderInv
    PROVE  /\ LockInv /\ TypeInv
           /\ \A m \in Messages : job[m] \in JobRows /\ msg[m] \in MessageRows
                                  /\ accepted[m] \in Nat
           /\ \A w \in Workers : worker[w] \in WorkerStates /\ Knows(w) /\ Owner(w)
           /\ \A w \in Workers : Busy(w) => worker[w].msg \in Messages
           /\ job \in [Messages -> JobRows] /\ msg \in [Messages -> MessageRows]
           /\ worker \in [Workers -> WorkerStates]
           /\ faults \in Nat
  BY DEF SenderInv, AcceptInv, LockInv, TypeInv, TypeOK, Holding

(* A worker before its failure is decided owns the job, unless it is overrun.*)
LEMMA OwnerOwns ==
    ASSUME SenderInv, NEW w \in Workers, Busy(w), ~job[worker[w].msg].overran,
           worker[w].pc \notin {"failing", "recording"}
    PROVE  Owns(w)
  BY SenderTypes DEF Owner, Owns

(* What a step of the dispatchers, the recovery, the clocks and the          *)
(* administrator may make of a job: it settles nothing, and a lease whose    *)
(* owner runs stays or is overrun.                                           *)
JobRests(m) ==
    /\ job'[m].id = job[m].id
    /\ job[m].overran => job'[m].overran
    /\ faults' = 0 => job'[m].overran = job[m].overran
    /\ \A s \in {"none", "succeeded", "failed"} : job'[m].status = s <=> job[m].status = s
    /\ \A w \in Workers :
         worker[w].msg = m /\ Owns(w) /\ job[m].live /\ ~job'[m].overran
           => job'[m].token = w /\ job'[m].live

LEMMA QuietJobs ==
    ASSUME SenderInv, UNCHANGED <<worker, msg, accepted>>, faults' = 0 => faults = 0,
           \A m \in Messages : JobRests(m)
    PROVE  /\ \A w \in Workers : Owner(w)'
           /\ NoRival' /\ Counted'
           /\ \A m \in Messages : Agrees(m) => Agrees(m)'
  <1>1. ASSUME NEW w \in Workers PROVE Owner(w)'
    <2> SUFFICES ASSUME Busy(w) PROVE Owner(w)'
      BY DEF Owner, Busy
    <2>1. PICK m \in Messages : m = worker[w].msg
      BY SenderTypes
    <2>2. Owner(w) /\ JobRests(m)
      BY SenderTypes
    <2> QED
      BY <2>1, <2>2 DEF Owner, JobRests, Owns
  <1>2. NoRival'
    BY SenderTypes DEF SenderInv, NoRival, JobRests, Busy
  <1>3. Counted'
    <2> SUFFICES ASSUME faults' = 0, NEW m \in Messages PROVE AcceptedOnce(m)'
      BY DEF Counted
    <2>1. AcceptedOnce(m) /\ JobRests(m)
      BY DEF SenderInv, Counted
    <2> QED
      BY <2>1 DEF AcceptedOnce, JobRests
  <1>4. \A m \in Messages : Agrees(m) => Agrees(m)'
    BY DEF Agrees, JobRests
  <1> QED
    BY <1>1, <1>2, <1>3, <1>4

LEMMA FaultsCount ==
    ASSUME LockInv, Fault
    PROVE  faults' # 0
  BY LockTypes DEF Fault

(* The steps that leave the workers and the messages alone.                  *)
Background ==
    \/ \E d \in Dispatchers : Dispatch(d) \/ DispatchAbort(d)
    \/ \E w \in Workers, x \in Deliveries : SkipUnclaimable(w, x)
    \/ RecoverExpiredOutboundLocks
    \/ Clock
    \/ DisableConnection \/ EnableConnection

LEMMA BackgroundQuiet ==
    ASSUME LockInv, Background
    PROVE  UNCHANGED <<worker, msg, accepted>> /\ (faults' = faults \/ faults' # 0)
  BY FaultsCount
  DEF Background, Dispatch, DispatchSelect, DispatchSend, DispatchMark, DispatchAbort,
      SkipUnclaimable, RecoverExpiredOutboundLocks, Clock, BecomesDue, LockExpires,
      LockOverrun, DisableConnection, EnableConnection

LEMMA BackgroundRests ==
    ASSUME LockInv, Background, NEW m \in Messages
    PROVE  JobRests(m)
  <1>1. job[m] \in JobRows /\ LockFits(job[m]) /\ job \in [Messages -> JobRows]
    BY LockTypes DEF LockInv, LockMarksProcessing, LockFits
  <1>2. CASE job'[m] = job[m]
    BY <1>2 DEF JobRests, Owns
  <1>3. CASE \E d \in Dispatchers : DispatchMark(d)
    <2>1. \/ job'[m] = job[m]
          \/ job'[m] = [job[m] EXCEPT !.status = "enqueued"] /\ job[m].status = "pending"
      BY <1>1, <1>3 DEF DispatchMark
    <2>2. CASE /\ job'[m] = [job[m] EXCEPT !.status = "enqueued"]
               /\ job[m].status = "pending"
      BY <1>1, <2>2 DEF JobRests, Owns, JobRows
    <2> QED
      BY <1>2, <2>1, <2>2
  <1>4. CASE RecoverExpiredOutboundLocks
    <2>1. \/ job'[m] = job[m]
          \/ /\ job[m].status = "processing" /\ ~job[m].live
             /\ job'[m] = [job[m] EXCEPT !.status = "pending", !.token = None]
      BY <1>4 DEF RecoverExpiredOutboundLocks, Expired
    <2>2. CASE /\ job[m].status = "processing" /\ ~job[m].live
               /\ job'[m] = [job[m] EXCEPT !.status = "pending", !.token = None]
      BY <1>1, <2>2 DEF JobRests, Owns, JobRows
    <2> QED
      BY <1>2, <2>1, <2>2
  <1>5. CASE Clock
    <2>1. PICK n \in Messages : BecomesDue(n) \/ LockExpires(n) \/ LockOverrun(n)
      BY <1>5 DEF Clock
    <2>2. CASE n # m
      BY <1>1, <1>2, <2>1, <2>2 DEF BecomesDue, LockExpires, LockOverrun
    <2>3. CASE BecomesDue(m)
      <3>1. job'[m] = [job[m] EXCEPT !.due = TRUE]
        BY <1>1, <2>3 DEF BecomesDue
      <3> QED
        BY <1>1, <3>1 DEF JobRests, Owns, JobRows
    <2>4. CASE LockExpires(m)
      <3>1. /\ job'[m] = [job[m] EXCEPT !.live = FALSE]
            /\ \A w \in Workers : ~(Owns(w) /\ worker[w].msg = m)
        BY <1>1, <2>4 DEF LockExpires, Owned
      <3> QED
        BY <1>1, <3>1 DEF JobRests, JobRows
    <2>5. CASE LockOverrun(m)
      <3>1. job'[m] = [job[m] EXCEPT !.live = FALSE, !.overran = TRUE] /\ faults' # 0
        BY <1>1, <2>5, FaultsCount DEF LockOverrun
      <3> QED
        BY <1>1, <3>1 DEF JobRests, JobRows
    <2> QED
      BY <2>1, <2>2, <2>3, <2>4, <2>5
  <1>6. CASE \E d \in Dispatchers : Dispatch(d) \/ DispatchAbort(d)
    <2>1. \/ UNCHANGED job \/ \E d \in Dispatchers : DispatchMark(d)
      BY <1>6 DEF Dispatch, DispatchSelect, DispatchSend, DispatchAbort
    <2> QED
      BY <1>2, <1>3, <2>1
  <1>7. CASE \/ \E w \in Workers, x \in Deliveries : SkipUnclaimable(w, x)
             \/ DisableConnection \/ EnableConnection
    <2>1. UNCHANGED job
      BY <1>7 DEF SkipUnclaimable, DisableConnection, EnableConnection
    <2> QED
      BY <1>2, <2>1
  <1> QED
    BY <1>4, <1>5, <1>6, <1>7 DEF Background

LEMMA BackgroundKeepsSender ==
    ASSUME SenderInv, Background
    PROVE  /\ \A w \in Workers : Owner(w)'
           /\ NoRival' /\ Counted'
           /\ \A m \in Messages : Agrees(m) => Agrees(m)'
  BY SenderTypes, BackgroundQuiet, BackgroundRests, QuietJobs

(* A worker moves on with its job; without a fault it only leaves the success*)
(* batch by way of it, and goes there from the provider with an acceptance.  *)
MovesTo(w, r) ==
    /\ worker' = [worker EXCEPT ![w] = r]
    /\ r.pc # "idle" /\ r.msg = worker[w].msg /\ r.id = worker[w].id
    /\ worker[w].pc \in {"failing", "recording"} => r.pc \in {"failing", "recording"}
    /\ UNCHANGED <<msg, job, queue, disp>>
    /\ accepted' = accepted \/ Accept(w)
    /\ faults' = 0 =>
         /\ faults = 0
         /\ \/ accepted' = accepted /\ worker[w].pc # "commit"
            \/ worker[w].pc = "sending" /\ r.pc = "commit" /\ Accept(w)

LEMMA MovesOnKeepsSender ==
    ASSUME SenderInv, NEW w \in Workers, Busy(w), NEW r \in WorkerStates, MovesTo(w, r)
    PROVE  /\ \A v \in Workers : Owner(v)'
           /\ NoRival' /\ Counted'
           /\ \A m \in Messages : Agrees(m) => Agrees(m)'
  <1> USE DEF MovesTo
  <1>1. /\ worker'[w] = r /\ \A v \in Workers : v # w => worker'[v] = worker[v]
        /\ Owner(w)
    BY SenderTypes
  <1>2. \A v \in Workers : Owner(v)'
    BY <1>1, SenderTypes DEF Owner, Busy
  <1>3. NoRival'
    BY <1>1 DEF SenderInv, NoRival, Busy
  <1>4. \A m \in Messages : Agrees(m) => Agrees(m)'
    BY DEF Agrees
  <1>5. ASSUME faults' = 0, NEW m \in Messages PROVE AcceptedOnce(m)'
    <2>1. AcceptedOnce(m) /\ accepted[m] \in Nat
      BY <1>5, SenderTypes DEF SenderInv, Counted
    <2>2. CASE accepted' = accepted /\ worker[w].pc # "commit"
      BY <1>1, <2>1, <2>2 DEF AcceptedOnce
    <2>3. CASE worker[w].pc = "sending" /\ r.pc = "commit" /\ Accept(w)
      <3>1. CASE worker[w].msg # m
        <4>1. accepted'[m] = accepted[m]
          BY <2>3, <3>1, SenderTypes DEF Accept, LockInv, TypeInv, TypeOK
        <4> QED
          BY <1>1, <2>1, <2>3, <4>1 DEF AcceptedOnce
      <3>2. CASE worker[w].msg = m
        <4>1. accepted'[m] = accepted[m] + 1
          BY <2>3, <3>2, SenderTypes DEF Accept, LockInv, TypeInv, TypeOK
        <4>2. job[m].status # "succeeded"
          <5>1. job[m].token = w
            BY <1>1, <2>1, <2>3, <3>2 DEF Owner, AcceptedOnce
          <5> QED
            BY <5>1, SenderTypes DEF LockInv, LockMarksProcessing
        <4>3. ASSUME NEW v \in Workers, worker[v].pc = "commit", worker[v].msg = m
              PROVE  FALSE
          <5>1. Busy(v) /\ v # w
            BY <2>3, <4>3 DEF Busy
          <5> QED
            BY <2>1, <3>2, <4>3, <5>1 DEF SenderInv, NoRival, AcceptedOnce
        <4>4. accepted[m] = 0
          BY <2>1, <4>2, <4>3 DEF AcceptedOnce
        <4> QED
          BY <1>1, <2>1, <2>3, <3>2, <4>1, <4>4 DEF AcceptedOnce
      <3> QED
        BY <3>1, <3>2
    <2> QED
      BY <1>5, <2>2, <2>3
  <1> QED
    BY <1>2, <1>3, <1>4, <1>5 DEF Counted

LEMMA WorkerMovesOn ==
    ASSUME LockInv, NEW w \in Workers,
           \/ LoadMessage(w) \/ LoadUnavailable(w) \/ LoadFails(w)
           \/ ProviderAccepts(w) \/ ProviderAnswerLost(w)
           \/ \E error \in {"transient", "rejected"} : ProviderRefuses(w, error)
           \/ CommitFails(w) \/ ReadAttempts(w)
    PROVE  Busy(w) /\ \E r \in WorkerStates : MovesTo(w, r)
  <1>1. worker[w] \in WorkerStates /\ Busy(w)
           /\ UNCHANGED <<msg, job, queue, disp>>
    BY LockTypes
    DEF LoadMessage, LoadUnavailable, LoadFails, ProviderAccepts, ProviderAnswerLost,
        ProviderRefuses, CommitFails, ReadAttempts, Busy
  <1>2. ASSUME NEW pc \in {"claimed", "sending", "commit", "failing", "recording"},
               NEW to \in SUBSET Kinds,
               NEW error \in {"none", "unavailable", "transient", "rejected"},
               NEW giveUp \in BOOLEAN,
               worker' = [worker EXCEPT ![w] =
                   [worker[w] EXCEPT !.pc = pc, !.to = to, !.error = error,
                                     !.giveUp = giveUp]],
               worker[w].pc \in {"failing", "recording"} => pc \in {"failing", "recording"},
               accepted' = accepted \/ Accept(w),
               faults' = 0 =>
                 /\ faults = 0
                 /\ \/ accepted' = accepted /\ worker[w].pc # "commit"
                    \/ worker[w].pc = "sending" /\ pc = "commit" /\ Accept(w)
        PROVE  \E r \in WorkerStates : MovesTo(w, r)
    <2>1. PICK r \in WorkerStates :
            r = [worker[w] EXCEPT !.pc = pc, !.to = to, !.error = error, !.giveUp = giveUp]
      <3>1. [worker[w] EXCEPT !.pc = pc, !.to = to, !.error = error, !.giveUp = giveUp]
               \in WorkerStates
        BY <1>1, <1>2 DEF WorkerStates
      <3> QED
        BY <3>1
    <2>2. r.pc = pc /\ r.msg = worker[w].msg /\ r.id = worker[w].id
      BY <1>1, <1>2, <2>1 DEF WorkerStates
    <2>3. r.pc # "idle"
      BY <1>2, <2>2
    <2> QED
      BY <1>1, <1>2, <2>1, <2>2, <2>3 DEF MovesTo
  <1>3. ASSUME NEW error \in {"unavailable", "transient", "rejected"}, Fail(w, error),
               accepted' = accepted \/ Accept(w),
               faults' = 0 => faults = 0 /\ accepted' = accepted /\ worker[w].pc # "commit"
        PROVE  \E r \in WorkerStates : MovesTo(w, r)
    <2>1. worker' = [worker EXCEPT ![w] =
               [worker[w] EXCEPT !.pc = "failing", !.to = worker[w].to,
                                 !.error = error, !.giveUp = (error # "transient")]]
      BY <1>1, <1>3, LockTypes DEF Fail, WorkerStates
    <2>2. worker[w].to \in SUBSET Kinds
      BY <1>1 DEF WorkerStates
    <2> QED
      BY <1>2, <1>3, <2>1, <2>2
  <1>4. CASE LoadMessage(w)
    <2>1. PICK m \in Messages : m = worker[w].msg
      BY <1>1, LockTypes
    <2>2. PICK pc \in {"sending", "commit"} :
            pc = IF "external" \in msg[m].to THEN "sending" ELSE "commit"
      OBVIOUS
    <2>3. worker' = [worker EXCEPT ![w] =
               [worker[w] EXCEPT !.pc = pc, !.to = msg[m].to, !.error = worker[w].error,
                                 !.giveUp = worker[w].giveUp]]
      BY <1>1, <1>4, <2>1, <2>2, LockTypes DEF LoadMessage, WorkerStates
    <2>4. /\ msg[m].to \in SUBSET Kinds /\ worker[w].giveUp \in BOOLEAN
          /\ worker[w].error \in {"none", "unavailable", "transient", "rejected"}
      BY <1>1, LockTypes DEF WorkerStates, MessageRows
    <2>5. worker[w].pc = "claimed" /\ UNCHANGED <<accepted, faults>>
      BY <1>4 DEF LoadMessage
    <2> QED
      BY <1>1, <1>2, <2>3, <2>4, <2>5
  <1>5. CASE LoadUnavailable(w)
    <2>1. Fail(w, "unavailable") /\ worker[w].pc = "claimed" /\ UNCHANGED <<accepted, faults>>
      BY <1>5 DEF LoadUnavailable
    <2> QED
      BY <1>1, <1>3, <2>1
  <1>6. CASE LoadFails(w) \/ ProviderAnswerLost(w) \/ CommitFails(w)
    <2>1. Fail(w, "transient") /\ faults' # 0 /\ (accepted' = accepted \/ Accept(w))
      BY <1>6, FaultsCount DEF LoadFails, ProviderAnswerLost, CommitFails
    <2> QED
      BY <1>1, <1>3, <2>1
  <1>7. CASE \E error \in {"transient", "rejected"} : ProviderRefuses(w, error)
    <2>1. PICK error \in {"transient", "rejected"} : ProviderRefuses(w, error)
      BY <1>7
    <2>2. Fail(w, error) /\ worker[w].pc = "sending" /\ UNCHANGED <<accepted, faults>>
      BY <2>1 DEF ProviderRefuses
    <2> QED
      BY <1>1, <1>3, <2>2
  <1>8. CASE ProviderAccepts(w)
    <2>1. worker' = [worker EXCEPT ![w] =
                [worker[w] EXCEPT !.pc = "commit", !.to = worker[w].to,
                                  !.error = worker[w].error, !.giveUp = worker[w].giveUp]]
      BY <1>1, <1>8, LockTypes DEF ProviderAccepts, Goto, WorkerStates
    <2>2. /\ worker[w].to \in SUBSET Kinds /\ worker[w].giveUp \in BOOLEAN
          /\ worker[w].error \in {"none", "unavailable", "transient", "rejected"}
      BY <1>1 DEF WorkerStates
    <2>3. worker[w].pc = "sending" /\ Accept(w) /\ UNCHANGED faults
      BY <1>8 DEF ProviderAccepts
    <2> QED
      BY <1>1, <1>2, <2>1, <2>2, <2>3
  <1>9. CASE ReadAttempts(w)
    <2> DEFINE giveUp == \/ worker[w].giveUp
                         \/ ~Owns(w)
                         \/ job[worker[w].msg].attempts >= AttemptLimit
    <2>1. PICK g \in BOOLEAN :
             worker' = [worker EXCEPT ![w].pc = "recording", ![w].giveUp = g]
      <3>1. giveUp \in BOOLEAN
        BY <1>1 DEF WorkerStates
      <3>2. worker' = [worker EXCEPT ![w].pc = "recording", ![w].giveUp = giveUp]
        BY <1>9 DEF ReadAttempts
      <3> QED
        BY <3>1, <3>2
    <2>2. worker' = [worker EXCEPT ![w] =
                [worker[w] EXCEPT !.pc = "recording", !.to = worker[w].to,
                                  !.error = worker[w].error, !.giveUp = g]]
      BY <1>1, <2>1, LockTypes DEF WorkerStates
    <2>3. /\ worker[w].to \in SUBSET Kinds
          /\ worker[w].error \in {"none", "unavailable", "transient", "rejected"}
      BY <1>1 DEF WorkerStates
    <2>4. worker[w].pc = "failing" /\ UNCHANGED <<accepted, faults>>
      BY <1>9 DEF ReadAttempts
    <2> HIDE DEF giveUp
    <2> QED
      BY <1>1, <1>2, <2>2, <2>3, <2>4
  <1> QED
    BY <1>1, <1>4, <1>5, <1>6, <1>7, <1>8, <1>9

-----------------------------------------------------------------------------
(* The job of worker w and the rows of its message, as its two batches leave *)
(* them: settled or waiting again when it owns the job, untouched when not.  *)
Releases(w, status) ==
    LET m == worker[w].msg IN
    /\ \A n \in Messages : n # m => job'[n] = job[n]
    /\ IF Owns(w)
       THEN /\ job'[m].id = job[m].id /\ job'[m].overran = job[m].overran
            /\ job'[m].status = status /\ job[m].status = "processing"
       ELSE job'[m] = job[m]

LEMMA CommitReleases ==
    ASSUME LockInv, NEW w \in Workers, Busy(w), CommitRows(w)
    PROVE  Releases(w, "succeeded")
  <1>1. PICK m \in Messages : m = worker[w].msg
    BY LockTypes
  <1>2. CASE Owns(w)
    <2>1. job' = [job EXCEPT ![m] = [job[m] EXCEPT
                    !.status = "succeeded", !.token = None, !.live = FALSE]]
      BY <1>1, <1>2, LockTypes DEF CommitRows
    <2>2. job[m].status = "processing"
      BY <1>1, <1>2, LockTypes, OwnedIsProcessing
    <2> QED
      BY <1>1, <1>2, <2>1, <2>2, LockTypes DEF Releases, JobRows
  <1>3. CASE ~Owns(w)
    BY <1>1, <1>3 DEF CommitRows, Releases
  <1> QED
    BY <1>2, <1>3

LEMMA FailureReleases ==
    ASSUME LockInv, NEW w \in Workers, RecordFailure(w)
    PROVE  Releases(w, IF worker[w].giveUp THEN "failed" ELSE "pending")
  <1>1. PICK m \in Messages : m = worker[w].msg
    BY LockTypes DEF RecordFailure, Busy
  <1>2. CASE Owns(w)
    <2>1. job' = [job EXCEPT ![m] = [job[m] EXCEPT
                    !.status = IF worker[w].giveUp THEN "failed" ELSE "pending",
                    !.due = FALSE, !.token = None, !.live = FALSE,
                    !.lastError = worker[w].error]]
      BY <1>1, <1>2, LockTypes DEF RecordFailure
    <2>2. job[m].status = "processing"
      BY <1>1, <1>2, LockTypes, OwnedIsProcessing
    <2> QED
      BY <1>1, <1>2, <2>1, <2>2, LockTypes DEF Releases, JobRows
  <1>3. CASE ~Owns(w)
    BY <1>1, <1>3 DEF RecordFailure, Releases
  <1> QED
    BY <1>2, <1>3

(* A worker ends: after the success batch, after its failure is recorded, or *)
(* in a crash.                                                               *)
LEMMA EndKeepsSender ==
    ASSUME SenderInv, NEW w \in Workers, Busy(w), NEW status \in {"succeeded", "failed", "pending"},
           Releases(w, status) \/ UNCHANGED job,
           worker' = [worker EXCEPT ![w] = IdleWorker],
           UNCHANGED accepted,
           faults' = 0 =>
             /\ faults = 0
             /\ worker[w].pc = "commit" => Releases(w, "succeeded")
    PROVE  (\A v \in Workers : Owner(v)') /\ NoRival' /\ Counted'
  <1>1. /\ worker'[w] = IdleWorker /\ \A v \in Workers : v # w => worker'[v] = worker[v]
        /\ ~Busy(w)'
    BY SenderTypes DEF IdleWorker, Busy
  <1>2. PICK m \in Messages : m = worker[w].msg
    BY SenderTypes
  <1>3. ASSUME NEW v \in Workers, v # w, Busy(v) PROVE Owner(v)'
    <2>1. worker'[v] = worker[v] /\ Owner(v)
      BY <1>1, <1>3, SenderTypes
    <2>2. PICK n \in Messages : n = worker[v].msg
      BY <1>3, SenderTypes
    <2>3. CASE job'[n] = job[n]
      BY <2>1, <2>2, <2>3 DEF Owner, Busy
    <2>4. CASE job'[n] # job[n]
      <3>1. n = m /\ job'[m].id = job[m].id /\ job'[m].overran = job[m].overran
            /\ job'[m].status # "none"
        BY <1>2, <2>4 DEF Releases
      <3>2. job[m].overran
        BY <1>2, <1>3, <2>2, <3>1 DEF SenderInv, NoRival
      <3> QED
        BY <2>1, <2>2, <3>1, <3>2 DEF Owner, Busy
    <2> QED
      BY <2>3, <2>4
  <1>4. \A v \in Workers : Owner(v)'
    BY <1>1, <1>3 DEF Owner, Busy
  <1>5. \A n \in Messages : job'[n].overran = job[n].overran
    BY <1>2 DEF Releases
  <1>6. NoRival'
    BY <1>1, <1>5, SenderTypes DEF SenderInv, NoRival, Busy
  <1>7. ASSUME faults' = 0, NEW n \in Messages PROVE AcceptedOnce(n)'
    <2>1. AcceptedOnce(n)
      BY <1>7 DEF SenderInv, Counted
    <2>2. job[n].status = "succeeded" => job'[n].status = "succeeded"
      BY <1>2 DEF Releases
    <2>3. CASE \E v \in Workers : v # w /\ worker[v].pc = "commit" /\ worker[v].msg = n
      BY <1>1, <1>5, <2>1, <2>3 DEF AcceptedOnce
    <2>4. CASE worker[w].pc = "commit" /\ n = m
      <3>1. Releases(w, "succeeded") /\ Owns(w)
        BY <1>2, <1>7, <2>1, <2>4, OwnerOwns DEF AcceptedOnce
      <3> QED
        BY <1>2, <1>5, <2>1, <2>4, <3>1 DEF AcceptedOnce, Releases
    <2> QED
      BY <1>1, <1>2, <1>5, <2>1, <2>2, <2>3, <2>4 DEF AcceptedOnce
  <1> QED
    BY <1>4, <1>6, <1>7 DEF Counted

LEMMA EndingWorker ==
    ASSUME SenderInv, NEW w \in Workers, Commit(w) \/ RecordFailure(w) \/ Crash(w)
    PROVE  (\A v \in Workers : Owner(v)') /\ NoRival' /\ Counted'
  <1>1. Busy(w) /\ worker' = [worker EXCEPT ![w] = IdleWorker] /\ UNCHANGED accepted
    BY DEF Commit, RecordFailure, Crash, Busy
  <1>2. CASE Commit(w)
    <2>1. msg[worker[w].msg].status # "absent"
      BY <1>1, SenderTypes DEF Knows
    <2>2. CommitRows(w) /\ UNCHANGED faults
      BY <1>2, <2>1 DEF Commit
    <2> QED
      BY <1>1, <2>2, SenderTypes, CommitReleases, EndKeepsSender
  <1>3. CASE RecordFailure(w)
    <2>1. PICK status \in {"failed", "pending"} :
            status = IF worker[w].giveUp THEN "failed" ELSE "pending"
      OBVIOUS
    <2>2. Releases(w, status) /\ worker[w].pc = "recording" /\ UNCHANGED faults
      BY <1>3, <2>1, FailureReleases, SenderTypes DEF RecordFailure
    <2> QED
      BY <1>1, <2>2, EndKeepsSender
  <1>4. CASE Crash(w)
    <2>1. faults' # 0 /\ UNCHANGED job
      BY <1>4, SenderTypes, FaultsCount DEF Crash
    <2> QED
      BY <1>1, <2>1, EndKeepsSender
  <1> QED
    BY <1>2, <1>3, <1>4

LEMMA LostAnswerKeepsSender ==
    ASSUME SenderInv, NEW w \in Workers, CommitAnswerLost(w)
    PROVE  (\A v \in Workers : Owner(v)') /\ NoRival' /\ Counted'
  <1>1. /\ Busy(w) /\ worker[w].pc = "commit" /\ CommitRows(w) /\ Fail(w, "transient")
        /\ faults' # 0
    BY SenderTypes, FaultsCount DEF CommitAnswerLost, Busy
  <1>2. Releases(w, "succeeded")
    BY <1>1, SenderTypes, CommitReleases
  <1>3. /\ worker'[w].pc = "failing" /\ worker'[w].msg = worker[w].msg
        /\ worker'[w].id = worker[w].id
        /\ \A v \in Workers : v # w => worker'[v] = worker[v]
    BY <1>1, SenderTypes DEF Fail, WorkerStates
  <1>4. PICK m \in Messages : m = worker[w].msg
    BY <1>1, SenderTypes
  <1>5. \A n \in Messages : /\ job'[n].overran = job[n].overran /\ job'[n].id = job[n].id
                            /\ job[n].status # "none" => job'[n].status # "none"
    BY <1>2, <1>4 DEF Releases
  <1>6. Owner(w)'
    <2>1. Owner(w)
      BY SenderTypes
    <2>2. ~job[m].overran => job'[m].status = "succeeded"
      BY <1>1, <1>2, <1>4, OwnerOwns DEF Releases
    <2> QED
      BY <1>1, <1>3, <1>4, <1>5, <2>1, <2>2 DEF Owner, Busy
  <1>7. ASSUME NEW v \in Workers, v # w, Busy(v) PROVE Owner(v)'
    <2>1. worker'[v] = worker[v] /\ Owner(v)
      BY <1>3, <1>7, SenderTypes
    <2>2. PICK n \in Messages : n = worker[v].msg
      BY <1>7, SenderTypes
    <2>3. CASE n = m
      <3>1. job[m].overran
        BY <1>1, <1>4, <1>7, <2>2, <2>3 DEF SenderInv, NoRival
      <3> QED
        BY <1>5, <2>1, <2>2, <2>3, <3>1 DEF Owner, Busy
    <2>4. CASE n # m
      BY <1>2, <1>4, <2>1, <2>2, <2>4 DEF Owner, Busy, Releases
    <2> QED
      BY <2>3, <2>4
  <1>8. \A v \in Workers : Owner(v)'
    BY <1>3, <1>6, <1>7 DEF Owner, Busy
  <1>9. NoRival'
    BY <1>1, <1>3, <1>5, SenderTypes DEF SenderInv, NoRival, Busy
  <1> QED
    BY <1>1, <1>8, <1>9 DEF Counted

(* The claim finds a job that nobody owns, unless a lock was overrun.        *)
LEMMA ClaimKeepsSender ==
    ASSUME SenderInv, NEW w \in Workers, NEW x \in Deliveries, Claim(w, x)
    PROVE  /\ \A v \in Workers : Owner(v)'
           /\ NoRival' /\ Counted'
           /\ \A m \in Messages : Agrees(m) => Agrees(m)'
  <1>1. PICK m \in Messages : m = queue[x].msg
    BY SenderTypes DEF Claim, TypeInv, TypeOK, QueueEntries
  <1>2. /\ ~Busy(w) /\ job[m].id = queue[x].id
        /\ job[m].status \in {"pending", "enqueued"} /\ (job[m].token = None \/ ~job[m].live)
        /\ UNCHANGED <<msg, accepted, faults>>
    BY <1>1 DEF Claim, Claimable
  <1>3. /\ job' = [job EXCEPT ![m] = [job[m] EXCEPT !.status = "processing",
                     !.attempts = job[m].attempts + 1, !.token = w, !.live = TRUE]]
        /\ worker' = [worker EXCEPT ![w] =
             [IdleWorker EXCEPT !.pc = "claimed", !.delivery = x, !.msg = m, !.id = queue[x].id]]
    BY <1>1, SenderTypes DEF Claim
  <1>4. /\ job'[m].status = "processing" /\ job'[m].token = w /\ job'[m].live
        /\ job'[m].id = job[m].id /\ job'[m].overran = job[m].overran
        /\ \A n \in Messages : n # m => job'[n] = job[n]
    BY <1>3, SenderTypes DEF JobRows
  <1>5. /\ worker'[w].pc = "claimed" /\ worker'[w].msg = m /\ worker'[w].id = job[m].id
        /\ \A v \in Workers : v # w => worker'[v] = worker[v]
    BY <1>2, <1>3, SenderTypes DEF IdleWorker
  <1>6. ASSUME NEW v \in Workers, Busy(v), worker[v].msg = m PROVE job[m].overran
    BY <1>2, <1>6, SenderTypes, NoneAssumption DEF Owner, LockInv, LockMarksProcessing
  <1>7. ASSUME NEW v \in Workers PROVE Owner(v)'
    <2>1. CASE v = w
      BY <1>4, <1>5, <2>1 DEF Owner, Busy
    <2>2. CASE v # w /\ Busy(v)
      <3>1. Owner(v) /\ worker'[v] = worker[v] /\ worker[v].msg \in Messages
        BY <1>5, <2>2, SenderTypes
      <3>2. CASE worker[v].msg = m
        BY <1>4, <1>6, <2>2, <3>1, <3>2 DEF Owner, Busy
      <3>3. CASE worker[v].msg # m
        BY <1>4, <2>2, <3>1, <3>3 DEF Owner, Busy
      <3> QED
        BY <3>2, <3>3
    <2>3. CASE v # w /\ ~Busy(v)
      BY <1>5, <2>3 DEF Owner, Busy
    <2> QED
      BY <2>1, <2>2, <2>3
  <1>8. \A n \in Messages : job'[n].overran = job[n].overran
    BY <1>4
  <1>9. NoRival'
    BY <1>2, <1>5, <1>6, <1>8, SenderTypes DEF SenderInv, NoRival, Busy
  <1>10. ASSUME faults' = 0, NEW n \in Messages PROVE AcceptedOnce(n)'
    <2>1. AcceptedOnce(n)
      BY <1>2, <1>10 DEF SenderInv, Counted
    <2>2. job[n].status = "succeeded" => job'[n].status = "succeeded"
      BY <1>2, <1>4
    <2>3. \A v \in Workers : worker[v].pc = "commit" => worker'[v] = worker[v]
      BY <1>2, <1>5 DEF Busy
    <2> QED
      BY <1>2, <1>8, <2>1, <2>2, <2>3 DEF AcceptedOnce
  <1>11. \A n \in Messages : Agrees(n) => Agrees(n)'
    BY <1>2, <1>4 DEF Agrees
  <1> QED
    BY <1>7, <1>9, <1>10, <1>11 DEF Counted

(* A message that enters has no worker, no acceptance and a fresh job.       *)
LEMMA ComposeKeepsSender ==
    ASSUME SenderInv, Compose
    PROVE  /\ \A v \in Workers : Owner(v)'
           /\ NoRival' /\ Counted'
           /\ \A m \in Messages : Agrees(m) => Agrees(m)'
  <1>1. PICK n \in Messages, to \in SUBSET Kinds : SendMessage(n, to) \/ ScheduleDraft(n, to)
    BY DEF Compose
  <1>2. /\ UNCHANGED <<worker, accepted, faults>>
        /\ \A m \in Messages : m # n => job'[m] = job[m] /\ msg'[m] = msg[m]
    BY <1>1, SenderTypes DEF SendMessage, ScheduleDraft
  <1>3. job[n].status = "none" /\ msg[n].status = "absent"
    BY <1>1, SenderTypes DEF SendMessage, ScheduleDraft, LockInv, AbsentHasNoJob
  <1>4. \A v \in Workers : Busy(v) => worker[v].msg # n
    BY <1>3, SenderTypes DEF Owner
  <1>5. \A v \in Workers : Owner(v)'
    BY <1>2, <1>4, SenderTypes DEF Owner, Busy
  <1>6. NoRival'
    BY <1>2, <1>4, SenderTypes DEF SenderInv, NoRival, Busy
  <1>7. \/ job'[n] = job[n] /\ msg'[n].status # "draft" /\ SendMessage(n, to)
        \/ \E due \in BOOLEAN : job'[n] = NewJob(1, due) /\ SendMessage(n, to)
                                /\ msg'[n].status = "queued"
        \/ job'[n] = NewJob(1, FALSE) /\ msg'[n] = NewMessage(n, to, "draft")
    <2>1. \A status : NewMessage(n, to, status).status = status
      BY DEF NewMessage
    <2>2. CASE SendMessage(n, to) /\ "external" \in to
      <3>1. msg'[n] = NewMessage(n, to, "queued") /\ job'[n] = NewJob(1, TRUE)
        BY <2>2, SenderTypes DEF SendMessage
      <3> QED
        BY <2>1, <2>2, <3>1
    <2>3. CASE SendMessage(n, to) /\ "external" \notin to
      <3>1. msg'[n] = NewMessage(n, to, "sent") /\ job'[n] = job[n]
        BY <2>3, SenderTypes DEF SendMessage
      <3> QED
        BY <2>1, <2>3, <3>1
    <2>4. CASE ScheduleDraft(n, to)
      BY <2>4, SenderTypes DEF ScheduleDraft
    <2> QED
      BY <1>1, <2>2, <2>3, <2>4
  <1>8. \A due \in BOOLEAN : ~NewJob(1, due).overran /\ NewJob(1, due).status = "pending"
    BY DEF NewJob, NoJob
  <1>9. ASSUME faults' = 0, NEW m \in Messages PROVE AcceptedOnce(m)'
    <2>1. AcceptedOnce(m) /\ accepted[m] \in Nat
      BY <1>2, <1>9, SenderTypes DEF SenderInv, Counted
    <2>2. CASE m # n
      BY <1>2, <2>1, <2>2 DEF AcceptedOnce
    <2>3. CASE m = n
      <3>1. accepted[n] = 0
        BY <1>3, <1>4, <2>1, <2>3 DEF AcceptedOnce, Busy
      <3>2. ~job'[n].overran
        BY <1>7, <1>8, <2>1, <2>3 DEF AcceptedOnce
      <3> QED
        BY <1>2, <2>3, <3>1, <3>2 DEF AcceptedOnce
    <2> QED
      BY <2>2, <2>3
  <1>10. ASSUME NEW m \in Messages, Agrees(m) PROVE Agrees(m)'
    <2>1. CASE m # n
      BY <1>2, <1>10, <2>1 DEF Agrees
    <2>2. CASE m = n
      <3>1. CASE job'[n] = job[n]
        BY <1>3, <2>2, <3>1 DEF Agrees
      <3>2. CASE msg'[n].status = "queued"
        BY <2>2, <3>2 DEF Agrees
      <3>3. CASE job'[n] = NewJob(1, FALSE) /\ msg'[n] = NewMessage(n, to, "draft")
        <4>1. /\ msg'[n].status = "draft" /\ msg'[n].folder = "drafts"
              /\ msg'[n].inbox = ("draft" # "draft" /\ "internal" \in to)
          BY <3>3 DEF NewMessage
        <4>2. job'[n].status = "pending"
          BY <1>8, <3>3
        <4> QED
          BY <2>2, <4>1, <4>2 DEF Agrees
      <3> QED
        BY <1>7, <3>1, <3>2, <3>3
    <2> QED
      BY <2>1, <2>2
  <1> QED
    BY <1>5, <1>6, <1>9, <1>10 DEF Counted

-----------------------------------------------------------------------------
(* The outcome: what each batch makes of the message, beside the job.        *)
LEMMA CommitAgrees ==
    ASSUME SenderInv, NEW w \in Workers, worker[w].pc = "commit", CommitRows(w),
           NEW n \in Messages, Agrees(n)
    PROVE  Agrees(n)'
  <1>1. Busy(w)
    BY DEF Busy
  <1>2. PICK m \in Messages : m = worker[w].msg
    BY <1>1, SenderTypes
  <1>3. Releases(w, "succeeded")
    BY <1>1, SenderTypes, CommitReleases
  <1>4. msg' = [msg EXCEPT ![m] = SentRow(msg[m], msg[m].to)]
    BY <1>1, <1>2, SenderTypes DEF CommitRows, Knows
  <1>5. CASE n # m
    BY <1>2, <1>3, <1>4, <1>5, SenderTypes DEF Agrees, Releases
  <1>6. CASE n = m
    <2> SUFFICES ASSUME /\ msg'[m].folder # "none" /\ msg'[m].status # "queued"
                        /\ job'[m].status # "none" /\ ~job'[m].overran
                 PROVE  Agrees(m)'
      BY <1>6 DEF Agrees
    <2>1. /\ job'[m].overran = job[m].overran /\ (Owns(w) => job[m].status = "processing")
          /\ (Owns(w) => job'[m].status = "succeeded")
      BY <1>2, <1>3 DEF Releases
    <2>2. Owns(w)
      BY <1>1, <1>2, <2>1, OwnerOwns
    <2>3. /\ msg[m].status \in {"absent", "draft", "queued", "sent", "failed"}
          /\ msg[m].folder \in {"none", "drafts", "sent"} /\ msg[m].inbox \in BOOLEAN
          /\ msg[m].status # "absent"
      BY <1>1, <1>2, SenderTypes DEF MessageRows, Knows
    <2>4. /\ msg'[m].status = IF msg[m].status = "draft" THEN "sent" ELSE msg[m].status
          /\ msg'[m].folder = IF msg[m].folder = "drafts" THEN "sent" ELSE msg[m].folder
          /\ msg'[m].to = msg[m].to
          /\ msg'[m].inbox <=> msg[m].inbox \/ "internal" \in msg[m].to
      BY <1>4, SenderTypes DEF SentRow, MessageRows
    <2>5. /\ msg[m].status = "draft" /\ msg[m].folder = "drafts" /\ ~msg[m].inbox
      BY <1>6, <2>1, <2>2, <2>3, <2>4 DEF Agrees
    <2> QED
      BY <2>1, <2>2, <2>4, <2>5 DEF Agrees
  <1> QED
    BY <1>5, <1>6

LEMMA FailureAgrees ==
    ASSUME SenderInv, NEW w \in Workers, RecordFailure(w), NEW n \in Messages, Agrees(n)
    PROVE  Agrees(n)'
  <1>1. Busy(w)
    BY DEF RecordFailure, Busy
  <1>2. PICK m \in Messages : m = worker[w].msg
    BY <1>1, SenderTypes
  <1>3. PICK status \in {"failed", "pending"} :
          status = IF worker[w].giveUp THEN "failed" ELSE "pending"
    OBVIOUS
  <1>4. Releases(w, status)
    BY <1>3, SenderTypes, FailureReleases
  <1>5. msg' = [msg EXCEPT ![m] = FailedRow(msg[m], worker[w].giveUp)]
    BY <1>2 DEF RecordFailure
  <1>6. CASE n # m
    BY <1>2, <1>4, <1>5, <1>6, SenderTypes DEF Agrees, Releases
  <1>7. CASE n = m
    <2> SUFFICES ASSUME /\ msg'[m].folder # "none" /\ msg'[m].status # "queued"
                        /\ job'[m].status # "none" /\ ~job'[m].overran
                 PROVE  Agrees(m)'
      BY <1>7 DEF Agrees
    <2>1. /\ msg'[m].status = IF status = "failed" /\ msg[m].status = "draft"
                              THEN "failed" ELSE msg[m].status
          /\ msg'[m].folder = msg[m].folder /\ msg'[m].to = msg[m].to
          /\ msg'[m].inbox = msg[m].inbox
      BY <1>3, <1>5, SenderTypes DEF FailedRow, MessageRows
    <2>2. msg[m].status \in {"absent", "draft", "queued", "sent", "failed"}
          /\ msg[m].status # "absent"
      BY <1>1, <1>2, SenderTypes DEF MessageRows, Knows
    <2>3. job'[m].overran = job[m].overran /\ (job[m].status = "none" => job'[m].status = "none")
      BY <1>2, <1>4 DEF Releases
    <2>4. CASE Owns(w)
      <3>1. job[m].status = "processing" /\ job'[m].status = status
        BY <1>2, <1>4, <2>4 DEF Releases
      <3>2. msg[m].status = "draft" /\ msg[m].folder = "drafts" /\ ~msg[m].inbox
        BY <1>7, <2>1, <2>2, <2>3, <3>1 DEF Agrees
      <3> QED
        BY <1>3, <2>1, <3>1, <3>2 DEF Agrees
    <2>5. CASE ~Owns(w)
      <3>1. job'[m] = job[m]
        BY <1>2, <1>4, <2>5 DEF Releases
      <3>2. job[m].status = "succeeded"
        BY <1>1, <1>2, <2>3, <2>5, SenderTypes DEF Owner, Owns
      <3>3. msg[m].status = "sent"
        BY <1>7, <2>1, <2>2, <2>3, <3>1, <3>2 DEF Agrees
      <3> QED
        BY <1>7, <2>1, <3>1, <3>3 DEF Agrees
    <2> QED
      BY <2>4, <2>5
  <1> QED
    BY <1>6, <1>7

LEMMA SenderStep ==
    ASSUME SenderInv, [Next]_vars
    PROVE  SenderInv' /\ \A m \in Messages : Agrees(m) => Agrees(m)'
  <1>1. AcceptInv'
    BY AcceptStep DEF SenderInv
  <1> DEFINE Kept == /\ \A w \in Workers : Owner(w)'
                     /\ NoRival' /\ Counted'
                     /\ \A m \in Messages : Agrees(m) => Agrees(m)'
  <1>2. SUFFICES Kept
    BY <1>1 DEF SenderInv
  <1>3. CASE UNCHANGED vars
    <2>1. \A w \in Workers : Owner(w)'
      BY <1>3, SenderTypes DEF vars, Owner, Busy
    <2>2. NoRival' /\ \A m \in Messages : Agrees(m) => Agrees(m)'
      BY <1>3 DEF vars, SenderInv, NoRival, Agrees, Busy
    <2>3. Counted'
      BY <1>3 DEF vars, SenderInv, Counted, AcceptedOnce
    <2> QED
      BY <2>1, <2>2, <2>3
  <1>4. CASE Compose
    BY <1>4, ComposeKeepsSender
  <1>5. CASE \/ \E d \in Dispatchers : Dispatch(d) \/ DispatchAbort(d)
             \/ RecoverExpiredOutboundLocks \/ Clock
             \/ DisableConnection \/ EnableConnection
    BY <1>5, BackgroundKeepsSender DEF Background
  <1>6. ASSUME NEW w \in Workers, WorkerStep(w) \/ WorkerFault(w) PROVE Kept
    <2>1. CASE \E x \in Deliveries : Claim(w, x)
      BY <2>1, ClaimKeepsSender
    <2>2. CASE \E x \in Deliveries : SkipUnclaimable(w, x)
      BY <2>2, BackgroundKeepsSender DEF Background
    <2>3. CASE \/ LoadMessage(w) \/ LoadUnavailable(w) \/ LoadFails(w)
               \/ ProviderAccepts(w) \/ ProviderAnswerLost(w)
               \/ \E error \in {"transient", "rejected"} : ProviderRefuses(w, error)
               \/ CommitFails(w) \/ ReadAttempts(w)
      BY <2>3, SenderTypes, WorkerMovesOn, MovesOnKeepsSender
    <2>4. CASE Commit(w)
      <3>1. worker[w].pc = "commit" /\ CommitRows(w)
        BY <2>4, SenderTypes DEF Commit, Knows, Busy
      <3> QED
        BY <2>4, <3>1, EndingWorker, CommitAgrees
    <2>5. CASE CommitAnswerLost(w)
      BY <2>5, LostAnswerKeepsSender, CommitAgrees DEF CommitAnswerLost
    <2>6. CASE RecordFailure(w)
      BY <2>6, EndingWorker, FailureAgrees
    <2>7. CASE Crash(w)
      <3>1. \A m \in Messages : Agrees(m) => Agrees(m)'
        BY <2>7 DEF Crash, Agrees
      <3> QED
        BY <2>7, <3>1, EndingWorker
    <2> QED
      BY <1>6, <2>1, <2>2, <2>3, <2>4, <2>5, <2>6, <2>7 DEF WorkerStep, WorkerFault
  <1> QED
    BY <1>3, <1>4, <1>5, <1>6 DEF Next, Pipeline

LEMMA SenderInit == Init => SenderInv /\ OutcomeAgrees
  <1> SUFFICES ASSUME Init PROVE SenderInv /\ OutcomeAgrees
    OBVIOUS
  <1>1. AcceptInv
    BY AcceptInit
  <1>2. /\ \A w \in Workers : ~Busy(w)
        /\ \A m \in Messages : job[m].status = "none" /\ ~job[m].overran /\ accepted[m] = 0
    BY DEF Init, Busy, IdleWorker, NoJob
  <1> QED
    BY <1>1, <1>2 DEF SenderInv, Owner, NoRival, Counted, AcceptedOnce, OutcomeAgrees

LEMMA SenderIsSole == SenderInv => SoleSender
  BY DEF SenderInv, NoRival, Counted, AcceptedOnce, SoleSender

LEMMA OutcomeIsAll == OutcomeAgrees <=> \A m \in Messages : Agrees(m)
  BY DEF OutcomeAgrees, Agrees

LEMMA OutcomeInductive == Spec => [](SenderInv /\ OutcomeAgrees)
  <1>1. SenderInv /\ OutcomeAgrees /\ [Next]_vars => (SenderInv /\ OutcomeAgrees)'
    <2> SUFFICES ASSUME SenderInv, OutcomeAgrees, [Next]_vars
                 PROVE  SenderInv' /\ OutcomeAgrees'
      OBVIOUS
    <2>1. SenderInv' /\ \A m \in Messages : Agrees(m)'
      BY SenderStep, OutcomeIsAll
    <2>2. OutcomeAgrees'
      BY <2>1 DEF OutcomeAgrees, Agrees
    <2> QED
      BY <2>1, <2>2
  <1> QED
    BY <1>1, SenderInit, PTL DEF Spec

(* The claim UPDATE, the recovery of expired locks and the duplicates of the *)
(* Queue never let two invocations work on one job while its lock holds, and *)
(* without a fault the provider takes a message at most once.                *)
THEOREM OneSender == Spec => []SoleSender
  <1>1. SenderInv /\ OutcomeAgrees => SoleSender
    BY SenderIsSole
  <1> QED
    BY <1>1, OutcomeInductive, PTL

(* The success batch and the failure batch, of which only the job UPDATE is  *)
(* fenced by the lock token, leave a scheduled message and its job agreeing  *)
(* on what became of it, unless a lock was overrun.                          *)
THEOREM OneOutcome == Spec => []OutcomeAgrees
  BY OutcomeInductive, PTL

-----------------------------------------------------------------------------
(* Part II: DraftSchedule.                                                   *)

(* Job ids are never reused, so an id says which job of the message it was.  *)
Issued(m, id) == id \in 1..jobs[m]

IdsIssued ==
    /\ \A m \in Messages : job[m].status # "none" => Issued(m, job[m].id)
    /\ \A d \in Dispatchers : disp[d].pc # "idle" => Issued(disp[d].msg, disp[d].id)
    /\ \A x \in Deliveries : queue[x] # NoEntry => Issued(queue[x].msg, queue[x].id)
    /\ \A w \in Workers : Busy(w) => Issued(worker[w].msg, worker[w].id)

(* What was never created has no row, no job and no acceptance.              *)
Uncreated(m) ==
    version[m] = 0 => msg[m].status = "absent" /\ jobs[m] = 0 /\ accepted[m] = 0

(* A busy worker whose job is still the one it claimed, its lock not overrun,*)
(* owns that job, or has settled it and lost the answer.                     *)
Keeper(w) ==
    LET j == job[worker[w].msg] IN
    Busy(w) /\ j.id = worker[w].id /\ ~j.overran =>
        \/ j.token = w /\ j.live
        \/ j.status = "succeeded" /\ worker[w].pc \in {"failing", "recording"}

(* Without a fault no lock is overrun, the worker of a draft works on its    *)
(* present job, and a draft that the provider has is about to be committed.  *)
Undisturbed ==
    faults = 0 =>
        /\ \A m \in Messages : ~job[m].overran
        /\ \A w \in Workers :
             Busy(w) /\ msg[worker[w].msg].status = "draft"
               => job[worker[w].msg].id = worker[w].id
        /\ \A m \in Messages :
             accepted[m] > 0 /\ msg[m].status = "draft"
               => \E w \in Workers : worker[w].pc = "commit" /\ worker[w].msg = m

(* Past requireDraft, the version a request has read is its If-Match.        *)
Based(c) ==
    Running(c) /\ req[c].pc # "lookup" /\ req[c].pc # "draft" /\ req[c].op # "remove"
      => req[c].seen = req[c].match

PipelineSide ==
    /\ IdsIssued
    /\ \A m \in Messages : Uncreated(m)
    /\ \A w \in Workers : Keeper(w)
    /\ Undisturbed

DraftInv ==
    /\ DraftTypeOK
    /\ LockInv
    /\ PipelineSide
    /\ \A c \in Clients : Based(c)

-----------------------------------------------------------------------------
(* Draft requests: what a step of one makes of the rows of message m.        *)
FreshJob(m) == \E due \in BOOLEAN : job'[m] = NewJob(jobs[m] + 1, due)

DraftMoves(m) ==
    /\ msg'[m] \in MessageRows /\ job'[m] \in JobRows
    /\ version'[m] \in Nat /\ jobs'[m] \in Nat
    /\ \/ job'[m] = job[m] /\ jobs'[m] = jobs[m]
       \/ /\ job[m].status = "pending" /\ jobs'[m] = jobs[m]
          /\ job'[m] = [job[m] EXCEPT !.due = FALSE]
       \/ /\ job[m].status \in {"pending", "enqueued"} \/ msg'[m].status = "absent"
          /\ job'[m] = NoJob /\ jobs'[m] = jobs[m]
       \/ /\ job[m].status = "none" /\ FreshJob(m) /\ jobs'[m] = jobs[m] + 1
          /\ msg[m].status # "absent"
    /\ msg'[m].status = "absent" =>
         (msg[m].status = "absent" /\ job'[m] = job[m]) \/ job'[m] = NoJob
    /\ msg'[m].status = "draft" => msg[m].status = "draft" \/ version[m] = 0
    /\ version'[m] = 0 => version[m] = 0 /\ msg'[m] = msg[m]

(* The steps of requests and of creation that write a row. *)
DraftWrites ==
    /\ UNCHANGED pipelineRest
    /\ msg' \in [Messages -> MessageRows]
    /\ job' \in [Messages -> JobRows]
    /\ version' \in [Messages -> Nat]
    /\ jobs' \in [Messages -> Nat]
    /\ \A m \in Messages : DraftMoves(m)

LEMMA DraftTypes ==
    ASSUME DraftInv
    PROVE  /\ TypeInv /\ LockInv /\ PipelineSide
           /\ msg \in [Messages -> MessageRows] /\ job \in [Messages -> JobRows]
           /\ version \in [Messages -> Nat] /\ jobs \in [Messages -> Nat]
           /\ worker \in [Workers -> WorkerStates]
           /\ disp \in [Dispatchers -> DispatcherStates]
           /\ queue \in [Deliveries -> QueueEntries \cup {NoEntry}]
           /\ accepted \in [Messages -> Nat] /\ faults \in Nat
           /\ req \in [Clients -> Requests \cup Answers]
           /\ records \subseteq Records
           /\ \A w \in Workers : Busy(w) => worker[w].msg \in Messages
           /\ \A m \in Messages : LockFits(job[m])
  BY DEF DraftInv, DraftTypeOK, LockInv, TypeInv, TypeOK, Holding, LockMarksProcessing,
         LockFits

(* A running request is one of Requests: answered ones have nothing left.    *)
LEMMA RunningTyped ==
    ASSUME DraftInv, NEW c \in Clients, Running(c)
    PROVE  /\ req[c] \in Requests
           /\ req[c].msg \in Messages /\ req[c].op \in Operations /\ req[c].key \in Keys
           /\ req[c].match \in Nat /\ req[c].seen \in Nat /\ req[c].to \in SUBSET Kinds
  <1>1. req[c] \in Requests
    BY DraftTypes DEF Running, Answers, Done
  <1> QED
    BY <1>1 DEF Requests

LEMMA NewJobTyped ==
    ASSUME NEW id \in Nat, NEW due \in BOOLEAN
    PROVE  /\ NewJob(id, due) \in JobRows
           /\ NewJob(id, due).status = "pending" /\ NewJob(id, due).id = id
           /\ NewJob(id, due).token = None /\ ~NewJob(id, due).live
           /\ ~NewJob(id, due).overran
  BY DEF NewJob, NoJob, JobRows

LEMMA NoJobTyped ==
    /\ NoJob \in JobRows /\ NoJob.status = "none" /\ NoJob.id = 0
    /\ NoJob.token = None /\ ~NoJob.live /\ ~NoJob.overran
  BY DEF NoJob, JobRows

(* A row that a batch does not touch moves trivially. *)
LEMMA RestMoves ==
    ASSUME DraftInv, NEW m \in Messages, msg'[m] = msg[m], job'[m] = job[m],
           jobs'[m] = jobs[m], version'[m] = version[m] \/ version'[m] = version[m] + 1
    PROVE  DraftMoves(m)
  <1>1. msg[m] \in MessageRows /\ job[m] \in JobRows /\ version[m] \in Nat /\ jobs[m] \in Nat
    BY DraftTypes
  <1> QED
    BY <1>1 DEF DraftMoves

LEMMA CreateWrites ==
    ASSUME DraftInv, NEW m \in Messages, NEW to \in SUBSET Kinds, CreateDraft(m, to)
    PROVE  DraftWrites
  <1> DEFINE r == DraftRow(m, to)
  <1>1. r \in MessageRows /\ r.status = "draft"
    BY DEF DraftRow, MessageRows
  <1>2. /\ msg' = [msg EXCEPT ![m] = r] /\ version' = [version EXCEPT ![m] = version[m] + 1]
        /\ version[m] = 0 /\ UNCHANGED <<job, jobs, pipelineRest>>
    BY DEF CreateDraft, NextVersion
  <1>3. msg' \in [Messages -> MessageRows] /\ version' \in [Messages -> Nat]
        /\ msg'[m] = r /\ version'[m] = 1
    BY <1>1, <1>2, DraftTypes
  <1> HIDE DEF r
  <1>4. DraftMoves(m)
    BY <1>1, <1>2, <1>3, DraftTypes DEF DraftMoves
  <1>5. ASSUME NEW n \in Messages, n # m PROVE DraftMoves(n)
    BY <1>2, <1>5, DraftTypes, RestMoves
  <1> QED
    BY <1>2, <1>3, <1>4, <1>5, DraftTypes DEF DraftWrites

(* A batch writes the rows of its own message. *)
LEMMA WritesOne ==
    ASSUME DraftInv, NEW m \in Messages, UNCHANGED pipelineRest, NEW r \in MessageRows,
           NEW j \in JobRows, NEW v \in Nat, NEW n \in Nat,
           msg' = [msg EXCEPT ![m] = r], job' = [job EXCEPT ![m] = j],
           version' = [version EXCEPT ![m] = v], jobs' = [jobs EXCEPT ![m] = n],
           DraftMoves(m)
    PROVE  DraftWrites
  <1>1. ASSUME NEW k \in Messages, k # m PROVE DraftMoves(k)
    BY <1>1, DraftTypes, RestMoves
  <1> QED
    BY <1>1, DraftTypes DEF DraftWrites

LEMMA CurrentIsDraft ==
    ASSUME DraftInv, NEW c \in Clients, Running(c), StillCurrent(c)
    PROVE  /\ msg[req[c].msg].status = "draft"
           /\ version[req[c].msg] = req[c].seen
           /\ version[req[c].msg] # 0
  <1>1. PICK m \in Messages : m = req[c].msg
    BY RunningTyped
  <1>2. Uncreated(m) /\ msg[m].status = "draft"
    BY <1>1, DraftTypes DEF PipelineSide, StillCurrent
  <1> QED
    BY <1>1, <1>2 DEF Uncreated, StillCurrent

LEMMA SubmittedTyped ==
    ASSUME NEW r \in MessageRows, NEW to \in SUBSET Kinds
    PROVE  /\ SubmittedRow(r, to) \in MessageRows
           /\ SubmittedRow(r, to).status \in {"queued", "sent"}
  <1> DEFINE Row(status, conn, folder, inbox) ==
               [r EXCEPT !.status = status, !.conn = conn,
                         !.folder = folder, !.inbox = inbox]
             status == IF "external" \in to THEN "queued" ELSE "sent"
             folder == IF r.folder = "drafts" THEN "sent" ELSE r.folder
  <1>1. \A s \in {"queued", "sent"}, conn, inbox \in BOOLEAN,
           f \in {"none", "drafts", "sent"} :
          Row(s, conn, f, inbox) \in MessageRows
    BY DEF MessageRows
  <1>2. ("external" \in to) \in BOOLEAN /\ (r.inbox \/ "internal" \in to) \in BOOLEAN
    BY SMT
  <1>3. status \in {"queued", "sent"} /\ folder \in {"none", "drafts", "sent"}
    BY SMT DEF MessageRows
  <1>4. SubmittedRow(r, to)
          = Row(status, "external" \in to, folder, r.inbox \/ "internal" \in to)
    BY Zenon DEF SubmittedRow
  <1>5. SubmittedRow(r, to).status = status
    BY DEF SubmittedRow, MessageRows
  <1> HIDE DEF Row, status, folder
  <1>6. SubmittedRow(r, to) \in MessageRows
    BY <1>1, <1>2, <1>3, <1>4, Zenon
  <1>7. status \in {"queued", "sent"}
    BY <1>3
  <1> QED
    BY <1>5, <1>6, <1>7, Zenon

LEMMA SendWrites ==
    ASSUME DraftInv, NEW c \in Clients, SendBatch(c)
    PROVE  DraftWrites \/ UNCHANGED <<vars, version, jobs>>
  <1>0. Running(c)
    BY DEF SendBatch, At, Running
  <1>1. PICK m \in Messages : m = req[c].msg
    BY <1>0, RunningTyped
  <1>2. PICK to \in SUBSET Kinds : to = req[c].to
    BY <1>0, RunningTyped
  <1>3. CASE ~StillCurrent(c) \/ RecordsOf(c) # {}
                \/ ("external" \in to /\ job[m].status # "none")
    <2>1. UNCHANGED <<msg, job, version, jobs>> /\ UNCHANGED pipelineRest
      BY <1>1, <1>2, <1>3 DEF SendBatch, Abandon
    <2> QED
      BY <2>1 DEF pipelineRest, vars
  <1>4. CASE StillCurrent(c) /\ RecordsOf(c) = {}
               /\ ("external" \in to => job[m].status = "none")
    <2> DEFINE r == SubmittedRow(msg[m], to)
    <2>1. /\ msg' = [msg EXCEPT ![m] = r]
          /\ version' = [version EXCEPT ![m] = version[m] + 1]
          /\ UNCHANGED pipelineRest
          /\ IF "external" \in to THEN InsertJob(m, TRUE) ELSE UNCHANGED <<job, jobs>>
      BY <1>1, <1>2, <1>4 DEF SendBatch, NextVersion
    <2>2. r \in MessageRows /\ r.status \in {"queued", "sent"}
      BY SubmittedTyped, DraftTypes
    <2>3. /\ msg[m].status = "draft" /\ version[m] \in Nat /\ jobs[m] \in Nat
          /\ job[m] \in JobRows
      BY <1>0, <1>1, <1>4, CurrentIsDraft, DraftTypes
    <2> HIDE DEF r
    <2>4. msg'[m] = r /\ version'[m] = version[m] + 1
      BY <2>1, DraftTypes
    <2>5. CASE "external" \in to
      <3>1. /\ job' = [job EXCEPT ![m] = NewJob(jobs[m] + 1, TRUE)]
            /\ jobs' = [jobs EXCEPT ![m] = jobs[m] + 1]
        BY <2>1, <2>5 DEF InsertJob
      <3>2. jobs[m] + 1 \in Nat /\ version[m] + 1 \in Nat /\ version[m] + 1 # 0
            /\ NewJob(jobs[m] + 1, TRUE) \in JobRows
        <4>1. jobs[m] + 1 \in Nat
          BY <2>3
        <4>2. PICK id \in Nat : id = jobs[m] + 1
          BY <4>1
        <4>3. NewJob(id, TRUE) \in JobRows
          BY NewJobTyped
        <4>4. version[m] + 1 \in Nat /\ version[m] + 1 # 0
          BY <2>3
        <4> QED
          BY <4>1, <4>2, <4>3, <4>4, Zenon
      <3>3. job'[m] = NewJob(jobs[m] + 1, TRUE) /\ jobs'[m] = jobs[m] + 1
        BY <3>1, DraftTypes
      <3>4. DraftMoves(m)
        BY <1>4, <2>2, <2>3, <2>4, <2>5, <3>2, <3>3 DEF DraftMoves, FreshJob
      <3> QED
        BY <2>1, <2>2, <2>3, <3>1, <3>2, <3>4, WritesOne
    <2>6. CASE "external" \notin to
      <3>1. UNCHANGED <<job, jobs>>
        BY <2>1, <2>6
      <3>2. DraftMoves(m)
        BY <2>2, <2>3, <2>4, <3>1 DEF DraftMoves
      <3>3. job' = [job EXCEPT ![m] = job[m]] /\ jobs' = [jobs EXCEPT ![m] = jobs[m]]
            /\ version[m] + 1 \in Nat
        BY <2>3, <3>1, DraftTypes
      <3> QED
        BY <2>1, <2>2, <2>3, <3>2, <3>3, WritesOne
    <2> QED
      BY <2>5, <2>6
  <1> QED
    BY <1>3, <1>4

(* The upsert of schedule: a fresh job, a pending one put off, or nothing.   *)
LEMMA UpsertMoves ==
    ASSUME DraftInv, NEW m \in Messages, UpsertJob(m)
    PROVE  \E j \in JobRows, n \in Nat :
             /\ job' = [job EXCEPT ![m] = j] /\ jobs' = [jobs EXCEPT ![m] = n]
             /\ \/ j = job[m] /\ n = jobs[m]
                \/ /\ job[m].status = "pending" /\ n = jobs[m]
                   /\ j = [job[m] EXCEPT !.due = FALSE]
                \/ /\ job[m].status = "none" /\ n = jobs[m] + 1
                   /\ j = NewJob(jobs[m] + 1, FALSE)
  <1>1. job[m] \in JobRows /\ jobs[m] \in Nat /\ jobs[m] + 1 \in Nat
    <2>1. jobs[m] \in Nat
      BY DraftTypes
    <2> QED
      BY <2>1, DraftTypes
  <1>2. CASE job[m].status = "none"
    <2>1. /\ job' = [job EXCEPT ![m] = NewJob(jobs[m] + 1, FALSE)]
          /\ jobs' = [jobs EXCEPT ![m] = jobs[m] + 1]
      BY <1>2 DEF UpsertJob, InsertJob
    <2>2. NewJob(jobs[m] + 1, FALSE) \in JobRows
      BY <1>1, NewJobTyped, Zenon
    <2> QED
      BY <1>1, <1>2, <2>1, <2>2
  <1>3. CASE job[m].status = "pending"
    <2>1. job' = [job EXCEPT ![m] = [job[m] EXCEPT !.due = FALSE]] /\ UNCHANGED jobs
      BY <1>3, DraftTypes DEF UpsertJob
    <2>2. [job[m] EXCEPT !.due = FALSE] \in JobRows
      BY <1>1 DEF JobRows
    <2>3. jobs' = [jobs EXCEPT ![m] = jobs[m]]
      BY <2>1, DraftTypes
    <2> QED
      BY <1>1, <1>3, <2>1, <2>2, <2>3
  <1>4. CASE job[m].status \notin {"none", "pending"}
    <2>1. UNCHANGED <<job, jobs>>
      BY <1>4 DEF UpsertJob
    <2>2. job' = [job EXCEPT ![m] = job[m]] /\ jobs' = [jobs EXCEPT ![m] = jobs[m]]
      BY <2>1, DraftTypes
    <2> QED
      BY <1>1, <2>2
  <1> QED
    BY <1>2, <1>3, <1>4

LEMMA ScheduleWrites ==
    ASSUME DraftInv, NEW c \in Clients, ScheduleBatch(c)
    PROVE  DraftWrites \/ UNCHANGED <<vars, version, jobs>>
  <1>0. Running(c)
    BY DEF ScheduleBatch, At, Running
  <1>1. PICK m \in Messages : m = req[c].msg
    BY <1>0, RunningTyped
  <1>2. CASE msg[m].status = "absent" \/ (StillCurrent(c) /\ RecordsOf(c) # {})
    <2>1. UNCHANGED <<msg, job, version, jobs>> /\ UNCHANGED pipelineRest
      BY <1>1, <1>2 DEF ScheduleBatch, Abandon
    <2> QED
      BY <2>1 DEF pipelineRest, vars
  <1>3. CASE ~(msg[m].status = "absent" \/ (StillCurrent(c) /\ RecordsOf(c) # {}))
    <2>1. UpsertJob(m) /\ UNCHANGED pipelineRest /\ msg[m].status # "absent"
      BY <1>1, <1>3 DEF ScheduleBatch
    <2>2. PICK j \in JobRows, n \in Nat :
             /\ job' = [job EXCEPT ![m] = j] /\ jobs' = [jobs EXCEPT ![m] = n]
             /\ \/ j = job[m] /\ n = jobs[m]
                \/ /\ job[m].status = "pending" /\ n = jobs[m]
                   /\ j = [job[m] EXCEPT !.due = FALSE]
                \/ /\ job[m].status = "none" /\ n = jobs[m] + 1
                   /\ j = NewJob(jobs[m] + 1, FALSE)
      BY <2>1, UpsertMoves
    <2>3. PICK r \in MessageRows, v \in Nat :
             /\ msg' = [msg EXCEPT ![m] = r] /\ version' = [version EXCEPT ![m] = v]
             /\ r.status = msg[m].status
             /\ v = 0 => version[m] = 0
      <3>1. msg[m] \in MessageRows /\ version[m] \in Nat
        BY DraftTypes
      <3>2. CASE StillCurrent(c)
        <4>1. /\ msg' = [msg EXCEPT ![m].conn = "external" \in req[c].to]
              /\ version' = [version EXCEPT ![m] = version[m] + 1]
          BY <1>1, <1>3, <3>2 DEF ScheduleBatch, NextVersion
        <4>2. \E conn \in BOOLEAN : msg' = [msg EXCEPT ![m] = [msg[m] EXCEPT !.conn = conn]]
          <5>1. ("external" \in req[c].to) \in BOOLEAN
            BY SMT
          <5> QED
            BY <4>1, <5>1, Zenon
        <4>3. PICK conn \in BOOLEAN : msg' = [msg EXCEPT ![m] = [msg[m] EXCEPT !.conn = conn]]
          BY <4>2
        <4>4. [msg[m] EXCEPT !.conn = conn] \in MessageRows
              /\ [msg[m] EXCEPT !.conn = conn].status = msg[m].status
          BY <3>1 DEF MessageRows
        <4>5. PICK v \in Nat : v = version[m] + 1 /\ v # 0
          BY <3>1
        <4> QED
          BY <4>1, <4>3, <4>4, <4>5
      <3>3. CASE ~StillCurrent(c)
        <4>1. UNCHANGED <<msg, version>>
          BY <1>1, <1>3, <3>3 DEF ScheduleBatch
        <4>2. msg' = [msg EXCEPT ![m] = msg[m]] /\ version' = [version EXCEPT ![m] = version[m]]
          BY <4>1, DraftTypes
        <4> QED
          BY <3>1, <4>2
      <3> QED
        BY <3>2, <3>3
    <2>4. version[m] # 0
      BY <2>1, DraftTypes DEF PipelineSide, Uncreated
    <2>5. /\ job'[m] = j /\ jobs'[m] = n /\ msg'[m] = r /\ version'[m] = v
      BY <2>2, <2>3, DraftTypes
    <2>6. n = jobs[m] + 1 /\ j = NewJob(jobs[m] + 1, FALSE) => FreshJob(m)
      BY <2>5 DEF FreshJob
    <2>7. DraftMoves(m)
      BY <2>1, <2>2, <2>3, <2>4, <2>5, <2>6 DEF DraftMoves
    <2> QED
      BY <2>1, <2>2, <2>3, <2>7, WritesOne
  <1> QED
    BY <1>2, <1>3

LEMMA CancelWrites ==
    ASSUME DraftInv, NEW c \in Clients, CancelNothing(c) \/ CancelBatch(c)
    PROVE  DraftWrites \/ UNCHANGED <<vars, version, jobs>>
  <1>0. Running(c)
    BY DEF CancelNothing, CancelBatch, At, Running
  <1>1. PICK m \in Messages : m = req[c].msg
    BY <1>0, RunningTyped
  <1>2. CASE CancelNothing(c)
    <2>1. UNCHANGED <<msg, job, version, jobs>> /\ UNCHANGED pipelineRest
      BY <1>2 DEF CancelNothing, Abandon
    <2> QED
      BY <2>1 DEF pipelineRest, vars
  <1> DEFINE gone == Cancellable(m) \/ job[m].status = "none"
  <1>3. CASE CancelBatch(c) /\ StillCurrent(c) /\ gone /\ RecordsOf(c) # {}
    <2>1. UNCHANGED <<msg, job, version, jobs>> /\ UNCHANGED pipelineRest
      BY <1>1, <1>3 DEF CancelBatch, Abandon
    <2> QED
      BY <2>1 DEF pipelineRest, vars
  <1>4. CASE CancelBatch(c) /\ ~(StillCurrent(c) /\ gone /\ RecordsOf(c) # {})
    <2>1. /\ job' = IF Cancellable(m) THEN [job EXCEPT ![m] = NoJob] ELSE job
          /\ IF StillCurrent(c) /\ gone THEN NextVersion(m) ELSE UNCHANGED version
          /\ UNCHANGED <<msg, jobs>> /\ UNCHANGED pipelineRest
      BY <1>1, <1>4 DEF CancelBatch
    <2>2. /\ msg[m] \in MessageRows /\ job[m] \in JobRows /\ version[m] \in Nat
          /\ jobs[m] \in Nat /\ NoJob \in JobRows
      BY DraftTypes, NoJobTyped
    <2>3. PICK j \in JobRows : /\ job' = [job EXCEPT ![m] = j]
                               /\ j = job[m] \/ (Cancellable(m) /\ j = NoJob)
      <3>1. job = [job EXCEPT ![m] = job[m]]
        BY DraftTypes
      <3> QED
        BY <2>1, <2>2, <3>1
    <2>4. PICK v \in Nat : /\ version' = [version EXCEPT ![m] = v]
                           /\ v = 0 => version[m] = 0
      <3>1. version = [version EXCEPT ![m] = version[m]]
        BY DraftTypes
      <3>2. CASE StillCurrent(c) /\ gone
        BY <2>1, <2>2, <3>2 DEF NextVersion
      <3>3. CASE ~(StillCurrent(c) /\ gone)
        BY <2>1, <2>2, <3>1, <3>3
      <3> QED
        BY <3>2, <3>3
    <2>5. msg' = [msg EXCEPT ![m] = msg[m]] /\ jobs' = [jobs EXCEPT ![m] = jobs[m]]
      BY <2>1, DraftTypes
    <2>6. /\ job'[m] = j /\ jobs'[m] = jobs[m] /\ msg'[m] = msg[m] /\ version'[m] = v
      BY <2>3, <2>4, <2>5, DraftTypes
    <2>7. DraftMoves(m)
      BY <2>2, <2>3, <2>4, <2>6 DEF DraftMoves, Cancellable
    <2> QED
      BY <2>1, <2>2, <2>3, <2>4, <2>5, <2>7, WritesOne
  <1> QED
    BY <1>2, <1>3, <1>4

LEMMA UpdateWrites ==
    ASSUME DraftInv, NEW c \in Clients, UpdateBatch(c)
    PROVE  DraftWrites
  <1>0. Running(c)
    BY DEF UpdateBatch, At, Running
  <1>1. PICK m \in Messages : m = req[c].msg
    BY <1>0, RunningTyped
  <1>2. msg[m] \in MessageRows /\ job[m] \in JobRows /\ version[m] \in Nat /\ jobs[m] \in Nat
    BY DraftTypes
  <1>3. RecipientsAfter(c) \in SUBSET Kinds
    BY <1>0, <1>1, <1>2, RunningTyped DEF RecipientsAfter, MessageRows
  <1>4. PICK r \in MessageRows : msg' = [msg EXCEPT ![m] = r] /\ r.status = msg[m].status
    <2>1. msg' = [msg EXCEPT ![m] = [msg[m] EXCEPT !.to = RecipientsAfter(c)]]
      BY <1>1, DraftTypes DEF UpdateBatch
    <2>2. [msg[m] EXCEPT !.to = RecipientsAfter(c)] \in MessageRows
          /\ [msg[m] EXCEPT !.to = RecipientsAfter(c)].status = msg[m].status
      BY <1>2, <1>3 DEF MessageRows
    <2> QED
      BY <2>1, <2>2
  <1>5. \/ \E v \in Nat : version' = [version EXCEPT ![m] = v] /\ v # 0
        \/ UNCHANGED version
    <2>1. PICK v \in Nat : v = version[m] + 1 /\ v # 0
      BY <1>2
    <2>2. version' = [version EXCEPT ![m] = version[m] + 1] \/ UNCHANGED version
      BY <1>1 DEF UpdateBatch, NextVersion
    <2> QED
      BY <2>1, <2>2
  <1>6. CASE version[m] = 0
    <2>1. ~StillCurrent(c)
      BY <1>0, <1>1, <1>6, CurrentIsDraft
    <2>2. msg' = msg
      <3>1. RecipientsAfter(c) = msg[m].to
        BY <1>1, <2>1 DEF RecipientsAfter
      <3>2. [msg[m] EXCEPT !.to = msg[m].to] = msg[m]
        BY <1>2 DEF MessageRows
      <3> QED
        BY <1>1, <3>1, <3>2, DraftTypes DEF UpdateBatch
    <2>3. UNCHANGED <<msg, job, version, jobs>> /\ UNCHANGED pipelineRest
      BY <1>1, <2>1, <2>2 DEF UpdateBatch
    <2>4. \A n \in Messages : DraftMoves(n)
      BY <2>3, RestMoves
    <2> QED
      BY <2>3, <2>4, DraftTypes DEF DraftWrites
  <1>7. CASE version[m] # 0
    <2>1. job' = [job EXCEPT ![m] = job[m]] /\ jobs' = [jobs EXCEPT ![m] = jobs[m]]
          /\ UNCHANGED pipelineRest
      BY <1>1, DraftTypes DEF UpdateBatch
    <2>2. PICK u \in Nat : version' = [version EXCEPT ![m] = u] /\ u # 0
      <3>1. version = [version EXCEPT ![m] = version[m]]
        BY DraftTypes
      <3> QED
        BY <1>2, <1>5, <1>7, <3>1
    <2>3. job'[m] = job[m] /\ jobs'[m] = jobs[m] /\ msg'[m] = r /\ version'[m] = u
      BY <1>4, <2>1, <2>2, DraftTypes
    <2>4. msg[m].status = "absent" => job'[m] = job[m]
      BY <2>3
    <2>5. DraftMoves(m)
      BY <1>2, <1>4, <2>2, <2>3 DEF DraftMoves
    <2> QED
      BY <1>2, <1>4, <2>1, <2>2, <2>5, WritesOne
  <1> QED
    BY <1>6, <1>7

LEMMA RemoveWrites ==
    ASSUME DraftInv, NEW c \in Clients, RemoveDraft(c)
    PROVE  DraftWrites
  <1>0. Running(c)
    BY DEF RemoveDraft, At, Running
  <1>1. PICK m \in Messages : m = req[c].msg
    BY <1>0, RunningTyped
  <1>2. /\ msg[m] \in MessageRows /\ job[m] \in JobRows /\ version[m] \in Nat
        /\ jobs[m] \in Nat /\ NoJob \in JobRows
    BY DraftTypes, NoJobTyped
  <1>3. NoMessage \in MessageRows /\ NoMessage.status = "absent"
    BY DEF NoMessage, MessageRows
  <1>4. /\ version' = [version EXCEPT ![m] = version[m]]
        /\ jobs' = [jobs EXCEPT ![m] = jobs[m]] /\ UNCHANGED pipelineRest
        /\ UNCHANGED <<version, jobs>>
    BY DraftTypes DEF RemoveDraft
  <1>5. CASE Deletable(m)
    <2>1. msg' = [msg EXCEPT ![m] = NoMessage] /\ job' = [job EXCEPT ![m] = NoJob]
      BY <1>1, <1>5 DEF RemoveDraft, JobAfterRemove
    <2>2. version[m] # 0
      BY <1>5, DraftTypes DEF PipelineSide, Uncreated, Deletable
    <2>3. msg'[m] = NoMessage /\ job'[m] = NoJob
      BY <2>1, DraftTypes
    <2>4. DraftMoves(m)
      BY <1>2, <1>3, <1>4, <2>2, <2>3 DEF DraftMoves
    <2> QED
      BY <1>2, <1>3, <1>4, <2>1, <2>4, WritesOne
  <1>6. CASE ~Deletable(m)
    <2>1. msg' = [msg EXCEPT ![m] = msg[m]] /\ job' = [job EXCEPT ![m] = job[m]]
      BY <1>1, <1>6, DraftTypes DEF RemoveDraft, JobAfterRemove
    <2>2. msg'[m] = msg[m] /\ job'[m] = job[m]
      BY <2>1, DraftTypes
    <2>3. DraftMoves(m)
      BY <1>4, <2>2, RestMoves
    <2> QED
      BY <1>2, <1>4, <2>1, <2>3, WritesOne
  <1> QED
    BY <1>5, <1>6

-----------------------------------------------------------------------------
(* The writes of the draft API keep what the pipeline relies on: a job that  *)
(* a worker holds is left alone or gone for good, and a new one has a new id.*)
LEMMA WritesJob ==
    ASSUME DraftInv, DraftWrites, NEW m \in Messages
    PROVE  /\ LockFits(job'[m])
           /\ jobs[m] \in Nat /\ jobs'[m] \in Nat /\ jobs[m] <= jobs'[m]
           /\ job'[m].overran => job[m].overran
           /\ job'[m].status # "none" =>
                \/ job'[m].id = job[m].id /\ job[m].status # "none"
                \/ job'[m].id = jobs'[m] /\ jobs'[m] # 0
           /\ job'[m].id \in 1..jobs[m] =>
                /\ job'[m].id = job[m].id /\ job'[m].overran = job[m].overran
                /\ job'[m].token = job[m].token /\ job'[m].live = job[m].live
                /\ job'[m].status = job[m].status
           /\ job'[m].id # job[m].id =>
                \/ job[m].status \in {"none", "pending", "enqueued"}
                \/ msg'[m].status = "absent"
  <1>1. DraftMoves(m) /\ job[m] \in JobRows /\ LockFits(job[m]) /\ jobs[m] \in Nat
    BY DraftTypes DEF DraftWrites
  <1>2. CASE job'[m] = job[m] /\ jobs'[m] = jobs[m]
    BY <1>1, <1>2
  <1>3. CASE /\ job[m].status = "pending" /\ jobs'[m] = jobs[m]
             /\ job'[m] = [job[m] EXCEPT !.due = FALSE]
    BY <1>1, <1>3 DEF JobRows, LockFits
  <1>4. CASE /\ job[m].status \in {"pending", "enqueued"} \/ msg'[m].status = "absent"
             /\ job'[m] = NoJob /\ jobs'[m] = jobs[m]
    BY <1>1, <1>4, NoJobTyped DEF LockFits
  <1>5. CASE job[m].status = "none" /\ FreshJob(m) /\ jobs'[m] = jobs[m] + 1
    <2>1. PICK id \in Nat : id = jobs[m] + 1
      BY <1>1
    <2>2. PICK due \in BOOLEAN : job'[m] = NewJob(id, due)
      BY <1>5, <2>1 DEF FreshJob
    <2>3. /\ job'[m].status = "pending" /\ job'[m].id = id /\ ~job'[m].overran
          /\ job'[m].token = None /\ ~job'[m].live
      BY <2>2, NewJobTyped
    <2>4. id \notin 1..jobs[m] /\ id # 0 /\ jobs[m] <= id
      BY <1>1, <2>1
    <2> QED
      BY <1>1, <1>5, <2>1, <2>3, <2>4 DEF LockFits
  <1> QED
    BY <1>1, <1>2, <1>3, <1>4, <1>5 DEF DraftMoves

LEMMA IssuedGrows ==
    ASSUME NEW a \in Nat, NEW b \in Nat, a <= b, NEW id \in 1..a
    PROVE  id \in 1..b
  OBVIOUS

LEMMA WritesKeepLock ==
    ASSUME DraftInv, DraftWrites
    PROVE  LockInv'
  <1>1. TypeOK'
    BY DraftTypes DEF DraftWrites, pipelineRest, TypeInv, TypeOK
  <1>2. Holding'
    BY DraftTypes, HoldingUnchanged DEF DraftWrites, pipelineRest, TypeInv
  <1>3. LockMarksProcessing'
    BY WritesJob DEF LockMarksProcessing, LockFits
  <1>4. AbsentHasNoJob'
    <2> SUFFICES ASSUME NEW m \in Messages, msg'[m].status = "absent"
                 PROVE  job'[m].status = "none"
      BY DEF AbsentHasNoJob
    <2>1. DraftMoves(m)
      BY DEF DraftWrites
    <2>2. msg[m].status = "absent" => job[m].status = "none"
      BY DraftTypes DEF LockInv, AbsentHasNoJob
    <2> QED
      BY <2>1, <2>2, NoJobTyped DEF DraftMoves
  <1> QED
    BY <1>1, <1>2, <1>3, <1>4 DEF LockInv, TypeInv

LEMMA WritesKeepSide ==
    ASSUME DraftInv, DraftWrites
    PROVE  PipelineSide'
  <1>0. /\ UNCHANGED <<queue, worker, disp, accepted, faults>>
        /\ PipelineSide /\ \A m \in Messages : DraftMoves(m)
    BY DraftTypes DEF DraftWrites, pipelineRest
  <1>1. IdsIssued'
    <2>1. \A m \in Messages : \A id : Issued(m, id) => Issued(m, id)'
      BY WritesJob, IssuedGrows DEF Issued
    <2>2. ASSUME NEW m \in Messages, job'[m].status # "none"
          PROVE  job'[m].id \in 1..jobs'[m]
      <3>1. jobs'[m] \in Nat /\ jobs[m] \in Nat /\ jobs[m] <= jobs'[m]
        BY WritesJob
      <3>2. CASE job'[m].id = job[m].id /\ job[m].status # "none"
        BY <1>0, <3>1, <3>2 DEF PipelineSide, IdsIssued, Issued
      <3>3. CASE job'[m].id = jobs'[m] /\ jobs'[m] # 0
        BY <3>1, <3>3
      <3> QED
        BY <2>2, <3>2, <3>3, WritesJob
    <2>3. ASSUME NEW d \in Dispatchers, disp[d].pc # "idle"
          PROVE  disp[d].msg \in Messages /\ Issued(disp[d].msg, disp[d].id)
      BY <1>0, <2>3, DraftTypes DEF PipelineSide, IdsIssued, TypeInv, Holding
    <2>4. ASSUME NEW x \in Deliveries, queue[x] # NoEntry
          PROVE  queue[x].msg \in Messages /\ Issued(queue[x].msg, queue[x].id)
      BY <1>0, <2>4, DraftTypes DEF PipelineSide, IdsIssued, QueueEntries
    <2>5. ASSUME NEW w \in Workers, Busy(w)
          PROVE  worker[w].msg \in Messages /\ Issued(worker[w].msg, worker[w].id)
      BY <1>0, <2>5, DraftTypes DEF PipelineSide, IdsIssued
    <2> QED
      BY <1>0, <2>1, <2>2, <2>3, <2>4, <2>5 DEF IdsIssued, Issued, Busy
  <1>2. ASSUME NEW m \in Messages PROVE Uncreated(m)'
    <2>1. Uncreated(m) /\ DraftMoves(m)
      BY <1>0 DEF PipelineSide
    <2> QED
      BY <1>0, <2>1 DEF Uncreated, DraftMoves
  <1>3. ASSUME NEW w \in Workers PROVE Keeper(w)'
    <2> SUFFICES ASSUME Busy(w), job'[worker[w].msg].id = worker[w].id
                 PROVE  Keeper(w)'
      BY <1>0 DEF Keeper, Busy
    <2>1. PICK m \in Messages : m = worker[w].msg
      BY DraftTypes
    <2>2. Keeper(w) /\ worker[w].id \in 1..jobs[m]
      BY <1>0, <2>1 DEF PipelineSide, IdsIssued, Issued
    <2>3. /\ job[m].id = job'[m].id /\ job'[m].overran = job[m].overran
          /\ job'[m].token = job[m].token /\ job'[m].live = job[m].live
          /\ job'[m].status = job[m].status
      BY <2>1, <2>2, WritesJob
    <2> QED
      BY <1>0, <2>1, <2>2, <2>3 DEF Keeper, Busy
  <1>4. Undisturbed'
    <2> SUFFICES ASSUME faults = 0 PROVE Undisturbed'
      BY <1>0 DEF Undisturbed
    <2>0. /\ \A m \in Messages : ~job[m].overran
          /\ \A w \in Workers :
               Busy(w) /\ msg[worker[w].msg].status = "draft"
                 => job[worker[w].msg].id = worker[w].id
          /\ \A m \in Messages :
               accepted[m] > 0 /\ msg[m].status = "draft"
                 => \E w \in Workers : worker[w].pc = "commit" /\ worker[w].msg = m
      BY <1>0 DEF PipelineSide, Undisturbed
    <2>1. \A m \in Messages : ~job'[m].overran
      BY <2>0, WritesJob
    <2>2. ASSUME NEW w \in Workers, Busy(w), msg'[worker[w].msg].status = "draft"
          PROVE  job'[worker[w].msg].id = worker[w].id
      <3>1. PICK m \in Messages : m = worker[w].msg
        BY <2>2, DraftTypes
      <3>2. Keeper(w) /\ worker[w].id \in 1..jobs[m] /\ Uncreated(m) /\ DraftMoves(m)
            /\ jobs[m] \in Nat
        BY <1>0, <2>2, <3>1, DraftTypes DEF PipelineSide, IdsIssued, Issued
      <3>3. version[m] # 0
        BY <3>2 DEF Uncreated
      <3>4. msg[m].status = "draft" /\ job[m].id = worker[w].id
        BY <2>0, <2>2, <3>1, <3>2, <3>3 DEF DraftMoves
      <3>5. job[m].status \notin {"none", "pending", "enqueued"}
        BY <2>0, <2>2, <3>1, <3>2, <3>4, DraftTypes, NoneAssumption DEF Keeper, LockFits
      <3> QED
        BY <2>2, <3>1, <3>4, <3>5, WritesJob
    <2>3. ASSUME NEW m \in Messages, accepted[m] > 0, msg'[m].status = "draft"
          PROVE  \E w \in Workers : worker[w].pc = "commit" /\ worker[w].msg = m
      <3>1. Uncreated(m) /\ DraftMoves(m)
        BY <1>0 DEF PipelineSide
      <3>2. msg[m].status = "draft"
        BY <2>3, <3>1 DEF DraftMoves, Uncreated
      <3> QED
        BY <2>0, <2>3, <3>2
    <2> QED
      BY <1>0, <2>1, <2>2, <2>3 DEF Undisturbed, Busy
  <1> QED
    BY <1>1, <1>2, <1>3, <1>4 DEF PipelineSide

-----------------------------------------------------------------------------
(* The steps of the pipeline, with the draft API at rest. *)
LEMMA SideTypes ==
    ASSUME DraftInv
    PROVE  /\ IdsIssued /\ Undisturbed /\ LockInv
           /\ \A m \in Messages : /\ Uncreated(m) /\ LockFits(job[m])
                                  /\ job[m] \in JobRows /\ msg[m] \in MessageRows
                                  /\ jobs[m] \in Nat /\ accepted[m] \in Nat
           /\ \A w \in Workers : /\ Keeper(w) /\ worker[w] \in WorkerStates
                                 /\ Busy(w) => /\ worker[w].msg \in Messages
                                               /\ Issued(worker[w].msg, worker[w].id)
  BY DraftTypes DEF PipelineSide, IdsIssued

LEMMA UncreatedStays ==
    ASSUME DraftInv, UNCHANGED <<version, jobs>>,
           \A m \in Messages : RowMoves(msg[m], msg'[m]),
           accepted' = accepted \/ \E w \in Workers : Busy(w) /\ Accept(w)
    PROVE  \A m \in Messages : Uncreated(m)'
  <1> SUFFICES ASSUME NEW m \in Messages, version[m] = 0 PROVE Uncreated(m)'
    BY DEF Uncreated
  <1>1. msg'[m].status = "absent" /\ jobs[m] = 0 /\ accepted[m] = 0
    BY SideTypes DEF Uncreated, RowMoves
  <1>2. CASE accepted' = accepted
    BY <1>1, <1>2 DEF Uncreated
  <1>3. CASE \E w \in Workers : Busy(w) /\ Accept(w)
    <2>1. PICK w \in Workers : Busy(w) /\ Accept(w)
      BY <1>3
    <2>2. PICK n \in Messages : n = worker[w].msg
      BY <2>1, SideTypes
    <2>3. n # m
      BY <1>1, <2>1, <2>2, SideTypes DEF Issued
    <2>4. accepted'[m] = accepted[m]
      BY <2>1, <2>2, <2>3, DraftTypes DEF Accept
    <2> QED
      BY <1>1, <2>4 DEF Uncreated
  <1> QED
    BY <1>2, <1>3

LEMMA EntriesStay ==
    ASSUME DraftInv, NEW x \in Deliveries, queue[x] # NoEntry, Ack(x) \/ Retry(x)
    PROVE  \A y \in Deliveries : queue'[y] # NoEntry =>
             queue[y] # NoEntry /\ queue'[y].msg = queue[y].msg /\ queue'[y].id = queue[y].id
  <1>1. queue[x] \in QueueEntries
    BY DraftTypes
  <1>2. \A y \in Deliveries : y # x => queue'[y] = queue[y]
    BY DraftTypes DEF Ack, Retry
  <1>3. \/ queue'[x] = NoEntry
        \/ queue'[x] = [queue[x] EXCEPT !.tries = @ + 1]
    BY DraftTypes DEF Ack, Retry
  <1>4. queue'[x] # NoEntry =>
          queue'[x].msg = queue[x].msg /\ queue'[x].id = queue[x].id
    BY <1>1, <1>3 DEF QueueEntries
  <1> QED
    BY <1>2, <1>4

(* The background: dispatchers, the recovery, the clocks, the administrator. *)
LEMMA BackgroundIds ==
    ASSUME DraftInv, Background, UNCHANGED <<version, jobs>>
    PROVE  IdsIssued'
  <1>1. UNCHANGED <<worker, msg, accepted>> /\ \A m \in Messages : JobRests(m)
    BY SideTypes, BackgroundQuiet, BackgroundRests
  <1>2. ASSUME NEW m \in Messages, job'[m].status # "none" PROVE Issued(m, job'[m].id)
    BY <1>1, <1>2, SideTypes DEF JobRests, IdsIssued
  <1>3. ASSUME NEW x \in Deliveries, queue'[x] # NoEntry
        PROVE  Issued(queue'[x].msg, queue'[x].id)
    <2>1. CASE UNCHANGED queue
      BY <1>3, <2>1, SideTypes DEF IdsIssued
    <2>2. CASE \E w \in Workers, y \in Deliveries : SkipUnclaimable(w, y)
      <3>1. PICK y \in Deliveries : queue[y] # NoEntry /\ Ack(y)
        BY <2>2 DEF SkipUnclaimable
      <3>2. queue[x] # NoEntry /\ queue'[x].msg = queue[x].msg /\ queue'[x].id = queue[x].id
        BY <1>3, <3>1, EntriesStay
      <3> QED
        BY <3>2, SideTypes DEF IdsIssued
    <2>3. CASE \E d \in Dispatchers : DispatchSend(d)
      <3>1. PICK d \in Dispatchers : DispatchSend(d)
        BY <2>3
      <3>2. PICK y \in Deliveries :
              queue' = [queue EXCEPT ![y] =
                          [msg |-> disp[d].msg, id |-> disp[d].id, tries |-> 0]]
        BY <3>1 DEF DispatchSend
      <3>3. Issued(disp[d].msg, disp[d].id)
        BY <3>1, SideTypes DEF DispatchSend, IdsIssued
      <3>4. CASE x = y
        <4>1. queue'[x].msg = disp[d].msg /\ queue'[x].id = disp[d].id
          BY <3>2, <3>4, DraftTypes
        <4> QED
          BY <3>3, <4>1
      <3>5. CASE x # y
        <4>1. queue'[x] = queue[x]
          BY <3>2, <3>5, DraftTypes
        <4> QED
          BY <1>3, <4>1, SideTypes DEF IdsIssued
      <3> QED
        BY <3>4, <3>5
    <2>4. \/ UNCHANGED queue
          \/ \E w \in Workers, y \in Deliveries : SkipUnclaimable(w, y)
          \/ \E d \in Dispatchers : DispatchSend(d)
      BY DEF Background, Dispatch, DispatchSelect, DispatchMark, DispatchAbort,
             RecoverExpiredOutboundLocks, Clock, BecomesDue, LockExpires, LockOverrun,
             DisableConnection, EnableConnection
    <2> QED
      BY <2>1, <2>2, <2>3, <2>4
  <1>4. ASSUME NEW e \in Dispatchers, disp'[e].pc # "idle"
        PROVE  Issued(disp'[e].msg, disp'[e].id)
    <2>1. CASE UNCHANGED disp
      BY <1>4, <2>1, SideTypes DEF IdsIssued
    <2>2. CASE \E d \in Dispatchers : Dispatch(d) \/ DispatchAbort(d)
      <3>1. PICK d \in Dispatchers : Dispatch(d) \/ DispatchAbort(d)
        BY <2>2
      <3>2. CASE DispatchSend(d)
        <4>1. disp' = [disp EXCEPT ![d] = [disp[d] EXCEPT !.pc = "sent"]] /\ disp[d].pc # "idle"
          BY <3>2, DraftTypes DEF DispatchSend
        <4>2. disp'[e].msg = disp[e].msg /\ disp'[e].id = disp[e].id
              /\ (disp'[e].pc # "idle" => disp[e].pc # "idle")
          BY <4>1, DraftTypes DEF DispatcherStates
        <4> QED
          BY <1>4, <4>2, SideTypes DEF IdsIssued
      <3>3. CASE \E m \in Messages : DispatchSelect(d, m)
        <4>1. PICK m \in Messages : DispatchSelect(d, m)
          BY <3>3
        <4>2. Issued(m, job[m].id)
          BY <4>1, SideTypes DEF DispatchSelect, IdsIssued
        <4>3. \/ e # d /\ disp'[e] = disp[e]
              \/ disp'[e].msg = m /\ disp'[e].id = job[m].id
          BY <4>1, DraftTypes DEF DispatchSelect
        <4> QED
          BY <1>4, <4>2, <4>3, SideTypes DEF IdsIssued
      <3>4. CASE DispatchMark(d) \/ DispatchAbort(d)
        <4>1. disp' = [disp EXCEPT ![d] = IdleDispatcher]
          BY <3>4 DEF DispatchMark, DispatchAbort
        <4>2. e # d /\ disp'[e] = disp[e]
          BY <1>4, <4>1, DraftTypes DEF IdleDispatcher
        <4> QED
          BY <1>4, <4>2, SideTypes DEF IdsIssued
      <3> QED
        BY <3>1, <3>2, <3>3, <3>4 DEF Dispatch
    <2>3. UNCHANGED disp \/ \E d \in Dispatchers : Dispatch(d) \/ DispatchAbort(d)
      BY DEF Background, SkipUnclaimable, RecoverExpiredOutboundLocks, Clock, BecomesDue,
             LockExpires, LockOverrun, DisableConnection, EnableConnection
    <2> QED
      BY <2>1, <2>2, <2>3
  <1>5. ASSUME NEW w \in Workers, Busy(w) PROVE Issued(worker[w].msg, worker[w].id)
    BY <1>5, SideTypes
  <1> QED
    BY <1>1, <1>2, <1>3, <1>4, <1>5 DEF IdsIssued, Issued, Busy

LEMMA BackgroundKeepsSide ==
    ASSUME DraftInv, Background, UNCHANGED <<version, jobs>>
    PROVE  PipelineSide'
  <1>1. /\ UNCHANGED <<worker, msg, accepted>> /\ \A m \in Messages : JobRests(m)
        /\ faults' = faults \/ faults' # 0
    BY SideTypes, BackgroundQuiet, BackgroundRests
  <1>2. \A m \in Messages : Uncreated(m)'
    BY <1>1, SideTypes DEF Uncreated
  <1>3. ASSUME NEW w \in Workers PROVE Keeper(w)'
    <2> SUFFICES ASSUME Busy(w) PROVE Keeper(w)'
      BY <1>1 DEF Keeper, Busy
    <2>1. PICK m \in Messages : m = worker[w].msg
      BY SideTypes
    <2>2. Keeper(w) /\ JobRests(m)
      BY <1>1, SideTypes
    <2> QED
      BY <1>1, <2>1, <2>2 DEF Keeper, JobRests, Owns, Busy
  <1>4. Undisturbed'
    <2> SUFFICES ASSUME faults' = 0 PROVE Undisturbed'
      BY DEF Undisturbed
    <2>1. faults = 0 /\ Undisturbed
      BY <1>1, SideTypes
    <2>2. \A m \in Messages : job'[m].overran = job[m].overran /\ job'[m].id = job[m].id
      BY <1>1 DEF JobRests
    <2> QED
      BY <1>1, <2>1, <2>2, SideTypes DEF Undisturbed, Busy
  <1> QED
    BY <1>2, <1>3, <1>4, BackgroundIds DEF PipelineSide

(* A worker that goes on; it may also leave the success batch of a message   *)
(* that was removed.                                                         *)
GoesOn(w, r) ==
    /\ worker' = [worker EXCEPT ![w] = r]
    /\ r.pc # "idle" /\ r.msg = worker[w].msg /\ r.id = worker[w].id
    /\ worker[w].pc \in {"failing", "recording"} => r.pc \in {"failing", "recording"}
    /\ UNCHANGED <<msg, job, queue, disp>>
    /\ accepted' = accepted \/ Accept(w)
    /\ faults' = 0 =>
         /\ faults = 0
         /\ \/ /\ accepted' = accepted
               /\ worker[w].pc # "commit" \/ msg[worker[w].msg].status = "absent"
            \/ worker[w].pc = "sending" /\ r.pc = "commit" /\ Accept(w)

LEMMA GoingOnKeepsSide ==
    ASSUME DraftInv, NEW w \in Workers, Busy(w), NEW r \in WorkerStates, GoesOn(w, r),
           UNCHANGED <<version, jobs>>
    PROVE  PipelineSide'
  <1>1. /\ worker'[w] = r /\ \A v \in Workers : v # w => worker'[v] = worker[v]
        /\ \A v \in Workers : Busy(v)' <=> Busy(v)
        /\ \A v \in Workers : worker'[v].msg = worker[v].msg /\ worker'[v].id = worker[v].id
    BY DraftTypes DEF GoesOn, Busy
  <1>2. IdsIssued'
    BY <1>1, SideTypes DEF IdsIssued, Issued, GoesOn
  <1>3. \A m \in Messages : Uncreated(m)'
    BY UncreatedStays DEF GoesOn, RowMoves
  <1>4. ASSUME NEW v \in Workers PROVE Keeper(v)'
    <2>1. Keeper(v)
      BY SideTypes
    <2> QED
      BY <1>1, <2>1 DEF Keeper, GoesOn, Busy
  <1>5. Undisturbed'
    <2> SUFFICES ASSUME faults' = 0 PROVE Undisturbed'
      BY DEF Undisturbed
    <2>0. /\ \A m \in Messages : ~job[m].overran
          /\ \A v \in Workers :
               Busy(v) /\ msg[worker[v].msg].status = "draft"
                 => job[worker[v].msg].id = worker[v].id
          /\ \A m \in Messages :
               accepted[m] > 0 /\ msg[m].status = "draft"
                 => \E v \in Workers : worker[v].pc = "commit" /\ worker[v].msg = m
      BY SideTypes DEF Undisturbed, GoesOn
    <2>1. ASSUME NEW m \in Messages, accepted'[m] > 0, msg[m].status = "draft"
          PROVE  \E v \in Workers : worker'[v].pc = "commit" /\ worker'[v].msg = m
      <3>1. CASE worker[w].pc = "sending" /\ r.pc = "commit" /\ Accept(w)
        <4>1. CASE worker[w].msg = m
          BY <1>1, <3>1, <4>1
        <4>2. CASE worker[w].msg # m
          <5>1. accepted'[m] = accepted[m]
            BY <3>1, <4>2, SideTypes, DraftTypes DEF Accept
          <5>2. PICK v \in Workers : worker[v].pc = "commit" /\ worker[v].msg = m
            BY <2>0, <2>1, <5>1
          <5> QED
            BY <1>1, <4>2, <5>2
        <4> QED
          BY <4>1, <4>2
      <3>2. CASE /\ accepted' = accepted
                 /\ worker[w].pc # "commit" \/ msg[worker[w].msg].status = "absent"
        <4>1. PICK v \in Workers : worker[v].pc = "commit" /\ worker[v].msg = m
          BY <2>0, <2>1, <3>2
        <4>2. v # w
          BY <2>1, <3>2, <4>1
        <4> QED
          BY <1>1, <4>1, <4>2
      <3> QED
        BY <3>1, <3>2 DEF GoesOn
    <2> QED
      BY <1>1, <2>0, <2>1 DEF Undisturbed, GoesOn
  <1> QED
    BY <1>2, <1>3, <1>4, <1>5 DEF PipelineSide

(* The claim finds a job that no worker holds, unless its lock was overrun.  *)
LEMMA ClaimKeepsSide ==
    ASSUME DraftInv, NEW w \in Workers, NEW x \in Deliveries, Claim(w, x),
           UNCHANGED <<version, jobs>>
    PROVE  PipelineSide'
  <1>0. queue[x] \in QueueEntries /\ queue[x] # NoEntry
    BY DraftTypes DEF Claim
  <1>1. PICK m \in Messages : m = queue[x].msg
    BY <1>0 DEF QueueEntries
  <1>2. /\ ~Busy(w) /\ job[m].id = queue[x].id
        /\ job[m].status \in {"pending", "enqueued"}
        /\ UNCHANGED <<msg, queue, disp, accepted, faults>>
    BY <1>1 DEF Claim, Claimable
  <1>3. /\ job' = [job EXCEPT ![m] = [job[m] EXCEPT !.status = "processing",
                     !.attempts = job[m].attempts + 1, !.token = w, !.live = TRUE]]
        /\ worker' = [worker EXCEPT ![w] =
             [IdleWorker EXCEPT !.pc = "claimed", !.delivery = x, !.msg = m, !.id = queue[x].id]]
    BY <1>1, DraftTypes DEF Claim
  <1>4. /\ job'[m].status = "processing" /\ job'[m].token = w /\ job'[m].live
        /\ job'[m].id = job[m].id /\ job'[m].overran = job[m].overran
        /\ \A n \in Messages : n # m => job'[n] = job[n]
    BY <1>3, DraftTypes DEF JobRows
  <1>5. /\ worker'[w].pc = "claimed" /\ worker'[w].msg = m /\ worker'[w].id = job[m].id
        /\ \A v \in Workers : v # w => worker'[v] = worker[v]
    BY <1>2, <1>3, DraftTypes DEF IdleWorker
  <1>6. Issued(m, job[m].id)
    BY <1>0, <1>1, <1>2, SideTypes DEF IdsIssued
  <1>7. IdsIssued'
    <2>1. \A n \in Messages : job'[n].status # "none" => Issued(n, job'[n].id)
      BY <1>4, <1>6, SideTypes DEF IdsIssued
    <2>2. \A v \in Workers : Busy(v)' => Issued(worker'[v].msg, worker'[v].id)
      BY <1>5, <1>6, SideTypes DEF Busy
    <2> QED
      BY <1>2, <2>1, <2>2, SideTypes DEF IdsIssued, Issued
  <1>8. \A n \in Messages : Uncreated(n)'
    BY <1>2, SideTypes DEF Uncreated
  <1>9. ASSUME NEW v \in Workers PROVE Keeper(v)'
    <2>1. CASE v = w
      BY <1>4, <1>5, <2>1 DEF Keeper
    <2>2. CASE v # w /\ Busy(v)
      <3>1. PICK n \in Messages : n = worker[v].msg
        BY <2>2, SideTypes
      <3>2. Keeper(v) /\ worker'[v] = worker[v] /\ LockFits(job[m]) /\ v # None
        BY <1>5, <2>2, SideTypes, NoneAssumption
      <3>3. CASE n = m
        BY <1>2, <1>4, <2>2, <3>1, <3>2, <3>3 DEF Keeper, LockFits, Busy
      <3>4. CASE n # m
        BY <1>4, <3>1, <3>2, <3>4 DEF Keeper, Busy
      <3> QED
        BY <3>3, <3>4
    <2>3. CASE v # w /\ ~Busy(v)
      BY <1>5, <2>3 DEF Keeper, Busy
    <2> QED
      BY <2>1, <2>2, <2>3
  <1>10. Undisturbed'
    <2> SUFFICES ASSUME faults = 0 PROVE Undisturbed'
      BY <1>2 DEF Undisturbed
    <2>1. /\ \A n \in Messages : ~job'[n].overran
          /\ \A n \in Messages : job'[n].id = job[n].id
      BY <1>4, SideTypes DEF Undisturbed
    <2>2. ASSUME NEW v \in Workers, Busy(v)', msg[worker'[v].msg].status = "draft"
          PROVE  job'[worker'[v].msg].id = worker'[v].id
      <3>1. CASE v = w
        BY <1>5, <2>1, <3>1
      <3>2. CASE v # w
        BY <1>5, <2>1, <2>2, <3>2, SideTypes DEF Undisturbed, Busy
      <3> QED
        BY <3>1, <3>2
    <2>3. \A v \in Workers : worker[v].pc = "commit" => worker'[v] = worker[v]
      BY <1>2, <1>5 DEF Busy
    <2>4. \A n \in Messages : accepted[n] > 0 /\ msg[n].status = "draft"
               => \E v \in Workers : worker'[v].pc = "commit" /\ worker'[v].msg = n
      BY <2>3, SideTypes DEF Undisturbed
    <2> QED
      BY <1>2, <2>1, <2>2, <2>4 DEF Undisturbed, Busy
  <1> QED
    BY <1>7, <1>8, <1>9, <1>10 DEF PipelineSide

(* A worker that ends, with the job released or left.                        *)
LEMMA ReleaseKeepsOthers ==
    ASSUME DraftInv, NEW w \in Workers, Busy(w), NEW status,
           status # "none", Releases(w, status) \/ UNCHANGED job
    PROVE  /\ \A m \in Messages : /\ job'[m].id = job[m].id
                                  /\ job'[m].overran = job[m].overran
                                  /\ job'[m].status # "none" => job[m].status # "none"
           /\ \A v \in Workers :
                v # w /\ Busy(v) /\ job[worker[v].msg].id = worker[v].id
                  /\ ~job[worker[v].msg].overran
                => job'[worker[v].msg] = job[worker[v].msg]
  <1>1. PICK m \in Messages : m = worker[w].msg
    BY SideTypes
  <1>2. \A n \in Messages : /\ job'[n].id = job[n].id /\ job'[n].overran = job[n].overran
                            /\ job'[n].status # "none" => job[n].status # "none"
    BY <1>1 DEF Releases
  <1>3. ASSUME NEW v \in Workers, v # w, Busy(v), job[worker[v].msg].id = worker[v].id,
               ~job[worker[v].msg].overran, job'[worker[v].msg] # job[worker[v].msg]
        PROVE  FALSE
    <2>1. PICK n \in Messages : n = worker[v].msg
      BY <1>3, SideTypes
    <2>2. n = m /\ Owns(w) /\ job[m].status = "processing"
      BY <1>1, <1>3, <2>1 DEF Releases
    <2>3. Keeper(v)
      BY SideTypes
    <2> QED
      BY <1>1, <1>3, <2>1, <2>2, <2>3 DEF Keeper, Owns
  <1> QED
    BY <1>2, <1>3

LEMMA EndingKeepsSide ==
    ASSUME DraftInv, NEW w \in Workers, Busy(w), NEW status, status # "none",
           Releases(w, status) \/ UNCHANGED job,
           Ack(worker[w].delivery) \/ Retry(worker[w].delivery),
           worker' = [worker EXCEPT ![w] = IdleWorker],
           UNCHANGED <<disp, accepted, version, jobs>>,
           \A m \in Messages : RowMoves(msg[m], msg'[m]),
           faults' = 0 =>
             /\ faults = 0
             /\ \A m \in Messages : msg'[m].status = "draft" =>
                  /\ msg[m].status = "draft"
                  /\ worker[w].pc = "commit" => worker[w].msg # m
    PROVE  PipelineSide'
  <1>1. /\ ~Busy(w)' /\ \A v \in Workers : v # w => worker'[v] = worker[v]
    BY DraftTypes DEF IdleWorker, Busy
  <1>2. /\ \A m \in Messages : /\ job'[m].id = job[m].id
                               /\ job'[m].overran = job[m].overran
                               /\ job'[m].status # "none" => job[m].status # "none"
        /\ \A v \in Workers :
             v # w /\ Busy(v) /\ job[worker[v].msg].id = worker[v].id
               /\ ~job[worker[v].msg].overran
             => job'[worker[v].msg] = job[worker[v].msg]
    BY ReleaseKeepsOthers
  <1>3. IdsIssued'
    <2>1. \A m \in Messages : job'[m].status # "none" => Issued(m, job'[m].id)
      BY <1>2, SideTypes DEF IdsIssued
    <2>2. worker[w].delivery \in Deliveries /\ queue[worker[w].delivery] # NoEntry
      BY DraftTypes DEF TypeInv, Holding
    <2>3. \A x \in Deliveries : queue'[x] # NoEntry => Issued(queue'[x].msg, queue'[x].id)
      BY <2>2, EntriesStay, SideTypes DEF IdsIssued
    <2>4. \A v \in Workers : Busy(v)' => Issued(worker'[v].msg, worker'[v].id)
      BY <1>1, SideTypes DEF Busy
    <2> QED
      BY <2>1, <2>3, <2>4, SideTypes DEF IdsIssued, Issued
  <1>4. \A m \in Messages : Uncreated(m)'
    BY UncreatedStays
  <1>5. ASSUME NEW v \in Workers PROVE Keeper(v)'
    <2> SUFFICES ASSUME v # w, Busy(v) PROVE Keeper(v)'
      BY <1>1 DEF Keeper, Busy
    <2>1. PICK m \in Messages : m = worker[v].msg
      BY SideTypes
    <2>2. Keeper(v) /\ worker'[v] = worker[v]
      BY <1>1, SideTypes
    <2> QED
      BY <1>2, <2>1, <2>2 DEF Keeper, Busy
  <1>6. Undisturbed'
    <2> SUFFICES ASSUME faults' = 0 PROVE Undisturbed'
      BY DEF Undisturbed
    <2>1. \A m \in Messages : ~job'[m].overran
      BY <1>2, SideTypes DEF Undisturbed
    <2>2. ASSUME NEW v \in Workers, Busy(v)', msg'[worker'[v].msg].status = "draft"
          PROVE  job'[worker'[v].msg].id = worker'[v].id
      <3>1. v # w /\ worker'[v] = worker[v] /\ Busy(v) /\ worker[v].msg \in Messages
        BY <1>1, <2>2, SideTypes DEF Busy
      <3> QED
        BY <1>2, <2>2, <3>1, SideTypes DEF Undisturbed
    <2>3. ASSUME NEW m \in Messages, accepted[m] > 0, msg'[m].status = "draft"
          PROVE  \E v \in Workers : worker'[v].pc = "commit" /\ worker'[v].msg = m
      <3>1. PICK v \in Workers : worker[v].pc = "commit" /\ worker[v].msg = m
        BY <2>3, SideTypes DEF Undisturbed
      <3>2. v # w
        BY <2>3, <3>1
      <3> QED
        BY <1>1, <3>1, <3>2
    <2> QED
      BY <2>1, <2>2, <2>3 DEF Undisturbed, Busy
  <1> QED
    BY <1>3, <1>4, <1>5, <1>6 DEF PipelineSide

LEMMA EndsKeepSide ==
    ASSUME DraftInv, NEW w \in Workers, Commit(w) \/ RecordFailure(w) \/ Crash(w),
           \A m \in Messages : RowMoves(msg[m], msg'[m]),
           UNCHANGED <<version, jobs>>
    PROVE  PipelineSide'
  <1>0. \A m \in Messages : RowMoves(msg[m], msg'[m])
    OBVIOUS
  <1>1. /\ Busy(w) /\ worker' = [worker EXCEPT ![w] = IdleWorker]
        /\ UNCHANGED <<disp, accepted>>
        /\ Ack(worker[w].delivery) \/ Retry(worker[w].delivery)
    BY DEF Commit, RecordFailure, Crash, Busy
  <1>2. PICK n \in Messages : n = worker[w].msg
    BY <1>1, SideTypes
  <1>3. CASE Crash(w)
    <2>1. UNCHANGED job /\ faults' # 0
      BY <1>3, SideTypes, FaultsCount DEF Crash
    <2>2. PICK status \in {"failed"} : status # "none"
      OBVIOUS
    <2>3. Releases(w, status) \/ UNCHANGED job
      BY <2>1
    <2> HIDE DEF Releases
    <2> QED
      BY <1>0, <1>1, <2>1, <2>2, <2>3, EndingKeepsSide
  <1>4. CASE RecordFailure(w)
    <2>1. Releases(w, IF worker[w].giveUp THEN "failed" ELSE "pending")
      BY <1>4, SideTypes, FailureReleases
    <2>2. (IF worker[w].giveUp THEN "failed" ELSE "pending") # "none"
      OBVIOUS
    <2>3. worker[w].pc = "recording" /\ UNCHANGED faults
      BY <1>4 DEF RecordFailure
    <2>4. ASSUME NEW m \in Messages, msg'[m].status = "draft" PROVE msg[m].status = "draft"
      <3>1. msg'[m] = msg[m] \/ msg'[m] = FailedRow(msg[m], worker[w].giveUp)
        BY <1>2, <1>4, DraftTypes DEF RecordFailure
      <3> QED
        BY <2>4, <3>1, SideTypes DEF FailedRow, MessageRows
    <2> HIDE DEF Releases
    <2> QED
      BY <1>1, <2>1, <2>2, <2>3, <2>4, EndingKeepsSide
  <1>5. CASE Commit(w)
    <2>1. UNCHANGED faults
      BY <1>5 DEF Commit
    <2>2. Releases(w, "succeeded") \/ UNCHANGED job
      BY <1>1, <1>5, SideTypes, CommitReleases DEF Commit
    <2>3. ASSUME NEW m \in Messages, msg'[m].status = "draft"
          PROVE  msg[m].status = "draft" /\ n # m
      <3>1. CASE msg[n].status = "absent"
        BY <1>2, <1>5, <2>3, <3>1 DEF Commit
      <3>2. CASE msg[n].status # "absent"
        <4>1. msg' = [msg EXCEPT ![n] = SentRow(msg[n], worker[w].to)]
          BY <1>2, <1>5, <3>2 DEF Commit, CommitRows
        <4>2. SentRow(msg[n], worker[w].to).status # "draft"
          BY SideTypes DEF SentRow, MessageRows
        <4> QED
          BY <2>3, <4>1, <4>2, DraftTypes
      <3> QED
        BY <3>1, <3>2
    <2> QED
      BY <1>1, <1>2, <2>1, <2>2, <2>3, EndingKeepsSide
  <1> QED
    BY <1>3, <1>4, <1>5

(* The success batch took effect, but its answer is lost: a fault.           *)
LEMMA LostAnswerKeepsSide ==
    ASSUME DraftInv, NEW w \in Workers, CommitAnswerLost(w),
           \A m \in Messages : RowMoves(msg[m], msg'[m]),
           UNCHANGED <<version, jobs>>
    PROVE  PipelineSide'
  <1>1. /\ Busy(w) /\ worker[w].pc = "commit" /\ CommitRows(w) /\ Fail(w, "transient")
        /\ faults' # 0 /\ UNCHANGED <<queue, disp, accepted>>
    BY SideTypes, FaultsCount DEF CommitAnswerLost, Busy
  <1>2. Releases(w, "succeeded")
    BY <1>1, SideTypes, CommitReleases
  <1>3. /\ worker'[w].pc = "failing" /\ worker'[w].msg = worker[w].msg
        /\ worker'[w].id = worker[w].id
        /\ \A v \in Workers : v # w => worker'[v] = worker[v]
    BY <1>1, DraftTypes DEF Fail, WorkerStates
  <1>4. PICK m \in Messages : m = worker[w].msg
    BY <1>1, SideTypes
  <1>5. /\ \A n \in Messages : /\ job'[n].id = job[n].id
                               /\ job'[n].overran = job[n].overran
                               /\ job'[n].status # "none" => job[n].status # "none"
        /\ \A v \in Workers :
             v # w /\ Busy(v) /\ job[worker[v].msg].id = worker[v].id
               /\ ~job[worker[v].msg].overran
             => job'[worker[v].msg] = job[worker[v].msg]
    BY <1>1, <1>2, ReleaseKeepsOthers
  <1>6. IdsIssued'
    <2>1. \A n \in Messages : job'[n].status # "none" => Issued(n, job'[n].id)
      BY <1>5, SideTypes DEF IdsIssued
    <2>2. \A v \in Workers : Busy(v)' => Issued(worker'[v].msg, worker'[v].id)
      BY <1>1, <1>3, SideTypes DEF Busy
    <2> QED
      BY <1>1, <2>1, <2>2, SideTypes DEF IdsIssued, Issued
  <1>7. \A n \in Messages : Uncreated(n)'
    BY <1>1, UncreatedStays
  <1>8. Keeper(w)'
    <2>1. Keeper(w)
      BY SideTypes
    <2> QED
      BY <1>1, <1>2, <1>3, <1>4, <1>5, <2>1 DEF Keeper, Releases, Owns, Busy
  <1>9. ASSUME NEW v \in Workers, v # w, Busy(v) PROVE Keeper(v)'
    <2>1. PICK n \in Messages : n = worker[v].msg
      BY <1>9, SideTypes
    <2>2. Keeper(v) /\ worker'[v] = worker[v]
      BY <1>3, <1>9, SideTypes
    <2> QED
      BY <1>5, <1>9, <2>1, <2>2 DEF Keeper, Busy
  <1>10. \A v \in Workers : Keeper(v)'
    BY <1>3, <1>8, <1>9 DEF Keeper, Busy
  <1> QED
    BY <1>1, <1>6, <1>7, <1>10 DEF PipelineSide, Undisturbed

(* One step per action of a worker. *)
LEMMA WorkerKeepsSide ==
    ASSUME DraftInv, NEW w \in Workers, WorkerStep(w) \/ WorkerFault(w),
           UNCHANGED <<version, jobs>>
    PROVE  PipelineSide'
  <1>0. LockInv /\ \A m \in Messages : RowMoves(msg[m], msg'[m])
    BY SideTypes, RowMovesInPipeline DEF Pipeline
  <1>1. CASE \E x \in Deliveries : Claim(w, x)
    BY <1>1, ClaimKeepsSide
  <1>2. CASE \E x \in Deliveries : SkipUnclaimable(w, x)
    BY <1>2, BackgroundKeepsSide DEF Background
  <1>3. CASE \/ LoadMessage(w) \/ LoadUnavailable(w) \/ LoadFails(w)
             \/ ProviderAccepts(w) \/ ProviderAnswerLost(w)
             \/ \E error \in {"transient", "rejected"} : ProviderRefuses(w, error)
             \/ CommitFails(w) \/ ReadAttempts(w)
    <2>1. Busy(w) /\ \E r \in WorkerStates : MovesTo(w, r)
      BY <1>0, <1>3, WorkerMovesOn
    <2>2. PICK r \in WorkerStates : MovesTo(w, r)
      BY <2>1
    <2>3. GoesOn(w, r)
      BY <2>2 DEF MovesTo, GoesOn
    <2> QED
      BY <2>1, <2>3, GoingOnKeepsSide
  <1>4. CASE Commit(w) \/ RecordFailure(w) \/ Crash(w)
    BY <1>0, <1>4, EndsKeepSide
  <1>5. CASE CommitAnswerLost(w)
    BY <1>0, <1>5, LostAnswerKeepsSide
  <1> QED
    BY <1>1, <1>2, <1>3, <1>4, <1>5 DEF WorkerStep, WorkerFault

LEMMA ForeignKeyKeepsAll ==
    ASSUME DraftInv, NEW w \in Workers, CommitBreaksForeignKey(w)
    PROVE  LockInv' /\ PipelineSide'
  <1>1. /\ Busy(w) /\ worker[w].pc = "commit" /\ Fail(w, "transient")
        /\ msg[worker[w].msg].status = "absent"
        /\ UNCHANGED <<msg, job, queue, disp, active, accepted, faults, version, jobs>>
    BY DEF CommitBreaksForeignKey, Committable, Busy, draftVars
  <1>2. worker[w] \in WorkerStates
    BY SideTypes
  <1>3. PICK r \in WorkerStates : /\ r = [worker[w] EXCEPT !.pc = "failing",
                                            !.error = "transient", !.giveUp = FALSE]
    <2>1. [worker[w] EXCEPT !.pc = "failing", !.error = "transient", !.giveUp = FALSE]
            \in WorkerStates
      BY <1>2 DEF WorkerStates
    <2> QED
      BY <2>1
  <1>4. worker' = [worker EXCEPT ![w] = r]
    BY <1>1, <1>2, <1>3, DraftTypes DEF Fail, WorkerStates
  <1>5. r.pc = "failing" /\ r.msg = worker[w].msg /\ r.id = worker[w].id
    BY <1>2, <1>3 DEF WorkerStates
  <1>6. GoesOn(w, r)
    BY <1>1, <1>4, <1>5 DEF GoesOn
  <1>7. TypeInv'
    BY <1>1, DraftTypes, FailMoves DEF TypeInv, TypeOK
  <1>8. LockInv'
    BY <1>1, <1>7, SideTypes DEF LockInv, LockMarksProcessing, AbsentHasNoJob
  <1> QED
    BY <1>1, <1>6, <1>8, GoingOnKeepsSide

LEMMA PipelineKeepsAll ==
    ASSUME DraftInv, Pipeline, UNCHANGED <<version, jobs>>
    PROVE  LockInv' /\ PipelineSide'
  <1>1. LockInv'
    BY SideTypes, LockStep DEF Next
  <1>2. PipelineSide'
    BY WorkerKeepsSide, BackgroundKeepsSide DEF Pipeline, Background
  <1> QED
    BY <1>1, <1>2

-----------------------------------------------------------------------------
(* Requests.  What a request may become: a request past requireDraft has     *)
(* read the version it names.                                                *)
Sound(r) ==
    /\ r \in Requests \cup Answers
    /\ r.pc # "done" /\ r.pc # "lookup" /\ r.pc # "draft" /\ r.op # "remove"
         => r.seen = r.match

Becomes(c) == \E r : Sound(r) /\ req' = [req EXCEPT ![c] = r]

LEMMA AnsweredSound ==
    ASSUME NEW a \in Errors \cup {"none", "ok", "replayed"}
    PROVE  Sound(Done(a)) /\ Done(a).pc = "done"
  BY DEF Sound, Answers, Done

LEMMA BegunSound ==
    ASSUME DraftInv, NEW c \in Clients, BeginSome(c)
    PROVE  /\ Becomes(c)
           /\ UNCHANGED <<vars, version, jobs, records>>
           /\ requests' \in 0..MaxRequests
  <1>1. PICK op \in Operations, m \in Messages, key \in Keys, to \in SUBSET Kinds :
          \E match \in 1..version[m] : Begin(c, op, m, key, match, to)
    BY DEF BeginSome
  <1>2. PICK match \in 1..version[m] : Begin(c, op, m, key, match, to)
    BY <1>1
  <1>3. match \in Nat
    OBVIOUS
  <1> DEFINE r == [ op |-> op, msg |-> m, key |-> key, match |-> match, to |-> to,
                    pc |-> IF op \in Keyless THEN "draft" ELSE "lookup",
                    seen |-> 0, noJob |-> FALSE ]
  <1>4. Sound(r)
    BY <1>3 DEF Sound, Requests
  <1>5. req' = [req EXCEPT ![c] = r] /\ UNCHANGED <<vars, version, jobs, records>>
    BY <1>2 DEF Begin
  <1>6. requests' \in 0..MaxRequests
    BY <1>2, MaxRequestsAssumption DEF Begin, DraftInv, DraftTypeOK
  <1> HIDE DEF r
  <1> QED
    BY <1>4, <1>5, <1>6 DEF Becomes

LEMMA AnswerSound ==
    ASSUME NEW c \in Clients, NEW a \in Errors \cup {"none", "ok", "replayed"}, Answer(c, a)
    PROVE  Becomes(c)
  BY AnsweredSound DEF Answer, Becomes

LEMMA ProceedSound ==
    ASSUME DraftInv, NEW c \in Clients, Running(c),
           NEW pc \in {"draft", "job", "recipients", "batch"},
           NEW seen \in Nat, NEW to \in SUBSET Kinds, NEW noJob \in BOOLEAN,
           req' = [req EXCEPT ![c] =
                     [req[c] EXCEPT !.pc = pc, !.seen = seen, !.to = to, !.noJob = noJob]],
           pc # "draft" /\ req[c].op # "remove" => seen = req[c].match
    PROVE  Becomes(c)
  <1> DEFINE r == [req[c] EXCEPT !.pc = pc, !.seen = seen, !.to = to, !.noJob = noJob]
  <1>1. req[c] \in Requests
    BY RunningTyped
  <1>2. /\ r \in Requests /\ r.pc = pc /\ r.op = req[c].op
        /\ r.seen = seen /\ r.match = req[c].match
    BY <1>1 DEF Requests
  <1>3. Sound(r)
    BY <1>2 DEF Sound
  <1> HIDE DEF r
  <1> QED
    BY <1>3 DEF r, Becomes

(* The steps of a request that only read. *)
Reads(c) ==
    \/ Lookup(c) \/ ReadDraft(c)
    \/ ReadJobToSend(c) \/ ReadJobToSchedule(c) \/ ReadJobToCancel(c)
    \/ ReadRecipients(c) \/ Refuse(c)

LEMMA ReadsSound ==
    ASSUME DraftInv, NEW c \in Clients, Reads(c)
    PROVE  /\ Becomes(c)
           /\ ReadOnly
  <1>0. ReadOnly
    BY DEF Reads, Lookup, ReadDraft, ReadJobToSend, ReadJobToSchedule, ReadJobToCancel,
           ReadRecipients, Refuse
  <1>1. Running(c)
    BY DEF Reads, Lookup, ReadDraft, ReadJobToSend, ReadJobToSchedule, ReadJobToCancel,
           ReadRecipients, Refuse, At, Running
  <1>2. /\ req[c] \in Requests /\ req[c].seen \in Nat /\ req[c].to \in SUBSET Kinds
        /\ req[c].noJob \in BOOLEAN /\ req[c].msg \in Messages
        /\ req \in [Clients -> Requests \cup Answers]
    BY <1>1, RunningTyped, DraftTypes DEF Requests
  <1>3. req[c].pc # "lookup" /\ req[c].pc # "draft" /\ req[c].op # "remove"
          => req[c].seen = req[c].match
    BY <1>1 DEF DraftInv, Based
  <1>11. ASSUME NEW a \in {"DRAFT_NOT_FOUND", "DRAFT_VERSION_CONFLICT", "DRAFT_SCHEDULED",
                           "SCHEDULE_ALREADY_DISPATCHED", "IDEMPOTENCY_KEY_REUSED",
                           "REFUSED", "replayed"},
                Answer(c, a)
         PROVE  Becomes(c)
    <2>1. a \in Errors \cup {"none", "ok", "replayed"}
      BY DEF Errors
    <2> QED
      BY <1>11, <2>1, AnswerSound
  <1>4. ASSUME NEW pc \in {"draft", "job", "recipients", "batch"}, Proceed(c, pc),
               pc = "draft" \/ req[c].pc \in {"job", "recipients"}
        PROVE  Becomes(c)
    <2>1. req' = [req EXCEPT ![c] =
            [req[c] EXCEPT !.pc = pc, !.seen = req[c].seen, !.to = req[c].to,
                           !.noJob = req[c].noJob]]
      BY <1>2, <1>4 DEF Proceed, Requests
    <2> QED
      BY <1>1, <1>2, <1>3, <1>4, <2>1, ProceedSound
  <1>12. SUFFICES Becomes(c)
    BY <1>0
  <1>5. CASE Lookup(c)
    <2>1. Proceed(c, "draft") \/ Answer(c, "replayed") \/ Answer(c, "IDEMPOTENCY_KEY_REUSED")
      BY <1>5 DEF Lookup
    <2> QED
      BY <1>4, <2>1, <1>11
  <1>6. CASE ReadDraft(c)
    <2>1. \/ Answer(c, "DRAFT_NOT_FOUND") \/ Answer(c, "DRAFT_VERSION_CONFLICT")
          \/ /\ req[c].op = "remove" \/ req[c].match = version[req[c].msg]
             /\ req' = [req EXCEPT ![c].seen = version[req[c].msg],
                                   ![c].pc = IF req[c].op \in Keyless THEN "batch"
                                                                      ELSE "job"]
      BY <1>6 DEF ReadDraft
    <2>2. CASE /\ req[c].op = "remove" \/ req[c].match = version[req[c].msg]
               /\ req' = [req EXCEPT ![c].seen = version[req[c].msg],
                                     ![c].pc = IF req[c].op \in Keyless THEN "batch"
                                                                        ELSE "job"]
      <3>1. PICK seen \in Nat : seen = version[req[c].msg]
        BY <1>2, DraftTypes
      <3>2. PICK pc \in {"job", "batch"} : pc = IF req[c].op \in Keyless THEN "batch"
                                                                        ELSE "job"
        OBVIOUS
      <3>3. req' = [req EXCEPT ![c] =
              [req[c] EXCEPT !.pc = pc, !.seen = seen, !.to = req[c].to,
                             !.noJob = req[c].noJob]]
        BY <1>2, <2>2, <3>1, <3>2 DEF Requests
      <3> QED
        <4>1. pc # "draft" /\ req[c].op # "remove" => seen = req[c].match
          BY <2>2, <3>1
        <4> QED
          BY <1>1, <1>2, <3>3, <4>1, ProceedSound
    <2> QED
      BY <2>1, <2>2, <1>11
  <1>7. CASE ReadJobToSend(c) \/ ReadJobToSchedule(c)
    <2>1. \/ Answer(c, "DRAFT_SCHEDULED") \/ Answer(c, "SCHEDULE_ALREADY_DISPATCHED")
          \/ Proceed(c, "recipients") /\ req[c].pc = "job"
      BY <1>7 DEF ReadJobToSend, ReadJobToSchedule, At
    <2> QED
      BY <1>4, <2>1, <1>11
  <1>8. CASE ReadJobToCancel(c)
    <2>1. PICK b \in BOOLEAN : b = (job[req[c].msg].status = "none")
      <3>1. \/ TRUE = (job[req[c].msg].status = "none")
            \/ FALSE = (job[req[c].msg].status = "none")
        BY SMT
      <3> QED
        BY <3>1, Zenon
    <2>2. \/ Answer(c, "SCHEDULE_ALREADY_DISPATCHED")
          \/ req' = [req EXCEPT ![c].pc = "batch", ![c].noJob = b]
      BY <1>8, <2>1 DEF ReadJobToCancel
    <2>3. CASE req' = [req EXCEPT ![c].pc = "batch", ![c].noJob = b]
      <3>1. req' = [req EXCEPT ![c] =
              [req[c] EXCEPT !.pc = "batch", !.seen = req[c].seen, !.to = req[c].to,
                             !.noJob = b]]
        BY <1>2, <2>3 DEF Requests
      <3>2. req[c].pc = "job"
        BY <1>8 DEF ReadJobToCancel, At
      <3> QED
        BY <1>1, <1>2, <1>3, <2>1, <3>1, <3>2, ProceedSound
    <2> QED
      BY <2>2, <2>3, <1>11
  <1>9. CASE ReadRecipients(c)
    <2>1. PICK to \in SUBSET Kinds : to = msg[req[c].msg].to
      BY <1>2, DraftTypes DEF MessageRows
    <2>2. Answer(c, "REFUSED") \/ req' = [req EXCEPT ![c].to = to, ![c].pc = "batch"]
      BY <1>9, <2>1 DEF ReadRecipients
    <2>3. CASE req' = [req EXCEPT ![c].to = to, ![c].pc = "batch"]
      <3>1. req' = [req EXCEPT ![c] =
              [req[c] EXCEPT !.pc = "batch", !.seen = req[c].seen, !.to = to,
                             !.noJob = req[c].noJob]]
        BY <1>2, <2>3 DEF Requests
      <3>2. req[c].pc = "recipients"
        BY <1>9 DEF ReadRecipients, At
      <3> QED
        BY <1>1, <1>2, <1>3, <2>1, <3>1, <3>2, ProceedSound
    <2> QED
      BY <2>2, <2>3, <1>11
  <1>10. CASE Refuse(c)
    BY <1>10, <1>11 DEF Refuse
  <1> QED
    BY <1>0, <1>5, <1>6, <1>7, <1>8, <1>9, <1>10 DEF Reads

(* The batches answer the request. *)
Batches(c) ==
    \/ SendBatch(c) \/ ScheduleBatch(c) \/ CancelNothing(c) \/ CancelBatch(c)
    \/ UpdateBatch(c) \/ RemoveDraft(c)

LEMMA BatchesSound ==
    ASSUME DraftInv, NEW c \in Clients, Batches(c)
    PROVE  /\ \E a \in Errors \cup {"ok"} : Answer(c, a)
           /\ Running(c) /\ UNCHANGED requests
           /\ records' \in SUBSET Records
  <1>1. Running(c)
    BY DEF Batches, SendBatch, ScheduleBatch, CancelNothing, CancelBatch, UpdateBatch,
           RemoveDraft, At, Running
  <1>2. RecordOf(c) \in Records /\ records \in SUBSET Records
    BY <1>1, RunningTyped, DraftTypes DEF RecordOf, Records
  <1>3. records' = records \/ records' = records \cup {RecordOf(c)}
    BY DEF Batches, SendBatch, ScheduleBatch, CancelNothing, CancelBatch, UpdateBatch,
           RemoveDraft, RecordIf, Abandon
  <1>4. \E a \in Errors \cup {"ok"} : Answer(c, a)
    <2>1. CASE SendBatch(c)
      BY <2>1, Zenon DEF SendBatch, Abandon, Conflict, Errors
    <2>2. CASE ScheduleBatch(c)
      <3>1. \/ Answer(c, "INTERNAL") \/ Answer(c, "DRAFT_VERSION_CONFLICT")
            \/ Answer(c, "ok") \/ Answer(c, "SCHEDULE_ALREADY_DISPATCHED")
        BY <2>2 DEF ScheduleBatch, Abandon, Conflict
      <3> QED
        BY <3>1 DEF Errors
    <2>3. CASE CancelNothing(c)
      BY <2>3, Zenon DEF CancelNothing, Abandon, Errors
    <2>4. CASE CancelBatch(c)
      <3>1. \/ Answer(c, "INTERNAL") \/ Answer(c, "DRAFT_VERSION_CONFLICT")
            \/ Answer(c, "ok") \/ Answer(c, "SCHEDULE_ALREADY_DISPATCHED")
        BY <2>4 DEF CancelBatch, Abandon
      <3> QED
        BY <3>1 DEF Errors
    <2>5. CASE UpdateBatch(c) \/ RemoveDraft(c)
      BY <2>5, Zenon DEF UpdateBatch, RemoveDraft, Conflict, Errors
    <2> QED
      BY <2>1, <2>2, <2>3, <2>4, <2>5 DEF Batches
  <1>5. UNCHANGED requests
    BY DEF Batches, SendBatch, ScheduleBatch, CancelNothing, CancelBatch, UpdateBatch,
           RemoveDraft
  <1> QED
    BY <1>1, <1>2, <1>3, <1>4, <1>5

LEMMA BatchesWrite ==
    ASSUME DraftInv, NEW c \in Clients, Batches(c)
    PROVE  DraftWrites \/ UNCHANGED <<vars, version, jobs>>
  BY SendWrites, ScheduleWrites, CancelWrites, UpdateWrites, RemoveWrites DEF Batches

-----------------------------------------------------------------------------
(* The invariant. *)
LEMMA DraftInitInv == DraftInit => DraftInv
  <1> SUFFICES ASSUME DraftInit PROVE DraftInv
    OBVIOUS
  <1>1. LockInv
    BY LockInit DEF DraftInit
  <1>2. req \in [Clients -> Requests \cup Answers] /\ \A c \in Clients : ~Running(c)
    <2>1. Done("none") \in Answers /\ Done("none").pc = "done"
      BY DEF Answers, Done
    <2> QED
      BY <2>1 DEF DraftInit, Running
  <1>3. DraftTypeOK
    BY <1>1, <1>2, MaxRequestsAssumption
    DEF DraftInit, DraftTypeOK, LockInv, TypeInv
  <1>4. PipelineSide
    BY DEF DraftInit, Init, PipelineSide, IdsIssued, Uncreated, Keeper, Undisturbed, Busy,
           NoMessage, NoJob, IdleWorker, IdleDispatcher
  <1> QED
    BY <1>1, <1>2, <1>3, <1>4 DEF DraftInv, Based

LEMMA RequestsStay ==
    ASSUME DraftInv, UNCHANGED req
    PROVE  \A c \in Clients : Based(c)'
  BY DEF DraftInv, Based, Running

LEMMA RequestsMove ==
    ASSUME DraftInv, NEW c \in Clients, Becomes(c)
    PROVE  /\ req' \in [Clients -> Requests \cup Answers]
           /\ \A d \in Clients : Based(d)'
  <1>1. PICK r : Sound(r) /\ req' = [req EXCEPT ![c] = r]
    BY DEF Becomes
  <1>2. req'[c] = r /\ \A d \in Clients : d # c => req'[d] = req[d]
    BY <1>1, DraftTypes
  <1>3. req' \in [Clients -> Requests \cup Answers]
    BY <1>1, DraftTypes DEF Sound
  <1>4. \A d \in Clients : Based(d)'
    BY <1>1, <1>2 DEF DraftInv, Based, Running, Sound
  <1> QED
    BY <1>3, <1>4

(* What the pipeline and the tables have of the invariant.                   *)
LEMMA StillStanding ==
    ASSUME DraftInv, DraftWrites \/ UNCHANGED <<vars, version, jobs>>
    PROVE  /\ LockInv' /\ PipelineSide'
           /\ version' \in [Messages -> Nat] /\ jobs' \in [Messages -> Nat]
  <1>1. CASE DraftWrites
    BY <1>1, WritesKeepLock, WritesKeepSide DEF DraftWrites
  <1>2. CASE UNCHANGED <<vars, version, jobs>>
    <2>1. LockInv'
      BY <1>2, SideTypes, LockStep
    <2>2. IdsIssued' /\ Undisturbed'
      BY <1>2, SideTypes DEF vars, IdsIssued, Issued, Undisturbed, Busy
    <2>3. \A m \in Messages : Uncreated(m)'
      BY <1>2, SideTypes DEF vars, Uncreated
    <2>4. \A w \in Workers : Keeper(w)'
      BY <1>2, SideTypes DEF vars, Keeper, Busy
    <2> QED
      BY <1>2, <2>1, <2>2, <2>3, <2>4, DraftTypes DEF PipelineSide
  <1> QED
    BY <1>1, <1>2

LEMMA InvIsWhole ==
    ASSUME LockInv', PipelineSide', version' \in [Messages -> Nat],
           jobs' \in [Messages -> Nat], records' \in SUBSET Records,
           req' \in [Clients -> Requests \cup Answers], requests' \in 0..MaxRequests,
           \A c \in Clients : Based(c)'
    PROVE  DraftInv'
  BY DEF DraftInv, DraftTypeOK, LockInv, TypeInv

LEMMA DraftStep == DraftInv /\ [DraftNext]_allVars => DraftInv'
  <1> SUFFICES ASSUME DraftInv, [DraftNext]_allVars PROVE DraftInv'
    OBVIOUS
  <1>0. /\ version \in [Messages -> Nat] /\ jobs \in [Messages -> Nat]
        /\ records \in SUBSET Records /\ req \in [Clients -> Requests \cup Answers]
        /\ requests \in 0..MaxRequests
    BY DEF DraftInv, DraftTypeOK
  <1>1. CASE UNCHANGED allVars
    <2>1. UNCHANGED <<vars, version, jobs>> /\ UNCHANGED <<records, req, requests>>
      BY <1>1 DEF allVars, draftVars
    <2> QED
      BY <1>0, <2>1, StillStanding, RequestsStay, InvIsWhole
  <1>2. ASSUME NEW m \in Messages, NEW to \in SUBSET Kinds, CreateDraft(m, to)
        PROVE  DraftInv'
    <2>1. UNCHANGED <<records, req, requests>>
      BY <1>2 DEF CreateDraft
    <2> QED
      BY <1>0, <1>2, <2>1, CreateWrites, StillStanding, RequestsStay, InvIsWhole
  <1>3. ASSUME NEW c \in Clients, BeginSome(c) PROVE DraftInv'
    <2>1. /\ Becomes(c) /\ UNCHANGED <<vars, version, jobs>> /\ UNCHANGED records
          /\ requests' \in 0..MaxRequests
      BY <1>3, BegunSound
    <2> QED
      BY <1>0, <2>1, StillStanding, RequestsMove, InvIsWhole
  <1>4. ASSUME NEW c \in Clients, Reads(c) PROVE DraftInv'
    <2>1. Becomes(c) /\ UNCHANGED <<vars, version, jobs>> /\ UNCHANGED <<records, requests>>
      BY <1>4, ReadsSound DEF ReadOnly
    <2> QED
      BY <1>0, <2>1, StillStanding, RequestsMove, InvIsWhole
  <1>5. ASSUME NEW c \in Clients, Batches(c) PROVE DraftInv'
    <2>1. Becomes(c) /\ UNCHANGED requests /\ records' \in SUBSET Records
      BY <1>5, BatchesSound, AnswerSound
    <2> QED
      BY <1>0, <1>5, <2>1, BatchesWrite, StillStanding, RequestsMove, InvIsWhole
  <1>6. ASSUME NEW w \in Workers, CommitBreaksForeignKey(w) PROVE DraftInv'
    <2>1. UNCHANGED <<version, jobs, records, req, requests>>
      BY <1>6 DEF CommitBreaksForeignKey, draftVars
    <2> QED
      BY <1>0, <1>6, <2>1, ForeignKeyKeepsAll, RequestsStay, InvIsWhole
  <1>7. CASE Pipeline /\ UNCHANGED draftVars
    <2>1. UNCHANGED <<version, jobs, records, req, requests>>
      BY <1>7 DEF draftVars
    <2> QED
      BY <1>0, <1>7, <2>1, PipelineKeepsAll, RequestsStay, InvIsWhole
  <1> QED
    BY <1>1, <1>2, <1>3, <1>4, <1>5, <1>6, <1>7
    DEF DraftNext, RequestStep, Reads, Batches

LEMMA DraftInvariant == DraftSpec => []DraftInv
  BY DraftInitInv, DraftStep, PTL DEF DraftSpec

(* Drafts, versions, records and requests keep their types, and so does the  *)
(* pipeline under them, for any number of requests.                          *)
THEOREM DraftTypeCorrect == DraftSpec => []DraftTypeOK
  <1>1. DraftInv => DraftTypeOK
    BY DEF DraftInv
  <1> QED
    BY <1>1, DraftInvariant, PTL

-----------------------------------------------------------------------------
(* What the answers promise.  Only a batch answers with success.             *)
LEMMA ReadsNeverSucceed ==
    ASSUME DraftInv, NEW c \in Clients, Reads(c)
    PROVE  req'[c] # Done("ok") /\ UNCHANGED <<msg, job, version, records>>
  <1>1. Done("ok").pc = "done" /\ Done("ok").answer = "ok"
        /\ \A a : Done(a).answer = a
    BY DEF Done
  <1>2. req \in [Clients -> Requests \cup Answers] /\ req[c] \in Requests
    BY DraftTypes, RunningTyped
    DEF Reads, Lookup, ReadDraft, ReadJobToSend, ReadJobToSchedule, ReadJobToCancel,
        ReadRecipients, Refuse, At, Running
  <1>3. ASSUME NEW a, a # "ok", Answer(c, a) PROVE req'[c] # Done("ok")
    <2>1. req'[c] = Done(a)
      BY <1>2, <1>3 DEF Answer
    <2> QED
      BY <1>1, <1>3, <2>1
  <1>4. ASSUME NEW pc, pc # "done", Proceed(c, pc) PROVE req'[c] # Done("ok")
    <2>1. req'[c].pc = pc
      BY <1>2, <1>4 DEF Proceed, Requests
    <2> QED
      BY <1>1, <1>4, <2>1
  <1>5. CASE Lookup(c) \/ Refuse(c)
    <2>1. \/ Proceed(c, "draft") \/ Answer(c, "replayed")
          \/ Answer(c, "IDEMPOTENCY_KEY_REUSED") \/ Answer(c, "REFUSED")
      BY <1>5 DEF Lookup, Refuse
    <2>2. req'[c] # Done("ok")
      BY <1>3, <1>4, <2>1
    <2> QED
      BY <1>5, <2>2 DEF Lookup, Refuse, ReadOnly, vars
  <1>6. CASE ReadDraft(c)
    <2>1. \/ Answer(c, "DRAFT_NOT_FOUND") \/ Answer(c, "DRAFT_VERSION_CONFLICT")
          \/ req' = [req EXCEPT ![c].seen = version[req[c].msg],
                                ![c].pc = IF req[c].op \in Keyless THEN "batch"
                                                                   ELSE "job"]
      BY <1>6 DEF ReadDraft
    <2>2. CASE req' = [req EXCEPT ![c].seen = version[req[c].msg],
                                  ![c].pc = IF req[c].op \in Keyless THEN "batch"
                                                                     ELSE "job"]
      <3>1. req'[c].pc # "done"
        BY <1>2, <2>2 DEF Requests
      <3> QED
        BY <1>1, <1>6, <3>1 DEF ReadDraft, ReadOnly, vars
    <2>3. CASE Answer(c, "DRAFT_NOT_FOUND") \/ Answer(c, "DRAFT_VERSION_CONFLICT")
      <3>1. req'[c] # Done("ok")
        BY <1>3, <2>3
      <3> QED
        BY <1>6, <3>1 DEF ReadDraft, ReadOnly, vars
    <2> QED
      BY <2>1, <2>2, <2>3
  <1>7. CASE ReadJobToSend(c) \/ ReadJobToSchedule(c)
    <2>1. \/ Proceed(c, "recipients") \/ Answer(c, "DRAFT_SCHEDULED")
          \/ Answer(c, "SCHEDULE_ALREADY_DISPATCHED")
      BY <1>7 DEF ReadJobToSend, ReadJobToSchedule
    <2>2. req'[c] # Done("ok")
      BY <1>3, <1>4, <2>1
    <2> QED
      BY <1>7, <2>2 DEF ReadJobToSend, ReadJobToSchedule, ReadOnly, vars
  <1>8. CASE ReadJobToCancel(c) \/ ReadRecipients(c)
    <2>1. \/ Answer(c, "SCHEDULE_ALREADY_DISPATCHED") \/ Answer(c, "REFUSED")
          \/ req'[c].pc = "batch"
      BY <1>2, <1>8 DEF ReadJobToCancel, ReadRecipients, Requests
    <2>2. req'[c] # Done("ok")
      BY <1>1, <1>3, <2>1
    <2> QED
      BY <1>8, <2>2 DEF ReadJobToCancel, ReadRecipients, ReadOnly, vars
  <1> QED
    BY <1>5, <1>6, <1>7, <1>8 DEF Reads

(* A request is answered by a step of its own. *)
LEMMA AnsweredByOwnStep ==
    ASSUME DraftInv, [DraftNext]_allVars, NEW c \in Clients, NEW a,
           Running(c), req'[c] = Done(a)
    PROVE  Reads(c) \/ Batches(c)
  <1>1. req'[c] # req[c] /\ req \in [Clients -> Requests \cup Answers]
    BY DraftTypes DEF Running, Done
  <1>2. req' # req
    BY <1>1
  <1>3. PICK d \in Clients : BeginSome(d) \/ RequestStep(d) \/ Refuse(d)
    BY <1>2
    DEF DraftNext, allVars, draftVars, CreateDraft, CommitBreaksForeignKey
  <1>4. CASE BeginSome(d)
    <2>1. ~Running(d) /\ Becomes(d)
      BY <1>4, BegunSound DEF BeginSome, Begin
    <2> QED
      BY <1>1, <2>1 DEF Becomes
  <1>5. CASE Reads(d)
    BY <1>1, <1>5, ReadsSound DEF Becomes
  <1>6. CASE Batches(d)
    <2>1. \E b : Answer(d, b)
      BY <1>6, BatchesSound
    <2> QED
      BY <1>1, <1>6, <2>1 DEF Answer
  <1> QED
    BY <1>3, <1>4, <1>5, <1>6 DEF RequestStep, Reads, Batches


LEMMA AnswerTells ==
    ASSUME DraftInv, NEW c \in Clients, NEW a, NEW b, Answer(c, a), req'[c] = Done(b)
    PROVE  a = b
  <1>1. Done(a) = Done(b)
    BY DraftTypes DEF Answer
  <1>2. Done(a).answer = a /\ Done(b).answer = b
    BY DEF Done
  <1> QED
    BY <1>1, <1>2

LEMMA CurrentIsSeen ==
    ASSUME DraftInv, NEW c \in Clients, SendBatch(c) \/ ScheduleBatch(c) \/ UpdateBatch(c),
           req'[c] = Done("ok")
    PROVE  version[req[c].msg] = req[c].match
  <1>1. req[c].pc = "batch" /\ req[c].op # "remove"
    BY DEF SendBatch, ScheduleBatch, UpdateBatch, At
  <1>2. ~Conflict(c)
    BY AnswerTells DEF Conflict
  <1>3. StillCurrent(c)
    <2>1. CASE SendBatch(c)
      BY <1>2, <2>1 DEF SendBatch
    <2>2. CASE ScheduleBatch(c)
      <3>1. ~Abandon(c)
        BY AnswerTells DEF Abandon
      <3> QED
        BY <1>2, <2>2, <3>1 DEF ScheduleBatch
    <2>3. CASE UpdateBatch(c)
      BY <1>2, <2>3 DEF UpdateBatch
    <2> QED
      BY <2>1, <2>2, <2>3
  <1> QED
    BY <1>1, <1>3 DEF StillCurrent, DraftInv, Based, Running

(* A write that is answered with success was based on the version that was   *)
(* current when it took effect, for any number of clients and requests: the  *)
(* ETag that requireDraft compared is the one the guarded batch tests again. *)
THEOREM UpdatesNotLost == DraftSpec => NoLostUpdate
  <1>1. ASSUME DraftInv, [DraftNext]_allVars, NEW c \in Clients,
               NEW op \in {"send", "schedule", "update"}, Answered(c, op, "ok")
        PROVE  version[req[c].msg] = req[c].match
    <2>1. Running(c) /\ req[c].op = op /\ req'[c] = Done("ok")
      BY <1>1 DEF Answered
    <2>2. Batches(c)
      BY <1>1, <2>1, AnsweredByOwnStep, ReadsNeverSucceed
    <2>3. SendBatch(c) \/ ScheduleBatch(c) \/ UpdateBatch(c)
      BY <2>1, <2>2 DEF Batches, CancelNothing, CancelBatch, RemoveDraft, At
    <2> QED
      BY <1>1, <2>1, <2>3, CurrentIsSeen
  <1>2. DraftInv /\ [DraftNext]_allVars =>
          \A c \in Clients : \A op \in {"send", "schedule", "update"} :
             Answered(c, op, "ok") => version[req[c].msg] = req[c].match
    BY <1>1
  <1> QED
    BY <1>2, DraftInvariant, PTL DEF DraftSpec, NoLostUpdate

LEMMA FailedSendIsVoid ==
    ASSUME DraftInv, NEW c \in Clients, NEW e \in Errors, SendBatch(c), req'[c] = Done(e)
    PROVE  UNCHANGED <<msg, job, version, records>>
  <1>1. ~Answer(c, "ok")
    <2>1. e # "ok"
      BY DEF Errors
    <2> QED
      BY <2>1, AnswerTells
  <1>2. CASE ~StillCurrent(c)
    BY <1>2 DEF SendBatch, RecordIf
  <1>3. CASE StillCurrent(c) /\ Abandon(c)
    BY <1>3 DEF Abandon
  <1> QED
    BY <1>1, <1>2, <1>3 DEF SendBatch

LEMMA FailedUpdateIsVoid ==
    ASSUME DraftInv, NEW c \in Clients, NEW e \in Errors, UpdateBatch(c), req'[c] = Done(e)
    PROVE  UNCHANGED <<msg, job, version, records>>
  <1>1. ~Answer(c, "ok")
    <2>1. e # "ok"
      BY DEF Errors
    <2> QED
      BY <2>1, AnswerTells
  <1>2. ~StillCurrent(c) /\ UNCHANGED <<job, version, records>>
    BY <1>1 DEF UpdateBatch
  <1>3. PICK m \in Messages : m = req[c].msg
    BY RunningTyped DEF UpdateBatch, At, Running
  <1>4. RecipientsAfter(c) = msg[m].to
    BY <1>2, <1>3 DEF RecipientsAfter
  <1>5. [msg[m] EXCEPT !.to = msg[m].to] = msg[m]
    BY DraftTypes DEF MessageRows
  <1>6. msg' = [msg EXCEPT ![m] = [msg[m] EXCEPT !.to = RecipientsAfter(c)]]
    BY <1>3, DraftTypes DEF UpdateBatch
  <1> QED
    BY <1>2, <1>4, <1>5, <1>6, DraftTypes

(* A send or an update answered with an error has left the message, its job, *)
(* its version and the idempotency records as they were, whichever statement *)
(* of its batch met the changed draft.                                       *)
THEOREM FailuresAreVoid == DraftSpec => FailedSendChangesNothing
  <1>1. ASSUME DraftInv, [DraftNext]_allVars, NEW c \in Clients,
               NEW op \in {"send", "update"}, NEW e \in Errors, Answered(c, op, e)
        PROVE  UNCHANGED <<msg, job, version, records>>
    <2>1. Running(c) /\ req[c].op = op /\ req'[c] = Done(e)
      BY <1>1 DEF Answered
    <2>2. Reads(c) \/ Batches(c)
      BY <1>1, <2>1, AnsweredByOwnStep
    <2>3. CASE Reads(c)
      BY <1>1, <2>3, ReadsNeverSucceed
    <2>4. CASE Batches(c)
      <3>1. SendBatch(c) \/ UpdateBatch(c)
        BY <2>1, <2>4 DEF Batches, ScheduleBatch, CancelNothing, CancelBatch, RemoveDraft, At
      <3> QED
        BY <1>1, <2>1, <3>1, FailedSendIsVoid, FailedUpdateIsVoid
    <2> QED
      BY <2>2, <2>3, <2>4
  <1>2. DraftInv /\ [DraftNext]_allVars =>
          \A c \in Clients, op \in {"send", "update"}, e \in Errors :
             Answered(c, op, e) => UNCHANGED <<msg, job, version, records>>
    BY <1>1
  <1> QED
    BY <1>2, DraftInvariant, PTL DEF DraftSpec, FailedSendChangesNothing

(* A job that may still be cancelled has no worker that could deliver it:    *)
(* one that had claimed it would hold its lock, unless it has overrun it.    *)
LEMMA NobodyDelivers ==
    ASSUME DraftInv, NEW m \in Messages, Cancellable(m),
           NEW w \in Workers, Busy(w), worker[w].msg = m, worker[w].id = job[m].id
    PROVE  job[m].overran
  <1>1. Keeper(w) /\ LockFits(job[m])
    BY SideTypes
  <1>2. job[m].status # "processing" /\ job[m].status # "succeeded"
    BY DEF Cancellable
  <1> QED
    BY <1>1, <1>2 DEF Keeper, LockFits

LEMMA CancelledInTime ==
    ASSUME DraftInv, NEW m \in Messages, Cancellable(m), msg[m].status = "draft", faults = 0
    PROVE  accepted[m] = 0
  <1>1. /\ ~job[m].overran /\ accepted[m] \in Nat
        /\ accepted[m] > 0 => \E w \in Workers : worker[w].pc = "commit" /\ worker[w].msg = m
        /\ \A w \in Workers : Busy(w) /\ worker[w].msg = m => job[m].id = worker[w].id
    BY SideTypes DEF Undisturbed
  <1>2. ASSUME NEW w \in Workers, worker[w].pc = "commit", worker[w].msg = m PROVE FALSE
    <2>1. Busy(w)
      BY <1>2 DEF Busy
    <2> QED
      BY <1>1, <1>2, <2>1, NobodyDelivers
  <1> QED
    BY <1>1, <1>2

LEMMA CancelledRow ==
    ASSUME DraftInv, NEW c \in Clients, CancelBatch(c), req'[c] = Done("ok")
    PROVE  Cancellable(req[c].msg) /\ msg[req[c].msg].status = "draft"
  <1>1. ~Abandon(c)
    BY AnswerTells DEF Abandon
  <1>2. Answer(c, IF ~Cancellable(req[c].msg) THEN "SCHEDULE_ALREADY_DISPATCHED"
                  ELSE IF StillCurrent(c) THEN "ok" ELSE "DRAFT_VERSION_CONFLICT")
    BY <1>1 DEF CancelBatch
  <1>3. Cancellable(req[c].msg) /\ StillCurrent(c)
    <2>1. ~Answer(c, "SCHEDULE_ALREADY_DISPATCHED") /\ ~Answer(c, "DRAFT_VERSION_CONFLICT")
      BY AnswerTells
    <2> QED
      BY <1>2, <2>1
  <1> QED
    BY <1>3 DEF StillCurrent

(* A confirmed cancellation is final, for any number of workers, deliveries  *)
(* and requests: no worker whose lock has held is past the claim with the    *)
(* cancelled job, and without a fault the provider has not had the message.  *)
THEOREM CancelIsFinal == DraftSpec => CancelStopsDelivery
  <1> DEFINE Stopped(m) ==
        /\ \A w \in Workers :
             Busy(w) /\ worker[w].msg = m /\ worker[w].id = job[m].id => job[m].overran
        /\ faults = 0 => accepted[m] = 0
  <1>1. ASSUME DraftInv, [DraftNext]_allVars, NEW c \in Clients,
               Answered(c, "cancel", "ok"), ~req[c].noJob
        PROVE  Stopped(req[c].msg)
    <2>1. Running(c) /\ req[c].op = "cancel" /\ req'[c] = Done("ok")
      BY <1>1 DEF Answered
    <2>2. Batches(c)
      BY <1>1, <2>1, AnsweredByOwnStep, ReadsNeverSucceed
    <2>3. CancelBatch(c)
      BY <1>1, <2>1, <2>2
      DEF Batches, SendBatch, ScheduleBatch, CancelNothing, UpdateBatch, RemoveDraft, At
    <2>4. PICK m \in Messages : m = req[c].msg
      BY <1>1, <2>1, RunningTyped
    <2>5. Cancellable(m) /\ msg[m].status = "draft"
      BY <1>1, <2>1, <2>3, <2>4, CancelledRow
    <2> QED
      BY <1>1, <2>4, <2>5, NobodyDelivers, CancelledInTime
  <1>2. DraftInv /\ [DraftNext]_allVars =>
          \A c \in Clients :
             Answered(c, "cancel", "ok") /\ ~req[c].noJob =>
                 LET m == req[c].msg IN
                 /\ \A w \in Workers :
                      Busy(w) /\ worker[w].msg = m /\ worker[w].id = job[m].id
                        => job[m].overran
                 /\ faults = 0 => accepted[m] = 0
    BY <1>1
  <1> QED
    BY <1>2, DraftInvariant, PTL DEF DraftSpec, CancelStopsDelivery

=============================================================================
