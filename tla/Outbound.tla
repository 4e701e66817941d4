------------------------------ MODULE Outbound ------------------------------
(***************************************************************************)
(* The outbound delivery pipeline of the UniMailbox worker:                 *)
(*                                                                          *)
(*   - the rows of `messages`, `mailbox_messages` and `outbound_jobs` that  *)
(*     the pipeline reads and writes (D1; a `batch` is one transaction);    *)
(*   - dispatchers (the cron tick, and the request that has just queued a   *)
(*     message), which hand due jobs to the Cloudflare Queue;               *)
(*   - the Queue itself, at least once, with retries and a dead letter;     *)
(*   - workers (queue consumer invocations) that claim a job under a lock   *)
(*     token, load the message, call the provider and commit or record the  *)
(*     failure;                                                             *)
(*   - the cron recovery of expired locks.                                  *)
(*                                                                          *)
(* Time is abstract.  `available_at <= now` is the flag `due` and           *)
(* `lock_expires_at >= now` is the flag `live`; both change in actions of    *)
(* their own (BecomesDue, LockExpires), so every order of the two clocks     *)
(* against the processes is explored and no horizon is needed.              *)
(***************************************************************************)
EXTENDS Naturals, FiniteSets

CONSTANTS
    Messages,      \* ids of rows of `messages`
    Workers,       \* queue consumer invocations that may run at once
    Dispatchers,   \* cron ticks and requests that may run dispatch() at once
    Deliveries,    \* queue entries that may exist at once (bound)
    Keyed,         \* the messages whose row carries a provider_key
    AttemptLimit,  \* runtimePolicy.outboundAttemptLimit
    MaxRetries,    \* max_retries of the queue consumer (wrangler.jsonc)
    MaxFaults,     \* how many faults a behaviour may contain (bound)
    Overrun        \* may a provider call outlast outboundLockTtlMs?

ASSUME KeyedAssumption == Keyed \subseteq Messages
ASSUME LimitsAssumption ==
    /\ AttemptLimit \in Nat \ {0}
    /\ MaxRetries \in Nat
    /\ MaxFaults \in Nat
ASSUME OverrunAssumption == Overrun \in BOOLEAN

(* The name of no process, message or delivery. *)
None == "none"
ASSUME NoneAssumption ==
    None \notin Messages \cup Workers \cup Dispatchers \cup Deliveries

VARIABLES
    msg,       \* rows of messages with the links of mailbox_messages
    job,       \* rows of outbound_jobs; message_id is UNIQUE, so one per message
    queue,     \* what each delivery slot of the Queue holds
    worker,    \* the consumer invocations
    disp,      \* the dispatchers
    active,    \* provider_connections.status = 'active'
    accepted,  \* how often the provider accepted each message
    faults     \* faults so far (bounds the model only)

vars == <<msg, job, queue, worker, disp, active, accepted, faults>>

-----------------------------------------------------------------------------
(* Types *)

Kinds == {"internal", "external"}   \* who a message is addressed to

MessageRows ==
    [ status : {"absent", "draft", "queued", "sent", "failed"},
      to     : SUBSET Kinds,
      keyed  : BOOLEAN,                     \* provider_key IS NOT NULL
      conn   : BOOLEAN,                     \* provider_connection_id IS NOT NULL
      pid    : BOOLEAN,                     \* provider_message_id recorded
      folder : {"none", "drafts", "sent"},  \* the sender's link
      inbox  : BOOLEAN ]                    \* the internal recipients' links

NoMessage == [ status |-> "absent", to |-> {}, keyed |-> FALSE, conn |-> FALSE,
               pid |-> FALSE, folder |-> "none", inbox |-> FALSE ]

JobRows ==
    [ status    : {"none", "pending", "enqueued", "processing",
                   "succeeded", "failed"},
      id        : Nat,                      \* which job of the message this is
      attempts  : Nat,
      due       : BOOLEAN,                  \* available_at <= now
      token     : Workers \cup {None},      \* lock_token
      live      : BOOLEAN,                  \* lock_expires_at >= now
      overran   : BOOLEAN,                  \* history: expired under its owner
      lastError : {"none", "unavailable", "transient", "rejected"} ]

NoJob == [ status |-> "none", id |-> 0, attempts |-> 0, due |-> FALSE,
           token |-> None, live |-> FALSE, overran |-> FALSE,
           lastError |-> "none" ]

(* A fresh row of outbound_jobs: the column defaults of the migration. *)
NewJob(id, due) == [ NoJob EXCEPT !.status = "pending", !.id = id, !.due = due ]

QueueEntries == [ msg : Messages, id : Nat, tries : 0..MaxRetries ]
NoEntry == [ msg |-> None ]

WorkerStates ==
    [ pc        : {"idle", "claimed", "sending", "commit", "failing", "recording"},
      delivery  : Deliveries \cup {None},
      msg       : Messages \cup {None},
      id        : Nat,
      to        : SUBSET Kinds,             \* recipients as loaded
      error     : {"none", "unavailable", "transient", "rejected"},
      giveUp    : BOOLEAN ]                 \* the failure is not retryable

IdleWorker == [ pc |-> "idle", delivery |-> None, msg |-> None, id |-> 0,
                to |-> {}, error |-> "none", giveUp |-> FALSE ]

DispatcherStates ==
    [ pc : {"idle", "selected", "sent"}, msg : Messages \cup {None}, id : Nat ]

IdleDispatcher == [ pc |-> "idle", msg |-> None, id |-> 0 ]

TypeOK ==
    /\ msg \in [Messages -> MessageRows]
    /\ job \in [Messages -> JobRows]
    /\ queue \in [Deliveries -> QueueEntries \cup {NoEntry}]
    /\ worker \in [Workers -> WorkerStates]
    /\ disp \in [Dispatchers -> DispatcherStates]
    /\ active \in BOOLEAN
    /\ accepted \in [Messages -> Nat]
    /\ faults \in 0..MaxFaults

-----------------------------------------------------------------------------
(* Helpers *)

Terminal(j) == j.status \in {"succeeded", "failed"}

Busy(w) == worker[w].pc # "idle"

(* The rows `WHERE id = ? AND lock_token = ?` selects for worker w. *)
Owns(w) ==
    /\ Busy(w)
    /\ job[worker[w].msg].id = worker[w].id
    /\ job[worker[w].msg].token = w

Held(x) == \E w \in Workers : worker[w].delivery = x

Fault == /\ faults < MaxFaults
         /\ faults' = faults + 1

(* message.ack(): the delivery is gone.  message.retry(), or an invocation   *)
(* that never acknowledged: it comes back until max_retries, then it goes    *)
(* to the dead-letter queue, which nothing consumes.                         *)
Ack(x) == queue' = [queue EXCEPT ![x] = NoEntry]

(* Mutant: one retry too many. *)
RetryOnceMore(x) ==
    queue' = [queue EXCEPT ![x] =
                 IF queue[x].tries <= MaxRetries
                 THEN [queue[x] EXCEPT !.tries = @ + 1] ELSE NoEntry]

Retry(x) ==
    queue' = [queue EXCEPT ![x] =
                 IF queue[x].tries < MaxRetries
                 THEN [queue[x] EXCEPT !.tries = @ + 1] ELSE NoEntry]

-----------------------------------------------------------------------------
(* Messages enter the pipeline *)

(* The row a fresh message gets; the provider connection of the sender's     *)
(* domain is recorded for external recipients.  No path records provider_key.*)
NewMessage(m, to, status) ==
    [ status |-> status,
      to     |-> to,
      keyed  |-> m \in Keyed,
      conn   |-> "external" \in to,
      pid    |-> FALSE,
      folder |-> IF status = "draft" THEN "drafts" ELSE "sent",
      inbox  |-> status # "draft" /\ "internal" \in to ]

(* MessageApplicationService.send: one batch inserts the message, its links  *)
(* and, for an external recipient, a pending job that is due at once.  The   *)
(* dispatch that follows is one of Dispatchers.                              *)
SendMessage(m, to) ==
    /\ msg[m].status = "absent"
    /\ to # {}
    /\ msg' = [msg EXCEPT ![m] = NewMessage(m, to,
                    IF "external" \in to THEN "queued" ELSE "sent")]
    /\ job' = IF "external" \in to
              THEN [job EXCEPT ![m] = NewJob(1, TRUE)]
              ELSE job
    /\ UNCHANGED <<queue, worker, disp, active, accepted, faults>>

(* DraftApplicationService.create followed by schedule on the new draft: a   *)
(* draft whose pending job lies in the future.  (DraftSchedule takes the     *)
(* requests apart and lets them race.)                                       *)
ScheduleDraft(m, to) ==
    /\ msg[m].status = "absent"
    /\ to # {}
    /\ msg' = [msg EXCEPT ![m] = NewMessage(m, to, "draft")]
    /\ job' = [job EXCEPT ![m] = NewJob(1, FALSE)]
    /\ UNCHANGED <<queue, worker, disp, active, accepted, faults>>

-----------------------------------------------------------------------------
(* Dispatch: dispatch(jobId), called by dispatchPending and by the requests  *)

DispatchSelect(d, m) ==
    /\ disp[d].pc = "idle"
    /\ job[m].status = "pending"
    /\ job[m].due
    /\ disp' = [disp EXCEPT ![d] =
                   [pc |-> "selected", msg |-> m, id |-> job[m].id]]
    /\ UNCHANGED <<msg, job, queue, worker, active, accepted, faults>>

DispatchSend(d) ==
    /\ disp[d].pc = "selected"
    /\ \E x \in Deliveries :
         /\ queue[x] = NoEntry
         /\ queue' = [queue EXCEPT ![x] =
                         [msg |-> disp[d].msg, id |-> disp[d].id, tries |-> 0]]
    /\ disp' = [disp EXCEPT ![d].pc = "sent"]
    /\ UNCHANGED <<msg, job, worker, active, accepted, faults>>

(* UPDATE ... SET status = 'enqueued' WHERE id = ? AND status = 'pending' *)
DispatchMark(d) ==
    LET m == disp[d].msg IN
    /\ disp[d].pc = "sent"
    /\ job' = IF job[m].id = disp[d].id /\ job[m].status = "pending"
              THEN [job EXCEPT ![m].status = "enqueued"]
              ELSE job
    /\ disp' = [disp EXCEPT ![d] = IdleDispatcher]
    /\ UNCHANGED <<msg, queue, worker, active, accepted, faults>>

(* queue.send or the UPDATE throws, or the invocation dies. *)
DispatchAbort(d) ==
    /\ disp[d].pc # "idle"
    /\ Fault
    /\ disp' = [disp EXCEPT ![d] = IdleDispatcher]
    /\ UNCHANGED <<msg, job, queue, worker, active, accepted>>

-----------------------------------------------------------------------------
(* The queue consumer: processOutboundJob inside handleQueueBatch *)

(* Mutants: the claim forgets `status IN ...`, or knows 'pending' only. *)
ClaimableInAnyStatus(e) ==
    LET j == job[e.msg] IN
    j.id = e.id /\ j.due /\ (j.token = None \/ ~j.live)

ClaimablePendingOnly(e) ==
    LET j == job[e.msg] IN
    j.id = e.id /\ j.status = "pending" /\ j.due

(* The WHERE of the claim UPDATE. *)
Claimable(e) ==
    LET j == job[e.msg] IN
    /\ j.id = e.id
    /\ j.status \in {"pending", "enqueued"}
    /\ j.due
    /\ j.token = None \/ ~j.live

Claim(w, x) ==
    LET e == queue[x] IN
    /\ ~Busy(w)
    /\ e # NoEntry
    /\ ~Held(x)
    /\ Claimable(e)
    /\ job' = [job EXCEPT ![e.msg].status = "processing",
                          ![e.msg].attempts = @ + 1,
                          ![e.msg].token = w,
                          ![e.msg].live = TRUE]
    /\ worker' = [worker EXCEPT ![w] =
                     [IdleWorker EXCEPT !.pc = "claimed", !.delivery = x,
                                        !.msg = e.msg, !.id = e.id]]
    /\ UNCHANGED <<msg, queue, disp, active, accepted, faults>>

(* The claim changed no row: return, and the delivery is acknowledged. *)
SkipUnclaimable(w, x) ==
    /\ ~Busy(w)
    /\ queue[x] # NoEntry
    /\ ~Held(x)
    /\ ~Claimable(queue[x])
    /\ Ack(x)
    /\ UNCHANGED <<msg, job, worker, disp, active, accepted, faults>>

Goto(w, pc) == worker' = [worker EXCEPT ![w].pc = pc]

(* catch (error): from here safeFailure decides on the error alone. *)
Fail(w, error) ==
    worker' = [worker EXCEPT ![w].pc = "failing",
                             ![w].error = error,
                             ![w].giveUp = error # "transient"]

(* The row loadProviderMessage insists on for external recipients. *)
Available(m) ==
    /\ msg[m].status # "absent"
    /\ "external" \in msg[m].to => msg[m].keyed /\ msg[m].conn /\ active

(* Mutant: a message with an internal recipient skips the provider. *)
LoadMessageInternalFirst(w) ==
    LET m == worker[w].msg IN
    /\ worker[w].pc = "claimed"
    /\ Available(m)
    /\ worker' = [worker EXCEPT
                    ![w].to = msg[m].to,
                    ![w].pc = IF "internal" \in msg[m].to THEN "commit"
                                                          ELSE "sending"]
    /\ UNCHANGED <<msg, job, queue, disp, active, accepted, faults>>

LoadMessage(w) ==
    LET m == worker[w].msg IN
    /\ worker[w].pc = "claimed"
    /\ Available(m)
    /\ worker' = [worker EXCEPT
                    ![w].to = msg[m].to,
                    ![w].pc = IF "external" \in msg[m].to THEN "sending"
                                                          ELSE "commit"]
    /\ UNCHANGED <<msg, job, queue, disp, active, accepted, faults>>

(* OUTBOUND_MESSAGE_NOT_FOUND, a 404: not retryable. *)
LoadUnavailable(w) ==
    /\ worker[w].pc = "claimed"
    /\ ~Available(worker[w].msg)
    /\ Fail(w, "unavailable")
    /\ UNCHANGED <<msg, job, queue, disp, active, accepted, faults>>

(* A failed read, or ATTACHMENT_OBJECT_MISSING (503): retryable. *)
LoadFails(w) ==
    /\ worker[w].pc = "claimed"
    /\ Fault
    /\ Fail(w, "transient")
    /\ UNCHANGED <<msg, job, queue, disp, active, accepted>>

Accept(w) == accepted' = [accepted EXCEPT ![worker[w].msg] = @ + 1]

ProviderAccepts(w) ==
    /\ worker[w].pc = "sending"
    /\ Accept(w)
    /\ Goto(w, "commit")
    /\ UNCHANGED <<msg, job, queue, disp, active, faults>>

(* The provider took the message, but the call throws all the same. *)
ProviderAnswerLost(w) ==
    /\ worker[w].pc = "sending"
    /\ Fault
    /\ Accept(w)
    /\ Fail(w, "transient")
    /\ UNCHANGED <<msg, job, queue, disp, active>>

ProviderRefuses(w, error) ==
    /\ worker[w].pc = "sending"
    /\ Fail(w, error)
    /\ UNCHANGED <<msg, job, queue, disp, active, accepted, faults>>

(* What the success batch makes of a message row and its links. *)
SentRow(r, to) ==
    [r EXCEPT !.status = IF @ = "draft" THEN "sent" ELSE @,
              !.pid    = @ \/ (r.status = "draft" /\ "external" \in to),
              !.folder = IF @ = "drafts" THEN "sent" ELSE @,
              !.inbox  = @ \/ "internal" \in to]

(* The success batch.  Only the job UPDATE is fenced by the lock token. *)
CommitRows(w) ==
    LET m == worker[w].msg IN
    /\ msg' = [msg EXCEPT ![m] = SentRow(msg[m], worker[w].to)]
    /\ job' = IF Owns(w)
              THEN [job EXCEPT ![m].status = "succeeded",
                               ![m].token = None, ![m].live = FALSE]
              ELSE job

(* The link INSERTs break the foreign key if the message is gone: only the   *)
(* draft API deletes messages, see CommitBreaksForeignKey in DraftSchedule.  *)
Committable(w) ==
    msg[worker[w].msg].status # "absent" \/ "internal" \notin worker[w].to

Commit(w) ==
    /\ worker[w].pc = "commit"
    /\ Committable(w)
    /\ IF msg[worker[w].msg].status = "absent" THEN UNCHANGED <<msg, job>>
                                               ELSE CommitRows(w)
    /\ Ack(worker[w].delivery)
    /\ worker' = [worker EXCEPT ![w] = IdleWorker]
    /\ UNCHANGED <<disp, active, accepted, faults>>

(* D1 fails before the transaction, or after it without an answer. *)
CommitFails(w) ==
    /\ worker[w].pc = "commit"
    /\ Fault
    /\ Fail(w, "transient")
    /\ UNCHANGED <<msg, job, queue, disp, active, accepted>>

CommitAnswerLost(w) ==
    /\ worker[w].pc = "commit"
    /\ msg[worker[w].msg].status # "absent"
    /\ Fault
    /\ CommitRows(w)
    /\ Fail(w, "transient")
    /\ UNCHANGED <<queue, disp, active, accepted>>

(* SELECT attempts ... AND lock_token = ?; no row counts as the limit. *)
ReadAttempts(w) ==
    /\ worker[w].pc = "failing"
    /\ worker' = [worker EXCEPT
                    ![w].pc = "recording",
                    ![w].giveUp = \/ @
                                  \/ ~Owns(w)
                                  \/ job[worker[w].msg].attempts >= AttemptLimit]
    /\ UNCHANGED <<msg, job, queue, disp, active, accepted, faults>>

(* Mutant: every failure marks the message. *)
FailedRowAlways(r, giveUp) ==
    [r EXCEPT !.status = IF r.status = "draft" THEN "failed" ELSE @]

FailedRow(r, giveUp) ==
    [r EXCEPT !.status = IF giveUp /\ r.status = "draft" THEN "failed" ELSE @]

(* The failure batch, fenced for the job and not for the message; then the   *)
(* error is rethrown (retry) if it is retryable, swallowed (ack) if not.     *)
(* The back-off min(300, 2^attempts) is at least 2 seconds: not due.         *)
RecordFailure(w) ==
    LET m == worker[w].msg
        giveUp == worker[w].giveUp
    IN
    /\ worker[w].pc = "recording"
    /\ job' = IF Owns(w)
              THEN [job EXCEPT ![m].status = IF giveUp THEN "failed" ELSE "pending",
                               ![m].due = FALSE,
                               ![m].token = None,
                               ![m].live = FALSE,
                               ![m].lastError = worker[w].error]
              ELSE job
    /\ msg' = [msg EXCEPT ![m] = FailedRow(msg[m], giveUp)]
    /\ IF giveUp THEN Ack(worker[w].delivery) ELSE Retry(worker[w].delivery)
    /\ worker' = [worker EXCEPT ![w] = IdleWorker]
    /\ UNCHANGED <<disp, active, accepted, faults>>

(* The invocation dies, or an error escapes the catch block: no ack. *)
Crash(w) ==
    /\ Busy(w)
    /\ Fault
    /\ Retry(worker[w].delivery)
    /\ worker' = [worker EXCEPT ![w] = IdleWorker]
    /\ UNCHANGED <<msg, job, disp, active, accepted>>

-----------------------------------------------------------------------------
(* Cron recovery, the two clocks, and the administrator *)

(* Mutant: recovery without the expiry test. *)
ExpiredOrNot(m) == job[m].status = "processing"

Expired(m) == job[m].status = "processing" /\ ~job[m].live

(* Mutant: the token of a recovered job is kept. *)
RecoverKeepingToken ==
    /\ \E m \in Messages : Expired(m)
    /\ job' = [m \in Messages |->
                 IF Expired(m) THEN [job[m] EXCEPT !.status = "pending"]
                               ELSE job[m]]
    /\ UNCHANGED <<msg, queue, worker, disp, active, accepted, faults>>

RecoverExpiredOutboundLocks ==
    /\ \E m \in Messages : Expired(m)
    /\ job' = [m \in Messages |->
                 IF Expired(m)
                 THEN [job[m] EXCEPT !.status = "pending", !.token = None]
                 ELSE job[m]]
    /\ UNCHANGED <<msg, queue, worker, disp, active, accepted, faults>>

BecomesDue(m) ==
    /\ job[m].status \in {"pending", "enqueued"}
    /\ ~job[m].due
    /\ job' = [job EXCEPT ![m].due = TRUE]
    /\ UNCHANGED <<msg, queue, worker, disp, active, accepted, faults>>

(* Five minutes pass: after the owner is gone, or (Overrun) while it still   *)
(* waits for the provider, whose call has no timeout.                        *)
Owned(m) == \E w \in Workers : Owns(w) /\ worker[w].msg = m

LockExpires(m) ==
    /\ job[m].live
    /\ ~Owned(m)
    /\ job' = [job EXCEPT ![m].live = FALSE]
    /\ UNCHANGED <<msg, queue, worker, disp, active, accepted, faults>>

LockOverrun(m) ==
    /\ Overrun
    /\ job[m].live
    /\ Owned(m)
    /\ Fault
    /\ job' = [job EXCEPT ![m].live = FALSE, ![m].overran = TRUE]
    /\ UNCHANGED <<msg, queue, worker, disp, active, accepted>>

(* provider_connections.status is switched by an administrator. *)
DisableConnection ==
    /\ active
    /\ Fault
    /\ active' = FALSE
    /\ UNCHANGED <<msg, job, queue, worker, disp, accepted>>

EnableConnection ==
    /\ ~active
    /\ active' = TRUE
    /\ UNCHANGED <<msg, job, queue, worker, disp, accepted, faults>>

-----------------------------------------------------------------------------
Init ==
    /\ msg = [m \in Messages |-> NoMessage]
    /\ job = [m \in Messages |-> NoJob]
    /\ queue = [x \in Deliveries |-> NoEntry]
    /\ worker = [w \in Workers |-> IdleWorker]
    /\ disp = [d \in Dispatchers |-> IdleDispatcher]
    /\ active = TRUE
    /\ accepted = [m \in Messages |-> 0]
    /\ faults = 0

Compose == \E m \in Messages, to \in SUBSET Kinds :
              SendMessage(m, to) \/ ScheduleDraft(m, to)

Dispatch(d) == \/ \E m \in Messages : DispatchSelect(d, m)
               \/ DispatchSend(d)
               \/ DispatchMark(d)

WorkerStep(w) ==
    \/ \E x \in Deliveries : Claim(w, x) \/ SkipUnclaimable(w, x)
    \/ LoadMessage(w)
    \/ LoadUnavailable(w)
    \/ ProviderAccepts(w)
    \/ \E error \in {"transient", "rejected"} : ProviderRefuses(w, error)
    \/ Commit(w)
    \/ ReadAttempts(w)
    \/ RecordFailure(w)

WorkerFault(w) ==
    \/ LoadFails(w)
    \/ ProviderAnswerLost(w)
    \/ CommitFails(w)
    \/ CommitAnswerLost(w)
    \/ Crash(w)

Clock == \E m \in Messages : BecomesDue(m) \/ LockExpires(m) \/ LockOverrun(m)

(* Every step of the pipeline; what submits messages is left open. *)
Pipeline ==
    \/ \E d \in Dispatchers : Dispatch(d) \/ DispatchAbort(d)
    \/ \E w \in Workers : WorkerStep(w) \/ WorkerFault(w)
    \/ RecoverExpiredOutboundLocks
    \/ Clock
    \/ DisableConnection
    \/ EnableConnection

Next == Compose \/ Pipeline

Spec == Init /\ [][Next]_vars

(* Fairness.  The cron tick comes every minute and visits every due job      *)
(* (dispatchPending), the Queue delivers what it holds, a running invocation *)
(* goes on unless a fault stops it, and time passes.  Nothing is assumed of  *)
(* the requests, the faults and the administrator.                           *)
Fairness ==
    /\ \A d \in Dispatchers :
         /\ \A m \in Messages : WF_vars(DispatchSelect(d, m))
         /\ WF_vars(DispatchSend(d) \/ DispatchMark(d))
    /\ \A w \in Workers : WF_vars(WorkerStep(w))
    /\ WF_vars(RecoverExpiredOutboundLocks)
    /\ \A m \in Messages : WF_vars(BecomesDue(m)) /\ WF_vars(LockExpires(m))

FairSpec == Spec /\ Fairness

-----------------------------------------------------------------------------
(* Safety *)

(* A job carries a lock token exactly while it is being processed, so a      *)
(* waiting or settled job can never be written by a statement that is fenced *)
(* with `lock_token = ?`; only a running job has a lease to expire.          *)
LockMarksProcessing ==
    \A m \in Messages :
        /\ job[m].token # None <=> job[m].status = "processing"
        /\ job[m].live => job[m].status = "processing"

(* A settled job is never claimed, recovered, dispatched or failed again,    *)
(* whatever duplicates the Queue delivers and however late a worker returns. *)
SettledIsFinal ==
    [][\A m \in Messages : Terminal(job[m]) => job'[m] = job[m]]_vars

(* Unless a call has outlasted the job's lock, no two invocations are ever   *)
(* past the claim with one job: the claim UPDATE, the recovery and the       *)
(* Queue's duplicates together never let two of them send one message; and   *)
(* the provider accepts it once, unless something failed.                    *)
SoleSender ==
    /\ \A v, w \in Workers :
         /\ Busy(v) /\ Busy(w) /\ worker[v].msg = worker[w].msg
         /\ ~job[worker[v].msg].overran
         => v = w
    /\ faults = 0 => \A m \in Messages : accepted[m] <= 1

(* A job with external recipients is reported as succeeded, and its message  *)
(* as sent, only if the provider did accept the message.                     *)
SuccessWasAccepted ==
    \A m \in Messages :
        /\ "external" \in msg[m].to
        /\ job[m].status = "succeeded" \/ msg[m].status = "sent"
        => accepted[m] > 0

(* Unless a call has outlasted the job's lock, the rows of a scheduled       *)
(* message tell one story: sent if and only if the job succeeded, failed if  *)
(* and only if the job failed, a draft until then; its link leaves the drafts*)
(* folder exactly when it is sent, and only then do internal recipients have *)
(* it.                                                                       *)
OutcomeAgrees ==
    \A m \in Messages :
        /\ msg[m].folder # "none" /\ msg[m].status # "queued"
        /\ job[m].status # "none" /\ ~job[m].overran
        => /\ msg[m].status = "sent" <=> job[m].status = "succeeded"
           /\ msg[m].status = "failed" <=> job[m].status = "failed"
           /\ msg[m].folder = "drafts" <=> msg[m].status # "sent"
           /\ msg[m].inbox <=> msg[m].status = "sent" /\ "internal" \in msg[m].to

-----------------------------------------------------------------------------
(* Liveness *)

(* A job that no fault and no retryable refusal has disturbed is settled:    *)
(* concurrent dispatchers, skipped and duplicate deliveries never strand it. *)
UndisturbedJobSettles ==
    \A m \in Messages : job[m].status # "none"
        ~> \/ Terminal(job[m])
           \/ job[m].lastError = "transient"
           \/ faults > 0

(* Every job is eventually settled: it is dispatched again until it succeeds *)
(* or the attempt limit is reached (rebuild-blueprint.md:1095).              *)
EveryJobSettles ==
    \A m \in Messages : job[m].status # "none" ~> Terminal(job[m])

=============================================================================
