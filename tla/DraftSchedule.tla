---------------------------- MODULE DraftSchedule ----------------------------
(***************************************************************************)
(* The draft API of the worker (DraftApplicationService) on top of the      *)
(* outbound pipeline: create, update, remove, send, schedule and cancel of  *)
(* drafts, as requests that read, check and finally write one D1 batch,     *)
(* interleaved with each other and with the dispatchers, the queue consumer *)
(* and the cron recovery of Outbound.                                       *)
(*                                                                          *)
(* A version stands for `messages.updated_at`, the value of the ETag; each  *)
(* accepted write draws a fresh one.  A request hash stands for the fields  *)
(* it digests.                                                              *)
(***************************************************************************)
EXTENDS Outbound

CONSTANTS
    Clients,       \* HTTP requests that may run at once
    Keys,          \* Idempotency-Key values
    Operations,    \* the operations the clients call
    MaxRequests    \* how many requests a behaviour may contain (bound)

ASSUME OperationsAssumption ==
    Operations \subseteq {"send", "schedule", "cancel", "update", "remove"}
ASSUME MaxRequestsAssumption == MaxRequests \in Nat

VARIABLES
    version,   \* updated_at of each message; 0: never created
    jobs,      \* how many jobs each message has had (job ids are never reused)
    records,   \* idempotency_records
    req,       \* the requests
    requests   \* requests begun so far (bounds the model only)

draftVars == <<version, jobs, records, req, requests>>
allVars == <<vars, draftVars>>

-----------------------------------------------------------------------------
(* Types *)

(* The outcomes a client sees besides "ok" and "replayed".                   *)
Errors == {"DRAFT_NOT_FOUND", "DRAFT_VERSION_CONFLICT", "DRAFT_SCHEDULED",
           "SCHEDULE_ALREADY_DISPATCHED", "IDEMPOTENCY_KEY_REUSED",
           "REFUSED", "INTERNAL"}

Requests ==
    [ op     : Operations,
      msg    : Messages,
      key    : Keys,
      match  : Nat,             \* the If-Match version
      to     : SUBSET Kinds,    \* recipients of an update; recipients as read
      pc     : {"lookup", "draft", "job", "recipients", "batch"},
      seen   : Nat,             \* draft.updated_at as read
      noJob  : BOOLEAN ]        \* cancel found no job

(* All that is left of a request when it is answered. *)
Done(answer) == [ pc |-> "done", answer |-> answer ]
Answers == {Done(a) : a \in Errors \cup {"none", "ok", "replayed"}}

Records == [ op : Operations, key : Keys, msg : Messages, match : Nat ]

DraftTypeOK ==
    /\ TypeOK
    /\ version \in [Messages -> Nat]
    /\ jobs \in [Messages -> Nat]
    /\ records \subseteq Records
    /\ req \in [Clients -> Requests \cup Answers]
    /\ requests \in 0..MaxRequests

-----------------------------------------------------------------------------
(* Helpers *)

Keyless == {"update", "remove"}

Running(c) == req[c].pc # "done"

At(c, pc, ops) == req[c].pc = pc /\ req[c].op \in ops

Proceed(c, pc) == req' = [req EXCEPT ![c].pc = pc]

Answer(c, answer) == req' = [req EXCEPT ![c] = Done(answer)]

(* UNIQUE (actor_user_id, operation, idempotency_key); one actor here. *)
RecordsOf(c) == {r \in records : r.op = req[c].op /\ r.key = req[c].key}

(* Mutant: the record does not name the resource. *)
RecordWithoutMessage(c) == [ op |-> req[c].op, key |-> req[c].key,
                             match |-> req[c].match ]

RecordOf(c) == [ op |-> req[c].op, key |-> req[c].key,
                 msg |-> req[c].msg, match |-> req[c].match ]

(* The joins and the WHERE of requireDraft. *)
IsDraft(m) == msg[m].status = "draft" /\ msg[m].folder = "drafts"

(* Mutant: a batch is guarded by the status alone. *)
StillDraft(c) == msg[req[c].msg].status = "draft"

(* WHERE id = ? AND status = 'draft' AND updated_at = ? of every batch. *)
StillCurrent(c) ==
    LET m == req[c].msg IN
    msg[m].status = "draft" /\ version[m] = req[c].seen

(* Mutant: the record is written whatever the batch did. *)
RecordAlways(c, ok) == records' = records \cup {RecordOf(c)}

(* The guarded INSERT into idempotency_records. *)
RecordIf(c, ok) ==
    records' = IF ok THEN records \cup {RecordOf(c)} ELSE records

NextVersion(m) == version' = [version EXCEPT ![m] = @ + 1]

pipelineRest == <<queue, worker, disp, active, accepted, faults>>

ReadOnly == UNCHANGED <<vars, version, jobs, records, requests>>

-----------------------------------------------------------------------------
(* create: one batch *)

DraftRow(m, to) == [ status |-> "draft", to |-> to, keyed |-> m \in Keyed,
                     conn |-> FALSE, pid |-> FALSE, folder |-> "drafts",
                     inbox |-> FALSE ]

CreateDraft(m, to) ==
    /\ version[m] = 0
    /\ msg' = [msg EXCEPT ![m] = DraftRow(m, to)]
    /\ NextVersion(m)
    /\ UNCHANGED <<job, pipelineRest, jobs, records, req, requests>>

-----------------------------------------------------------------------------
(* What the other requests have in common *)

Begin(c, op, m, key, match, to) ==
    /\ ~Running(c)
    /\ requests < MaxRequests
    /\ requests' = requests + 1
    /\ req' = [req EXCEPT ![c] =
         [ op |-> op, msg |-> m, key |-> key, match |-> match, to |-> to,
           pc |-> IF op \in Keyless THEN "draft" ELSE "lookup",
           seen |-> 0, noJob |-> FALSE ]]
    /\ UNCHANGED <<vars, version, jobs, records>>

(* Everything the data of the model does not decide: the mailbox permission, *)
(* a missing provider, the schedule window, unusable uploads, a D1 failure.  *)
Refuse(c) ==
    /\ Running(c)
    /\ Answer(c, "REFUSED")
    /\ ReadOnly

(* The idempotency record comes before everything else. *)
Lookup(c) ==
    /\ At(c, "lookup", Operations)
    /\ IF RecordsOf(c) = {} THEN Proceed(c, "draft")
       ELSE IF RecordOf(c) \in records THEN Answer(c, "replayed")
       ELSE Answer(c, "IDEMPOTENCY_KEY_REUSED")
    /\ ReadOnly

(* requireDraft and assertDraftVersion; remove asks for no version. *)
ReadDraft(c) ==
    LET m == req[c].msg IN
    /\ At(c, "draft", Operations)
    /\ IF ~IsDraft(m) THEN Answer(c, "DRAFT_NOT_FOUND")
       ELSE IF req[c].op # "remove" /\ req[c].match # version[m]
       THEN Answer(c, "DRAFT_VERSION_CONFLICT")
       ELSE req' = [req EXCEPT ![c].seen = version[m],
                               ![c].pc = IF req[c].op \in Keyless THEN "batch"
                                                                  ELSE "job"]
    /\ ReadOnly

(* SELECT status FROM outbound_jobs, and what each operation makes of it. *)
ReadJobToSend(c) ==
    LET s == job[req[c].msg].status IN
    /\ At(c, "job", {"send"})
    /\ IF s \in {"pending", "enqueued"} THEN Answer(c, "DRAFT_SCHEDULED")
       ELSE IF s = "processing" THEN Answer(c, "SCHEDULE_ALREADY_DISPATCHED")
       ELSE Proceed(c, "recipients")
    /\ ReadOnly

ReadJobToSchedule(c) ==
    /\ At(c, "job", {"schedule"})
    /\ IF job[req[c].msg].status \in {"none", "pending"}
       THEN Proceed(c, "recipients")
       ELSE Answer(c, "SCHEDULE_ALREADY_DISPATCHED")
    /\ ReadOnly

ReadJobToCancel(c) ==
    LET s == job[req[c].msg].status IN
    /\ At(c, "job", {"cancel"})
    /\ IF s \in {"none", "pending", "enqueued"}
       THEN req' = [req EXCEPT ![c].pc = "batch", ![c].noJob = s = "none"]
       ELSE Answer(c, "SCHEDULE_ALREADY_DISPATCHED")
    /\ ReadOnly

(* loadRecipients: none left means the draft has no TO, or is gone. *)
ReadRecipients(c) ==
    LET to == msg[req[c].msg].to IN
    /\ At(c, "recipients", Operations)
    /\ IF to = {} THEN Answer(c, "REFUSED")
       ELSE req' = [req EXCEPT ![c].to = to, ![c].pc = "batch"]
    /\ ReadOnly

-----------------------------------------------------------------------------
(* The batches.  A constraint that fails rolls the whole batch back. *)

Abandon(c) == /\ Answer(c, "INTERNAL")
              /\ UNCHANGED <<msg, job, version, jobs, records>>

Conflict(c) == Answer(c, "DRAFT_VERSION_CONFLICT")

InsertJob(m, due) ==
    /\ job' = [job EXCEPT ![m] = NewJob(jobs[m] + 1, due)]
    /\ jobs' = [jobs EXCEPT ![m] = @ + 1]

(* What send makes of the draft and its links. *)
SubmittedRow(r, to) ==
    [r EXCEPT !.status = IF "external" \in to THEN "queued" ELSE "sent",
              !.conn   = "external" \in to,
              !.folder = IF @ = "drafts" THEN "sent" ELSE @,
              !.inbox  = @ \/ "internal" \in to]

(* send: every statement after the first is guarded by the new version. *)
SendBatch(c) ==
    LET m == req[c].msg
        hasExternal == "external" \in req[c].to
    IN
    /\ At(c, "batch", {"send"})
    /\ IF ~StillCurrent(c)
       THEN /\ Conflict(c)
            /\ RecordIf(c, FALSE)
            /\ UNCHANGED <<msg, job, version, jobs>>
       ELSE IF RecordsOf(c) # {} \/ (hasExternal /\ job[m].status # "none")
       THEN Abandon(c)
       ELSE /\ msg' = [msg EXCEPT ![m] = SubmittedRow(msg[m], req[c].to)]
            /\ IF hasExternal THEN InsertJob(m, TRUE)
                              ELSE UNCHANGED <<job, jobs>>
            /\ NextVersion(m)
            /\ RecordIf(c, TRUE)
            /\ Answer(c, "ok")
    /\ UNCHANGED <<pipelineRest, requests>>

(* INSERT ... ON CONFLICT(message_id) DO UPDATE ... WHERE status = 'pending' *)
UpsertJob(m) ==
    CASE job[m].status = "none" -> InsertJob(m, FALSE)
      [] job[m].status = "pending" ->
            job' = [job EXCEPT ![m].due = FALSE] /\ UNCHANGED jobs
      [] OTHER -> UNCHANGED <<job, jobs>>

(* schedule: the upsert is not guarded by the version, and the record not by *)
(* the upsert.                                                               *)
ScheduleBatch(c) ==
    LET m == req[c].msg IN
    /\ At(c, "batch", {"schedule"})
    /\ IF msg[m].status = "absent" \/ (StillCurrent(c) /\ RecordsOf(c) # {})
       THEN Abandon(c)
       ELSE /\ UpsertJob(m)
            /\ RecordIf(c, StillCurrent(c))
            /\ IF StillCurrent(c)
               THEN /\ msg' = [msg EXCEPT ![m].conn = "external" \in req[c].to]
                    /\ NextVersion(m)
                    /\ Answer(c, IF job[m].status \in {"none", "pending"}
                                 THEN "ok" ELSE "SCHEDULE_ALREADY_DISPATCHED")
               ELSE Conflict(c) /\ UNCHANGED <<msg, version>>
    /\ UNCHANGED <<pipelineRest, requests>>

(* cancel without a job only caches its answer. *)
CancelNothing(c) ==
    /\ At(c, "batch", {"cancel"})
    /\ req[c].noJob
    /\ IF RecordsOf(c) # {} THEN Abandon(c)
       ELSE /\ RecordIf(c, TRUE)
            /\ Answer(c, "ok")
            /\ UNCHANGED <<msg, job, version, jobs>>
    /\ UNCHANGED <<pipelineRest, requests>>

(* Mutant: cancel deletes the job in any status. *)
CancellableAlways(m) == job[m].status # "none"

Cancellable(m) == job[m].status \in {"pending", "enqueued"}

(* cancel: the DELETE comes first and is not guarded by the version. *)
CancelBatch(c) ==
    LET m == req[c].msg
        gone == Cancellable(m) \/ job[m].status = "none"
    IN
    /\ At(c, "batch", {"cancel"})
    /\ ~req[c].noJob
    /\ IF StillCurrent(c) /\ gone /\ RecordsOf(c) # {} THEN Abandon(c)
       ELSE /\ job' = IF Cancellable(m) THEN [job EXCEPT ![m] = NoJob] ELSE job
            /\ RecordIf(c, StillCurrent(c) /\ gone)
            /\ IF StillCurrent(c) /\ gone THEN NextVersion(m)
                                          ELSE UNCHANGED version
            /\ Answer(c, IF ~Cancellable(m) THEN "SCHEDULE_ALREADY_DISPATCHED"
                         ELSE IF StillCurrent(c) THEN "ok"
                         ELSE "DRAFT_VERSION_CONFLICT")
            /\ UNCHANGED <<msg, jobs>>
    /\ UNCHANGED <<pipelineRest, requests>>

RecipientsAfter(c) ==
    IF StillCurrent(c) THEN req[c].to ELSE msg[req[c].msg].to

(* update: recipients are replaced, whatever became of the schedule. *)
UpdateBatch(c) ==
    LET m == req[c].msg IN
    /\ At(c, "batch", {"update"})
    /\ msg' = [msg EXCEPT ![m].to = RecipientsAfter(c)]
    /\ IF StillCurrent(c) THEN NextVersion(m) /\ Answer(c, "ok")
                          ELSE Conflict(c) /\ UNCHANGED version
    /\ UNCHANGED <<job, pipelineRest, jobs, records, requests>>

Deletable(m) == msg[m].status = "draft"

JobAfterRemove(m) == IF Deletable(m) THEN NoJob ELSE job[m]

(* remove: links, recipients and the job go with the row (ON DELETE CASCADE). *)
RemoveDraft(c) ==
    LET m == req[c].msg IN
    /\ At(c, "batch", {"remove"})
    /\ msg' = IF Deletable(m) THEN [msg EXCEPT ![m] = NoMessage] ELSE msg
    /\ job' = [job EXCEPT ![m] = JobAfterRemove(m)]
    /\ Answer(c, "ok")
    /\ UNCHANGED <<pipelineRest, version, jobs, records, requests>>

-----------------------------------------------------------------------------
(* The success batch of a worker whose message was removed under it: the     *)
(* links of the internal recipients break the foreign key.                   *)
CommitBreaksForeignKey(w) ==
    /\ worker[w].pc = "commit"
    /\ ~Committable(w)
    /\ Fail(w, "transient")
    /\ UNCHANGED <<msg, job, queue, disp, active, accepted, faults, draftVars>>

-----------------------------------------------------------------------------
DraftInit ==
    /\ Init
    /\ version = [m \in Messages |-> 0]
    /\ jobs = [m \in Messages |-> 0]
    /\ records = {}
    /\ req = [c \in Clients |-> Done("none")]
    /\ requests = 0

(* A client names a version it can have seen, and a key where one is asked.  *)
BeginSome(c) ==
    \E op \in Operations, m \in Messages, key \in Keys, to \in SUBSET Kinds :
        \E match \in 1..version[m] :
            /\ op \in Keyless => key = CHOOSE k \in Keys : TRUE
            /\ op = "remove" => match = version[m]
            /\ op # "update" => to = {}
            /\ Begin(c, op, m, key, match, to)

RequestStep(c) ==
    \/ Lookup(c)
    \/ ReadDraft(c)
    \/ ReadJobToSend(c)
    \/ ReadJobToSchedule(c)
    \/ ReadJobToCancel(c)
    \/ ReadRecipients(c)
    \/ SendBatch(c)
    \/ ScheduleBatch(c)
    \/ CancelNothing(c)
    \/ CancelBatch(c)
    \/ UpdateBatch(c)
    \/ RemoveDraft(c)

DraftNext ==
    \/ \E m \in Messages, to \in SUBSET Kinds : CreateDraft(m, to)
    \/ \E c \in Clients : BeginSome(c) \/ RequestStep(c) \/ Refuse(c)
    \/ \E w \in Workers : CommitBreaksForeignKey(w)
    \/ Pipeline /\ UNCHANGED draftVars

DraftSpec == DraftInit /\ [][DraftNext]_allVars

-----------------------------------------------------------------------------
(* Safety *)

(* Client c is answered by this step. *)
Answered(c, op, answer) ==
    /\ Running(c) /\ req[c].op = op
    /\ req'[c] = Done(answer)

(* "Server drafts use If-Match ETag for optimistic concurrency"              *)
(* (README.md:42): a write that is answered with success was based on the    *)
(* version that was current when it took effect, so no request overwrites,   *)
(* sends, schedules or cancels what its client has not seen.                 *)
NoLostUpdate ==
    [][\A c \in Clients : \A op \in {"send", "schedule", "update"} :
          Answered(c, op, "ok") => version[req[c].msg] = req[c].match]_allVars

(* Send and update are all or nothing: answered with an error, whichever     *)
(* statement of the batch met the changed draft, they have left the message, *)
(* its job, its version and the idempotency records as they were.            *)
FailedSendChangesNothing ==
    [][\A c \in Clients, op \in {"send", "update"}, e \in Errors :
          Answered(c, op, e)
              => UNCHANGED <<msg, job, version, records>>]_allVars

(* A confirmed cancellation is final: unless a call has outlasted the lock,  *)
(* no worker is past the claim with the cancelled job, and (unless something *)
(* failed) the provider has not had the message.                             *)
CancelStopsDelivery ==
    [][\A c \in Clients :
          Answered(c, "cancel", "ok") /\ ~req[c].noJob =>
              LET m == req[c].msg IN
              /\ \A w \in Workers :
                   Busy(w) /\ worker[w].msg = m /\ worker[w].id = job[m].id
                     => job[m].overran
              /\ faults = 0 => accepted[m] = 0]_allVars

=============================================================================
