# UniMailbox in TLA+

A verification project for UniMailbox: the Cloudflare Worker (`src/apps/worker`) that stores,
receives and sends the mail of an organisation, its web application (`src/apps/web`), and the
scripts that deploy and migrate an installation (`src/scripts`). It holds TLA+ modules of their
protocols, the TLC configurations that check them on small instances, and theorems about all of
these protocols that TLAPS has proved. Paths below are relative to `src/`.

## 1. Inventory

The worker's state lives in D1 (SQLite: a statement or a `batch` is atomic, nothing between two of
them is), in a Cloudflare Queue, in KV or R2, at the mail provider and at Cloudflare, and in the
local variables of running invocations. Any number of invocations run at once, and any of them
may die between two statements. The browser keeps a query cache, an IndexedDB and the state of
its forms, all of which outlive the answers they came from.

| Component | State | Operations | What makes it correct | Modules |
|---|---|---|---|---|
| Outbound pipeline (`modules/outbound-mail`, `entrypoints/queue.ts`) | `outbound_jobs`, `messages.status`, links, queue entries | `dispatch`, `dispatchPending`, `processOutboundJob`, `handleQueueBatch` | one sender per job; success means accepted; message and job agree; settled stays settled; every job settles | `Outbound` |
| Drafts (`modules/messages/drafts.ts`) | draft rows with their ETag, jobs of schedules, idempotency records | create, update, remove, send, schedule, cancelSchedule | no lost update; an error changes nothing; a cancelled schedule is not delivered | `DraftSchedule` |
| Messages (`modules/messages/index.ts`) | messages, links with flags | send, list, flag, move, delete | pages neither lose nor repeat a row | `Outbound`, `Mailbox` |
| Webhooks and provider sync (`modules/provider-sync`) | `webhook_deliveries` with claims, `provider_message_state` with import locks | claim, take over, import, apply status, finish; `reconcileMessage` | the status moves forward only; one import at a time; every event is answered in the end | `Webhook`, `ProviderStatus`, `StatusRegister` |
| Attachments (`modules/attachments`, `modules/inbound-mail`) | uploads, files, references, objects | create, put, complete, cancel, expire, consume, deduplicate, back-fill, collect | a reference has its bytes; an unreferenced file goes | `Attachments` |
| Attachment storage (`platform/attachment-store.ts`, `scripts/attachment-migration-lib.mjs`) | KV values with sidecars, R2 objects | put, get, delete; the migration | what was put last is found | `Storage` |
| Identity (`modules/identity`, `apps/web/src/shared/api`) | users, sessions, cookie, access token | login, refresh, logout, change, reset, suspend; the tab's retry | the cookie's session lives; a change ends the sessions before it | `Sessions` |
| Administration, mailboxes, admin idempotency | users, roles, domains, connections, settings, members, records | the mutations behind `requireAdminIdempotency`, registration, mailbox creation and sharing | one effect per key; limits hold; updates stick | `Administration` |
| Cloudflare settings (`administration/cloudflare-settings.ts`) | grants, encrypted tokens, checkpoints | connect, revoke, refresh, verify, create a domain | secrets are accounted for; the stored token is the accepted one | `Cloudflare` |
| Web composer (`features/mail/ComposePanel.tsx`, `drafts-db.ts`) | the form, working copies | open, hydrate, recover, autosave, save, send, schedule, cancel, close | the server gets what the composer shows; no text is lost | `Compose` |
| Web mail and console (`features/mail`, `features/admin`) | query cache, dialogs, mutations | lists, load more, star; the dialogs of seven resources | the screen comes to show what the server has; a save does not undo an earlier one | `Mailbox`, `Console`, `WebClient` |
| Release scripts (`scripts/release.mjs` and its parts) | versions, migrations, administrator, secrets, manifests | bootstrap, deploy, promote, roll back | the live code finds its schema; credentials stay readable | `Release` |

How they interact. A request or the cron writes a job row; a *dispatcher* sends `{jobId, messageId}`
to the Queue and then marks the row; a *consumer* claims the row under a lock token, calls the
provider, and commits or records the failure; the cron gives back expired jobs. Draft requests,
webhooks, reconciliations and administrators write the same rows. The composer and the two pages
of the web application talk to those handlers over requests that overlap, are repeated and get
lost. The release scripts change schema, secrets and code under all of them.

The hard behaviours are listed in `PROJECT.json` under `hazards`, each at its line.

## 2. Modules

Every module has one action per statement, batch, external call or event between two awaits of
the code; a handler's locals are a record with a program counter. Two conventions recur. *Time* is
not counted: `expires_at >= now` is a flag that an action of its own clears, so every order of
clocks and processes occurs. *Faults* (crashes, lost answers, failing calls) are actions that draw
on a bound: `MaxFaults`, `MaxFailures` in `Storage`, `MaxLost` in `Compose`, `MaxOthers` in
`WebClient`.

### Outbound and DraftSchedule

`Outbound`: `msg[m]` is the row of `messages` with its links, `job[m]` the row of `outbound_jobs`,
`queue[x]` what a delivery slot holds, `worker[w]` a consumer invocation (`claimed`, `sending`,
`commit`, `failing`, `recording`), `disp[d]` a run of `dispatch()` (`selected`, then `sent`).

| Action | Code |
|---|---|
| `SendMessage`, `ScheduleDraft` | the batch of `MessageApplicationService.send`; a new draft with its schedule |
| `DispatchSelect`, `DispatchSend`, `DispatchMark`, `DispatchAbort` | `OutboundJobService.dispatch`, statement by statement, or cut short |
| `Claim`, `SkipUnclaimable` | the claim UPDATE and its early return |
| `LoadMessage`, `LoadUnavailable`, `LoadFails` | `loadProviderMessage` and its errors |
| `ProviderAccepts`, `ProviderRefuses`, `ProviderAnswerLost` | the provider call |
| `Commit`, `CommitFails`, `CommitAnswerLost` | the success batch; the lost answer is a batch that ran although the call threw |
| `ReadAttempts`, `RecordFailure` | the catch block: SELECT, failure batch, acknowledge or rethrow |
| `Crash`, `RecoverExpiredOutboundLocks` | the invocation ends unacknowledged; the cron's recovery |
| `BecomesDue`, `LockExpires`, `LockOverrun` | time passes `available_at` or `lock_expires_at` |
| `DisableConnection`, `EnableConnection` | `updateProviderConnection` |

A lock runs out under its owner only when `Overrun` is TRUE (the code gives a provider call no
timeout); that is a fault, and `job[m].overran` remembers it. Addresses are internal or external; the split is fixed when recipients are written,
while the code recomputes it from `mailboxes.status` on load. `accepted` counts what the provider
took; it deduplicates nothing, as for a provider that ignores the idempotency key. `Keyed` is the
set of messages whose row has a `provider_key` (see section 5).

`DraftSchedule` EXTENDS `Outbound` and takes every step of the pipeline beside its own: `version[m]`
is the ETag, `records` the idempotency records, `req[c]` a request (`lookup`, `draft`, `job`,
`recipients`, `batch`). The batches are one action each (`SendBatch`, `ScheduleBatch`, `CancelBatch`
with `CancelNothing`, `UpdateBatch`, `RemoveDraft`), every statement with the guard the code gives
it, because these guards differ. `Refuse` stands for every refusal the data do not decide.

### Webhook, ProviderStatus, StatusRegister

`ProviderStatus` is the order of provider events (`statusRank`, `shouldApplyProviderStatus`).
`Webhook` has `delivery[e]` (`webhook_deliveries` with its claim), `state[p]` (`provider_message_state`
with position, link and import lock), `row[p]` (status and domain of the message row), `handler[h]`
and the reconcilers. `Receive` inserts the delivery; `FindUnsettled`, `TakeOver` and `AnswerBusy` are
the claim of one that exists; `FindKnown`, `FindUnknown`, `LockImport`, `ImportLocked`, `Reread`,
`FetchDetail`, `InsertMessage`, `InsertRaced` are `findOrImport`; `ApplyStatus`, `Finish`,
`MarkFailed` end the handler; `ReconcileKnown` ... `ReconcileInsert` are `reconcileMessage`;
`RecordSent` and `RecordRefused` the pipeline's success batch for the same
`provider_message_id`. The provider repeats an event until it is answered with success.

`StatusRegister` is the abstract specification: a position per message, moved forward by an event or
not at all; an event is acknowledged only when the position has reached it; only a reconciliation,
which has no event to compare with, may move back. `ImplementsRegister` instantiates it over
`Webhook`'s state and is checked as a property (and proved, section 4), so every statement of the
detailed module is a step of the register or a stutter.

### Attachments and Storage

`Attachments`: `upload`, `file` (the catalog), `attach` (references of messages), `object` (what the
store holds), and the requests that put a body: `BeginPut`/`BeginInbound`, `PutObject`,
`FindIdentical` or `FindNone`, `DropOwn`, `InsertFile`, `Refind`, `DropRaced`, `InsertSuffixed`,
`LinkUpload`/`LinkInbound`. `Complete`, `Consume`, `CancelRead`, `ExpireRead`, `Close`, `RemoveRead`,
`Remove`, `Collect`, `DropObject` take references, files and objects away; `BackfillFind`,
`BackfillMerge`, `BackfillStamp` bring legacy attachments into the catalog. Two bodies may share
their digest (md5 and size), as the code allows for. `Impatient` and `CrashBeforeLink` switch on two
client and fault behaviours under which the code loses bytes (section 5).

`Storage` is one level below: a KV object is a body, a metadata slot and perhaps a sidecar; the
stores of `platform/attachment-store.ts` (`WriteBody`, `WriteSide`, `WriteObject`, `ReadObject`,
`ReadBody`, deletes) and the script (`ListKeys`, `NextKey`, `ReadSource`, `ReadMeta`, `Head`,
`PutR2`, `Verify`, `DeleteSide`, `DeleteBody`) take one KV or R2 call per step; `Deploy` switches
the binding.

### Sessions

One account and one tab. `LoginRead`, `Rehash`, `LoginInsert`, `LoginReply` are a sign-in;
`RefreshSelect`, `Rotate`, `RefreshReply`, `RefreshRefused`, `RefreshLost` a refresh; `ChangeVerify`,
`ChangeWrite`, `LogoutAll`, `Disable`, `Reactivate` what ends sessions; `Begin`, `Send`, `RefreshSend`
the tab's requests, which refresh on 401, each by itself, and run once more.

### Administration and Cloudflare

`Administration`: `db` is the rows, `call[s]` a request in a slot. `Arrive`, `AnswerFromRecord`,
`Forward` and `Record` are `requireAdminIdempotency` around each handler; the handlers are a check per
SELECT (`ReadDomain`, `ReadQuota`, `CheckUpsertMember`, `ReadConnection`, `ReadRegistration`, ...) and a
write per statement or batch (`InsertMailbox`, `UpdateUser`, `WriteConnection`, `ApplySetting`, ...);
`Expire` and `Cleanup` end idempotency records, `Crash` a request.

`Cloudflare`: `Start`, `GetState`, `DeleteState`, `Exchange`, `StoreCredential` are the OAuth flow,
`RevokeGrant` and `Forget` its end, `ReadToken`, `Refresh`, `SaveToken` what every call does first,
`ReadZone`, `ReadCatchAll`, `PutCatchAll`, `StoreZone`, `InsertDomain`, `SetCheckpoint` verification and
managed domains; `OwnerRedirects` is the zone's owner at work in the dashboard.

### Compose, Mailbox, Console, WebClient

`Compose` has tabs that share an IndexedDB (`copies`), each with a panel, and clicks `op[o]` that go
through `persist`, `deliver` and the closing of the panel; the server follows the contract of
`DraftSchedule` (another version changes nothing). The user opens, switches, types, clicks and closes;
the browser hydrates (`Fetch`), recovers and autosaves; `AnswerPersist` ... `CloseAfterSend` resume a
click. Two properties of it have an excuse each, and `doubts` collects those that have occurred:
`"save"` when a draft is filled in, or another one created for the same form (`Second`), while a request
of the form is under way, `"copy"` when a form is edited, left or filled while its copy matters.

`Mailbox` has the worker's list (`Page`, with its cursor of creation second and id), the flags, and the
client's infinite query: `FetchPage`, `FetchDone`, `LoadMore`, `ComeBack`, `Star` with `Answer`.
`excused[v]` has the messages whose rows a view may show out of date: changed elsewhere, or by a call
that was lost. `Console` has the query cache, the dialog, the editors and the pending saves of seven
resources, `unsure` the rows that the cache may lack a save of, and `rushed` the rows with a save that
the administrator has not waited for: its dialog was closed or replaced before it was read back.
`WebClient` composes the two pages over one query client: each is an `INSTANCE`, and a behaviour stays
on the page it opens. The query library (TanStack Query) and IndexedDB are external and modelled by
how the code uses them.

### Release

Runs of four kinds (`initial`, `bootstrap`, `local`, `workflow`) walk through `Preflight`, `ReadStatus`,
`ListSecrets`, `LegacyCheck`, `Upload`, `ReadSchema`, `ListMigrations`, `ApplyMigration`,
`VerifyMigrations`, `CountAdministrators` ... `CompleteInstallation`, `VerifyCandidate`, `Promote` or
`Deploy`, `MarkPromoted`, `SmokeTest` and `Rollback`; any command may fail. Only workflow runs exclude
each other.

## 3. Runs

| Run | Instance | What it shows |
|---|---|---|
| `MCOutbound` | 1 message, 2 workers, 2 dispatchers, 2 queue entries, 2 attempts, 1 queue retry, 2 faults, overruns; fair | `SoleSender`: two workers are never past the claim of one job whose lock nobody overran, and without faults the provider has a message once; `LockMarksProcessing`; `SuccessWasAccepted`; `OutcomeAgrees`: message, job and links tell one story; `SettledIsFinal`; `UndisturbedJobSettles` |
| `MCDraft` | 2 clients, 2 requests of 5 operations, 1 worker, 1 dispatcher, 1 queue entry, 1 fault, overruns | `NoLostUpdate`, `FailedSendChangesNothing` (send and update are all or nothing), `CancelStopsDelivery`, with the pipeline at work on the same rows |
| `MCOutboundLost` | 1 dispatcher, no fault; fair | violated: `EveryJobSettles` (the finding below) |
| `MCWebhook` | 1 provider message, 2 events of one time, an older report, 2 handlers, 1 reconciliation, 1 fault; fair | `ImplementsRegister` (refinement), `SoleImporter`, `StatusMatchesPosition`, `EventuallyAcknowledged` |
| `MCAttachments` | an upload, an inbound mail and a legacy object whose bodies share a digest, 1 fault; fair | `ReferencedBytesStay`, `UnreferencedFilesGo` |
| `MCStorage` | 2 keys, 2 bodies, 1 reader, 3 puts or deletes, 1 fault | `LatestIsFound`, through the change of binding and a migration that fails and is run again |
| `MCSessions` | 2 requests, 2 sign-ins, 2 rotations, 2 changes, 1 lost answer | `CookieFollowsSession`, `OnlyRacedSessionsOutlive` |
| `MCAdministration` | 2 slots, 2 keys, 4 calls out of one of 6 menus, 1 fault | `OnceUndisturbed`, `LimitsHold`, `UpdatesStick` |
| `MCCloudflare` | 2 grants, 2 handlers, 1 domain, 6 calls, 2 rotations, 2 faults | `SecretsAccountedFor`, `StoredTokenWorks` |
| `MCCompose` | 2 tabs, 2 drafts (1 saved), 2 clicks, 2 opened composers, 2 texts, 1 lost answer | `ServerGetsTheForm`, `WorkingCopiesAdvance` |
| `MCWebClient` | 2 messages of one second, 2 mailboxes, 3 views, pages of 1; 2 rows of each of 7 resources; 4 clicks, 1 change from elsewhere | `PagesComplete`, `ScreenIsCurrent`, `OwnSavesStick` |
| `MCRelease` | 2 runs of any kind, 2 keys and a legacy key, 2 source versions, 5 uploads, 2 failing commands | `LeavesOrder` (`SchemaServesCode`, `OneAdministrator`, `FailedReleaseIsGone`), `KeepsCredentialsReadable` |

Each run but `MCOutboundLost` and `MCStorage` checks its module's type invariant as well. Each
property is stated with a comment in its module; where it excuses something (`raced`, `leaked`,
`doubts`, `excused`, `unsure`, `rushed`, `crossed`), the excuse is a history variable that the action sets at
the line of code that causes it, and section 5 says what the code does there.

*Bounds.* Messages share nothing but workers, dispatchers and queue entries, and no guard of one
reads a row of another, so one message shows every conflict over a job; the proofs hold for any
number. Two workers, dispatchers and entries let a duplicate delivery meet its twin at the claim
and a mark arrive after a second round; two faults allow a crash after a lost answer; two attempts a
retry and then the limit. Two handlers or slots show every check that another call overtakes; the
third party, where there is one (a reconciliation, the sweep, an owner, another administrator), is an
actor of its own. Two keys in `MCStorage` make a page of the script's listing go stale. Two messages
with pages of one row put the page boundary between rows of one second. In `MCCompose` one tab with
two composers and two tabs with one each are both within two openings. The menus of
`MCAdministration` put together the calls that touch the same rows; mixed menus would only add
calls that commute.

*Reductions.* Symmetry is used where no liveness property is checked. `MCCompose` has a CONSTRAINT,
`MCUndoubted`: a behaviour that has met both excuses of its properties is not followed further, which
loses nothing since the excuses never go away. `CHECK_DEADLOCK FALSE` everywhere: the modelled systems
rest when their work, or the bound on calls, is used up.

*Fairness.* `Outbound`: the cron runs every minute and visits every due job, so selection and
recovery are weakly fair; the Queue delivers what it holds and a running invocation goes on, so each
worker's step is; time passes. `Webhook`: a running handler goes on, claims and import locks expire,
and the provider delivers an event until it is answered with 2xx; this last is strong fairness,
because the delivery slot may be taken in between. `Attachments`: a PUT or deletion that has begun
goes on, expiry runs in every cron tick, the back-fill in its job. Faults, requests, users and
administrators are never assumed to act.

### What the violated run found

`dispatch()` enqueues before it marks, and the mark asks for `pending` only
(`modules/outbound-mail/index.ts:74`). If the consumer claims, fails retryably and returns the job to
`pending` in between, the waiting retry is turned into `enqueued`, its redelivery is skipped and
acknowledged before `available_at`, and nothing dispatches it again. No fault is needed.

## 4. Proofs

TLAPS proves the theorems below for every value of the constants that satisfies the assumptions
named with them: any number of messages, workers, requests, users, runs, and any bound on faults.
A module `X_proofs` EXTENDS the module `X` it is about. `Outbound_proofs` has the theorems of
`DraftSchedule` too, which build on its lemmas, `Attachments_proofs` those of `Storage`, and
`Web_proofs` those of `WebClient`, with lemmas about its two instances, and of `Compose`. They share a shape: an
inductive invariant that says what every running process knows, a lemma for each action (or for a
family of actions that touch the rows in one way), and a last temporal step. TLC checked each
inductive invariant on the instance of the component's run before it was proved.

| Module | Theorem | Statement |
|---|---|---|
| `Outbound_proofs` | `TypeCorrect` | `Spec => [](TypeOK /\ Holding)` |
| | `LockInvariant`, `LockCorrect` | `Spec => []LockInv`, `Spec => []LockMarksProcessing` |
| | `SettledForever` | `Spec => SettledIsFinal` |
| | `SuccessIsReal` | `Spec => []SuccessWasAccepted` |
| | `OneSender` | `Spec => []SoleSender` |
| | `OneOutcome` | `Spec => []OutcomeAgrees` |
| | `DraftTypeCorrect` | `DraftSpec => []DraftTypeOK` |
| | `UpdatesNotLost` | `DraftSpec => NoLostUpdate` |
| | `FailuresAreVoid` | `DraftSpec => FailedSendChangesNothing` |
| | `CancelIsFinal` | `DraftSpec => CancelStopsDelivery` |
| `Webhook_proofs` | `TypeCorrect` | `Spec => []TypeOK` |
| | `OneImporter` | `Spec => []SoleImporter` |
| | `Implements` | `Spec => ImplementsRegister` (refinement) |
| | `StatusAgrees` | `Spec => []StatusMatchesPosition` |
| `Attachments_proofs` | `TypeCorrect` | `Spec => []TypeOK` |
| | `BytesStay` | `~Impatient, ~CrashBeforeLink`: `Spec => []ReferencedBytesStay` |
| | `LatestFound` | `StoreSpec => []LatestIsFound` (`Storage`) |
| `Sessions_proofs` | `TypeCorrect` | `Spec => []TypeOK` |
| | `CookieKeepsUp` | `Spec => []CookieFollowsSession` |
| | `RevocationHolds` | `Spec => []OnlyRacedSessionsOutlive` |
| `Administration_proofs` | `AlwaysSafe`, `TypeCorrect` | `Spec => []Safe`, `Spec => []TypeOK` |
| | `RunsOnce` | `Spec => []OnceUndisturbed` |
| | `LimitsKept` | `Spec => []LimitsHold` |
| | `UpdatesKept` | `Spec => []UpdatesStick` |
| `Cloudflare_proofs` | `TypeCorrect` | `Spec => []TypeOK` |
| | `Accounted` | `Spec => []SecretsAccountedFor` |
| | `TokenWorks` | `Spec => []StoredTokenWorks` |
| `Release_proofs` | `TypeCorrect` | `Spec => []TypeOK` |
| | `LeavesInOrder` | `Spec => []LeavesOrder` |
| | `KeysStayReadable` | `Spec => KeepsCredentialsReadable` |
| `Web_proofs` | `Inductive`, `TypeCorrect` | `Spec => []WebInv`, `Spec => []TypeOK` (`WebClient`) |
| | `ListsComplete` | `Spec => []PagesComplete` |
| | `ScreenCurrent` | `Spec => []ScreenIsCurrent` |
| | `SavesKept` | `Spec => OwnSavesStick` |
| | `ComposeInductive`, `ComposeTypeCorrect` | `ComposeSpec => []ComposeInv`, `ComposeSpec => []ComposeTypeOK` |
| | `ServerGetsForm` | `ComposeSpec => ServerGetsTheForm` |
| | `CopiesAdvance` | `ComposeSpec => WorkingCopiesAdvance` |

Every safety property that a run checks is the statement of one of these theorems.

*Assumptions.* Every bound is a natural number, a name that stands for "nothing" is no element of
the set it is added to. Beyond that: `Outbound` needs a positive attempt limit
(`LimitsAssumption`); `Webhook` takes times of events (`FactsAssumption`); `Attachments` takes one
source for each request (`SourceAssumption`) and keeps uploads, mails and legacy files apart
(`DisjointAssumption`: keys are fresh UUIDs); in `Release` the legacy key is none that a run
generates (`LegacyIsOld`); `Administration` starts from tables whose foreign keys and quotas hold
(`SeedAssumption`) and runs operations that the schemas of the routes let through
(`MenuAssumption`): fields of their types, and an update of the settings that names each column once,
as the keys of a JSON object do; `WebClient` (`PagesAssumption`) has finitely many messages and rows,
pages of at least one row, and creation times that are numbers; `Compose` (`SavedAssumption`) starts
from finitely many saved drafts, each with a text of its own, which the bound on texts must allow.

### Outbound and DraftSchedule

`TypeOK` is not inductive: `Ack` and `Retry` index the queue with a worker's delivery, so `Holding`
(a busy worker has a message, and a delivery that is its own and still an entry of the queue) is
proved with it. `LockInv` adds the token discipline and that an absent message has no job.
`SettledIsFinal` follows: only a claim changes an unowned job, a claim needs `pending` or
`enqueued`, and every other writer is fenced by a token that a settled job does not carry. For
`SuccessWasAccepted`, `AcceptInv` records what workers know: a worker in `commit` that loaded an
external recipient has an acceptance behind it, and the recipients it loaded are those of the row.
The last holds in `Outbound`, where recipients never change; the draft API breaks it (section 5),
and `SuccessWasAccepted` is not claimed for `DraftSpec`.

`SoleSender` compares two workers and says nothing of locks. `SenderInv` adds that a busy worker
whose job was never overrun holds its live lock, or has settled it in a batch of which it lost the
answer (`Owner`), and that, as long as nothing failed, an acceptance is followed by the commit of
the worker that got it (`Counted`). A second claim would then need a job that is `processing` and
unlocked at once. `OutcomeInv` is `SenderInv` with `OutcomeAgrees`: the batches write message, job
and links together, and the statements of a batch that have different guards agree on a job that
its worker owns.

With the draft API a job may be deleted, and another inserted for the message, while a worker is at
work. `DraftInv` therefore rests on job identity: ids are never reused and every id that a queue
entry, a dispatcher or a worker holds was issued (`IdsIssued`); a worker whose job still has the id it
claimed keeps it (`Keeper`); without a fault the worker of a draft works on its present job and a draft
the provider has is about to be committed (`Undisturbed`); and a request past `requireDraft` has read
the version it names (`Based`). The facts about the pipeline are those of its own proofs, stated
under `LockInv`, which holds whoever submits the messages. The three promises then speak of the one
step that answers a request (`AnsweredByOwnStep`): success comes only from a batch whose guard holds;
an error only from a batch that was rolled back or whose statements all missed; and a job that may
still be deleted is nobody's, since a worker past its claim would have it in `processing`.

### Webhook

`SoleImporter` says nothing of locks, so it is not inductive. `ImportInv` adds that, as long as
nothing was overrun, a handler in its import holds the import lock of its message and the lock is
live (`ImportersHoldLocks`), and that a live lock is on a row that exists: a second importer would
need a lock that is free or stale. For the refinement, an acknowledgement reads only the delivery or
the handler's own step, so `RegisterInv` carries what they know: the position has reached the event
of every handler about to finish (`FinishingReached`) and of every delivery that has succeeded
(`SettledReached`), unless a reconciliation has moved the message back since; and a missing row has
no position (`MissingHasNoPosition`), without which the insert of `LockImport` could be a step
backwards. `ReachedStays` is the heart of it: no step undoes what was reached, because the order of
positions is transitive (`OrderTransitive`). Every step is then one of four (`PositionMoves`,
`Acknowledges`): nothing moves, an event applies, a report is written, an event is acknowledged;
these are the register's steps. `StatusMatchesPosition` needs `StatusInv`: the position row of every
event that is answered, or about to be, is there, and the message shows the status of the position as
long as the position is the event's.

### Attachments

`FileInv`: a file has the object of its key, with its bytes. `RequestInv`: a source has one running
request, which finds its upload pending and its object in place. `DropInv`: what is about to be
deleted is the key of no file, now or later. `ReferenceInv`: references, and moves of references by
completion and back-fill, name files that exist with the body that was given. The heart is that a
file found by digest is compared by bytes before it is used (`Found`), and that a drop is registered
only after the last reference is gone. `BytesStay` assumes patient clients and no PUT that ends
between its file row and its reference: with either constant TRUE, TLC finds the loss (section 5).
The type invariant needs neither.

### Storage

`LatestIsFound` speaks of keys that nobody is at work on, and says nothing of how they get there.
`StoreInv` says it, per key, as long as the key was not raced. `PutRight`, `DeleteRight`: the writes
that a call has made are in place, and a call that began on KV finds no R2 object, because only the
script and calls that began on R2 make one. `CopyRight`: an R2 object without metadata is the
script's copy, so it equals the body if that is still there. This is what makes the script's put
harmless: it replaces an object only if that lacks the metadata which the sidecar has, and such an
object has the same bytes. `ScriptRight`: from its read to its deletion the script holds the bytes
of the body, and it deletes the body only when an object is in place. `GetRight`: what a get of an
undisturbed key is yet to look at holds the latest bytes.

### Sessions, Administration, Cloudflare, Release

`CookieInv` follows the rotation chain of each session: every token that is out was issued, an answer
on its way carries the newest one, and nobody else has that. `OnlyRacedSessionsOutlive` is inductive
once passwords are counted (`PasswordsCounted`: only the first password can be rehashed).

`Administration` keeps one invariant, `Safe`, of what each call has checked and may rely on at its
write: a key that was not raced is in one call or in a live record (`OnceInv`); who is about to
insert has room, unless another call counted at the same time (`QuotaInv`, `InviteInv`); the secrets
read are those stored (`SecretInv`); of the columns of a settings update, those before the one it is at
are written and the rest as they were (`SettingsInv`). Foreign keys make deletions safe: they are
part of `TypeOK`.

In `Cloudflare`, `SecretsAccountedFor` is inductive with the types of the calls. `StoredTokenWorks` is
not: `TokenInv` says that a grant whose first token is not stored is known to nobody (`FirstTokens`),
and that of all who refresh, only the one about to save has the newest token (`Rotation`).

`Release` separates what is left in order: every version that is, was or may again be live has its
migrations (`SchemaInv`), there is one administrator at most (`AdminInv`), and no version of a
workflow that is not yet live, or that has failed, is live or what another workflow goes back to
(`RollbackInv`). `KeyInv`: an uncrossed run that generated a key has seen no credentials, and there are
none.

### WebClient

`PagesComplete` speaks of pages that are linked by cursors, each read at a time of its own. `ListRight`
says what a list under way knows: its pages are trimmed, each begins beyond the cursor before it, the
rows are in the order of creation and id, and every message that the view has matched since the first
page was read (`stay`) is in a page or comes after the last cursor. A new page keeps this because
`Page` takes the first rows beyond the cursor and its own cursor is its last row: what it leaves out
comes later, also among rows of one second. That a page can be cut at all is a lemma on finite sets
(every nonempty one has a first row), from the well-foundedness of the order. A refetch begins again
from the first page, and so does `stay`.

For the flags, `RowsKnown`: every row is as the server has it, or excused, or a call of its message has
been answered and is about to mark the lists stale; a stale list that is open is being fetched.
`ScreenIsCurrent` then speaks of the state with nothing under way.

In the console a save and its refetch are one mutation for the dialog, and three places may hold an old
row: a fetch that has read it, the cache, and a dialog that took it from the cache. `ReadIsCurrent` and
`ShownIsCurrent` say that the first two are current unless a save of the row is served and not yet
answered (its answer then starts another fetch) or the row is `unsure`. A dialog needs more, because it
may open in between: `TakenIsCurrent` says that what it can take is current unless a save waits for
that very fetch, and that save's dialog is the one still open (`DialogSaves`), so no other opens, unless
the row is `rushed`. `DialogFits` and `LeftFits` carry this through the form to the save that is sent:
the fields it leaves alone are the server's. Editors (settings, signatures) have no dialog to close;
they show their cache (`EditorShows`) and have one save at a time.

### Compose

Three facts about numbers hold whatever happens: a version that was given out for a click belongs to
its draft alone (`OwnVersion`); as long as a draft has the version that a click stored, it has the
click's text (`StoredText`); drafts that are there have different versions (`OwnNumbers`). The part of
`ServerGetsTheForm` on Send is `StoredText`: the save that precedes a send and the send itself name
versions, so another tab's save in between makes the send fail rather than mail the other text.

The part on saves is `SaveInv`, which holds until a request of the form is overtaken as `doubts`
records: a form knows the text of the version it names and the draft it is about (`FormKnows`), and so
does every save clicked there (`SaveKnows`). The step that endangers it is the answer of a save, which
gives the form a new version while other requests of the form are under way. They name the version
from before, and the server has made that stale (`FormStale`, `Stale`); hence at most one request of a
form can win.

`WorkingCopiesAdvance` needs `CopyInv`: no copy has a later text than the form that writes it
(`CopiesOlder`), two open forms write two copies (`OwnCopies`), and a form whose Send is under way is
open, unchanged, and has no other Send (`SendsShown`), so the copy that the answer deletes holds a text
that was mailed, or an earlier one.

### Only model-checked

Liveness: `UndisturbedJobSettles`, `EventuallyAcknowledged`, `UnreferencedFilesGo`. They rest on
fairness and ENABLED, which the prover does not treat. That an excuse occurs at all, and that the
properties fail without it, is seen by TLC alone.

## 5. Where code and documents disagree

Met while modelling. The properties excuse each of these by name, or a constant switches it on;
none but the first has a run of its own. `blueprint` is `docs/rebuild-blueprint.md`.

Outbound and drafts
- The stranded job of section 3.
- No path of the application writes `messages.provider_key`, yet `modules/outbound-mail/index.ts:170`
  refuses to load a message without one; `modules/messages/drafts.ts:548` believes the link to the
  connection is enough, and the integration test seeds the column by hand
  (`apps/worker/test/integration/outbound-queue.test.ts:37`). The runs assume it (`Keyed`).
- The success batch moves `draft` rows only (`outbound-mail/index.ts:333`), so the message of an
  immediate send stays `queued`; blueprint:1096 says it becomes `sent`.
- A version conflict of cancel or schedule is answered although the job has changed
  (`drafts.ts:838`, `:660`): the first statements of these batches carry no version guard, against
  blueprint:1057. `FailedSendChangesNothing` therefore speaks of send and update.
- A scheduled draft is still a draft while a worker sends it: `update` (`drafts.ts:267`) may replace
  recipients that were loaded already, and `SuccessWasAccepted` fails for `DraftSpec`.
- A worker that lost its lock marks the message failed although the job will be retried
  (`outbound-mail/index.ts:369`), the reason `OutcomeAgrees` excludes jobs whose lock was overrun.

Webhooks
- A delivery that settles between the SELECT and the takeover is claimed again
  (`provider-sync/webhook.ts:205`; the comment at :197 says replays must not). The register shows the
  status survives it.
- A webhook that imports a message before the worker's success batch takes its
  `provider_message_id`; the batch then fails on the UNIQUE constraint (`outbound-mail/index.ts:327`).
- `reconcileMessage` may move a status back (`Reconcile` of the register).

Mailboxes and messages
- `modules/maintenance/scheduled.ts:145` names `mailbox_messages.updated_at`, a column that table lacks.
  The batch always fails: nothing leaves the trash after 30 days, and the orphan sweep behind it never
  runs (`docs/development.md` lists both). For the same reason the UPDATE of move
  (`messages/index.ts:543`) cannot succeed. The web client never marks a message as read.
- A star in a shared mailbox is set on the user's own copy if there is one
  (`messages/index.ts:597`, `requireReadableLink`).

Attachments
- blueprint:1222 promises that an object goes only after its final reference. A client that repeats or
  cancels a PUT while it runs (`Impatient`), a PUT that outlives its upload (`scheduled.ts:95`,
  `attachments/index.ts:308`), and a crash between file and reference (`CrashBeforeLink`) break it.
- `attachment-migration-lib.mjs:266` reads metadata from the sidecar and from nowhere else, so what a
  put left in the metadata slot of the KV value is neither copied nor compared; the runbook
  (`.skills/runbooks/attachment-storage-migration.md:91`) promises to compare all. A get that finds
  nothing in R2 just before the script's copy and looks in KV after the deletion finds neither.

Identity
- A logout that races a refresh revokes by a token that has just been rotated; the session stays alive
  (`identity/application.ts:311`, blueprint:1981). A sign-in that has read the account before a reset or
  a suspension still opens a session (blueprint:929), and the rehash (:236) may put the old password
  back. The loser of two concurrent refreshes clears the winner's access token.

Administration and Cloudflare
- `http/admin-idempotency.ts:46` looks up before and records after: two calls in flight both act
  (`:6` says at most once). The console draws a fresh key for each call (`features/admin/api.ts:239`),
  so its repetitions are never recognised.
- `deleteDomain` speaks of active mailboxes (`administration/index.ts:1089`), while the rows of removed
  ones keep the foreign key and block the deletion as well.
- The catch-all rule of a zone is read and then written (`cloudflare-settings.ts:487`): the owner's
  change in between is lost. Credentials that a new connection replaced stay in the table
  (blueprint:1962).
- `platform/rate-limit.ts:109` loses concurrent increments; its comment calls it best effort.

Composer and console
- A recovered working copy has no version, so it cannot be saved to its draft
  (`ComposePanel.tsx:304`, against :320). Each click draws its own idempotency key: Send pressed again
  after a lost answer, or a schedule that saved a second draft, can mail twice. Working copies are not
  partitioned by user (blueprint:2176).
- The signature form keeps the values of the domain before until the new ones have come
  (`AdminPage.tsx:2225`); a full-form save undoes another administrator's change.
- The end of a save closes whichever dialog is open, and a refetch that another answer replaces lets the
  mutation that waited for it end early. Either way a dialog can open on a row of which a save is not
  read back, and put that save's fields back (`rushed`).
- `isBusy` does not see the save by which Schedule begins (`ComposePanel.tsx:427`, `:437`). Save or Send
  pressed while it creates the draft of a new message creates a second draft or mails at once, and the
  first is scheduled all the same (`Second`).

Release
- If `deployments status` fails, a run takes the installation for new and never asks for the legacy
  secret (`release.mjs:257`), against `docs/operations/deployment.md:271`; the bootstrap has no such
  check. A crash between promotion and the manifest's write makes the rollback answer that nothing was
  promoted (`release.mjs:61`).

## 6. Not modelled

- Schedule window, status codes, parsing of MIME and forms, signatures and hashing, token formats:
  pure functions that the repository's tests cover value by value.
- The gates of inbound mail (rate, block list, policy): checks before the first write. What is stored
  afterwards is in `Attachments` and `Mailbox`.
- The rate limiter: best effort by its own words, and nothing relies on it.
- Search, threads, `get`: reads of one statement. Provider test mail, audit rows, webhook event
  deletion, infrastructure settings: single statements no other component reads.
- `connectBrevo`, the Cloudflare smoke tests and dashboard links; password repair, preview targets,
  upstream synchronisation and adoption of the release scripts.
- Replies and attachments in the composer; navigation and layout of the web application.
- Shared packages: schemas and types without state.

## 7. Plan

The safety properties of all runs are proved. What could follow: the parts of the console that
`Console` leaves out (member management of shared mailboxes, webhook events), replies and attachments in
`Compose`, and `DraftSchedule` shown to implement the server of `Compose`, whose contract the two
modules now state separately.
