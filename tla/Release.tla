------------------------------- MODULE Release -------------------------------
(***************************************************************************)
(* The operator's side of UniMailbox: the scripts that provision, migrate, *)
(* bootstrap, promote and roll back an installation                        *)
(* (scripts/initial-deploy.mjs, deployment-bootstrap.mjs, release.mjs,     *)
(* migration.mjs, bootstrap-admin.mjs, production-preflight.mjs) against   *)
(* the Cloudflare state they share: the uploaded Worker versions, the one  *)
(* that is live, the D1 migration ledger, the administrator and the        *)
(* credentials the live Worker encrypts.                                   *)
(*                                                                         *)
(* Only runs of the production workflow exclude each other; an operator's  *)
(* own runs overlap them.  Any command of a run may fail and end it.       *)
(* Source version v carries the migrations 1..v, as migrations are only    *)
(* ever added (assertMigrationSet).                                        *)
(***************************************************************************)
EXTENDS Naturals, Sequences, FiniteSets

CONSTANTS
    Runs,        \* script runs; each has a working copy with its manifest
    Keys,        \* values of CREDENTIAL_ENCRYPTION_KEY
    LegacyKey,   \* the key of an installation older than the runtime secrets
    None,
    MaxCode,     \* source versions on main
    MaxVersions, \* Worker versions that are uploaded
    MaxFaults    \* commands that fail

ASSUME LegacyIsOld == LegacyKey \notin Keys /\ None \notin Runs \cup Keys \cup {LegacyKey}
ASSUME BoundAssumption ==
    MaxCode \in Nat \ {0} /\ MaxVersions \in Nat \ {0} /\ MaxFaults \in Nat

VARIABLES
    main,         \* the newest source version on the main branch
    versions,     \* uploaded Worker versions, oldest first
    live,         \* the index of the deployed one, 0 before any deployment
    applied,      \* migrations recorded in d1_migrations
    users,        \* runs whose INSERT made a user
    admins,       \* those of them with the administrator role
    complete,     \* installation_state.status = 'complete'
    credentials,  \* the keys that rows of encrypted_credentials need
    run,          \* what each script run knows
    manifest,     \* .wrangler/release/manifest.json of its working copy
    crossed,      \* history: something else changed what the run relies on
    faults

vars == <<main, versions, live, applied, users, admins, complete, credentials,
          run, manifest, crossed, faults>>

Kinds == {"initial", "bootstrap", "local", "workflow"}
Steps == {"new", "preflight", "status", "secrets", "check", "upload", "schema",
          "import", "list", "apply", "verify", "admin", "user", "role", "state",
          "post", "candidate", "promote", "deploy", "mark", "smoke", "rollback",
          "done", "failed", "stopped"}

\* secret: the Worker secret; bound: the key of the older Secrets Store binding.
Versions == [code : 1..MaxCode, secret : Keys \cup {None},
             bound : {LegacyKey, None}, by : Runs \cup {None}]
NewRun == [step |-> "new", kind |-> "local", code |-> 1, key |-> None,
           previous |-> 0, candidate |-> 0, verified |-> FALSE, next |-> 0]
NewManifest == [promoted |-> FALSE, previous |-> 0]

KeyOf(v) == IF v.secret # None THEN v.secret ELSE v.bound
LiveKey == IF live = 0 THEN None ELSE KeyOf(versions[live])
Latest == Len(versions)
Finished == {"done", "failed", "stopped"}

At(r, step) == run[r].step = step
Go(r, step) == run' = [run EXCEPT ![r].step = step]
\* A run after it has looked at the deployment and before it has ended.
Relying(r) == run[r].step \notin Finished \cup {"new", "preflight", "status"}
\* Whatever changes the live version or the credentials crosses the others.
CrossAllBut(S) == crossed' = crossed \cup {q \in Runs \ S : Relying(q)}

Installation == <<versions, live, applied, users, admins, complete, credentials>>
Database == <<applied, users, admins, complete, credentials>>
Deployment == <<versions, live>>

---------------------------------------------------------------------------
(* An installation before anything, one that was provisioned by the deploy *)
(* button, and one older than the generated secrets.                       *)
Init ==
    /\ main = 1
    /\ users = {} /\ run = [r \in Runs |-> NewRun]
    /\ manifest = [r \in Runs |-> NewManifest]
    /\ crossed = {} /\ faults = 0
    /\ \/ /\ versions = <<>> /\ live = 0 /\ applied = 0
          /\ complete = FALSE /\ admins = {} /\ credentials = {}
       \/ /\ versions = <<[code |-> 1, secret |-> None, bound |-> None, by |-> None]>>
          /\ live = 1 /\ applied = 0
          /\ complete = FALSE /\ admins = {} /\ credentials = {}
       \/ /\ versions = <<[code |-> 1, secret |-> None, bound |-> LegacyKey, by |-> None]>>
          /\ live = 1 /\ applied = 1
          /\ complete = TRUE /\ admins = {None}
          /\ credentials \in {{}, {LegacyKey}}

(* The upgrade pull request is merged.                                     *)
Merge ==
    /\ main < MaxCode
    /\ main' = main + 1
    /\ UNCHANGED <<Installation, run, manifest, crossed, faults>>

(* An administrator stores a credential: the live Worker encrypts it.      *)
StoreCredential ==
    /\ LiveKey # None
    /\ applied > 0 /\ admins # {}
    /\ LiveKey \notin credentials
    /\ credentials' = credentials \cup {LiveKey}
    /\ CrossAllBut({})
    /\ UNCHANGED <<main, Deployment, applied, users, admins, complete, run,
                   manifest, faults>>

---------------------------------------------------------------------------
(* A run starts from a checkout.  The workflow's concurrency group admits  *)
(* one run of it at a time; an operator's checkout may be an old one.      *)
FirstStep(kind) ==
    CASE kind = "initial" -> "deploy" [] kind = "bootstrap" -> "secrets"
      [] kind = "local" -> "status"   [] kind = "workflow" -> "preflight"

Start(r) ==
    /\ At(r, "new")
    /\ \E kind \in Kinds, code \in 1..main :
         /\ kind = "workflow" => /\ code = main
                                 /\ \A q \in Runs : run[q].kind = "workflow"
                                      => run[q].step \in Finished \cup {"new"}
         /\ kind = "initial" => live = 0
         /\ run' = [run EXCEPT ![r].kind = kind, ![r].code = code,
                               ![r].step = FirstStep(kind)]
    /\ UNCHANGED <<main, Installation, manifest, crossed, faults>>

(* validateProductionSource and the lookup of the Worker and its database. *)
Preflight(r) ==
    /\ At(r, "preflight")
    /\ Go(r, IF run[r].code = main /\ live # 0 THEN "status" ELSE "failed")
    /\ UNCHANGED <<main, Installation, manifest, crossed, faults>>

(* `wrangler deployments status`: a command that fails reads as a first    *)
(* deployment.                                                             *)
ReadStatus(r) ==
    /\ At(r, "status")
    /\ \E previous \in {live, 0} :
         /\ faults' = IF previous = live THEN faults ELSE faults + 1
         /\ run' = [run EXCEPT ![r].previous = previous, ![r].step = "secrets"]
    /\ faults' <= MaxFaults
    /\ UNCHANGED <<main, Installation, manifest, crossed>>

(* reconcileRuntimeSecretNames: a secret the Worker does not list is       *)
(* generated.  Whether Cloudflare lists those of the live or of the latest *)
(* version is left open; without a Worker the command fails.               *)
KeysInUse == {versions[i].secret : i \in DOMAIN versions}
             \cup {run[q].key : q \in Runs} \cup credentials
Listed == {versions[Latest].secret} \cup
          (IF live = 0 THEN {} ELSE {versions[live].secret})

ListSecrets(r) ==
    /\ At(r, "secrets")
    /\ \/ /\ Latest = 0
          /\ Go(r, "failed")
       \/ /\ Latest # 0
          /\ \E secret \in Listed, key \in (Keys \ KeysInUse) \cup {None} :
               /\ (key = None) <=> (secret # None)
               /\ run' = [run EXCEPT ![r].key = key,
                            ![r].step = IF run[r].kind = "bootstrap"
                                        THEN "schema" ELSE "check"]
    /\ UNCHANGED <<main, Installation, manifest, crossed, faults>>

(* Mutant: the stored credentials are not counted.                         *)
LegacyCompatibleUncounted(r) == r \in Runs

(* assertLegacyCredentialCompatibility                                     *)
LegacyCompatible(r) ==
    run[r].previous = 0 \/ run[r].key = None \/ credentials = {}

LegacyCheck(r) ==
    /\ At(r, "check")
    /\ Go(r, IF LegacyCompatible(r) THEN "upload" ELSE "failed")
    /\ UNCHANGED <<main, Installation, manifest, crossed, faults>>

---------------------------------------------------------------------------
(* A new version has the secrets of the latest one and those handed over.  *)
Built(r) ==
    [code |-> run[r].code,
     secret |-> IF run[r].key # None THEN run[r].key
                ELSE IF Latest = 0 THEN None ELSE versions[Latest].secret,
     bound |-> None, by |-> r]

(* `wrangler versions upload`; its output may lack the version's ID or its *)
(* preview URL, and the release then deploys directly.                     *)
Upload(r) ==
    /\ At(r, "upload")
    /\ Latest < MaxVersions
    /\ versions' = Append(versions, Built(r))
    /\ \E verified \in BOOLEAN :
         run' = [run EXCEPT ![r].candidate = Latest + 1,
                            ![r].verified = verified, ![r].step = "schema"]
    /\ manifest' = [manifest EXCEPT ![r] = [promoted |-> FALSE,
                                            previous |-> run[r].previous]]
    /\ UNCHANGED <<main, live, Database, crossed, faults>>

(* bootstrapRemoteInitialMigration: the ledger and the tables are looked   *)
(* at, then the first migration is imported, in one piece, into an empty   *)
(* database.                                                               *)
ReadSchema(r) ==
    /\ At(r, "schema")
    /\ Go(r, IF applied = 0 THEN "import" ELSE "list")
    /\ UNCHANGED <<main, Installation, manifest, crossed, faults>>

ImportInitial(r) ==
    /\ At(r, "import")
    /\ \/ /\ applied = 0
          /\ applied' = 1 /\ Go(r, "list")
       \/ /\ applied > 0
          /\ UNCHANGED applied /\ Go(r, "failed")
    /\ UNCHANGED <<main, Deployment, users, admins, complete, credentials,
                   manifest, crossed, faults>>

(* `wrangler d1 migrations apply`: the missing ones are listed, then       *)
(* applied one by one; one that another run has applied meanwhile fails.   *)
ListMigrations(r) ==
    /\ At(r, "list")
    /\ run' = [run EXCEPT ![r].next = applied + 1, ![r].step = "apply"]
    /\ UNCHANGED <<main, Installation, manifest, crossed, faults>>

AfterMigrate(r) == IF run[r].kind = "bootstrap" THEN "admin" ELSE "verify"

(* Mutant: the listing is off by one.                                      *)
PendingOneMore(r) == run[r].next <= run[r].code + 1

Pending(r) == run[r].next <= run[r].code

ApplyMigration(r) ==
    /\ At(r, "apply")
    /\ \/ /\ ~Pending(r)
          /\ Go(r, AfterMigrate(r)) /\ UNCHANGED applied
       \/ /\ Pending(r) /\ applied + 1 = run[r].next
          /\ applied' = run[r].next
          /\ run' = [run EXCEPT ![r].next = @ + 1]
       \/ /\ Pending(r) /\ applied + 1 # run[r].next
          /\ Go(r, "failed") /\ UNCHANGED applied
    /\ UNCHANGED <<main, Deployment, users, admins, complete, credentials,
                   manifest, crossed, faults>>

VerifyMigrations(r) ==
    /\ At(r, "verify")
    /\ Go(r, IF run[r].code <= applied THEN "admin" ELSE "failed")
    /\ UNCHANGED <<main, Installation, manifest, crossed, faults>>

---------------------------------------------------------------------------
(* bootstrap-admin.mjs.  The statements of its file are separate steps:    *)
(* nothing below relies on D1 running the file as one transaction.         *)
AfterBootstrap(r) ==
    CASE run[r].kind = "bootstrap" -> IF run[r].key = None THEN "done" ELSE "deploy"
      [] run[r].verified -> "candidate"
      [] OTHER -> "deploy"

CountAdministrators(r) ==
    /\ At(r, "admin")
    /\ complete' = (complete \/ admins # {})
    /\ Go(r, IF admins = {} THEN "user" ELSE AfterBootstrap(r))
    /\ UNCHANGED <<main, Deployment, applied, users, admins, credentials,
                   manifest, crossed, faults>>

\* The email is unique: a second user of the same address is refused.
InsertUser(r) ==
    /\ At(r, "user")
    /\ \/ /\ users' = IF admins = {} THEN users \cup {r} ELSE users
          /\ Go(r, "role")
       \/ /\ admins = {} /\ users # {}
          /\ Go(r, "failed") /\ UNCHANGED users
    /\ UNCHANGED <<main, Deployment, applied, admins, complete, credentials,
                   manifest, crossed, faults>>

RoleIsFree(r) == r \in users /\ admins = {}

InsertRole(r) ==
    /\ At(r, "role")
    /\ admins' = IF RoleIsFree(r) THEN admins \cup {r} ELSE admins
    /\ Go(r, "state")
    /\ UNCHANGED <<main, Deployment, applied, users, complete, credentials,
                   manifest, crossed, faults>>

CompleteInstallation(r) ==
    /\ At(r, "state")
    /\ complete' = (complete \/ admins # {})
    /\ Go(r, "post")
    /\ UNCHANGED <<main, Deployment, applied, users, admins, credentials,
                   manifest, crossed, faults>>

CheckAdministrator(r) ==
    /\ At(r, "post")
    /\ Go(r, IF Cardinality(admins) = 1 /\ complete THEN AfterBootstrap(r)
             ELSE "failed")
    /\ UNCHANGED <<main, Installation, manifest, crossed, faults>>

---------------------------------------------------------------------------
(* verify-deployment.mjs against the candidate's preview URL, and after    *)
(* the promotion against the installation's.                               *)
VerifyCandidate(r) ==
    /\ At(r, "candidate")
    /\ \E healthy \in BOOLEAN : Go(r, IF healthy THEN "promote" ELSE "failed")
    /\ UNCHANGED <<main, Installation, manifest, crossed, faults>>

AfterLive(r) ==
    IF run[r].kind \in {"local", "workflow"} THEN "mark" ELSE "done"

Promote(r) ==
    /\ At(r, "promote")
    /\ live' = run[r].candidate
    /\ Go(r, AfterLive(r))
    /\ CrossAllBut({r})
    /\ UNCHANGED <<main, versions, Database, manifest, faults>>

\* deploy-direct, the first deploy, and the one that attaches the secrets.
Deploy(r) ==
    /\ At(r, "deploy")
    /\ Latest < MaxVersions
    /\ versions' = Append(versions, Built(r))
    /\ live' = Latest + 1
    /\ run' = [run EXCEPT ![r].candidate = Latest + 1, ![r].step = AfterLive(r)]
    /\ CrossAllBut({r})
    /\ UNCHANGED <<main, Database, manifest, faults>>

(* Mutant: only a promoted version counts, not a direct deploy.            *)
MarkVerified(r) ==
    /\ At(r, "mark")
    /\ manifest' = [manifest EXCEPT ![r].promoted = run[r].verified]
    /\ Go(r, IF run[r].kind = "workflow" THEN "smoke" ELSE "done")
    /\ UNCHANGED <<main, Installation, crossed, faults>>

MarkPromoted(r) ==
    /\ At(r, "mark")
    /\ manifest' = [manifest EXCEPT ![r].promoted = TRUE]
    /\ Go(r, IF run[r].kind = "workflow" THEN "smoke" ELSE "done")
    /\ UNCHANGED <<main, Installation, crossed, faults>>

SmokeTest(r) ==
    /\ At(r, "smoke")
    /\ \E healthy \in BOOLEAN : Go(r, IF healthy THEN "done" ELSE "rollback")
    /\ UNCHANGED <<main, Installation, manifest, crossed, faults>>

(* release.mjs rollback: what the manifest does not call promoted is left. *)
Rollback(r) ==
    /\ At(r, "rollback")
    /\ \/ /\ manifest[r].promoted /\ manifest[r].previous # 0
          /\ live' = manifest[r].previous
          /\ CrossAllBut({r})
       \/ /\ ~manifest[r].promoted \/ manifest[r].previous = 0
          /\ UNCHANGED <<live, crossed>>
    /\ Go(r, "failed")
    /\ UNCHANGED <<main, versions, Database, manifest, faults>>

(* A command fails, or the runner is gone; only a workflow's next step     *)
(* tries the rollback, whatever failed.                                    *)
CommandFails(r) ==
    /\ run[r].step \notin Finished \cup {"new", "smoke"}
    /\ faults < MaxFaults
    /\ faults' = faults + 1
    /\ Go(r, IF run[r].kind = "workflow" /\ run[r].step # "rollback"
             THEN "rollback" ELSE "stopped")
    /\ UNCHANGED <<main, Installation, manifest, crossed>>

\* A run takes its next step.
RunStep(r) ==
    \/ Start(r) \/ Preflight(r) \/ ReadStatus(r) \/ ListSecrets(r)
    \/ LegacyCheck(r) \/ Upload(r) \/ ReadSchema(r) \/ ImportInitial(r)
    \/ ListMigrations(r) \/ ApplyMigration(r) \/ VerifyMigrations(r)
    \/ CountAdministrators(r) \/ InsertUser(r) \/ InsertRole(r)
    \/ CompleteInstallation(r) \/ CheckAdministrator(r) \/ VerifyCandidate(r)
    \/ Promote(r) \/ Deploy(r) \/ MarkPromoted(r) \/ SmokeTest(r)
    \/ Rollback(r) \/ CommandFails(r)

Next == Merge \/ StoreCredential \/ \E r \in Runs : RunStep(r)

Spec == Init /\ [][Next]_vars

---------------------------------------------------------------------------
(* The shape of the deployment, the database and the runs.                 *)
TypeOK ==
    /\ main \in 1..MaxCode
    /\ versions \in Seq(Versions) /\ Len(versions) <= MaxVersions
    /\ live \in 0..Latest
    /\ applied \in 0..MaxCode
    /\ users \in SUBSET Runs
    /\ admins \in SUBSET (Runs \cup {None})
    /\ complete \in BOOLEAN
    /\ credentials \in SUBSET (Keys \cup {LegacyKey})
    /\ run \in [Runs -> [step : Steps, kind : Kinds, code : 1..MaxCode,
                         key : Keys \cup {None}, previous : 0..MaxVersions,
                         candidate : 0..MaxVersions, verified : BOOLEAN,
                         next : 0..(MaxCode + 1)]]
    /\ manifest \in [Runs -> [promoted : BOOLEAN, previous : 0..MaxVersions]]
    /\ crossed \in SUBSET Runs
    /\ faults \in 0..MaxFaults

(* The code that is live never misses a migration it was built with, in    *)
(* whatever order overlapping releases, bootstraps and rollbacks put their *)
(* versions live; only the first deploy comes before the schema            *)
(* (migrate-production precedes deploy-direct and promote-version).        *)
SchemaServesCode ==
    (live # 0 /\ versions[live].by # None /\ run[versions[live].by].kind # "initial")
        => versions[live].code <= applied

(* However many bootstraps run at once, and wherever they stop, one user   *)
(* at most has the administrator role, and an installation that is marked  *)
(* complete has one (createAdministratorBootstrapSql, ensureCompleteState).*)
OneAdministrator ==
    /\ Cardinality(admins) <= 1
    /\ complete => admins # {}

(* A workflow that ended in failure leaves no version of its own live,     *)
(* whether it was promoted or deployed directly, unless the command that   *)
(* promoted it failed before the manifest said so, or nothing was live     *)
(* before (the workflow's rollback step).                                  *)
FailedReleaseIsGone ==
    \A r \in Runs :
        (At(r, "failed") /\ run[r].kind = "workflow" /\ live # 0
           /\ run[r].previous # 0 /\ ~(~manifest[r].promoted /\ faults > 0))
            => versions[live].by # r

(* Whatever releases, bootstraps and rollbacks overlap and wherever they   *)
(* stop, what they leave is in order: schema, administrator and version.   *)
LeavesOrder == SchemaServesCode /\ OneAdministrator /\ FailedReleaseIsGone

Readable == LiveKey # None => credentials \subseteq {LiveKey}

(* A release that generates the encryption key, that nothing crossed and   *)
(* that could read the deployment, never puts a version live, forward or   *)
(* back, that cannot decrypt the credentials the version before could      *)
(* (assertLegacyCredentialCompatibility; the bootstrap has no such check,  *)
(* and a key that a failed release left in its candidate is not checked).  *)
KeepsCredentialsReadable ==
    [][\A r \in Runs :
         (/\ live' # live /\ run[r]' # run[r] /\ r \notin crossed
          /\ run[r].kind \in {"local", "workflow"}
          /\ run[r].key # None /\ run[r].previous # 0 /\ Readable) => Readable']_vars

=============================================================================
