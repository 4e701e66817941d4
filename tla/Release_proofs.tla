---------------------------- MODULE Release_proofs ----------------------------
(***************************************************************************)
(* Theorems about Release, for any number of script runs, source versions, *)
(* Worker versions, keys and failing commands: type correctness, that      *)
(* whatever the runs leave is in order, and that a release that generates  *)
(* the key keeps the credentials readable.                                 *)
(***************************************************************************)
EXTENDS Release, FiniteSetTheorems, TLAPS

USE LegacyIsOld, BoundAssumption

---------------------------------------------------------------------------
(* What versions, runs and manifests say of each other.                    *)
RunRows == [step : Steps, kind : Kinds, code : 1..MaxCode, key : Keys \cup {None},
            previous : 0..MaxVersions, candidate : 0..MaxVersions,
            verified : BOOLEAN, next : 0..(MaxCode + 1)]

\* Between the look at the deployment and the upload, which writes it down.
Looking == {"secrets", "check", "upload"}

Indices ==
    \A r \in Runs : run[r].previous <= Latest /\ run[r].candidate <= Latest
                    /\ manifest[r].previous <= Latest

(* A version is its run's, of the run's code; the candidate is one.        *)
Builds ==
    /\ \A i \in 1..Latest : LET q == versions[i].by IN
         q # None => run[q].step # "new" /\ versions[i].code = run[q].code
    /\ \A r \in Runs :
         /\ run[r].candidate # 0 => versions[run[r].candidate].by = r
         /\ run[r].verified => run[r].candidate # 0
         /\ run[r].step \in {"candidate", "promote"} => run[r].verified

(* Which kind of run takes which steps.                                    *)
Paths ==
    \A r \in Runs :
        /\ run[r].step = "new" => run[r].kind = "local" /\ run[r].previous = 0
        /\ run[r].verified => run[r].kind \in {"local", "workflow"} /\ run[r].step # "new"
        /\ run[r].kind = "initial" => run[r].step \in {"deploy", "done", "stopped"}
        /\ run[r].step \in {"smoke", "rollback"} => run[r].kind = "workflow"
        /\ run[r].step \in {"preflight", "status", "check", "upload", "candidate", "promote",
                           "mark"} => run[r].kind \in {"local", "workflow"}

(* The manifest holds the version to go back to, once it is written.       *)
Manifests ==
    \A r \in Runs :
        /\ \/ manifest[r].previous = run[r].previous
           \/ /\ ~manifest[r].promoted /\ run[r].kind \in {"local", "workflow"}
              /\ run[r].step \in Looking \cup {"rollback", "failed", "stopped"}
        /\ manifest[r].promoted => run[r].step \in {"smoke", "rollback"} \cup Finished
        /\ run[r].step = "smoke" => manifest[r].promoted

Records == TypeOK /\ Indices /\ Builds /\ Paths /\ Manifests

---------------------------------------------------------------------------
(* Schema: a run past its migrations has all of them; every version that   *)
(* was live once, and may come back, is served.                            *)
Migrated == {"admin", "user", "role", "state", "post", "candidate", "promote", "deploy"}

Served(i) ==
    LET q == versions[i].by IN
    i # 0 /\ q # None /\ run[q].kind # "initial" => versions[i].code <= applied

SchemaInv ==
    /\ Served(live)
    /\ \A r \in Runs :
         /\ Served(run[r].previous) /\ Served(manifest[r].previous)
         /\ run[r].step = "apply" => run[r].next <= applied + 1
         /\ run[r].step \in Migrated /\ run[r].kind # "initial" => run[r].code <= applied

(* Administrator: there is none, or one.                                   *)
AdminInv ==
    /\ admins = {} \/ \E a \in admins : admins = {a}
    /\ complete => admins # {}

(* Rollback: no version of a workflow that is not yet live, or that has    *)
(* failed, is live or is what another workflow goes back to.               *)
NotBy(i, r) == i # 0 => versions[i].by # r

NoTarget(r) ==
    \A q \in Runs : run[q].kind = "workflow" =>
        NotBy(run[q].previous, r) /\ NotBy(manifest[q].previous, r)

Excused(r) == run[r].previous = 0 \/ (~manifest[r].promoted /\ faults > 0)

Working(r) == run[r].kind = "workflow" /\ run[r].step \notin Finished

RollbackInv ==
    /\ \A r, q \in Runs : Working(r) /\ Working(q) => r = q
    /\ \A r \in Runs : Working(r) =>
         /\ NoTarget(r)
         /\ run[r].step \notin {"mark", "smoke", "rollback"} => NotBy(live, r)
         /\ run[r].step = "rollback" => manifest[r].promoted \/ faults > 0
    /\ \A r \in Runs :
         run[r].kind = "workflow" /\ run[r].step = "failed" /\ ~Excused(r) =>
           NoTarget(r) /\ NotBy(live, r)

OrderInv == SchemaInv /\ AdminInv /\ RollbackInv

(* Keys: a release that generated the key has seen no credentials, and none*)
(* was stored since unless the run is crossed.                             *)
Checked(r) ==
    /\ run[r].kind \in {"local", "workflow"}
    /\ Relying(r) /\ run[r].step \notin {"secrets", "check"}
    /\ run[r].step = "rollback" => manifest[r].promoted

KeyInv ==
    \A r \in Runs : Checked(r) /\ r \notin crossed
                    /\ run[r].key # None /\ run[r].previous # 0 => credentials = {}

---------------------------------------------------------------------------
(* Rows.                                                                   *)
LEMMA Rows ==
    ASSUME TypeOK
    PROVE  /\ run \in [Runs -> RunRows]
           /\ \A r \in Runs : run[r] \in RunRows
           /\ \A r \in Runs : manifest[r].previous \in 0..MaxVersions
                              /\ manifest[r].promoted \in BOOLEAN
           /\ Latest \in Nat /\ Latest <= MaxVersions /\ applied \in Nat /\ faults \in Nat
           /\ live \in 0..Latest
           /\ \A i \in 1..Latest : versions[i] \in Versions
           /\ MaxCode \in Nat /\ MaxVersions \in Nat
  BY DEF TypeOK, RunRows, Latest

LEMMA RunTyped ==
    ASSUME TypeOK, NEW r \in Runs, NEW row \in RunRows, run' = [run EXCEPT ![r] = row]
    PROVE  /\ run' \in [Runs -> RunRows]
           /\ run'[r] = row /\ \A q \in Runs \ {r} : run'[q] = run[q]
  BY Rows

(* A new version leaves the others as they are.                            *)
LEMMA VersionAdded ==
    ASSUME TypeOK, NEW v \in Versions, Latest < MaxVersions, versions' = Append(versions, v)
    PROVE  /\ versions' \in Seq(Versions) /\ Latest' = Latest + 1
           /\ versions'[Latest + 1] = v
           /\ \A i \in 1..Latest : versions'[i] = versions[i]
  BY DEF TypeOK, Latest

LEMMA BuiltVersion ==
    ASSUME TypeOK, NEW r \in Runs
    PROVE  /\ Built(r) \in Versions
           /\ Built(r).by = r /\ Built(r).code = run[r].code
           /\ run[r].key # None => Built(r).secret = run[r].key
  <1>1. run[r].key \in Keys \cup {None} /\ run[r].code \in 1..MaxCode
    BY Rows DEF RunRows
  <1>2. ASSUME Latest # 0 PROVE versions[Latest].secret \in Keys \cup {None}
    BY <1>2, Rows DEF Versions
  <1> DEFINE secret == IF run[r].key # None THEN run[r].key
                       ELSE IF Latest = 0 THEN None ELSE versions[Latest].secret
  <1>3. secret \in Keys \cup {None} /\ (run[r].key # None => secret = run[r].key)
    BY <1>1, <1>2
  <1>4. Built(r) = [code |-> run[r].code, secret |-> secret, bound |-> None, by |-> r]
    BY DEF Built
  <1> HIDE DEF secret
  <1> QED
    BY <1>1, <1>3, <1>4 DEF Versions

---------------------------------------------------------------------------
(* Most steps of a run only take it to its next step.                      *)
Working1 == {"schema", "import", "list", "apply", "verify", "admin", "user", "role",
             "state", "post", "candidate"}

\* A command fails; the smoke test is over; the run goes on to its next command.
Stops(r) ==
    /\ faults' = faults + 1 /\ applied' = applied
    /\ run[r].step \notin Finished \cup {"new", "smoke"}
    /\ \/ run'[r].step = "stopped"
       \/ run'[r].step = "rollback" /\ run[r].step # "rollback" /\ run[r].kind = "workflow"

Smoked(r) ==
    /\ UNCHANGED <<faults, applied>>
    /\ run[r].step = "smoke" /\ run'[r].step \in {"done", "rollback"}

Works(r) ==
    /\ run[r].step \in Working1
    /\ run'[r].step \in Working1 \cup {"promote", "deploy", "done", "failed"}
    /\ run'[r].step = "apply" => run'[r].next <= applied' + 1
    /\ run'[r].step \in Migrated => run[r].code <= applied'
    /\ run'[r].step \in {"candidate", "promote"} =>
         run[r].verified /\ run[r].kind \in {"local", "workflow"}
    /\ UNCHANGED faults /\ applied <= applied'

Steps1(r) ==
    /\ run' \in [Runs -> RunRows] /\ \A q \in Runs \ {r} : run'[q] = run[q]
    /\ run'[r].kind = run[r].kind /\ run'[r].code = run[r].code /\ run'[r].key = run[r].key
    /\ run'[r].previous = run[r].previous /\ run'[r].candidate = run[r].candidate
    /\ run'[r].verified = run[r].verified

Quiet(r) ==
    /\ Steps1(r)
    /\ UNCHANGED <<versions, live, credentials, manifest, crossed>>
    /\ Stops(r) \/ Smoked(r) \/ Works(r)

\* The run goes to the step s, with the place n in its list of migrations.
LEMMA StepTyped ==
    ASSUME TypeOK, NEW r \in Runs, NEW s \in Steps, NEW n \in 0..(MaxCode + 1),
           run' = [run EXCEPT ![r] = [run[r] EXCEPT !.step = s, !.next = n]]
    PROVE  Steps1(r) /\ run'[r].step = s /\ run'[r].next = n
  <1>1. PICK row \in RunRows : row = [run[r] EXCEPT !.step = s, !.next = n]
    <2>1. [run[r] EXCEPT !.step = s, !.next = n] \in RunRows
      BY Rows DEF RunRows
    <2> QED
      BY <2>1
  <1>2. run' \in [Runs -> RunRows] /\ run'[r] = row /\ \A q \in Runs \ {r} : run'[q] = run[q]
    BY <1>1, RunTyped
  <1> QED
    BY <1>1, <1>2, Rows DEF Steps1, RunRows

LEMMA GoTyped ==
    ASSUME TypeOK, NEW r \in Runs, NEW s \in Steps, Go(r, s)
    PROVE  Steps1(r) /\ run'[r].step = s /\ run'[r].next = run[r].next
  <1>1. run[r].next \in 0..(MaxCode + 1)
    BY Rows DEF RunRows
  <1>2. run' = [run EXCEPT ![r] = [run[r] EXCEPT !.step = s, !.next = run[r].next]]
    BY Rows DEF Go, RunRows
  <1> QED
    BY <1>1, <1>2, StepTyped

LEMMA AfterBootstrapStep ==
    ASSUME TypeOK, Paths, NEW r \in Runs, run[r].step \in {"admin", "post"}
    PROVE  /\ AfterBootstrap(r) \in {"done", "deploy", "candidate"}
           /\ AfterBootstrap(r) = "candidate" =>
                run[r].verified /\ run[r].kind \in {"local", "workflow"}
  <1>1. run[r].verified => run[r].kind \in {"local", "workflow"}
    BY DEF Paths
  <1>2. CASE run[r].kind = "bootstrap"
    BY <1>1, <1>2 DEF AfterBootstrap
  <1>3. CASE run[r].kind # "bootstrap" /\ run[r].verified
    BY <1>1, <1>3 DEF AfterBootstrap
  <1>4. CASE run[r].kind # "bootstrap" /\ ~run[r].verified
    BY <1>4 DEF AfterBootstrap
  <1> QED
    BY <1>2, <1>3, <1>4

QuietActions(r) ==
    \/ ReadSchema(r) \/ ImportInitial(r) \/ ListMigrations(r) \/ ApplyMigration(r)
    \/ VerifyMigrations(r) \/ CountAdministrators(r) \/ InsertUser(r) \/ InsertRole(r)
    \/ CompleteInstallation(r) \/ CheckAdministrator(r) \/ VerifyCandidate(r)
    \/ SmokeTest(r) \/ CommandFails(r)

(* The database and the counters of the model.                             *)
Counts ==
    /\ main \in 1..MaxCode /\ applied \in 0..MaxCode
    /\ users \in SUBSET Runs /\ admins \in SUBSET (Runs \cup {None})
    /\ complete \in BOOLEAN /\ faults \in 0..MaxFaults

LEMMA MigrationSteps ==
    ASSUME Records, SchemaInv, NEW r \in Runs,
           \/ ReadSchema(r) \/ ImportInitial(r) \/ ListMigrations(r) \/ ApplyMigration(r)
           \/ VerifyMigrations(r)
    PROVE  Quiet(r) /\ Counts'
  <1> USE DEF At, Installation, Deployment
  <1>1. /\ TypeOK /\ applied \in 0..MaxCode /\ applied \in Nat /\ run[r] \in RunRows
        /\ MaxCode \in Nat /\ MaxCode >= 1
    <2>1. TypeOK
      BY DEF Records
    <2>2. MaxCode \in Nat /\ MaxCode >= 1
      OBVIOUS
    <2>3. applied \in 0..MaxCode
      BY <2>1 DEF TypeOK
    <2> QED
      BY <2>1, <2>2, <2>3, Rows
  <1>2. run[r].code \in 1..MaxCode /\ run[r].next \in 0..(MaxCode + 1)
    BY <1>1 DEF RunRows
  <1>3. CASE ReadSchema(r)
    <2>1. PICK s \in {"import", "list"} : Go(r, s)
      BY <1>3 DEF ReadSchema
    <2>2. Steps1(r) /\ run'[r].step = s
      BY <1>1, <2>1, GoTyped DEF Steps
    <2>3. Works(r)
      BY <1>1, <1>3, <2>2 DEF Works, Working1, Migrated, ReadSchema
    <2> QED
      BY <1>1, <1>3, <2>2, <2>3 DEF Quiet, Counts, ReadSchema, TypeOK
  <1>4. CASE ImportInitial(r)
    <2>1. PICK s \in {"list", "failed"} : Go(r, s)
      BY <1>4 DEF ImportInitial
    <2>2. Steps1(r) /\ run'[r].step = s
      BY <1>1, <2>1, GoTyped DEF Steps
    <2>3. applied' \in 0..MaxCode /\ applied <= applied'
      BY <1>1, <1>4 DEF ImportInitial
    <2>4. Works(r)
      BY <1>1, <1>4, <2>2, <2>3 DEF Works, Working1, Migrated, ImportInitial
    <2> QED
      BY <1>1, <1>4, <2>2, <2>3, <2>4 DEF Quiet, Counts, ImportInitial, TypeOK
  <1>5. CASE ListMigrations(r)
    <2>1. PICK n \in 0..(MaxCode + 1) : n = applied + 1
      BY <1>1
    <2>2. run' = [run EXCEPT ![r] = [run[r] EXCEPT !.step = "apply", !.next = n]]
      BY <1>1, <1>5, <2>1, Rows DEF ListMigrations, RunRows
    <2>3. Steps1(r) /\ run'[r].step = "apply" /\ run'[r].next = n
      BY <1>1, <2>2, StepTyped DEF Steps
    <2>4. Works(r)
      BY <1>1, <1>5, <2>1, <2>3 DEF Works, Working1, Migrated, ListMigrations
    <2> QED
      BY <1>1, <1>5, <2>3, <2>4 DEF Quiet, Counts, ListMigrations, TypeOK
  <1>6. CASE ApplyMigration(r)
    <2>1. run[r].next <= applied + 1
      BY <1>6 DEF ApplyMigration, SchemaInv
    <2>2. CASE ~Pending(r)
      <3>1. PICK s \in {"admin", "verify"} : Go(r, s)
        BY <1>6, <2>2 DEF ApplyMigration, AfterMigrate
      <3>2. Steps1(r) /\ run'[r].step = s
        BY <1>1, <3>1, GoTyped DEF Steps
      <3>3. run[r].code <= applied
        BY <1>1, <1>2, <2>1, <2>2 DEF Pending
      <3>4. Works(r)
        BY <1>1, <1>6, <2>2, <3>2, <3>3 DEF Works, Working1, Migrated, ApplyMigration
      <3> QED
        BY <1>1, <1>6, <2>2, <3>2, <3>4 DEF Quiet, Counts, ApplyMigration, TypeOK
    <2>3. CASE Pending(r) /\ applied + 1 = run[r].next
      <3>1. PICK n \in 0..(MaxCode + 1) : n = run[r].next + 1
        BY <1>1, <1>2, <2>3 DEF Pending
      <3>2. run' = [run EXCEPT ![r] = [run[r] EXCEPT !.step = "apply", !.next = n]]
        <4>1. run' = [run EXCEPT ![r] = [run[r] EXCEPT !.next = n]] /\ run[r].step = "apply"
          BY <1>6, <2>3, <3>1 DEF ApplyMigration
        <4>2. [run[r] EXCEPT !.next = n] = [run[r] EXCEPT !.step = "apply", !.next = n]
          BY <1>1, <4>1 DEF RunRows
        <4> QED
          BY <4>1, <4>2
      <3>3. Steps1(r) /\ run'[r].step = "apply" /\ run'[r].next = n
        BY <1>1, <3>2, StepTyped DEF Steps
      <3>4. applied' = run[r].next /\ applied' \in 0..MaxCode
        BY <1>1, <1>2, <1>6, <2>3 DEF ApplyMigration, Pending
      <3>5. Works(r)
        BY <1>1, <1>2, <1>6, <2>3, <3>1, <3>3, <3>4 DEF Works, Working1, Migrated, ApplyMigration
      <3> QED
        BY <1>1, <1>6, <3>3, <3>4, <3>5 DEF Quiet, Counts, ApplyMigration, TypeOK
    <2>4. CASE Pending(r) /\ applied + 1 # run[r].next
      <3>1. Steps1(r) /\ run'[r].step = "failed"
        BY <1>1, <1>6, <2>4, GoTyped DEF Steps, ApplyMigration
      <3>2. Works(r)
        BY <1>1, <1>6, <2>4, <3>1 DEF Works, Working1, Migrated, ApplyMigration
      <3> QED
        BY <1>1, <1>6, <2>4, <3>1, <3>2 DEF Quiet, Counts, ApplyMigration, TypeOK
    <2> QED
      BY <2>2, <2>3, <2>4
  <1>7. CASE VerifyMigrations(r)
    <2>1. PICK s \in {"admin", "failed"} :
            Go(r, s) /\ (s = "admin" => run[r].code <= applied)
      BY <1>7 DEF VerifyMigrations
    <2>2. Steps1(r) /\ run'[r].step = s
      BY <1>1, <2>1, GoTyped DEF Steps
    <2>3. Works(r)
      BY <1>1, <1>7, <2>1, <2>2 DEF Works, Working1, Migrated, VerifyMigrations
    <2> QED
      BY <1>1, <1>7, <2>2, <2>3 DEF Quiet, Counts, VerifyMigrations, TypeOK
  <1> QED
    BY <1>3, <1>4, <1>5, <1>6, <1>7

LEMMA OtherQuietSteps ==
    ASSUME Records, SchemaInv, NEW r \in Runs,
           \/ CountAdministrators(r) \/ InsertUser(r) \/ InsertRole(r)
           \/ CompleteInstallation(r) \/ CheckAdministrator(r) \/ VerifyCandidate(r)
           \/ SmokeTest(r) \/ CommandFails(r)
    PROVE  Quiet(r) /\ Counts'
  <1> USE DEF At, Installation, Deployment
  <1>1. /\ TypeOK /\ applied \in Nat /\ run[r] \in RunRows
        /\ Paths /\ Builds
    BY Rows DEF Records, TypeOK
  <1>2. /\ run[r].step \in Migrated => (run[r].kind # "initial" => run[r].code <= applied)
        /\ run[r].step \in Working1 => run[r].kind # "initial"
    BY <1>1 DEF Paths, SchemaInv, Working1
  <1>3. ASSUME NEW s \in {"user", "role", "state", "post", "deploy", "done", "failed",
                          "candidate", "promote"},
               Go(r, s), run[r].step \in {"admin", "user", "role", "state", "post", "candidate"},
               s \in {"candidate", "promote"} =>
                 run[r].verified /\ run[r].kind \in {"local", "workflow"},
               UNCHANGED <<versions, live, applied, credentials, manifest, crossed, faults>>
        PROVE  Quiet(r)
    <2>1. Steps1(r) /\ run'[r].step = s
      BY <1>1, <1>3, GoTyped DEF Steps
    <2>2. Works(r)
      BY <1>1, <1>2, <1>3, <2>1 DEF Works, Working1, Migrated
    <2> QED
      BY <1>3, <2>1, <2>2 DEF Quiet
  <1>4. CASE CountAdministrators(r)
    <2>1. PICK s \in {"user", "done", "deploy", "candidate"} :
             Go(r, s) /\ (s = "candidate" =>
               run[r].verified /\ run[r].kind \in {"local", "workflow"})
      BY <1>1, <1>4, AfterBootstrapStep DEF CountAdministrators
    <2>2. complete' \in BOOLEAN
      BY <1>1, <1>4 DEF CountAdministrators, TypeOK
    <2> QED
      BY <1>1, <1>3, <1>4, <2>1, <2>2 DEF CountAdministrators, Counts, TypeOK
  <1>5. CASE InsertUser(r)
    <2>1. PICK s \in {"role", "failed"} : Go(r, s)
      BY <1>5 DEF InsertUser
    <2>2. users' \in SUBSET Runs
      BY <1>1, <1>5 DEF InsertUser, TypeOK
    <2> QED
      BY <1>1, <1>3, <1>5, <2>1, <2>2 DEF InsertUser, Counts, TypeOK
  <1>6. CASE InsertRole(r)
    <2>1. admins' \in SUBSET (Runs \cup {None})
      BY <1>1, <1>6 DEF InsertRole, TypeOK
    <2> QED
      BY <1>1, <1>3, <1>6, <2>1 DEF InsertRole, Counts, TypeOK
  <1>7. CASE CompleteInstallation(r)
    <2>1. complete' \in BOOLEAN
      BY <1>1, <1>7 DEF CompleteInstallation, TypeOK
    <2> QED
      BY <1>1, <1>3, <1>7, <2>1 DEF CompleteInstallation, Counts, TypeOK
  <1>8. CASE CheckAdministrator(r)
    <2>1. PICK s \in {"failed", "done", "deploy", "candidate"} :
             Go(r, s) /\ (s = "candidate" =>
               run[r].verified /\ run[r].kind \in {"local", "workflow"})
      BY <1>1, <1>8, AfterBootstrapStep DEF CheckAdministrator
    <2> QED
      BY <1>1, <1>3, <1>8, <2>1 DEF CheckAdministrator, Counts, TypeOK
  <1>9. CASE VerifyCandidate(r)
    <2>1. PICK s \in {"promote", "failed"} : Go(r, s)
      BY <1>9 DEF VerifyCandidate
    <2>2. run[r].verified /\ run[r].kind \in {"local", "workflow"}
      BY <1>1, <1>9 DEF VerifyCandidate, Builds, Paths
    <2> QED
      BY <1>1, <1>3, <1>9, <2>1, <2>2 DEF VerifyCandidate, Counts, TypeOK
  <1>10. CASE SmokeTest(r)
    <2>1. PICK s \in {"done", "rollback"} : Go(r, s)
      BY <1>10 DEF SmokeTest
    <2>2. Steps1(r) /\ run'[r].step = s
      BY <1>1, <2>1, GoTyped DEF Steps
    <2> QED
      BY <1>1, <1>10, <2>2 DEF Quiet, Smoked, SmokeTest, Counts, TypeOK
  <1>11. CASE CommandFails(r)
    <2>1. PICK s \in {"rollback", "stopped"} : Go(r, s) /\
             (s = "rollback" => run[r].kind = "workflow" /\ run[r].step # "rollback")
      BY <1>11 DEF CommandFails
    <2>2. Steps1(r) /\ run'[r].step = s
      BY <1>1, <2>1, GoTyped DEF Steps
    <2>3. faults' = faults + 1 /\ faults' \in 0..MaxFaults
      BY <1>1, <1>11 DEF CommandFails, TypeOK
    <2> QED
      BY <1>1, <1>11, <2>1, <2>2, <2>3 DEF Quiet, Stops, CommandFails, Counts, TypeOK
  <1> QED
    BY <1>4, <1>5, <1>6, <1>7, <1>8, <1>9, <1>10, <1>11


---------------------------------------------------------------------------
(* Such a step keeps every invariant but the administrator's.              *)
LEMMA QuietRecords ==
    ASSUME Records, NEW r \in Runs, Quiet(r), Counts'
    PROVE  Records'
  <1>1. /\ TypeOK /\ Indices /\ Builds /\ Paths /\ Manifests
        /\ Steps1(r) /\ UNCHANGED <<versions, live, manifest, credentials, crossed>>
        /\ Stops(r) \/ Smoked(r) \/ Works(r)
    BY DEF Records, Quiet
  <1>2. /\ run'[r].step # "new"
        /\ run[r].step # "new"
        /\ run'[r].step = "candidate" \/ run'[r].step = "promote" => run[r].verified
        /\ run'[r].step \in {"candidate", "promote"} => run[r].kind \in {"local", "workflow"}
        /\ run'[r].step \notin {"preflight", "status", "mark", "check", "upload", "smoke"}
        /\ run'[r].step = "rollback" => run[r].kind = "workflow"
        /\ run[r].kind = "initial" => run'[r].step = "stopped"
    BY <1>1 DEF Stops, Smoked, Works, Working1, Paths, Finished
  <1>3. /\ Latest' = Latest
        /\ \A q \in Runs :
             /\ run'[q].previous = run[q].previous /\ run'[q].candidate = run[q].candidate
             /\ run'[q].kind = run[q].kind /\ run'[q].code = run[q].code
             /\ run'[q].verified = run[q].verified /\ manifest'[q] = manifest[q]
             /\ q # r => run'[q] = run[q]
    BY <1>1 DEF Steps1, Latest
  <1>4. TypeOK'
    <2>1. run' \in [Runs -> RunRows]
      BY <1>1 DEF Steps1
    <2> QED
      BY <1>1, <1>3, <2>1 DEF TypeOK, Counts, RunRows
  <1>5. Indices'
    BY <1>1, <1>3 DEF Indices
  <1>6. Builds'
    <2>1. ASSUME NEW i \in 1..Latest, versions[i].by # None
          PROVE  run'[versions[i].by].step # "new"
                 /\ versions[i].code = run'[versions[i].by].code
      <3>1. versions[i].by \in Runs
        BY <1>1, <2>1, Rows DEF Versions
      <3> QED
        BY <1>1, <1>2, <1>3, <2>1, <3>1 DEF Builds
    <2>2. ASSUME NEW q \in Runs
          PROVE  /\ run'[q].candidate # 0 => versions[run'[q].candidate].by = q
                 /\ run'[q].verified => run'[q].candidate # 0
                 /\ run'[q].step \in {"candidate", "promote"} => run'[q].verified
      BY <1>1, <1>2, <1>3, <2>2 DEF Builds
    <2> QED
      BY <1>1, <1>3, <2>1, <2>2 DEF Builds
  <1>7. Paths'
    BY <1>1, <1>2, <1>3 DEF Paths
  <1>8. Manifests'
    <2>1. ASSUME ~manifest[r].promoted,
                 run[r].step \in Looking \cup {"rollback", "failed", "stopped"}
          PROVE  run'[r].step \in {"rollback", "stopped"}
      BY <1>1, <2>1 DEF Stops, Smoked, Works, Working1, Looking, Finished
    <2>2. ASSUME manifest[r].promoted
          PROVE  run'[r].step \in {"rollback"} \cup Finished
      BY <1>1, <2>2 DEF Stops, Smoked, Works, Working1, Manifests, Finished
    <2> QED
      BY <1>1, <1>2, <1>3, <2>1, <2>2 DEF Manifests
  <1> QED
    BY <1>4, <1>5, <1>6, <1>7, <1>8 DEF Records

LEMMA QuietSchema ==
    ASSUME Records, SchemaInv, NEW r \in Runs, Quiet(r), Counts'
    PROVE  SchemaInv'
  <1>1. /\ TypeOK /\ Indices /\ Builds /\ Paths
        /\ Steps1(r) /\ UNCHANGED <<versions, live, manifest>>
        /\ Stops(r) \/ Smoked(r) \/ Works(r)
        /\ \A i \in 1..Latest : versions[i] \in Versions
        /\ live \in 0..Latest /\ applied \in Nat /\ applied' \in Nat
        /\ Latest \in Nat
    BY Rows DEF Records, Quiet, Counts
  <1>2. applied <= applied'
    BY <1>1 DEF Stops, Smoked, Works
  <1>3. \A q \in Runs :
             /\ run'[q].previous = run[q].previous /\ run'[q].kind = run[q].kind
             /\ run'[q].code = run[q].code /\ manifest'[q] = manifest[q]
             /\ q # r => run'[q] = run[q]
    BY <1>1 DEF Steps1
  <1>4. ASSUME NEW i \in 0..Latest, Served(i)
        PROVE  Served(i)'
    <2>1. CASE i # 0 /\ versions[i].by # None
      <3>1. i \in 1..Latest
        BY <1>1, <2>1
      <3>2. versions[i].by \in Runs /\ versions[i].code \in Nat
        BY <1>1, <2>1, <3>1 DEF Versions
      <3> QED
        BY <1>1, <1>2, <1>3, <1>4, <3>2 DEF Served
    <2> QED
      BY <1>1, <2>1 DEF Served
  <1>5. Served(live)'
    BY <1>1, <1>4 DEF SchemaInv, Served
  <1>6. ASSUME NEW q \in Runs
        PROVE  Served(run[q].previous)' /\ Served(manifest[q].previous)'
    <2>1. run[q].previous \in 0..Latest /\ manifest[q].previous \in 0..Latest
      BY <1>1, Rows DEF Indices, RunRows
    <2>2. Served(run[q].previous) /\ Served(manifest[q].previous)
      BY DEF SchemaInv
    <2>3. PICK i \in 0..Latest, j \in 0..Latest : i = run[q].previous /\ j = manifest[q].previous
      BY <2>1
    <2>4. Served(i)' /\ Served(j)'
      BY <1>4, <2>2, <2>3
    <2> QED
      BY <1>3, <2>3, <2>4 DEF Served
  <1>7. ASSUME NEW q \in Runs
        PROVE  /\ run'[q].step = "apply" => run'[q].next <= applied' + 1
               /\ run'[q].step \in Migrated /\ run'[q].kind # "initial"
                    => run'[q].code <= applied'
    <2>1. CASE q # r
      BY <1>1, <1>2, <1>3, <2>1, Rows DEF SchemaInv, RunRows
    <2>2. CASE q = r
      BY <1>1, <1>2, <1>3, <2>2 DEF Stops, Smoked, Works, Migrated
    <2> QED
      BY <2>1, <2>2
  <1> QED
    BY <1>5, <1>6, <1>7 DEF SchemaInv

LEMMA QuietRollback ==
    ASSUME Records, RollbackInv, NEW r \in Runs, Quiet(r), Counts'
    PROVE  RollbackInv'
  <1>1. /\ TypeOK /\ Manifests /\ Steps1(r) /\ UNCHANGED <<versions, live, manifest>>
        /\ Stops(r) \/ Smoked(r) \/ Works(r)
        /\ faults \in Nat /\ faults' \in Nat
    <2>1. TypeOK /\ Manifests /\ faults' \in 0..MaxFaults
      BY DEF Records, Counts
    <2> QED
      BY <2>1, Rows DEF Quiet
  <1>2. faults <= faults' /\ (faults > 0 => faults' > 0)
    BY <1>1 DEF Stops, Smoked, Works
  <1>3. \A q \in Runs :
             /\ run'[q].previous = run[q].previous /\ run'[q].kind = run[q].kind
             /\ manifest'[q] = manifest[q]
             /\ q # r => run'[q] = run[q]
    BY <1>1 DEF Steps1
  <1>4. /\ Working(r)' => Working(r)
        /\ run'[r].step \notin {"mark", "smoke", "rollback"} =>
             run[r].step \notin {"mark", "smoke"} \/ run'[r].step \in {"stopped", "done"}
        /\ run'[r].step = "rollback" =>
             (run[r].step = "smoke" /\ manifest[r].promoted) \/ faults' > 0
        /\ run'[r].step = "failed" => run[r].step \in Working1
    BY <1>1, <1>3 DEF Working, Stops, Smoked, Works, Working1, Finished, Manifests
  <1>5. \A q \in Runs : NoTarget(q) => NoTarget(q)'
    BY <1>1, <1>3 DEF NoTarget, NotBy
  <1>6. \A q \in Runs : NotBy(live, q) => NotBy(live, q)'
    BY <1>1 DEF NotBy
  <1>7. \A q \in Runs : (run[q].step = "failed" \/ Working(q)) => (Excused(q) => Excused(q)')
    BY <1>1, <1>2, <1>3 DEF Excused
  <1>8. \A q, p \in Runs : Working(q)' /\ Working(p)' => q = p
    BY <1>3, <1>4 DEF RollbackInv, Working
  <1>9. ASSUME NEW q \in Runs, Working(q)'
        PROVE  /\ NoTarget(q)'
               /\ run'[q].step \notin {"mark", "smoke", "rollback"} => NotBy(live, q)'
               /\ run'[q].step = "rollback" => manifest'[q].promoted \/ faults' > 0
    <2>1. Working(q)
      BY <1>3, <1>4, <1>9 DEF Working
    <2>2. CASE q # r
      BY <1>1, <1>2, <1>3, <1>5, <1>6, <2>1, <2>2 DEF RollbackInv
    <2>3. CASE q = r
      <3>1. run'[r].step \notin {"mark", "smoke", "rollback"}
              => run[r].step \notin {"mark", "smoke", "rollback"}
        BY <1>1, <1>9, <2>3 DEF Working, Stops, Smoked, Works, Working1, Finished
      <3> QED
        BY <1>1, <1>3, <1>4, <1>5, <1>6, <2>1, <2>3, <3>1 DEF RollbackInv
    <2> QED
      BY <2>2, <2>3
  <1>10. ASSUME NEW q \in Runs, run'[q].kind = "workflow", run'[q].step = "failed", ~Excused(q)'
         PROVE  NoTarget(q)' /\ NotBy(live, q)'
    <2>1. CASE q # r
      <3>1. run[q].kind = "workflow" /\ run[q].step = "failed"
        BY <1>3, <1>10, <2>1
      <3>2. ~Excused(q)
        BY <1>7, <1>10, <3>1
      <3> QED
        BY <1>5, <1>6, <3>1, <3>2 DEF RollbackInv
    <2>2. CASE q = r
      <3>1. Working(r) /\ run[r].step \notin {"mark", "smoke", "rollback"}
        BY <1>3, <1>4, <1>10, <2>2 DEF Working, Working1, Finished
      <3> QED
        BY <1>5, <1>6, <2>2, <3>1 DEF RollbackInv
    <2> QED
      BY <2>1, <2>2
  <1> QED
    BY <1>8, <1>9, <1>10 DEF RollbackInv

LEMMA QuietKeys ==
    ASSUME Records, KeyInv, NEW r \in Runs, Quiet(r)
    PROVE  KeyInv'
  <1>1. /\ TypeOK /\ Manifests /\ Steps1(r) /\ UNCHANGED <<manifest, credentials, crossed>>
        /\ Stops(r) \/ Smoked(r) \/ Works(r)
    BY DEF Records, Quiet
  <1>2. \A q \in Runs :
             /\ run'[q].previous = run[q].previous /\ run'[q].kind = run[q].kind
             /\ run'[q].key = run[q].key
             /\ q # r => run'[q] = run[q]
    BY <1>1 DEF Steps1
  <1>3. Checked(r)' => Checked(r)
    BY <1>1, <1>2 DEF Checked, Relying, Stops, Smoked, Works, Working1, Finished, Manifests
  <1>4. \A q \in Runs : Checked(q)' => Checked(q)
    BY <1>1, <1>2, <1>3 DEF Checked, Relying
  <1> QED
    BY <1>1, <1>2, <1>4 DEF KeyInv

---------------------------------------------------------------------------
(* All the invariants but the administrator's; a run's first step.         *)
Safe == Records /\ SchemaInv /\ RollbackInv /\ KeyInv

LEMMA StartSafe ==
    ASSUME Safe, NEW r \in Runs, Start(r)
    PROVE  Safe'
  <1>1. /\ TypeOK /\ Indices /\ Builds /\ Paths /\ Manifests /\ At(r, "new")
        /\ run[r] \in RunRows /\ run[r].step = "new" /\ run[r].previous = 0 /\ ~run[r].verified
        /\ UNCHANGED <<main, versions, live, applied, users, admins, complete, credentials,
                       manifest, crossed, faults>>
        /\ main \in 1..MaxCode
    BY Rows DEF Safe, Records, Start, Installation, At, Paths, TypeOK
  <1>2. PICK kind \in Kinds, code \in 1..main :
          /\ kind = "workflow" => \A q \in Runs : run[q].kind = "workflow"
                                      => run[q].step \in Finished \cup {"new"}
          /\ run' = [run EXCEPT ![r].kind = kind, ![r].code = code,
                                ![r].step = FirstStep(kind)]
    BY DEF Start
  <1>3. PICK s \in {"deploy", "secrets", "status", "preflight"} :
          /\ s = FirstStep(kind) /\ (s = "deploy" <=> kind = "initial")
          /\ s = "secrets" => kind = "bootstrap"
          /\ s \in {"status", "preflight"} => kind \in {"local", "workflow"}
    BY DEF FirstStep, Kinds
  <1>4. code \in 1..MaxCode /\ s \in Steps
    BY <1>1 DEF Steps
  <1>5. PICK row \in RunRows : row = [run[r] EXCEPT !.kind = kind, !.code = code, !.step = s]
    <2>1. [run[r] EXCEPT !.kind = kind, !.code = code, !.step = s] \in RunRows
      BY <1>1, <1>4 DEF RunRows
    <2> QED
      BY <2>1
  <1>6. run' = [run EXCEPT ![r] = row]
    BY <1>1, <1>2, <1>3, <1>5, Rows
  <1>7. /\ run' \in [Runs -> RunRows] /\ run'[r] = row
        /\ \A q \in Runs \ {r} : run'[q] = run[q]
    BY <1>1, <1>6, RunTyped
  <1>8. /\ row.step = s /\ row.kind = kind /\ row.code = code /\ row.previous = 0
        /\ row.candidate = run[r].candidate /\ row.verified = run[r].verified
        /\ row.key = run[r].key
    BY <1>1, <1>5 DEF RunRows
  <1>9. \A i \in 1..Latest : versions[i].by # r
    BY <1>1 DEF Builds
  <1>10. \A i \in 1..Latest : versions[i].by \in Runs \cup {None} /\ versions[i].code \in Nat
    BY <1>1, Rows DEF Versions
  <1>11. Latest' = Latest /\ Latest \in Nat /\ live \in 0..Latest
    BY <1>1, Rows DEF Latest
  <1>12. Records'
    <2>1. TypeOK'
      BY <1>1, <1>7, <1>11 DEF TypeOK, RunRows
    <2>2. Indices'
      BY <1>1, <1>7, <1>8, <1>11 DEF Indices
    <2>3. Builds'
      <3>1. ASSUME NEW i \in 1..Latest, versions[i].by # None
            PROVE  run'[versions[i].by].step # "new"
                   /\ versions[i].code = run'[versions[i].by].code
        BY <1>1, <1>7, <1>9, <1>10, <3>1 DEF Builds
      <3>2. ASSUME NEW q \in Runs
            PROVE  /\ run'[q].candidate # 0 => versions[run'[q].candidate].by = q
                   /\ run'[q].verified => run'[q].candidate # 0
                   /\ run'[q].step \in {"candidate", "promote"} => run'[q].verified
        BY <1>1, <1>3, <1>7, <1>8, <3>2 DEF Builds
      <3> QED
        BY <1>1, <1>11, <3>1, <3>2 DEF Builds
    <2>4. Paths'
      BY <1>1, <1>3, <1>7, <1>8 DEF Paths
    <2>5. Manifests'
      BY <1>1, <1>3, <1>7, <1>8 DEF Manifests, Looking, Finished
    <2> QED
      BY <2>1, <2>2, <2>3, <2>4, <2>5 DEF Records
  <1>13. ASSUME NEW i \in 0..Latest, Served(i)
         PROVE  Served(i)'
    <2>1. CASE i # 0 /\ versions[i].by # None
      <3>1. i \in 1..Latest
        BY <1>11, <2>1
      <3> QED
        BY <1>1, <1>7, <1>9, <1>10, <1>13, <3>1, <2>1 DEF Served
    <2> QED
      BY <1>1, <2>1 DEF Served
  <1>14. SchemaInv'
    <2>1. Served(live)'
      BY <1>1, <1>11, <1>13 DEF SchemaInv, Safe, Served
    <2>2. ASSUME NEW q \in Runs
          PROVE  Served(run[q].previous)' /\ Served(manifest[q].previous)'
      <3>1. run[q].previous \in 0..Latest /\ manifest[q].previous \in 0..Latest
        BY <1>1, <1>11, Rows DEF Indices, RunRows
      <3>2. PICK i \in 0..Latest, j \in 0..Latest :
              i = run[q].previous /\ j = manifest[q].previous
        BY <3>1
      <3>3. Served(i)' /\ Served(j)'
        BY <1>13, <3>2 DEF SchemaInv, Safe
      <3>4. run'[q].previous = i /\ manifest'[q].previous = j
        BY <1>1, <1>7, <1>8, <3>2
      <3> QED
        BY <3>3, <3>4 DEF Served
    <2>3. ASSUME NEW q \in Runs
          PROVE  /\ run'[q].step = "apply" => run'[q].next <= applied' + 1
                 /\ run'[q].step \in Migrated /\ run'[q].kind # "initial"
                      => run'[q].code <= applied'
      <3>1. CASE q # r
        BY <1>1, <1>7, <3>1 DEF SchemaInv, Safe
      <3>2. CASE q = r
        BY <1>3, <1>7, <1>8, <3>2 DEF Migrated
      <3> QED
        BY <3>1, <3>2
    <2> QED
      BY <2>1, <2>2, <2>3 DEF SchemaInv
  <1>15. RollbackInv'
    <2>1. \A q \in Runs : Working(q)' /\ q # r => Working(q)
      BY <1>7 DEF Working
    <2>2. ASSUME Working(r)'
          PROVE  \A q \in Runs : ~Working(q) \/ run[q].step = "new"
      BY <1>2, <1>7, <1>8, <2>2 DEF Working
    <2>3. \A q \in Runs : run[q].step = "new" => run[q].kind = "local"
      BY <1>1 DEF Paths
    <2>4. \A q, p \in Runs : Working(q)' /\ Working(p)' => q = p
      BY <2>1, <2>2, <2>3 DEF Working, RollbackInv, Safe
    <2>5. ASSUME NEW q \in Runs
          PROVE  q # r /\ NoTarget(q) => NoTarget(q)'
      <3>1. ASSUME NEW p \in Runs, q # r, NoTarget(q), run'[p].kind = "workflow"
            PROVE  NotBy(run'[p].previous, q) /\ NotBy(manifest'[p].previous, q)
        <4>1. CASE p # r
          BY <1>1, <1>7, <3>1, <4>1 DEF NoTarget
        <4>2. CASE p = r
          <5>1. run'[r].previous = 0 /\ manifest'[r].previous = manifest[r].previous
                /\ manifest[r].previous = 0
            BY <1>1, <1>7, <1>8 DEF Manifests, Looking, Finished
          <5> QED
            BY <4>2, <5>1 DEF NotBy
        <4> QED
          BY <4>1, <4>2
      <3> QED
        BY <1>1, <3>1 DEF NoTarget, NotBy
    <2>6. NoTarget(r)' /\ NotBy(live, r)'
      <3>1. ASSUME NEW i \in 0..Latest
            PROVE  i # 0 => versions'[i].by # r
        BY <1>1, <1>9, <1>11
      <3>2. ASSUME NEW p \in Runs
            PROVE  run'[p].previous \in 0..Latest /\ manifest'[p].previous \in 0..Latest
        BY <1>1, <1>7, <1>8, <1>11, Rows DEF Indices, RunRows
      <3> QED
        BY <1>1, <1>11, <3>1, <3>2 DEF NoTarget, NotBy
    <2>7. \A q \in Runs : q # r => (Excused(q) => Excused(q)') /\ (NotBy(live, q) => NotBy(live, q)')
      BY <1>1, <1>7 DEF Excused, NotBy
    <2>8. ASSUME NEW q \in Runs, Working(q)'
          PROVE  /\ NoTarget(q)'
                 /\ run'[q].step \notin {"mark", "smoke", "rollback"} => NotBy(live, q)'
                 /\ run'[q].step = "rollback" => manifest'[q].promoted \/ faults' > 0
      <3>1. CASE q # r
        BY <1>1, <1>7, <2>1, <2>5, <2>7, <2>8, <3>1 DEF RollbackInv, Safe
      <3>2. CASE q = r
        BY <1>3, <1>7, <1>8, <2>6, <3>2
      <3> QED
        BY <3>1, <3>2
    <2>9. ASSUME NEW q \in Runs, run'[q].kind = "workflow", run'[q].step = "failed", ~Excused(q)'
          PROVE  NoTarget(q)' /\ NotBy(live, q)'
      <3>1. q # r
        BY <1>3, <1>7, <1>8, <2>9
      <3> QED
        BY <1>7, <2>5, <2>7, <2>9, <3>1 DEF RollbackInv, Safe
    <2> QED
      BY <2>4, <2>8, <2>9 DEF RollbackInv
  <1>16. KeyInv'
    <2>1. Checked(r)' => FALSE
      BY <1>3, <1>7, <1>8 DEF Checked, Relying, Finished
    <2>2. \A q \in Runs \ {r} : Checked(q)' => Checked(q)
      BY <1>1, <1>7 DEF Checked, Relying
    <2> QED
      BY <1>1, <1>7, <2>1, <2>2 DEF KeyInv, Safe
  <1> QED
    BY <1>12, <1>14, <1>15, <1>16 DEF Safe

---------------------------------------------------------------------------
(* A run that touches no other run, moves live to a version of its own or  *)
(* to the one it goes back to, and adds a version of its own at most.      *)
Frame(r) ==
    /\ run' \in [Runs -> RunRows]
    /\ manifest' \in [Runs -> [promoted : BOOLEAN, previous : 0..MaxVersions]]
    /\ \A q \in Runs \ {r} : run'[q] = run[q] /\ manifest'[q] = manifest[q]
    /\ run'[r].kind = run[r].kind /\ run'[r].code = run[r].code
    /\ run[r].step # "new" /\ run'[r].step # "new"
    /\ UNCHANGED <<main, applied, users, admins, complete, credentials>>
    /\ faults' \in 0..MaxFaults /\ faults <= faults'
    /\ versions' \in Seq(Versions) /\ Latest <= Latest' /\ Latest' <= MaxVersions
    /\ \A i \in 1..Latest : versions'[i] = versions[i]
    /\ Latest' # Latest => /\ Latest' = Latest + 1
                           /\ versions'[Latest'].by = r
                           /\ versions'[Latest'].code = run[r].code
    /\ run'[r].previous \in {run[r].previous, live, 0}
    /\ manifest'[r].previous \in {manifest[r].previous, run[r].previous}
    /\ run'[r].candidate \in {run[r].candidate, Latest'}
    /\ \/ live' = live
       \/ live' = manifest[r].previous /\ Working(r)
       \/ live' \in 1..Latest' /\ versions'[live'].by = r
          /\ (run[r].kind = "initial" \/ run[r].code <= applied)
    /\ crossed \subseteq crossed' /\ crossed' \subseteq Runs

(* What Builds, Paths and Manifests say of one run.                        *)
RowRight(r) ==
    /\ run[r].candidate # 0 => versions[run[r].candidate].by = r
    /\ run[r].verified => run[r].candidate # 0
    /\ run[r].step \in {"candidate", "promote"} => run[r].verified
    /\ run[r].verified => run[r].kind \in {"local", "workflow"}
    /\ run[r].kind = "initial" => run[r].step \in {"deploy", "done", "stopped"}
    /\ run[r].step \in {"smoke", "rollback"} => run[r].kind = "workflow"
    /\ run[r].step \in {"preflight", "status", "check", "upload", "candidate", "promote",
                       "mark"} => run[r].kind \in {"local", "workflow"}
    /\ \/ manifest[r].previous = run[r].previous
       \/ /\ ~manifest[r].promoted /\ run[r].kind \in {"local", "workflow"}
          /\ run[r].step \in Looking \cup {"rollback", "failed", "stopped"}
    /\ manifest[r].promoted => run[r].step \in {"smoke", "rollback"} \cup Finished
    /\ run[r].step = "smoke" => manifest[r].promoted

LEMMA FrameKinds ==
    ASSUME Records, NEW r \in Runs, Frame(r)
    PROVE  /\ \A q \in Runs : run'[q].kind = run[q].kind /\ run'[q].code = run[q].code
           /\ \A i \in 1..Latest : versions[i].by \in Runs \cup {None} /\ versions[i].code \in Nat
           /\ Latest \in Nat /\ Latest' \in Nat /\ live \in 0..Latest /\ live' \in 0..Latest'
           /\ \A q \in Runs : /\ run[q].previous \in 0..Latest /\ run[q].candidate \in 0..Latest
                              /\ manifest[q].previous \in 0..Latest
           /\ applied \in Nat /\ applied' = applied
           /\ \A i \in 0..Latest : i \in 0..Latest'
  <1>1. TypeOK /\ Indices
    BY DEF Records
  <1>2. /\ \A q \in Runs : run'[q].kind = run[q].kind /\ run'[q].code = run[q].code
        /\ \A i \in 1..Latest : versions[i].by \in Runs \cup {None} /\ versions[i].code \in Nat
        /\ Latest \in Nat /\ live \in 0..Latest /\ applied \in Nat /\ applied' = applied
    <2>1. \A q \in Runs : run'[q].kind = run[q].kind /\ run'[q].code = run[q].code
      BY DEF Frame
    <2>2. \A i \in 1..Latest : versions[i].by \in Runs \cup {None} /\ versions[i].code \in Nat
      BY <1>1, Rows DEF Versions
    <2>3. applied' = applied
      BY DEF Frame
    <2> QED
      BY <1>1, <2>1, <2>2, <2>3, Rows
  <1>3. Latest' \in Nat /\ Latest <= Latest'
    BY DEF Frame, Latest
  <1>4. \A q \in Runs : /\ run[q].previous \in 0..Latest /\ run[q].candidate \in 0..Latest
                        /\ manifest[q].previous \in 0..Latest
    BY <1>1, Rows DEF Indices, RunRows
  <1>5. live' \in 0..Latest'
    BY <1>2, <1>3, <1>4 DEF Frame
  <1> QED
    BY <1>2, <1>3, <1>4, <1>5

LEMMA FrameRecords ==
    ASSUME Records, NEW r \in Runs, Frame(r), RowRight(r)'
    PROVE  Records'
  <1>1. /\ TypeOK /\ Indices /\ Builds /\ Paths /\ Manifests
        /\ \A q \in Runs \ {r} : run'[q] = run[q] /\ manifest'[q] = manifest[q]
        /\ run[r].step # "new" /\ run'[r].step # "new"
        /\ \A i \in 1..Latest : versions'[i] = versions[i]
    BY DEF Records, Frame
  <1>2. /\ \A q \in Runs : run'[q].kind = run[q].kind /\ run'[q].code = run[q].code
        /\ \A i \in 1..Latest : versions[i].by \in Runs \cup {None}
        /\ Latest \in Nat /\ Latest' \in Nat /\ live \in 0..Latest /\ live' \in 0..Latest'
        /\ \A q \in Runs : /\ run[q].previous \in 0..Latest /\ run[q].candidate \in 0..Latest
                           /\ manifest[q].previous \in 0..Latest
        /\ \A i \in 0..Latest : i \in 0..Latest'
    BY FrameKinds
  <1>3. TypeOK'
    <2>1. main' \in 1..MaxCode /\ applied' \in 0..MaxCode /\ users' \in SUBSET Runs
          /\ admins' \in SUBSET (Runs \cup {None}) /\ complete' \in BOOLEAN
          /\ credentials' \in SUBSET (Keys \cup {LegacyKey})
      BY <1>1 DEF TypeOK, Frame
    <2>2. /\ run' \in [Runs -> RunRows] /\ faults' \in 0..MaxFaults
          /\ manifest' \in [Runs -> [promoted : BOOLEAN, previous : 0..MaxVersions]]
          /\ versions' \in Seq(Versions) /\ Latest' <= MaxVersions
          /\ crossed' \in SUBSET Runs
      BY DEF Frame
    <2> QED
      BY <1>2, <2>1, <2>2 DEF TypeOK, RunRows, Latest
  <1>4. Indices'
    <2>1. ASSUME NEW q \in Runs
          PROVE  /\ run'[q].previous <= Latest' /\ run'[q].candidate <= Latest'
                 /\ manifest'[q].previous <= Latest'
      <3>1. CASE q # r
        BY <1>1, <1>2, <3>1
      <3>2. CASE q = r
        BY <1>2, <3>2 DEF Frame
      <3> QED
        BY <3>1, <3>2
    <2> QED
      BY <2>1 DEF Indices
  <1>5. Builds'
    <2>1. ASSUME NEW i \in 1..Latest', versions'[i].by # None
          PROVE  run'[versions'[i].by].step # "new"
                 /\ versions'[i].code = run'[versions'[i].by].code
      <3>1. CASE i \in 1..Latest
        BY <1>1, <1>2, <2>1, <3>1 DEF Builds
      <3>2. CASE i = Latest' /\ Latest' # Latest
        BY <1>1, <1>2, <3>2 DEF Frame
      <3>3. Latest' # Latest => Latest' = Latest + 1
        BY DEF Frame
      <3> QED
        BY <1>2, <3>1, <3>2, <3>3
    <2>2. ASSUME NEW q \in Runs
          PROVE  /\ run'[q].candidate # 0 => versions'[run'[q].candidate].by = q
                 /\ run'[q].verified => run'[q].candidate # 0
                 /\ run'[q].step \in {"candidate", "promote"} => run'[q].verified
      <3>1. CASE q # r
        <4>1. run[q].candidate # 0 => run[q].candidate \in 1..Latest
          BY <1>2
        <4> QED
          BY <1>1, <3>1, <4>1 DEF Builds
      <3>2. CASE q = r
        BY <3>2 DEF RowRight
      <3> QED
        BY <3>1, <3>2
    <2> QED
      BY <2>1, <2>2 DEF Builds
  <1>6. Paths'
    BY <1>1 DEF Paths, RowRight
  <1>7. Manifests'
    BY <1>1 DEF Manifests, RowRight
  <1> QED
    BY <1>3, <1>4, <1>5, <1>6, <1>7 DEF Records

LEMMA FrameSchema ==
    ASSUME Records, SchemaInv, NEW r \in Runs, Frame(r), Builds',
           run'[r].step # "apply",
           run'[r].step \in Migrated => run[r].kind = "initial"
    PROVE  SchemaInv'
  <1>1. /\ \A q \in Runs \ {r} : run'[q] = run[q] /\ manifest'[q] = manifest[q]
        /\ \A i \in 1..Latest : versions'[i] = versions[i]
    BY DEF Frame
  <1>2. /\ \A q \in Runs : run'[q].kind = run[q].kind /\ run'[q].code = run[q].code
        /\ \A i \in 1..Latest : versions[i].by \in Runs \cup {None} /\ versions[i].code \in Nat
        /\ Latest \in Nat /\ Latest' \in Nat /\ live \in 0..Latest /\ live' \in 0..Latest'
        /\ \A q \in Runs : run[q].previous \in 0..Latest /\ manifest[q].previous \in 0..Latest
        /\ applied \in Nat /\ applied' = applied
    BY FrameKinds
  <1>3. ASSUME NEW i \in 0..Latest, Served(i)
        PROVE  Served(i)'
    <2>1. CASE i # 0 /\ versions[i].by # None
      <3>1. i \in 1..Latest
        BY <1>2, <2>1
      <3>2. versions[i].by \in Runs /\ versions[i].code \in Nat
        BY <1>2, <2>1, <3>1
      <3> QED
        BY <1>1, <1>2, <1>3, <3>1, <3>2 DEF Served
    <2>2. CASE i # 0 /\ versions[i].by = None
      BY <1>1, <1>2, <2>2 DEF Served
    <2> QED
      BY <2>1, <2>2 DEF Served
  <1>4. ASSUME NEW i \in 0..Latest,
               i = live \/ i = 0 \/ (\E q \in Runs : i = run[q].previous \/ i = manifest[q].previous)
        PROVE  Served(i)'
    <2>1. Served(i)
      BY <1>4 DEF SchemaInv, Served
    <2> QED
      BY <1>3, <2>1
  <1>5. Served(live)'
    <2>1. CASE live' = live
      BY <1>2, <1>4, <2>1 DEF Served
    <2>2. CASE live' = manifest[r].previous
      <3>1. PICK i \in 0..Latest : i = manifest[r].previous
        BY <1>2
      <3> QED
        BY <1>4, <2>2, <3>1 DEF Served
    <2>3. CASE live' \in 1..Latest' /\ versions'[live'].by = r
               /\ (run[r].kind = "initial" \/ run[r].code <= applied)
      <3>1. versions'[live'].code = run'[r].code
        BY <2>3 DEF Builds
      <3> QED
        BY <1>2, <2>3, <3>1 DEF Served
    <2> QED
      BY <2>1, <2>2, <2>3 DEF Frame
  <1>6. ASSUME NEW q \in Runs
        PROVE  Served(run[q].previous)' /\ Served(manifest[q].previous)'
    <2>1. CASE q # r
      <3>1. PICK i \in 0..Latest, j \in 0..Latest :
              i = run[q].previous /\ j = manifest[q].previous
        BY <1>2
      <3>2. Served(i)' /\ Served(j)'
        BY <1>4, <3>1
      <3>3. run'[q].previous = i /\ manifest'[q].previous = j
        BY <1>1, <2>1, <3>1
      <3> QED
        BY <3>2, <3>3 DEF Served
    <2>2. CASE q = r
      <3>1. PICK i \in 0..Latest : i = run'[r].previous /\ i \in {run[r].previous, live, 0}
        BY <1>2 DEF Frame
      <3>2. PICK j \in 0..Latest :
              j = manifest'[r].previous /\ j \in {manifest[r].previous, run[r].previous}
        BY <1>2 DEF Frame
      <3>3. Served(i)' /\ Served(j)'
        BY <1>4, <3>1, <3>2
      <3> QED
        BY <2>2, <3>1, <3>2, <3>3 DEF Served
    <2> QED
      BY <2>1, <2>2
  <1>7. ASSUME NEW q \in Runs
        PROVE  /\ run'[q].step = "apply" => run'[q].next <= applied' + 1
               /\ run'[q].step \in Migrated /\ run'[q].kind # "initial"
                    => run'[q].code <= applied'
    <2>1. CASE q # r
      BY <1>1, <1>2, <2>1 DEF SchemaInv
    <2>2. CASE q = r
      BY <1>2, <2>2
    <2> QED
      BY <2>1, <2>2
  <1> QED
    BY <1>5, <1>6, <1>7 DEF SchemaInv

LEMMA FrameRollback ==
    ASSUME Records, RollbackInv, NEW r \in Runs, Frame(r),
           run'[r].previous # run[r].previous => run[r].step = "status",
           Working(r)' => Working(r) /\ run'[r].step # "rollback",
           Working(r)' /\ run'[r].step \notin {"mark", "smoke"} =>
             run[r].step \notin {"mark", "smoke", "rollback"} /\ live' = live,
           run'[r].step = "failed" /\ run[r].kind = "workflow" /\ ~Excused(r)' =>
             /\ Working(r)
             /\ \/ run[r].step \notin {"mark", "smoke", "rollback"} /\ live' = live
                \/ live' = manifest[r].previous
    PROVE  RollbackInv'
  <1>1. /\ \A q \in Runs \ {r} : run'[q] = run[q] /\ manifest'[q] = manifest[q]
        /\ \A i \in 1..Latest : versions'[i] = versions[i]
        /\ faults \in Nat /\ faults' \in Nat /\ faults <= faults'
    BY Rows DEF Frame, Records
  <1>2. /\ \A q \in Runs : run'[q].kind = run[q].kind
        /\ Latest \in Nat /\ Latest' \in Nat /\ live \in 0..Latest /\ live' \in 0..Latest'
        /\ \A q \in Runs : run[q].previous \in 0..Latest /\ manifest[q].previous \in 0..Latest
    BY FrameKinds
  <1>3. \A i \in 0..Latest : \A q \in Runs : NotBy(i, q) => (i # 0 => versions'[i].by # q)
    BY <1>1, <1>2 DEF NotBy
  <1>4. \A q \in Runs : Working(q)' => Working(q)
    BY <1>1 DEF Working
  <1>5. \A q, p \in Runs : Working(q)' /\ Working(p)' => q = p
    BY <1>4 DEF RollbackInv
  <1>6. ASSUME NEW q \in Runs,
               \/ Working(q)
               \/ run[q].kind = "workflow" /\ run[q].step = "failed" /\ ~Excused(q)
        PROVE  NoTarget(q)'
    <2>1. NoTarget(q)
      BY <1>6 DEF RollbackInv
    <2>2. ASSUME NEW p \in Runs, run'[p].kind = "workflow"
          PROVE  NotBy(run[p].previous, q)' /\ NotBy(manifest[p].previous, q)'
      <3>1. NotBy(run[p].previous, q) /\ NotBy(manifest[p].previous, q)
        BY <1>2, <2>1, <2>2 DEF NoTarget
      <3>2. CASE p # r
        <4>1. run'[p] = run[p] /\ manifest'[p] = manifest[p]
          BY <1>1, <3>2
        <4> QED
          BY <1>2, <1>3, <3>1, <4>1 DEF NotBy
      <3>3. CASE p = r
        <4>1. PICK j \in 0..Latest : j = manifest'[r].previous
                                     /\ j \in {manifest[r].previous, run[r].previous}
          BY <1>2 DEF Frame
        <4>2. NotBy(manifest[p].previous, q)'
          BY <1>3, <3>1, <3>3, <4>1 DEF NotBy
        <4>3. PICK i \in 0..Latest : i = run'[r].previous /\ i \in {run[r].previous, live, 0}
          BY <1>2 DEF Frame
        <4>4. CASE i = run[r].previous \/ i = 0
          BY <1>3, <3>1, <3>3, <4>2, <4>3, <4>4 DEF NotBy
        <4>5. CASE i # run[r].previous /\ i = live
          <5>1. run[r].step = "status" /\ Working(r)
            BY <1>2, <2>2, <3>3, <4>3, <4>5 DEF Working, Finished
          <5>2. NotBy(live, q)
            <6>1. CASE Working(q)
              BY <1>6, <5>1, <6>1 DEF RollbackInv
            <6>2. CASE ~Working(q)
              BY <1>6, <6>2 DEF RollbackInv
            <6> QED
              BY <6>1, <6>2
          <5> QED
            BY <1>2, <1>3, <3>3, <4>2, <4>3, <4>5, <5>2 DEF NotBy
        <4> QED
          BY <4>3, <4>4, <4>5
      <3> QED
        BY <3>2, <3>3
    <2> QED
      BY <2>2 DEF NoTarget
  <1>7. ASSUME NEW q \in Runs, q # r, NoTarget(q), NotBy(live, q)
        PROVE  NotBy(live, q)'
    <2>1. CASE live' = live
      BY <1>2, <1>3, <1>7, <2>1 DEF NotBy
    <2>2. CASE live' = manifest[r].previous /\ Working(r)
      <3>1. NotBy(manifest[r].previous, q)
        BY <1>7, <2>2 DEF NoTarget, Working
      <3> QED
        BY <1>2, <1>3, <2>2, <3>1 DEF NotBy
    <2>3. CASE live' \in 1..Latest' /\ versions'[live'].by = r
      BY <1>7, <2>3 DEF NotBy
    <2> QED
      BY <2>1, <2>2, <2>3 DEF Frame
  <1>8. ASSUME NEW q \in Runs, Working(q)'
        PROVE  /\ NoTarget(q)'
               /\ run'[q].step \notin {"mark", "smoke", "rollback"} => NotBy(live, q)'
               /\ run'[q].step = "rollback" => manifest'[q].promoted \/ faults' > 0
    <2>1. Working(q) /\ NoTarget(q) /\ NoTarget(q)'
      BY <1>4, <1>6, <1>8 DEF RollbackInv
    <2>2. CASE q # r
      BY <1>1, <1>7, <2>1, <2>2 DEF RollbackInv
    <2>3. CASE q = r
      <3>1. run'[q].step \notin {"mark", "smoke", "rollback"} => NotBy(live, q) /\ live' = live
        BY <1>8, <2>1, <2>3 DEF RollbackInv
      <3>2. run'[q].step \notin {"mark", "smoke", "rollback"} => NotBy(live, q)'
        BY <1>2, <1>3, <3>1 DEF NotBy
      <3> QED
        BY <1>8, <2>1, <2>3, <3>2
    <2> QED
      BY <2>2, <2>3
  <1>9. ASSUME NEW q \in Runs, run'[q].kind = "workflow", run'[q].step = "failed", ~Excused(q)'
        PROVE  NoTarget(q)' /\ NotBy(live, q)'
    <2>1. CASE q # r
      <3>1. run[q].kind = "workflow" /\ run[q].step = "failed" /\ ~Excused(q)
        BY <1>1, <1>9, <2>1 DEF Excused
      <3>2. NoTarget(q) /\ NotBy(live, q)
        BY <3>1 DEF RollbackInv
      <3> QED
        BY <1>6, <1>7, <2>1, <3>1, <3>2
    <2>2. CASE q = r
      <3>1. Working(r) /\ NoTarget(r) /\ run[r].kind = "workflow"
        BY <1>2, <1>9, <2>2 DEF RollbackInv
      <3>2. PICK i \in 0..Latest : i = live' /\ NotBy(i, r)
        <4>1. CASE run[r].step \notin {"mark", "smoke", "rollback"} /\ live' = live
          BY <1>2, <3>1, <4>1 DEF RollbackInv
        <4>2. CASE live' = manifest[r].previous
          BY <1>2, <3>1, <4>2 DEF NoTarget
        <4> QED
          BY <1>2, <1>9, <2>2, <4>1, <4>2
      <3> QED
        BY <1>3, <1>6, <2>2, <3>1, <3>2 DEF NotBy
    <2> QED
      BY <2>1, <2>2
  <1> QED
    BY <1>5, <1>8, <1>9 DEF RollbackInv

LEMMA FrameKeys ==
    ASSUME Records, KeyInv, NEW r \in Runs, Frame(r),
           Checked(r)' => \/ Checked(r) /\ run'[r].key = run[r].key
                             /\ run'[r].previous = run[r].previous
                          \/ run'[r].previous = 0 \/ run'[r].key = None \/ credentials = {}
    PROVE  KeyInv'
  <1>1. /\ \A q \in Runs \ {r} : run'[q] = run[q] /\ manifest'[q] = manifest[q]
        /\ credentials' = credentials /\ crossed \subseteq crossed'
    BY DEF Frame
  <1>2. \A q \in Runs \ {r} : Checked(q)' => Checked(q)
    BY <1>1 DEF Checked, Relying
  <1> QED
    BY <1>1, <1>2 DEF KeyInv

---------------------------------------------------------------------------
(* The actions before the upload: a run looks at the deployment.           *)
\* The run's row becomes the given one.
Look(r, row) ==
    /\ run' = [run EXCEPT ![r] = row]
    /\ UNCHANGED <<main, versions, live, applied, users, admins, complete, credentials,
                   manifest, crossed>>
    /\ faults' \in 0..MaxFaults /\ faults <= faults'
    /\ row.kind = run[r].kind /\ row.code = run[r].code
    /\ row.candidate = run[r].candidate /\ row.verified = run[r].verified
    /\ row.previous \in {run[r].previous, live, 0}
    /\ row.previous # run[r].previous => run[r].step = "status" /\ row.step = "secrets"
    /\ run[r].step \in {"preflight", "status", "secrets", "check"}
    /\ row.step \in {"status", "secrets", "check", "upload", "schema", "failed"}
    /\ row.step = "secrets" => run[r].step = "status"
    /\ row.step \in {"check", "upload"} => row.kind \in {"local", "workflow"}
    /\ row.step = "schema" => row.kind = "bootstrap"
    /\ row.step = "status" => run[r].step = "preflight"
    /\ row.step = "upload" => row.previous = 0 \/ row.key = None \/ credentials = {}

LEMMA LooksSafe ==
    ASSUME Safe, NEW r \in Runs, NEW row \in RunRows, Look(r, row)
    PROVE  Safe'
  <1> USE DEF Look
  <1>1. /\ Records /\ SchemaInv /\ RollbackInv /\ KeyInv
        /\ TypeOK /\ Builds /\ Paths /\ Manifests
    BY DEF Safe, Records
  <1>2. /\ run' \in [Runs -> RunRows] /\ run'[r] = row
        /\ \A q \in Runs \ {r} : run'[q] = run[q]
    BY <1>1, RunTyped
  <1>3. Frame(r)
    <2>1. /\ versions' \in Seq(Versions) /\ Latest' = Latest /\ Latest <= MaxVersions
          /\ Latest \in Nat
          /\ manifest' \in [Runs -> [promoted : BOOLEAN, previous : 0..MaxVersions]]
          /\ crossed' \subseteq Runs
      BY <1>1 DEF TypeOK, Latest
    <2> QED
      BY <1>2, <2>1 DEF Frame
  <1>4. RowRight(r)'
    <2>1. ~manifest[r].promoted
      BY <1>1 DEF Manifests, Finished
    <2>2. run[r].candidate # 0 => versions[run[r].candidate].by = r
      BY <1>1 DEF Builds
    <2>3. run[r].verified => run[r].candidate # 0 /\ run[r].kind \in {"local", "workflow"}
      BY <1>1 DEF Builds, Paths
    <2>4. run[r].kind # "initial"
      BY <1>1 DEF Paths
    <2>5. \/ manifest[r].previous = row.previous
          \/ row.kind \in {"local", "workflow"} /\ row.step \in Looking \cup {"failed"}
      BY <1>1 DEF Manifests, Looking, Paths
    <2>6. /\ run'[r] = row /\ manifest' = manifest /\ versions' = versions
          /\ row.step \notin {"candidate", "promote", "smoke", "rollback", "mark", "deploy"}
          /\ row.step \in {"preflight", "status", "check", "upload"}
               => row.kind \in {"local", "workflow"}
      BY <1>1, <1>2 DEF Paths
    <2> QED
      BY <2>1, <2>2, <2>3, <2>4, <2>5, <2>6 DEF RowRight
  <1>5. Records'
    BY <1>1, <1>3, <1>4, FrameRecords
  <1>6. SchemaInv'
    BY <1>1, <1>2, <1>3, <1>5, FrameSchema DEF Migrated, Records
  <1>7. RollbackInv'
    <2>1. Working(r)' => Working(r)
      BY <1>2 DEF Working, Finished
    <2>2. run[r].kind = "workflow" => Working(r)
      BY DEF Working, Finished
    <2> QED
      BY <1>1, <1>2, <1>3, <2>1, <2>2, FrameRollback
  <1>8. KeyInv'
    <2>1. Checked(r)' => row.step = "upload"
      BY <1>2 DEF Checked, Relying, Finished
    <2> QED
      BY <1>1, <1>2, <1>3, <2>1, FrameKeys
  <1> QED
    BY <1>5, <1>6, <1>7, <1>8 DEF Safe

LEMMA LookingSteps ==
    ASSUME Safe, NEW r \in Runs,
           Preflight(r) \/ ReadStatus(r) \/ ListSecrets(r) \/ LegacyCheck(r)
    PROVE  Safe'
  <1>1. /\ TypeOK /\ run[r] \in RunRows /\ Paths /\ Manifests /\ faults \in 0..MaxFaults
        /\ faults \in Nat /\ live \in 0..Latest /\ Latest \in Nat /\ Latest <= MaxVersions
        /\ run \in [Runs -> RunRows]
    BY Rows DEF Safe, Records, TypeOK
  <1>3. ASSUME NEW s \in {"status", "upload", "failed"}, Go(r, s)
        PROVE  \E row \in RunRows :
                 /\ run' = [run EXCEPT ![r] = row] /\ row.step = s
                 /\ row.kind = run[r].kind /\ row.code = run[r].code
                 /\ row.candidate = run[r].candidate /\ row.verified = run[r].verified
                 /\ row.previous = run[r].previous /\ row.key = run[r].key
    <2>1. [run[r] EXCEPT !.step = s] \in RunRows
      BY <1>1 DEF RunRows, Steps
    <2>2. PICK row \in RunRows : row = [run[r] EXCEPT !.step = s]
      BY <2>1
    <2>3. run' = [run EXCEPT ![r] = row]
      BY <1>3, <2>2 DEF Go
    <2> QED
      BY <1>1, <2>2, <2>3 DEF RunRows
  <1>4. CASE Preflight(r)
    <2>1. PICK s \in {"status", "failed"} : Go(r, s)
      BY <1>4 DEF Preflight
    <2>2. PICK row \in RunRows :
                 /\ run' = [run EXCEPT ![r] = row] /\ row.step = s
                 /\ row.kind = run[r].kind /\ row.code = run[r].code
                 /\ row.candidate = run[r].candidate /\ row.verified = run[r].verified
                 /\ row.previous = run[r].previous /\ row.key = run[r].key
      BY <1>3, <2>1
    <2> QED
      <3>1. Look(r, row)
        BY <1>1, <1>4, <2>1, <2>2 DEF Look, Preflight, At, Installation, Paths
      <3> QED
        BY <3>1, LooksSafe
  <1>5. CASE LegacyCheck(r)
    <2>1. PICK s \in {"upload", "failed"} : Go(r, s) /\ (s = "upload" => LegacyCompatible(r))
      BY <1>5 DEF LegacyCheck
    <2>2. PICK row \in RunRows :
                 /\ run' = [run EXCEPT ![r] = row] /\ row.step = s
                 /\ row.kind = run[r].kind /\ row.code = run[r].code
                 /\ row.candidate = run[r].candidate /\ row.verified = run[r].verified
                 /\ row.previous = run[r].previous /\ row.key = run[r].key
      BY <1>3, <2>1
    <2>3. run[r].step = "check" /\ run[r].kind \in {"local", "workflow"}
      BY <1>1, <1>5 DEF LegacyCheck, At, Paths
    <2> QED
      <3>1. Look(r, row)
        BY <1>1, <1>5, <2>1, <2>2, <2>3 DEF Look, LegacyCheck, LegacyCompatible, Installation
      <3> QED
        BY <3>1, LooksSafe
  <1>6. CASE ReadStatus(r)
    <2>1. PICK p \in {live, 0} : run' = [run EXCEPT ![r].previous = p, ![r].step = "secrets"]
      BY <1>6 DEF ReadStatus
    <2>2. [run[r] EXCEPT !.previous = p, !.step = "secrets"] \in RunRows
      <3>1. p \in 0..MaxVersions
        <4>1. live <= MaxVersions /\ live \in Nat /\ MaxVersions \in Nat
          BY <1>1
        <4> QED
          BY <4>1
      <3>2. "secrets" \in Steps
        BY DEF Steps
      <3> QED
        BY <1>1, <3>1, <3>2 DEF RunRows
    <2>3. PICK row \in RunRows : row = [run[r] EXCEPT !.previous = p, !.step = "secrets"]
      BY <2>2
    <2>4. run' = [run EXCEPT ![r] = row]
      BY <1>1, <2>1, <2>3
    <2>5. faults' \in 0..MaxFaults /\ faults <= faults'
      BY <1>1, <1>6 DEF ReadStatus
    <2>6. /\ row.step = "secrets" /\ row.previous = p
          /\ row.kind = run[r].kind /\ row.code = run[r].code
          /\ row.candidate = run[r].candidate /\ row.verified = run[r].verified
      BY <1>1, <2>3 DEF RunRows
    <2> QED
      <3>1. run[r].step = "status" /\ run[r].kind \in {"local", "workflow"}
        BY <1>1, <1>6 DEF ReadStatus, At, Paths
      <3>2. Look(r, row)
        BY <1>1, <1>6, <2>4, <2>5, <2>6, <3>1 DEF Look, ReadStatus, Installation
      <3> QED
        BY <3>2, LooksSafe
  <1>7. CASE ListSecrets(r)
    <2> /\ run[r].step = "secrets" /\ faults' = faults
        /\ UNCHANGED <<main, versions, live, applied, users, admins, complete, credentials,
                       manifest, crossed>>
      BY <1>7 DEF ListSecrets, At, Installation
    <2>1. CASE Latest = 0
      <3>1. Go(r, "failed")
        BY <1>7, <2>1 DEF ListSecrets
      <3>2. PICK row \in RunRows :
                 /\ run' = [run EXCEPT ![r] = row] /\ row.step = "failed"
                 /\ row.kind = run[r].kind /\ row.code = run[r].code
                 /\ row.candidate = run[r].candidate /\ row.verified = run[r].verified
                 /\ row.previous = run[r].previous /\ row.key = run[r].key
        BY <1>3, <3>1
      <3> QED
        <4>1. Look(r, row)
          BY <1>1, <3>2 DEF Look
        <4> QED
          BY <4>1, LooksSafe
    <2>2. CASE Latest # 0
      <3>1. PICK key \in Keys \cup {None} :
              run' = [run EXCEPT ![r].key = key,
                        ![r].step = IF run[r].kind = "bootstrap" THEN "schema" ELSE "check"]
        BY <1>7, <2>2 DEF ListSecrets
      <3>2. PICK s \in {"schema", "check"} :
              s = (IF run[r].kind = "bootstrap" THEN "schema" ELSE "check")
        OBVIOUS
      <3>3. [run[r] EXCEPT !.key = key, !.step = s] \in RunRows
        BY <1>1 DEF RunRows, Steps
      <3>4. PICK row \in RunRows : row = [run[r] EXCEPT !.key = key, !.step = s]
        BY <3>3
      <3>5. run' = [run EXCEPT ![r] = row]
        BY <1>1, <3>1, <3>2, <3>4
      <3>6. /\ row.step = s /\ row.previous = run[r].previous
            /\ row.kind = run[r].kind /\ row.code = run[r].code
            /\ row.candidate = run[r].candidate /\ row.verified = run[r].verified
        BY <1>1, <3>4 DEF RunRows
      <3>7. run[r].step = "secrets" /\ run[r].kind # "initial" /\ run[r].kind \in Kinds
        BY <1>1, <1>7 DEF ListSecrets, At, Paths, RunRows
      <3> QED
        <4>1. Look(r, row)
          BY <1>1, <3>2, <3>5, <3>6, <3>7 DEF Look, Kinds
        <4> QED
          BY <4>1, LooksSafe
    <2> QED
      BY <2>1, <2>2
  <1> QED
    BY <1>4, <1>5, <1>6, <1>7

---------------------------------------------------------------------------
(* The upload, the promotion, the deployment, the rollback.                *)
LEMMA FrameSafe ==
    ASSUME Safe, NEW r \in Runs, Frame(r), RowRight(r)',
           run'[r].step \notin Migrated \cup {"apply", "rollback"},
           run'[r].previous = run[r].previous,
           Working(r)' => Working(r),
           Working(r)' /\ run'[r].step \notin {"mark", "smoke"} =>
             run[r].step \notin {"mark", "smoke", "rollback"} /\ live' = live,
           run'[r].step = "failed" /\ run[r].kind = "workflow" /\ ~Excused(r)' =>
             Working(r) /\ live' = manifest[r].previous,
           Checked(r)' => Checked(r) /\ run'[r].key = run[r].key
    PROVE  Safe'
  <1>1. Records /\ SchemaInv /\ RollbackInv /\ KeyInv
    BY DEF Safe
  <1>2. Records'
    BY <1>1, FrameRecords
  <1>3. SchemaInv'
    BY <1>1, <1>2, FrameSchema DEF Records
  <1>4. RollbackInv'
    BY <1>1, FrameRollback
  <1>5. KeyInv'
    BY <1>1, FrameKeys
  <1> QED
    BY <1>2, <1>3, <1>4, <1>5 DEF Safe

LEMMA UploadSafe ==
    ASSUME Safe, NEW r \in Runs, Upload(r)
    PROVE  Safe'
  <1>1. /\ TypeOK /\ Builds /\ Paths /\ Manifests /\ run[r] \in RunRows
        /\ run \in [Runs -> RunRows] /\ Latest \in Nat /\ live \in 0..Latest
        /\ run[r].step = "upload" /\ run[r].kind \in {"local", "workflow"}
    BY Rows DEF Safe, Records, Upload, At, Paths
  <1>2. /\ versions' = Append(versions, Built(r)) /\ Latest < MaxVersions
        /\ manifest' = [manifest EXCEPT ![r] = [promoted |-> FALSE, previous |-> run[r].previous]]
        /\ UNCHANGED <<main, live, applied, users, admins, complete, credentials, crossed, faults>>
    BY DEF Upload, Database
  <1>3. PICK verified \in BOOLEAN :
          run' = [run EXCEPT ![r].candidate = Latest + 1, ![r].verified = verified,
                             ![r].step = "schema"]
    BY DEF Upload
  <1>4. Latest + 1 \in 0..MaxVersions
    BY <1>1, <1>2
  <1>5. [run[r] EXCEPT !.candidate = Latest + 1, !.verified = verified, !.step = "schema"] \in RunRows
    BY <1>1, <1>4 DEF RunRows, Steps
  <1>6. PICK row \in RunRows : row = [run[r] EXCEPT !.candidate = Latest + 1,
                                        !.verified = verified, !.step = "schema"]
    BY <1>5
  <1>7. run' = [run EXCEPT ![r] = row]
    BY <1>1, <1>3, <1>6
  <1>8. /\ run' \in [Runs -> RunRows] /\ run'[r] = row
        /\ \A q \in Runs \ {r} : run'[q] = run[q]
    BY <1>1, <1>7, RunTyped
  <1>9. /\ row.step = "schema" /\ row.candidate = Latest + 1 /\ row.verified = verified
        /\ row.kind = run[r].kind /\ row.code = run[r].code /\ row.key = run[r].key
        /\ row.previous = run[r].previous
    BY <1>1, <1>6 DEF RunRows
  <1>10. /\ versions' \in Seq(Versions) /\ Latest' = Latest + 1
         /\ versions'[Latest + 1].by = r /\ versions'[Latest + 1].code = run[r].code
         /\ \A i \in 1..Latest : versions'[i] = versions[i]
    <2>1. Built(r) \in Versions /\ Built(r).by = r /\ Built(r).code = run[r].code
      BY <1>1, BuiltVersion
    <2> QED
      BY <1>1, <1>2, <2>1, VersionAdded
  <1>11. /\ manifest' \in [Runs -> [promoted : BOOLEAN, previous : 0..MaxVersions]]
         /\ \A q \in Runs \ {r} : manifest'[q] = manifest[q]
         /\ manifest'[r].previous = run[r].previous /\ ~manifest'[r].promoted
    BY <1>1, <1>2 DEF TypeOK, RunRows
  <1>12. Frame(r)
    <2>1. faults' \in 0..MaxFaults /\ faults <= faults' /\ crossed' \subseteq Runs
      BY <1>1, <1>2 DEF TypeOK
    <2>2. Latest' \in Nat /\ Latest <= Latest' /\ Latest' <= MaxVersions
      BY <1>1, <1>2, <1>10
    <2> QED
      BY <1>1, <1>2, <1>8, <1>9, <1>10, <1>11, <2>1, <2>2 DEF Frame
  <1>13. RowRight(r)'
    BY <1>1, <1>4, <1>8, <1>9, <1>10, <1>11 DEF RowRight, Looking
  <1>14. Checked(r)' => Checked(r) /\ run'[r].key = run[r].key
    BY <1>1, <1>8, <1>9 DEF Checked, Relying, Finished
  <1>15. Working(r)' => Working(r)
    BY <1>1, <1>8, <1>9 DEF Working, Finished
  <1> QED
    BY <1>1, <1>2, <1>8, <1>9, <1>12, <1>13, <1>14, <1>15, FrameSafe DEF Migrated

LEMMA PromoteSafe ==
    ASSUME Safe, NEW r \in Runs, Promote(r)
    PROVE  Safe'
  <1>1. /\ TypeOK /\ Indices /\ Builds /\ Paths /\ Manifests /\ run[r] \in RunRows
        /\ run \in [Runs -> RunRows] /\ Latest \in Nat /\ Latest <= MaxVersions
        /\ live \in 0..Latest /\ SchemaInv
        /\ run[r].step = "promote" /\ run[r].kind \in {"local", "workflow"}
    BY Rows DEF Safe, Records, Promote, At, Paths
  <1>2. /\ live' = run[r].candidate /\ Go(r, AfterLive(r)) /\ CrossAllBut({r})
        /\ UNCHANGED <<main, versions, applied, users, admins, complete, credentials,
                       manifest, faults>>
    BY DEF Promote, Database
  <1>3. Steps1(r) /\ run'[r].step = "mark"
    <2>1. AfterLive(r) = "mark"
      BY <1>1 DEF AfterLive
    <2> QED
      BY <1>1, <1>2, <2>1, GoTyped DEF Steps
  <1>4. run[r].candidate \in 1..Latest /\ versions[run[r].candidate].by = r
        /\ run[r].verified
    BY <1>1 DEF Builds, Indices, RunRows
  <1>5. run[r].code <= applied
    BY <1>1 DEF SchemaInv, Migrated
  <1>6. Frame(r)
    <2>1. /\ faults' \in 0..MaxFaults /\ faults <= faults' /\ versions' \in Seq(Versions)
          /\ Latest' = Latest
          /\ manifest' \in [Runs -> [promoted : BOOLEAN, previous : 0..MaxVersions]]
      BY <1>1, <1>2 DEF TypeOK, Latest
    <2>2. crossed \subseteq crossed' /\ crossed' \subseteq Runs
      BY <1>1, <1>2 DEF CrossAllBut, TypeOK
    <2> QED
      BY <1>1, <1>2, <1>3, <1>4, <1>5, <2>1, <2>2 DEF Frame, Steps1
  <1>7. RowRight(r)'
    <2>1. manifest[r].previous = run[r].previous /\ ~manifest[r].promoted
      BY <1>1 DEF Manifests, Looking, Finished
    <2> QED
      BY <1>1, <1>2, <1>3, <1>4, <2>1 DEF RowRight, Steps1
  <1>8. Checked(r)' => Checked(r) /\ run'[r].key = run[r].key
    BY <1>1, <1>3 DEF Checked, Relying, Finished, Steps1
  <1>9. Working(r)' => Working(r)
    BY <1>1, <1>3 DEF Working, Finished, Steps1
  <1> QED
    BY <1>1, <1>3, <1>6, <1>7, <1>8, <1>9, FrameSafe DEF Migrated, Steps1

LEMMA DeploySafe ==
    ASSUME Safe, NEW r \in Runs, Deploy(r)
    PROVE  Safe'
  <1>1. /\ TypeOK /\ Indices /\ Builds /\ Paths /\ Manifests /\ run[r] \in RunRows
        /\ run \in [Runs -> RunRows] /\ Latest \in Nat /\ Latest <= MaxVersions
        /\ live \in 0..Latest /\ SchemaInv
        /\ run[r].step = "deploy"
    BY Rows DEF Safe, Records, Deploy, At
  <1>2. /\ versions' = Append(versions, Built(r)) /\ Latest < MaxVersions
        /\ live' = Latest + 1 /\ CrossAllBut({r})
        /\ run' = [run EXCEPT ![r].candidate = Latest + 1, ![r].step = AfterLive(r)]
        /\ UNCHANGED <<main, applied, users, admins, complete, credentials, manifest, faults>>
    BY DEF Deploy, Database
  <1>3. PICK s \in {"mark", "done"} :
          s = AfterLive(r) /\ (s = "mark" => run[r].kind \in {"local", "workflow"})
    BY DEF AfterLive
  <1>4. Latest + 1 \in 0..MaxVersions
    BY <1>1, <1>2
  <1>5. [run[r] EXCEPT !.candidate = Latest + 1, !.step = s] \in RunRows
    BY <1>1, <1>4 DEF RunRows, Steps
  <1>6. PICK row \in RunRows : row = [run[r] EXCEPT !.candidate = Latest + 1, !.step = s]
    BY <1>5
  <1>7. run' = [run EXCEPT ![r] = row]
    BY <1>1, <1>2, <1>3, <1>6
  <1>8. /\ run' \in [Runs -> RunRows] /\ run'[r] = row
        /\ \A q \in Runs \ {r} : run'[q] = run[q]
    BY <1>1, <1>7, RunTyped
  <1>9. /\ row.step = s /\ row.candidate = Latest + 1 /\ row.verified = run[r].verified
        /\ row.kind = run[r].kind /\ row.code = run[r].code /\ row.key = run[r].key
        /\ row.previous = run[r].previous
    BY <1>1, <1>6 DEF RunRows
  <1>10. /\ versions' \in Seq(Versions) /\ Latest' = Latest + 1
         /\ versions'[Latest + 1].by = r /\ versions'[Latest + 1].code = run[r].code
         /\ \A i \in 1..Latest : versions'[i] = versions[i]
    <2>1. Built(r) \in Versions /\ Built(r).by = r /\ Built(r).code = run[r].code
      BY <1>1, BuiltVersion
    <2> QED
      BY <1>1, <1>2, <2>1, VersionAdded
  <1>11. run[r].kind = "initial" \/ run[r].code <= applied
    BY <1>1 DEF SchemaInv, Migrated
  <1>12. Frame(r)
    <2>1. /\ faults' \in 0..MaxFaults /\ faults <= faults'
          /\ manifest' \in [Runs -> [promoted : BOOLEAN, previous : 0..MaxVersions]]
      BY <1>1, <1>2 DEF TypeOK
    <2>2. crossed \subseteq crossed' /\ crossed' \subseteq Runs
      BY <1>1, <1>2 DEF CrossAllBut, TypeOK
    <2>3. Latest' \in Nat /\ Latest <= Latest' /\ Latest' <= MaxVersions
          /\ live' \in 1..Latest' /\ versions'[live'].by = r
      BY <1>1, <1>2, <1>10
    <2> QED
      BY <1>1, <1>2, <1>3, <1>8, <1>9, <1>10, <1>11, <2>1, <2>2, <2>3 DEF Frame
  <1>13. RowRight(r)'
    <2>1. manifest[r].previous = run[r].previous /\ ~manifest[r].promoted
      BY <1>1 DEF Manifests, Looking, Finished
    <2>2. run[r].verified => run[r].kind \in {"local", "workflow"}
      BY <1>1 DEF Paths
    <2>3. run[r].kind = "initial" => s = "done"
      BY <1>3
    <2>4. /\ run'[r] = row /\ manifest' = manifest /\ versions'[row.candidate].by = r
          /\ row.candidate # 0 /\ row.step \in {"mark", "done"}
          /\ row.step = "mark" => row.kind \in {"local", "workflow"}
      BY <1>1, <1>2, <1>3, <1>8, <1>9, <1>10
    <2> QED
      BY <1>9, <2>1, <2>2, <2>3, <2>4 DEF RowRight
  <1>14. Checked(r)' => Checked(r) /\ run'[r].key = run[r].key
    BY <1>1, <1>3, <1>8, <1>9 DEF Checked, Relying, Finished
  <1>15. Working(r)' => Working(r)
    BY <1>1, <1>8, <1>9 DEF Working, Finished
  <1> QED
    BY <1>1, <1>2, <1>3, <1>8, <1>9, <1>12, <1>13, <1>14, <1>15, FrameSafe
       DEF Migrated, Working, Finished

LEMMA MarkSafe ==
    ASSUME Safe, NEW r \in Runs, MarkPromoted(r)
    PROVE  Safe'
  <1>1. /\ TypeOK /\ Indices /\ Builds /\ Paths /\ Manifests /\ run[r] \in RunRows
        /\ run \in [Runs -> RunRows] /\ Latest \in Nat /\ Latest <= MaxVersions
        /\ live \in 0..Latest
        /\ run[r].step = "mark" /\ run[r].kind \in {"local", "workflow"}
    BY Rows DEF Safe, Records, MarkPromoted, At, Paths
  <1>2. /\ manifest' = [manifest EXCEPT ![r].promoted = TRUE]
        /\ UNCHANGED <<main, versions, live, applied, users, admins, complete, credentials,
                       crossed, faults>>
    BY DEF MarkPromoted, Installation
  <1>3. PICK s \in {"smoke", "done"} :
          Go(r, s) /\ (s = "smoke" => run[r].kind = "workflow")
    BY DEF MarkPromoted
  <1>4. Steps1(r) /\ run'[r].step = s
    BY <1>1, <1>3, GoTyped DEF Steps
  <1>5. /\ manifest' \in [Runs -> [promoted : BOOLEAN, previous : 0..MaxVersions]]
        /\ \A q \in Runs \ {r} : manifest'[q] = manifest[q]
        /\ manifest'[r].previous = manifest[r].previous /\ manifest'[r].promoted
    <2>1. manifest \in [Runs -> [promoted : BOOLEAN, previous : 0..MaxVersions]]
      BY <1>1 DEF TypeOK
    <2>2. PICK t \in BOOLEAN : t = TRUE
      OBVIOUS
    <2>3. PICK row \in [promoted : BOOLEAN, previous : 0..MaxVersions] :
            row = [manifest[r] EXCEPT !.promoted = t]
      BY <2>1
    <2>4. manifest' = [manifest EXCEPT ![r] = row]
      BY <1>2, <2>2, <2>3
    <2>5. row.promoted = t /\ row.previous = manifest[r].previous
      BY <2>1, <2>3
    <2> QED
      BY <2>1, <2>2, <2>4, <2>5
  <1>6. Frame(r)
    <2>1. /\ faults' \in 0..MaxFaults /\ faults <= faults' /\ versions' \in Seq(Versions)
          /\ Latest' = Latest /\ crossed \subseteq crossed' /\ crossed' \subseteq Runs
      BY <1>1, <1>2 DEF TypeOK, Latest
    <2> QED
      BY <1>1, <1>2, <1>4, <1>5, <2>1 DEF Frame, Steps1
  <1>7. RowRight(r)'
    <2>1. manifest[r].previous = run[r].previous
      BY <1>1 DEF Manifests, Looking
    <2>2. run[r].candidate # 0 => versions[run[r].candidate].by = r
      BY <1>1 DEF Builds
    <2>3. run[r].verified => run[r].candidate # 0
      BY <1>1 DEF Builds
    <2> QED
      BY <1>1, <1>2, <1>3, <1>4, <1>5, <2>1, <2>2, <2>3 DEF RowRight, Steps1, Finished
  <1>8. Checked(r)' => Checked(r) /\ run'[r].key = run[r].key
    BY <1>1, <1>3, <1>4 DEF Checked, Relying, Finished, Steps1
  <1>9. Working(r)' => Working(r)
    BY <1>1, <1>4 DEF Working, Finished, Steps1
  <1> QED
    BY <1>1, <1>3, <1>4, <1>6, <1>7, <1>8, <1>9, FrameSafe DEF Migrated, Steps1, Working, Finished

LEMMA RollbackSafe ==
    ASSUME Safe, NEW r \in Runs, Rollback(r)
    PROVE  Safe'
  <1>1. /\ TypeOK /\ Indices /\ Builds /\ Paths /\ Manifests /\ run[r] \in RunRows
        /\ run \in [Runs -> RunRows] /\ Latest \in Nat /\ Latest <= MaxVersions
        /\ live \in 0..Latest /\ RollbackInv
        /\ run[r].step = "rollback" /\ run[r].kind = "workflow"
    BY Rows DEF Safe, Records, Rollback, At, Paths
  <1>2. /\ Go(r, "failed")
        /\ UNCHANGED <<main, versions, applied, users, admins, complete, credentials,
                       manifest, faults>>
        /\ \/ /\ manifest[r].promoted /\ manifest[r].previous # 0
              /\ live' = manifest[r].previous
           \/ /\ ~manifest[r].promoted \/ manifest[r].previous = 0
              /\ live' = live
        /\ crossed' = crossed \/ CrossAllBut({r})
    BY DEF Rollback, Database
  <1>3. Steps1(r) /\ run'[r].step = "failed"
    BY <1>1, <1>2, GoTyped DEF Steps
  <1>4. Working(r)
    BY <1>1 DEF Working, Finished
  <1>5. Frame(r)
    <2>1. /\ faults' \in 0..MaxFaults /\ faults <= faults' /\ versions' \in Seq(Versions)
          /\ Latest' = Latest
          /\ manifest' \in [Runs -> [promoted : BOOLEAN, previous : 0..MaxVersions]]
      BY <1>1, <1>2 DEF TypeOK, Latest
    <2>2. crossed \subseteq crossed' /\ crossed' \subseteq Runs
      BY <1>1, <1>2 DEF CrossAllBut, TypeOK
    <2> QED
      BY <1>1, <1>2, <1>3, <1>4, <2>1, <2>2 DEF Frame, Steps1
  <1>6. RowRight(r)'
    <2>1. /\ run[r].candidate # 0 => versions[run[r].candidate].by = r
          /\ run[r].verified => run[r].candidate # 0
      BY <1>1 DEF Builds
    <2>2. manifest[r].previous = run[r].previous \/ ~manifest[r].promoted
      BY <1>1 DEF Manifests
    <2> QED
      BY <1>1, <1>2, <1>3, <2>1, <2>2 DEF RowRight, Steps1, Finished
  <1>7. ~Excused(r)' => live' = manifest[r].previous
    <2>1. manifest[r].promoted \/ faults > 0
      BY <1>1, <1>4 DEF RollbackInv
    <2>2. manifest[r].promoted => manifest[r].previous = run[r].previous
      BY <1>1 DEF Manifests
    <2> QED
      BY <1>2, <1>3, <2>1, <2>2 DEF Excused, Steps1
  <1>8. ~Checked(r)'
    BY <1>3 DEF Checked, Relying, Finished
  <1>9. ~Working(r)'
    BY <1>3 DEF Working, Finished
  <1> QED
    BY <1>3, <1>4, <1>5, <1>6, <1>7, <1>8, <1>9, FrameSafe DEF Migrated, Steps1

---------------------------------------------------------------------------
(* The invariant: it holds at the start, and every step keeps it.          *)
IInv == Records /\ OrderInv /\ KeyInv

LEMMA InitInv == Init => IInv
  <1> SUFFICES ASSUME Init PROVE IInv
    OBVIOUS
  <1>1. NewRun \in RunRows
    BY DEF NewRun, RunRows, Steps, Kinds
  <1>2. /\ \A r \in Runs : run[r] = NewRun /\ manifest[r] = NewManifest
        /\ run \in [Runs -> RunRows]
        /\ manifest \in [Runs -> [promoted : BOOLEAN, previous : 0..MaxVersions]]
    BY <1>1 DEF Init, NewManifest
  <1>3. /\ versions \in Seq(Versions) /\ Latest \in 0..1 /\ live \in 0..Latest
        /\ \A i \in 1..Latest : versions[i].by = None
    <2>1. CASE versions = <<>> /\ live = 0
      BY <2>1 DEF Latest
    <2>2. ASSUME NEW key \in {None, LegacyKey},
                 versions = <<[code |-> 1, secret |-> None, bound |-> key, by |-> None]>>,
                 live = 1
          PROVE  /\ versions \in Seq(Versions) /\ Latest = 1
                 /\ versions[1].by = None
      BY <2>2 DEF Versions, Latest
    <2> QED
      BY <2>1, <2>2 DEF Init, Latest
  <1>4. /\ main \in 1..MaxCode /\ applied \in 0..1 /\ 1 <= MaxVersions /\ 1 <= MaxCode
        /\ users \in SUBSET Runs /\ crossed \in SUBSET Runs /\ faults = 0
        /\ credentials \in SUBSET (Keys \cup {LegacyKey})
    BY DEF Init
  <1>5. AdminInv /\ complete \in BOOLEAN /\ admins \in SUBSET (Runs \cup {None})
    BY DEF AdminInv, Init
  <1>6. TypeOK
    BY <1>2, <1>3, <1>4, <1>5 DEF TypeOK, RunRows, Latest
  <1>7. Indices
    BY <1>2, <1>3 DEF Indices, NewRun, NewManifest
  <1>8. Builds
    BY <1>2, <1>3 DEF Builds, NewRun
  <1>9. Paths
    BY <1>2 DEF Paths, NewRun
  <1>10. Manifests
    BY <1>2 DEF Manifests, NewRun, NewManifest
  <1>11. SchemaInv
    BY <1>2, <1>3 DEF SchemaInv, Served, NewRun, NewManifest, Migrated
  <1>12. RollbackInv
    BY <1>2 DEF RollbackInv, Working, NewRun
  <1>13. KeyInv
    BY <1>2 DEF KeyInv, NewRun
  <1> QED
    BY <1>5, <1>6, <1>7, <1>8, <1>9, <1>10, <1>11, <1>12, <1>13 DEF IInv, Records, OrderInv

LEMMA QuietSafe ==
    ASSUME Safe, NEW r \in Runs, QuietActions(r)
    PROVE  Safe'
  <1>1. Records /\ SchemaInv /\ RollbackInv /\ KeyInv
    BY DEF Safe
  <1>2. Quiet(r) /\ Counts'
    BY <1>1, MigrationSteps, OtherQuietSteps DEF QuietActions
  <1> QED
    BY <1>1, <1>2, QuietRecords, QuietSchema, QuietRollback, QuietKeys DEF Safe

\* The runs and the versions stay as they are.
LEMMA OutsideSafe ==
    ASSUME Safe, Merge \/ StoreCredential \/ UNCHANGED vars
    PROVE  Safe'
  <1>1. /\ Records /\ SchemaInv /\ RollbackInv /\ KeyInv
        /\ TypeOK /\ Indices /\ Builds /\ Paths /\ Manifests
    BY DEF Safe, Records
  <1>2. UNCHANGED <<versions, live, applied, users, admins, complete, run, manifest, faults>>
    BY DEF Merge, StoreCredential, vars, Installation, Deployment
  <1>3. /\ main' \in 1..MaxCode /\ credentials' \in SUBSET (Keys \cup {LegacyKey})
        /\ crossed' \in SUBSET Runs
    <2>1. CASE Merge \/ UNCHANGED vars
      BY <1>1, <2>1 DEF TypeOK, Merge, Installation, vars
    <2>2. CASE StoreCredential
      <3>1. LiveKey \in Keys \cup {LegacyKey, None}
        <4>1. live # 0 => versions[live] \in Versions
          BY <1>1, Rows
        <4> QED
          BY <4>1 DEF LiveKey, KeyOf, Versions
      <3> QED
        BY <1>1, <2>2, <3>1 DEF TypeOK, StoreCredential, CrossAllBut
    <2> QED
      BY <2>1, <2>2
  <1>4. Records'
    <2>1. TypeOK'
      BY <1>1, <1>2, <1>3 DEF TypeOK, Latest
    <2>2. Indices' /\ Builds' /\ Paths' /\ Manifests'
      BY <1>1, <1>2 DEF Indices, Builds, Paths, Manifests, Latest
    <2> QED
      BY <2>1, <2>2 DEF Records
  <1>5. SchemaInv'
    BY <1>1, <1>2 DEF SchemaInv, Served
  <1>6. RollbackInv'
    BY <1>1, <1>2 DEF RollbackInv, Working, NoTarget, NotBy, Excused
  <1>7. KeyInv'
    <2>1. \A r \in Runs : Checked(r)' => Checked(r) /\ Relying(r)
      BY <1>2 DEF Checked, Relying
    <2>2. CASE Merge \/ UNCHANGED vars
      BY <1>1, <1>2, <2>1, <2>2 DEF KeyInv, Merge, Installation, vars
    <2>3. CASE StoreCredential
      <3>1. \A r \in Runs : Relying(r) => r \in crossed'
        BY <2>3 DEF StoreCredential, CrossAllBut
      <3> QED
        BY <2>1, <3>1 DEF KeyInv
    <2> QED
      BY <2>2, <2>3
  <1> QED
    BY <1>4, <1>5, <1>6, <1>7 DEF Safe

LEMMA RunStepSafe ==
    ASSUME Safe, NEW r \in Runs, RunStep(r)
    PROVE  Safe'
  BY QuietSafe, StartSafe, LookingSteps, UploadSafe, PromoteSafe, DeploySafe, MarkSafe,
     RollbackSafe DEF RunStep, QuietActions

(* Only one statement of the bootstrap gives the role, and two mark the    *)
(* installation complete.                                                  *)
LEMMA NextAdmin ==
    ASSUME AdminInv, [Next]_vars
    PROVE  AdminInv'
  <1>1. CASE UNCHANGED <<admins, complete>>
    BY <1>1 DEF AdminInv
  <1>2. ASSUME NEW r \in Runs, InsertRole(r)
        PROVE  AdminInv'
    <2>1. complete' = complete /\ admins' = (IF RoleIsFree(r) THEN admins \cup {r} ELSE admins)
      BY <1>2 DEF InsertRole
    <2> QED
      BY <2>1 DEF AdminInv, RoleIsFree
  <1>3. ASSUME NEW r \in Runs, CountAdministrators(r) \/ CompleteInstallation(r)
        PROVE  AdminInv'
    <2>1. admins' = admins /\ complete' = (complete \/ admins # {})
      BY <1>3 DEF CountAdministrators, CompleteInstallation
    <2> QED
      BY <2>1 DEF AdminInv
  <1>4. CASE Merge \/ StoreCredential \/ UNCHANGED vars
    BY <1>1, <1>4 DEF Merge, StoreCredential, Installation, Deployment, vars
  <1>5. ASSUME NEW r \in Runs,
               \/ Start(r) \/ Preflight(r) \/ ReadStatus(r) \/ ListSecrets(r)
               \/ LegacyCheck(r) \/ Upload(r) \/ ReadSchema(r) \/ ImportInitial(r)
        PROVE  UNCHANGED <<admins, complete>>
    BY <1>5 DEF Start, Preflight, ReadStatus, ListSecrets, LegacyCheck, Upload, ReadSchema,
                ImportInitial, Installation, Database
  <1>6. ASSUME NEW r \in Runs,
               \/ ListMigrations(r) \/ ApplyMigration(r) \/ VerifyMigrations(r)
               \/ InsertUser(r) \/ CheckAdministrator(r) \/ VerifyCandidate(r)
        PROVE  UNCHANGED <<admins, complete>>
    BY <1>6 DEF ListMigrations, ApplyMigration, VerifyMigrations, InsertUser,
                CheckAdministrator, VerifyCandidate, Installation
  <1>7. ASSUME NEW r \in Runs,
               \/ Promote(r) \/ Deploy(r) \/ MarkPromoted(r) \/ SmokeTest(r)
               \/ Rollback(r) \/ CommandFails(r)
        PROVE  UNCHANGED <<admins, complete>>
    BY <1>7 DEF Promote, Deploy, MarkPromoted, SmokeTest, Rollback, CommandFails,
                Installation, Database
  <1> QED
    BY <1>1, <1>2, <1>3, <1>4, <1>5, <1>6, <1>7 DEF Next, RunStep

LEMMA NextInv == IInv /\ [Next]_vars => IInv'
  <1> SUFFICES ASSUME IInv, [Next]_vars PROVE IInv'
    OBVIOUS
  <1>1. Safe /\ AdminInv
    BY DEF IInv, OrderInv, Safe
  <1>2. Safe'
    BY <1>1, OutsideSafe, RunStepSafe DEF Next
  <1>3. AdminInv'
    BY <1>1, NextAdmin
  <1> QED
    BY <1>2, <1>3 DEF IInv, OrderInv, Safe

LEMMA AlwaysInv == Spec => []IInv
  BY InitInv, NextInv, PTL DEF Spec

(* Every value the scripts and the installation reach has its shape        *)
(* (release.mjs, deployment-bootstrap.mjs, bootstrap-admin.mjs).           *)
THEOREM TypeCorrect == Spec => []TypeOK
  <1>1. IInv => TypeOK
    BY DEF IInv, Records
  <1> QED
    BY <1>1, AlwaysInv, PTL

(* Whatever releases, bootstraps and rollbacks overlap, and wherever any   *)
(* command fails, the live code has its migrations, one user at most is the*)
(* administrator, and a failed workflow leaves nothing of its own live.    *)
THEOREM LeavesInOrder == Spec => []LeavesOrder
  <1>1. IInv => LeavesOrder
    <2> SUFFICES ASSUME IInv PROVE LeavesOrder
      OBVIOUS
    <2>1. SchemaServesCode
      BY DEF IInv, OrderInv, SchemaInv, Served, SchemaServesCode
    <2>2. OneAdministrator
      <3>1. Cardinality({}) = 0 /\ \A a \in admins : Cardinality({a}) = 1
        BY FS_EmptySet, FS_Singleton
      <3> QED
        BY <3>1 DEF IInv, OrderInv, AdminInv, OneAdministrator
    <2>3. FailedReleaseIsGone
      BY DEF IInv, OrderInv, RollbackInv, Excused, NotBy, FailedReleaseIsGone, At
    <2> QED
      BY <2>1, <2>2, <2>3 DEF LeavesOrder
  <1> QED
    BY <1>1, AlwaysInv, PTL

(* A release that generates the encryption key, that nothing crossed and   *)
(* that could read the deployment never puts a version live that cannot    *)
(* decrypt the stored credentials (assertLegacyCredentialCompatibility).   *)
THEOREM KeysStayReadable == Spec => KeepsCredentialsReadable
  <1> DEFINE Keeps(r) ==
         (/\ live' # live /\ run[r]' # run[r] /\ r \notin crossed
          /\ run[r].kind \in {"local", "workflow"}
          /\ run[r].key # None /\ run[r].previous # 0 /\ Readable) => Readable'
  <1>1. ASSUME IInv, [Next]_vars PROVE \A r \in Runs : Keeps(r)
    <2> SUFFICES ASSUME NEW r \in Runs, live' # live, run[r]' # run[r], r \notin crossed,
                        run[r].kind \in {"local", "workflow"},
                        run[r].key # None, run[r].previous # 0
                 PROVE  Readable'
      OBVIOUS
    <2>1. TypeOK /\ Manifests /\ KeyInv
      BY <1>1 DEF IInv, Records
    <2>2. PICK q \in Runs : Promote(q) \/ Deploy(q) \/ Rollback(q)
      BY <1>1 DEF Next, RunStep, Merge, StoreCredential, Start, Preflight, ReadStatus, ListSecrets,
         LegacyCheck, Upload, ReadSchema, ImportInitial, ListMigrations, ApplyMigration,
         VerifyMigrations, CountAdministrators, InsertUser, InsertRole, CompleteInstallation,
         CheckAdministrator, VerifyCandidate, MarkPromoted, SmokeTest, CommandFails,
         Installation, Deployment, vars
    <2>3. q = r
      <3>1. \E row : run' = [run EXCEPT ![q] = row]
        <4>1. CASE Promote(q) \/ Rollback(q)
          BY <4>1 DEF Promote, Rollback, Go
        <4>2. CASE Deploy(q)
          <5>1. run' = [run EXCEPT ![q] = [run[q] EXCEPT !.candidate = Latest + 1,
                                                         !.step = AfterLive(q)]]
            BY <2>1, <4>2, Rows DEF Deploy
          <5> QED
            BY <5>1
        <4> QED
          BY <2>2, <4>1, <4>2
      <3> QED
        BY <2>1, <3>1, Rows
    <2>4. Checked(r)
      <3>1. CASE Promote(r) \/ Deploy(r)
        BY <3>1 DEF Promote, Deploy, At, Checked, Relying, Finished
      <3>2. CASE Rollback(r)
        BY <3>2 DEF Rollback, At, Checked, Relying, Finished
      <3> QED
        BY <2>2, <2>3, <3>1, <3>2
    <2>5. credentials = {}
      BY <2>1, <2>4 DEF KeyInv
    <2>6. credentials' = credentials
      BY <2>2 DEF Promote, Deploy, Rollback, Database
    <2> QED
      BY <2>5, <2>6 DEF Readable
  <1>2. IInv /\ [Next]_vars => [\A r \in Runs : Keeps(r)]_vars
    BY <1>1
  <1>3. Spec => [][\A r \in Runs : Keeps(r)]_vars
    BY <1>2, AlwaysInv, PTL DEF Spec
  <1> QED
    BY <1>3 DEF KeepsCredentialsReadable
=============================================================================
