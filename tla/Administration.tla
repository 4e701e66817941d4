--------------------------- MODULE Administration ---------------------------
(* Calls of the HTTP interface that administer users, roles, mailboxes,      *)
(* domains, provider connections and settings, running concurrently against  *)
(* one D1 database.                                                          *)
(*                                                                           *)
(* A statement or a batch of D1 is one action; between two statements of a   *)
(* handler other calls run.  Mutations under /api/v1/admin pass through      *)
(* requireAdminIdempotency, which looks a record up before the handler and   *)
(* writes it afterwards.  Rows are named by what their table keeps unique:   *)
(* a user by email, a mailbox by address, a domain by name, a connection by  *)
(* label; no behaviour deletes a domain and creates it again.                *)
EXTENDS Naturals, FiniteSets

CONSTANTS
    Users,           \* emails
    Roles,           \* custom roles; the system roles never change
    Mailboxes,       \* addresses
    Domains,
    DomainOf,        \* the domain of an address
    Connections,
    Secrets,         \* values of an API key or a webhook secret
    Slots,           \* calls that can be in flight together
    Keys,            \* Idempotency-Key values
    Menus,           \* each behaviour issues the operations of one of these
    Seed,            \* rows present at the start
    MaxUses,         \* uses of the one registration key
    MaxCalls,        \* bound: calls of a behaviour
    MaxFaults,       \* bound: crashes and expiries of a behaviour
    None

VARIABLES
    db,              \* the tables
    records,         \* idempotency_records: key, operation and liveness
    call,            \* per slot: the handler's position, input and locals
    menu,            \* the operations of this behaviour
    calls, faults,   \* counters for the bounds
    hist             \* what happened, for the properties only

vars == <<db, records, call, menu, calls, faults, hist>>

ASSUME AdministrationAssumption ==
    /\ DomainOf \in [Mailboxes -> Domains] /\ IsFiniteSet(Mailboxes)
    /\ MaxUses \in Nat /\ MaxCalls \in Nat /\ MaxFaults \in Nat
    /\ None \notin Users \cup Secrets \cup Connections \cup Keys \cup {"key"}

MemberRoles == {"viewer", "admin"}

Settings == [enabled : BOOLEAN, invite : BOOLEAN, quota : Nat]

Tables ==
    [ user     : [Users -> {"absent", "active", "suspended", "deleted"}],
      role     : SUBSET Roles,
      assigned : [Users -> SUBSET Roles],
      domain   : [Domains -> [status : {"absent", "active", "disabled"},
                              conn   : Connections \cup {None}]],
      mailbox  : [Mailboxes -> [status : {"absent", "active", "deleted"},
                                owner  : Users \cup {None}]],
      member   : [Mailboxes -> [Users -> MemberRoles \cup {None}]],
      conn     : [Connections -> {"absent", "active", "disabled"}],
      secret   : [Connections -> [api : Secrets \cup {None}, hook : Secrets \cup {None}]],
      settings : Settings,
      used     : 0..MaxUses ]

(* The foreign keys that no statement of a handler may leave broken: a       *)
(* user's roles exist, and a mailbox's domain does.                          *)
References(tables) ==
    /\ \A u \in Users : tables.assigned[u] \subseteq tables.role
    /\ \A m \in Mailboxes :
         tables.mailbox[m].status # "absent" => tables.domain[DomainOf[m]].status # "absent"

ASSUME SeedAssumption ==
    /\ Seed \in Tables /\ References(Seed) /\ Seed.used = 0
    /\ \A u \in Users :
         Cardinality({m \in Mailboxes : Seed.mailbox[m] = [status |-> "active", owner |-> u]})
           <= Seed.settings.quota

(* The kinds served under /api/v1/admin, behind the idempotency middleware.  *)
AdminKinds ==
    {"CreateUser", "UpdateUser", "DeleteUser", "AddAccess", "UpdateAccess",
     "RemoveAccess", "CreateRole", "DeleteRole", "UpdateDomain",
     "DeleteDomain", "CreateConnection", "UpdateConnection", "UpdateSettings"}

(* One operation with the fields its kind uses; Request fills in the others. *)
Blank == [kind |-> None, by |-> None, user |-> None, role |-> None,
          status |-> None, mailbox |-> None, domain |-> None, conn |-> None,
          api |-> None, hook |-> None, roles |-> None, set |-> <<>>]

Request(fields) ==
    [f \in DOMAIN Blank |-> IF f \in DOMAIN fields THEN fields[f] ELSE Blank[f]]

(* Method and path: what idempotency_records calls the operation.  The rest  *)
(* of an operation is its body, which the request hash covers.               *)
Path(op) ==
    CASE op.kind \in {"CreateUser", "CreateRole", "CreateConnection", "UpdateSettings"}
           -> <<op.by, op.kind>>
      [] op.kind = "AddAccess"                -> <<op.by, op.kind, op.user>>
      [] op.kind \in {"UpdateUser", "DeleteUser"}   -> <<op.by, op.kind, op.user>>
      [] op.kind = "DeleteRole"               -> <<op.by, op.kind, op.role>>
      [] op.kind \in {"UpdateAccess", "RemoveAccess"}
           -> <<op.by, op.kind, op.user, op.mailbox>>
      [] op.kind \in {"UpdateDomain", "DeleteDomain"} -> <<op.by, op.kind, op.domain>>
      [] OTHER                                -> <<op.by, op.kind, op.conn>>

(* What the schemas of the routes let through: each kind has its fields, and *)
(* an update of the settings sets every column at most once.                 *)
WellFormed(op) ==
    /\ op.by \in Users /\ Path(op) # None
    /\ op.kind \in {"CreateMailbox", "RemoveMailbox", "UpsertMember", "RemoveMember",
                    "AddAccess", "UpdateAccess", "RemoveAccess"} => op.mailbox \in Mailboxes
    /\ op.kind \in {"UpsertMember", "RemoveMember", "AddAccess", "UpdateAccess",
                    "RemoveAccess", "CreateUser", "UpdateUser", "DeleteUser",
                    "Register"} => op.user \in Users
    /\ op.kind \in {"UpsertMember", "AddAccess", "UpdateAccess"} => op.role \in MemberRoles
    /\ op.kind \in {"CreateRole", "DeleteRole"} => op.role \in Roles
    /\ op.kind = "CreateUser" => op.roles \in SUBSET Roles
    /\ op.kind = "UpdateUser" => /\ op.roles \in (SUBSET Roles) \cup {None}
                                /\ op.status \in {None, "active", "suspended"}
    /\ op.kind \in {"UpdateDomain", "DeleteDomain"} => op.domain \in Domains
    /\ op.kind = "UpdateDomain" => /\ op.status \in {None, "active", "disabled"}
                                  /\ op.conn \in Connections \cup {None}
    /\ op.kind \in {"CreateConnection", "UpdateConnection"} =>
         /\ op.conn \in Connections /\ op.status \in {None, "active", "disabled"}
         /\ op.api \in Secrets \cup {None} /\ op.hook \in Secrets \cup {None}
    /\ op.kind = "UpdateSettings" =>
         LET n == Cardinality(DOMAIN op.set) IN
         /\ IsFiniteSet(DOMAIN op.set) /\ n > 0 /\ DOMAIN op.set = 1..n
         /\ \A i \in 1..n : \/ op.set[i][1] = "quota" /\ op.set[i][2] \in Nat
                            \/ op.set[i][1] \in {"enabled", "invite"} /\ op.set[i][2] \in BOOLEAN
         /\ \A i, j \in 1..n : op.set[i][1] = op.set[j][1] => i = j

ASSUME MenuAssumption == \A ops \in Menus : \A op \in ops : WellFormed(op)

-----------------------------------------------------------------------------
Idle == [at |-> "idle", op |-> Blank, key |-> None, seen |-> None]

Init ==
    /\ menu \in Menus
    /\ db = Seed
    /\ records = {}
    /\ call = [s \in Slots |-> Idle]
    /\ calls = 0 /\ faults = 0
    /\ hist = [ran |-> [k \in Keys |-> 0], intent |-> [k \in Keys |-> None],
               raced |-> {}, invited |-> {}, topQuota |-> Seed.settings.quota,
               asked |-> Seed.secret, wanted |-> Seed.settings]

(* Slot s holds a call of this kind at this place.                           *)
At(s, kind, place) == call[s].at = place /\ call[s].op.kind = kind

(* Another call of the same kind, on the same thing, has already read what   *)
(* it will decide on.                                                        *)
Overlaps(s, Same(_, _)) ==
    \E t \in Slots \ {s} :
        /\ call[t].op.kind = call[s].op.kind /\ call[t].at = "write"
        /\ Same(call[t], call[s])

Goes(s, place) == call' = [call EXCEPT ![s].at = place]

(* The handler answers an error: nothing is recorded.                        *)
Refuses(s) ==
    /\ call' = [call EXCEPT ![s] = Idle]
    /\ UNCHANGED <<db, records, menu, calls, faults, hist>>

(* The handler succeeds.  Under /admin the middleware still has to record    *)
(* the response; other calls are over.                                       *)
Succeeds(s, h) ==
    LET k == call[s].key
    IN  /\ call' = IF k = None THEN [call EXCEPT ![s] = Idle]
                               ELSE [call EXCEPT ![s].at = "record"]
        /\ hist' = IF k = None THEN h ELSE [h EXCEPT !.ran[k] = @ + 1]
        /\ UNCHANGED <<records, menu, calls, faults>>

-----------------------------------------------------------------------------
(* requireAdminIdempotency                                                   *)

(* A client sends an operation.  A key stands for one path: it is sent again *)
(* as a retry, or by mistake with another body.                              *)
Arrive(s) ==
    /\ call[s].at = "idle" /\ calls < MaxCalls
    /\ \E op \in menu :
        /\ op.kind = "Register" \/ db.user[op.by] # "absent"
        /\ IF op.kind \in AdminKinds
         THEN \E k \in Keys :
                /\ hist.intent[k] \in {None, Path(op)}
                /\ call' = [call EXCEPT ![s] =
                     [at |-> "lookup", op |-> op, key |-> k, seen |-> None]]
                /\ hist' = [hist EXCEPT
                     !.intent[k] = Path(op),
                     !.raced = @ \cup {k : t \in {t \in Slots : call[t].key = k}}]
         ELSE /\ call' = [call EXCEPT ![s] =
                   [at |-> "read", op |-> op, key |-> None, seen |-> None]]
              /\ UNCHANGED hist
    /\ calls' = calls + 1
    /\ UNCHANGED <<db, records, menu, faults>>

RecordsFor(s) ==
    {r \in records : r.key = call[s].key /\ Path(r.op) = Path(call[s].op)}

(* Mutant: the lookup asks for the request hash as well as for the key.      *)
LiveRecordsForBody(s) == {r \in RecordsFor(s) : r.live /\ r.op = call[s].op}

LiveRecordsFor(s) == {r \in RecordsFor(s) : r.live}

(* A live record answers the call: its response if the body is the same, 409 *)
(* IDEMPOTENCY_KEY_REUSED if not.                                            *)
AnswerFromRecord(s) ==
    /\ call[s].at = "lookup" /\ LiveRecordsFor(s) # {}
    /\ Refuses(s)

(* No live record: the handler runs.                                         *)
Forward(s) ==
    /\ call[s].at = "lookup" /\ LiveRecordsFor(s) = {}
    /\ Goes(s, "read")
    /\ UNCHANGED <<db, records, menu, calls, faults, hist>>

(* After a 2xx response the record is inserted.  Any row for the key, one    *)
(* that has expired too, makes the INSERT fail: the caller gets an error for *)
(* a mutation that was made.                                                 *)
Record(s) ==
    /\ call[s].at = "record"
    /\ records' = IF RecordsFor(s) = {}
                  THEN records \cup {[key |-> call[s].key, op |-> call[s].op,
                                      live |-> TRUE]}
                  ELSE records
    /\ call' = [call EXCEPT ![s] = Idle]
    /\ UNCHANGED <<db, menu, calls, faults, hist>>

(* A day passes for a record; later the daily cleanup deletes it.            *)
Expire ==
    /\ faults < MaxFaults
    /\ \E r \in records :
         /\ r.live
         /\ records' = (records \ {r}) \cup {[r EXCEPT !.live = FALSE]}
         /\ hist' = [hist EXCEPT !.raced = @ \cup {r.key}]
    /\ faults' = faults + 1
    /\ UNCHANGED <<db, call, menu, calls>>

Cleanup ==
    /\ \E r \in records : ~r.live
    /\ records' = {r \in records : r.live}
    /\ UNCHANGED <<db, call, menu, calls, faults, hist>>

(* The worker stops in the middle of a call.                                 *)
Crash(s) ==
    /\ call[s].at \notin {"idle", "lookup"} /\ faults < MaxFaults
    /\ call' = [call EXCEPT ![s] = Idle]
    /\ faults' = faults + 1
    /\ hist' = [hist EXCEPT !.raced = @
         \cup (IF call[s].at = "record" THEN {call[s].key} ELSE {})
         \cup (IF At(s, "UpdateSettings", "write") THEN {"settings"} ELSE {})]
    /\ UNCHANGED <<db, records, menu, calls>>

-----------------------------------------------------------------------------
(* Mailboxes and their members: the owner, a member or a user administrator. *)

Exists(m) == db.mailbox[m].status = "active"

Owned(u) == {m \in Mailboxes : Exists(m) /\ db.mailbox[m].owner = u}

(* Owners and mailbox admins manage members.                                 *)
Manages(u, m) ==
    Exists(m) /\ (db.mailbox[m].owner = u \/ db.member[m][u] = "admin")

(* A check that lets the handler go on to its write, or refuses the call.    *)
Checks(s, holds) ==
    IF holds
    THEN Goes(s, "write") /\ UNCHANGED <<db, records, menu, calls, faults, hist>>
    ELSE Refuses(s)

ReadDomain(s) ==
    /\ At(s, "CreateMailbox", "read")
    /\ IF db.domain[DomainOf[call[s].op.mailbox]].status = "active"
       THEN Goes(s, "quota") /\ UNCHANGED <<db, records, menu, calls, faults, hist>>
       ELSE Refuses(s)

ReadQuota(s) ==
    /\ At(s, "CreateMailbox", "quota")
    /\ Checks(s, Cardinality(Owned(call[s].op.by)) < db.settings.quota)

SameCaller(a, b) == a.op.by = b.op.by

(* An address is taken once and for all, by a deleted mailbox too; the       *)
(* foreign key wants the domain's row.                                       *)
InsertMailbox(s) ==
    LET op == call[s].op
    IN  /\ At(s, "CreateMailbox", "write")
        /\ IF /\ db.mailbox[op.mailbox].status = "absent"
              /\ db.domain[DomainOf[op.mailbox]].status # "absent"
           THEN /\ db' = [db EXCEPT !.mailbox[op.mailbox] =
                                      [status |-> "active", owner |-> op.by]]
                /\ Succeeds(s, IF Overlaps(s, SameCaller)
                               THEN [hist EXCEPT !.raced = @ \cup {op.by}]
                               ELSE hist)
           ELSE Refuses(s)

CheckRemoveMailbox(s) ==
    /\ At(s, "RemoveMailbox", "read")
    /\ Checks(s, call[s].op.mailbox \in Owned(call[s].op.by))

RemoveMailbox(s) ==
    /\ At(s, "RemoveMailbox", "write")
    /\ db' = [db EXCEPT !.mailbox[call[s].op.mailbox].status = "deleted"]
    /\ Succeeds(s, hist)

CheckUpsertMember(s) ==
    LET op == call[s].op
    IN  /\ At(s, "UpsertMember", "read")
        /\ Checks(s, /\ Manages(op.by, op.mailbox)
                     /\ db.mailbox[op.mailbox].owner # op.user)

CheckRemoveMember(s) ==
    LET op == call[s].op
    IN  /\ At(s, "RemoveMember", "read")
        /\ Checks(s, op.by = op.user \/ Manages(op.by, op.mailbox))

RemoveMember(s) ==
    /\ At(s, "RemoveMember", "write")
    /\ db' = [db EXCEPT !.member[call[s].op.mailbox][call[s].op.user] = None]
    /\ Succeeds(s, hist)

(* addUserMailboxAccess, updateUserMailboxAccess, removeUserMailboxAccess    *)
CheckAccess(s) ==
    LET op == call[s].op
    IN  /\ call[s].at = "read"
        /\ op.kind \in {"AddAccess", "UpdateAccess", "RemoveAccess"}
        /\ Checks(s, /\ db.user[op.user] \notin {"absent", "deleted"}
                     /\ Exists(op.mailbox)
                     /\ db.mailbox[op.mailbox].owner # op.user)

(* INSERT ... ON CONFLICT DO UPDATE.                                         *)
PutMember(s) ==
    LET op == call[s].op
    IN  /\ call[s].at = "write" /\ op.kind \in {"UpsertMember", "AddAccess"}
        /\ IF db.user[op.user] # "absent"
           THEN /\ db' = [db EXCEPT !.member[op.mailbox][op.user] = op.role]
                /\ Succeeds(s, hist)
           ELSE Refuses(s)

(* UPDATE or DELETE of a membership that must still be there.                *)
ChangeAccess(s) ==
    LET op == call[s].op
    IN  /\ call[s].at = "write" /\ op.kind \in {"UpdateAccess", "RemoveAccess"}
        /\ IF db.member[op.mailbox][op.user] # None
           THEN /\ db' = [db EXCEPT !.member[op.mailbox][op.user] =
                            IF op.kind = "UpdateAccess" THEN op.role ELSE None]
                /\ Succeeds(s, hist)
           ELSE Refuses(s)

-----------------------------------------------------------------------------
(* Users, roles and registration.  What these do to sessions is in Sessions. *)

CreateUser(s) ==
    LET op == call[s].op
    IN  /\ At(s, "CreateUser", "read")
        /\ IF db.user[op.user] = "absent" /\ op.roles \subseteq db.role
           THEN /\ db' = [db EXCEPT !.user[op.user] = "active",
                                    !.assigned[op.user] = op.roles]
                /\ Succeeds(s, hist)
           ELSE Refuses(s)

(* One batch: a role that is gone, or a user, undoes the change of status.   *)
(* The roles of a deleted user change; the status does not.                  *)
UpdateUser(s) ==
    LET op == call[s].op
        gone == db.user[op.user] \in {"absent", "deleted"}
    IN  /\ At(s, "UpdateUser", "read")
        /\ IF \/ op.roles = None
              \/ /\ op.roles \subseteq db.role
                 /\ op.roles # {} => db.user[op.user] # "absent"
           THEN /\ db' = [db EXCEPT
                     !.user[op.user] = IF gone \/ op.status = None THEN @ ELSE op.status,
                     !.assigned[op.user] = IF op.roles = None THEN @ ELSE op.roles]
                /\ Succeeds(s, hist)
           ELSE Refuses(s)

DeleteUser(s) ==
    LET op == call[s].op
    IN  /\ At(s, "DeleteUser", "read")
        /\ IF op.by = op.user
           THEN Refuses(s)
           ELSE /\ db' = [db EXCEPT !.user[op.user] =
                                      IF @ = "absent" THEN @ ELSE "deleted"]
                /\ Succeeds(s, hist)

CreateRole(s) ==
    LET op == call[s].op
    IN  /\ At(s, "CreateRole", "read")
        /\ IF op.role \in db.role
           THEN Refuses(s)
           ELSE db' = [db EXCEPT !.role = @ \cup {op.role}] /\ Succeeds(s, hist)

(* The foreign key of user_roles cascades.                                   *)
DeleteRole(s) ==
    LET op == call[s].op
    IN  /\ At(s, "DeleteRole", "read")
        /\ IF op.role \in db.role
           THEN /\ db' = [db EXCEPT
                     !.role = @ \ {op.role},
                     !.assigned = [u \in Users |-> @[u] \ {op.role}]]
                /\ Succeeds(s, hist)
           ELSE Refuses(s)

(* register reads the settings, then the key if one is required.             *)
ReadRegistration(s) ==
    /\ At(s, "Register", "read")
    /\ IF db.settings.enabled
       THEN /\ call' = [call EXCEPT ![s].at =
                          IF db.settings.invite THEN "invitation" ELSE "write"]
            /\ UNCHANGED <<db, records, menu, calls, faults, hist>>
       ELSE Refuses(s)

ReadInvitation(s) ==
    /\ At(s, "Register", "invitation")
    /\ IF db.used < MaxUses
       THEN /\ call' = [call EXCEPT ![s].at = "write", ![s].seen = "key"]
            /\ UNCHANGED <<db, records, menu, calls, faults, hist>>
       ELSE Refuses(s)

BothInvited(a, b) == a.seen = "key" /\ b.seen = "key"

(* Mutant: the batch does not count the use of the key.                      *)
InsertUserUncounted(s) ==
    LET u == call[s].op.user
    IN  /\ At(s, "Register", "write")
        /\ IF db.user[u] = "absent"
           THEN /\ db' = [db EXCEPT !.user[u] = "active"]
                /\ Succeeds(s, [hist EXCEPT !.invited = @ \cup {u}])
           ELSE Refuses(s)

(* The batch counts the use only while uses are left, and does not look at   *)
(* how many rows that changed.                                               *)
InsertUser(s) ==
    LET u == call[s].op.user
        keyed == call[s].seen = "key"
    IN  /\ At(s, "Register", "write")
        /\ IF db.user[u] = "absent"
           THEN /\ db' = [db EXCEPT !.user[u] = "active",
                     !.used = IF keyed /\ @ < MaxUses THEN @ + 1 ELSE @]
                /\ Succeeds(s, [hist EXCEPT
                     !.invited = IF keyed THEN @ \cup {u} ELSE @,
                     !.raced = IF keyed /\ Overlaps(s, BothInvited)
                               THEN @ \cup {"invitation"} ELSE @])
           ELSE Refuses(s)

-----------------------------------------------------------------------------
(* Domains, provider connections and settings                                *)

CheckUpdateDomain(s) ==
    LET op == call[s].op
    IN  /\ At(s, "UpdateDomain", "read")
        /\ Checks(s, /\ db.domain[op.domain].status # "absent"
                     /\ op.conn # None => db.conn[op.conn] = "active")

(* A domain that was deleted since the check is not brought back.            *)
UpdateDomain(s) ==
    LET op == call[s].op
    IN  /\ At(s, "UpdateDomain", "write")
        /\ db' = [db EXCEPT !.domain[op.domain] =
             IF @.status = "absent" THEN @
             ELSE [status |-> IF op.status = None THEN @.status ELSE op.status,
                   conn   |-> IF op.conn = None THEN @.conn ELSE op.conn]]
        /\ Succeeds(s, hist)

CheckDeleteDomain(s) ==
    /\ At(s, "DeleteDomain", "read")
    /\ Checks(s, \A m \in Mailboxes : Exists(m) => DomainOf[m] # call[s].op.domain)

(* Mutant: the DELETE relies on the check and on no foreign key.             *)
DeleteDomainUnreferenced(s) ==
    /\ At(s, "DeleteDomain", "write")
    /\ db' = [db EXCEPT !.domain[call[s].op.domain].status = "absent"]
    /\ Succeeds(s, hist)

(* The foreign key of mailboxes refuses: a deleted mailbox keeps its row, so *)
(* a domain that ever had one stays.                                         *)
DeleteDomain(s) ==
    LET d == call[s].op.domain
    IN  /\ At(s, "DeleteDomain", "write")
        /\ IF \A m \in Mailboxes : DomainOf[m] = d => db.mailbox[m].status = "absent"
           THEN /\ db' = [db EXCEPT !.domain[d] = [status |-> "absent", conn |-> None]]
                /\ Succeeds(s, hist)
           ELSE Refuses(s)

(* The provider may turn the credentials down.                               *)
CheckCreateConnection(s) ==
    /\ At(s, "CreateConnection", "read")
    /\ \E accepted \in BOOLEAN : Checks(s, accepted)

CreateConnection(s) ==
    LET op == call[s].op
        pair == [api |-> op.api, hook |-> op.hook]
    IN  /\ At(s, "CreateConnection", "write")
        /\ IF db.conn[op.conn] = "absent"
           THEN /\ db' = [db EXCEPT !.conn[op.conn] = "active",
                                    !.secret[op.conn] = pair]
                /\ Succeeds(s, [hist EXCEPT !.asked[op.conn] = pair])
           ELSE Refuses(s)

ReadConnection(s) ==
    LET op == call[s].op
    IN  /\ At(s, "UpdateConnection", "read")
        /\ IF db.conn[op.conn] # "absent"
           THEN /\ call' = [call EXCEPT ![s].at = "write",
                                        ![s].seen = db.secret[op.conn]]
                /\ UNCHANGED <<db, records, menu, calls, faults, hist>>
           ELSE Refuses(s)

(* The secrets of an update on top of those it is given.                     *)
Rotated(secrets, op) ==
    [api  |-> IF op.api = None THEN secrets.api ELSE op.api,
     hook |-> IF op.hook = None THEN secrets.hook ELSE op.hook]

SameConnection(a, b) == a.op.conn = b.op.conn

(* Mutant: a half that the input leaves out is emptied.                      *)
WriteConnectionWhole(s) ==
    LET op == call[s].op
    IN  /\ At(s, "UpdateConnection", "write")
        /\ db' = [db EXCEPT !.secret[op.conn] = [api |-> op.api, hook |-> op.hook]]
        /\ Succeeds(s, [hist EXCEPT !.asked[op.conn] = Rotated(@, op)])

(* The payload is written whole, from the secrets read before.               *)
WriteConnection(s) ==
    LET op == call[s].op
    IN  /\ At(s, "UpdateConnection", "write")
        /\ db' = [db EXCEPT
             !.conn[op.conn] = IF op.status = None THEN @ ELSE op.status,
             !.secret[op.conn] = IF op.api = None /\ op.hook = None THEN @
                                 ELSE Rotated(call[s].seen, op)]
        /\ Succeeds(s, [hist EXCEPT
             !.asked[op.conn] = Rotated(@, op),
             !.raced = IF Overlaps(s, SameConnection) THEN @ \cup {op.conn} ELSE @])

(* updateSettings writes one column after the other.                         *)
StartSettings(s) ==
    /\ At(s, "UpdateSettings", "read")
    /\ call' = [call EXCEPT ![s].at = "write", ![s].seen = 1]
    /\ hist' = IF \E t \in Slots : At(t, "UpdateSettings", "write")
               THEN [hist EXCEPT !.raced = @ \cup {"settings"}] ELSE hist
    /\ UNCHANGED <<db, records, menu, calls, faults>>

ApplySetting(s) ==
    LET op == call[s].op
        i == call[s].seen
        key == op.set[i][1]
        value == op.set[i][2]
        top == IF key = "quota" /\ value > hist.topQuota THEN value ELSE hist.topQuota
        applied == [f \in DOMAIN hist.wanted |->
                      IF \E j \in DOMAIN op.set : op.set[j][1] = f
                      THEN op.set[CHOOSE j \in DOMAIN op.set : op.set[j][1] = f][2]
                      ELSE hist.wanted[f]]
    IN  /\ At(s, "UpdateSettings", "write")
        /\ db' = [db EXCEPT !.settings[key] = value]
        /\ IF i = Cardinality(DOMAIN op.set)
           THEN Succeeds(s, [hist EXCEPT !.topQuota = top, !.wanted = applied])
           ELSE /\ call' = [call EXCEPT ![s].seen = i + 1]
                /\ hist' = [hist EXCEPT !.topQuota = top]
                /\ UNCHANGED <<records, menu, calls, faults>>

-----------------------------------------------------------------------------
MailboxCall(s) ==
    \/ ReadDomain(s) \/ ReadQuota(s) \/ InsertMailbox(s)
    \/ CheckRemoveMailbox(s) \/ RemoveMailbox(s)
    \/ CheckUpsertMember(s) \/ CheckRemoveMember(s) \/ RemoveMember(s)
    \/ CheckAccess(s) \/ PutMember(s) \/ ChangeAccess(s)

UserCall(s) ==
    \/ CreateUser(s) \/ UpdateUser(s) \/ DeleteUser(s)
    \/ CreateRole(s) \/ DeleteRole(s)
    \/ ReadRegistration(s) \/ ReadInvitation(s) \/ InsertUser(s)

DomainCall(s) ==
    \/ CheckUpdateDomain(s) \/ UpdateDomain(s)
    \/ CheckDeleteDomain(s) \/ DeleteDomain(s)
    \/ CheckCreateConnection(s) \/ CreateConnection(s)
    \/ ReadConnection(s) \/ WriteConnection(s)
    \/ StartSettings(s) \/ ApplySetting(s)

Next ==
    \/ Expire \/ Cleanup
    \/ \E s \in Slots :
         \/ Arrive(s) \/ AnswerFromRecord(s) \/ Forward(s) \/ Record(s) \/ Crash(s)
         \/ MailboxCall(s) \/ UserCall(s) \/ DomainCall(s)

Spec == Init /\ [][Next]_vars

-----------------------------------------------------------------------------
(* Types, and the foreign keys.                                              *)
TypeOK ==
    /\ db \in Tables /\ References(db)
    /\ \A r \in records : r.key \in Keys /\ r.op \in menu /\ r.live \in BOOLEAN
    /\ \A s \in Slots : call[s] # Idle => call[s].op \in menu

(* A mutation sent again under its Idempotency-Key runs once, with any body, *)
(* unless two calls with the key were in flight together, the worker stopped *)
(* before the record was written, or the record had expired.                 *)
OnceUndisturbed == \A k \in Keys : hist.ran[k] > 1 => k \in hist.raced

(* Limits that are counted before something is inserted are exceeded by      *)
(* overlap alone.  A user owns more mailboxes than the largest quota there   *)
(* ever was, and a registration key admits more users than its limit, only   *)
(* if two requests had both counted before either inserted; the key's own    *)
(* counter is exact up to the limit all the same.                            *)
LimitsHold ==
    LET users == Cardinality(hist.invited)
    IN  /\ \A u \in Users : Cardinality(Owned(u)) > hist.topQuota => u \in hist.raced
        /\ users > MaxUses => "invitation" \in hist.raced
        /\ db.used = IF users < MaxUses THEN users ELSE MaxUses

(* What was asked for is what is stored, whole: a connection holds its API   *)
(* key and its webhook secret as each was last set, and the settings are     *)
(* what the finished updates made them, unless two updates of the same thing *)
(* overlapped or one was cut short.                                          *)
UpdatesStick ==
    /\ \A c \in Connections : c \notin hist.raced => db.secret[c] = hist.asked[c]
    /\ \/ "settings" \in hist.raced
       \/ \E s \in Slots : At(s, "UpdateSettings", "write")
       \/ db.settings = hist.wanted

=============================================================================
