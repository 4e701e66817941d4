------------------------------ MODULE Console ------------------------------
(***************************************************************************)
(* The administrators' console: tables with their dialogs, the settings    *)
(* and signature editors, and the mailbox access of a user, over the       *)
(* client's query cache.  A dialog edits a snapshot of its row and saves   *)
(* every field it shows; nothing carries a version.  A save that succeeds  *)
(* marks its list stale, and its dialog closes when the list has come.     *)
(*                                                                         *)
(* One statement of the worker serves a save (its idempotency, locks and   *)
(* quotas are Administration's).  The query library is external: an        *)
(* invalidation restarts the fetch of a query on the screen, and data      *)
(* equal to the old are the old.                                           *)
(***************************************************************************)
EXTENDS Naturals, FiniteSets

CONSTANTS
    Resources,   \* pages of the console; a behaviour stays on one
    Ids,         \* rows: users, roles, domains, mailboxes
    First,       \* the row that exists at the start
    MaxClicks,   \* bound: what the administrator does
    MaxOthers,   \* bound: what others do, and calls lost
    None, Deleted, Blank, Other

-----------------------------------------------------------------------------
(* Forms                                                                     *)

(* What a form shows, two representative fields each, and which of them it   *)
(* sends even when they are empty: a dialog leaves an empty name, status or  *)
(* key out of the body.                                                      *)
UserForm == [shows |-> {"displayName", "roleIds"}, always |-> {"roleIds"}]
RoleForm == [shows |-> {"description", "permissions"},
             always |-> {"description", "permissions"}]
DomainForm == [shows |-> {"status", "outboundConnectionId"},
               always |-> {"outboundConnectionId"}]
ProviderForm == [shows |-> {"status", "apiKey"}, always |-> {}]
SettingsForm == [shows |-> {"site_title", "outbound_enabled"},
                 always |-> {"site_title", "outbound_enabled"}]
SignatureForm == [shows |-> {"html", "enabled"}, always |-> {"html", "enabled"}]
AccessForm == [shows |-> {"role"}, always |-> {"role"}]

FieldSets == {UserForm.shows, RoleForm.shows, DomainForm.shows, ProviderForm.shows,
              SettingsForm.shows, SignatureForm.shows, AccessForm.shows}

-----------------------------------------------------------------------------
(* Types, by the fields that a page shows.  A field holds the number of the  *)
(* click that wrote it.                                                      *)

Values == 0..MaxClicks \cup {Other, Blank}
Table(ids, fields) == [ids -> [fields -> Values] \cup {None, Deleted}]
Fetches(ids, fields) == [rows : Table(ids, fields) \cup {None}, waits : SUBSET Nat]

Kinds == {"edit", "create", "delete"}
Forms(fields) == [id : Ids, kind : Kinds \cup {"view"}, values : [fields -> Values],
                  of : Ids \cup {None}, n : Nat, busy : SUBSET Kinds]
Saves(fields) == [n : Nat, id : Ids, kind : Kinds, body : [fields -> Values],
                  left : SUBSET fields, form : Nat, mixed : BOOLEAN,
                  at : {"sent", "served", "answered"}]

ConsoleConstants ==
    /\ Resources \subseteq {"users", "roles", "domains", "provider-connections",
                            "settings", "signatures", "access"}
    /\ IsFiniteSet(Ids) /\ First \in Ids
    /\ MaxClicks \in Nat /\ MaxOthers \in Nat
    /\ None \notin Ids
    /\ \A fields \in FieldSets :
         /\ None \notin [fields -> Values] /\ Deleted \notin [fields -> Values]
         /\ None \notin Forms(fields)
         /\ \A ids \in SUBSET Ids : None \notin Fetches(ids, fields)

VARIABLES
    resource,   \* the page
    server,     \* rows; a field is named by the save that wrote it
    cache,      \* query cache: per query the rows it read, or None
    stale,      \* queries marked stale
    fetch,      \* per query the fetch under way, or None
    domain,     \* the domain selected in the signature editor
    form,       \* the dialog or editor, or None
    saves,      \* mutations under way
    unsure,     \* rows the cache may lack a save of (history)
    rushed,     \* rows with a save that was not waited for (history)
    clicks, others   \* counters for the bounds

cvars == <<resource, server, cache, stale, fetch, domain, form, saves, unsure, rushed,
           clicks, others>>

-----------------------------------------------------------------------------
FormOf ==
    CASE resource = "users"                -> UserForm
      [] resource = "roles"                -> RoleForm
      [] resource = "domains"              -> DomainForm
      [] resource = "provider-connections" -> ProviderForm
      [] resource = "settings"             -> SettingsForm
      [] resource = "signatures"           -> SignatureForm
      [] resource = "access"               -> AccessForm

Fields == FormOf.shows

(* Keys are never sent to the client: their fields start empty.              *)
Secret == {"apiKey"}

Editor == resource \in {"settings", "signatures"}
Creatable == resource \in {"users", "roles", "domains", "provider-connections"}
Deletable == resource \in {"users", "roles", "domains", "access"}

(* One query for a list; each signature, and the settings, have their own.   *)
Queries == IF resource = "signatures" THEN Ids ELSE {First}
QueryOf(id) == IF resource = "signatures" THEN id ELSE First
RowsOf(q) == IF resource = "signatures" THEN {q} ELSE Ids

(* The query is mounted: the list is, of the signatures the selected one, a  *)
(* user's mailboxes while the dialog that shows them is open.                *)
Mounted(q) == CASE resource = "signatures" -> q = domain
                [] resource = "access"     -> form # None
                [] OTHER                   -> TRUE

Empty == [f \in Fields |-> Blank]
Shown(row) == [f \in Fields |-> IF f \in Secret THEN Blank ELSE row[f]]
New(n) == [f \in Fields |-> n]

Form(id, kind, values) ==
    [id |-> id, kind |-> kind, values |-> values, of |-> id,
     n |-> clicks, busy |-> {}]

(* form.reset(data): what was typed since is gone.                           *)
Reset(fm, id, values) == [fm EXCEPT !.values = values, !.of = id]

Asked(waits) == [rows |-> None, waits |-> waits]

Press == clicks < MaxClicks /\ clicks' = clicks + 1
Trouble == others < MaxOthers /\ others' = others + 1

-----------------------------------------------------------------------------
(* Fetching                                                                  *)

(* The worker reads the rows.                                                *)
Read(q) ==
    /\ fetch[q] # None /\ fetch[q].rows = None
    /\ fetch' = [fetch EXCEPT ![q].rows = [id \in RowsOf(q) |-> server[id]]]
    /\ UNCHANGED <<resource, server, cache, stale, domain, form, saves, unsure, rushed,
                   clicks, others>>

(* The rows come.  An editor on them is reset when they are not what it had. *)
Arrive(q) ==
    /\ fetch[q] # None /\ fetch[q].rows # None
    /\ cache' = [cache EXCEPT ![q] = fetch[q].rows]
    /\ stale' = stale \ {q}
    /\ fetch' = [fetch EXCEPT ![q] = None]
    /\ form' = IF Editor /\ Mounted(q) /\ cache[q] # fetch[q].rows
               THEN Reset(form, form.id, Shown(fetch[q].rows[form.id])) ELSE form
    /\ UNCHANGED <<resource, server, domain, saves, unsure, rushed, clicks, others>>

(* A fetch and its retry fail; whoever waits for it goes on.                 *)
FetchFails(q) ==
    /\ fetch[q] # None /\ Trouble
    /\ fetch' = [fetch EXCEPT ![q] = None]
    /\ unsure' = unsure \cup RowsOf(q)
    /\ UNCHANGED <<resource, server, cache, stale, domain, form, saves, rushed, clicks>>

(* The window gets the focus again, more than staleTime after the last fetch.*)
ComeBack ==
    /\ Press
    /\ \E q \in Queries :
         /\ Mounted(q) /\ fetch[q] = None
         /\ fetch' = [fetch EXCEPT ![q] = Asked({})]
    /\ UNCHANGED <<resource, server, cache, stale, domain, form, saves, unsure, rushed, others>>

-----------------------------------------------------------------------------
(* The administrator                                                         *)

Cached(id) == cache[QueryOf(id)] # None /\ cache[QueryOf(id)][id] \notin {None, Deleted}

(* A dialog of the table: edit takes the row as it is shown; deleted users   *)
(* and system roles have neither edit nor delete.                            *)
OpenDialog(id, kind) ==
    /\ ~Editor /\ resource # "access" /\ form = None /\ Press
    /\ cache[First] # None
    /\ \/ kind = "edit" /\ Cached(id)
          /\ form' = Form(id, kind, Shown(cache[First][id]))
       \/ kind = "delete" /\ Deletable /\ Cached(id)
          /\ form' = Form(id, kind, Empty)
       \/ kind = "create" /\ Creatable /\ cache[First][id] = None
          /\ form' = Form(id, kind, Empty)
    /\ UNCHANGED <<resource, server, cache, stale, fetch, domain, saves, unsure, rushed, others>>

(* The view dialog of a user mounts the list of the user's mailboxes.        *)
OpenAccess ==
    /\ resource = "access" /\ form = None /\ Press
    /\ form' = Form(First, "view", Empty)
    /\ \/ fetch[First] = None /\ fetch' = [fetch EXCEPT ![First] = Asked({})]
       \/ /\ fetch[First] # None \/ (cache[First] # None /\ First \notin stale)
          /\ UNCHANGED fetch
    /\ UNCHANGED <<resource, server, cache, stale, domain, saves, unsure, rushed, others>>

(* Cancel, Escape or a click beside the dialog, whatever is being saved.     *)
Close ==
    /\ form # None /\ ~Editor /\ Press
    /\ form' = None
    /\ rushed' = rushed \cup {s.id : s \in saves}
    /\ UNCHANGED <<resource, server, cache, stale, fetch, domain, saves, unsure, others>>

(* Another domain's signature: its values come with its data, until then the *)
(* form keeps those of the domain before.                                    *)
Select(id) ==
    /\ resource = "signatures" /\ id # domain /\ Press
    /\ domain' = id
    /\ form' = LET moved == [form EXCEPT !.id = id]
               IN  IF cache[id] = None THEN moved
                   ELSE Reset(moved, id, Shown(cache[id][id]))
    /\ \/ fetch[id] = None /\ fetch' = [fetch EXCEPT ![id] = Asked({})]
       \/ /\ fetch[id] # None \/ (cache[id] # None /\ id \notin stale)
          /\ UNCHANGED fetch
    /\ UNCHANGED <<resource, server, cache, stale, saves, unsure, rushed, others>>

Save(id, kind, body, left) ==
    [n |-> clicks + 1, id |-> id, kind |-> kind, body |-> body, left |-> left,
     form |-> form.n, mixed |-> Editor /\ form.of # id, at |-> "sent"]

Send(s) ==
    /\ saves' = saves \cup {s}
    /\ form' = [form EXCEPT !.busy = @ \cup {s.kind}]

(* The values typed replace the form's; all are sent, but those a dialog     *)
(* shows empty.  The button is disabled while a save of the form is pending. *)
Submit(typed) ==
    /\ form # None /\ form.kind \in {"edit", "create", "delete"} /\ form.busy = {}
    /\ form.kind # "edit" => typed = Fields
    /\ resource = "settings" => cache[First] # None
    /\ Press
    /\ Send(Save(form.id, form.kind,
                 [f \in Fields |-> IF f \in typed THEN clicks + 1 ELSE form.values[f]],
                 {f \in Fields \ typed : f \in FormOf.always \/ form.values[f] # Blank}))
    /\ UNCHANGED <<resource, server, cache, stale, fetch, domain, unsure, rushed, others>>

(* A mailbox is added, its role picked, or it is removed; each kind waits    *)
(* only for the last of its own.                                             *)
ChangeAccess(id, kind) ==
    /\ resource = "access" /\ form # None /\ kind \notin form.busy
    /\ cache[First] # None
    /\ IF kind = "create" THEN cache[First][id] = None ELSE Cached(id)
    /\ Press
    /\ Send(Save(id, kind, New(clicks + 1), {}))
    /\ UNCHANGED <<resource, server, cache, stale, fetch, domain, unsure, rushed, others>>

-----------------------------------------------------------------------------
(* Saves                                                                     *)

(* A domain's create dialog stays for its routing instructions; an editor and*)
(* a user's mailboxes stay anyway.                                           *)
ClosesAfter(s) == ~Editor /\ resource # "access" /\ ~(resource = "domains" /\ s.kind = "create")

At(s, stage) == saves' = (saves \ {s}) \cup {[s EXCEPT !.at = stage]}
Exists(id) == server[id] \notin {None, Deleted}

(* A field left out of the body keeps its value.                             *)
Written(s) ==
    [f \in Fields |-> IF s.body[f] = Blank /\ f \notin FormOf.always
                      THEN server[s.id][f] ELSE s.body[f]]

Served(s) ==
    /\ At(s, "served")
    /\ UNCHANGED <<resource, cache, stale, fetch, domain, form, unsure, rushed, clicks, others>>

(* updateUser does not look whether its UPDATE, which spares deleted users,  *)
(* has changed a row; deleteUser and deleteDomain do not either.             *)
Unchecked == [edit |-> {"users"}, create |-> {"access"}, delete |-> {"users", "domains"}]

Accepts(s) ==
    \/ resource \in Unchecked[s.kind]
    \/ IF s.kind = "create" THEN server[s.id] = None ELSE Exists(s.id)

ServeEdit(s) ==
    /\ s \in saves /\ s.at = "sent" /\ s.kind = "edit" /\ Accepts(s)
    /\ server' = IF Exists(s.id) THEN [server EXCEPT ![s.id] = Written(s)] ELSE server
    /\ Served(s)

(* A name that is taken is refused; adding a mailbox again sets its role.    *)
ServeCreate(s) ==
    /\ s \in saves /\ s.at = "sent" /\ s.kind = "create" /\ Accepts(s)
    /\ server' = [server EXCEPT ![s.id] = s.body]
    /\ Served(s)

(* A deleted user keeps the row.                                             *)
ServeDelete(s) ==
    /\ s \in saves /\ s.at = "sent" /\ s.kind = "delete" /\ Accepts(s)
    /\ server' = [server EXCEPT ![s.id] = IF resource = "users" THEN Deleted ELSE None]
    /\ Served(s)

Enabled(fm, s) ==
    IF fm # None /\ fm.n = s.form THEN [fm EXCEPT !.busy = @ \ {s.kind}] ELSE fm

(* No such row, or the name is taken: the dialog stays and shows the error.  *)
Refuse(s) ==
    /\ s \in saves /\ s.at = "sent" /\ ~Accepts(s)
    /\ saves' = saves \ {s}
    /\ form' = Enabled(form, s)
    /\ UNCHANGED <<resource, server, cache, stale, fetch, domain, unsure, rushed, clicks, others>>

(* The call or its answer is lost; mutations are not retried.                *)
SaveLost(s) ==
    /\ s \in saves /\ s.at \in {"sent", "served"} /\ Trouble
    /\ saves' = saves \ {s}
    /\ form' = Enabled(form, s)
    /\ unsure' = unsure \cup {s.id}
    /\ UNCHANGED <<resource, server, cache, stale, fetch, domain, rushed, clicks>>

(* Mutant: a save keeps the list's fetch that is under way.                  *)
AnswerJoining(s) ==
    /\ s \in saves /\ s.at = "served"
    /\ LET q == QueryOf(IF resource = "signatures" THEN domain ELSE s.id)
       IN  /\ stale' = stale \cup {q}
           /\ fetch' = [fetch EXCEPT ![q] =
                 IF ~Mounted(q) THEN @
                 ELSE IF @ = None THEN Asked({s.n}) ELSE [@ EXCEPT !.waits = fetch[q].waits \cup {s.n}]]
           /\ unsure' = IF q # QueryOf(s.id) \/ (~Mounted(q) /\ fetch[q] # None)
                        THEN unsure \cup {s.id} ELSE unsure
    /\ At(s, "answered")
    /\ UNCHANGED <<resource, server, cache, domain, form, rushed, clicks, others>>

(* The query is stale, and fetched anew if it is on the screen.              *)
Invalidate(q, waits) ==
    /\ stale' = stale \cup {q}
    /\ fetch' = IF Mounted(q) THEN [fetch EXCEPT ![q] = Asked(waits)] ELSE fetch

(* onSuccess invalidates the list; a signature's mutation was given the      *)
(* options of the domain that is selected now.  A mutation that waits for the*)
(* fetch this replaces is over without it.                                   *)
Answer(s) ==
    /\ s \in saves /\ s.at = "served"
    /\ LET q == QueryOf(IF resource = "signatures" THEN domain ELSE s.id)
       IN  /\ Invalidate(q, {s.n})
           /\ rushed' = IF Mounted(q) /\ fetch[q] # None
                        THEN rushed \cup {t.id : t \in {u \in saves : u.n \in fetch[q].waits}}
                        ELSE rushed
           /\ unsure' = IF q # QueryOf(s.id) \/ (~Mounted(q) /\ fetch[q] # None)
                        THEN unsure \cup {s.id} ELSE unsure
    /\ At(s, "answered")
    /\ UNCHANGED <<resource, server, cache, domain, form, clicks, others>>

(* mutateAsync is over, and onClose closes the dialog that is open, whichever*)
(* that is by now and whatever it is saving; a create dialog has its own.    *)
Finish(s) ==
    /\ s \in saves /\ s.at = "answered"
    /\ \A q \in Queries : fetch[q] # None => s.n \notin fetch[q].waits
    /\ saves' = saves \ {s}
    /\ IF form # None /\ ClosesAfter(s) /\ ((form.kind = "create") = (s.kind = "create"))
       THEN form' = None /\ rushed' = rushed \cup {t.id : t \in saves'}
       ELSE form' = Enabled(form, s) /\ UNCHANGED rushed
    /\ UNCHANGED <<resource, server, cache, stale, fetch, domain, unsure, clicks, others>>

-----------------------------------------------------------------------------
(* Another administrator changes a field, or deletes a row.                  *)
Elsewhere(id) ==
    /\ server[id] \notin {None, Deleted} /\ Trouble
    /\ \/ \E f \in Fields : server' = [server EXCEPT ![id][f] = Other] /\ UNCHANGED unsure
       \/ /\ Deletable /\ unsure' = unsure \cup {id}
          /\ server' = [server EXCEPT ![id] = IF resource = "users" THEN Deleted ELSE None]
    /\ UNCHANGED <<resource, cache, stale, fetch, domain, form, saves, rushed, clicks>>

Init ==
    /\ resource \in Resources
    /\ server = [id \in Ids |-> IF id = First \/ resource = "signatures" THEN New(0) ELSE None]
    /\ cache = [q \in Queries |-> None]
    /\ stale = {}
    /\ fetch = [q \in Queries |-> IF q = First /\ resource # "access" THEN Asked({}) ELSE None]
    /\ domain = IF resource = "signatures" THEN First ELSE None
    /\ clicks = 0 /\ others = 0
    /\ form = IF Editor THEN [Form(First, "edit", Empty) EXCEPT !.of = None] ELSE None
    /\ saves = {}
    /\ unsure = {} /\ rushed = {}

Next ==
    \/ \E q \in Queries : Read(q) \/ Arrive(q) \/ FetchFails(q)
    \/ ComeBack \/ OpenAccess \/ Close
    \/ \E id \in Ids : Select(id) \/ Elsewhere(id)
    \/ \E id \in Ids, kind \in Kinds :
         OpenDialog(id, kind) \/ ChangeAccess(id, kind)
    \/ \E typed \in SUBSET Fields : Submit(typed)
    \/ \E s \in saves : \/ ServeEdit(s) \/ ServeCreate(s) \/ ServeDelete(s) \/ Refuse(s)
                       \/ SaveLost(s) \/ Answer(s) \/ Finish(s)

Spec == Init /\ [][Next]_cvars

-----------------------------------------------------------------------------
(* Properties                                                                *)

(* Types; a form waits for at most one save of a kind, and knows that it does.*)
TypeOK ==
    /\ resource \in Resources
    /\ server \in Table(Ids, Fields)
    /\ cache = [q \in Queries |-> cache[q]] /\ fetch = [q \in Queries |-> fetch[q]]
    /\ \A q \in Queries : /\ cache[q] \in Table(RowsOf(q), Fields) \cup {None}
                          /\ fetch[q] \in Fetches(RowsOf(q), Fields) \cup {None}
    /\ stale \subseteq Queries
    /\ domain \in Ids \cup {None}
    /\ form \in Forms(Fields) \cup {None}
    /\ form # None => form.busy = {s.kind : s \in {t \in saves : t.form = form.n}}
    /\ saves \subseteq Saves(Fields)
    /\ \A s, t \in saves : (s.form = t.form /\ s.kind = t.kind) => s = t
    /\ unsure \subseteq Ids /\ rushed \subseteq Ids
    /\ clicks \in 0..MaxClicks /\ others \in Nat

(* A save leaves the fields alone that the administrator left alone: it does *)
(* not put back what an earlier save of the same administrator had replaced. *)
(* Another's change may be undone, and so may one whose save was closed on,  *)
(* lost or not read back; a signature saved before the selected domain's has *)
(* come carries the one of the domain before.                                *)
KeepsFields ==
    \A s \in saves :
        (s.at = "sent" /\ s.kind = "edit" /\ server'[s.id] # server[s.id]
           /\ \E t \in saves' : t.n = s.n /\ t.at = "served") =>
        \A f \in s.left : \/ server'[s.id][f] = server[s.id][f]
                          \/ server[s.id][f] = Other
                          \/ s.id \in unsure \cup rushed \/ s.mixed

OwnSavesStick == [][KeepsFields]_cvars

(* With nothing under way the screen shows what the administrator's saves    *)
(* have left on the server.                                                  *)
SavesAreShown ==
    saves = {} => \A q \in Queries :
        (Mounted(q) /\ cache[q] # None /\ fetch[q] = None) =>
            \A id \in RowsOf(q) \ unsure :
                IF server[id] \in {None, Deleted} THEN cache[q][id] = server[id]
                ELSE /\ cache[q][id] \notin {None, Deleted}
                     /\ \A f \in Fields : \/ cache[q][id][f] = server[id][f]
                                          \/ server[id][f] = Other

=============================================================================
