----------------------------- MODULE Cloudflare -----------------------------
(* The optional Cloudflare OAuth connection and what is configured with it:  *)
(* connecting, revoking, verifying a zone and creating a managed domain.     *)
(*                                                                           *)
(* The handlers run concurrently and keep their locals across every call to  *)
(* KV, to D1 and to Cloudflare; a batch of D1 is one action.  The            *)
(* authorization server rotates refresh tokens or does not, and accepts only *)
(* the newest one of a grant; the zone's Email Routing may be changed by its *)
(* owner in Cloudflare's dashboard at any time.                              *)
EXTENDS Naturals

CONSTANTS
    Grants,        \* an OAuth state with its code and the tokens issued for it
    Handlers,      \* calls that can be in flight together
    Names,         \* names of managed domains, all inside the zone
    MaxRotations,  \* bound: refresh tokens issued after a grant's first one
    MaxCalls,      \* bound: calls of a behaviour
    MaxFaults,     \* bound: crashes and changes made by the zone's owner
    None

VARIABLES
    kv,          \* settings:oauth:<state> in KV
    code,        \* the authorization server: has the code been issued, used
    grant,       \* the authorization server: is the grant live, newest token
    rotates,     \* the authorization server: does a refresh issue a new token
    credential,  \* encrypted_credentials, by the grant they hold
    installed,   \* installation_state.cloudflare_credential_id
    zoned,       \* installation_state.cloudflare_zone_id is set
    checkpoint,  \* configuration_checkpoints['cloudflare_mail'].status
    domains,     \* rows of domains
    routing,     \* the zone: Email Routing's status and its catch-all
    call,        \* per handler: place, operation, locals
    calls, faults,
    hist         \* what happened, for the properties only

vars == <<kv, code, grant, rotates, credential, installed, zoned, checkpoint, domains,
          routing, call, calls, faults, hist>>

stored == <<credential, installed, zoned, checkpoint, domains>>
remote == <<code, grant, routing>>
bounds == <<rotates, calls, faults, hist>>

ASSUME CloudflareAssumption ==
    /\ MaxRotations \in Nat /\ MaxCalls \in Nat /\ MaxFaults \in Nat
    /\ None \notin Grants \cup Names
    /\ None \notin [refresh : 0..MaxRotations, fresh : BOOLEAN]

Idle == [at |-> "idle", op |-> None, about |-> None, held |-> None, token |-> None,
         zone |-> FALSE]

Init ==
    /\ kv = {}
    /\ code = [g \in Grants |-> "none"]
    /\ grant = [g \in Grants |-> [live |-> FALSE, newest |-> 0]]
    /\ rotates \in BOOLEAN
    /\ credential = [g \in Grants |-> None]
    /\ installed = None /\ zoned = FALSE /\ checkpoint = "pending" /\ domains = {}
    /\ routing = [ready |-> FALSE, catchAll |-> "none"]
    /\ call = [h \in Handlers |-> Idle]
    /\ calls = 0 /\ faults = 0
    /\ hist = [replaced |-> {}, lost |-> {}]

Is(h, op, place) == call[h].op = op /\ call[h].at = place

Goes(h, place) == call' = [call EXCEPT ![h].at = place]

Ends(h) == call' = [call EXCEPT ![h] = Idle]

(* The row of the installed credential: installation_state JOIN credentials. *)
Connected == installed # None /\ credential[installed] # None

-----------------------------------------------------------------------------
(* cloudflareOauthStart and the administrator's consent at Cloudflare.       *)
Start(g) ==
    /\ code[g] = "none" /\ g \notin kv /\ calls < MaxCalls
    /\ kv' = kv \cup {g}
    /\ code' = [code EXCEPT ![g] = "issued"]
    /\ calls' = calls + 1
    /\ UNCHANGED <<stored, grant, routing, call, faults, hist, rotates>>

(* runtimePolicy.oauthStateTtlSeconds have passed.                           *)
StateExpires(g) ==
    /\ g \in kv
    /\ kv' = kv \ {g}
    /\ UNCHANGED <<stored, remote, call, bounds>>

Arrive(h) ==
    /\ call[h].at = "idle" /\ calls < MaxCalls
    /\ \/ \E g \in Grants : /\ code[g] # "none"
                            /\ call' = [call EXCEPT ![h] =
                                 [Idle EXCEPT !.at = "get", !.op = "callback", !.about = g]]
       \/ call' = [call EXCEPT ![h] = [Idle EXCEPT !.at = "read", !.op = "revoke"]]
       \/ call' = [call EXCEPT ![h] = [Idle EXCEPT !.at = "token", !.op = "verify"]]
       \/ \E n \in Names : call' = [call EXCEPT ![h] =
              [Idle EXCEPT !.at = "installation", !.op = "domain", !.about = n]]
    /\ calls' = calls + 1
    /\ UNCHANGED <<kv, stored, remote, faults, hist, rotates>>

(* cloudflareOauthCallback: the state is read, then deleted: two redirects   *)
(* with one state may both find it.                                          *)
GetState(h) ==
    /\ Is(h, "callback", "get")
    /\ IF call[h].about \in kv THEN Goes(h, "delete") ELSE Ends(h)
    /\ UNCHANGED <<kv, stored, remote, bounds>>

DeleteState(h) ==
    /\ Is(h, "callback", "delete")
    /\ kv' = kv \ {call[h].about}
    /\ Goes(h, "exchange")
    /\ UNCHANGED <<stored, remote, bounds>>

(* The server takes a code once.                                             *)
Exchange(h) ==
    LET g == call[h].about
    IN  /\ Is(h, "callback", "exchange")
        /\ IF code[g] = "issued"
           THEN /\ code' = [code EXCEPT ![g] = "used"]
                /\ grant' = [grant EXCEPT ![g].live = TRUE]
                /\ Goes(h, "store")
           ELSE Ends(h) /\ UNCHANGED <<code, grant>>
        /\ UNCHANGED <<kv, stored, routing, bounds>>

(* One batch.  The row of an earlier connection stays behind, with its grant.*)
StoreCredential(h) ==
    LET g == call[h].about
    IN  /\ Is(h, "callback", "store")
        /\ credential' = [credential EXCEPT ![g] = [refresh |-> 0, fresh |-> TRUE]]
        /\ installed' = g
        /\ checkpoint' = "configured"
        /\ hist' = [hist EXCEPT !.replaced = @ \cup ({installed} \ {None})]
        /\ Ends(h)
        /\ UNCHANGED <<kv, zoned, domains, remote, calls, faults, rotates>>

-----------------------------------------------------------------------------
(* revokeCloudflareOauth                                                     *)
ReadConnected(h) ==
    /\ Is(h, "revoke", "read")
    /\ IF Connected
       THEN call' = [call EXCEPT ![h].at = "revoke", ![h].about = installed,
                                 ![h].held = credential[installed].refresh]
       ELSE Ends(h)
    /\ UNCHANGED <<kv, stored, remote, bounds>>

(* The server drops the grant whose newest token it is shown; it answers OK  *)
(* to an older one, and may drop the grant then too.  It may be unavailable. *)
RevokeGrant(h) ==
    LET g == call[h].about
    IN  /\ Is(h, "revoke", "revoke")
        /\ \/ Ends(h) /\ UNCHANGED grant
           \/ /\ Goes(h, "forget")
              /\ \/ grant' = [grant EXCEPT ![g].live = FALSE]
                 \/ call[h].held # grant[g].newest /\ UNCHANGED grant
        /\ UNCHANGED <<kv, stored, code, routing, bounds>>

(* Mutant: the batch leaves the credential's row.                            *)
ForgetKeepsRow(h) ==
    LET g == call[h].about
    IN  /\ Is(h, "revoke", "forget")
        /\ installed' = IF installed = g THEN None ELSE installed
        /\ checkpoint' = "pending"
        /\ Ends(h)
        /\ UNCHANGED <<kv, credential, zoned, domains, remote, bounds>>

(* One batch, for the credential that was read: one installed since stays.   *)
(* The checkpoint is reset either way.                                       *)
Forget(h) ==
    LET g == call[h].about
    IN  /\ Is(h, "revoke", "forget")
        /\ installed' = IF installed = g THEN None ELSE installed
        /\ credential' = [credential EXCEPT ![g] = None]
        /\ checkpoint' = "pending"
        /\ Ends(h)
        /\ UNCHANGED <<kv, zoned, domains, remote, bounds>>

-----------------------------------------------------------------------------
(* cloudflareAccessToken, for verify and domain                              *)

(* runCheckpoint: an operation that throws marks the checkpoint failed.      *)
FailsCheckpoint(h) ==
    /\ checkpoint' = "failed"
    /\ Ends(h)
    /\ UNCHANGED <<kv, credential, installed, zoned, domains, bounds>>

(* createDomain reads the selected zone before it asks for a token.          *)
ReadInstallation(h) ==
    /\ Is(h, "domain", "installation")
    /\ call' = [call EXCEPT ![h].at = "token", ![h].zone = zoned]
    /\ UNCHANGED <<kv, stored, remote, bounds>>

(* createDomain configures the zone if it has a token and a zone.            *)
Routes(h, g) == g # None /\ call[h].zone

(* With a token verify reads the zone it is given, createDomain the selected *)
(* one; without it both go on.                                               *)
AfterToken(h, g) ==
    call' = [call EXCEPT ![h].token = g,
                         ![h].at = IF Routes(h, g) \/ (call[h].op = "verify" /\ g # None)
                                   THEN "zone" ELSE "write"]

ReadToken(h) ==
    /\ call[h].at = "token"
    /\ IF ~Connected
       THEN AfterToken(h, None)
       ELSE IF credential[installed].fresh
            THEN AfterToken(h, installed)
            ELSE call' = [call EXCEPT ![h].at = "refresh", ![h].token = installed,
                                      ![h].held = credential[installed].refresh]
    /\ UNCHANGED <<kv, stored, remote, bounds>>

(* The server takes the newest token of a live grant, and issues another one *)
(* or says nothing of it: then the stored one is kept.                       *)
Refresh(h) ==
    LET g == call[h].token
    IN  /\ call[h].at = "refresh"
        /\ grant[g].live /\ grant[g].newest = call[h].held
        /\ LET n == IF rotates THEN grant[g].newest + 1 ELSE 0
           IN
             /\ n <= MaxRotations
             /\ grant' = [grant EXCEPT ![g].newest = n]
             /\ call' = [call EXCEPT ![h].at = "save", ![h].held = n]
        /\ UNCHANGED <<kv, stored, code, routing, bounds>>

(* The server rotates the token and its answer does not arrive.              *)
RefreshLost(h) ==
    LET g == call[h].token
    IN  /\ call[h].at = "refresh" /\ faults < MaxFaults
        /\ grant[g].live /\ grant[g].newest = call[h].held
        /\ rotates /\ grant[g].newest < MaxRotations
        /\ grant' = [grant EXCEPT ![g].newest = @ + 1]
        /\ checkpoint' = "failed"
        /\ Ends(h)
        /\ faults' = faults + 1
        /\ hist' = [hist EXCEPT !.lost = @ \cup {g}]
        /\ UNCHANGED <<kv, credential, installed, zoned, domains, code, routing, calls, rotates>>

RefreshRefused(h) ==
    LET g == call[h].token
    IN  /\ call[h].at = "refresh"
        /\ ~grant[g].live \/ grant[g].newest # call[h].held
        /\ FailsCheckpoint(h)
        /\ UNCHANGED remote

(* Mutant: only the access token is written back.                            *)
SaveTokenOnly(h) ==
    LET g == call[h].token
    IN  /\ call[h].at = "save"
        /\ credential' = [credential EXCEPT ![g] =
             IF @ = None THEN None ELSE [@ EXCEPT !.fresh = TRUE]]
        /\ AfterToken(h, g)
        /\ UNCHANGED <<kv, installed, zoned, checkpoint, domains, remote, bounds>>

(* Mutant: a refresh that issues no new token stores none.                   *)
SaveTokenBare(h) ==
    LET g == call[h].token
    IN  /\ call[h].at = "save"
        /\ credential' = [credential EXCEPT ![g] =
             IF @ = None THEN None
             ELSE [refresh |-> IF rotates THEN call[h].held ELSE None, fresh |-> TRUE]]
        /\ AfterToken(h, g)
        /\ UNCHANGED <<kv, installed, zoned, checkpoint, domains, remote, bounds>>

(* UPDATE by id: a row deleted since is not brought back.                    *)
SaveToken(h) ==
    LET g == call[h].token
    IN  /\ call[h].at = "save"
        /\ credential' = [credential EXCEPT ![g] =
             IF @ = None THEN None ELSE [refresh |-> call[h].held, fresh |-> TRUE]]
        /\ AfterToken(h, g)
        /\ UNCHANGED <<kv, installed, zoned, checkpoint, domains, remote, bounds>>

(* A stored access token comes within a minute of its end.                   *)
TokenAges(g) ==
    /\ credential[g] # None /\ credential[g].fresh
    /\ credential' = [credential EXCEPT ![g].fresh = FALSE]
    /\ UNCHANGED <<kv, installed, zoned, checkpoint, domains, remote, call, bounds>>

-----------------------------------------------------------------------------
(* An API call fails when the grant is gone, and may fail anyhow; a PUT may  *)
(* have taken effect.  A zone of another account, or one that does not hold  *)
(* the domain, fails the call too.                                           *)
ApiFails(h) ==
    /\ call[h].at \in {"zone", "catchAll", "put"}
    /\ FailsCheckpoint(h)
    /\ \/ UNCHANGED routing
       \/ /\ call[h].at = "put" /\ grant[call[h].token].live
          /\ routing' = [routing EXCEPT !.catchAll = "worker"]
    /\ UNCHANGED <<code, grant>>

(* verify reads the zone and its account; domain reads the zone and its      *)
(* routing, and enables it when it is not ready.                             *)
ReadZone(h) ==
    /\ call[h].at = "zone" /\ grant[call[h].token].live
    /\ IF call[h].op = "verify"
       THEN Goes(h, "write") /\ UNCHANGED routing
       ELSE Goes(h, "catchAll") /\ routing' = [routing EXCEPT !.ready = TRUE]
    /\ UNCHANGED <<kv, stored, code, grant, bounds>>

ReadCatchAll(h) ==
    /\ call[h].at = "catchAll" /\ grant[call[h].token].live
    /\ IF routing.catchAll = "other"
       THEN FailsCheckpoint(h)
       ELSE /\ Goes(h, IF routing.catchAll = "worker" THEN "write" ELSE "put")
            /\ UNCHANGED <<kv, stored, bounds>>
    /\ UNCHANGED remote

PutCatchAll(h) ==
    /\ call[h].at = "put" /\ grant[call[h].token].live
    /\ routing' = [routing EXCEPT !.catchAll = "worker"]
    /\ Goes(h, "write")
    /\ UNCHANGED <<kv, stored, code, grant, bounds>>

(* verify: the zone is stored.                                               *)
StoreZone(h) ==
    /\ Is(h, "verify", "write")
    /\ zoned' = TRUE
    /\ Goes(h, "checkpoint")
    /\ UNCHANGED <<kv, credential, installed, checkpoint, domains, remote, bounds>>

(* domain: the row is inserted, or the name is taken.                        *)
InsertDomain(h) ==
    /\ Is(h, "domain", "write")
    /\ IF call[h].about \in domains
       THEN FailsCheckpoint(h)
       ELSE /\ domains' = domains \cup {call[h].about}
            /\ Goes(h, "checkpoint")
            /\ UNCHANGED <<kv, credential, installed, zoned, checkpoint, bounds>>
    /\ UNCHANGED remote

(* verify counts as verified, with a token or without; a domain only if its  *)
(* routing was configured here.                                              *)
SetCheckpoint(h) ==
    /\ call[h].at = "checkpoint"
    /\ checkpoint' = IF call[h].op = "verify" \/ Routes(h, call[h].token)
                     THEN "verified" ELSE "pending"
    /\ Ends(h)
    /\ UNCHANGED <<kv, credential, installed, zoned, domains, remote, bounds>>

-----------------------------------------------------------------------------
Crash(h) ==
    /\ call[h].at # "idle" /\ faults < MaxFaults
    /\ Ends(h)
    /\ faults' = faults + 1
    /\ hist' = [hist EXCEPT !.lost =
         IF call[h].at = "save" THEN @ \cup {call[h].token} ELSE @]
    /\ UNCHANGED <<kv, stored, remote, calls, rotates>>

(* The owner of the zone points the catch-all somewhere else.                *)
OwnerRedirects ==
    /\ faults < MaxFaults /\ routing.catchAll # "other"
    /\ routing' = [routing EXCEPT !.catchAll = "other"]
    /\ faults' = faults + 1
    /\ UNCHANGED <<kv, stored, code, grant, call, calls, rotates, hist>>

Next ==
    \/ OwnerRedirects
    \/ \E g \in Grants : Start(g) \/ StateExpires(g) \/ TokenAges(g)
    \/ \E h \in Handlers :
         \/ Arrive(h) \/ Crash(h)
         \/ GetState(h) \/ DeleteState(h) \/ Exchange(h) \/ StoreCredential(h)
         \/ ReadConnected(h) \/ RevokeGrant(h) \/ Forget(h)
         \/ ReadInstallation(h) \/ ReadToken(h)
         \/ Refresh(h) \/ RefreshLost(h) \/ RefreshRefused(h) \/ SaveToken(h)
         \/ ApiFails(h) \/ ReadZone(h) \/ ReadCatchAll(h) \/ PutCatchAll(h)
         \/ StoreZone(h) \/ InsertDomain(h) \/ SetCheckpoint(h)

Spec == Init /\ [][Next]_vars

-----------------------------------------------------------------------------
TypeOK ==
    /\ kv \subseteq Grants
    /\ code \in [Grants -> {"none", "issued", "used"}]
    /\ grant \in [Grants -> [live : BOOLEAN, newest : 0..MaxRotations]]
    /\ credential \in [Grants -> [refresh : 0..MaxRotations, fresh : BOOLEAN] \cup {None}]
    /\ installed \in Grants \cup {None} /\ zoned \in BOOLEAN
    /\ checkpoint \in {"pending", "configured", "verified", "failed"}
    /\ domains \subseteq Names
    /\ routing \in [ready : BOOLEAN, catchAll : {"none", "other", "worker"}]
    /\ calls \in 0..MaxCalls /\ faults \in 0..MaxFaults

(* The installed credential has its row, and the checkpoint says "configured"*)
(* only while there is one, though every operation writes it and the last    *)
(* one wins.  A row that is not installed is one that a later connection     *)
(* replaced: no other secret stays behind, whatever revocations, refreshes   *)
(* and crashes come together, and a revocation never disconnects a newer     *)
(* connection.                                                               *)
SecretsAccountedFor ==
    /\ installed # None => credential[installed] # None
    /\ checkpoint = "configured" => installed # None
    /\ \A g \in Grants :
         credential[g] # None => installed = g \/ g \in hist.replaced

(* While the grant is live the stored refresh token is the one the server    *)
(* accepts, unless a rotated token is on its way into the row or was lost    *)
(* with a crash or an answer.                                                *)
StoredTokenWorks ==
    \A g \in Grants :
        /\ credential[g] # None /\ grant[g].live /\ g \notin hist.lost
        /\ \A h \in Handlers : call[h].at = "save" => call[h].token # g
        => credential[g].refresh = grant[g].newest

=============================================================================
