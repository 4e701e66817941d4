---------------------------- MODULE Cloudflare_proofs ----------------------------
(***************************************************************************)
(* Theorems about Cloudflare, for any number of grants, handlers, names,   *)
(* rotations, calls and faults: type correctness, that every stored secret *)
(* is accounted for, and that the stored refresh token is the one that the *)
(* authorization server accepts.                                           *)
(***************************************************************************)
EXTENDS Cloudflare, TLAPS

USE CloudflareAssumption

-----------------------------------------------------------------------------
(* The locals of a call.  Each place is reached with what it needs: a place  *)
(* that names a grant or a token has one.                                    *)
Places ==
    {"idle", "get", "delete", "exchange", "store", "read", "revoke", "forget",
     "installation", "token", "refresh", "save", "zone", "catchAll", "put",
     "write", "checkpoint"}

Calls ==
    [ at    : Places,
      op    : {"callback", "revoke", "verify", "domain", None},
      about : Grants \cup Names \cup {None},
      held  : (0..MaxRotations) \cup {None},
      token : Grants \cup {None},
      zone  : BOOLEAN ]

AboutGrant == {"get", "delete", "exchange", "store", "revoke", "forget"}
Refreshing == {"refresh", "save"}
WithToken  == Refreshing \cup {"zone", "catchAll", "put"}

Equipped(c) ==
    /\ c.at \in AboutGrant => c.about \in Grants
    /\ c.at \in WithToken => c.token \in Grants
    /\ c.at \in Refreshing => c.held \in 0..MaxRotations
    /\ c.at # "idle" /\ c.op = "domain" => c.about \in Names

CallsOK == /\ call \in [Handlers -> Calls]
           /\ \A h \in Handlers : Equipped(call[h])

(* History and what a grant's first place is bound to. *)
HistOK == hist \in [replaced : SUBSET Grants, lost : SUBSET Grants]

Typed == TypeOK /\ CallsOK /\ HistOK /\ rotates \in BOOLEAN

-----------------------------------------------------------------------------
(* A grant whose code is unused, or whose first token is about to be stored, *)
(* is known to nobody else: no row, no rotation, no refresh under way.       *)
Storing(h, g) == call[h].at = "store" /\ call[h].about = g
Refreshes(h, g) == call[h].at \in Refreshing /\ call[h].token = g
Saving(h, g) == call[h].at = "save" /\ call[h].token = g

Unknown(g) ==
    /\ credential[g] = None
    /\ grant[g].newest = 0
    /\ \A h \in Handlers : ~Refreshes(h, g)

FirstTokens ==
    /\ \A g \in Grants : code[g] # "used" =>
         Unknown(g) /\ \A h \in Handlers : ~Storing(h, g)
    /\ \A h \in Handlers, g \in Grants : Storing(h, g) =>
         Unknown(g) /\ \A k \in Handlers : Storing(k, g) => k = h

(* A rotated token lives in one place: until it is saved, the row holds an   *)
(* older one, and so does whoever has read the row.                          *)
Rotated(g) ==
    credential[g] # None =>
        /\ credential[g].refresh <= grant[g].newest
        /\ \A h \in Handlers :
             Refreshes(h, g) /\ call[h].at = "refresh"
               => call[h].held <= credential[g].refresh
        /\ \A h \in Handlers : Saving(h, g) =>
             /\ call[h].held = grant[g].newest
             /\ rotates => credential[g].refresh < grant[g].newest
             /\ rotates => \A k \in Handlers : Saving(k, g) => k = h

Rotation == \A g \in Grants : Rotated(g)

(* A server that does not rotate leaves every token the first one.           *)
NoRotation ==
    ~rotates => \A g \in Grants :
        grant[g].newest = 0 /\ (credential[g] # None => credential[g].refresh = 0)

NewestIsStored ==
    \A g \in Grants :
        credential[g] # None /\ g \notin hist.lost /\ (\A h \in Handlers : ~Saving(h, g))
          => credential[g].refresh = grant[g].newest

TokenInv == FirstTokens /\ Rotation /\ NoRotation /\ NewestIsStored

-----------------------------------------------------------------------------
(* How a call moves *)

(* The call of h is replaced; the others stand still. *)
LEMMA Replaces ==
    ASSUME CallsOK, NEW h \in Handlers, NEW c \in Calls, Equipped(c),
           call' = [call EXCEPT ![h] = c]
    PROVE  /\ CallsOK'
           /\ call'[h] = c
           /\ \A k \in Handlers : k # h => call'[k] = call[k]
  <1>1. call' \in [Handlers -> Calls]
    BY DEF CallsOK
  <1>2. call'[h] = c /\ \A k \in Handlers : k # h => call'[k] = call[k]
    BY DEF CallsOK
  <1>3. \A k \in Handlers : Equipped(call'[k])
    BY <1>2 DEF CallsOK
  <1> QED
    BY <1>1, <1>2, <1>3 DEF CallsOK

LEMMA EndsTyped ==
    ASSUME CallsOK, NEW h \in Handlers, Ends(h)
    PROVE  /\ CallsOK'
           /\ call'[h] = Idle
           /\ \A k \in Handlers : k # h => call'[k] = call[k]
  <1>1. Idle \in Calls /\ Equipped(Idle)
    BY DEF Idle, Calls, Equipped, AboutGrant, WithToken, Refreshing, Places
  <1> QED
    BY <1>1, Replaces DEF Ends

LEMMA GoesTyped ==
    ASSUME CallsOK, NEW h \in Handlers, NEW place \in Places, Goes(h, place),
           Equipped([call[h] EXCEPT !.at = place])
    PROVE  /\ CallsOK'
           /\ call'[h] = [call[h] EXCEPT !.at = place]
           /\ \A k \in Handlers : k # h => call'[k] = call[k]
  <1>1. [call[h] EXCEPT !.at = place] \in Calls
    BY DEF CallsOK, Calls
  <1>2. call' = [call EXCEPT ![h] = [call[h] EXCEPT !.at = place]]
    BY DEF Goes, CallsOK
  <1> QED
    BY <1>1, <1>2, Replaces

(* A refresh that succeeds: the next token, or the first one once more.       *)
LEMMA RefreshRotates ==
    ASSUME Typed, NEW h \in Handlers, Refresh(h)
    PROVE  /\ call[h].token \in Grants
           /\ \E n \in 0..MaxRotations :
                /\ n = IF rotates THEN grant[call[h].token].newest + 1 ELSE 0
                /\ grant' = [grant EXCEPT ![call[h].token].newest = n]
                /\ call' = [call EXCEPT ![h].at = "save", ![h].held = n]
  <1> DEFINE g == call[h].token
             n == IF rotates THEN grant[g].newest + 1 ELSE 0
  <1>1. g \in Grants
    BY DEF Refresh, Typed, CallsOK, Equipped, WithToken, Refreshing
  <1>2. grant[g].newest \in 0..MaxRotations
    BY <1>1 DEF Typed, TypeOK
  <1>3. /\ n <= MaxRotations
        /\ grant' = [grant EXCEPT ![g].newest = n]
        /\ call' = [call EXCEPT ![h].at = "save", ![h].held = n]
    BY DEF Refresh
  <1>4. n \in 0..MaxRotations
    BY <1>2, <1>3
  <1> HIDE DEF n
  <1>5. n = IF rotates THEN grant[call[h].token].newest + 1 ELSE 0
    BY DEF n
  <1> QED
    BY <1>1, <1>3, <1>4, <1>5

(* Every place a call goes on to finds what it needs. *)
LEMMA CallStep ==
    ASSUME Typed, Next
    PROVE  CallsOK'
  <1> USE DEF AboutGrant, WithToken, Refreshing
  <1>1. CallsOK /\ installed \in Grants \cup {None}
    BY DEF Typed, TypeOK
  <1>2. CASE UNCHANGED call
    BY <1>1, <1>2 DEF CallsOK
  <1>3. ASSUME NEW h \in Handlers, Arrive(h)
        PROVE  CallsOK'
    <2>1. \E c \in Calls : Equipped(c) /\ call' = [call EXCEPT ![h] = c]
      BY <1>3 DEF Arrive, Idle, Calls, Equipped, Places
    <2> QED
      BY <1>1, <2>1, Replaces
  <1>4. ASSUME NEW h \in Handlers, Ends(h)
        PROVE  CallsOK'
    BY <1>1, <1>4, EndsTyped
  <1>5. ASSUME NEW h \in Handlers, NEW place \in Places, Goes(h, place),
               Equipped([call[h] EXCEPT !.at = place])
        PROVE  CallsOK'
    BY <1>1, <1>5, GoesTyped
  <1>6. ASSUME NEW h \in Handlers, NEW place \in {"delete", "exchange", "store", "forget"},
               call[h].at \in AboutGrant, call[h].op # "domain", Goes(h, place)
        PROVE  CallsOK'
    <2>1. Equipped([call[h] EXCEPT !.at = place])
      BY <1>1, <1>6 DEF CallsOK, Calls, Equipped
    <2>2. place \in Places
      BY <1>6 DEF Places
    <2> QED
      BY <1>5, <1>6, <2>1, <2>2
  <1>7. ASSUME NEW h \in Handlers, NEW place \in {"catchAll", "put"},
               call[h].at \in WithToken, Goes(h, place)
        PROVE  CallsOK'
    <2>1. Equipped([call[h] EXCEPT !.at = place])
      BY <1>1, <1>7 DEF CallsOK, Calls, Equipped
    <2>2. place \in Places
      BY <1>7 DEF Places
    <2> QED
      BY <1>5, <1>7, <2>1, <2>2
  <1>8. ASSUME NEW h \in Handlers, NEW place \in {"write", "checkpoint"},
               call[h].at # "idle", Goes(h, place)
        PROVE  CallsOK'
    <2>1. Equipped([call[h] EXCEPT !.at = place])
      BY <1>1, <1>8 DEF CallsOK, Calls, Equipped
    <2>2. place \in Places
      BY <1>8 DEF Places
    <2> QED
      BY <1>5, <1>8, <2>1, <2>2
  <1>9. ASSUME NEW h \in Handlers, ReadConnected(h)
        PROVE  CallsOK'
    <2>1. CASE Ends(h)
      BY <1>4, <2>1
    <2>2. CASE Connected /\ ~Ends(h)
      <3> DEFINE c == [call[h] EXCEPT !.at = "revoke", !.about = installed,
                                      !.held = credential[installed].refresh]
      <3>1. installed \in Grants /\ credential[installed].refresh \in 0..MaxRotations
        BY <1>1, <2>2 DEF Connected, Typed, TypeOK
      <3>2. call[h] \in Calls /\ call[h].op = "revoke"
        BY <1>1, <1>9 DEF ReadConnected, Is, CallsOK
      <3>3. c \in Calls
        BY <3>1, <3>2 DEF Calls, Places
      <3>4. Equipped(c)
        BY <3>1, <3>2 DEF Equipped, Calls
      <3>5. call' = [call EXCEPT ![h] = c]
        BY <1>1, <1>9, <2>2 DEF ReadConnected, CallsOK
      <3> QED
        BY <1>1, <3>3, <3>4, <3>5, Replaces
    <2> QED
      BY <1>9, <2>1, <2>2 DEF ReadConnected
  <1>10. ASSUME NEW h \in Handlers, ReadInstallation(h)
         PROVE  CallsOK'
    <2> DEFINE c == [call[h] EXCEPT !.at = "token", !.zone = zoned]
    <2>1. call[h] \in Calls /\ Equipped(call[h]) /\ zoned \in BOOLEAN /\ call[h].at # "idle"
      BY <1>1, <1>10 DEF CallsOK, Typed, TypeOK, ReadInstallation, Is
    <2>2. c \in Calls /\ Equipped(c)
      BY <2>1 DEF Calls, Places, Equipped
    <2>3. call' = [call EXCEPT ![h] = c]
      BY <1>1, <1>10 DEF ReadInstallation, CallsOK
    <2> QED
      BY <1>1, <2>2, <2>3, Replaces
  <1>11. ASSUME NEW h \in Handlers, NEW g \in Grants \cup {None}, call[h].at # "idle",
                AfterToken(h, g)
         PROVE  CallsOK'
    <2>1. PICK place \in {"zone", "write"} :
            /\ call' = [call EXCEPT ![h].token = g, ![h].at = place]
            /\ place = "zone" => g # None
      BY <1>11 DEF AfterToken, Routes
    <2> DEFINE c == [call[h] EXCEPT !.token = g, !.at = place]
    <2>2. call[h] \in Calls /\ Equipped(call[h])
      BY <1>1 DEF CallsOK
    <2>3. c \in Calls
      BY <2>2 DEF Calls, Places
    <2>4. Equipped(c)
      BY <1>11, <2>1, <2>2 DEF Equipped, Calls
    <2>5. call' = [call EXCEPT ![h] = c]
      BY <1>1, <2>1 DEF CallsOK
    <2> QED
      BY <1>1, <2>3, <2>4, <2>5, Replaces
  <1>12. ASSUME NEW h \in Handlers, ReadToken(h)
         PROVE  CallsOK'
    <2>1. CASE ~Connected
      BY <1>11, <1>12, <2>1 DEF ReadToken
    <2>2. CASE Connected /\ credential[installed].fresh
      BY <1>1, <1>11, <1>12, <2>2 DEF ReadToken
    <2>3. CASE Connected /\ ~credential[installed].fresh
      <3> DEFINE c == [call[h] EXCEPT !.at = "refresh", !.token = installed,
                                      !.held = credential[installed].refresh]
      <3>1. installed \in Grants /\ credential[installed].refresh \in 0..MaxRotations
        BY <1>1, <2>3 DEF Connected, Typed, TypeOK
      <3>2. call[h] \in Calls /\ Equipped(call[h]) /\ call[h].at # "idle"
        BY <1>1, <1>12 DEF ReadToken, CallsOK
      <3>3. c \in Calls
        BY <3>1, <3>2 DEF Calls, Places
      <3>4. Equipped(c)
        BY <3>1, <3>2 DEF Equipped, Calls
      <3>5. call' = [call EXCEPT ![h] = c]
        BY <1>1, <1>12, <2>3 DEF ReadToken, CallsOK
      <3> QED
        BY <1>1, <3>3, <3>4, <3>5, Replaces
    <2> QED
      BY <2>1, <2>2, <2>3
  <1>13. ASSUME NEW h \in Handlers, Refresh(h)
         PROVE  CallsOK'
    <2>1. PICK n \in 0..MaxRotations :
            call' = [call EXCEPT ![h].at = "save", ![h].held = n]
      BY <1>13, RefreshRotates
    <2> DEFINE c == [call[h] EXCEPT !.at = "save", !.held = n]
    <2>2. call[h] \in Calls /\ Equipped(call[h]) /\ call[h].at = "refresh"
      BY <1>1, <1>13 DEF Refresh, CallsOK
    <2>3. c \in Calls
      BY <2>2 DEF Calls, Places
    <2>4. Equipped(c)
      BY <2>2 DEF Equipped, Calls
    <2>5. call' = [call EXCEPT ![h] = c]
      BY <1>1, <2>1 DEF CallsOK
    <2> QED
      BY <1>1, <2>3, <2>4, <2>5, Replaces
  <1>14. ASSUME NEW h \in Handlers, SaveToken(h)
         PROVE  CallsOK'
    <2>1. call[h].at = "save" /\ call[h].token \in Grants
      BY <1>1, <1>14 DEF SaveToken, CallsOK, Equipped
    <2> QED
      BY <1>11, <1>14, <2>1 DEF SaveToken
  <1>15. ASSUME NEW h \in Handlers, ReadZone(h)
         PROVE  CallsOK'
    BY <1>7, <1>8, <1>15 DEF ReadZone
  <1>16. ASSUME NEW h \in Handlers, ReadCatchAll(h)
         PROVE  CallsOK'
    BY <1>4, <1>7, <1>8, <1>16 DEF ReadCatchAll, FailsCheckpoint
  <1>17. ASSUME NEW h \in Handlers,
                GetState(h) \/ DeleteState(h) \/ Exchange(h) \/ RevokeGrant(h)
         PROVE  CallsOK'
    BY <1>4, <1>6, <1>17 DEF GetState, DeleteState, Exchange, RevokeGrant, Is
  <1>18. ASSUME NEW h \in Handlers,
                PutCatchAll(h) \/ StoreZone(h) \/ InsertDomain(h)
         PROVE  CallsOK'
    BY <1>4, <1>8, <1>18
    DEF PutCatchAll, StoreZone, InsertDomain, FailsCheckpoint, Is
  <1>19. ASSUME NEW h \in Handlers,
                \/ StoreCredential(h) \/ Forget(h) \/ RefreshLost(h)
                \/ RefreshRefused(h) \/ ApiFails(h) \/ SetCheckpoint(h) \/ Crash(h)
         PROVE  CallsOK'
    BY <1>4, <1>19
    DEF StoreCredential, Forget, RefreshLost, RefreshRefused, ApiFails,
        SetCheckpoint, Crash, FailsCheckpoint
  <1> QED
    BY <1>2, <1>3, <1>9, <1>10, <1>12, <1>13, <1>14, <1>15, <1>16, <1>17, <1>18, <1>19
    DEF Next, OwnerRedirects, Start, StateExpires, TokenAges

-----------------------------------------------------------------------------
(* Type correctness *)

LEMMA TypedInit == Init => Typed
  <1> SUFFICES ASSUME Init PROVE Typed
    OBVIOUS
  <1>1. /\ kv \subseteq Grants
        /\ code \in [Grants -> {"none", "issued", "used"}]
        /\ grant \in [Grants -> [live : BOOLEAN, newest : 0..MaxRotations]]
    BY DEF Init
  <1>2. /\ credential \in [Grants -> [refresh : 0..MaxRotations, fresh : BOOLEAN] \cup {None}]
        /\ installed \in Grants \cup {None} /\ zoned \in BOOLEAN
        /\ checkpoint \in {"pending", "configured", "verified", "failed"}
        /\ domains \subseteq Names
    BY DEF Init
  <1>3. /\ routing \in [ready : BOOLEAN, catchAll : {"none", "other", "worker"}]
        /\ calls \in 0..MaxCalls /\ faults \in 0..MaxFaults
        /\ rotates \in BOOLEAN
        /\ HistOK
    BY DEF Init, HistOK
  <1>4. Idle \in Calls /\ Equipped(Idle)
    BY DEF Idle, Calls, Equipped, AboutGrant, WithToken, Refreshing, Places
  <1>5. CallsOK
    BY <1>4 DEF Init, CallsOK
  <1> QED
    BY <1>1, <1>2, <1>3, <1>5 DEF Typed, TypeOK

(* The rows of the credentials, and what the server knows of the grants.     *)
LEMMA RowsStep ==
    ASSUME Typed, Next
    PROVE  /\ credential' \in
                [Grants -> [refresh : 0..MaxRotations, fresh : BOOLEAN] \cup {None}]
           /\ grant' \in [Grants -> [live : BOOLEAN, newest : 0..MaxRotations]]
           /\ code' \in [Grants -> {"none", "issued", "used"}]
           /\ installed' \in Grants \cup {None}
           /\ HistOK'
  <1> DEFINE Creds == [refresh : 0..MaxRotations, fresh : BOOLEAN]
             Live == [live : BOOLEAN, newest : 0..MaxRotations]
             Rows == /\ credential' \in [Grants -> Creds \cup {None}]
                     /\ grant' \in [Grants -> Live]
                     /\ code' \in [Grants -> {"none", "issued", "used"}]
                     /\ installed' \in Grants \cup {None}
                     /\ HistOK'
  <1> SUFFICES Rows
    OBVIOUS
  <1>1. /\ credential \in [Grants -> Creds \cup {None}]
        /\ grant \in [Grants -> Live]
        /\ code \in [Grants -> {"none", "issued", "used"}]
        /\ installed \in Grants \cup {None}
        /\ HistOK
        /\ 0 \in 0..MaxRotations
    BY DEF Typed, TypeOK
  <1>2. \A h \in Handlers : Equipped(call[h])
    BY DEF Typed, CallsOK
  <1>3. CASE UNCHANGED <<credential, grant, code, installed, hist>>
    BY <1>1, <1>3 DEF HistOK
  <1>4. ASSUME NEW g \in Grants, Start(g) \/ StateExpires(g)
        PROVE  Rows
    BY <1>1, <1>4 DEF Start, StateExpires, stored, remote, bounds, HistOK
  <1>5. ASSUME NEW g \in Grants, TokenAges(g)
        PROVE  Rows
    <2>1. credential[g] \in Creds
      BY <1>1, <1>5 DEF TokenAges
    <2>2. [credential[g] EXCEPT !.fresh = FALSE] \in Creds
      BY <2>1
    <2>3. credential' = [credential EXCEPT ![g] = [credential[g] EXCEPT !.fresh = FALSE]]
      BY <1>1, <1>5 DEF TokenAges
    <2> QED
      BY <1>1, <1>5, <2>2, <2>3 DEF TokenAges, remote, bounds, HistOK
  <1>6. ASSUME NEW h \in Handlers, Exchange(h)
        PROVE  Rows
    <2>1. call[h].about \in Grants
      BY <1>2, <1>6 DEF Exchange, Is, Equipped, AboutGrant
    <2>2. [grant[call[h].about] EXCEPT !.live = TRUE] \in Live
      BY <1>1, <2>1
    <2>3. UNCHANGED grant
            \/ grant' = [grant EXCEPT ![call[h].about] =
                           [grant[call[h].about] EXCEPT !.live = TRUE]]
      BY <1>1, <1>6, <2>1 DEF Exchange
    <2>4. grant' \in [Grants -> Live]
      BY <1>1, <2>1, <2>2, <2>3
    <2> QED
      BY <1>1, <1>6, <2>4 DEF Exchange, stored, bounds, HistOK
  <1>7. ASSUME NEW h \in Handlers, StoreCredential(h)
        PROVE  Rows
    <2>1. call[h].about \in Grants
      BY <1>2, <1>7 DEF StoreCredential, Is, Equipped, AboutGrant
    <2>2. [refresh |-> 0, fresh |-> TRUE] \in Creds
      BY <1>1
    <2>3. hist' = [hist EXCEPT !.replaced = @ \cup ({installed} \ {None})]
      BY <1>7 DEF StoreCredential
    <2>4. HistOK'
      BY <1>1, <2>3 DEF HistOK
    <2> QED
      BY <1>1, <1>7, <2>1, <2>2, <2>4 DEF StoreCredential, remote
  <1>8. ASSUME NEW h \in Handlers, RevokeGrant(h)
        PROVE  Rows
    <2>1. call[h].about \in Grants
      BY <1>2, <1>8 DEF RevokeGrant, Is, Equipped, AboutGrant
    <2>2. [grant[call[h].about] EXCEPT !.live = FALSE] \in Live
      BY <1>1, <2>1
    <2>3. UNCHANGED grant
            \/ grant' = [grant EXCEPT ![call[h].about] =
                           [grant[call[h].about] EXCEPT !.live = FALSE]]
      BY <1>1, <1>8, <2>1 DEF RevokeGrant
    <2>4. grant' \in [Grants -> Live]
      BY <1>1, <2>1, <2>2, <2>3
    <2> QED
      BY <1>1, <1>8, <2>4 DEF RevokeGrant, stored, bounds, HistOK
  <1>9. ASSUME NEW h \in Handlers, Forget(h)
        PROVE  Rows
    BY <1>1, <1>9 DEF Forget, remote, bounds, HistOK
  <1>10. ASSUME NEW h \in Handlers, Refresh(h)
         PROVE  Rows
    <2>1. PICK n \in 0..MaxRotations :
            grant' = [grant EXCEPT ![call[h].token].newest = n]
      BY <1>10, RefreshRotates
    <2>2. call[h].token \in Grants
      BY <1>10, RefreshRotates
    <2>3. [grant[call[h].token] EXCEPT !.newest = n] \in Live
      BY <1>1, <2>2
    <2>4. grant' = [grant EXCEPT ![call[h].token] =
                      [grant[call[h].token] EXCEPT !.newest = n]]
      BY <1>1, <2>1, <2>2
    <2>5. grant' \in [Grants -> Live]
      BY <1>1, <2>2, <2>3, <2>4
    <2> QED
      BY <1>1, <1>10, <2>5 DEF Refresh, stored, bounds, HistOK
  <1>11. ASSUME NEW h \in Handlers, RefreshLost(h)
         PROVE  Rows
    <2> DEFINE g == call[h].token
    <2>1. g \in Grants
      BY <1>2, <1>11 DEF RefreshLost, Equipped, WithToken, Refreshing
    <2>2. grant[g].newest \in 0..MaxRotations /\ grant[g].newest < MaxRotations
      BY <1>1, <1>11, <2>1 DEF RefreshLost
    <2>3. [grant[g] EXCEPT !.newest = @ + 1] \in Live
      BY <1>1, <2>1, <2>2
    <2>4. grant' = [grant EXCEPT ![g] = [grant[g] EXCEPT !.newest = @ + 1]]
      BY <1>1, <1>11, <2>1 DEF RefreshLost
    <2>5. grant' \in [Grants -> Live]
      BY <1>1, <2>1, <2>3, <2>4
    <2>6. hist' = [hist EXCEPT !.lost = @ \cup {g}]
      BY <1>11 DEF RefreshLost
    <2>7. HistOK'
      BY <1>1, <2>1, <2>6 DEF HistOK
    <2> QED
      BY <1>1, <1>11, <2>5, <2>7 DEF RefreshLost
  <1>12. ASSUME NEW h \in Handlers, SaveToken(h)
         PROVE  Rows
    <2> DEFINE g == call[h].token
    <2>1. g \in Grants /\ call[h].held \in 0..MaxRotations
      BY <1>2, <1>12 DEF SaveToken, Equipped, WithToken, Refreshing
    <2>2. [refresh |-> call[h].held, fresh |-> TRUE] \in Creds
      BY <2>1
    <2>3. credential' = [credential EXCEPT ![g] =
             IF @ = None THEN None ELSE [refresh |-> call[h].held, fresh |-> TRUE]]
      BY <1>12 DEF SaveToken
    <2> HIDE DEF Creds
    <2>4. credential' \in [Grants -> Creds \cup {None}]
      BY <1>1, <2>1, <2>2, <2>3
    <2> QED
      BY <1>1, <1>12, <2>4 DEF SaveToken, remote, bounds, HistOK
  <1>13. ASSUME NEW h \in Handlers, Crash(h)
         PROVE  Rows
    <2>1. hist' = [hist EXCEPT !.lost =
                     IF call[h].at = "save" THEN @ \cup {call[h].token} ELSE @]
      BY <1>13 DEF Crash
    <2>2. call[h].at = "save" => call[h].token \in Grants
      BY <1>2 DEF Equipped, WithToken, Refreshing
    <2>3. HistOK'
      BY <1>1, <2>1, <2>2 DEF HistOK
    <2> QED
      BY <1>1, <1>13, <2>3 DEF Crash, stored, remote
  <1> QED
    BY <1>3, <1>4, <1>5, <1>6, <1>7, <1>8, <1>9, <1>10, <1>11, <1>12, <1>13
    DEF Next, OwnerRedirects, Arrive, GetState, DeleteState, ReadConnected,
        ReadInstallation, ReadToken, RefreshRefused, ApiFails, ReadZone,
        ReadCatchAll, PutCatchAll, StoreZone, InsertDomain, SetCheckpoint,
        FailsCheckpoint, stored, remote, bounds

(* The other columns, the states in KV, the zone and the bounds.             *)
LEMMA RestStep ==
    ASSUME Typed, Next
    PROVE  /\ kv' \subseteq Grants
           /\ zoned' \in BOOLEAN
           /\ checkpoint' \in {"pending", "configured", "verified", "failed"}
           /\ domains' \subseteq Names
           /\ routing' \in [ready : BOOLEAN, catchAll : {"none", "other", "worker"}]
           /\ calls' \in 0..MaxCalls /\ faults' \in 0..MaxFaults
           /\ rotates' \in BOOLEAN
  <1> DEFINE Zone == [ready : BOOLEAN, catchAll : {"none", "other", "worker"}]
             Rest == /\ kv' \subseteq Grants
                     /\ zoned' \in BOOLEAN
                     /\ checkpoint' \in {"pending", "configured", "verified", "failed"}
                     /\ domains' \subseteq Names
                     /\ routing' \in Zone
                     /\ calls' \in 0..MaxCalls /\ faults' \in 0..MaxFaults
                     /\ rotates' \in BOOLEAN
  <1> SUFFICES Rest
    OBVIOUS
  <1> USE DEF stored, remote, bounds
  <1>1. /\ kv \subseteq Grants /\ zoned \in BOOLEAN /\ domains \subseteq Names
        /\ checkpoint \in {"pending", "configured", "verified", "failed"}
        /\ calls \in 0..MaxCalls /\ faults \in 0..MaxFaults
        /\ rotates \in BOOLEAN
    BY DEF Typed, TypeOK
  <1>2. /\ routing \in Zone
        /\ [routing EXCEPT !.ready = TRUE] \in Zone
        /\ [routing EXCEPT !.catchAll = "worker"] \in Zone
        /\ [routing EXCEPT !.catchAll = "other"] \in Zone
    BY DEF Typed, TypeOK
  <1> HIDE DEF Zone
  <1>3. ASSUME NEW g \in Grants, Start(g) \/ StateExpires(g) \/ TokenAges(g)
        PROVE  Rest
    BY <1>1, <1>2, <1>3 DEF Start, StateExpires, TokenAges
  <1>4. ASSUME OwnerRedirects PROVE Rest
    BY <1>1, <1>2, <1>4 DEF OwnerRedirects
  <1>5. ASSUME NEW h \in Handlers, Arrive(h) \/ Crash(h)
        PROVE  Rest
    <2>1. CASE Arrive(h)
      <3>1. calls < MaxCalls /\ calls' = calls + 1
        BY <2>1 DEF Arrive
      <3>2. UNCHANGED <<kv, stored, remote, faults, rotates>>
        BY <2>1 DEF Arrive
      <3> QED
        BY <1>1, <1>2, <3>1, <3>2
    <2>2. CASE Crash(h)
      BY <1>1, <1>2, <2>2 DEF Crash
    <2> QED
      BY <1>5, <2>1, <2>2
  <1>6. ASSUME NEW h \in Handlers,
               GetState(h) \/ DeleteState(h) \/ Exchange(h) \/ StoreCredential(h)
        PROVE  Rest
    BY <1>1, <1>2, <1>6 DEF GetState, DeleteState, Exchange, StoreCredential
  <1>7. ASSUME NEW h \in Handlers,
               \/ ReadConnected(h) \/ RevokeGrant(h) \/ Forget(h)
               \/ ReadInstallation(h) \/ ReadToken(h)
        PROVE  Rest
    BY <1>1, <1>2, <1>7
    DEF ReadConnected, RevokeGrant, Forget, ReadInstallation, ReadToken
  <1>8. ASSUME NEW h \in Handlers, Refresh(h) \/ RefreshRefused(h) \/ SaveToken(h)
        PROVE  Rest
    BY <1>1, <1>2, <1>8 DEF Refresh, RefreshRefused, SaveToken, FailsCheckpoint
  <1>9. ASSUME NEW h \in Handlers, RefreshLost(h)
        PROVE  Rest
    BY <1>1, <1>2, <1>9 DEF RefreshLost
  <1>10. ASSUME NEW h \in Handlers,
                ApiFails(h) \/ ReadZone(h) \/ ReadCatchAll(h) \/ PutCatchAll(h)
         PROVE  Rest
    BY <1>1, <1>2, <1>10
    DEF ApiFails, ReadZone, ReadCatchAll, PutCatchAll, FailsCheckpoint
  <1>11. ASSUME NEW h \in Handlers, StoreZone(h) \/ SetCheckpoint(h)
         PROVE  Rest
    BY <1>1, <1>2, <1>11 DEF StoreZone, SetCheckpoint
  <1>12. ASSUME NEW h \in Handlers, InsertDomain(h)
         PROVE  Rest
    <2>1. call[h].about \in Names
      BY <1>12 DEF InsertDomain, Is, Typed, CallsOK, Equipped
    <2> QED
      BY <1>1, <1>2, <1>12, <2>1 DEF InsertDomain, FailsCheckpoint
  <1> QED
    BY <1>3, <1>4, <1>5, <1>6, <1>7, <1>8, <1>9, <1>10, <1>11, <1>12 DEF Next

LEMMA TypedStep == Typed /\ [Next]_vars => Typed'
  <1> SUFFICES ASSUME Typed, [Next]_vars PROVE Typed'
    OBVIOUS
  <1>1. CASE UNCHANGED vars
    <2>1. TypeOK'
      BY <1>1 DEF vars, Typed, TypeOK
    <2>2. CallsOK' /\ HistOK' /\ rotates' = rotates
      BY <1>1 DEF vars, Typed, CallsOK, HistOK
    <2> QED
      BY <2>1, <2>2 DEF Typed
  <1>2. CASE Next
    BY <1>2, CallStep, RowsStep, RestStep DEF Typed, TypeOK
  <1> QED
    BY <1>1, <1>2

(* Every row of the connection, the grants and the zone keeps its type, and  *)
(* every place a call reaches finds the grant, token and name it needs.      *)
THEOREM TypeCorrect == Spec => []TypeOK
  <1>1. Typed => TypeOK
    BY DEF Typed
  <1> QED
    BY <1>1, TypedInit, TypedStep, PTL DEF Spec

-----------------------------------------------------------------------------
(* Every stored secret is accounted for.  The property is inductive once the *)
(* types are known: a connection and what it replaces are written in one     *)
(* batch, and so are a revocation and the row it removes.                    *)
LEMMA RowIsNoNull ==
    ASSUME NEW n \in 0..MaxRotations
    PROVE  [refresh |-> n, fresh |-> TRUE] # None
  <1>1. [refresh |-> n, fresh |-> TRUE] \in [refresh : 0..MaxRotations, fresh : BOOLEAN]
    OBVIOUS
  <1> QED
    BY <1>1

LEMMA SecretsInit == Init => SecretsAccountedFor
  BY DEF Init, SecretsAccountedFor

LEMMA SecretsStep ==
    ASSUME Typed, SecretsAccountedFor, [Next]_vars
    PROVE  SecretsAccountedFor'
  <1> USE DEF stored, remote, bounds
  <1>1. /\ credential \in [Grants -> [refresh : 0..MaxRotations, fresh : BOOLEAN] \cup {None}]
        /\ installed \in Grants \cup {None}
        /\ hist \in [replaced : SUBSET Grants, lost : SUBSET Grants]
    BY DEF Typed, TypeOK, HistOK
  <1>2. ASSUME installed' = installed, checkpoint' \in {checkpoint, "pending", "failed", "verified"},
               hist'.replaced = hist.replaced,
               \A g \in Grants : credential'[g] = None <=> credential[g] = None
        PROVE  SecretsAccountedFor'
    BY <1>1, <1>2 DEF SecretsAccountedFor
  <1>3. CASE UNCHANGED vars
    BY <1>2, <1>3 DEF vars
  <1>4. ASSUME NEW g \in Grants, Start(g) \/ StateExpires(g)
        PROVE  SecretsAccountedFor'
    BY <1>2, <1>4 DEF Start, StateExpires
  <1>5. ASSUME NEW g \in Grants, TokenAges(g)
        PROVE  SecretsAccountedFor'
    <2>1. credential'[g] \in [refresh : 0..MaxRotations, fresh : BOOLEAN]
      BY <1>1, <1>5 DEF TokenAges
    <2>2. \A q \in Grants : q # g => credential'[q] = credential[q]
      BY <1>1, <1>5 DEF TokenAges
    <2>3. credential'[g] # None /\ credential[g] # None
      BY <1>5, <2>1 DEF TokenAges
    <2> QED
      BY <1>2, <1>5, <2>2, <2>3 DEF TokenAges
  <1>6. CASE OwnerRedirects
    BY <1>2, <1>6 DEF OwnerRedirects
  <1>7. ASSUME NEW h \in Handlers,
               \/ Arrive(h) \/ GetState(h) \/ DeleteState(h) \/ Exchange(h)
               \/ ReadConnected(h) \/ RevokeGrant(h) \/ ReadInstallation(h)
               \/ ReadToken(h) \/ Refresh(h)
        PROVE  SecretsAccountedFor'
    <2>1. UNCHANGED <<credential, installed, checkpoint, hist>>
      BY <1>7
      DEF Arrive, GetState, DeleteState, Exchange, ReadConnected, RevokeGrant,
          ReadInstallation, ReadToken, Refresh
    <2> QED
      BY <1>2, <2>1
  <1>8. ASSUME NEW h \in Handlers,
               \/ RefreshRefused(h) \/ ApiFails(h) \/ ReadZone(h) \/ ReadCatchAll(h)
               \/ PutCatchAll(h) \/ StoreZone(h) \/ InsertDomain(h) \/ SetCheckpoint(h)
        PROVE  SecretsAccountedFor'
    <2>1. /\ UNCHANGED <<credential, installed, hist>>
          /\ checkpoint' \in {checkpoint, "pending", "failed", "verified"}
      BY <1>8
      DEF RefreshRefused, ApiFails, ReadZone, ReadCatchAll, PutCatchAll, StoreZone,
          InsertDomain, SetCheckpoint, FailsCheckpoint
    <2> QED
      BY <1>2, <2>1
  <1>9. ASSUME NEW h \in Handlers, RefreshLost(h) \/ Crash(h)
        PROVE  SecretsAccountedFor'
    <2>1. /\ UNCHANGED <<credential, installed>>
          /\ checkpoint' \in {checkpoint, "failed"}
      BY <1>9 DEF RefreshLost, Crash
    <2>2. \E L : hist' = [hist EXCEPT !.lost = L]
      BY <1>9 DEF RefreshLost, Crash
    <2>3. hist'.replaced = hist.replaced
      BY <1>1, <2>2
    <2> QED
      BY <1>2, <2>1, <2>3
  <1>10. ASSUME NEW h \in Handlers, SaveToken(h)
         PROVE  SecretsAccountedFor'
    <2>1. call[h].token \in Grants /\ call[h].held \in 0..MaxRotations
      BY <1>10 DEF SaveToken, Typed, CallsOK, Equipped, WithToken, Refreshing
    <2>2. [refresh |-> call[h].held, fresh |-> TRUE] # None
      BY <2>1, RowIsNoNull
    <2>3. credential' = [credential EXCEPT ![call[h].token] =
             IF @ = None THEN None ELSE [refresh |-> call[h].held, fresh |-> TRUE]]
      BY <1>10 DEF SaveToken
    <2>4. \A g \in Grants : credential'[g] = None <=> credential[g] = None
      BY <1>1, <2>1, <2>2, <2>3
    <2> QED
      BY <1>2, <1>10, <2>4 DEF SaveToken
  <1>11. ASSUME NEW h \in Handlers, StoreCredential(h)
         PROVE  SecretsAccountedFor'
    <2> DEFINE g == call[h].about
    <2>1. g \in Grants
      BY <1>11 DEF StoreCredential, Is, Typed, CallsOK, Equipped, AboutGrant
    <2>2. 0 \in 0..MaxRotations
      OBVIOUS
    <2>3. [refresh |-> 0, fresh |-> TRUE] # None
      BY <2>2, RowIsNoNull
    <2>4. /\ credential' = [credential EXCEPT ![g] = [refresh |-> 0, fresh |-> TRUE]]
          /\ installed' = g
          /\ hist' = [hist EXCEPT !.replaced = @ \cup ({installed} \ {None})]
      BY <1>11 DEF StoreCredential
    <2>5. hist'.replaced = hist.replaced \cup ({installed} \ {None})
      BY <1>1, <2>4
    <2>6. credential'[g] # None /\ \A q \in Grants : q # g => credential'[q] = credential[q]
      BY <1>1, <2>1, <2>3, <2>4
    <2> HIDE DEF g
    <2>7. \A q \in Grants :
            credential'[q] # None => installed' = q \/ q \in hist'.replaced
      BY <1>1, <2>1, <2>4, <2>5, <2>6 DEF SecretsAccountedFor
    <2> QED
      BY <2>1, <2>4, <2>6, <2>7 DEF SecretsAccountedFor
  <1>12. ASSUME NEW h \in Handlers, Forget(h)
         PROVE  SecretsAccountedFor'
    <2> DEFINE g == call[h].about
    <2>1. /\ installed' = IF installed = g THEN None ELSE installed
          /\ credential' = [credential EXCEPT ![g] = None]
          /\ checkpoint' = "pending" /\ hist' = hist
      BY <1>12 DEF Forget
    <2> QED
      BY <1>1, <2>1 DEF SecretsAccountedFor
  <1> QED
    BY <1>3, <1>4, <1>5, <1>6, <1>7, <1>8, <1>9, <1>10, <1>11, <1>12 DEF Next

(* The installed credential has its row, the checkpoint says "configured"    *)
(* only while there is one, and a row that is not installed is one that a    *)
(* later connection replaced, whatever revocations, refreshes and crashes    *)
(* come together: no other secret stays behind.                              *)
THEOREM Accounted == Spec => []SecretsAccountedFor
  <1>1. Typed /\ SecretsAccountedFor /\ [Next]_vars => SecretsAccountedFor'
    BY SecretsStep
  <1> QED
    BY <1>1, TypedInit, TypedStep, SecretsInit, PTL DEF Spec

-----------------------------------------------------------------------------
(* The stored refresh token works *)

LEMMA TokenInit == Init => TokenInv
  <1> SUFFICES ASSUME Init PROVE TokenInv
    OBVIOUS
  <1>1. /\ \A g \in Grants : credential[g] = None /\ grant[g].newest = 0
        /\ \A h \in Handlers : call[h].at = "idle"
    BY DEF Init, Idle
  <1>2. FirstTokens
    BY <1>1 DEF FirstTokens, Unknown, Storing, Refreshes, Refreshing
  <1> QED
    BY <1>1, <1>2 DEF TokenInv, Rotation, Rotated, NoRotation, NewestIsStored

(* A grant whose row, token and refreshes stay as they are. *)
LEMMA RotatedStays ==
    ASSUME NEW g \in Grants, Rotated(g), rotates' = rotates,
           credential'[g] = credential[g], grant'[g].newest = grant[g].newest,
           \A k \in Handlers :
             Refreshes(k, g)' => Refreshes(k, g) /\ call'[k] = call[k]
    PROVE  Rotated(g)'
  <1>1. \A k \in Handlers :
          Saving(k, g)' => Saving(k, g) /\ call'[k] = call[k]
    BY DEF Saving, Refreshes, Refreshing
  <1> QED
    BY <1>1 DEF Rotated

(* A step that leaves code and credential alone, starts no refresh and no store, and ends  *)
(* none between a refresh and its save.                                      *)
LEMMA QuietStep ==
    ASSUME TokenInv, Typed, NEW h \in Handlers,
           UNCHANGED <<code, credential, rotates>>,
           \A g \in Grants : grant'[g].newest = grant[g].newest,
           \A k \in Handlers : k # h => call'[k] = call[k],
           \/ call'[h] = call[h]
           \/ call'[h].at \notin Refreshing \cup {"store"},
           hist.lost \subseteq hist'.lost,
           call[h].at = "save" /\ call'[h] # call[h] => call[h].token \in hist'.lost
    PROVE  TokenInv'
  <1>1. \A k \in Handlers, g \in Grants :
          /\ Storing(k, g)' => Storing(k, g)
          /\ Refreshes(k, g)' => Refreshes(k, g) /\ call'[k] = call[k]
          /\ Saving(k, g)' => Saving(k, g) /\ call'[k] = call[k]
          /\ Saving(k, g) => Saving(k, g)' \/ g \in hist'.lost
    BY DEF Storing, Refreshes, Saving, Refreshing
  <1>2. \A g \in Grants : Unknown(g) => Unknown(g)'
    BY <1>1 DEF Unknown
  <1>3. FirstTokens'
    BY <1>1, <1>2 DEF TokenInv, FirstTokens
  <1>4. Rotation'
    BY <1>1, RotatedStays DEF TokenInv, Rotation
  <1>5. NoRotation'
    BY DEF TokenInv, NoRotation
  <1>6. NewestIsStored'
    BY <1>1 DEF TokenInv, NewestIsStored
  <1> QED
    BY <1>3, <1>4, <1>5, <1>6 DEF TokenInv

(* The calls that touch neither credential nor token. *)
LEMMA QuietActions ==
    ASSUME TokenInv, Typed, NEW h \in Handlers,
           \/ Arrive(h) \/ GetState(h) \/ DeleteState(h) \/ ReadConnected(h)
           \/ RevokeGrant(h) \/ ReadInstallation(h)
           \/ RefreshRefused(h) \/ ApiFails(h) \/ ReadZone(h) \/ ReadCatchAll(h)
           \/ PutCatchAll(h) \/ StoreZone(h) \/ InsertDomain(h) \/ SetCheckpoint(h)
    PROVE  TokenInv'
  <1> USE DEF stored, remote, bounds
  <1>1. UNCHANGED <<code, credential, rotates, hist>>
    BY DEF Arrive, GetState, DeleteState, ReadConnected, RevokeGrant, ReadInstallation,
           RefreshRefused, ApiFails, ReadZone, ReadCatchAll, PutCatchAll, StoreZone,
           InsertDomain, SetCheckpoint, FailsCheckpoint
  <1>2. \A g \in Grants : grant'[g].newest = grant[g].newest
    <2>1. CASE UNCHANGED grant
      BY <2>1
    <2>2. CASE RevokeGrant(h)
      BY <2>2 DEF RevokeGrant, Typed, TypeOK
    <2> QED
      BY <2>1, <2>2
      DEF Arrive, GetState, DeleteState, ReadConnected, ReadInstallation,
          RefreshRefused, ApiFails, ReadZone, ReadCatchAll, PutCatchAll, StoreZone,
          InsertDomain, SetCheckpoint, FailsCheckpoint
  <1>3. call[h].at # "save"
    BY DEF Arrive, GetState, DeleteState, ReadConnected, RevokeGrant, ReadInstallation,
           RefreshRefused, ApiFails, ReadZone, ReadCatchAll, PutCatchAll, StoreZone,
           InsertDomain, SetCheckpoint, Is
  <1> DEFINE Aside == /\ call'[h].at \notin Refreshing \cup {"store"}
                      /\ \A k \in Handlers : k # h => call'[k] = call[k]
  <1>4. Aside
    <2>1. CallsOK /\ call[h] \in Calls
      BY DEF Typed, CallsOK
    <2>2. ASSUME Ends(h)
          PROVE  Aside
      BY <2>1, <2>2, EndsTyped DEF Idle, Refreshing
    <2>3. ASSUME NEW place \in {"delete", "exchange", "forget", "catchAll", "put",
                                "write", "checkpoint"},
                 Goes(h, place)
          PROVE  Aside
      BY <2>1, <2>3 DEF Goes, CallsOK, Calls, Refreshing
    <2>4. CASE Arrive(h)
      <3>1. \E c \in Calls : /\ c.at \in {"get", "read", "token", "installation"}
                             /\ call' = [call EXCEPT ![h] = c]
        BY <2>4 DEF Arrive, Idle, Calls, Places
      <3> QED
        BY <2>1, <3>1 DEF CallsOK, Refreshing
    <2>5. CASE ReadConnected(h)
      BY <2>1, <2>2, <2>5 DEF ReadConnected, CallsOK, Calls, Refreshing
    <2>6. CASE ReadInstallation(h)
      BY <2>1, <2>6 DEF ReadInstallation, CallsOK, Calls, Refreshing
    <2> QED
      BY <2>2, <2>3, <2>4, <2>5, <2>6
      DEF GetState, DeleteState, RevokeGrant, RefreshRefused, ApiFails, ReadZone,
          ReadCatchAll, PutCatchAll, StoreZone, InsertDomain, SetCheckpoint,
          FailsCheckpoint
  <1> QED
    BY <1>1, <1>2, <1>3, <1>4, QuietStep

(* The steps that write a token, or move one. *)

LEMMA StartKeepsTokens ==
    ASSUME TokenInv, Typed, NEW g \in Grants, Start(g)
    PROVE  TokenInv'
  <1>1. /\ code[g] = "none" /\ code' = [code EXCEPT ![g] = "issued"]
        /\ UNCHANGED <<credential, grant, call, hist, rotates>>
    BY DEF Start, stored
  <1>2. \A q \in Grants : code'[q] # "used" => code[q] # "used"
    BY <1>1 DEF Typed, TypeOK
  <1>3. FirstTokens'
    BY <1>1, <1>2 DEF TokenInv, FirstTokens, Unknown, Storing, Refreshes
  <1>4. Rotation'
    BY <1>1, RotatedStays DEF TokenInv, Rotation, Refreshes
  <1>5. NoRotation' /\ NewestIsStored'
    BY <1>1 DEF TokenInv, NoRotation, NewestIsStored, Saving
  <1> QED
    BY <1>3, <1>4, <1>5 DEF TokenInv

LEMMA ExchangeKeepsTokens ==
    ASSUME TokenInv, Typed, NEW h \in Handlers, Exchange(h), ~Ends(h)
    PROVE  TokenInv'
  <1>0. PICK g \in Grants : g = call[h].about
    BY DEF Exchange, Is, Typed, CallsOK, Equipped, AboutGrant
  <1>1. /\ CallsOK /\ call[h] \in Calls
        /\ call[h].at = "exchange"
    BY DEF Exchange, Is, Typed, CallsOK
  <1>2. /\ code[g] = "issued" /\ code' = [code EXCEPT ![g] = "used"]
        /\ grant' = [grant EXCEPT ![g].live = TRUE]
        /\ Goes(h, "store")
        /\ UNCHANGED <<credential, hist, rotates>>
    BY <1>0 DEF Exchange, stored, bounds
  <1>3. /\ call'[h].at = "store" /\ call'[h].about = g
        /\ \A k \in Handlers : k # h => call'[k] = call[k]
    BY <1>0, <1>1, <1>2 DEF Goes, CallsOK, Calls
  <1>4. \A q \in Grants : grant'[q].newest = grant[q].newest
    BY <1>2 DEF Typed, TypeOK
  <1>5. \A q \in Grants : q # g => code'[q] = code[q]
    BY <1>2 DEF Typed, TypeOK
  <1>6. code'[g] = "used"
    BY <1>1, <1>2 DEF Typed, TypeOK
  <1>7. \A k \in Handlers, q \in Grants :
          /\ Storing(k, q)' <=> Storing(k, q) \/ (k = h /\ q = g)
          /\ Refreshes(k, q)' <=> Refreshes(k, q)
          /\ Refreshes(k, q)' => call'[k] = call[k]
          /\ Saving(k, q)' <=> Saving(k, q)
    BY <1>1, <1>3 DEF Storing, Refreshes, Saving, Refreshing
  <1>8. \A q \in Grants : Unknown(q)' <=> Unknown(q)
    BY <1>2, <1>4, <1>7 DEF Unknown
  <1>9. Unknown(g) /\ \A k \in Handlers : ~Storing(k, g)
    BY <1>1, <1>2 DEF TokenInv, FirstTokens
  <1>10. FirstTokens'
    <2>1. ASSUME NEW q \in Grants, code'[q] # "used"
          PROVE  Unknown(q)' /\ \A k \in Handlers : ~Storing(k, q)'
      BY <1>5, <1>6, <1>7, <1>8, <2>1 DEF TokenInv, FirstTokens
    <2>2. ASSUME NEW k \in Handlers, NEW q \in Grants, Storing(k, q)'
          PROVE  Unknown(q)' /\ \A j \in Handlers : Storing(j, q)' => j = k
      BY <1>7, <1>8, <1>9, <2>2 DEF TokenInv, FirstTokens
    <2> QED
      BY <2>1, <2>2 DEF FirstTokens
  <1>11. Rotation'
    BY <1>2, <1>4, <1>7, RotatedStays DEF TokenInv, Rotation
  <1>12. NoRotation'
    BY <1>2, <1>4 DEF TokenInv, NoRotation
  <1>13. NewestIsStored'
    BY <1>2, <1>4, <1>7 DEF TokenInv, NewestIsStored
  <1> QED
    BY <1>10, <1>11, <1>12, <1>13 DEF TokenInv

(* The first token of g: nobody knows the grant yet. *)
LEMMA StoreKeepsTokens ==
    ASSUME TokenInv, Typed, NEW h \in Handlers, StoreCredential(h)
    PROVE  TokenInv'
  <1>0. PICK g \in Grants : g = call[h].about
    BY DEF StoreCredential, Is, Typed, CallsOK, Equipped, AboutGrant
  <1>1. g \in Grants /\ CallsOK /\ Storing(h, g)
    BY <1>0 DEF StoreCredential, Is, Typed, Storing
  <1>2. /\ credential' = [credential EXCEPT ![g] = [refresh |-> 0, fresh |-> TRUE]]
        /\ Ends(h) /\ UNCHANGED <<code, grant, rotates>>
        /\ hist' = [hist EXCEPT !.replaced = @ \cup ({installed} \ {None})]
    BY <1>0 DEF StoreCredential, remote
  <1>3. call'[h] = Idle /\ \A k \in Handlers : k # h => call'[k] = call[k]
    BY <1>1, <1>2, EndsTyped
  <1>4. hist'.lost = hist.lost
    BY <1>2 DEF Typed, HistOK
  <1>5. /\ credential'[g].refresh = 0
        /\ \A q \in Grants : q # g => credential'[q] = credential[q]
    BY <1>1, <1>2 DEF Typed, TypeOK
  <1>6. /\ Unknown(g) /\ code[g] = "used"
        /\ \A k \in Handlers : Storing(k, g) => k = h
    BY <1>1 DEF TokenInv, FirstTokens
  <1>7. \A k \in Handlers, q \in Grants :
          /\ Storing(k, q)' <=> Storing(k, q) /\ k # h
          /\ Refreshes(k, q)' <=> Refreshes(k, q)
          /\ Refreshes(k, q)' => call'[k] = call[k]
          /\ Saving(k, q)' <=> Saving(k, q)
    BY <1>1, <1>3 DEF Storing, Refreshes, Saving, Refreshing, Idle
  <1>8. \A q \in Grants : q # g => (Unknown(q)' <=> Unknown(q))
    BY <1>2, <1>5, <1>7 DEF Unknown
  <1>9. FirstTokens'
    BY <1>2, <1>6, <1>7, <1>8 DEF TokenInv, FirstTokens
  <1>10. \A k \in Handlers : ~Refreshes(k, g) /\ ~Saving(k, g)
    BY <1>6 DEF Unknown, Refreshes, Saving, Refreshing
  <1>11. grant[g].newest = 0
    BY <1>6 DEF Unknown
  <1>12. Rotation'
    <2>1. ASSUME NEW q \in Grants, q # g PROVE Rotated(q)'
      BY <1>2, <1>5, <1>7, <2>1, RotatedStays DEF TokenInv, Rotation
    <2>2. Rotated(g)'
      BY <1>2, <1>5, <1>7, <1>10, <1>11 DEF Rotated
    <2> QED
      BY <2>1, <2>2 DEF Rotation
  <1>13. NoRotation'
    BY <1>1, <1>2, <1>5 DEF TokenInv, NoRotation
  <1>14. NewestIsStored'
    BY <1>1, <1>2, <1>4, <1>5, <1>7, <1>11 DEF TokenInv, NewestIsStored
  <1> QED
    BY <1>9, <1>12, <1>13, <1>14 DEF TokenInv

(* A refresh begins with the token of the row. *)
LEMMA ReadTokenKeepsTokens ==
    ASSUME TokenInv, Typed, NEW h \in Handlers, ReadToken(h)
    PROVE  TokenInv'
  <1> USE DEF stored, remote, bounds
  <1>1. /\ CallsOK /\ call[h] \in Calls /\ call[h].at = "token"
        /\ UNCHANGED <<code, credential, grant, rotates, hist>>
    BY DEF ReadToken, Typed, CallsOK
  <1>2. CASE ~Connected \/ credential[installed].fresh
    <2>1. PICK g : AfterToken(h, g)
      BY <1>2 DEF ReadToken
    <2>2. /\ call'[h].at \in {"zone", "write"}
          /\ \A k \in Handlers : k # h => call'[k] = call[k]
      BY <1>1, <2>1 DEF AfterToken, CallsOK, Calls
    <2> QED
      BY <1>1, <2>2, QuietStep DEF Refreshing
  <1>3. CASE Connected /\ ~credential[installed].fresh
    <2>0. PICK i \in Grants : i = installed
      BY <1>3 DEF Connected, Typed, TypeOK
    <2>1. credential[i] # None /\ credential[i].refresh \in 0..MaxRotations
      BY <1>3, <2>0 DEF Connected, Typed, TypeOK
    <2>2. /\ call'[h].at = "refresh" /\ call'[h].token = i
          /\ call'[h].held = credential[i].refresh
          /\ \A k \in Handlers : k # h => call'[k] = call[k]
      BY <1>1, <1>3, <2>0 DEF ReadToken, CallsOK, Calls
    <2>3. \A k \in Handlers, g \in Grants :
            /\ Storing(k, g)' <=> Storing(k, g)
            /\ Refreshes(k, g)' <=> Refreshes(k, g) \/ (k = h /\ g = i)
            /\ k # h /\ Refreshes(k, g)' => call'[k] = call[k]
            /\ Saving(k, g)' <=> Saving(k, g)
            /\ Saving(k, g) => k # h
      BY <1>1, <2>1, <2>2 DEF Storing, Refreshes, Saving, Refreshing
    <2>4. \A g \in Grants : Unknown(g) => Unknown(g)'
      BY <1>1, <2>1, <2>3 DEF Unknown
    <2>5. FirstTokens'
      BY <1>1, <2>3, <2>4 DEF TokenInv, FirstTokens
    <2>6. Rotation'
      <3>1. ASSUME NEW g \in Grants, g # i PROVE Rotated(g)'
        <4>1. \A k \in Handlers :
                Refreshes(k, g)' => Refreshes(k, g) /\ call'[k] = call[k]
          BY <2>3, <3>1, <1>1 DEF Refreshes, Refreshing
        <4> QED
          BY <1>1, <4>1, RotatedStays DEF TokenInv, Rotation
      <3>2. Rotated(i)'
        <4>1. Rotated(i)
          BY <2>1 DEF TokenInv, Rotation
        <4>2. credential[i].refresh <= credential[i].refresh
          BY <2>1
        <4>3. \A k \in Handlers : Saving(k, i)'
                => Saving(k, i) /\ call'[k] = call[k]
          BY <2>1, <2>2, <2>3
        <4>4. \A k \in Handlers : Refreshes(k, i)' /\ call'[k].at = "refresh"
                => call'[k].held <= credential[i].refresh
          BY <2>1, <2>2, <2>3, <4>1, <4>2 DEF Rotated
        <4> QED
          BY <1>1, <2>1, <4>1, <4>3, <4>4 DEF Rotated
      <3> QED
        BY <1>1, <2>1, <3>1, <3>2 DEF Rotation
    <2>7. NoRotation' /\ NewestIsStored'
      BY <1>1, <2>3 DEF TokenInv, NoRotation, NewestIsStored
    <2> QED
      BY <2>5, <2>6, <2>7 DEF TokenInv
  <1> QED
    BY <1>2, <1>3

(* The handler that refreshes holds the newest token; while the row exists   *)
(* that is the row's, so nobody else is between a refresh and its save.      *)
LEMMA HolderIsAlone ==
    ASSUME TokenInv, Typed, NEW h \in Handlers, NEW g \in Grants,
           Refreshes(h, g), call[h].at = "refresh", call[h].held = grant[g].newest,
           credential[g] # None, rotates
    PROVE  /\ credential[g].refresh = grant[g].newest
           /\ \A k \in Handlers : ~Saving(k, g)
  <1>1. credential[g].refresh \in 0..MaxRotations /\ grant[g].newest \in 0..MaxRotations
    BY DEF Typed, TypeOK
  <1>2. call[h].held <= credential[g].refresh /\ credential[g].refresh <= grant[g].newest
    BY DEF TokenInv, Rotation, Rotated
  <1>3. credential[g].refresh = grant[g].newest
    BY <1>1, <1>2
  <1>4. ASSUME NEW k \in Handlers, Saving(k, g) PROVE FALSE
    <2>1. credential[g].refresh < grant[g].newest
      BY <1>4 DEF TokenInv, Rotation, Rotated
    <2> QED
      BY <1>1, <1>3, <2>1
  <1> QED
    BY <1>3, <1>4

LEMMA RefreshKeepsTokens ==
    ASSUME TokenInv, Typed, NEW h \in Handlers, Refresh(h)
    PROVE  TokenInv'
  <1> USE DEF stored, bounds
  <1>1. PICK g \in Grants : g = call[h].token
    BY RefreshRotates
  <1>2. PICK n \in 0..MaxRotations :
          /\ n = IF rotates THEN grant[g].newest + 1 ELSE 0
          /\ grant' = [grant EXCEPT ![g].newest = n]
          /\ call' = [call EXCEPT ![h].at = "save", ![h].held = n]
    BY <1>1, RefreshRotates
  <1>3. /\ CallsOK /\ call[h] \in Calls /\ call[h].at = "refresh"
        /\ call[h].held = grant[g].newest
        /\ UNCHANGED <<code, credential, rotates, hist>>
    BY <1>1 DEF Refresh, Typed, CallsOK
  <1>4. /\ call'[h].at = "save" /\ call'[h].token = g /\ call'[h].held = n
        /\ \A k \in Handlers : k # h => call'[k] = call[k]
    BY <1>1, <1>2, <1>3 DEF CallsOK, Calls
  <1>5. /\ grant'[g].newest = n
        /\ \A q \in Grants : q # g => grant'[q] = grant[q]
    BY <1>2 DEF Typed, TypeOK
  <1>6. \A k \in Handlers, q \in Grants :
          /\ Storing(k, q)' <=> Storing(k, q)
          /\ Refreshes(k, q)' <=> Refreshes(k, q)
          /\ k # h => call'[k] = call[k]
          /\ Saving(k, q)' <=> Saving(k, q) \/ (k = h /\ q = g)
          /\ q # g => ~Refreshes(h, q)
    BY <1>1, <1>3, <1>4 DEF Storing, Refreshes, Saving, Refreshing
  <1>7. Refreshes(h, g)
    BY <1>1, <1>3 DEF Refreshes, Refreshing
  <1>8. \A q \in Grants : Unknown(q) => q # g /\ Unknown(q)'
    BY <1>3, <1>5, <1>6, <1>7 DEF Unknown
  <1>9. FirstTokens'
    BY <1>3, <1>6, <1>8 DEF TokenInv, FirstTokens
  <1>10. ASSUME NEW q \in Grants, q # g PROVE Rotated(q)'
    BY <1>3, <1>5, <1>6, <1>10, RotatedStays DEF TokenInv, Rotation
  <1>11. Rotated(g)'
    <2> SUFFICES ASSUME credential[g] # None PROVE Rotated(g)'
      BY <1>3 DEF Rotated
    <2>1. credential[g].refresh \in 0..MaxRotations /\ grant[g].newest \in 0..MaxRotations
      BY DEF Typed, TypeOK
    <2>2. CASE rotates
      <3>1. /\ credential[g].refresh = grant[g].newest
            /\ \A k \in Handlers : ~Saving(k, g)
        BY <1>3, <1>7, <2>2, HolderIsAlone
      <3>2. credential[g].refresh < n
        BY <1>2, <2>1, <2>2, <3>1
      <3>3. \A k \in Handlers : Saving(k, g)' <=> k = h
        BY <1>6, <3>1
      <3>4. \A k \in Handlers : Refreshes(k, g)' /\ call'[k].at = "refresh"
              => call'[k].held <= credential[g].refresh
        BY <1>4, <1>6 DEF TokenInv, Rotation, Rotated
      <3>5. credential[g].refresh <= n
        BY <2>1, <3>2
      <3> QED
        BY <1>3, <1>4, <1>5, <3>2, <3>3, <3>4, <3>5 DEF Rotated
    <2>3. CASE ~rotates
      <3>1. n = 0 /\ grant[g].newest = 0 /\ credential[g].refresh = 0
        BY <1>2, <2>3 DEF TokenInv, NoRotation
      <3>2. \A k \in Handlers : Refreshes(k, g)' /\ call'[k].at = "refresh"
              => call'[k].held <= credential[g].refresh
        BY <1>4, <1>6 DEF TokenInv, Rotation, Rotated
      <3>3. \A k \in Handlers : Saving(k, g)' => call'[k].held = 0
        BY <1>4, <1>6, <3>1 DEF TokenInv, Rotation, Rotated
      <3> QED
        BY <1>3, <1>5, <2>3, <3>1, <3>2, <3>3 DEF Rotated
    <2> QED
      BY <2>2, <2>3
  <1>12. Rotation'
    BY <1>10, <1>11 DEF Rotation
  <1>13. NoRotation'
    BY <1>2, <1>3, <1>5 DEF TokenInv, NoRotation
  <1>14. NewestIsStored'
    BY <1>3, <1>5, <1>6 DEF TokenInv, NewestIsStored
  <1> QED
    BY <1>9, <1>12, <1>13, <1>14 DEF TokenInv

LEMMA LostKeepsTokens ==
    ASSUME TokenInv, Typed, NEW h \in Handlers, RefreshLost(h)
    PROVE  TokenInv'
  <1>1. PICK g \in Grants : g = call[h].token
    BY DEF RefreshLost, Typed, CallsOK, Equipped, WithToken, Refreshing
  <1>a. grant[g].newest \in Nat
    BY DEF Typed, TypeOK
  <1>2. /\ CallsOK /\ call[h].at = "refresh" /\ rotates
        /\ call[h].held = grant[g].newest
        /\ grant' = [grant EXCEPT ![g].newest = @ + 1]
        /\ hist' = [hist EXCEPT !.lost = @ \cup {g}]
        /\ Ends(h)
        /\ UNCHANGED <<code, credential, rotates>>
    BY <1>1 DEF RefreshLost, Typed
  <1>3. call'[h] = Idle /\ \A k \in Handlers : k # h => call'[k] = call[k]
    BY <1>a, <1>2, EndsTyped
  <1>4. /\ grant'[g].newest = grant[g].newest + 1
        /\ \A q \in Grants : q # g => grant'[q] = grant[q]
    BY <1>a, <1>2 DEF Typed, TypeOK
  <1>5. hist'.lost = hist.lost \cup {g}
    BY <1>a, <1>2 DEF Typed, HistOK
  <1>6. \A k \in Handlers, q \in Grants :
          /\ Storing(k, q)' <=> Storing(k, q)
          /\ Refreshes(k, q)' <=> Refreshes(k, q) /\ k # h
          /\ Refreshes(k, q)' => call'[k] = call[k]
          /\ Saving(k, q)' <=> Saving(k, q)
    BY <1>a, <1>2, <1>3 DEF Storing, Refreshes, Saving, Refreshing, Idle
  <1>7. Refreshes(h, g)
    BY <1>1, <1>2 DEF Refreshes, Refreshing
  <1>8. \A q \in Grants : Unknown(q) => q # g /\ Unknown(q)'
    BY <1>a, <1>2, <1>4, <1>6, <1>7 DEF Unknown
  <1>9. FirstTokens'
    BY <1>a, <1>2, <1>6, <1>8 DEF TokenInv, FirstTokens
  <1>10. ASSUME NEW q \in Grants, q # g PROVE Rotated(q)'
    BY <1>a, <1>2, <1>4, <1>6, <1>10, RotatedStays DEF TokenInv, Rotation
  <1>11. Rotated(g)'
    <2> SUFFICES ASSUME credential[g] # None PROVE Rotated(g)'
      BY <1>a, <1>2 DEF Rotated
    <2>1. /\ credential[g].refresh = grant[g].newest
          /\ \A k \in Handlers : ~Saving(k, g)
      BY <1>a, <1>2, <1>7, HolderIsAlone
    <2>2. credential[g].refresh <= grant[g].newest + 1
      BY <1>a, <1>2, <2>1
    <2>3. \A k \in Handlers : Refreshes(k, g)' /\ call'[k].at = "refresh"
            => call'[k].held <= credential[g].refresh
      BY <1>6 DEF TokenInv, Rotation, Rotated
    <2> QED
      BY <1>a, <1>2, <1>4, <1>6, <2>1, <2>2, <2>3 DEF Rotated
  <1>12. Rotation'
    BY <1>10, <1>11 DEF Rotation
  <1>13. NoRotation'
    BY <1>a, <1>2 DEF NoRotation
  <1>14. NewestIsStored'
    BY <1>a, <1>2, <1>4, <1>5, <1>6 DEF TokenInv, NewestIsStored
  <1> QED
    BY <1>9, <1>12, <1>13, <1>14 DEF TokenInv

LEMMA SaveKeepsTokens ==
    ASSUME TokenInv, Typed, NEW h \in Handlers, SaveToken(h)
    PROVE  TokenInv'
  <1> USE DEF remote, bounds
  <1>1. PICK g \in Grants : g = call[h].token
    BY DEF SaveToken, Typed, CallsOK, Equipped, WithToken, Refreshing
  <1>2. /\ CallsOK /\ call[h] \in Calls /\ call[h].at = "save"
        /\ AfterToken(h, g)
        /\ credential' = [credential EXCEPT ![g] =
             IF @ = None THEN None ELSE [refresh |-> call[h].held, fresh |-> TRUE]]
        /\ UNCHANGED <<code, grant, rotates, hist>>
    BY <1>1 DEF SaveToken, Typed, CallsOK
  <1>3. /\ call'[h].at \in {"zone", "write"}
        /\ \A k \in Handlers : k # h => call'[k] = call[k]
    BY <1>2 DEF AfterToken, CallsOK, Calls
  <1>4. /\ \A q \in Grants : q # g => credential'[q] = credential[q]
        /\ credential[g] = None => credential'[g] = None
        /\ credential[g] # None => credential'[g].refresh = call[h].held
    BY <1>2 DEF Typed, TypeOK
  <1>5. \A k \in Handlers, q \in Grants :
          /\ Storing(k, q)' <=> Storing(k, q)
          /\ Refreshes(k, q)' <=> Refreshes(k, q) /\ k # h
          /\ Refreshes(k, q)' => call'[k] = call[k]
          /\ Saving(k, q)' <=> Saving(k, q) /\ k # h
    BY <1>2, <1>3 DEF Storing, Refreshes, Saving, Refreshing
  <1>6. Saving(h, g) /\ Refreshes(h, g) /\ \A q \in Grants : q # g => ~Saving(h, q)
    BY <1>1, <1>2 DEF Saving, Refreshes, Refreshing
  <1>7. \A q \in Grants : Unknown(q) => q # g /\ Unknown(q)'
    BY <1>2, <1>4, <1>5, <1>6 DEF Unknown
  <1>8. FirstTokens'
    BY <1>2, <1>5, <1>7 DEF TokenInv, FirstTokens
  <1>9. ASSUME NEW q \in Grants, q # g PROVE Rotated(q)'
    BY <1>2, <1>4, <1>5, <1>9, RotatedStays DEF TokenInv, Rotation
  <1>10. ASSUME credential[g] # None
         PROVE  /\ call[h].held = grant[g].newest
                /\ credential[g].refresh <= grant[g].newest
                /\ grant[g].newest \in 0..MaxRotations
                /\ credential[g].refresh \in 0..MaxRotations
                /\ rotates => \A k \in Handlers : Saving(k, g) => k = h
    BY <1>6, <1>10 DEF TokenInv, Rotation, Rotated, Typed, TypeOK
  <1>11. Rotated(g)'
    <2> SUFFICES ASSUME credential'[g] # None PROVE Rotated(g)'
      BY DEF Rotated
    <2>1. /\ credential[g] # None
          /\ credential'[g].refresh = grant[g].newest
      BY <1>4, <1>10
    <2>2. credential'[g].refresh <= grant'[g].newest
      BY <1>2, <1>10, <2>1
    <2>3. \A k \in Handlers : Refreshes(k, g)' /\ call'[k].at = "refresh"
            => call'[k].held <= credential'[g].refresh
      <3> SUFFICES ASSUME NEW k \in Handlers, Refreshes(k, g)', call'[k].at = "refresh"
                   PROVE  call[k].held <= credential'[g].refresh
        BY <1>5
      <3>1. call[k].held <= credential[g].refresh /\ call[k].held \in 0..MaxRotations
        BY <1>2, <1>5, <2>1
        DEF TokenInv, Rotation, Rotated, CallsOK, Equipped, Refreshing
      <3> QED
        BY <1>10, <2>1, <3>1
    <2>4. \A k \in Handlers : Saving(k, g)' =>
            ~rotates /\ call'[k].held = grant[g].newest
      BY <1>5, <1>6, <1>10, <2>1, <1>3 DEF TokenInv, Rotation, Rotated
    <2> QED
      BY <1>2, <2>2, <2>3, <2>4 DEF Rotated
  <1>12. Rotation'
    BY <1>9, <1>11 DEF Rotation
  <1>13. NoRotation'
    BY <1>2, <1>4, <1>10 DEF TokenInv, NoRotation
  <1>14. NewestIsStored'
    <2>1. ASSUME NEW q \in Grants, q # g,
                 credential'[q] # None, q \notin hist'.lost, \A k \in Handlers : ~Saving(k, q)'
          PROVE  credential'[q].refresh = grant'[q].newest
      BY <1>2, <1>4, <1>5, <1>6, <2>1 DEF TokenInv, NewestIsStored
    <2>2. credential'[g] # None => credential'[g].refresh = grant'[g].newest
      BY <1>2, <1>4, <1>10
    <2> QED
      BY <2>1, <2>2 DEF NewestIsStored
  <1> QED
    BY <1>8, <1>12, <1>13, <1>14 DEF TokenInv

(* A row that ages or is forgotten says no more than before. *)
LEMMA RowKeepsTokens ==
    ASSUME TokenInv, Typed, NEW g \in Grants,
           UNCHANGED <<code, grant, rotates>>, hist'.lost = hist.lost,
           \A q \in Grants : q # g => credential'[q] = credential[q],
           \/ credential'[g] = None
           \/ credential[g] # None /\ credential'[g].refresh = credential[g].refresh,
           \A k \in Handlers, q \in Grants :
             /\ Storing(k, q)' <=> Storing(k, q)
             /\ Refreshes(k, q)' <=> Refreshes(k, q)
             /\ Refreshes(k, q)' => call'[k] = call[k]
    PROVE  TokenInv'
  <1>1. \A k \in Handlers, q \in Grants : Saving(k, q)' <=> Saving(k, q)
    BY DEF Refreshes, Saving, Refreshing
  <1>2. \A q \in Grants : Unknown(q) => Unknown(q)'
    BY DEF Unknown
  <1>3. FirstTokens'
    BY <1>2 DEF TokenInv, FirstTokens
  <1>4. ASSUME NEW q \in Grants, q # g PROVE Rotated(q)'
    BY <1>4, RotatedStays DEF TokenInv, Rotation
  <1>5. Rotated(g)'
    <2>1. CASE credential'[g] = None
      BY <2>1 DEF Rotated
    <2>2. CASE credential'[g] # None
      <3>1. /\ Rotated(g) /\ credential[g] # None
            /\ credential'[g].refresh = credential[g].refresh
        BY <2>2 DEF TokenInv, Rotation
      <3>2. \A k \in Handlers : Saving(k, g)' => call'[k] = call[k]
        BY DEF Refreshes, Saving, Refreshing
      <3> QED
        BY <1>1, <3>1, <3>2 DEF Rotated
    <2> QED
      BY <2>1, <2>2
  <1>6. Rotation'
    BY <1>4, <1>5 DEF Rotation
  <1>7. NoRotation' /\ NewestIsStored'
    BY <1>1 DEF TokenInv, NoRotation, NewestIsStored
  <1> QED
    BY <1>3, <1>6, <1>7 DEF TokenInv

LEMMA TokenStep == Typed /\ TokenInv /\ [Next]_vars => TokenInv'
  <1> SUFFICES ASSUME Typed, TokenInv, [Next]_vars PROVE TokenInv'
    OBVIOUS
  <1> USE DEF stored, remote, bounds
  <1>1. CASE UNCHANGED <<code, credential, grant, rotates, hist, call>>
    BY <1>1
    DEF TokenInv, FirstTokens, Unknown, Rotation, Rotated, NoRotation, NewestIsStored,
        Storing, Refreshes, Saving
  <1>2. ASSUME NEW g \in Grants, TokenAges(g) PROVE TokenInv'
    <2>1. /\ UNCHANGED <<code, grant, rotates, hist, call>>
          /\ credential[g] # None
          /\ credential' = [credential EXCEPT ![g].fresh = FALSE]
      BY <1>2 DEF TokenAges
    <2>2. /\ \A q \in Grants : q # g => credential'[q] = credential[q]
          /\ credential'[g].refresh = credential[g].refresh
      BY <2>1 DEF Typed, TypeOK
    <2> QED
      BY <2>1, <2>2, RowKeepsTokens DEF Storing, Refreshes
  <1>3. ASSUME NEW h \in Handlers, Forget(h) PROVE TokenInv'
    <2>1. PICK g \in Grants : g = call[h].about
      BY <1>3 DEF Forget, Is, Typed, CallsOK, Equipped, AboutGrant
    <2>2. /\ CallsOK /\ call[h].at = "forget" /\ Ends(h)
          /\ UNCHANGED <<code, grant, rotates, hist>>
          /\ credential' = [credential EXCEPT ![g] = None]
      BY <1>3, <2>1 DEF Forget, Is, Typed
    <2>3. call'[h] = Idle /\ \A k \in Handlers : k # h => call'[k] = call[k]
      BY <2>2, EndsTyped
    <2>4. \A k \in Handlers, q \in Grants :
             /\ Storing(k, q)' <=> Storing(k, q)
             /\ Refreshes(k, q)' <=> Refreshes(k, q)
             /\ Refreshes(k, q)' => call'[k] = call[k]
      BY <2>2, <2>3 DEF Storing, Refreshes, Refreshing, Idle
    <2>5. credential'[g] = None /\ \A q \in Grants : q # g => credential'[q] = credential[q]
      BY <2>2 DEF Typed, TypeOK
    <2> QED
      BY <2>2, <2>4, <2>5, RowKeepsTokens
  <1>4. ASSUME NEW h \in Handlers, Crash(h) PROVE TokenInv'
    <2>1. /\ CallsOK /\ Ends(h)
          /\ UNCHANGED <<code, grant, rotates, credential>>
          /\ hist' = [hist EXCEPT !.lost =
               IF call[h].at = "save" THEN @ \cup {call[h].token} ELSE @]
      BY <1>4 DEF Crash, Typed
    <2>2. call'[h] = Idle /\ \A k \in Handlers : k # h => call'[k] = call[k]
      BY <2>1, EndsTyped
    <2>3. /\ hist.lost \subseteq hist'.lost
          /\ call[h].at = "save" => call[h].token \in hist'.lost
      BY <2>1 DEF Typed, HistOK
    <2> QED
      BY <2>1, <2>2, <2>3, QuietStep DEF Idle, Refreshing
  <1>5. ASSUME NEW h \in Handlers, Exchange(h) PROVE TokenInv'
    <2>1. CASE Ends(h) /\ UNCHANGED <<code, grant>>
      <3>1. CallsOK /\ call[h].at = "exchange" /\ UNCHANGED <<credential, rotates, hist>>
        BY <1>5 DEF Exchange, Is, Typed
      <3>2. call'[h] = Idle /\ \A k \in Handlers : k # h => call'[k] = call[k]
        BY <2>1, <3>1, EndsTyped
      <3> QED
        BY <2>1, <3>1, <3>2, QuietStep DEF Idle, Refreshing
    <2>2. CASE ~Ends(h)
      BY <1>5, <2>2, ExchangeKeepsTokens
    <2>3. CASE Ends(h) /\ ~UNCHANGED <<code, grant>>
      <3>1. Goes(h, "store") /\ CallsOK /\ call[h] \in Calls
        BY <1>5, <2>3 DEF Exchange, Typed, CallsOK
      <3>2. call'[h].at = "store" /\ call'[h].at = "idle"
        BY <2>3, <3>1 DEF Goes, Ends, Idle, CallsOK, Calls
      <3> QED
        BY <3>2
    <2> QED
      BY <2>1, <2>2, <2>3
  <1>6. ASSUME NEW g \in Grants, Start(g) PROVE TokenInv'
    BY <1>6, StartKeepsTokens
  <1>7. ASSUME NEW h \in Handlers,
               \/ Arrive(h) \/ GetState(h) \/ DeleteState(h) \/ ReadConnected(h)
               \/ RevokeGrant(h) \/ ReadInstallation(h)
               \/ RefreshRefused(h) \/ ApiFails(h) \/ ReadZone(h) \/ ReadCatchAll(h)
               \/ PutCatchAll(h) \/ StoreZone(h) \/ InsertDomain(h) \/ SetCheckpoint(h)
        PROVE  TokenInv'
    BY <1>7, QuietActions
  <1>8. ASSUME NEW h \in Handlers,
               \/ StoreCredential(h) \/ ReadToken(h) \/ Refresh(h) \/ RefreshLost(h)
               \/ SaveToken(h)
        PROVE  TokenInv'
    BY <1>8, StoreKeepsTokens, ReadTokenKeepsTokens, RefreshKeepsTokens,
       LostKeepsTokens, SaveKeepsTokens
  <1>9. CASE UNCHANGED vars
    BY <1>1, <1>9 DEF vars
  <1>10. CASE OwnerRedirects \/ \E g \in Grants : StateExpires(g)
    BY <1>1, <1>10 DEF OwnerRedirects, StateExpires
  <1> QED
    BY <1>2, <1>3, <1>4, <1>5, <1>6, <1>7, <1>8, <1>9, <1>10 DEF Next

(* While the grant is live, the stored refresh token is the one the server   *)
(* accepts, unless a rotated token is on its way into the row or was lost    *)
(* with a crash or an answer: refreshes that race never leave the row with   *)
(* the token of the one that lost.                                           *)
THEOREM TokenWorks == Spec => []StoredTokenWorks
  <1>1. TokenInv => StoredTokenWorks
    BY DEF TokenInv, NewestIsStored, StoredTokenWorks, Saving
  <1> QED
    BY <1>1, TypedInit, TypedStep, TokenInit, TokenStep, PTL DEF Spec

=============================================================================
