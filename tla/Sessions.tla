------------------------------ MODULE Sessions ------------------------------
(***************************************************************************)
(* Sign-in of one account: the sessions the worker keeps, and one browser  *)
(* tab whose concurrent requests share a refresh cookie and an access      *)
(* token.  Requests that are refused refresh the access token, each one by *)
(* itself, and run once more.                                              *)
(*                                                                         *)
(* A refresh token is named by its session and its place in the rotation.  *)
(* One action is one D1 statement or batch, or the arrival of a response.  *)
(***************************************************************************)
EXTENDS Naturals

CONSTANTS
    Requests,     \* requests of the tab that may run at once
    Logins,       \* sign-ins from the tab; each one runs once
    MaxRotations, \* rotations of one session (bound)
    MaxChanges,   \* changes of the account by password, status or e-mail (bound)
    MaxFaults     \* lost responses (bound)

ASSUME BoundAssumption ==
    MaxRotations \in Nat /\ MaxChanges \in Nat /\ MaxFaults \in Nat

Tokens == Logins \X (0..MaxRotations)     \* a session is named by its sign-in
None == <<>>

VARIABLES
    user,       \* the row of users; pw counts its passwords
    session,    \* sessions; gen is the place of refresh_token_hash in the
                \* rotation, pw the password it was opened with (ghost)
    login,      \* sign-ins under way, with the row they have read
    change,     \* a password or e-mail change that has verified the password
    cookie,     \* the browser's refresh cookie
    access,     \* the tab's access token
    req,        \* requests of the tab
    signingOut, \* the cookie a logout was sent with, once the worker has run it
    raced,      \* sessions opened on a row that had changed since (history)
    lost,       \* sessions of which a response was lost (history)
    changes, faults  \* bounds

vars == <<user, session, login, change, cookie, access, req, signingOut,
          raced, lost, changes, faults>>

server == <<user, session, login, change, raced, changes>>
browser == <<cookie, access, req, signingOut, lost, faults>>

-----------------------------------------------------------------------------
(* Types *)

Users == [ status : {"active", "suspended", "deleted"}, pw : 0..MaxChanges,
           weak : BOOLEAN ]   \* password_iterations < the policy's
SessionRows == [ status : {"none", "live", "revoked"}, gen : 0..MaxRotations,
                 pw : 0..MaxChanges ]
LoginRows == [ pc : {"verified", "insert", "reply"}, user : Users ]
Idle == [ pc |-> "idle" ]
Done == [ pc |-> "done" ]

RequestRows ==
    [ pc : {"send", "refresh", "select", "rotate", "refused", "reply"},
      retry : BOOLEAN, token : Tokens \cup {None} ]

TypeOK ==
    /\ user \in Users
    /\ session \in [Logins -> SessionRows]
    /\ login \in [Logins -> LoginRows \cup {Idle, Done}]
    /\ change \in {"none", "password", "email"}
    /\ cookie \in Tokens \cup {None}
    /\ access \in {"none", "valid", "expired"}
    /\ req \in [Requests -> RequestRows \cup {Idle}]
    /\ signingOut \in Tokens \cup {None}
    /\ raced \subseteq Logins /\ lost \subseteq Logins
    /\ changes \in 0..MaxChanges
    /\ faults \in 0..MaxFaults

-----------------------------------------------------------------------------
(* Helpers *)

Live(s) == session[s].status = "live"
HoldsToken(s, t) == Live(s) /\ t = <<s, session[s].gen>>

RevokeAll == [s \in Logins |-> IF Live(s) THEN [session[s] EXCEPT !.status = "revoked"]
                                          ELSE session[s]]

At(r, pc) == req[r].pc = pc
Goto(r, pc) == req' = [req EXCEPT ![r].pc = pc]
End(r) == req' = [req EXCEPT ![r] = Idle]

Change == changes < MaxChanges /\ changes' = changes + 1
Fault == faults < MaxFaults /\ faults' = faults + 1

-----------------------------------------------------------------------------
(* login *)

LoginRead(k) ==
    /\ login[k] = Idle
    /\ user.status = "active"
    /\ login' = [login EXCEPT ![k] =
                   [pc |-> IF user.weak THEN "verified" ELSE "insert", user |-> user]]
    /\ UNCHANGED <<user, session, change, raced, changes>>
    /\ UNCHANGED browser

(* needsRehash: the password that was verified is written with the policy's  *)
(* iterations, whatever the row holds by now.                                *)
Rehash(k) ==
    /\ login[k].pc = "verified"
    /\ user' = [user EXCEPT !.pw = login[k].user.pw, !.weak = FALSE]
    /\ login' = [login EXCEPT ![k].pc = "insert"]
    /\ UNCHANGED <<session, change, raced, changes>>
    /\ UNCHANGED browser

(* createSession *)
LoginInsert(k) ==
    LET read == login[k].user IN
    /\ login[k].pc = "insert"
    /\ session' = [session EXCEPT ![k] = [status |-> "live", gen |-> 0, pw |-> read.pw]]
    /\ raced' = IF read.pw = user.pw /\ read.status = user.status
                THEN raced ELSE raced \cup {k}
    /\ login' = [login EXCEPT ![k].pc = "reply"]
    /\ UNCHANGED <<user, change, changes>>
    /\ UNCHANGED browser

LoginReply(k) ==
    /\ login[k].pc = "reply"
    /\ cookie' = <<k, 0>>
    /\ access' = "valid"
    /\ login' = [login EXCEPT ![k] = Done]
    /\ UNCHANGED <<user, session, change, raced, changes>>
    /\ UNCHANGED <<req, signingOut, lost, faults>>

-----------------------------------------------------------------------------
(* Changes of the account *)

(* resetPassword and changeEmail verify the password, and go on whatever     *)
(* happens to the row meanwhile.                                             *)
ChangeVerify(what) ==
    /\ change = "none"
    /\ access = "valid"
    /\ Change
    /\ change' = what
    /\ UNCHANGED <<user, session, login, raced>>
    /\ UNCHANGED browser

(* Mutant: the sessions are left alone. *)
ChangeKeepsSessions ==
    /\ change # "none"
    /\ user' = IF change = "password"
               THEN [user EXCEPT !.pw = @ + 1, !.weak = FALSE] ELSE user
    /\ change' = "none"
    /\ UNCHANGED <<session, login, raced, changes>>
    /\ UNCHANGED browser

(* Mutant: the request writes once more. *)
ChangeWriteAgain ==
    /\ change # "none"
    /\ user' = IF change = "password"
               THEN [user EXCEPT !.pw = @ + 1, !.weak = FALSE] ELSE user
    /\ session' = RevokeAll
    /\ UNCHANGED <<login, change, raced, changes>>
    /\ UNCHANGED browser

ChangeWrite ==
    /\ change # "none"
    /\ user' = IF change = "password"
               THEN [user EXCEPT !.pw = @ + 1, !.weak = FALSE] ELSE user
    /\ session' = RevokeAll
    /\ change' = "none"
    /\ UNCHANGED <<login, raced, changes>>
    /\ UNCHANGED browser

LogoutAll ==
    /\ access = "valid"
    /\ \E s \in Logins : Live(s)
    /\ session' = RevokeAll
    /\ UNCHANGED <<user, login, change, raced, changes>>
    /\ UNCHANGED browser

(* updateUser and deleteUser of administration. *)
Disable(status) ==
    /\ user.status # status
    /\ status = "suspended" => user.status # "deleted"
    /\ Change
    /\ user' = [user EXCEPT !.status = status]
    /\ session' = RevokeAll
    /\ UNCHANGED <<login, change, raced>>
    /\ UNCHANGED browser

Reactivate ==
    /\ user.status = "suspended"
    /\ Change
    /\ user' = [user EXCEPT !.status = "active"]
    /\ UNCHANGED <<session, login, change, raced>>
    /\ UNCHANGED browser

-----------------------------------------------------------------------------
(* Requests of the tab *)

Begin(r) ==
    /\ req[r] = Idle
    /\ req' = [req EXCEPT ![r] = [pc |-> "send", retry |-> TRUE, token |-> None]]
    /\ UNCHANGED <<cookie, access, signingOut, lost, faults>>
    /\ UNCHANGED server

(* The access token is read when the request is sent; a 401 is followed by   *)
(* a refresh the first time.                                                 *)
Send(r) ==
    /\ At(r, "send")
    /\ IF access # "valid" /\ req[r].retry THEN Goto(r, "refresh") ELSE End(r)
    /\ UNCHANGED <<cookie, access, signingOut, lost, faults>>
    /\ UNCHANGED server

(* POST /auth/refresh is sent with the cookie, if there is one. *)
RefreshSend(r) ==
    /\ At(r, "refresh")
    /\ req' = [req EXCEPT ![r].token = cookie,
                          ![r].pc = IF cookie = None THEN "refused" ELSE "select"]
    /\ UNCHANGED <<cookie, access, signingOut, lost, faults>>
    /\ UNCHANGED server

RefreshSelect(r) ==
    /\ At(r, "select")
    /\ Goto(r, IF user.status = "active" /\ \E s \in Logins : HoldsToken(s, req[r].token)
               THEN "rotate" ELSE "refused")
    /\ UNCHANGED <<cookie, access, signingOut, lost, faults>>
    /\ UNCHANGED server

(* Mutant: the session is found by its id alone. *)
RotateById(r) ==
    LET s == req[r].token[1] IN
    /\ At(r, "rotate")
    /\ session[s].gen < MaxRotations
    /\ IF Live(s)
       THEN /\ session' = [session EXCEPT ![s].gen = @ + 1]
            /\ req' = [req EXCEPT ![r].pc = "reply", ![r].token = <<s, session[s].gen + 1>>]
       ELSE Goto(r, "refused") /\ UNCHANGED session
    /\ UNCHANGED <<user, login, change, raced, changes>>
    /\ UNCHANGED <<cookie, access, signingOut, lost, faults>>

(* UPDATE ... WHERE id AND refresh_token_hash AND revoked_at IS NULL. *)
Rotate(r) ==
    LET s == req[r].token[1] IN
    /\ At(r, "rotate")
    /\ session[s].gen < MaxRotations
    /\ IF HoldsToken(s, req[r].token)
       THEN /\ session' = [session EXCEPT ![s].gen = @ + 1]
            /\ req' = [req EXCEPT ![r].pc = "reply", ![r].token = <<s, session[s].gen + 1>>]
       ELSE Goto(r, "refused") /\ UNCHANGED session
    /\ UNCHANGED <<user, login, change, raced, changes>>
    /\ UNCHANGED <<cookie, access, signingOut, lost, faults>>

(* The response sets cookie and access token; the request runs once more. *)
RefreshReply(r) ==
    /\ At(r, "reply")
    /\ cookie' = req[r].token
    /\ access' = "valid"
    /\ req' = [req EXCEPT ![r] = [pc |-> "send", retry |-> FALSE, token |-> None]]
    /\ UNCHANGED <<signingOut, lost, faults>>
    /\ UNCHANGED server

(* A refresh that failed clears the access token, whoever has set it. *)
RefreshRefused(r) ==
    /\ At(r, "refused")
    /\ access' = "none"
    /\ End(r)
    /\ UNCHANGED <<cookie, signingOut, lost, faults>>
    /\ UNCHANGED server

RefreshLost(r) ==
    /\ At(r, "reply")
    /\ Fault
    /\ access' = "none"
    /\ lost' = lost \cup {req[r].token[1]}
    /\ End(r)
    /\ UNCHANGED <<cookie, signingOut>>
    /\ UNCHANGED server

AccessExpires ==
    /\ access = "valid"
    /\ access' = "expired"
    /\ UNCHANGED <<cookie, req, signingOut, lost, faults>>
    /\ UNCHANGED server

-----------------------------------------------------------------------------
(* Logout of the tab *)

(* logout revokes the session that holds the cookie's token ... *)
Logout ==
    /\ signingOut = None
    /\ cookie # None
    /\ signingOut' = cookie
    /\ session' = [s \in Logins |->
                     IF HoldsToken(s, cookie) THEN [session[s] EXCEPT !.status = "revoked"]
                                              ELSE session[s]]
    /\ UNCHANGED <<user, login, change, raced, changes>>
    /\ UNCHANGED <<cookie, access, req, lost, faults>>

(* ... and the response clears the cookie and the access token. *)
LogoutReply ==
    /\ signingOut # None
    /\ signingOut' = None
    /\ cookie' = None
    /\ access' = "none"
    /\ UNCHANGED <<req, lost, faults>>
    /\ UNCHANGED server

-----------------------------------------------------------------------------
(* The tab has signed in. *)
Init ==
    /\ user \in [status : {"active"}, pw : {0}, weak : BOOLEAN]
    /\ \E first \in Logins :
         /\ session = [s \in Logins |-> [status |-> IF s = first THEN "live" ELSE "none",
                                          gen |-> 0, pw |-> 0]]
         /\ login = [k \in Logins |-> IF k = first THEN Done ELSE Idle]
         /\ cookie = <<first, 0>>
    /\ access = "valid"
    /\ change = "none"
    /\ req = [r \in Requests |-> Idle]
    /\ signingOut = None
    /\ raced = {} /\ lost = {}
    /\ changes = 0
    /\ faults = 0

Next ==
    \/ \E k \in Logins : LoginRead(k) \/ Rehash(k) \/ LoginInsert(k) \/ LoginReply(k)
    \/ \E what \in {"password", "email"} : ChangeVerify(what)
    \/ \E status \in {"suspended", "deleted"} : Disable(status)
    \/ ChangeWrite \/ LogoutAll \/ Reactivate
    \/ \E r \in Requests :
         \/ Begin(r) \/ Send(r) \/ RefreshSend(r) \/ RefreshSelect(r) \/ Rotate(r)
         \/ RefreshReply(r) \/ RefreshRefused(r) \/ RefreshLost(r)
    \/ AccessExpires \/ Logout \/ LogoutReply

Spec == Init /\ [][Next]_vars

-----------------------------------------------------------------------------
(* Properties *)

(* However the requests of a tab race to refresh, the browser does not lose  *)
(* a live session: its cookie is the session's current token, or a response  *)
(* with that token is under way, or such a response was lost.                *)
CookieFollowsSession ==
    \A s \in Logins :
        Live(s) /\ cookie # None /\ cookie[1] = s /\ s \notin lost =>
            \/ cookie = <<s, session[s].gen>>
            \/ \E r \in Requests : At(r, "reply") /\ req[r].token = <<s, session[s].gen>>

(* A live session belongs to an active account and was opened with its       *)
(* current password (or a later one, if a rehash has put an earlier one      *)
(* back), unless the sign-in had read the account before it changed.         *)
OnlyRacedSessionsOutlive ==
    \A s \in Logins :
        Live(s) => \/ s \in raced
                   \/ user.status = "active" /\ session[s].pw >= user.pw

=============================================================================
