--------------------------- MODULE Sessions_proofs ---------------------------
(***************************************************************************)
(* Theorems about Sessions, for any number of requests, sign-ins, rotations,*)
(* changes and lost responses: type correctness, that the browser does not *)
(* lose a live session to its own racing refreshes, and that a session     *)
(* outlives a change of the account only when its sign-in raced it.        *)
(***************************************************************************)
EXTENDS Sessions, TLAPS

USE BoundAssumption

-----------------------------------------------------------------------------
(* What sign-ins and changes know of the account.                            *)

(* A password is as new as the changes that were counted, the pending one    *)
(* excepted; only the first password may have fewer iterations than the      *)
(* policy asks.                                                              *)
PasswordsCounted ==
    /\ user.pw <= changes
    /\ change = "password" => user.pw < changes
    /\ user.weak => user.pw = 0

SignIns ==
    \A k \in Logins :
        /\ login[k].pc \in {"verified", "insert"} => login[k].user.status = "active"
        /\ login[k].pc = "verified" => login[k].user.pw = 0

Accounts == TypeOK /\ PasswordsCounted /\ SignIns

(* The account part of the invariant, with the property itself.              *)
AccountInv == Accounts /\ OnlyRacedSessionsOutlive

-----------------------------------------------------------------------------
(* Who holds a refresh token: the browser's cookie, and the requests between *)
(* the sending of POST /auth/refresh and the arrival of its response.        *)

Carries(r) == req[r].pc \in {"select", "rotate", "reply"}

Issued(t) == login[t[1]].pc = "done" /\ t[2] <= session[t[1]].gen

Held ==
    /\ cookie # None => Issued(cookie)
    /\ \A r \in Requests :
         Carries(r) => req[r].token \in Tokens /\ Issued(req[r].token)

FirstToken == \A k \in Logins : login[k].pc = "reply" => session[k].gen = 0

(* A response carries the session's current token, and nobody else has it.   *)
Newest(r) ==
    LET t == req[r].token IN
    /\ t[2] = session[t[1]].gen
    /\ cookie # t
    /\ \A q \in Requests : q # r /\ Carries(q) => req[q].token # t

Replies == \A r \in Requests : At(r, "reply") => Newest(r)

(* The cookie is current, or the response with the current token is under    *)
(* way, or it was lost.                                                      *)
Follows(t) ==
    \/ t[2] = session[t[1]].gen
    \/ t[1] \in lost
    \/ \E r \in Requests : At(r, "reply") /\ req[r].token[1] = t[1]

Followed == cookie # None => Follows(cookie)

CookieInv == Held /\ FirstToken /\ Replies /\ Followed

-----------------------------------------------------------------------------
(* Facts about the model's values.                                           *)

(* A token is a pair, and no token is the missing cookie.                    *)
LEMMA TokenParts ==
    /\ None \notin Tokens
    /\ \A t \in Tokens : t[1] \in Logins /\ t[2] \in 0..MaxRotations /\ t = <<t[1], t[2]>>
    /\ \A s \in Logins, n \in 0..MaxRotations :
         <<s, n>> \in Tokens /\ <<s, n>>[1] = s /\ <<s, n>>[2] = n
  BY DEF None, Tokens

(* A row that is somewhere is a row with locals.                             *)
LEMMA Rows ==
    ASSUME TypeOK
    PROVE  /\ \A r \in Requests : req[r].pc # "idle" => req[r] \in RequestRows
           /\ \A r \in Requests : Carries(r) => req[r].pc # "idle"
           /\ \A k \in Logins :
                login[k].pc \in {"verified", "insert", "reply"} => login[k] \in LoginRows
           /\ \A k \in Logins : login[k] # Done => login[k].pc # "done"
  <1>1. ASSUME NEW r \in Requests PROVE req[r] \in RequestRows \/ req[r] = Idle
    BY DEF TypeOK
  <1>2. ASSUME NEW k \in Logins PROVE login[k] \in LoginRows \/ login[k] = Idle \/ login[k] = Done
    BY DEF TypeOK
  <1>3. \A r \in Requests : req[r].pc # "idle" => req[r] \in RequestRows
    BY <1>1 DEF Idle
  <1>4. \A r \in Requests : Carries(r) => req[r].pc # "idle"
    BY DEF Carries
  <1>5. \A k \in Logins :
          login[k].pc \in {"verified", "insert", "reply"} => login[k] \in LoginRows
    BY <1>2 DEF Idle, Done
  <1>6. \A k \in Logins : login[k] # Done => login[k].pc # "done"
    BY <1>2 DEF Idle, LoginRows
  <1> QED
    BY <1>3, <1>4, <1>5, <1>6

(* Revoking every session leaves none live, and no token differs by it.      *)
LEMMA RevokesAll ==
    ASSUME TypeOK, session' = RevokeAll
    PROVE  /\ session' \in [Logins -> SessionRows]
           /\ \A s \in Logins : session'[s].status # "live"
           /\ \A s \in Logins : session'[s].gen = session[s].gen
  <1>1. \A s \in Logins : session[s] \in SessionRows
    BY DEF TypeOK
  <1>2. \A s \in Logins : session'[s] = IF Live(s) THEN [session[s] EXCEPT !.status = "revoked"]
                                                   ELSE session[s]
    BY DEF RevokeAll
  <1>3. \A s \in Logins : session'[s] \in SessionRows /\ session'[s].gen = session[s].gen
                          /\ session'[s].status # "live"
    BY <1>1, <1>2 DEF SessionRows, Live
  <1>4. session' = [s \in Logins |-> session'[s]]
    BY DEF RevokeAll
  <1> QED
    BY <1>3, <1>4

-----------------------------------------------------------------------------
(* The initial state.                                                        *)
LEMMA AccountInit == Init => AccountInv
  <1> SUFFICES ASSUME Init PROVE AccountInv
    OBVIOUS
  <1>1. PICK first \in Logins :
          /\ session = [s \in Logins |-> [status |-> IF s = first THEN "live" ELSE "none",
                                           gen |-> 0, pw |-> 0]]
          /\ login = [k \in Logins |-> IF k = first THEN Done ELSE Idle]
          /\ cookie = <<first, 0>>
    BY DEF Init
  <1>2. /\ user \in Users /\ user.status = "active" /\ user.pw = 0
    BY DEF Init, Users
  <1>3. session \in [Logins -> SessionRows]
    BY <1>1 DEF SessionRows
  <1>4. login \in [Logins -> LoginRows \cup {Idle, Done}]
    BY <1>1
  <1>5. cookie \in Tokens
    BY <1>1, TokenParts
  <1>6. TypeOK
    BY <1>2, <1>3, <1>4, <1>5 DEF TypeOK, Init
  <1>7. PasswordsCounted
    BY <1>2 DEF PasswordsCounted, Init
  <1>8. SignIns
    BY <1>1 DEF SignIns, Idle, Done
  <1>9. OnlyRacedSessionsOutlive
    BY <1>1, <1>2 DEF OnlyRacedSessionsOutlive
  <1> QED
    BY <1>6, <1>7, <1>8, <1>9 DEF AccountInv, Accounts

LEMMA CookieInit == Init => CookieInv
  <1> SUFFICES ASSUME Init PROVE CookieInv
    OBVIOUS
  <1>1. PICK first \in Logins :
          /\ session = [s \in Logins |-> [status |-> IF s = first THEN "live" ELSE "none",
                                           gen |-> 0, pw |-> 0]]
          /\ login = [k \in Logins |-> IF k = first THEN Done ELSE Idle]
          /\ cookie = <<first, 0>>
    BY DEF Init
  <1>2. cookie[1] = first /\ cookie[2] = 0
    BY <1>1
  <1>3. login[first].pc = "done" /\ session[first].gen = 0
    BY <1>1 DEF Done
  <1>4. Issued(cookie) /\ Follows(cookie)
    BY <1>2, <1>3 DEF Issued, Follows
  <1>5. \A r \in Requests : req[r].pc = "idle"
    BY DEF Init, Idle
  <1>6. Held /\ Replies /\ Followed
    BY <1>4, <1>5 DEF Held, Replies, Followed, Carries, At
  <1>7. FirstToken
    BY <1>1 DEF FirstToken, Idle, Done
  <1> QED
    BY <1>6, <1>7 DEF CookieInv

-----------------------------------------------------------------------------
(* Every step keeps the account part: the sign-ins ...                       *)
LEMMA SignInKeepsAccount ==
    ASSUME AccountInv, NEW k \in Logins,
           LoginRead(k) \/ Rehash(k) \/ LoginInsert(k) \/ LoginReply(k)
    PROVE  AccountInv'
  <1> USE DEF AccountInv, Accounts, browser
  <1>1. /\ login[k].pc \in {"verified", "insert", "reply"} => login[k] \in LoginRows
        /\ login \in [Logins -> LoginRows \cup {Idle, Done}]
        /\ user \in Users
    BY Rows DEF TypeOK
  <1>2. CASE LoginRead(k)
    <2>1. PICK row \in LoginRows :
            /\ row = [pc |-> IF user.weak THEN "verified" ELSE "insert", user |-> user]
            /\ login' = [login EXCEPT ![k] = row]
      BY <1>1, <1>2 DEF LoginRead, LoginRows, Users
    <2>2. /\ login' \in [Logins -> LoginRows \cup {Idle, Done}]
          /\ login'[k] = row /\ \A j \in Logins : j # k => login'[j] = login[j]
      BY <1>1, <2>1
    <2>3. UNCHANGED <<user, session, change, raced, changes, cookie, access, req,
                      signingOut, lost, faults>>
      BY <1>2 DEF LoginRead
    <2>4. TypeOK'
      BY <2>2, <2>3 DEF TypeOK
    <2>5. SignIns'
      BY <1>2, <2>1, <2>2 DEF SignIns, PasswordsCounted, LoginRead
    <2> QED
      BY <2>3, <2>4, <2>5 DEF PasswordsCounted, OnlyRacedSessionsOutlive, Live
  <1>3. CASE Rehash(k)
    <2>1. /\ login[k].pc = "verified" /\ login[k] \in LoginRows /\ login[k].user.pw = 0
          /\ user' = [user EXCEPT !.pw = login[k].user.pw, !.weak = FALSE]
          /\ login' = [login EXCEPT ![k].pc = "insert"]
      BY <1>1, <1>3 DEF Rehash, SignIns
    <2>2. /\ user' \in Users /\ user'.pw = 0 /\ user'.weak = FALSE
          /\ user'.status = user.status
      <3>1. user' = [user EXCEPT !.pw = 0, !.weak = FALSE] /\ 0 \in 0..MaxChanges
        BY <2>1
      <3> QED
        BY <1>1, <3>1 DEF Users
    <2>3. /\ login'[k] \in LoginRows /\ login'[k].pc = "insert"
          /\ login'[k].user = login[k].user
          /\ \A j \in Logins : j # k => login'[j] = login[j]
      BY <1>1, <2>1 DEF LoginRows
    <2>4. login' \in [Logins -> LoginRows \cup {Idle, Done}]
      BY <1>1, <2>1, <2>3
    <2>5. UNCHANGED <<session, change, raced, changes, cookie, access, req,
                      signingOut, lost, faults>>
      BY <1>3 DEF Rehash
    <2>6. TypeOK'
      BY <2>2, <2>4, <2>5 DEF TypeOK
    <2>7. PasswordsCounted'
      BY <1>1, <2>2, <2>5 DEF PasswordsCounted, TypeOK, Users
    <2>8. SignIns'
      BY <2>1, <2>3 DEF SignIns
    <2>9. \A s \in Logins : session[s].pw \in Nat
      BY DEF TypeOK, SessionRows
    <2>10. OnlyRacedSessionsOutlive'
      BY <2>2, <2>5, <2>9 DEF OnlyRacedSessionsOutlive, Live
    <2> QED
      BY <2>6, <2>7, <2>8, <2>10
  <1>4. CASE LoginInsert(k)
    <2>1. PICK row \in SessionRows :
            /\ row = [status |-> "live", gen |-> 0, pw |-> login[k].user.pw]
            /\ session' = [session EXCEPT ![k] = row]
      <3>1. login[k] \in LoginRows
        BY <1>1, <1>4 DEF LoginInsert
      <3>2. login[k].user.pw \in 0..MaxChanges
        BY <3>1 DEF LoginRows, Users
      <3>3. [status |-> "live", gen |-> 0, pw |-> login[k].user.pw] \in SessionRows
        BY <3>2 DEF SessionRows
      <3> QED
        BY <1>4, <3>3 DEF LoginInsert
    <2>2. /\ session' \in [Logins -> SessionRows]
          /\ session'[k] = row /\ \A s \in Logins : s # k => session'[s] = session[s]
      BY <2>1 DEF TypeOK
    <2>3. /\ login[k].pc = "insert" /\ login[k] \in LoginRows
          /\ login' = [login EXCEPT ![k].pc = "reply"]
      BY <1>1, <1>4 DEF LoginInsert
    <2>4. /\ login'[k] \in LoginRows /\ login'[k].pc = "reply"
          /\ \A j \in Logins : j # k => login'[j] = login[j]
      BY <1>1, <2>3 DEF LoginRows
    <2>5. login' \in [Logins -> LoginRows \cup {Idle, Done}]
      BY <1>1, <2>3, <2>4
    <2>6. /\ raced' = raced \/ raced' = raced \cup {k}
          /\ k \in raced' \/ (login[k].user.pw = user.pw /\ login[k].user.status = user.status)
      BY <1>4 DEF LoginInsert
    <2>7. UNCHANGED <<user, change, changes, cookie, access, req, signingOut, lost, faults>>
      BY <1>4 DEF LoginInsert
    <2>8. TypeOK'
      BY <2>2, <2>5, <2>6, <2>7 DEF TypeOK
    <2>9. PasswordsCounted' /\ SignIns'
      BY <2>4, <2>7 DEF PasswordsCounted, SignIns
    <2>10. login[k].user.status = "active"
      BY <2>3 DEF SignIns
    <2>11. user.pw \in Nat
      BY <1>1 DEF Users
    <2>12. k \in raced' \/ (user'.status = "active" /\ session'[k].pw >= user'.pw)
      BY <2>1, <2>2, <2>6, <2>7, <2>10, <2>11
    <2>13. OnlyRacedSessionsOutlive'
      BY <2>2, <2>6, <2>7, <2>12 DEF OnlyRacedSessionsOutlive, Live
    <2> QED
      BY <2>8, <2>9, <2>13
  <1>5. CASE LoginReply(k)
    <2>1. /\ login' \in [Logins -> LoginRows \cup {Idle, Done}]
          /\ login'[k] = Done /\ \A j \in Logins : j # k => login'[j] = login[j]
      BY <1>1, <1>5 DEF LoginReply
    <2>2. cookie' \in Tokens /\ access' = "valid"
      BY <1>5, TokenParts DEF LoginReply
    <2>3. UNCHANGED <<user, session, change, raced, changes, req, signingOut, lost, faults>>
      BY <1>5 DEF LoginReply
    <2>4. TypeOK'
      BY <2>1, <2>2, <2>3 DEF TypeOK
    <2>5. SignIns'
      BY <2>1 DEF SignIns, Done
    <2> QED
      BY <2>3, <2>4, <2>5 DEF PasswordsCounted, OnlyRacedSessionsOutlive, Live
  <1> QED
    BY <1>2, <1>3, <1>4, <1>5

(* ... the changes of the account, which revoke every session or follow a    *)
(* suspension that did ...                                                   *)
LEMMA ChangeKeepsAccount ==
    ASSUME AccountInv,
           \/ \E what \in {"password", "email"} : ChangeVerify(what)
           \/ \E status \in {"suspended", "deleted"} : Disable(status)
           \/ ChangeWrite \/ LogoutAll \/ Reactivate
    PROVE  AccountInv'
  <1> USE DEF AccountInv, Accounts, browser
  <1>1. /\ user \in Users /\ changes \in 0..MaxChanges
        /\ user.pw \in Nat /\ changes \in Nat
    BY DEF TypeOK, Users
  <1>2. ASSUME NEW what \in {"password", "email"}, ChangeVerify(what) PROVE AccountInv'
    <2>1. /\ change' = what /\ changes' = changes + 1 /\ changes < MaxChanges
          /\ UNCHANGED <<user, session, login, raced, cookie, access, req, signingOut,
                         lost, faults>>
      BY <1>2 DEF ChangeVerify, Change
    <2>2. changes' \in 0..MaxChanges
      BY <1>1, <2>1
    <2>3. TypeOK'
      BY <2>1, <2>2 DEF TypeOK
    <2>4. PasswordsCounted'
      BY <1>1, <2>1 DEF PasswordsCounted
    <2> QED
      BY <2>1, <2>3, <2>4 DEF SignIns, OnlyRacedSessionsOutlive, Live
  <1>3. ASSUME NEW status \in {"suspended", "deleted"}, Disable(status) PROVE AccountInv'
    <2>1. /\ user' = [user EXCEPT !.status = status] /\ changes' = changes + 1
          /\ changes < MaxChanges /\ session' = RevokeAll
          /\ UNCHANGED <<login, change, raced, cookie, access, req, signingOut, lost, faults>>
      BY <1>3 DEF Disable, Change
    <2>2. user' \in Users /\ user'.pw = user.pw /\ user'.weak = user.weak
      BY <1>1, <2>1 DEF Users
    <2>3. changes' \in 0..MaxChanges
      BY <1>1, <2>1
    <2>4. TypeOK'
      BY <2>1, <2>2, <2>3, RevokesAll DEF TypeOK
    <2>5. PasswordsCounted'
      BY <1>1, <2>1, <2>2 DEF PasswordsCounted
    <2>6. OnlyRacedSessionsOutlive'
      BY <2>1, RevokesAll DEF OnlyRacedSessionsOutlive, Live
    <2> QED
      BY <2>1, <2>4, <2>5, <2>6 DEF SignIns
  <1>4. CASE ChangeWrite
    <2>1. /\ change # "none" /\ change' = "none" /\ session' = RevokeAll
          /\ UNCHANGED <<login, raced, changes, cookie, access, req, signingOut, lost, faults>>
      BY <1>4 DEF ChangeWrite
    <2>2. /\ user' \in Users /\ user'.pw <= changes /\ (user'.weak => user'.pw = 0)
      <3>1. CASE change = "password"
        <4>1. user' = [user EXCEPT !.pw = user.pw + 1, !.weak = FALSE]
          BY <1>4, <3>1 DEF ChangeWrite
        <4>2. user.pw + 1 <= changes /\ user.pw + 1 \in 0..MaxChanges
          BY <1>1, <3>1 DEF PasswordsCounted
        <4> QED
          BY <1>1, <4>1, <4>2 DEF Users
      <3>2. CASE change # "password"
        BY <1>1, <1>4, <3>2 DEF ChangeWrite, PasswordsCounted
      <3> QED
        BY <3>1, <3>2
    <2>3. TypeOK'
      BY <2>1, <2>2, RevokesAll DEF TypeOK
    <2>4. PasswordsCounted'
      BY <2>1, <2>2 DEF PasswordsCounted
    <2>5. OnlyRacedSessionsOutlive'
      BY <2>1, RevokesAll DEF OnlyRacedSessionsOutlive, Live
    <2> QED
      BY <2>1, <2>3, <2>4, <2>5 DEF SignIns
  <1>5. CASE LogoutAll
    <2>1. /\ session' = RevokeAll
          /\ UNCHANGED <<user, login, change, raced, changes, cookie, access, req,
                         signingOut, lost, faults>>
      BY <1>5 DEF LogoutAll
    <2>2. TypeOK'
      BY <2>1, RevokesAll DEF TypeOK
    <2>3. OnlyRacedSessionsOutlive'
      BY <2>1, RevokesAll DEF OnlyRacedSessionsOutlive, Live
    <2> QED
      BY <2>1, <2>2, <2>3 DEF SignIns, PasswordsCounted
  <1>6. CASE Reactivate
    <2>1. /\ user.status = "suspended"
          /\ user' = [user EXCEPT !.status = "active"] /\ changes' = changes + 1
          /\ changes < MaxChanges
          /\ UNCHANGED <<session, login, change, raced, cookie, access, req, signingOut,
                         lost, faults>>
      BY <1>6 DEF Reactivate, Change
    <2>2. user' \in Users /\ user'.pw = user.pw /\ user'.weak = user.weak
      BY <1>1, <2>1 DEF Users
    <2>3. changes' \in 0..MaxChanges
      BY <1>1, <2>1
    <2>4. TypeOK'
      BY <2>1, <2>2, <2>3 DEF TypeOK
    <2>5. PasswordsCounted'
      BY <1>1, <2>1, <2>2 DEF PasswordsCounted
    <2>6. \A s \in Logins : Live(s) => s \in raced
      BY <2>1 DEF OnlyRacedSessionsOutlive
    <2>7. OnlyRacedSessionsOutlive'
      BY <2>1, <2>6 DEF OnlyRacedSessionsOutlive, Live
    <2> QED
      BY <2>1, <2>4, <2>5, <2>7 DEF SignIns
  <1> QED
    BY <1>2, <1>3, <1>4, <1>5, <1>6

(* ... the requests of the tab ...                                           *)
LEMMA RequestKeepsTypes ==
    ASSUME TypeOK, Held, NEW r \in Requests,
           \/ Begin(r) \/ Send(r) \/ RefreshSend(r) \/ RefreshSelect(r) \/ Rotate(r)
           \/ RefreshReply(r) \/ RefreshRefused(r) \/ RefreshLost(r)
    PROVE  TypeOK'
  <1> USE DEF server
  <1>1. /\ req[r].pc # "idle" => req[r] \in RequestRows
        /\ req \in [Requests -> RequestRows \cup {Idle}]
    BY Rows DEF TypeOK
  <1>2. ASSUME NEW row \in RequestRows \cup {Idle}, req' = [req EXCEPT ![r] = row]
        PROVE  req' \in [Requests -> RequestRows \cup {Idle}]
    BY <1>1, <1>2
  <1>3. CASE Begin(r)
    <2>1. [pc |-> "send", retry |-> TRUE, token |-> None] \in RequestRows
      BY DEF RequestRows
    <2>2. req' \in [Requests -> RequestRows \cup {Idle}]
      BY <1>2, <1>3, <2>1 DEF Begin
    <2> QED
      BY <1>3, <2>2 DEF Begin, TypeOK
  <1>4. CASE Send(r)
    <2>1. PICK row \in RequestRows \cup {Idle} : req' = [req EXCEPT ![r] = row]
      BY <1>1, <1>4 DEF Send, At, Goto, End, RequestRows
    <2>2. req' \in [Requests -> RequestRows \cup {Idle}]
      BY <1>2, <2>1
    <2> QED
      BY <1>4, <2>2 DEF Send, TypeOK
  <1>5. CASE RefreshSend(r)
    <2>1. PICK pc \in {"refused", "select"} :
            req' = [req EXCEPT ![r] = [req[r] EXCEPT !.token = cookie, !.pc = pc]]
      BY <1>5 DEF RefreshSend
    <2>2. [req[r] EXCEPT !.token = cookie, !.pc = pc] \in RequestRows
      BY <1>1, <1>5 DEF RefreshSend, At, RequestRows, TypeOK
    <2>3. req' \in [Requests -> RequestRows \cup {Idle}]
      BY <1>2, <2>1, <2>2
    <2> QED
      BY <1>5, <2>3 DEF RefreshSend, TypeOK
  <1>6. CASE RefreshSelect(r)
    <2>1. PICK pc \in {"refused", "rotate"} :
            req' = [req EXCEPT ![r] = [req[r] EXCEPT !.pc = pc]]
      BY <1>6 DEF RefreshSelect, Goto
    <2>2. [req[r] EXCEPT !.pc = pc] \in RequestRows
      BY <1>1, <1>6 DEF RefreshSelect, At, RequestRows
    <2>3. req' \in [Requests -> RequestRows \cup {Idle}]
      BY <1>2, <2>1, <2>2
    <2> QED
      BY <1>6, <2>3 DEF RefreshSelect, TypeOK
  <1>7. CASE Rotate(r)
    <2>1. PICK s : s = req[r].token[1]
      OBVIOUS
    <2>2. CASE HoldsToken(s, req[r].token)
      <3>1. /\ session[s].gen < MaxRotations
            /\ session' = [session EXCEPT ![s].gen = @ + 1]
            /\ req' = [req EXCEPT ![r] = [req[r] EXCEPT
                         !.pc = "reply", !.token = <<s, session[s].gen + 1>>]]
            /\ UNCHANGED <<user, login, change, raced, changes, cookie, access, signingOut,
                           lost, faults>>
        BY <1>7, <2>1, <2>2 DEF Rotate
      <3>2. s \in Logins
        <4>1. req[r].token \in Tokens \cup {None} /\ req[r].token = <<s, session[s].gen>>
          BY <1>1, <1>7, <2>2 DEF Rotate, At, RequestRows, HoldsToken
        <4>2. <<s, session[s].gen>> # None
          BY DEF None
        <4> QED
          BY <2>1, <4>1, <4>2, TokenParts
      <3>3. session[s] \in SessionRows /\ session[s].gen + 1 \in 0..MaxRotations
        BY <3>1, <3>2 DEF TypeOK, SessionRows
      <3>4. [session[s] EXCEPT !.gen = @ + 1] \in SessionRows
        BY <3>3 DEF SessionRows
      <3>5. session' \in [Logins -> SessionRows]
        BY <3>1, <3>2, <3>4 DEF TypeOK
      <3>6. <<s, session[s].gen + 1>> \in Tokens
        BY <3>2, <3>3, TokenParts
      <3>7. [req[r] EXCEPT !.pc = "reply", !.token = <<s, session[s].gen + 1>>] \in RequestRows
        BY <1>1, <1>7, <3>6 DEF Rotate, At, RequestRows
      <3>8. req' \in [Requests -> RequestRows \cup {Idle}]
        BY <1>2, <3>1, <3>7
      <3> QED
        BY <3>1, <3>5, <3>8 DEF TypeOK
    <2>3. CASE ~HoldsToken(s, req[r].token)
      <3>1. /\ req' = [req EXCEPT ![r] = [req[r] EXCEPT !.pc = "refused"]]
            /\ UNCHANGED <<user, session, login, change, raced, changes, cookie, access,
                           signingOut, lost, faults>>
        BY <1>7, <2>1, <2>3 DEF Rotate, Goto
      <3>2. [req[r] EXCEPT !.pc = "refused"] \in RequestRows
        BY <1>1, <1>7 DEF Rotate, At, RequestRows
      <3>3. req' \in [Requests -> RequestRows \cup {Idle}]
        BY <1>2, <3>1, <3>2
      <3> QED
        BY <3>1, <3>3 DEF TypeOK
    <2> QED
      BY <2>2, <2>3
  <1>8. CASE RefreshReply(r)
    <2>1. [pc |-> "send", retry |-> FALSE, token |-> None] \in RequestRows
      BY DEF RequestRows
    <2>2. req' \in [Requests -> RequestRows \cup {Idle}]
      BY <1>2, <1>8, <2>1 DEF RefreshReply
    <2>3. cookie' \in Tokens \cup {None}
      BY <1>1, <1>8 DEF RefreshReply, At, RequestRows
    <2> QED
      BY <1>8, <2>2, <2>3 DEF RefreshReply, TypeOK
  <1>9. CASE RefreshRefused(r)
    <2>1. req' \in [Requests -> RequestRows \cup {Idle}]
      BY <1>2, <1>9 DEF RefreshRefused, End
    <2> QED
      BY <1>9, <2>1 DEF RefreshRefused, TypeOK
  <1>10. CASE RefreshLost(r)
    <2>1. req[r].token \in Tokens
      BY <1>10 DEF RefreshLost, At, Held, Carries
    <2>2. req' \in [Requests -> RequestRows \cup {Idle}]
      BY <1>2, <1>10 DEF RefreshLost, End
    <2>3. lost' \subseteq Logins
      BY <1>10, <2>1, TokenParts DEF RefreshLost, TypeOK
    <2>4. faults' \in 0..MaxFaults
      BY <1>10 DEF RefreshLost, Fault, TypeOK
    <2> QED
      BY <1>10, <2>2, <2>3, <2>4 DEF RefreshLost, TypeOK
  <1> QED
    BY <1>3, <1>4, <1>5, <1>6, <1>7, <1>8, <1>9, <1>10

LEMMA AccountStep == AccountInv /\ Held /\ [Next]_vars => AccountInv'
  <1> SUFFICES ASSUME AccountInv, Held, [Next]_vars PROVE AccountInv'
    OBVIOUS
  <1> USE DEF AccountInv, Accounts, server
  <1>1. ASSUME UNCHANGED <<user, login, change, raced, changes>>, TypeOK',
               \A s \in Logins : session'[s].pw = session[s].pw /\ (Live(s)' => Live(s))
        PROVE  AccountInv'
    BY <1>1 DEF PasswordsCounted, SignIns, OnlyRacedSessionsOutlive
  <1>2. ASSUME NEW k \in Logins,
               LoginRead(k) \/ Rehash(k) \/ LoginInsert(k) \/ LoginReply(k)
        PROVE  AccountInv'
    BY <1>2, SignInKeepsAccount
  <1>3. ASSUME NEW r \in Requests,
               \/ Begin(r) \/ Send(r) \/ RefreshSend(r) \/ RefreshSelect(r) \/ Rotate(r)
               \/ RefreshReply(r) \/ RefreshRefused(r) \/ RefreshLost(r)
        PROVE  AccountInv'
    <2>1. TypeOK'
      BY <1>3, RequestKeepsTypes
    <2>2. CASE Rotate(r)
      <3>1. UNCHANGED <<user, login, change, raced, changes>>
        BY <2>2 DEF Rotate
      <3>2. \A s \in Logins : session[s] \in SessionRows
        BY DEF TypeOK
      <3>3. \/ session' = session
            \/ session' = [session EXCEPT ![req[r].token[1]].gen = @ + 1]
        BY <2>2 DEF Rotate
      <3>4. \A s \in Logins : session'[s].pw = session[s].pw /\ (Live(s)' => Live(s))
        BY <3>2, <3>3 DEF Live, SessionRows, TypeOK
      <3> QED
        BY <1>1, <2>1, <3>1, <3>4
    <2>3. CASE \/ Begin(r) \/ Send(r) \/ RefreshSend(r) \/ RefreshSelect(r)
               \/ RefreshReply(r) \/ RefreshRefused(r) \/ RefreshLost(r)
      <3>1. UNCHANGED <<user, session, login, change, raced, changes>>
        BY <2>3 DEF Begin, Send, RefreshSend, RefreshSelect, RefreshReply, RefreshRefused,
                    RefreshLost
      <3> QED
        BY <1>1, <2>1, <3>1 DEF Live
    <2> QED
      BY <1>3, <2>2, <2>3
  <1>4. CASE \/ \E what \in {"password", "email"} : ChangeVerify(what)
             \/ \E status \in {"suspended", "deleted"} : Disable(status)
             \/ ChangeWrite \/ LogoutAll \/ Reactivate
    BY <1>4, ChangeKeepsAccount
  <1>5. CASE AccessExpires
    <2>1. TypeOK'
      BY <1>5 DEF AccessExpires, TypeOK
    <2> QED
      BY <1>1, <1>5, <2>1 DEF AccessExpires, Live
  <1>6. CASE Logout
    <2>1. /\ session' = [s \in Logins |->
                IF HoldsToken(s, cookie) THEN [session[s] EXCEPT !.status = "revoked"]
                                         ELSE session[s]]
          /\ signingOut' = cookie
          /\ UNCHANGED <<user, login, change, raced, changes, cookie, access, req, lost, faults>>
      BY <1>6 DEF Logout
    <2>2. \A s \in Logins : session[s] \in SessionRows
      BY DEF TypeOK
    <2>3. \A s \in Logins : /\ session'[s] \in SessionRows
                            /\ session'[s].pw = session[s].pw /\ (Live(s)' => Live(s))
      BY <2>1, <2>2 DEF SessionRows, Live
    <2>4. session' \in [Logins -> SessionRows]
      BY <2>1, <2>3
    <2>5. TypeOK'
      BY <2>1, <2>4 DEF TypeOK
    <2> QED
      BY <1>1, <2>1, <2>3, <2>5
  <1>7. CASE LogoutReply
    <2>1. TypeOK'
      BY <1>7 DEF LogoutReply, TypeOK
    <2> QED
      BY <1>1, <1>7, <2>1 DEF LogoutReply, Live
  <1>8. CASE UNCHANGED vars
    <2>1. TypeOK'
      BY <1>8 DEF vars, TypeOK
    <2> QED
      BY <1>1, <1>8, <2>1 DEF vars, Live
  <1> QED
    BY <1>2, <1>3, <1>4, <1>5, <1>6, <1>7, <1>8 DEF Next

-----------------------------------------------------------------------------
(* A step that moves no token: the requests, the cookie and the rotation     *)
(* stay as they are.                                                         *)
LEMMA QuietStep ==
    ASSUME CookieInv, TypeOK, UNCHANGED <<cookie, req, lost>>,
           \A s \in Logins : session'[s].gen = session[s].gen,
           \A k \in Logins : login[k].pc = "done" => login'[k].pc = "done",
           \A k \in Logins : login'[k].pc = "reply" => login[k].pc = "reply"
    PROVE  CookieInv'
  <1>1. \A t \in Tokens : (Issued(t) => Issued(t)') /\ (Follows(t) => Follows(t)')
    BY TokenParts DEF Issued, Follows, At
  <1>2. cookie # None => cookie \in Tokens
    BY DEF TypeOK
  <1>3. Held'
    BY <1>1, <1>2 DEF CookieInv, Held, Carries
  <1>4. FirstToken'
    BY DEF CookieInv, FirstToken
  <1>5. Replies'
    <2> SUFFICES ASSUME NEW r \in Requests, At(r, "reply") PROVE Newest(r)'
      BY DEF Replies, At
    <2>1. req[r].token \in Tokens /\ Newest(r)
      BY DEF CookieInv, Held, Replies, At, Carries
    <2> QED
      BY <2>1, TokenParts DEF Newest, Carries
  <1>6. Followed'
    BY <1>1, <1>2 DEF CookieInv, Followed
  <1> QED
    BY <1>3, <1>4, <1>5, <1>6 DEF CookieInv

(* Sign-ins: a new session starts its rotation before anybody holds a token  *)
(* of it, and its first token reaches the browser by the response alone.     *)
LEMMA SignInKeepsCookie ==
    ASSUME CookieInv, TypeOK, NEW k \in Logins,
           LoginRead(k) \/ Rehash(k) \/ LoginInsert(k) \/ LoginReply(k)
    PROVE  CookieInv'
  <1> USE DEF browser
  <1>1. /\ login[k].pc \in {"verified", "insert", "reply"} => login[k] \in LoginRows
        /\ login \in [Logins -> LoginRows \cup {Idle, Done}]
        /\ login[k] # Done => login[k].pc # "done"
    BY Rows DEF TypeOK
  <1>2. CASE LoginRead(k)
    <2>1. /\ login' = [login EXCEPT ![k] =
                 [pc |-> IF user.weak THEN "verified" ELSE "insert", user |-> user]]
          /\ login[k].pc = "idle"
          /\ UNCHANGED <<session, cookie, req, lost>>
      BY <1>2 DEF LoginRead, Idle
    <2>2. /\ login'[k].pc \in {"verified", "insert"}
          /\ \A j \in Logins : j # k => login'[j] = login[j]
      BY <1>1, <2>1
    <2> QED
      BY <2>1, <2>2, QuietStep
  <1>3. CASE Rehash(k)
    <2>1. /\ login' = [login EXCEPT ![k].pc = "insert"]
          /\ login[k].pc = "verified" /\ login[k] \in LoginRows
          /\ UNCHANGED <<session, cookie, req, lost>>
      BY <1>1, <1>3 DEF Rehash
    <2>2. login'[k].pc = "insert" /\ \A j \in Logins : j # k => login'[j] = login[j]
      BY <1>1, <2>1 DEF LoginRows
    <2> QED
      BY <2>1, <2>2, QuietStep
  <1>4. CASE LoginInsert(k)
    <2>1. /\ login[k].pc = "insert" /\ login[k] \in LoginRows
          /\ login' = [login EXCEPT ![k].pc = "reply"]
          /\ UNCHANGED <<cookie, req, lost>>
      BY <1>1, <1>4 DEF LoginInsert
    <2>2. login'[k].pc = "reply" /\ \A j \in Logins : j # k => login'[j] = login[j]
      BY <1>1, <2>1 DEF LoginRows
    <2>3. session'[k].gen = 0 /\ \A s \in Logins : s # k => session'[s] = session[s]
      BY <1>4 DEF LoginInsert, TypeOK
    <2>4. \A t \in Tokens : Issued(t) => t[1] # k /\ Issued(t)'
      BY <2>1, <2>2, <2>3, TokenParts DEF Issued
    <2>5. \A t \in Tokens : t[1] # k /\ Follows(t) => Follows(t)'
      BY <2>1, <2>3, TokenParts DEF Follows, At
    <2>6. cookie # None => cookie \in Tokens
      BY DEF TypeOK
    <2>7. Held'
      BY <2>1, <2>4, <2>6 DEF CookieInv, Held, Carries
    <2>8. FirstToken'
      BY <2>2, <2>3 DEF CookieInv, FirstToken
    <2>9. Replies'
      <3> SUFFICES ASSUME NEW r \in Requests, At(r, "reply") PROVE Newest(r)'
        BY <2>1 DEF Replies, At
      <3>1. req[r].token \in Tokens /\ Newest(r) /\ Issued(req[r].token)
        BY DEF CookieInv, Held, Replies, At, Carries
      <3> QED
        BY <2>1, <2>3, <2>4, <3>1, TokenParts DEF Newest, Carries
    <2>10. Followed'
      BY <2>1, <2>4, <2>5, <2>6 DEF CookieInv, Followed, Held
    <2> QED
      BY <2>7, <2>8, <2>9, <2>10 DEF CookieInv
  <1>5. CASE LoginReply(k)
    <2>1. /\ login[k].pc = "reply" /\ cookie' = <<k, 0>> /\ login' = [login EXCEPT ![k] = Done]
          /\ UNCHANGED <<session, req, lost>>
      BY <1>5 DEF LoginReply
    <2>2. login'[k].pc = "done" /\ \A j \in Logins : j # k => login'[j] = login[j]
      BY <1>1, <2>1 DEF Done
    <2>3. session[k].gen = 0
      BY <2>1 DEF CookieInv, FirstToken
    <2>4. cookie' \in Tokens /\ cookie'[1] = k /\ cookie'[2] = 0
      BY <2>1, TokenParts
    <2>5. Issued(cookie)' /\ Follows(cookie)'
      BY <2>1, <2>2, <2>3, <2>4 DEF Issued, Follows
    <2>6. \A t \in Tokens : Issued(t) => t[1] # k /\ Issued(t)'
      BY <2>1, <2>2, TokenParts DEF Issued
    <2>7. Held'
      BY <2>1, <2>5, <2>6 DEF CookieInv, Held, Carries
    <2>8. FirstToken'
      BY <2>1, <2>2 DEF CookieInv, FirstToken
    <2>9. Replies'
      <3> SUFFICES ASSUME NEW r \in Requests, At(r, "reply") PROVE Newest(r)'
        BY <2>1 DEF Replies, At
      <3>1. req[r].token \in Tokens /\ Newest(r) /\ Issued(req[r].token)
        BY DEF CookieInv, Held, Replies, At, Carries
      <3>2. cookie' # req[r].token
        BY <2>4, <2>6, <3>1
      <3> QED
        BY <2>1, <3>1, <3>2, TokenParts DEF Newest, Carries
    <2>10. Followed'
      BY <2>5 DEF Followed
    <2> QED
      BY <2>7, <2>8, <2>9, <2>10 DEF CookieInv
  <1> QED
    BY <1>2, <1>3, <1>4, <1>5

(* A request that comes to hold no token, or goes on with the one it has:    *)
(* nothing else moves, and no response disappears.                           *)
LEMMA RequestStep ==
    ASSUME CookieInv, TypeOK, NEW r \in Requests,
           UNCHANGED <<session, login, cookie, lost>>,
           \A q \in Requests : q # r => req'[q] = req[q],
           ~At(r, "reply"), ~At(r, "reply")',
           Carries(r)' => \/ cookie # None /\ req'[r].token = cookie
                          \/ Carries(r) /\ req'[r].token = req[r].token
    PROVE  CookieInv'
  <1>1. \A t \in Tokens : (Issued(t) => Issued(t)') /\ (Follows(t) => Follows(t)')
    BY TokenParts DEF Issued, Follows, At
  <1>2. cookie # None => cookie \in Tokens
    BY DEF TypeOK
  <1>3. Held'
    BY <1>1, <1>2 DEF CookieInv, Held, Carries
  <1>4. FirstToken'
    BY DEF CookieInv, FirstToken
  <1>5. Replies'
    <2> SUFFICES ASSUME NEW q \in Requests, At(q, "reply")' PROVE Newest(q)'
      BY DEF Replies
    <2>1. q # r /\ At(q, "reply") /\ req'[q] = req[q]
      BY DEF At
    <2>2. req[q].token \in Tokens /\ Newest(q)
      BY <2>1 DEF CookieInv, Held, Replies, At, Carries
    <2>3. \A p \in Requests : p # q /\ Carries(p)' => req'[p].token # req[q].token
      BY <2>1, <2>2 DEF Newest, Carries
    <2> QED
      BY <2>1, <2>2, <2>3, TokenParts DEF Newest
  <1>6. Followed'
    BY <1>1, <1>2 DEF CookieInv, Followed
  <1> QED
    BY <1>3, <1>4, <1>5, <1>6 DEF CookieInv

(* The rotation: the one request that holds the current token gets the next  *)
(* one, and everybody else holds an older one.                               *)
LEMMA RotateKeepsCookie ==
    ASSUME CookieInv, TypeOK, NEW r \in Requests, Rotate(r)
    PROVE  CookieInv'
  <1> USE DEF At
  <1>1. /\ req[r] \in RequestRows /\ Carries(r) /\ req[r].pc = "rotate"
        /\ req \in [Requests -> RequestRows \cup {Idle}]
        /\ UNCHANGED <<login, cookie, lost>>
    BY Rows DEF Rotate, TypeOK, Carries
  <1>2. req[r].token \in Tokens /\ Issued(req[r].token)
    BY <1>1 DEF CookieInv, Held
  <1>3. PICK s \in Logins : s = req[r].token[1]
    BY <1>2, TokenParts
  <1>4. CASE ~HoldsToken(s, req[r].token)
    <2>1. /\ req' = [req EXCEPT ![r] = [req[r] EXCEPT !.pc = "refused"]]
          /\ UNCHANGED session
      BY <1>3, <1>4 DEF Rotate, Goto
    <2>2. req'[r].pc = "refused" /\ \A q \in Requests : q # r => req'[q] = req[q]
      BY <1>1, <2>1 DEF RequestRows
    <2> QED
      BY <1>1, <2>1, <2>2, RequestStep DEF Carries
  <1>5. CASE HoldsToken(s, req[r].token)
    <2>1. PICK n \in 0..MaxRotations : n = session[s].gen + 1
      BY <1>3 DEF Rotate, TypeOK, SessionRows
    <2>2. /\ session' = [session EXCEPT ![s] = [session[s] EXCEPT !.gen = n]]
          /\ req' = [req EXCEPT ![r] = [req[r] EXCEPT !.pc = "reply", !.token = <<s, n>>]]
          /\ req[r].token = <<s, session[s].gen>>
      BY <1>3, <1>5, <2>1 DEF Rotate, HoldsToken
    <2>3. /\ req'[r].pc = "reply" /\ req'[r].token = <<s, n>>
          /\ \A q \in Requests : q # r => req'[q] = req[q]
      BY <1>1, <2>2 DEF RequestRows
    <2>4. /\ session'[s].gen = n /\ session[s].gen \in Nat
          /\ \A p \in Logins : p # s => session'[p] = session[p]
      BY <2>2 DEF TypeOK, SessionRows
    <2>5. \A t \in Tokens : Issued(t) => Issued(t)' /\ t # <<s, n>>
      BY <1>1, <2>1, <2>4, TokenParts DEF Issued
    <2>6. <<s, n>> \in Tokens /\ <<s, n>>[1] = s /\ <<s, n>>[2] = n
      BY TokenParts
    <2>7. login[s].pc = "done"
      BY <1>2, <1>3 DEF Issued
    <2>8. Issued(<<s, n>>)'
      BY <1>1, <2>1, <2>4, <2>6, <2>7 DEF Issued
    <2>9. cookie # None => cookie \in Tokens
      BY DEF TypeOK
    <2>10. Held'
      <3>1. cookie' # None => Issued(cookie)'
        BY <1>1, <2>5, <2>9 DEF CookieInv, Held
      <3>2. ASSUME NEW q \in Requests, Carries(q)'
            PROVE  req'[q].token \in Tokens /\ Issued(req[q].token)'
        <4>1. CASE q = r
          BY <2>3, <2>6, <2>8, <4>1 DEF Issued
        <4>2. CASE q # r
          <5>1. Carries(q) /\ req'[q] = req[q]
            BY <2>3, <3>2, <4>2 DEF Carries
          <5>2. req[q].token \in Tokens /\ Issued(req[q].token)
            BY <5>1 DEF CookieInv, Held
          <5>3. PICK t \in Tokens : t = req[q].token
            BY <5>2
          <5>4. Issued(t)'
            BY <2>5, <5>2, <5>3
          <5> QED
            BY <5>1, <5>3, <5>4 DEF Issued
        <4> QED
          BY <4>1, <4>2
      <3> QED
        BY <3>1, <3>2 DEF Held
    <2>11. FirstToken'
      BY <1>1, <2>4, <2>7 DEF CookieInv, FirstToken
    <2>12. Replies'
      <3>1. Newest(r)'
        <4>1. req'[r].token[2] = session'[req'[r].token[1]].gen
          BY <2>3, <2>4, <2>6
        <4>2. cookie' # req'[r].token
          BY <1>1, <2>3, <2>5, <2>6, <2>9, TokenParts DEF CookieInv, Held
        <4>3. \A q \in Requests : q # r /\ Carries(q)' => req'[q].token # req'[r].token
          BY <2>3, <2>5 DEF CookieInv, Held, Carries
        <4> QED
          BY <4>1, <4>2, <4>3 DEF Newest
      <3>2. ASSUME NEW q \in Requests, q # r, At(q, "reply")' PROVE Newest(q)'
        <4>1. req'[q] = req[q] /\ At(q, "reply") /\ Carries(q)
          BY <2>3, <3>2 DEF Carries
        <4>2. req[q].token \in Tokens /\ Newest(q) /\ Issued(req[q].token)
          BY <4>1 DEF CookieInv, Held, Replies
        <4>3. req[q].token[1] # s
          BY <1>1, <2>2, <3>2, <4>2, TokenParts DEF Newest
        <4>4. req[q].token # <<s, n>>
          BY <2>6, <4>3
        <4>5. \A p \in Requests : p # q /\ Carries(p)' => req'[p].token # req'[q].token
          BY <2>3, <4>1, <4>2, <4>4 DEF Newest, Carries
        <4>6. req'[q].token[2] = session'[req'[q].token[1]].gen
          BY <2>4, <4>1, <4>2, <4>3, TokenParts DEF Newest
        <4> QED
          BY <1>1, <4>1, <4>2, <4>5, <4>6 DEF Newest
      <3> QED
        BY <3>1, <3>2 DEF Replies
    <2>13. Followed'
      <3> SUFFICES ASSUME cookie # None PROVE Follows(cookie)'
        BY <1>1 DEF Followed
      <3>1. cookie \in Tokens /\ Follows(cookie)
        BY <2>9 DEF CookieInv, Followed
      <3>2. CASE cookie[1] = s
        BY <1>1, <2>3, <2>6, <3>2 DEF Follows
      <3>3. CASE cookie[1] # s
        <4>1. \A q \in Requests : At(q, "reply") => At(q, "reply")' /\ req'[q] = req[q]
          BY <1>1, <2>3
        <4> QED
          BY <1>1, <2>4, <3>1, <3>3, <4>1, TokenParts DEF Follows
      <3> QED
        BY <3>2, <3>3
    <2> QED
      BY <2>10, <2>11, <2>12, <2>13 DEF CookieInv
  <1> QED
    BY <1>4, <1>5

(* A response arrives, or is lost: one holder of a current token less.       *)
LEMMA ReplyKeepsCookie ==
    ASSUME CookieInv, TypeOK, NEW r \in Requests, RefreshReply(r) \/ RefreshLost(r)
    PROVE  CookieInv'
  <1> USE DEF At, server
  <1>1. /\ req[r].pc = "reply" /\ Carries(r)
        /\ UNCHANGED <<session, login>>
        /\ lost \subseteq lost'
    BY DEF RefreshReply, RefreshLost, Carries
  <1>2. PICK t \in Tokens : t = req[r].token
    BY <1>1 DEF CookieInv, Held
  <1>3. Issued(t) /\ Newest(r)
    BY <1>1, <1>2 DEF CookieInv, Held, Replies
  <1>4. /\ req'[r].pc \in {"send", "idle"}
        /\ \A q \in Requests : q # r => req'[q] = req[q]
    BY DEF RefreshReply, RefreshLost, End, Idle, TypeOK
  <1>5. \/ cookie' = t /\ RefreshReply(r)
        \/ cookie' = cookie /\ t[1] \in lost'
    BY <1>2 DEF RefreshReply, RefreshLost
  <1>6. \A u \in Tokens : Issued(u) => Issued(u)'
    BY <1>1, TokenParts DEF Issued
  <1>7. cookie # None => cookie \in Tokens
    BY DEF TypeOK
  <1>8. Held'
    BY <1>3, <1>4, <1>5, <1>6, <1>7 DEF CookieInv, Held, Carries
  <1>9. FirstToken'
    BY <1>1 DEF CookieInv, FirstToken
  <1>10. ASSUME NEW q \in Requests, At(q, "reply")' PROVE Newest(q)'
    <2>1. q # r /\ req'[q] = req[q] /\ At(q, "reply") /\ Carries(q)
      BY <1>4, <1>10 DEF Carries
    <2>2. req[q].token \in Tokens /\ Newest(q)
      BY <2>1 DEF CookieInv, Held, Replies
    <2>3. req[q].token # t
      BY <1>2, <1>3, <2>1 DEF Newest
    <2>4. \A p \in Requests : p # q /\ Carries(p)' => req'[p].token # req'[q].token
      BY <1>4, <2>1, <2>2 DEF Newest, Carries
    <2> QED
      BY <1>1, <1>5, <2>1, <2>2, <2>3, <2>4, TokenParts DEF Newest
  <1>11. Followed'
    <2>1. CASE cookie' = t /\ RefreshReply(r)
      <3>1. t[2] = session'[t[1]].gen
        BY <1>1, <1>2, <1>3 DEF Newest
      <3> QED
        BY <2>1, <3>1 DEF Followed, Follows
    <2>2. CASE cookie' = cookie /\ t[1] \in lost'
      <3> SUFFICES ASSUME cookie # None PROVE Follows(cookie)'
        BY <2>2 DEF Followed
      <3>1. Follows(cookie)
        BY DEF CookieInv, Followed
      <3>2. CASE \E q \in Requests : At(q, "reply") /\ req[q].token[1] = cookie[1]
        <4>1. PICK q \in Requests : At(q, "reply") /\ req[q].token[1] = cookie[1]
          BY <3>2
        <4>2. CASE q = r
          BY <1>2, <2>2, <4>1, <4>2 DEF Follows
        <4>3. CASE q # r
          BY <1>4, <2>2, <4>1, <4>3 DEF Follows
        <4> QED
          BY <4>2, <4>3
      <3>3. CASE cookie[2] = session[cookie[1]].gen \/ cookie[1] \in lost
        BY <1>1, <2>2, <3>3 DEF Follows
      <3> QED
        BY <3>1, <3>2, <3>3 DEF Follows
    <2> QED
      BY <1>5, <2>1, <2>2
  <1> QED
    BY <1>8, <1>9, <1>10, <1>11 DEF CookieInv, Replies

LEMMA CookieStep == CookieInv /\ TypeOK /\ [Next]_vars => CookieInv'
  <1> SUFFICES ASSUME CookieInv, TypeOK, [Next]_vars PROVE CookieInv'
    OBVIOUS
  <1> USE DEF server, browser
  <1>1. ASSUME NEW k \in Logins,
               LoginRead(k) \/ Rehash(k) \/ LoginInsert(k) \/ LoginReply(k)
        PROVE  CookieInv'
    BY <1>1, SignInKeepsCookie
  <1>2. CASE \/ \E what \in {"password", "email"} : ChangeVerify(what)
             \/ \E status \in {"suspended", "deleted"} : Disable(status)
             \/ ChangeWrite \/ LogoutAll \/ Reactivate
    <2>1. UNCHANGED <<login, cookie, req, lost>>
      BY <1>2 DEF ChangeVerify, Disable, ChangeWrite, LogoutAll, Reactivate
    <2>2. UNCHANGED session \/ session' = RevokeAll
      BY <1>2 DEF ChangeVerify, Disable, ChangeWrite, LogoutAll, Reactivate
    <2>3. \A s \in Logins : session'[s].gen = session[s].gen
      BY <2>2, RevokesAll
    <2> QED
      BY <2>1, <2>3, QuietStep
  <1>3. CASE Logout
    <2>1. /\ session' = [s \in Logins |->
                IF HoldsToken(s, cookie) THEN [session[s] EXCEPT !.status = "revoked"]
                                         ELSE session[s]]
          /\ UNCHANGED <<login, cookie, req, lost>>
      BY <1>3 DEF Logout
    <2>2. \A s \in Logins : session[s] \in SessionRows
      BY DEF TypeOK
    <2>3. \A s \in Logins : session'[s].gen = session[s].gen
      BY <2>1, <2>2 DEF SessionRows
    <2> QED
      BY <2>1, <2>3, QuietStep
  <1>4. CASE AccessExpires \/ UNCHANGED vars
    <2>1. UNCHANGED <<session, login, cookie, req, lost>>
      BY <1>4 DEF AccessExpires, vars
    <2> QED
      BY <2>1, QuietStep
  <1>5. CASE LogoutReply
    <2>1. cookie' = None /\ UNCHANGED <<session, login, req, lost>>
      BY <1>5 DEF LogoutReply
    <2>2. Held' /\ FirstToken' /\ Followed'
      BY <2>1 DEF CookieInv, Held, FirstToken, Followed, Carries, Issued
    <2>3. Replies'
      <3> SUFFICES ASSUME NEW r \in Requests, At(r, "reply") PROVE Newest(r)'
        BY <2>1 DEF Replies, At
      <3>1. req[r].token \in Tokens /\ Newest(r)
        BY DEF CookieInv, Held, Replies, At, Carries
      <3> QED
        BY <2>1, <3>1, TokenParts DEF Newest, Carries
    <2> QED
      BY <2>2, <2>3 DEF CookieInv
  <1>6. ASSUME NEW r \in Requests,
               Begin(r) \/ Send(r) \/ RefreshSend(r) \/ RefreshSelect(r) \/ RefreshRefused(r)
        PROVE  CookieInv'
    <2>1. /\ req[r].pc # "idle" => req[r] \in RequestRows
          /\ req \in [Requests -> RequestRows \cup {Idle}]
      BY Rows DEF TypeOK
    <2>2. UNCHANGED <<session, login, cookie, lost>>
      BY <1>6 DEF Begin, Send, RefreshSend, RefreshSelect, RefreshRefused
    <2>3. /\ \A q \in Requests : q # r => req'[q] = req[q]
          /\ ~At(r, "reply")
      BY <1>6, <2>1 DEF Begin, Send, RefreshSend, RefreshSelect, RefreshRefused, At, Goto,
                        End, Idle
    <2>4. CASE Begin(r) \/ Send(r) \/ RefreshRefused(r)
      <3>1. req'[r].pc \in {"send", "refresh", "idle"}
        BY <2>1, <2>4 DEF Begin, Send, RefreshRefused, At, Goto, End, Idle, RequestRows
      <3> QED
        BY <2>2, <2>3, <3>1, RequestStep DEF At, Carries
    <2>5. CASE RefreshSend(r)
      <3>1. req'[r].token = cookie
            /\ req'[r].pc = IF cookie = None THEN "refused" ELSE "select"
        BY <2>1, <2>5 DEF RefreshSend, At, RequestRows
      <3> QED
        BY <2>2, <2>3, <3>1, RequestStep DEF At, Carries
    <2>6. CASE RefreshSelect(r)
      <3>1. req[r].pc = "select" /\ req'[r].token = req[r].token
            /\ req'[r].pc \in {"rotate", "refused"}
        BY <2>1, <2>6 DEF RefreshSelect, At, Goto, RequestRows
      <3> QED
        BY <2>2, <2>3, <3>1, RequestStep DEF At, Carries
    <2> QED
      BY <1>6, <2>4, <2>5, <2>6
  <1>7. ASSUME NEW r \in Requests, Rotate(r) \/ RefreshReply(r) \/ RefreshLost(r)
        PROVE  CookieInv'
    BY <1>7, RotateKeepsCookie, ReplyKeepsCookie
  <1> QED
    BY <1>1, <1>2, <1>3, <1>4, <1>5, <1>6, <1>7 DEF Next

LEMMA CookieInvFollows == CookieInv /\ TypeOK => CookieFollowsSession
  <1> SUFFICES ASSUME CookieInv, TypeOK, NEW s \in Logins,
                      cookie # None, cookie[1] = s, s \notin lost
               PROVE  \/ cookie = <<s, session[s].gen>>
                      \/ \E r \in Requests : At(r, "reply")
                                             /\ req[r].token = <<s, session[s].gen>>
    BY DEF CookieFollowsSession
  <1>1. cookie \in Tokens /\ Follows(cookie)
    BY DEF CookieInv, Followed, TypeOK
  <1>2. CASE cookie[2] = session[s].gen
    BY <1>1, <1>2, TokenParts
  <1>3. CASE \E r \in Requests : At(r, "reply") /\ req[r].token[1] = s
    <2>1. PICK r \in Requests : At(r, "reply") /\ req[r].token[1] = s
      BY <1>3
    <2>2. req[r].token \in Tokens /\ req[r].token[2] = session[s].gen
      BY <2>1 DEF CookieInv, Held, Replies, Newest, At, Carries
    <2> QED
      BY <2>1, <2>2, TokenParts
  <1> QED
    BY <1>1, <1>2, <1>3 DEF Follows

-----------------------------------------------------------------------------
(* The inductive invariant.                                                  *)
IInv == AccountInv /\ CookieInv

LEMMA Inductive == Spec => []IInv
  <1>1. Init => IInv
    BY AccountInit, CookieInit DEF IInv
  <1>2. IInv /\ [Next]_vars => IInv'
    BY AccountStep, CookieStep DEF IInv, AccountInv, Accounts, CookieInv
  <1> QED
    BY <1>1, <1>2, PTL DEF Spec

(* Every variable has its type: a rotation is a place of the session's own   *)
(* chain, and a password is one that a counted change has set.               *)
THEOREM TypeCorrect == Spec => []TypeOK
  <1>1. IInv => TypeOK
    BY DEF IInv, AccountInv, Accounts
  <1> QED
    BY <1>1, Inductive, PTL

(* However many requests of a tab refresh at once, with whatever sign-ins,   *)
(* logouts and revocations between, the browser holds a live session's       *)
(* current refresh token, or the one response that carries it is on its way  *)
(* (refresh in identity/application.ts and the web client's refresh).        *)
THEOREM CookieKeepsUp == Spec => []CookieFollowsSession
  <1>1. IInv => CookieFollowsSession
    BY CookieInvFollows DEF IInv, AccountInv, Accounts
  <1> QED
    BY <1>1, Inductive, PTL

(* No session survives a password change, a suspension, a deletion or a      *)
(* logout everywhere, but one whose sign-in had read the account before.     *)
THEOREM RevocationHolds == Spec => []OnlyRacedSessionsOutlive
  <1>1. IInv => OnlyRacedSessionsOutlive
    BY DEF IInv, AccountInv
  <1> QED
    BY <1>1, Inductive, PTL
=============================================================================
