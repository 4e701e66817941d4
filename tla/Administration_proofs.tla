------------------------- MODULE Administration_proofs -------------------------
(***************************************************************************)
(* Theorems about Administration, for any number of users, mailboxes,      *)
(* connections, slots and keys, and every menu of well-formed operations:  *)
(* type correctness and foreign keys, idempotency of the administration,   *)
(* the limits, and that updates stick.                                     *)
(***************************************************************************)
EXTENDS Administration, FiniteSetTheorems, TLAPS

USE AdministrationAssumption

---------------------------------------------------------------------------
(* The calls.                                                              *)
Working == {"read", "quota", "invitation", "write"}

Pairs == [api : Secrets \cup {None}, hook : Secrets \cup {None}]

CallRight(s) ==
    /\ call[s] = [at |-> call[s].at, op |-> call[s].op, key |-> call[s].key,
                  seen |-> call[s].seen]
    /\ call[s].at = "idle" => call[s] = Idle
    /\ call[s].at # "idle" => call[s].op \in menu
    /\ call[s].at \in Working \cup {"idle", "lookup", "record"}
    /\ call[s].key \in Keys \cup {None}
    /\ call[s].at \in {"lookup", "record"} => call[s].key # None
    /\ call[s].at \in {"lookup", "read"} => call[s].seen = None

CallsRight ==
    /\ menu \in Menus
    /\ call = [s \in Slots |-> call[s]]
    /\ \A s \in Slots : CallRight(s)

HistRow(h) ==
    /\ h = [ran |-> h.ran, intent |-> h.intent, raced |-> h.raced, invited |-> h.invited,
            topQuota |-> h.topQuota, asked |-> h.asked, wanted |-> h.wanted]
    /\ h.ran \in [Keys -> Nat]
    /\ h.intent = [k \in Keys |-> h.intent[k]]
    /\ h.topQuota \in Nat
    /\ h.asked \in [Connections -> Pairs]
    /\ h.wanted \in Settings

Typed == TypeOK /\ CallsRight /\ HistRow(hist)

(* Idempotency.  An undisturbed key has one call at most; its mutation has *)
(* not run before the call is past the lookup, and once it has, the call   *)
(* still holds the answer or a live record does.                           *)
Undisturbed(k) ==
    /\ \A s, t \in Slots : call[s].key = k /\ call[t].key = k => s = t
    /\ \A r \in records : r.key = k => r.live
    /\ hist.ran[k] <= 1
    /\ \A s \in Slots : call[s].key = k /\ call[s].at \in Working => hist.ran[k] = 0
    /\ hist.ran[k] = 1 => \/ \E s \in Slots : call[s].key = k /\ call[s].at = "record"
                          \/ \E r \in records : r.key = k

OnceInv ==
    /\ \A r \in records : Path(r.op) = hist.intent[r.key]
    /\ \A s \in Slots : call[s].key \in Keys => Path(call[s].op) = hist.intent[call[s].key]
    /\ \A k \in Keys : k \notin hist.raced => Undisturbed(k)

(* The quota: who is about to insert a mailbox has room for it.            *)
QuotaInv ==
    /\ db.settings.quota <= hist.topQuota
    /\ \A u \in Users : u \notin hist.raced =>
         /\ Cardinality(Owned(u)) <= hist.topQuota
         /\ \A s \in Slots : At(s, "CreateMailbox", "write") /\ call[s].op.by = u =>
              Cardinality(Owned(u)) < hist.topQuota

(* The mailbox that its owner is about to remove is still there.           *)
RemovalInv ==
    \A s \in Slots : At(s, "RemoveMailbox", "write") =>
      db.mailbox[call[s].op.mailbox].status # "absent"

(* The registration key: who is about to register with it has a use left.  *)
InviteInv ==
    LET users == Cardinality(hist.invited) IN
    /\ hist.invited \subseteq {u \in Users : db.user[u] # "absent"}
    /\ IsFiniteSet(hist.invited)
    /\ db.used = IF users < MaxUses THEN users ELSE MaxUses
    /\ "invitation" \notin hist.raced =>
         /\ users <= MaxUses
         /\ \A s \in Slots : At(s, "Register", "write") /\ call[s].seen = "key" =>
              users < MaxUses

(* The connections: who is about to write one has read what is stored.     *)
SecretInv ==
    /\ \A c \in Connections : c \notin hist.raced => db.secret[c] = hist.asked[c]
    /\ \A s \in Slots : At(s, "UpdateConnection", "write") =>
         LET c == call[s].op.conn IN
         /\ call[s].seen \in Pairs /\ db.conn[c] # "absent"
         /\ c \notin hist.raced => call[s].seen = db.secret[c]

(* The settings: columns before the one an update is at are as it wants    *)
(* them, the others as they were.                                          *)
Applying(s) == At(s, "UpdateSettings", "write")

SettingsInv ==
    /\ \A s \in Slots : Applying(s) => call[s].seen \in DOMAIN call[s].op.set
    /\ "settings" \notin hist.raced =>
         /\ \A s, t \in Slots : Applying(s) /\ Applying(t) => s = t
         /\ (\A s \in Slots : ~Applying(s)) => db.settings = hist.wanted
         /\ \A s \in Slots : Applying(s) =>
              LET set == call[s].op.set
                  past == {j \in DOMAIN set : j < call[s].seen} IN
              /\ \A j \in past : db.settings[set[j][1]] = set[j][2]
              /\ \A f \in {"enabled", "invite", "quota"} :
                   (\A j \in past : set[j][1] # f) => db.settings[f] = hist.wanted[f]


---------------------------------------------------------------------------
(* How a step moves a call.                                                *)
Others(s) ==
    /\ call' = [t \in Slots |-> call'[t]]
    /\ \A t \in Slots \ {s} : call'[t] = call[t]

Moved(s, place, v) ==
    /\ Others(s)
    /\ call'[s] = [at |-> place, op |-> call[s].op, key |-> call[s].key, seen |-> v]

Ended(s) == Others(s) /\ call'[s] = Idle

LEMMA Moves ==
    ASSUME CallsRight, NEW s \in Slots, NEW place, NEW v
    PROVE  /\ call' = [call EXCEPT ![s].at = place] => Moved(s, place, call[s].seen)
           /\ call' = [call EXCEPT ![s].at = place, ![s].seen = v] => Moved(s, place, v)
           /\ call' = [call EXCEPT ![s].seen = v] => Moved(s, call[s].at, v)
           /\ call' = [call EXCEPT ![s] = Idle] => Ended(s)
  <1>1. /\ call = [t \in Slots |-> call[t]]
        /\ call[s] = [at |-> call[s].at, op |-> call[s].op, key |-> call[s].key,
                      seen |-> call[s].seen]
    BY DEF CallsRight, CallRight
  <1>2. call' = [call EXCEPT ![s].at = place] => Moved(s, place, call[s].seen)
    BY <1>1 DEF Moved, Others
  <1>3. call' = [call EXCEPT ![s].at = place, ![s].seen = v] => Moved(s, place, v)
    BY <1>1 DEF Moved, Others
  <1>4. call' = [call EXCEPT ![s].seen = v] => Moved(s, call[s].at, v)
    BY <1>1 DEF Moved, Others
  <1>5. call' = [call EXCEPT ![s] = Idle] => Ended(s)
    BY <1>1 DEF Ended, Others
  <1> QED
    BY <1>2, <1>3, <1>4, <1>5

\* A step of a handler, with what it makes of the history.
Handled(s, h) ==
    /\ call[s].at \in Working
    /\ UNCHANGED <<records, menu>>
    /\ HistRow(hist')
    /\ h.intent = hist.intent /\ hist.raced \subseteq h.raced
    /\ hist'.intent = h.intent /\ hist'.raced = h.raced /\ hist'.invited = h.invited
    /\ hist'.topQuota = h.topQuota /\ hist'.asked = h.asked /\ hist'.wanted = h.wanted
    /\ Others(s)
    /\ \/ Ended(s) /\ hist'.ran = hist.ran
       \/ \E place \in Working \ {"read"} : \E v : Moved(s, place, v) /\ hist'.ran = hist.ran
       \/ /\ Moved(s, "record", call[s].seen) /\ call[s].key \in Keys
          /\ hist'.ran = [hist.ran EXCEPT ![call[s].key] = @ + 1]

\* It only goes on, or refuses.
Goeson(s) ==
    /\ Handled(s, hist)
    /\ UNCHANGED <<db, hist>>

LEMMA GoesOn ==
    ASSUME Typed, NEW s \in Slots, call[s].at \in Working
    PROVE  /\ Refuses(s) => Goeson(s) /\ Ended(s)
           /\ \A place \in Working \ {"read"} :
                Goes(s, place) /\ UNCHANGED <<db, records, menu, calls, faults, hist>> =>
                  Goeson(s) /\ Moved(s, place, call[s].seen)
           /\ \A holds : Checks(s, holds) =>
                Goeson(s) /\ ((holds /\ Moved(s, "write", call[s].seen)) \/ Ended(s))
  <1>1. CallsRight /\ HistRow(hist)
    BY DEF Typed
  <1>2. Refuses(s) => Goeson(s) /\ Ended(s)
    BY <1>1, Moves DEF Refuses, Goeson, Handled, Ended
  <1>3. ASSUME NEW place \in Working \ {"read"},
               Goes(s, place), UNCHANGED <<db, records, menu, calls, faults, hist>>
        PROVE  Goeson(s) /\ Moved(s, place, call[s].seen)
    <2>1. Moved(s, place, call[s].seen)
      BY <1>1, <1>3, Moves DEF Goes
    <2> QED
      BY <1>1, <1>3, <2>1 DEF Goeson, Handled, Moved
  <1>4. ASSUME NEW holds, Checks(s, holds)
        PROVE  Goeson(s) /\ ((holds /\ Moved(s, "write", call[s].seen)) \/ Ended(s))
    <2>1. CASE holds
      <3>1. Goes(s, "write") /\ UNCHANGED <<db, records, menu, calls, faults, hist>>
        BY <1>4, <2>1 DEF Checks
      <3> QED
        BY <1>3, <2>1, <3>1 DEF Working
    <2>2. CASE ~holds
      BY <1>2, <1>4, <2>2 DEF Checks
    <2> QED
      BY <2>1, <2>2
  <1> QED
    BY <1>2, <1>3, <1>4

LEMMA Finishes ==
    ASSUME Typed, NEW s \in Slots, call[s].at \in Working, NEW h, HistRow(h),
           h.ran = hist.ran, h.intent = hist.intent, hist.raced \subseteq h.raced,
           Succeeds(s, h)
    PROVE  Handled(s, h) /\ call'[s].at \in {"idle", "record"}
  <1>1. CallsRight /\ HistRow(hist) /\ call[s].key \in Keys \cup {None}
    BY DEF Typed, CallsRight, CallRight
  <1>2. CASE call[s].key = None
    <2>1. Ended(s) /\ hist' = h /\ UNCHANGED <<records, menu>>
      BY <1>1, <1>2, Moves DEF Succeeds
    <2> QED
      BY <1>1, <2>1 DEF Handled, Ended, Idle
  <1>3. CASE call[s].key # None
    <2>1. /\ Moved(s, "record", call[s].seen) /\ UNCHANGED <<records, menu>>
          /\ hist' = [h EXCEPT !.ran[call[s].key] = @ + 1]
      BY <1>1, <1>3, Moves DEF Succeeds
    <2>2. /\ hist'.ran = [hist.ran EXCEPT ![call[s].key] = @ + 1]
          /\ hist'.intent = h.intent /\ hist'.raced = h.raced /\ hist'.invited = h.invited
          /\ hist'.topQuota = h.topQuota /\ hist'.asked = h.asked /\ hist'.wanted = h.wanted
          /\ hist' = [ran |-> hist'.ran, intent |-> hist'.intent, raced |-> hist'.raced,
               invited |-> hist'.invited, topQuota |-> hist'.topQuota,
               asked |-> hist'.asked, wanted |-> hist'.wanted]
      BY <2>1 DEF HistRow
    <2>3. HistRow(hist')
      BY <1>1, <1>3, <2>2 DEF HistRow
    <2> QED
      BY <1>1, <1>3, <2>1, <2>2, <2>3 DEF Handled, Moved
  <1> QED
    BY <1>2, <1>3

LEMMA CallRows ==
    ASSUME CallsRight
    PROVE  /\ \A s \in Slots : /\ call[s].key \in Keys \cup {None}
                               /\ call[s].at = "idle" => call[s] = Idle /\ call[s].key = None
                               /\ call[s].at # "idle" => WellFormed(call[s].op)
                               /\ call[s] # Idle => call[s].op \in menu
           /\ \A r \in records : r.op \in menu => WellFormed(r.op)
  BY MenuAssumption DEF CallsRight, CallRight, Idle

\* What holds of the calls holds after a step that moves one call rightly.
LEMMA OneMoves ==
    ASSUME CallsRight, NEW s \in Slots, Others(s), UNCHANGED menu, CallRight(s)'
    PROVE  CallsRight'
  <1>1. ASSUME NEW t \in Slots PROVE CallRight(t)'
    <2>1. CASE t = s
      BY <2>1
    <2>2. CASE t # s
      BY <2>2 DEF Others, CallsRight, CallRight
    <2> QED
      BY <2>1, <2>2
  <1> QED
    BY <1>1 DEF CallsRight, Others

LEMMA EndedRight ==
    ASSUME CallsRight, NEW s \in Slots, Ended(s), UNCHANGED menu
    PROVE  CallsRight'
  <1>1. CallRight(s)'
    BY DEF Ended, CallRight, Idle, Blank
  <1> QED
    BY <1>1, OneMoves DEF Ended

LEMMA MovedRight ==
    ASSUME CallsRight, NEW s \in Slots, NEW place \in Working \cup {"record"}, NEW v,
           call[s].at # "idle", Moved(s, place, v), UNCHANGED menu,
           place = "record" => call[s].key # None, place = "read" => v = None
    PROVE  CallsRight'
  <1>1. CallRight(s)
    BY DEF CallsRight
  <1>2. CallRight(s)'
    BY <1>1 DEF Moved, CallRight, Working
  <1> QED
    BY <1>2, OneMoves DEF Moved

LEMMA HandledRight ==
    ASSUME Typed, OnceInv, NEW s \in Slots, NEW h, Handled(s, h)
    PROVE  CallsRight' /\ OnceInv'
  <1>1. CallsRight /\ HistRow(hist) /\ call[s].at \in Working /\ UNCHANGED <<records, menu>>
        /\ hist'.intent = hist.intent /\ hist.raced \subseteq hist'.raced /\ Others(s)
    BY DEF Typed, Handled
  <1>2. CallsRight'
    <2>1. CASE Ended(s)
      BY <1>1, <2>1, EndedRight
    <2>2. ASSUME NEW place \in Working \ {"read"}, NEW v, Moved(s, place, v) PROVE CallsRight'
      BY <1>1, <2>2, MovedRight DEF Working
    <2>3. CASE Moved(s, "record", call[s].seen) /\ call[s].key \in Keys
      BY <1>1, <2>3, MovedRight DEF Working
    <2> QED
      BY <2>1, <2>2, <2>3 DEF Handled
  <1>3. /\ call'[s].key \in {call[s].key, None}
        /\ call'[s].key \in Keys => call'[s].op = call[s].op /\ call'[s].key = call[s].key
    <2>1. CASE Ended(s)
      BY <2>1 DEF Ended, Idle
    <2>2. ASSUME NEW place, NEW v, Moved(s, place, v)
          PROVE  call'[s].key = call[s].key /\ call'[s].op = call[s].op
      BY <2>2 DEF Moved
    <2> QED
      BY <2>1, <2>2 DEF Handled
  <1>4. \A t \in Slots : /\ call'[t].key \in Keys => call'[t].key = call[t].key
                                                     /\ call'[t].op = call[t].op
    BY <1>1, <1>3 DEF Others
  <1>5. \A t \in Slots : call'[t].key \in Keys =>
                           Path(call'[t].op) = hist'.intent[call'[t].key]
    BY <1>1, <1>4 DEF OnceInv
  <1>6. ASSUME NEW k \in Keys, k \notin hist'.raced PROVE Undisturbed(k)'
    <2>1. Undisturbed(k)
      BY <1>1, <1>6 DEF OnceInv
    <2>2. /\ \A t, r \in Slots : call'[t].key = k /\ call'[r].key = k => t = r
          /\ \A r \in records' : r.key = k => r.live
      BY <1>1, <1>4, <2>1 DEF Undisturbed
    <2>3. CASE call[s].key # k
      <3>1. hist'.ran[k] = hist.ran[k] /\ \A t \in Slots : call'[t].key = k => call'[t] = call[t]
        BY <1>1, <1>4, <2>3 DEF Handled, HistRow, Others
      <3>2. \A t \in Slots : call[t].key = k => call'[t] = call[t]
        BY <1>1, <2>3 DEF Others
      <3> QED
        BY <1>1, <2>1, <2>2, <3>1, <3>2 DEF Undisturbed
    <2>4. CASE call[s].key = k
      <3>1. hist.ran[k] = 0 /\ \A t \in Slots \ {s} : call'[t].key # k
        BY <1>1, <2>1, <2>4 DEF Undisturbed, Others
      <3>2. CASE hist'.ran = hist.ran
        BY <1>1, <2>2, <3>1, <3>2 DEF Undisturbed
      <3>3. CASE /\ Moved(s, "record", call[s].seen)
                 /\ hist'.ran = [hist.ran EXCEPT ![call[s].key] = @ + 1]
        <4>1. hist'.ran[k] = 1 /\ call'[s].key = k /\ call'[s].at = "record"
          BY <1>1, <2>4, <3>1, <3>3 DEF HistRow, Moved
        <4> QED
          BY <2>2, <3>1, <4>1 DEF Undisturbed, Working
      <3> QED
        BY <3>2, <3>3 DEF Handled
    <2> QED
      BY <2>3, <2>4
  <1>7. \A r \in records' : Path(r.op) = hist'.intent[r.key]
    BY <1>1 DEF OnceInv
  <1> QED
    BY <1>2, <1>5, <1>6, <1>7 DEF OnceInv

---------------------------------------------------------------------------
(* The steps around the handlers.                                          *)
Around ==
    /\ UNCHANGED db
    /\ hist.raced \subseteq hist'.raced /\ hist'.invited = hist.invited
    /\ hist'.topQuota = hist.topQuota /\ hist'.asked = hist.asked
    /\ hist'.wanted = hist.wanted
    /\ \A t \in Slots : call'[t].at = "write" => call'[t] = call[t]
    /\ "settings" \notin hist'.raced => \A t \in Slots : Applying(t) => call'[t] = call[t]
    /\ Typed' /\ OnceInv'

LEMMA TypedFrom ==
    ASSUME TypeOK, CallsRight', HistRow(hist'), UNCHANGED <<db, menu>>,
           \A r \in records' : r.key \in Keys /\ r.op \in menu /\ r.live \in BOOLEAN
    PROVE  Typed'
  <1>1. \A s \in Slots : call'[s] # Idle => call'[s].op \in menu'
    BY DEF CallsRight, CallRight
  <1> QED
    BY <1>1 DEF Typed, TypeOK, References

LEMMA ArriveAround ==
    ASSUME Typed, OnceInv, NEW s \in Slots, Arrive(s)
    PROVE  Around
  <1>1. CallsRight /\ HistRow(hist) /\ TypeOK /\ call[s].at = "idle" /\ call[s] = Idle
        /\ UNCHANGED <<db, records, menu>> /\ call[s].key = None
    BY CallRows DEF Typed, Arrive
  <1>2. ASSUME NEW op \in menu, NEW k \in Keys, hist.intent[k] \in {None, Path(op)},
               call' = [call EXCEPT ![s] =
                     [at |-> "lookup", op |-> op, key |-> k, seen |-> None]],
               hist' = [hist EXCEPT
                     !.intent[k] = Path(op),
                     !.raced = @ \cup {k : t \in {t \in Slots : call[t].key = k}}]
        PROVE  Around
    <2>1. /\ Others(s) /\ call'[s] = [at |-> "lookup", op |-> op, key |-> k, seen |-> None]
      BY <1>1, <1>2 DEF CallsRight, Others
    <2>2. /\ hist'.intent = [hist.intent EXCEPT ![k] = Path(op)] /\ hist'.ran = hist.ran
          /\ hist'.raced = hist.raced \cup {k : t \in {t \in Slots : call[t].key = k}}
          /\ hist'.topQuota = hist.topQuota /\ hist'.asked = hist.asked
          /\ hist'.wanted = hist.wanted /\ hist'.invited = hist.invited
          /\ hist' = [ran |-> hist'.ran, intent |-> hist'.intent, raced |-> hist'.raced,
               invited |-> hist'.invited, topQuota |-> hist'.topQuota,
               asked |-> hist'.asked, wanted |-> hist'.wanted]
      BY <1>1, <1>2 DEF HistRow
    <2>3. HistRow(hist')
      <3>1. hist'.intent = [j \in Keys |-> hist'.intent[j]]
        BY <1>1, <2>2 DEF HistRow
      <3> QED
        BY <1>1, <2>2, <3>1 DEF HistRow
    <2>4. CallsRight'
      <3>1. CallRight(s)'
        BY <1>1, <2>1 DEF CallRight
      <3> QED
        BY <1>1, <2>1, <3>1, OneMoves
    <2>5. Typed'
      BY <1>1, <2>3, <2>4, TypedFrom DEF TypeOK
    <2>6. /\ \A r \in records : r.key = k => hist.intent[k] = Path(op)
          /\ \A t \in Slots : call[t].key = k => hist.intent[k] = Path(op)
      <3>1. \A r \in records : Path(r.op) # None
        BY <1>1, CallRows DEF TypeOK, WellFormed
      <3>2. \A t \in Slots : call[t].key \in Keys => Path(call[t].op) # None
        BY <1>1, CallRows DEF WellFormed
      <3> QED
        BY <1>2, <3>1, <3>2 DEF OnceInv
    <2>7. OnceInv'
      <3>1. \A r \in records' : Path(r.op) = hist'.intent[r.key]
        BY <1>1, <2>2, <2>6 DEF OnceInv, HistRow, TypeOK
      <3>2. \A t \in Slots : call'[t].key \in Keys => Path(call'[t].op) = hist'.intent[call'[t].key]
        BY <1>1, <2>1, <2>2, <2>6 DEF OnceInv, HistRow, Others
      <3>3. ASSUME NEW j \in Keys, j \notin hist'.raced PROVE Undisturbed(j)'
        <4>1. Undisturbed(j)
          BY <2>2, <3>3 DEF OnceInv
        <4>2. CASE j = k
          <5>1. \A t \in Slots : call[t].key # k
            BY <2>2, <3>3, <4>2
          <5>2. \A t \in Slots : call'[t].key = k => t = s
            BY <2>1, <5>1 DEF Others
          <5> QED
            BY <1>1, <2>1, <2>2, <4>1, <4>2, <5>1, <5>2 DEF Undisturbed, Working
        <4>3. CASE j # k
          <5>1. \A t \in Slots : /\ call'[t].key = j => call'[t] = call[t]
                                 /\ call[t].key = j => call'[t] = call[t]
            BY <1>1, <2>1, <3>3, <4>3 DEF Others
          <5> QED
            BY <1>1, <2>2, <4>1, <5>1 DEF Undisturbed
        <4> QED
          BY <4>2, <4>3
      <3> QED
        BY <3>1, <3>2, <3>3 DEF OnceInv
    <2> QED
      BY <1>1, <2>1, <2>2, <2>5, <2>7 DEF Around, Others, Applying, At
  <1>3. ASSUME NEW op \in menu,
               call' = [call EXCEPT ![s] =
                     [at |-> "read", op |-> op, key |-> None, seen |-> None]],
               UNCHANGED hist
        PROVE  Around
    <2>1. /\ Others(s) /\ call'[s] = [at |-> "read", op |-> op, key |-> None, seen |-> None]
      BY <1>1, <1>3 DEF CallsRight, Others
    <2>2. CallsRight'
      <3>1. CallRight(s)'
        BY <1>1, <2>1 DEF CallRight, Working
      <3> QED
        BY <1>1, <2>1, <3>1, OneMoves
    <2>3. Typed'
      BY <1>1, <1>3, <2>2, TypedFrom DEF TypeOK
    <2>4. OnceInv'
      <3>1. \A t \in Slots : /\ call'[t].key \in Keys => call'[t] = call[t]
                             /\ call[t].key \in Keys => call'[t] = call[t]
        BY <1>1, <2>1 DEF Others
      <3>2. ASSUME NEW j \in Keys, j \notin hist'.raced PROVE Undisturbed(j)'
        BY <1>1, <1>3, <3>1, <3>2 DEF OnceInv, Undisturbed
      <3> QED
        BY <1>1, <1>3, <3>1, <3>2 DEF OnceInv
    <2> QED
      BY <1>1, <1>3, <2>1, <2>3, <2>4 DEF Around, Others, Applying, At
  <1> QED
    BY <1>2, <1>3 DEF Arrive

LEMMA LookupAround ==
    ASSUME Typed, OnceInv, NEW s \in Slots, AnswerFromRecord(s) \/ Forward(s) \/ Record(s)
    PROVE  Around
  <1>1. CallsRight /\ HistRow(hist) /\ TypeOK /\ call[s].at \in {"lookup", "record"}
        /\ UNCHANGED <<db, menu, hist>> /\ call[s].key \in Keys /\ call[s].op \in menu
        /\ Path(call[s].op) = hist.intent[call[s].key]
    BY CallRows DEF Typed, CallsRight, CallRight, AnswerFromRecord, Forward, Record, Refuses,
                    OnceInv
  <1>2. /\ Others(s) /\ CallsRight' /\ call'[s].at \in {"idle", "read"}
        /\ call'[s].key \in Keys => call'[s].key = call[s].key /\ call'[s].op = call[s].op
    <2>1. CASE AnswerFromRecord(s) \/ Record(s)
      <3>1. Ended(s)
        BY <1>1, <2>1, Moves DEF AnswerFromRecord, Record, Refuses
      <3> QED
        BY <1>1, <3>1, EndedRight DEF Ended, Idle
    <2>2. CASE Forward(s)
      <3>1. Moved(s, "read", call[s].seen)
        BY <1>1, <2>2, Moves DEF Forward, Goes
      <3> QED
        BY <1>1, <2>2, <3>1, MovedRight DEF Moved, Working, Forward, CallsRight, CallRight
    <2> QED
      BY <2>1, <2>2
  <1>3. \A r \in records' :
          /\ r \in records \/ (r.key = call[s].key /\ r.op = call[s].op /\ r.live)
          /\ r.key \in Keys /\ r.op \in menu /\ r.live \in BOOLEAN
    <2>1. \A r \in records : r.key \in Keys /\ r.op \in menu /\ r.live \in BOOLEAN
      BY <1>1 DEF TypeOK
    <2>2. CASE UNCHANGED records
      BY <2>1, <2>2
    <2>3. CASE records' = records \cup {[key |-> call[s].key, op |-> call[s].op, live |-> TRUE]}
      <3>1. PICK row : row = [key |-> call[s].key, op |-> call[s].op, live |-> TRUE]
        OBVIOUS
      <3>2. row.key = call[s].key /\ row.op = call[s].op /\ row.live = TRUE
        BY <3>1
      <3> QED
        BY <1>1, <2>1, <2>3, <3>1, <3>2
    <2> QED
      BY <2>2, <2>3 DEF AnswerFromRecord, Forward, Record, Refuses
  <1>4. Typed'
    BY <1>1, <1>2, <1>3, TypedFrom
  <1>5. \A r \in records' : Path(r.op) = hist'.intent[r.key]
    BY <1>1, <1>3 DEF OnceInv
  <1>6. \A t \in Slots : call'[t].key \in Keys => Path(call'[t].op) = hist'.intent[call'[t].key]
    BY <1>1, <1>2 DEF OnceInv, Others
  <1>7. ASSUME NEW k \in Keys, k \notin hist'.raced PROVE Undisturbed(k)'
    <2>1. Undisturbed(k) /\ hist.ran[k] \in Nat
      BY <1>1, <1>7 DEF OnceInv, HistRow
    <2>2. \A t \in Slots : call'[t].key = k => call[t].key = k
      BY <1>1, <1>2, <1>7 DEF Others
    <2>3. CASE call[s].key # k
      <3>1. \A t \in Slots : call'[t].key = k \/ call[t].key = k => call'[t] = call[t]
        BY <1>1, <1>2, <1>7, <2>3 DEF Others
      <3>2. \A r : r.key = k => (r \in records <=> r \in records')
        BY <1>1, <2>3 DEF AnswerFromRecord, Forward, Record, Refuses
      <3> QED
        BY <1>1, <2>1, <3>1, <3>2 DEF Undisturbed
    <2>4. CASE call[s].key = k
      <3>1. \A t \in Slots \ {s} : call[t].key # k /\ call'[t].key # k
        BY <1>2, <2>1, <2>4 DEF Undisturbed, Others
      <3>2. \A r \in records : r.key = k => r \in RecordsFor(s) /\ r.live
        BY <1>1, <2>1, <2>4 DEF Undisturbed, OnceInv, RecordsFor
      <3>3. \A r \in records' : r.key = k => r.live
        BY <1>3, <2>1 DEF Undisturbed
      <3>4. CASE AnswerFromRecord(s)
        <4>1. call'[s] = Idle /\ UNCHANGED records
          BY <1>1, <3>4 DEF AnswerFromRecord, Refuses, CallsRight
        <4>2. \A t \in Slots : call'[t].key # k
          BY <1>1, <1>7, <3>1, <4>1 DEF Idle
        <4>3. hist.ran[k] = 1 => \E r \in records : r.key = k
          BY <2>1, <2>4, <3>1, <3>4 DEF Undisturbed, AnswerFromRecord
        <4> QED
          BY <1>1, <2>1, <3>3, <4>1, <4>2, <4>3 DEF Undisturbed
      <3>5. CASE Forward(s)
        <4>1. \A r \in records : r.key # k
          BY <3>2, <3>5 DEF Forward, LiveRecordsFor
        <4>2. hist.ran[k] = 0 /\ UNCHANGED records
          BY <1>1, <2>1, <2>4, <3>1, <3>5, <4>1 DEF Undisturbed, Forward
        <4> QED
          BY <1>1, <2>1, <2>2, <3>3, <4>2 DEF Undisturbed
      <3>6. CASE Record(s)
        <4>1. call'[s] = Idle
          BY <1>1, <3>6 DEF Record, CallsRight
        <4>2. \A t \in Slots : call'[t].key # k
          BY <1>1, <1>7, <3>1, <4>1 DEF Idle
        <4>3. \E r \in records' : r.key = k
          <5>1. CASE RecordsFor(s) = {}
            <6>1. [key |-> call[s].key, op |-> call[s].op, live |-> TRUE] \in records'
              BY <3>6, <5>1 DEF Record
            <6> QED
              BY <2>4, <6>1
          <5>2. CASE RecordsFor(s) # {}
            BY <2>4, <3>6, <5>2 DEF Record, RecordsFor
          <5> QED
            BY <5>1, <5>2
        <4> QED
          BY <1>1, <2>1, <3>3, <4>2, <4>3 DEF Undisturbed
      <3> QED
        BY <3>4, <3>5, <3>6
    <2> QED
      BY <2>3, <2>4
  <1>8. \A t \in Slots : /\ call'[t].at = "write" => call'[t] = call[t]
                         /\ Applying(t) => call'[t] = call[t]
    BY <1>1, <1>2 DEF Others, Applying, At
  <1> QED
    BY <1>1, <1>4, <1>5, <1>6, <1>7, <1>8 DEF Around, OnceInv

LEMMA ExpireAround ==
    ASSUME Typed, OnceInv, Expire \/ Cleanup
    PROVE  Around
  <1>1. CallsRight /\ HistRow(hist) /\ TypeOK /\ UNCHANGED <<db, menu, call>>
    BY DEF Typed, Expire, Cleanup
  <1>2. /\ HistRow(hist') /\ hist.raced \subseteq hist'.raced
        /\ hist'.intent = hist.intent /\ hist'.ran = hist.ran
        /\ hist'.topQuota = hist.topQuota /\ hist'.asked = hist.asked
        /\ hist'.wanted = hist.wanted /\ hist'.invited = hist.invited
    BY <1>1 DEF Expire, Cleanup, HistRow
  <1>3. \A r \in records' : r.key \in Keys /\ r.op \in menu /\ r.live \in BOOLEAN
                            /\ \E o \in records : o.key = r.key /\ o.op = r.op
    <2>1. \A r \in records : r.key \in Keys /\ r.op \in menu /\ r.live \in BOOLEAN
      BY <1>1 DEF TypeOK
    <2>2. ASSUME NEW o \in records, records' = (records \ {o}) \cup {[o EXCEPT !.live = FALSE]}
          PROVE  \A r \in records' : r.key \in Keys /\ r.op \in menu /\ r.live \in BOOLEAN
                            /\ \E p \in records : p.key = r.key /\ p.op = r.op
      <3>1. [o EXCEPT !.live = FALSE].key = o.key /\ [o EXCEPT !.live = FALSE].op = o.op
        OBVIOUS
      <3>2. o.live \in BOOLEAN
        BY <2>1
      <3>3. [o EXCEPT !.live = FALSE].live \in BOOLEAN
        OBVIOUS
      <3> QED
        BY <2>1, <2>2, <3>1, <3>3
    <2> QED
      BY <2>1, <2>2 DEF Expire, Cleanup
  <1>4. Typed'
    <2>1. CallsRight'
      BY <1>1 DEF CallsRight, CallRight
    <2> QED
      BY <1>1, <1>2, <1>3, <2>1, TypedFrom
  <1>5. ASSUME NEW k \in Keys, k \notin hist'.raced PROVE Undisturbed(k)'
    <2>1. Undisturbed(k)
      BY <1>2, <1>5 DEF OnceInv
    <2>2. \A r : r.key = k => (r \in records' <=> r \in records)
      <3>1. CASE Cleanup
        BY <2>1, <3>1 DEF Cleanup, Undisturbed
      <3>2. ASSUME NEW o \in records, records' = (records \ {o}) \cup {[o EXCEPT !.live = FALSE]},
                   hist' = [hist EXCEPT !.raced = @ \cup {o.key}]
            PROVE  \A r : r.key = k => (r \in records' <=> r \in records)
        <4>1. o.key # k /\ [o EXCEPT !.live = FALSE].key = o.key
          BY <1>1, <1>5, <3>2 DEF HistRow
        <4> QED
          BY <3>2, <4>1
      <3> QED
        BY <3>1, <3>2 DEF Expire
    <2> QED
      BY <1>1, <1>2, <2>1, <2>2 DEF Undisturbed
  <1>6. OnceInv'
    BY <1>1, <1>2, <1>3, <1>5 DEF OnceInv
  <1> QED
    BY <1>1, <1>2, <1>4, <1>6 DEF Around

LEMMA CrashAround ==
    ASSUME Typed, OnceInv, NEW s \in Slots, Crash(s)
    PROVE  Around
  <1>1. CallsRight /\ HistRow(hist) /\ TypeOK /\ UNCHANGED <<db, menu, records>>
        /\ call[s].at \in Working \cup {"record"} /\ Ended(s)
    BY Moves DEF Typed, Crash, CallsRight, CallRight
  <1>2. /\ HistRow(hist') /\ hist.raced \subseteq hist'.raced
        /\ hist'.intent = hist.intent /\ hist'.ran = hist.ran
        /\ hist'.topQuota = hist.topQuota /\ hist'.asked = hist.asked
        /\ hist'.wanted = hist.wanted /\ hist'.invited = hist.invited
        /\ call[s].at = "record" => call[s].key \in hist'.raced
        /\ Applying(s) => "settings" \in hist'.raced
    BY <1>1 DEF Crash, HistRow, Applying
  <1>3. Typed'
    BY <1>1, <1>2, EndedRight, TypedFrom DEF TypeOK
  <1>4. /\ \A t \in Slots : call'[t].key \in Keys => call'[t] = call[t] /\ t # s
        /\ \A t \in Slots \ {s} : call'[t] = call[t]
        /\ call'[s].key \notin Keys /\ call'[s].at = "idle"
    BY <1>1 DEF Ended, Others, Idle
  <1>5. ASSUME NEW k \in Keys, k \notin hist'.raced PROVE Undisturbed(k)'
    <2>1. Undisturbed(k) /\ hist.ran[k] \in Nat
      BY <1>1, <1>2, <1>5 DEF OnceInv, HistRow
    <2>2. hist.ran[k] = 1 => \/ \E t \in Slots \ {s} : call[t].key = k /\ call[t].at = "record"
                             \/ \E r \in records : r.key = k
      BY <1>2, <1>5, <2>1 DEF Undisturbed
    <2> QED
      BY <1>1, <1>2, <1>4, <2>1, <2>2 DEF Undisturbed
  <1>6. OnceInv'
    BY <1>1, <1>2, <1>4, <1>5 DEF OnceInv
  <1>7. \A t \in Slots : /\ call'[t].at = "write" => call'[t] = call[t]
                         /\ Applying(t) /\ "settings" \notin hist'.raced => call'[t] = call[t]
    BY <1>2, <1>4
  <1> QED
    BY <1>1, <1>2, <1>3, <1>6, <1>7 DEF Around

---------------------------------------------------------------------------
(* What leaves the limits and what is stored alone.                        *)
LimitsInv == QuotaInv /\ RemovalInv /\ InviteInv /\ SecretInv /\ SettingsInv

QuotaKept ==
    /\ db'.mailbox = db.mailbox /\ db'.settings = db.settings
    /\ hist'.topQuota = hist.topQuota
    /\ \A t \in Slots : At(t, "CreateMailbox", "write")' => call'[t] = call[t]

RemovalKept ==
    /\ \A m \in Mailboxes : db.mailbox[m].status # "absent" => db'.mailbox[m].status # "absent"
    /\ \A t \in Slots : At(t, "RemoveMailbox", "write")' => call'[t] = call[t]

InviteKept ==
    /\ db'.used = db.used /\ hist'.invited = hist.invited
    /\ \A u \in Users : db.user[u] # "absent" => db'.user[u] # "absent"
    /\ \A t \in Slots : At(t, "Register", "write")' => call'[t] = call[t]

SecretKept ==
    /\ db'.secret = db.secret /\ hist'.asked = hist.asked
    /\ \A c \in Connections : db.conn[c] # "absent" => db'.conn[c] # "absent"
    /\ \A t \in Slots : At(t, "UpdateConnection", "write")' => call'[t] = call[t]

SettingsKept ==
    /\ db'.settings = db.settings /\ hist'.wanted = hist.wanted
    /\ \A t \in Slots : Applying(t)' => call'[t] = call[t]
    /\ "settings" \notin hist'.raced => \A t \in Slots : Applying(t) => call'[t] = call[t]

LEMMA Frames ==
    ASSUME LimitsInv, CallsRight, hist.raced \subseteq hist'.raced
    PROVE  /\ QuotaKept => QuotaInv'
           /\ RemovalKept => RemovalInv'
           /\ InviteKept => InviteInv'
           /\ SecretKept => SecretInv'
           /\ SettingsKept => SettingsInv'
  <1>1. ASSUME QuotaKept PROVE QuotaInv'
    <2>1. \A u : Owned(u)' = Owned(u)
      BY <1>1 DEF QuotaKept, Owned, Exists
    <2> QED
      BY <1>1, <2>1 DEF LimitsInv, QuotaInv, QuotaKept, At
  <1>2. ASSUME InviteKept PROVE InviteInv'
    BY <1>2 DEF LimitsInv, InviteInv, InviteKept, At
  <1>3. ASSUME SecretKept PROVE SecretInv'
    <2>1. \A t \in Slots : At(t, "UpdateConnection", "write") => call[t].op.conn \in Connections
      BY CallRows DEF At, WellFormed
    <2> QED
      BY <1>3, <2>1 DEF LimitsInv, SecretInv, SecretKept, At
  <1>4. ASSUME SettingsKept PROVE SettingsInv'
    BY <1>4 DEF LimitsInv, SettingsInv, SettingsKept, Applying, At
  <1>5. ASSUME RemovalKept PROVE RemovalInv'
    <2>1. \A t \in Slots : At(t, "RemoveMailbox", "write") => call[t].op.mailbox \in Mailboxes
      BY CallRows DEF At, WellFormed
    <2> QED
      BY <1>5, <2>1 DEF LimitsInv, RemovalInv, RemovalKept, At
  <1> QED
    BY <1>1, <1>2, <1>3, <1>4, <1>5

LEMMA AroundKeeps ==
    ASSUME Around
    PROVE  QuotaKept /\ RemovalKept /\ InviteKept /\ SecretKept /\ SettingsKept
  BY DEF Around, RemovalKept, QuotaKept, InviteKept, SecretKept, SettingsKept, At, Applying

\* A handler step of the kind `kind' leaves the calls of the others alone.
LEMMA OtherCalls ==
    ASSUME NEW s \in Slots, NEW h, Handled(s, h)
    PROVE  /\ \A t \in Slots : \A kind : t # s => (At(t, kind, "write")' <=> At(t, kind, "write"))
           /\ \A t \in Slots : \A kind : At(t, kind, "write")' =>
                call'[t] = call[t] \/ (t = s /\ call[s].op.kind = kind)
           /\ \A t \in Slots : \A kind : kind # call[s].op.kind /\ At(t, kind, "write") =>
                call'[t] = call[t]
  <1>1. Others(s) /\ (call'[s].at = "write" => call'[s].op = call[s].op)
    <2>1. CASE Ended(s)
      BY <2>1 DEF Ended, Idle
    <2>2. ASSUME NEW place, NEW v, Moved(s, place, v)
          PROVE  Others(s) /\ (call'[s].at = "write" => call'[s].op = call[s].op)
      BY <2>2 DEF Moved
    <2> QED
      BY <2>1, <2>2 DEF Handled
  <1> QED
    BY <1>1 DEF Others, At

\* A step that neither reads for, nor writes, any of this.
Plain(s) ==
    /\ Handled(s, hist)
    /\ call[s].op.kind \notin {"CreateMailbox", "RemoveMailbox", "Register", "UpdateConnection",
                              "UpdateSettings"}
    /\ db' \in Tables /\ References(db')
    /\ db'.mailbox = db.mailbox /\ db'.settings = db.settings
    /\ db'.secret = db.secret /\ db'.used = db.used
    /\ \A u \in Users : db.user[u] # "absent" => db'.user[u] # "absent"
    /\ \A c \in Connections : db.conn[c] # "absent" => db'.conn[c] # "absent"

LEMMA PlainSafe ==
    ASSUME LimitsInv, Typed, NEW s \in Slots, Plain(s)
    PROVE  LimitsInv'
  <1>1. /\ QuotaKept /\ RemovalKept /\ InviteKept /\ SecretKept /\ SettingsKept
        /\ hist.raced \subseteq hist'.raced
    BY OtherCalls DEF Plain, Handled, RemovalKept, QuotaKept, InviteKept, SecretKept, SettingsKept, Applying
  <1> QED
    BY <1>1, Frames DEF LimitsInv, Typed

\* Typed, from what the handler does to the tables.
LEMMA HandledTyped ==
    ASSUME Typed, OnceInv, NEW s \in Slots, NEW h, Handled(s, h), db' \in Tables, References(db')
    PROVE  Typed' /\ OnceInv'
  <1>1. CallsRight' /\ OnceInv' /\ HistRow(hist') /\ UNCHANGED <<records, menu>> /\ TypeOK
    BY HandledRight DEF Handled, Typed
  <1>2. \A t \in Slots : call'[t] # Idle => call'[t].op \in menu'
    BY <1>1 DEF CallsRight, CallRight
  <1>3. TypeOK'
    BY <1>1, <1>2 DEF TypeOK, References
  <1> QED
    BY <1>1, <1>3 DEF Typed

---------------------------------------------------------------------------
(* The plain steps.                                                        *)
Safe == Typed /\ OnceInv /\ LimitsInv

(* Tables are replaced; the others stay.                                   *)
LEMMA PutUsers ==
    ASSUME db \in Tables, NEW x \in [Users -> {"absent", "active", "suspended", "deleted"}],
           NEW y \in [Users -> SUBSET Roles],
           db' = [db EXCEPT !.user = x, !.assigned = y]
    PROVE  /\ db' \in Tables /\ db'.user = x /\ db'.assigned = y
           /\ db'.role = db.role /\ db'.domain = db.domain /\ db'.mailbox = db.mailbox
           /\ db'.member = db.member /\ db'.conn = db.conn /\ db'.secret = db.secret
           /\ db'.settings = db.settings /\ db'.used = db.used
  BY DEF Tables, Pairs

LEMMA PutRoles ==
    ASSUME db \in Tables, NEW x \in SUBSET Roles,
           NEW y \in [Users -> SUBSET Roles],
           db' = [db EXCEPT !.role = x, !.assigned = y]
    PROVE  /\ db' \in Tables /\ db'.role = x /\ db'.assigned = y
           /\ db'.user = db.user /\ db'.domain = db.domain /\ db'.mailbox = db.mailbox
           /\ db'.member = db.member /\ db'.conn = db.conn /\ db'.secret = db.secret
           /\ db'.settings = db.settings /\ db'.used = db.used
  BY DEF Tables, Pairs

LEMMA PutRegistered ==
    ASSUME db \in Tables, NEW x \in [Users -> {"absent", "active", "suspended", "deleted"}],
           NEW y \in 0..MaxUses,
           db' = [db EXCEPT !.user = x, !.used = y]
    PROVE  /\ db' \in Tables /\ db'.user = x /\ db'.used = y
           /\ db'.role = db.role /\ db'.assigned = db.assigned /\ db'.domain = db.domain
           /\ db'.mailbox = db.mailbox /\ db'.member = db.member /\ db'.conn = db.conn
           /\ db'.secret = db.secret /\ db'.settings = db.settings
  BY DEF Tables, Pairs

LEMMA PutMembers ==
    ASSUME db \in Tables, NEW x \in [Mailboxes -> [Users -> MemberRoles \cup {None}]],
           db' = [db EXCEPT !.member = x]
    PROVE  /\ db' \in Tables /\ db'.member = x
           /\ db'.user = db.user /\ db'.role = db.role /\ db'.assigned = db.assigned
           /\ db'.domain = db.domain /\ db'.mailbox = db.mailbox /\ db'.conn = db.conn
           /\ db'.secret = db.secret /\ db'.settings = db.settings /\ db'.used = db.used
  BY DEF Tables, Pairs

LEMMA PutDomains ==
    ASSUME db \in Tables, NEW x \in [Domains -> [status : {"absent", "active", "disabled"},
                                   conn   : Connections \cup {None}]],
           db' = [db EXCEPT !.domain = x]
    PROVE  /\ db' \in Tables /\ db'.domain = x
           /\ db'.user = db.user /\ db'.role = db.role /\ db'.assigned = db.assigned
           /\ db'.mailbox = db.mailbox /\ db'.member = db.member /\ db'.conn = db.conn
           /\ db'.secret = db.secret /\ db'.settings = db.settings /\ db'.used = db.used
  BY DEF Tables, Pairs

LEMMA PutMailboxes ==
    ASSUME db \in Tables, NEW x \in [Mailboxes -> [status : {"absent", "active", "deleted"},
                                     owner  : Users \cup {None}]],
           db' = [db EXCEPT !.mailbox = x]
    PROVE  /\ db' \in Tables /\ db'.mailbox = x
           /\ db'.user = db.user /\ db'.role = db.role /\ db'.assigned = db.assigned
           /\ db'.domain = db.domain /\ db'.member = db.member /\ db'.conn = db.conn
           /\ db'.secret = db.secret /\ db'.settings = db.settings /\ db'.used = db.used
  BY DEF Tables, Pairs

LEMMA PutConnections ==
    ASSUME db \in Tables, NEW x \in [Connections -> {"absent", "active", "disabled"}],
           NEW y \in [Connections -> Pairs],
           db' = [db EXCEPT !.conn = x, !.secret = y]
    PROVE  /\ db' \in Tables /\ db'.conn = x /\ db'.secret = y
           /\ db'.user = db.user /\ db'.role = db.role /\ db'.assigned = db.assigned
           /\ db'.domain = db.domain /\ db'.mailbox = db.mailbox /\ db'.member = db.member
           /\ db'.settings = db.settings /\ db'.used = db.used
  BY DEF Tables, Pairs

LEMMA PutSettings ==
    ASSUME db \in Tables, NEW x \in Settings,
           db' = [db EXCEPT !.settings = x]
    PROVE  /\ db' \in Tables /\ db'.settings = x
           /\ db'.user = db.user /\ db'.role = db.role /\ db'.assigned = db.assigned
           /\ db'.domain = db.domain /\ db'.mailbox = db.mailbox /\ db'.member = db.member
           /\ db'.conn = db.conn /\ db'.secret = db.secret /\ db'.used = db.used
  BY DEF Tables, Pairs

\* The kinds of calls a step checks or writes for, in this lemma.
PlainKinds == {"UpsertMember", "RemoveMember", "AddAccess", "UpdateAccess", "RemoveAccess",
               "CreateUser", "UpdateUser", "DeleteUser", "CreateRole",
               "DeleteRole", "UpdateDomain", "DeleteDomain", "CreateConnection"}

LEMMA UnchangedPlain ==
    ASSUME Safe, NEW s \in Slots, Goeson(s), call[s].op.kind \in PlainKinds
    PROVE  Plain(s)
  <1>1. db' = db /\ db \in Tables /\ References(db)
    BY DEF Goeson, Safe, Typed, TypeOK
  <1> QED
    BY <1>1 DEF Goeson, Plain, PlainKinds, References

LEMMA ChecksPlain ==
    ASSUME Safe, NEW s \in Slots,
           \/ CheckUpsertMember(s) \/ CheckRemoveMember(s) \/ CheckAccess(s)
           \/ CheckUpdateDomain(s) \/ CheckDeleteDomain(s)
           \/ CheckCreateConnection(s)
    PROVE  Plain(s)
  <1>1. /\ call[s].at \in Working /\ call[s].op.kind \in PlainKinds
        /\ \E holds : Checks(s, holds)
    BY DEF CheckUpsertMember, CheckRemoveMember, CheckAccess,
           CheckUpdateDomain, CheckDeleteDomain, CheckCreateConnection, At, Working, PlainKinds
  <1> QED
    BY <1>1, GoesOn, UnchangedPlain DEF Safe

LEMMA MembersPlain ==
    ASSUME Safe, NEW s \in Slots, RemoveMember(s) \/ PutMember(s) \/ ChangeAccess(s)
    PROVE  Plain(s)
  <1>1. /\ call[s].at \in Working /\ call[s].op.kind \in PlainKinds /\ call[s].at # "idle"
        /\ call[s].op.kind \in {"RemoveMember", "UpsertMember", "AddAccess", "UpdateAccess",
                                "RemoveAccess"}
    BY DEF RemoveMember, PutMember, ChangeAccess, At, Working, PlainKinds
  <1>2. /\ Typed /\ db \in Tables /\ References(db) /\ HistRow(hist) /\ WellFormed(call[s].op)
    BY <1>1, CallRows DEF Safe, Typed, TypeOK
  <1>3. CASE Refuses(s)
    BY <1>1, <1>2, <1>3, GoesOn, UnchangedPlain
  <1>4. ASSUME NEW v \in MemberRoles \cup {None},
               db' = [db EXCEPT !.member[call[s].op.mailbox][call[s].op.user] = v],
               Succeeds(s, hist)
        PROVE  Plain(s)
    <2>1. call[s].op.mailbox \in Mailboxes /\ call[s].op.user \in Users
      BY <1>1, <1>2 DEF WellFormed
    <2>2. PICK x \in [Mailboxes -> [Users -> MemberRoles \cup {None}]] :
            db' = [db EXCEPT !.member = x]
      BY <1>2, <1>4, <2>1 DEF Tables
    <2>3. /\ db' \in Tables
          /\ db'.mailbox = db.mailbox /\ db'.settings = db.settings /\ db'.domain = db.domain
          /\ db'.secret = db.secret /\ db'.used = db.used /\ db'.user = db.user
          /\ db'.conn = db.conn /\ db'.role = db.role /\ db'.assigned = db.assigned
      BY <1>2, <2>2, PutMembers
    <2>5. Handled(s, hist)
      BY <1>1, <1>2, <1>4, Finishes
    <2> QED
      BY <1>1, <1>2, <2>3, <2>5 DEF Plain, References, PlainKinds
  <1>5. CASE RemoveMember(s)
    BY <1>4, <1>5 DEF RemoveMember
  <1>6. CASE PutMember(s)
    <2>1. call[s].op.role \in MemberRoles
      BY <1>2, <1>6 DEF WellFormed, PutMember
    <2> QED
      BY <1>3, <1>4, <1>6, <2>1 DEF PutMember
  <1>7. CASE ChangeAccess(s)
    <2>1. call[s].op.kind = "UpdateAccess" => call[s].op.role \in MemberRoles
      BY <1>2 DEF WellFormed
    <2> QED
      BY <1>3, <1>4, <1>7, <2>1 DEF ChangeAccess
  <1> QED
    BY <1>5, <1>6, <1>7

LEMMA UsersPlain ==
    ASSUME Safe, NEW s \in Slots, CreateUser(s) \/ UpdateUser(s) \/ DeleteUser(s)
    PROVE  Plain(s)
  <1>1. /\ call[s].at \in Working /\ call[s].op.kind \in PlainKinds /\ call[s].at # "idle"
        /\ call[s].op.kind \in {"CreateUser", "UpdateUser", "DeleteUser"}
    BY DEF CreateUser, UpdateUser, DeleteUser, At, Working, PlainKinds
  <1>2. /\ Typed /\ db \in Tables /\ References(db) /\ HistRow(hist) /\ WellFormed(call[s].op)
    BY <1>1, CallRows DEF Safe, Typed, TypeOK
  <1>3. CASE Refuses(s)
    BY <1>1, <1>2, <1>3, GoesOn, UnchangedPlain
  <1>4. call[s].op.user \in Users /\ db.user \in [Users -> {"absent", "active", "suspended", "deleted"}]
        /\ db.assigned \in [Users -> SUBSET Roles] /\ db.role \subseteq Roles
    BY <1>1, <1>2 DEF WellFormed, Tables
  <1>5. ASSUME NEW v \in {"absent", "active", "suspended", "deleted"}, NEW w \in SUBSET db.role,
               db.user[call[s].op.user] # "absent" => v # "absent",
               db' = [db EXCEPT !.user[call[s].op.user] = v, !.assigned[call[s].op.user] = w],
               Succeeds(s, hist)
        PROVE  Plain(s)
    <2>a. PICK x \in [Users -> {"absent", "active", "suspended", "deleted"}] :
            x = [db.user EXCEPT ![call[s].op.user] = v]
      BY <1>4, <1>5
    <2>b. PICK y \in [Users -> SUBSET Roles] : y = [db.assigned EXCEPT ![call[s].op.user] = w]
      BY <1>4, <1>5
    <2>1. /\ x = [db.user EXCEPT ![call[s].op.user] = v]
          /\ y = [db.assigned EXCEPT ![call[s].op.user] = w]
          /\ db' = [db EXCEPT !.user = x, !.assigned = y]
      BY <1>5, <2>a, <2>b
    <2>3. /\ db' \in Tables
          /\ db'.mailbox = db.mailbox /\ db'.settings = db.settings /\ db'.domain = db.domain
          /\ db'.secret = db.secret /\ db'.used = db.used /\ db'.user = x
          /\ db'.conn = db.conn /\ db'.role = db.role /\ db'.assigned = y
      BY <1>2, <2>1, PutUsers
    <2>4. Handled(s, hist)
      BY <1>1, <1>2, <1>5, Finishes
    <2>5. References(db')
      BY <1>2, <1>4, <2>1, <2>3 DEF References
    <2>6. \A u \in Users : db.user[u] # "absent" => db'.user[u] # "absent"
      BY <1>4, <1>5, <2>1, <2>3
    <2> QED
      BY <1>1, <2>3, <2>4, <2>5, <2>6 DEF Plain
  <1>6. /\ db.assigned[call[s].op.user] \in SUBSET db.role
        /\ [db.assigned EXCEPT ![call[s].op.user] = db.assigned[call[s].op.user]] = db.assigned
        /\ db = [db EXCEPT !.assigned = db.assigned]
    BY <1>2, <1>4 DEF References, Tables
  <1>7. CASE CreateUser(s)
    BY <1>3, <1>5, <1>7 DEF CreateUser
  <1>8. CASE UpdateUser(s)
    <2> DEFINE op == call[s].op
               gone == db.user[op.user] \in {"absent", "deleted"}
    <2>1. CASE Refuses(s)
      BY <1>3, <2>1
    <2>2. CASE ~Refuses(s)
      <3>1. /\ op.roles = None \/ op.roles \subseteq db.role
            /\ op.status \in {None, "active", "suspended"}
            /\ db' = [db EXCEPT
                     !.user[op.user] = IF gone \/ op.status = None THEN @ ELSE op.status,
                     !.assigned[op.user] = IF op.roles = None THEN @ ELSE op.roles]
            /\ Succeeds(s, hist)
        BY <1>2, <1>8, <2>2 DEF UpdateUser, WellFormed, At
      <3>2. PICK v : v = (IF gone \/ op.status = None THEN db.user[op.user] ELSE op.status)
        OBVIOUS
      <3>3. PICK w : w = (IF op.roles = None THEN db.assigned[op.user] ELSE op.roles)
        OBVIOUS
      <3>4. db' = [db EXCEPT !.user[op.user] = v, !.assigned[op.user] = w]
        BY <1>2, <3>1, <3>2, <3>3 DEF Tables
      <3>5. v \in {"absent", "active", "suspended", "deleted"} /\ w \in SUBSET db.role
            /\ (db.user[op.user] # "absent" => v # "absent")
        BY <1>4, <1>6, <3>1, <3>2, <3>3
      <3> QED
        BY <1>5, <3>1, <3>4, <3>5
    <2> QED
      BY <2>1, <2>2
  <1>9. CASE DeleteUser(s)
    <2>1. CASE Refuses(s)
      BY <1>3, <2>1
    <2>2. CASE ~Refuses(s)
      <3>1. /\ db' = [db EXCEPT !.user[call[s].op.user] = IF @ = "absent" THEN @ ELSE "deleted"]
            /\ Succeeds(s, hist)
        BY <1>9, <2>2 DEF DeleteUser
      <3>2. PICK v : v = (IF db.user[call[s].op.user] = "absent" THEN "absent" ELSE "deleted")
        OBVIOUS
      <3>3. db' = [db EXCEPT !.user[call[s].op.user] = v,
                             !.assigned[call[s].op.user] = db.assigned[call[s].op.user]]
        BY <1>2, <1>4, <1>6, <3>1, <3>2 DEF Tables
      <3>4. v \in {"absent", "active", "suspended", "deleted"}
            /\ (db.user[call[s].op.user] # "absent" => v # "absent")
        BY <3>2
      <3> QED
        BY <1>5, <1>6, <3>1, <3>3, <3>4
    <2> QED
      BY <2>1, <2>2
  <1> QED
    BY <1>7, <1>8, <1>9

LEMMA RolesPlain ==
    ASSUME Safe, NEW s \in Slots, CreateRole(s) \/ DeleteRole(s)
    PROVE  Plain(s)
  <1>1. /\ call[s].at \in Working /\ call[s].op.kind \in PlainKinds /\ call[s].at # "idle"
        /\ call[s].op.kind \in {"CreateRole", "DeleteRole"}
    BY DEF CreateRole, DeleteRole, At, Working, PlainKinds
  <1>2. /\ Typed /\ db \in Tables /\ References(db) /\ HistRow(hist) /\ WellFormed(call[s].op)
    BY <1>1, CallRows DEF Safe, Typed, TypeOK
  <1>3. CASE Refuses(s)
    BY <1>1, <1>2, <1>3, GoesOn, UnchangedPlain
  <1>4. call[s].op.role \in Roles /\ db.role \subseteq Roles
        /\ db.assigned \in [Users -> SUBSET Roles] /\ \A u \in Users : db.assigned[u] \subseteq db.role
    BY <1>1, <1>2 DEF WellFormed, Tables, References
  <1>5. ASSUME NEW x \in SUBSET Roles, NEW y \in [Users -> SUBSET Roles],
               \A u \in Users : y[u] \subseteq x,
               db' = [db EXCEPT !.role = x, !.assigned = y], Succeeds(s, hist)
        PROVE  Plain(s)
    <2>1. /\ db' \in Tables
          /\ db'.mailbox = db.mailbox /\ db'.settings = db.settings /\ db'.domain = db.domain
          /\ db'.secret = db.secret /\ db'.used = db.used /\ db'.user = db.user
          /\ db'.conn = db.conn /\ db'.role = x /\ db'.assigned = y
      BY <1>2, <1>5, PutRoles
    <2>2. Handled(s, hist)
      BY <1>1, <1>2, <1>5, Finishes
    <2>3. References(db')
      BY <1>2, <1>5, <2>1 DEF References
    <2> QED
      BY <1>1, <2>1, <2>2, <2>3 DEF Plain
  <1>6. CASE CreateRole(s) /\ ~Refuses(s)
    <2>1. db' = [db EXCEPT !.role = db.role \cup {call[s].op.role}] /\ Succeeds(s, hist)
      BY <1>6 DEF CreateRole
    <2>2. db' = [db EXCEPT !.role = db.role \cup {call[s].op.role}, !.assigned = db.assigned]
      BY <1>2, <2>1 DEF Tables
    <2>3. /\ db.role \cup {call[s].op.role} \in SUBSET Roles
          /\ \A u \in Users : db.assigned[u] \subseteq db.role \cup {call[s].op.role}
      BY <1>4
    <2> QED
      BY <1>4, <1>5, <2>1, <2>2, <2>3
  <1>7. CASE DeleteRole(s) /\ ~Refuses(s)
    <2> DEFINE y == [u \in Users |-> db.assigned[u] \ {call[s].op.role}]
    <2>1. db' = [db EXCEPT !.role = db.role \ {call[s].op.role}, !.assigned = y]
          /\ Succeeds(s, hist)
      BY <1>2, <1>7 DEF DeleteRole, Tables
    <2>2. /\ db.role \ {call[s].op.role} \in SUBSET Roles /\ y \in [Users -> SUBSET Roles]
          /\ \A u \in Users : y[u] \subseteq db.role \ {call[s].op.role}
      BY <1>4
    <2> QED
      BY <1>5, <2>1, <2>2
  <1> QED
    BY <1>3, <1>6, <1>7

LEMMA DomainsPlain ==
    ASSUME Safe, NEW s \in Slots, UpdateDomain(s) \/ DeleteDomain(s)
    PROVE  Plain(s)
  <1> DEFINE op == call[s].op
             Row == [status : {"absent", "active", "disabled"}, conn : Connections \cup {None}]
  <1>1. /\ call[s].at \in Working /\ op.kind \in PlainKinds /\ call[s].at # "idle"
        /\ op.kind \in {"UpdateDomain", "DeleteDomain"}
    BY DEF UpdateDomain, DeleteDomain, At, Working, PlainKinds
  <1>2. /\ Typed /\ db \in Tables /\ References(db) /\ HistRow(hist) /\ WellFormed(op)
    BY <1>1, CallRows DEF Safe, Typed, TypeOK
  <1>3. CASE Refuses(s)
    BY <1>1, <1>2, <1>3, GoesOn, UnchangedPlain
  <1>4. op.domain \in Domains /\ db.domain \in [Domains -> Row]
    BY <1>1, <1>2 DEF WellFormed, Tables
  <1>5. ASSUME NEW row \in Row,
               row.status = "absent" =>
                 \A m \in Mailboxes : DomainOf[m] = op.domain => db.mailbox[m].status = "absent",
               db' = [db EXCEPT !.domain[op.domain] = row], Succeeds(s, hist)
        PROVE  Plain(s)
    <2>1. PICK x \in [Domains -> Row] : x = [db.domain EXCEPT ![op.domain] = row]
      BY <1>4
    <2>2. db' = [db EXCEPT !.domain = x]
      BY <1>5, <2>1
    <2>3. /\ db' \in Tables
          /\ db'.mailbox = db.mailbox /\ db'.settings = db.settings /\ db'.domain = x
          /\ db'.secret = db.secret /\ db'.used = db.used /\ db'.user = db.user
          /\ db'.conn = db.conn /\ db'.role = db.role /\ db'.assigned = db.assigned
      BY <1>2, <2>2, PutDomains
    <2>4. Handled(s, hist)
      BY <1>1, <1>2, <1>5, Finishes
    <2>5. References(db')
      <3>1. \A m \in Mailboxes : DomainOf[m] \in Domains
        OBVIOUS
      <3> QED
        BY <1>2, <1>4, <1>5, <2>1, <2>3, <3>1 DEF References
    <2> QED
      BY <1>1, <2>3, <2>4, <2>5 DEF Plain
  <1>6. CASE UpdateDomain(s)
    <2>1. PICK row : row = (IF db.domain[op.domain].status = "absent" THEN db.domain[op.domain]
             ELSE [status |-> IF op.status = None THEN db.domain[op.domain].status ELSE op.status,
                   conn   |-> IF op.conn = None THEN db.domain[op.domain].conn ELSE op.conn])
      OBVIOUS
    <2>2. db' = [db EXCEPT !.domain[op.domain] = row] /\ Succeeds(s, hist)
      BY <1>2, <1>4, <1>6, <2>1 DEF UpdateDomain, Tables
    <2>3. op.status \in {None, "active", "disabled"} /\ op.conn \in Connections \cup {None}
      BY <1>2, <1>6 DEF WellFormed, UpdateDomain, At
    <2>4. row \in Row /\ (row.status = "absent" => db.domain[op.domain].status = "absent")
      <3>1. db.domain[op.domain] \in Row
        BY <1>4
      <3> QED
        BY <2>1, <2>3, <3>1
    <2>5. db.domain[op.domain].status = "absent" =>
            \A m \in Mailboxes : DomainOf[m] = op.domain => db.mailbox[m].status = "absent"
      BY <1>2 DEF References
    <2> QED
      BY <1>5, <2>2, <2>4, <2>5
  <1>7. CASE DeleteDomain(s) /\ ~Refuses(s)
    <2>1. PICK row \in Row : row = [status |-> "absent", conn |-> None]
      OBVIOUS
    <2>2. /\ \A m \in Mailboxes : DomainOf[m] = op.domain => db.mailbox[m].status = "absent"
          /\ db' = [db EXCEPT !.domain[op.domain] = row] /\ Succeeds(s, hist)
      BY <1>7, <2>1 DEF DeleteDomain
    <2> QED
      BY <1>5, <2>1, <2>2
  <1> QED
    BY <1>3, <1>6, <1>7

LEMMA PlainSteps ==
    ASSUME Safe, NEW s \in Slots, Plain(s)
    PROVE  Safe'
  <1>1. Handled(s, hist) /\ db' \in Tables /\ References(db') /\ Typed /\ OnceInv /\ LimitsInv
    BY DEF Plain, Safe
  <1> QED
    BY <1>1, PlainSafe, HandledTyped DEF Safe

LEMMA AroundSafe ==
    ASSUME Safe, Around
    PROVE  Safe'
  <1>1. Typed /\ LimitsInv /\ CallsRight /\ hist.raced \subseteq hist'.raced /\ Typed' /\ OnceInv'
    BY DEF Safe, Typed, Around
  <1>2. LimitsInv'
    BY <1>1, Frames, AroundKeeps DEF LimitsInv
  <1> QED
    BY <1>1, <1>2 DEF Safe

---------------------------------------------------------------------------
(* The steps that count, that store what they have read, or that write     *)
(* column by column.                                                       *)
\* What a call of the kind `kind' cannot disturb.
LEMMA OtherKinds ==
    ASSUME Safe, NEW s \in Slots, NEW h, Handled(s, h)
    PROVE  /\ \A kind : call[s].op.kind # kind \/ call'[s].at # "write" =>
                \A t \in Slots : At(t, kind, "write")' => call'[t] = call[t]
           /\ \A kind : call[s].op.kind # kind \/ call[s].at # "write" =>
                \A t \in Slots : At(t, kind, "write") =>
                  call'[t] = call[t]
           /\ hist.raced \subseteq hist'.raced /\ hist'.raced = h.raced
           /\ hist'.invited = h.invited /\ hist'.topQuota = h.topQuota
           /\ hist'.asked = h.asked /\ hist'.wanted = h.wanted
  BY OtherCalls DEF Handled, At, Others

\* Safe, from the parts that a step disturbs.
LEMMA HandledSafe ==
    ASSUME Safe, NEW s \in Slots, NEW h, Handled(s, h), db' \in Tables, References(db'),
           QuotaKept \/ QuotaInv', RemovalKept \/ RemovalInv', InviteKept \/ InviteInv',
           SecretKept \/ SecretInv', SettingsKept \/ SettingsInv'
    PROVE  Safe'
  <1>1. Typed /\ OnceInv /\ LimitsInv /\ CallsRight /\ hist.raced \subseteq hist'.raced
    BY OtherKinds DEF Safe, Typed
  <1>2. LimitsInv'
    BY <1>1, Frames DEF LimitsInv
  <1> QED
    BY <1>1, <1>2, HandledTyped DEF Safe

\* A call of these that ends, or does not reach its write, disturbs nothing.
LEMMA RefusedSafe ==
    ASSUME Safe, NEW s \in Slots, Goeson(s), call[s].op.kind # "UpdateSettings",
           call'[s].at # "write"
    PROVE  Safe'
  <1>1. /\ db' = db /\ hist' = hist /\ Handled(s, hist) /\ db \in Tables /\ References(db)
    BY DEF Goeson, Safe, Typed, TypeOK
  <1>2. QuotaKept /\ RemovalKept /\ InviteKept /\ SecretKept /\ SettingsKept
    BY <1>1, OtherKinds DEF QuotaKept, RemovalKept, InviteKept, SecretKept, SettingsKept, Applying
  <1> QED
    BY <1>1, <1>2, HandledSafe DEF References

LEMMA EndedAt ==
    ASSUME NEW s \in Slots
    PROVE  /\ Ended(s) => call'[s].at = "idle"
           /\ \A place, v : Moved(s, place, v) => /\ call'[s].at = place /\ call'[s].seen = v
                                                  /\ call'[s].op = call[s].op
  BY DEF Ended, Moved, Idle

LEMMA ReadDomainSafe ==
    ASSUME Safe, NEW s \in Slots, ReadDomain(s)
    PROVE  Safe'
  <1>1. /\ call[s].at \in Working /\ call[s].op.kind = "CreateMailbox" /\ Typed
    BY DEF ReadDomain, At, Working, Safe
  <1>2. Goeson(s) /\ call'[s].at # "write"
    BY <1>1, GoesOn, EndedAt DEF ReadDomain, Working
  <1> QED
    BY <1>1, <1>2, RefusedSafe

LEMMA OwnedFinite ==
    \A u : IsFiniteSet(Owned(u)) /\ Cardinality(Owned(u)) \in Nat
  BY FS_Subset, FS_CardinalityType DEF Owned

LEMMA ReadQuotaSafe ==
    ASSUME Safe, NEW s \in Slots, ReadQuota(s)
    PROVE  Safe'
  <1>1. /\ call[s].at \in Working /\ call[s].op.kind = "CreateMailbox" /\ Typed /\ QuotaInv
        /\ call[s].at # "write"
    BY DEF ReadQuota, At, Working, Safe, LimitsInv
  <1>2. Goeson(s) /\ (Ended(s) \/ (/\ Cardinality(Owned(call[s].op.by)) < db.settings.quota
                                  /\ Moved(s, "write", call[s].seen)))
    BY <1>1, GoesOn DEF ReadQuota
  <1>3. CASE Ended(s)
    BY <1>1, <1>2, <1>3, EndedAt, RefusedSafe
  <1>4. CASE /\ Cardinality(Owned(call[s].op.by)) < db.settings.quota
             /\ Moved(s, "write", call[s].seen)
    <2>1. /\ db' = db /\ hist' = hist /\ Handled(s, hist) /\ db \in Tables /\ References(db)
          /\ db.settings.quota \in Nat /\ hist.topQuota \in Nat
      BY <1>1, <1>2 DEF Goeson, Typed, TypeOK, Tables, Settings, HistRow
    <2>2. RemovalKept /\ InviteKept /\ SecretKept /\ SettingsKept
      BY <1>1, <2>1, OtherKinds DEF RemovalKept, InviteKept, SecretKept, SettingsKept, Applying
    <2>3. QuotaInv'
      <3>1. \A u : Owned(u)' = Owned(u)
        BY <2>1 DEF Owned, Exists
      <3>2. \A t \in Slots : At(t, "CreateMailbox", "write")' =>
              \/ At(t, "CreateMailbox", "write") /\ call'[t].op = call[t].op
              \/ t = s /\ call'[t].op = call[t].op
        BY <2>1, <1>4, OtherCalls, EndedAt DEF At
      <3>3. Cardinality(Owned(call[s].op.by)) < hist.topQuota
        BY <1>1, <1>4, <2>1, OwnedFinite DEF QuotaInv
      <3> QED
        BY <1>1, <2>1, <3>1, <3>2, <3>3 DEF QuotaInv
    <2> QED
      BY <2>1, <2>2, <2>3, HandledSafe DEF References
  <1> QED
    BY <1>2, <1>3, <1>4

LEMMA CheckRemoveSafe ==
    ASSUME Safe, NEW s \in Slots, CheckRemoveMailbox(s)
    PROVE  Safe'
  <1>1. /\ call[s].at \in Working /\ call[s].op.kind = "RemoveMailbox" /\ Typed /\ RemovalInv
        /\ call[s].at # "write"
    BY DEF CheckRemoveMailbox, At, Working, Safe, LimitsInv
  <1>2. Goeson(s) /\ (Ended(s) \/ (/\ call[s].op.mailbox \in Owned(call[s].op.by)
                                  /\ Moved(s, "write", call[s].seen)))
    BY <1>1, GoesOn DEF CheckRemoveMailbox
  <1>3. CASE Ended(s)
    BY <1>1, <1>2, <1>3, EndedAt, RefusedSafe
  <1>4. CASE /\ call[s].op.mailbox \in Owned(call[s].op.by)
             /\ Moved(s, "write", call[s].seen)
    <2>1. /\ db' = db /\ hist' = hist /\ Handled(s, hist) /\ db \in Tables /\ References(db)
      BY <1>1, <1>2 DEF Goeson, Typed, TypeOK
    <2>2. QuotaKept /\ InviteKept /\ SecretKept /\ SettingsKept
      BY <1>1, <2>1, OtherKinds DEF QuotaKept, InviteKept, SecretKept, SettingsKept, Applying
    <2>3. RemovalInv'
      <3>1. \A t \in Slots : At(t, "RemoveMailbox", "write")' =>
              \/ At(t, "RemoveMailbox", "write") /\ call'[t].op = call[t].op
              \/ t = s /\ call'[t].op = call[t].op
        BY <2>1, <1>4, OtherCalls, EndedAt DEF At
      <3>2. db.mailbox[call[s].op.mailbox].status # "absent"
        BY <1>4 DEF Owned, Exists
      <3> QED
        BY <1>1, <2>1, <3>1, <3>2 DEF RemovalInv
    <2> QED
      BY <2>1, <2>2, <2>3, HandledSafe DEF References
  <1> QED
    BY <1>2, <1>3, <1>4

\* A call that finishes, or refuses, touches none of the calls at a write.
LEMMA FinishedKeeps ==
    ASSUME Safe, NEW s \in Slots, NEW h, Handled(s, h), call'[s].at # "write"
    PROVE  /\ \A kind : \A t \in Slots : At(t, kind, "write")' =>
                t # s /\ call'[t] = call[t] /\ At(t, kind, "write")
           /\ \A kind : call[s].op.kind # kind =>
                \A t \in Slots : At(t, kind, "write") => call'[t] = call[t]
           /\ hist.raced \subseteq hist'.raced
  <1>1. Others(s) /\ hist.raced \subseteq hist'.raced
    BY DEF Handled
  <1> QED
    BY <1>1 DEF At, Others

LEMMA FinishedParts ==
    ASSUME Safe, NEW s \in Slots, NEW h, Handled(s, h), call'[s].at # "write"
    PROVE  /\ (/\ db'.mailbox = db.mailbox /\ db'.settings = db.settings
               /\ h.topQuota = hist.topQuota) => QuotaKept
           /\ (\A m \in Mailboxes : db.mailbox[m].status # "absent" =>
                                      db'.mailbox[m].status # "absent") => RemovalKept
           /\ (/\ db'.used = db.used /\ h.invited = hist.invited
               /\ \A u \in Users : db.user[u] # "absent" => db'.user[u] # "absent") => InviteKept
           /\ (/\ db'.secret = db.secret /\ h.asked = hist.asked
               /\ \A c \in Connections : db.conn[c] # "absent" => db'.conn[c] # "absent")
                => SecretKept
           /\ (/\ db'.settings = db.settings /\ h.wanted = hist.wanted
               /\ call[s].op.kind # "UpdateSettings") => SettingsKept
  <1>1. /\ hist'.invited = h.invited /\ hist'.topQuota = h.topQuota
        /\ hist'.asked = h.asked /\ hist'.wanted = h.wanted
    BY DEF Handled
  <1>2. \A kind : \A t \in Slots : At(t, kind, "write")' => call'[t] = call[t]
    BY FinishedKeeps
  <1>3. call[s].op.kind # "UpdateSettings" =>
          \A t \in Slots : At(t, "UpdateSettings", "write") => call'[t] = call[t]
    BY FinishedKeeps
  <1>4. /\ (/\ db'.mailbox = db.mailbox /\ db'.settings = db.settings
            /\ h.topQuota = hist.topQuota) => QuotaKept
        /\ (\A m \in Mailboxes : db.mailbox[m].status # "absent" =>
                                   db'.mailbox[m].status # "absent") => RemovalKept
    BY <1>1, <1>2 DEF QuotaKept, RemovalKept
  <1>5. (/\ db'.used = db.used /\ h.invited = hist.invited
         /\ \A u \in Users : db.user[u] # "absent" => db'.user[u] # "absent") => InviteKept
    BY <1>1, <1>2 DEF InviteKept
  <1>6. (/\ db'.secret = db.secret /\ h.asked = hist.asked
         /\ \A c \in Connections : db.conn[c] # "absent" => db'.conn[c] # "absent") => SecretKept
    BY <1>1, <1>2 DEF SecretKept
  <1>7. (/\ db'.settings = db.settings /\ h.wanted = hist.wanted
         /\ call[s].op.kind # "UpdateSettings") => SettingsKept
    BY <1>1, <1>2, <1>3 DEF SettingsKept, Applying
  <1> QED
    BY <1>4, <1>5, <1>6, <1>7

LEMMA InsertMailboxSafe ==
    ASSUME Safe, NEW s \in Slots, InsertMailbox(s)
    PROVE  Safe'
  <1>a. PICK op : op = call[s].op
    OBVIOUS
  <1>b. PICK m : m = op.mailbox
    OBVIOUS
  <1>c. PICK by : by = op.by
    OBVIOUS
  <1> DEFINE MRow == [status : {"absent", "active", "deleted"}, owner : Users \cup {None}]
  <1>1. /\ call[s].at \in Working /\ op.kind = "CreateMailbox" /\ call[s].at = "write"
        /\ At(s, "CreateMailbox", "write") /\ call[s].at # "idle"
    BY <1>a DEF InsertMailbox, At, Working
  <1>2. /\ Typed /\ db \in Tables /\ References(db) /\ HistRow(hist) /\ WellFormed(op)
        /\ QuotaInv /\ CallsRight
    BY <1>1, <1>a, CallRows DEF Safe, Typed, TypeOK, LimitsInv
  <1>3. CASE Refuses(s)
    BY <1>1, <1>2, <1>3, <1>a, GoesOn, EndedAt, RefusedSafe
  <1>4. CASE ~Refuses(s)
    <2>1. PICK h : h = (IF Overlaps(s, SameCaller)
                        THEN [hist EXCEPT !.raced = @ \cup {by}] ELSE hist)
      OBVIOUS
    <2>2. /\ db.mailbox[m].status = "absent" /\ db.domain[DomainOf[m]].status # "absent"
          /\ db' = [db EXCEPT !.mailbox[m] = [status |-> "active", owner |-> by]]
          /\ Succeeds(s, h)
      BY <1>4, <2>1, <1>a, <1>b, <1>c DEF InsertMailbox
    <2>3. /\ HistRow(h) /\ h.ran = hist.ran /\ h.intent = hist.intent
          /\ hist.raced \subseteq h.raced /\ h.invited = hist.invited
          /\ h.topQuota = hist.topQuota /\ h.asked = hist.asked /\ h.wanted = hist.wanted
          /\ Overlaps(s, SameCaller) => by \in h.raced
      BY <1>2, <2>1 DEF HistRow
    <2>4. Handled(s, h) /\ call'[s].at # "write"
      BY <1>1, <1>2, <2>2, <2>3, Finishes
    <2>5. m \in Mailboxes /\ by \in Users /\ db.mailbox \in [Mailboxes -> MRow]
      BY <1>1, <1>2, <1>b, <1>c DEF WellFormed, Tables
    <2>6. PICK x \in [Mailboxes -> MRow] :
            x = [db.mailbox EXCEPT ![m] = [status |-> "active", owner |-> by]]
      BY <2>5
    <2>7. db' = [db EXCEPT !.mailbox = x]
      BY <1>2, <2>2, <2>6 DEF Tables
    <2>8. /\ db' \in Tables /\ db'.mailbox = x
          /\ db'.user = db.user /\ db'.role = db.role /\ db'.assigned = db.assigned
          /\ db'.domain = db.domain /\ db'.member = db.member /\ db'.conn = db.conn
          /\ db'.secret = db.secret /\ db'.settings = db.settings /\ db'.used = db.used
      BY <1>2, <2>7, PutMailboxes
    <2>9. /\ x[m].status = "active" /\ x[m].owner = by
          /\ \A o \in Mailboxes \ {m} : x[o] = db.mailbox[o]
      BY <2>5, <2>6
    <2>10. References(db')
      BY <1>2, <2>2, <2>8, <2>9 DEF References
    <2>11. RemovalKept /\ InviteKept /\ SecretKept /\ SettingsKept
      BY <1>1, <1>a, <2>3, <2>4, <2>5, <2>8, <2>9, FinishedParts
    <2>12. /\ Owned(by)' = Owned(by) \cup {m} /\ m \notin Owned(by)
           /\ \A u : u # by => Owned(u)' = Owned(u)
      BY <2>2, <2>5, <2>8, <2>9 DEF Owned, Exists
    <2>13. Cardinality(Owned(by)') = Cardinality(Owned(by)) + 1
      BY <2>12, OwnedFinite, FS_AddElement
    <2>14. ASSUME NEW u \in Users, u \notin hist'.raced
           PROVE  /\ Cardinality(Owned(u)') <= hist'.topQuota
                  /\ \A t \in Slots : At(t, "CreateMailbox", "write")' /\ call'[t].op.by = u =>
                       Cardinality(Owned(u)') < hist'.topQuota
      <3>1. /\ u \notin hist.raced /\ hist'.topQuota = hist.topQuota /\ u \notin h.raced
            /\ hist.topQuota \in Nat
        BY <1>2, <2>3, <2>4, <2>14, FinishedKeeps DEF Handled, HistRow
      <3>2. \A t \in Slots : At(t, "CreateMailbox", "write")' =>
              t # s /\ call'[t] = call[t] /\ At(t, "CreateMailbox", "write")
        BY <2>4, FinishedKeeps
      <3>3. CASE u # by
        BY <1>2, <2>12, <3>1, <3>2, <3>3 DEF QuotaInv
      <3>4. CASE u = by
        <4>1. Cardinality(Owned(by)) < hist.topQuota
          BY <1>1, <1>2, <1>a, <1>c, <3>1, <3>4 DEF QuotaInv
        <4>2. Cardinality(Owned(u)') <= hist'.topQuota
          BY <2>13, <3>1, <3>4, <4>1, OwnedFinite
        <4>3. ~Overlaps(s, SameCaller)
          BY <2>3, <3>1, <3>4
        <4>4. \A t \in Slots : ~(At(t, "CreateMailbox", "write")' /\ call'[t].op.by = u)
          BY <1>1, <1>a, <1>c, <3>2, <3>4, <4>3 DEF Overlaps, SameCaller, At
        <4> QED
          BY <4>2, <4>4
      <3> QED
        BY <3>3, <3>4
    <2>15. QuotaInv'
      BY <1>2, <2>3, <2>4, <2>8, <2>14 DEF QuotaInv, Handled
    <2> QED
      BY <2>4, <2>8, <2>10, <2>11, <2>15, HandledSafe
  <1> QED
    BY <1>3, <1>4

LEMMA RemoveMailboxSafe ==
    ASSUME Safe, NEW s \in Slots, RemoveMailbox(s)
    PROVE  Safe'
  <1>a. PICK m : m = call[s].op.mailbox
    OBVIOUS
  <1> DEFINE MRow == [status : {"absent", "active", "deleted"}, owner : Users \cup {None}]
  <1>1. /\ call[s].at \in Working /\ call[s].op.kind = "RemoveMailbox"
        /\ At(s, "RemoveMailbox", "write") /\ call[s].at # "idle"
        /\ db' = [db EXCEPT !.mailbox[m].status = "deleted"] /\ Succeeds(s, hist)
    BY <1>a DEF RemoveMailbox, At, Working
  <1>2. /\ Typed /\ db \in Tables /\ References(db) /\ HistRow(hist) /\ WellFormed(call[s].op)
        /\ QuotaInv /\ RemovalInv /\ CallsRight
    BY <1>1, CallRows DEF Safe, Typed, TypeOK, LimitsInv
  <1>3. Handled(s, hist) /\ call'[s].at # "write"
    BY <1>1, <1>2, Finishes
  <1>4. m \in Mailboxes /\ db.mailbox \in [Mailboxes -> MRow] /\ db.mailbox[m].status # "absent"
    BY <1>1, <1>2, <1>a DEF WellFormed, Tables, RemovalInv
  <1>5. PICK x \in [Mailboxes -> MRow] : x = [db.mailbox EXCEPT ![m].status = "deleted"]
    BY <1>4
  <1>6. db' = [db EXCEPT !.mailbox = x]
    BY <1>1, <1>2, <1>5 DEF Tables
  <1>7. /\ db' \in Tables /\ db'.mailbox = x
        /\ db'.user = db.user /\ db'.role = db.role /\ db'.assigned = db.assigned
        /\ db'.domain = db.domain /\ db'.member = db.member /\ db'.conn = db.conn
        /\ db'.secret = db.secret /\ db'.settings = db.settings /\ db'.used = db.used
    BY <1>2, <1>6, PutMailboxes
  <1>8. /\ x[m].status = "deleted"
        /\ \A o \in Mailboxes \ {m} : x[o] = db.mailbox[o]
    BY <1>4, <1>5
  <1>9. References(db')
    BY <1>2, <1>4, <1>7, <1>8 DEF References
  <1>10. RemovalKept /\ InviteKept /\ SecretKept /\ SettingsKept
    BY <1>1, <1>3, <1>4, <1>7, <1>8, FinishedParts
  <1>11. ASSUME NEW u
         PROVE  Cardinality(Owned(u)') <= Cardinality(Owned(u)) /\ Cardinality(Owned(u)') \in Nat
    <2>1. Owned(u)' \subseteq Owned(u)
      BY <1>7, <1>8 DEF Owned, Exists
    <2> QED
      BY <2>1, OwnedFinite, FS_Subset, FS_CardinalityType
  <1>12. QuotaInv'
    <2>1. \A t \in Slots : At(t, "CreateMailbox", "write")' =>
              call'[t] = call[t] /\ At(t, "CreateMailbox", "write")
      BY <1>3, FinishedKeeps
    <2>2. hist'.topQuota = hist.topQuota /\ hist.raced \subseteq hist'.raced /\ hist.topQuota \in Nat
      BY <1>2, <1>3 DEF Handled, HistRow
    <2>3. ASSUME NEW u \in Users, u \notin hist'.raced
          PROVE  /\ Cardinality(Owned(u)') <= hist'.topQuota
                 /\ \A t \in Slots : At(t, "CreateMailbox", "write")' /\ call'[t].op.by = u =>
                      Cardinality(Owned(u)') < hist'.topQuota
      BY <1>2, <1>11, <2>1, <2>2, <2>3, OwnedFinite DEF QuotaInv
    <2> QED
      BY <1>2, <1>7, <2>2, <2>3 DEF QuotaInv
  <1> QED
    BY <1>3, <1>7, <1>9, <1>10, <1>12, HandledSafe

LEMMA ReadRegistrationSafe ==
    ASSUME Safe, NEW s \in Slots, ReadRegistration(s) \/ ReadInvitation(s)
    PROVE  Safe'
  <1>1. /\ call[s].at \in Working /\ call[s].op.kind = "Register" /\ Typed /\ InviteInv
        /\ call[s].at # "write" /\ CallsRight /\ (call[s].at = "read" => call[s].seen = None)
    BY DEF ReadRegistration, ReadInvitation, At, Working, Safe, LimitsInv, Typed, CallsRight,
           CallRight
  <1>2. CASE Refuses(s)
    BY <1>1, <1>2, GoesOn, EndedAt, RefusedSafe
  <1>3. ASSUME NEW place \in {"invitation", "write"}, NEW v,
               Moved(s, place, v), UNCHANGED <<db, records, menu, calls, faults, hist>>,
               place = "write" /\ v = "key" => db.used < MaxUses
        PROVE  Safe'
    <2>1. Goeson(s)
      BY <1>1, <1>3 DEF Goeson, Handled, Moved, Working, Typed
    <2>2. CASE place = "invitation"
      BY <1>1, <1>3, <2>1, <2>2, EndedAt, RefusedSafe
    <2>3. CASE place = "write"
      <3>1. /\ db' = db /\ hist' = hist /\ Handled(s, hist) /\ db \in Tables /\ References(db)
        BY <1>1, <1>3, <2>1 DEF Goeson, Typed, TypeOK
      <3>2. QuotaKept /\ RemovalKept /\ SecretKept /\ SettingsKept
        BY <1>1, <3>1, OtherKinds DEF QuotaKept, RemovalKept, SecretKept, SettingsKept, Applying
      <3>3. InviteInv'
        <4>1. \A t \in Slots : At(t, "Register", "write")' =>
                \/ At(t, "Register", "write") /\ call'[t].seen = call[t].seen
                \/ t = s /\ call'[t].seen = v
          BY <1>3, <3>1, OtherCalls, EndedAt DEF At
        <4>2. v = "key" => Cardinality(hist.invited) < MaxUses
          BY <1>1, <1>3, <2>3 DEF InviteInv
        <4> QED
          BY <1>1, <3>1, <4>1, <4>2 DEF InviteInv
      <3> QED
        BY <3>1, <3>2, <3>3, HandledSafe DEF References
    <2> QED
      BY <1>3, <2>2, <2>3
  <1>4. CASE ReadRegistration(s) /\ ~Refuses(s)
    <2>1. PICK place : place = (IF db.settings.invite THEN "invitation" ELSE "write")
      OBVIOUS
    <2>2. /\ call' = [call EXCEPT ![s].at = place] /\ call[s].seen = None
          /\ UNCHANGED <<db, records, menu, calls, faults, hist>>
      BY <1>1, <1>4, <2>1 DEF ReadRegistration, At
    <2>3. Moved(s, place, None)
      BY <1>1, <2>2, Moves
    <2> QED
      BY <1>3, <2>1, <2>2, <2>3
  <1>5. CASE ReadInvitation(s) /\ ~Refuses(s)
    <2>1. /\ call' = [call EXCEPT ![s].at = "write", ![s].seen = "key"] /\ db.used < MaxUses
          /\ UNCHANGED <<db, records, menu, calls, faults, hist>>
      BY <1>5 DEF ReadInvitation
    <2>2. Moved(s, "write", "key")
      BY <1>1, <2>1, Moves
    <2> QED
      BY <1>3, <2>1, <2>2
  <1> QED
    BY <1>2, <1>4, <1>5

LEMMA InsertUserSafe ==
    ASSUME Safe, NEW s \in Slots, InsertUser(s)
    PROVE  Safe'
  <1>a. PICK u : u = call[s].op.user
    OBVIOUS
  <1>b. PICK keyed : keyed = (call[s].seen = "key")
    OBVIOUS
  <1> DEFINE URow == {"absent", "active", "suspended", "deleted"}
  <1>1. /\ call[s].at \in Working /\ call[s].op.kind = "Register" /\ call[s].at = "write"
        /\ At(s, "Register", "write") /\ call[s].at # "idle"
    BY DEF InsertUser, At, Working
  <1>2. /\ Typed /\ db \in Tables /\ References(db) /\ HistRow(hist) /\ WellFormed(call[s].op)
        /\ InviteInv /\ CallsRight
    BY <1>1, CallRows DEF Safe, Typed, TypeOK, LimitsInv
  <1>3. CASE Refuses(s)
    BY <1>1, <1>2, <1>3, GoesOn, EndedAt, RefusedSafe
  <1>4. CASE ~Refuses(s)
    <2>a. PICK overlap : overlap = Overlaps(s, BothInvited)
      OBVIOUS
    <2>b. PICK invited : invited = (IF keyed THEN hist.invited \cup {u} ELSE hist.invited)
      OBVIOUS
    <2>c. PICK raced : raced = (IF keyed /\ overlap THEN hist.raced \cup {"invitation"}
                                ELSE hist.raced)
      OBVIOUS
    <2>1. PICK h : h = [hist EXCEPT !.invited = invited, !.raced = raced]
      OBVIOUS
    <2>d. PICK used : used = (IF keyed /\ db.used < MaxUses THEN db.used + 1 ELSE db.used)
      OBVIOUS
    <2>2. /\ db.user[u] = "absent"
          /\ db' = [db EXCEPT !.user[u] = "active", !.used = used]
          /\ Succeeds(s, h)
      BY <1>2, <1>4, <2>1, <1>a, <1>b, <2>a, <2>b, <2>c, <2>d DEF InsertUser, HistRow, Tables
    <2>3. /\ HistRow(h) /\ h.ran = hist.ran /\ h.intent = hist.intent
          /\ hist.raced \subseteq h.raced /\ h.raced = raced /\ h.invited = invited
          /\ h.topQuota = hist.topQuota /\ h.asked = hist.asked /\ h.wanted = hist.wanted
      BY <1>2, <2>1, <2>c DEF HistRow
    <2>4. Handled(s, h) /\ call'[s].at # "write"
      BY <1>1, <1>2, <2>2, <2>3, Finishes
    <2>5. u \in Users /\ db.user \in [Users -> URow] /\ used \in 0..MaxUses
          /\ db.used \in 0..MaxUses
      <3>1. u \in Users /\ db.user \in [Users -> URow] /\ db.used \in 0..MaxUses
        BY <1>1, <1>2, <1>a DEF WellFormed, Tables
      <3> QED
        BY <2>d, <3>1
    <2>6. PICK x \in [Users -> URow] : x = [db.user EXCEPT ![u] = "active"]
      BY <2>5
    <2>7. db' = [db EXCEPT !.user = x, !.used = used]
      BY <1>2, <2>2, <2>6 DEF Tables
    <2>8. /\ db' \in Tables /\ db'.user = x /\ db'.used = used
          /\ db'.role = db.role /\ db'.assigned = db.assigned /\ db'.domain = db.domain
          /\ db'.mailbox = db.mailbox /\ db'.member = db.member /\ db'.conn = db.conn
          /\ db'.secret = db.secret /\ db'.settings = db.settings
      BY <1>2, <2>5, <2>7, PutRegistered
    <2>9. \A w \in Users : db.user[w] # "absent" => db'.user[w] # "absent"
      BY <2>5, <2>6, <2>8
    <2>10. References(db')
      BY <1>2, <2>8 DEF References
    <2>11. QuotaKept /\ RemovalKept /\ SecretKept /\ SettingsKept
      BY <1>1, <2>3, <2>4, <2>8, FinishedParts
    <2>12. CASE ~keyed
      <3>1. InviteKept
        BY <2>12, <2>b, <2>d, <2>3, <2>4, <2>8, <2>9, FinishedParts
      <3> QED
        BY <2>4, <2>8, <2>10, <2>11, <3>1, HandledSafe
    <2>13. CASE keyed
      <3>1. /\ hist'.invited = hist.invited \cup {u} /\ hist'.raced = raced
            /\ hist.raced \subseteq raced
        BY <2>13, <2>3, <2>4, <2>b DEF Handled
      <3>2. u \notin hist.invited /\ IsFiniteSet(hist.invited)
        BY <1>2, <2>2 DEF InviteInv
      <3>3. /\ Cardinality(hist'.invited) = Cardinality(hist.invited) + 1
            /\ IsFiniteSet(hist'.invited) /\ Cardinality(hist.invited) \in Nat
        BY <3>1, <3>2, FS_AddElement, FS_CardinalityType
      <3>4. hist'.invited \subseteq {w \in Users : db'.user[w] # "absent"}
        <4>1. db'.user[u] # "absent"
          BY <2>5, <2>6, <2>8
        <4> QED
          BY <1>2, <2>5, <2>9, <3>1, <4>1 DEF InviteInv
      <3>5. db'.used = (IF Cardinality(hist'.invited) < MaxUses
                        THEN Cardinality(hist'.invited) ELSE MaxUses)
        <4>1. db.used = (IF Cardinality(hist.invited) < MaxUses
                         THEN Cardinality(hist.invited) ELSE MaxUses)
          BY <1>2 DEF InviteInv
        <4> QED
          BY <2>13, <2>d, <2>8, <3>3, <4>1
      <3>6. ASSUME "invitation" \notin hist'.raced
            PROVE  /\ Cardinality(hist'.invited) <= MaxUses
                   /\ \A t \in Slots : ~(At(t, "Register", "write")' /\ call'[t].seen = "key")
        <4>1. "invitation" \notin hist.raced /\ ~overlap
          BY <2>13, <2>c, <3>1, <3>6
        <4>2. Cardinality(hist.invited) < MaxUses
          BY <1>1, <1>2, <1>b, <2>13, <4>1 DEF InviteInv
        <4>3. \A t \in Slots : At(t, "Register", "write")' =>
                t # s /\ call'[t] = call[t] /\ At(t, "Register", "write")
          BY <2>4, FinishedKeeps
        <4>4. \A t \in Slots : ~(At(t, "Register", "write")' /\ call'[t].seen = "key")
          <5>1. call[s].seen = "key" /\ ~Overlaps(s, BothInvited)
            BY <1>b, <2>13, <2>a, <4>1
          <5>2. \A t \in Slots \ {s} :
                  ~(At(t, "Register", "write") /\ call[t].seen = "key")
            BY <1>1, <5>1 DEF Overlaps, BothInvited, At
          <5> QED
            BY <4>3, <5>2
        <4> QED
          BY <3>3, <4>2, <4>4
      <3>7. InviteInv'
        BY <3>3, <3>4, <3>5, <3>6 DEF InviteInv
      <3> QED
        BY <2>4, <2>8, <2>10, <2>11, <3>7, HandledSafe
    <2> QED
      BY <1>b, <2>12, <2>13
  <1> QED
    BY <1>3, <1>4

LEMMA ReadConnectionSafe ==
    ASSUME Safe, NEW s \in Slots, ReadConnection(s)
    PROVE  Safe'
  <1>a. PICK c : c = call[s].op.conn
    OBVIOUS
  <1>1. /\ call[s].at \in Working /\ call[s].op.kind = "UpdateConnection" /\ Typed /\ SecretInv
        /\ call[s].at # "write" /\ CallsRight /\ call[s].at # "idle"
    BY DEF ReadConnection, At, Working, Safe, LimitsInv, Typed
  <1>2. CASE Refuses(s)
    BY <1>1, <1>2, GoesOn, EndedAt, RefusedSafe
  <1>3. CASE ~Refuses(s)
    <2>1. /\ db.conn[c] # "absent"
          /\ call' = [call EXCEPT ![s].at = "write", ![s].seen = db.secret[c]]
          /\ UNCHANGED <<db, records, menu, calls, faults, hist>>
      BY <1>3, <1>a DEF ReadConnection
    <2>2. Moved(s, "write", db.secret[c])
      BY <1>1, <2>1, Moves
    <2>3. Goeson(s)
      BY <1>1, <2>1, <2>2 DEF Goeson, Handled, Moved, Working, Typed
    <2>4. /\ db' = db /\ hist' = hist /\ Handled(s, hist) /\ db \in Tables /\ References(db)
      BY <1>1, <2>3 DEF Goeson, Typed, TypeOK
    <2>5. QuotaKept /\ RemovalKept /\ InviteKept /\ SettingsKept
      BY <1>1, <2>4, OtherKinds DEF QuotaKept, RemovalKept, InviteKept, SettingsKept, Applying
    <2>6. c \in Connections /\ db.secret[c] \in Pairs
      <3>1. WellFormed(call[s].op)
        BY <1>1, CallRows
      <3>2. c \in Connections
        BY <1>1, <1>a, <3>1 DEF WellFormed
      <3> QED
        BY <2>4, <3>2 DEF Tables, Pairs
    <2>7. SecretInv'
      <3>1. \A t \in Slots : At(t, "UpdateConnection", "write")' =>
              \/ At(t, "UpdateConnection", "write") /\ call'[t] = call[t]
              \/ t = s /\ call'[t].seen = db.secret[c] /\ call'[t].op.conn = c
        BY <1>1, <1>a, <2>2, <2>4, OtherCalls, EndedAt DEF At
      <3> QED
        BY <1>1, <2>1, <2>4, <2>6, <3>1 DEF SecretInv
    <2> QED
      BY <2>4, <2>5, <2>7, HandledSafe DEF References
  <1> QED
    BY <1>2, <1>3

\* Two tables of the connections are written, for one of them.
LEMMA PutOne ==
    ASSUME db \in Tables, References(db), NEW c \in Connections,
           NEW status \in {"active", "disabled"}, NEW pair \in Pairs,
           db' = [db EXCEPT !.conn[c] = status, !.secret[c] = pair]
    PROVE  /\ db' \in Tables /\ References(db')
           /\ db'.conn[c] # "absent" /\ db'.secret[c] = pair
           /\ \A d \in Connections \ {c} :
                db'.conn[d] = db.conn[d] /\ db'.secret[d] = db.secret[d]
           /\ db'.user = db.user /\ db'.mailbox = db.mailbox
           /\ db'.settings = db.settings /\ db'.used = db.used
  <1>1. /\ db.conn \in [Connections -> {"absent", "active", "disabled"}]
        /\ db.secret \in [Connections -> Pairs]
    BY DEF Tables, Pairs
  <1>2. PICK x \in [Connections -> {"absent", "active", "disabled"}] :
          x = [db.conn EXCEPT ![c] = status]
    BY <1>1
  <1>3. PICK y \in [Connections -> Pairs] : y = [db.secret EXCEPT ![c] = pair]
    BY <1>1
  <1>4. db' = [db EXCEPT !.conn = x, !.secret = y]
    BY <1>2, <1>3
  <1>5. /\ db' \in Tables /\ db'.conn = x /\ db'.secret = y
        /\ db'.user = db.user /\ db'.role = db.role /\ db'.assigned = db.assigned
        /\ db'.domain = db.domain /\ db'.mailbox = db.mailbox /\ db'.member = db.member
        /\ db'.settings = db.settings /\ db'.used = db.used
    BY <1>4, PutConnections
  <1>6. References(db')
    BY <1>5 DEF References
  <1> QED
    BY <1>1, <1>2, <1>3, <1>5, <1>6

LEMMA WriteConnectionSafe ==
    ASSUME Safe, NEW s \in Slots, CreateConnection(s) \/ WriteConnection(s)
    PROVE  Safe'
  <1>a. PICK op : op = call[s].op
    OBVIOUS
  <1>b. PICK c : c = op.conn
    OBVIOUS
  <1>1. /\ call[s].at \in Working /\ op.kind \in {"CreateConnection", "UpdateConnection"}
        /\ call[s].at = "write" /\ At(s, op.kind, "write") /\ call[s].at # "idle"
        /\ op.kind # "UpdateSettings"
    BY <1>a DEF CreateConnection, WriteConnection, At, Working
  <1>2. /\ Typed /\ db \in Tables /\ References(db) /\ HistRow(hist) /\ WellFormed(op)
        /\ SecretInv /\ CallsRight
    BY <1>1, <1>a, CallRows DEF Safe, Typed, TypeOK, LimitsInv
  <1>3. /\ c \in Connections /\ op.status \in {None, "active", "disabled"}
        /\ op.api \in Secrets \cup {None} /\ op.hook \in Secrets \cup {None}
    BY <1>1, <1>2, <1>b DEF WellFormed
  <1>4. /\ \A d \in Connections : db.secret[d] \in Pairs /\ hist.asked[d] \in Pairs
        /\ \A d \in Connections : db.conn[d] \in {"absent", "active", "disabled"}
    BY <1>2 DEF Tables, Pairs, HistRow
  <1>5. \A pair \in Pairs : Rotated(pair, op) \in Pairs
    BY <1>3 DEF Rotated, Pairs
  <1>6. ASSUME NEW status \in {"active", "disabled"}, NEW pair \in Pairs, NEW asked \in Pairs,
               NEW raced, hist.raced \subseteq raced, NEW h,
               h = [hist EXCEPT !.asked[c] = asked, !.raced = raced],
               db' = [db EXCEPT !.conn[c] = status, !.secret[c] = pair],
               Succeeds(s, h),
               c \notin raced =>
                 /\ pair = asked
                 /\ \A t \in Slots \ {s} : ~(At(t, "UpdateConnection", "write")
                                             /\ call[t].op.conn = c)
        PROVE  Safe'
    <2>1. /\ db' \in Tables /\ References(db')
          /\ db'.conn[c] # "absent" /\ db'.secret[c] = pair
          /\ \A d \in Connections \ {c} :
               db'.conn[d] = db.conn[d] /\ db'.secret[d] = db.secret[d]
          /\ db'.user = db.user /\ db'.mailbox = db.mailbox
          /\ db'.settings = db.settings /\ db'.used = db.used
      BY <1>2, <1>3, <1>6, PutOne
    <2>2. /\ h.ran = hist.ran /\ h.intent = hist.intent /\ h.raced = raced
          /\ h.invited = hist.invited /\ h.topQuota = hist.topQuota /\ h.wanted = hist.wanted
          /\ h.asked = [hist.asked EXCEPT ![c] = asked]
          /\ h = [ran |-> h.ran, intent |-> h.intent, raced |-> h.raced, invited |-> h.invited,
                  topQuota |-> h.topQuota, asked |-> h.asked, wanted |-> h.wanted]
      BY <1>2, <1>6 DEF HistRow
    <2>3. HistRow(h)
      BY <1>2, <1>3, <1>6, <2>2 DEF HistRow
    <2>4. Handled(s, h) /\ call'[s].at # "write"
      BY <1>1, <1>2, <1>6, <2>2, <2>3, Finishes
    <2>5. QuotaKept /\ RemovalKept /\ InviteKept /\ SettingsKept
      BY <1>1, <1>a, <2>1, <2>2, <2>4, FinishedParts
    <2>6. /\ hist'.raced = raced /\ hist'.asked[c] = asked
          /\ \A d \in Connections \ {c} : hist'.asked[d] = hist.asked[d]
      BY <1>2, <1>3, <2>2, <2>4 DEF Handled, HistRow
    <2>7. \A t \in Slots : At(t, "UpdateConnection", "write")' =>
            /\ t # s /\ call'[t] = call[t] /\ At(t, "UpdateConnection", "write")
            /\ call[t].op.conn \in Connections
      <3>1. \A t \in Slots : At(t, "UpdateConnection", "write") => call[t].op.conn \in Connections
        BY <1>2, CallRows DEF At, WellFormed
      <3> QED
        BY <2>4, <3>1, FinishedKeeps
    <2>8. \A d \in Connections : d \notin hist'.raced => db'.secret[d] = hist'.asked[d]
      BY <1>2, <1>6, <2>1, <2>6 DEF SecretInv
    <2>9. ASSUME NEW t \in Slots, At(t, "UpdateConnection", "write")'
          PROVE  /\ call'[t].seen \in Pairs /\ db'.conn[call'[t].op.conn] # "absent"
                 /\ call'[t].op.conn \notin hist'.raced =>
                      call'[t].seen = db'.secret[call'[t].op.conn]
      <3>1. t # s /\ call'[t] = call[t] /\ At(t, "UpdateConnection", "write")
            /\ call[t].op.conn \in Connections
        BY <2>7, <2>9
      <3>2. CASE call[t].op.conn = c
        BY <1>2, <1>6, <2>1, <2>6, <3>1, <3>2 DEF SecretInv
      <3>3. CASE call[t].op.conn # c
        BY <1>2, <1>6, <2>1, <2>6, <3>1, <3>3 DEF SecretInv
      <3> QED
        BY <3>2, <3>3
    <2>10. SecretInv'
      BY <2>8, <2>9 DEF SecretInv
    <2> QED
      BY <2>1, <2>4, <2>5, <2>10, HandledSafe
  <1>7. CASE Refuses(s)
    BY <1>1, <1>2, <1>7, <1>a, GoesOn, EndedAt, RefusedSafe
  <1>8. CASE CreateConnection(s) /\ ~Refuses(s)
    <2>1. PICK pair \in Pairs : pair = [api |-> op.api, hook |-> op.hook]
      BY <1>3 DEF Pairs
    <2>2. PICK h : h = [hist EXCEPT !.asked[c] = pair]
      OBVIOUS
    <2>3. /\ db.conn[c] = "absent"
          /\ db' = [db EXCEPT !.conn[c] = "active", !.secret[c] = pair]
          /\ Succeeds(s, h)
      BY <1>8, <1>a, <1>b, <2>1, <2>2 DEF CreateConnection
    <2>4. h = [hist EXCEPT !.asked[c] = pair, !.raced = hist.raced]
      BY <1>2, <2>2 DEF HistRow
    <2>5. \A t \in Slots \ {s} : ~(At(t, "UpdateConnection", "write") /\ call[t].op.conn = c)
      BY <1>2, <2>3 DEF SecretInv
    <2> QED
      BY <1>6, <2>3, <2>4, <2>5
  <1>9. CASE WriteConnection(s)
    <2>a. PICK overlap : overlap = Overlaps(s, SameConnection)
      OBVIOUS
    <2>b. PICK seen : seen = call[s].seen
      OBVIOUS
    <2>1. /\ seen \in Pairs /\ db.conn[c] # "absent"
          /\ c \notin hist.raced => seen = db.secret[c] /\ db.secret[c] = hist.asked[c]
          /\ op.kind = "UpdateConnection"
      <3>1. At(s, "UpdateConnection", "write") /\ op.kind = "UpdateConnection"
        BY <1>9, <1>a DEF WriteConnection, At
      <3> QED
        BY <1>2, <1>3, <1>a, <1>b, <2>b, <3>1 DEF SecretInv
    <2>2. PICK status : status = (IF op.status = None THEN db.conn[c] ELSE op.status)
      OBVIOUS
    <2>3. PICK pair : pair = (IF op.api = None /\ op.hook = None THEN db.secret[c]
                              ELSE Rotated(seen, op))
      OBVIOUS
    <2>4. PICK asked : asked = Rotated(hist.asked[c], op)
      OBVIOUS
    <2>5. PICK raced : raced = (IF overlap THEN hist.raced \cup {c} ELSE hist.raced)
      OBVIOUS
    <2>6. PICK h : h = [hist EXCEPT !.asked[c] = asked, !.raced = raced]
      OBVIOUS
    <2>7. /\ db' = [db EXCEPT !.conn[c] = status, !.secret[c] = pair]
      BY <1>2, <1>3, <1>9, <1>a, <1>b, <2>b, <2>2, <2>3 DEF WriteConnection, Tables
    <2>8. Succeeds(s, h)
      BY <1>2, <1>3, <1>9, <1>a, <1>b, <2>a, <2>4, <2>5, <2>6 DEF WriteConnection, HistRow
    <2>9. status \in {"active", "disabled"} /\ pair \in Pairs /\ asked \in Pairs
      BY <1>3, <1>4, <1>5, <2>1, <2>2, <2>3, <2>4
    <2>10. ASSUME c \notin raced PROVE pair = asked
      <3>1. seen = hist.asked[c] /\ db.secret[c] = hist.asked[c] /\ hist.asked[c] \in Pairs
        BY <1>3, <1>4, <2>1, <2>5, <2>10
      <3>2. op.api = None /\ op.hook = None => Rotated(hist.asked[c], op) = hist.asked[c]
        BY <3>1 DEF Rotated, Pairs
      <3> QED
        BY <2>3, <2>4, <3>1, <3>2
    <2>11. ASSUME c \notin raced
           PROVE  \A t \in Slots \ {s} : ~(At(t, "UpdateConnection", "write")
                                             /\ call[t].op.conn = c)
      <3>1. ~Overlaps(s, SameConnection)
        BY <2>5, <2>11, <2>a
      <3> QED
        BY <1>a, <1>b, <2>1, <3>1 DEF Overlaps, SameConnection, At
    <2>12. hist.raced \subseteq raced
      BY <2>5
    <2> QED
      BY <1>6, <2>6, <2>7, <2>8, <2>9, <2>10, <2>11, <2>12
  <1> QED
    BY <1>7, <1>8, <1>9

---------------------------------------------------------------------------
(* The settings.                                                           *)
Columns == {"enabled", "invite", "quota"}

Fits(f, v) == (f = "quota" /\ v \in Nat) \/ (f \in {"enabled", "invite"} /\ v \in BOOLEAN)

LEMMA SettingsRows ==
    /\ \A row \in Settings : /\ DOMAIN row = Columns /\ row.quota = row["quota"]
                             /\ \A f \in Columns : Fits(f, row[f])
    /\ \A row, other \in Settings : (\A f \in Columns : row[f] = other[f]) => row = other
    /\ \A row : /\ row = [f \in Columns |-> row[f]]
                /\ \A f \in Columns : Fits(f, row[f])
                => row \in Settings
  <1>1. \A row \in Settings : /\ DOMAIN row = Columns /\ row.quota = row["quota"]
                              /\ \A f \in Columns : Fits(f, row[f])
    BY DEF Settings, Columns, Fits
  <1>2. \A row, other \in Settings : (\A f \in Columns : row[f] = other[f]) => row = other
    BY DEF Settings, Columns
  <1>3. \A row : /\ row = [f \in Columns |-> row[f]]
                 /\ \A f \in Columns : Fits(f, row[f])
                 => row \in Settings
    BY DEF Settings, Columns, Fits
  <1> QED
    BY <1>1, <1>2, <1>3

LEMMA PutColumn ==
    ASSUME NEW row \in Settings, NEW f \in Columns, NEW v, Fits(f, v)
    PROVE  /\ [row EXCEPT ![f] = v] \in Settings /\ [row EXCEPT ![f] = v][f] = v
           /\ \A g \in Columns \ {f} : [row EXCEPT ![f] = v][g] = row[g]
  <1> DEFINE new == [row EXCEPT ![f] = v]
  <1>1. DOMAIN row = Columns /\ row = [g \in Columns |-> row[g]]
    BY SettingsRows DEF Settings, Columns
  <1>2. new = [g \in Columns |-> new[g]] /\ new[f] = v
        /\ \A g \in Columns \ {f} : new[g] = row[g]
    BY <1>1
  <1> QED
    BY <1>2, SettingsRows

\* What an update of the settings asks for.
LEMMA SetRows ==
    ASSUME NEW op, WellFormed(op), op.kind = "UpdateSettings"
    PROVE  /\ Cardinality(DOMAIN op.set) \in Nat /\ Cardinality(DOMAIN op.set) > 0
           /\ DOMAIN op.set = 1..Cardinality(DOMAIN op.set)
           /\ \A j \in DOMAIN op.set : op.set[j][1] \in Columns /\ Fits(op.set[j][1], op.set[j][2])
           /\ \A j, l \in DOMAIN op.set : op.set[j][1] = op.set[l][1] => j = l
  <1>1. PICK n : n = Cardinality(DOMAIN op.set)
    OBVIOUS
  <1>2. /\ IsFiniteSet(DOMAIN op.set) /\ n > 0 /\ DOMAIN op.set = 1..n
        /\ \A j \in 1..n : \/ op.set[j][1] = "quota" /\ op.set[j][2] \in Nat
                           \/ op.set[j][1] \in {"enabled", "invite"} /\ op.set[j][2] \in BOOLEAN
        /\ \A j, l \in 1..n : op.set[j][1] = op.set[l][1] => j = l
    BY <1>1 DEF WellFormed
  <1>3. n \in Nat
    BY <1>1, <1>2, FS_CardinalityType
  <1> QED
    BY <1>1, <1>2, <1>3 DEF Columns, Fits

LEMMA StartSettingsSafe ==
    ASSUME Safe, NEW s \in Slots, StartSettings(s)
    PROVE  Safe'
  <1>1. /\ call[s].at \in Working /\ call[s].op.kind = "UpdateSettings" /\ Typed /\ SettingsInv
        /\ call[s].at # "write" /\ CallsRight /\ call[s].at # "idle" /\ HistRow(hist)
        /\ call' = [call EXCEPT ![s].at = "write", ![s].seen = 1]
        /\ UNCHANGED <<db, records, menu>> /\ db \in Tables /\ References(db)
    BY DEF StartSettings, At, Working, Safe, LimitsInv, Typed, TypeOK
  <1>2. Moved(s, "write", 1) /\ WellFormed(call[s].op)
    BY <1>1, Moves, CallRows
  <1>3. /\ HistRow(hist') /\ hist.raced \subseteq hist'.raced
        /\ hist'.intent = hist.intent /\ hist'.ran = hist.ran
        /\ hist'.topQuota = hist.topQuota /\ hist'.asked = hist.asked
        /\ hist'.wanted = hist.wanted /\ hist'.invited = hist.invited
        /\ "settings" \notin hist'.raced => \A t \in Slots : ~Applying(t)
    BY <1>1 DEF StartSettings, HistRow, Applying
  <1>4. Handled(s, hist')
    BY <1>1, <1>2, <1>3 DEF Handled, Moved, Working
  <1>5. QuotaKept /\ RemovalKept /\ InviteKept /\ SecretKept
    BY <1>1, <1>3, <1>4, OtherKinds DEF QuotaKept, RemovalKept, InviteKept, SecretKept
  <1>6. \A t \in Slots : Applying(t)' =>
          \/ t # s /\ Applying(t) /\ call'[t] = call[t]
          \/ t = s /\ call'[t].seen = 1 /\ call'[t].op = call[s].op
    BY <1>2, EndedAt DEF Applying, At, Moved, Others
  <1>7. 1 \in DOMAIN call[s].op.set
    BY <1>1, <1>2, SetRows
  <1>8. \A t \in Slots : Applying(t)' => call'[t].seen \in DOMAIN call'[t].op.set
    BY <1>1, <1>6, <1>7 DEF SettingsInv
  <1>9. ASSUME "settings" \notin hist'.raced
        PROVE  /\ \A t \in Slots : Applying(t)' => t = s /\ call'[t].seen = 1
                                                   /\ call'[t].op = call[s].op
               /\ db'.settings = hist'.wanted /\ Applying(s)'
    <2>1. "settings" \notin hist.raced /\ \A t \in Slots : ~Applying(t)
      BY <1>3, <1>9
    <2>2. Applying(s)'
      BY <1>1, <1>2 DEF Applying, At, Moved
    <2> QED
      BY <1>1, <1>3, <1>6, <2>1, <2>2 DEF SettingsInv
  <1>10. ASSUME "settings" \notin hist'.raced, NEW t \in Slots, Applying(t)'
         PROVE  {j \in DOMAIN call'[t].op.set : j < call'[t].seen} = {}
    <2>1. call'[t].seen = 1 /\ call'[t].op = call[s].op
      BY <1>9, <1>10
    <2>2. \A j \in DOMAIN call[s].op.set : j \in Nat /\ j >= 1
      BY <1>1, <1>2, SetRows
    <2> QED
      BY <2>1, <2>2
  <1>11. SettingsInv'
    BY <1>1, <1>8, <1>9, <1>10 DEF SettingsInv
  <1> QED
    BY <1>1, <1>4, <1>5, <1>11, HandledSafe DEF References

\* The settings as an update asks for them.
Asked(set, wanted) ==
    [f \in DOMAIN wanted |->
       IF \E j \in DOMAIN set : set[j][1] = f
       THEN set[CHOOSE j \in DOMAIN set : set[j][1] = f][2] ELSE wanted[f]]

LEMMA AskedRow ==
    ASSUME NEW op, WellFormed(op), op.kind = "UpdateSettings", NEW wanted \in Settings
    PROVE  /\ Asked(op.set, wanted) \in Settings
           /\ \A j \in DOMAIN op.set : Asked(op.set, wanted)[op.set[j][1]] = op.set[j][2]
           /\ \A f \in Columns : (\A j \in DOMAIN op.set : op.set[j][1] # f) =>
                Asked(op.set, wanted)[f] = wanted[f]
  <1> DEFINE new == Asked(op.set, wanted)
  <1>1. PICK set : set = op.set
    OBVIOUS
  <1>2. /\ \A j \in DOMAIN set : set[j][1] \in Columns /\ Fits(set[j][1], set[j][2])
        /\ \A j, l \in DOMAIN set : set[j][1] = set[l][1] => j = l
    BY <1>1, SetRows
  <1>3. DOMAIN wanted = Columns /\ \A f \in Columns : Fits(f, wanted[f])
    BY SettingsRows
  <1>4. /\ new = [f \in Columns |-> new[f]]
        /\ \A f \in Columns : (\A j \in DOMAIN set : set[j][1] # f) => new[f] = wanted[f]
    BY <1>1, <1>3 DEF Asked
  <1>5. ASSUME NEW j \in DOMAIN set PROVE new[set[j][1]] = set[j][2]
    <2>1. PICK f : f = set[j][1]
      OBVIOUS
    <2>2. (CHOOSE l \in DOMAIN set : set[l][1] = f) = j
      BY <1>2, <2>1
    <2> QED
      BY <1>1, <1>2, <1>3, <1>5, <2>1, <2>2 DEF Asked
  <1>6. \A f \in Columns : Fits(f, new[f])
    BY <1>2, <1>3, <1>4, <1>5
  <1> QED
    BY <1>1, <1>4, <1>5, <1>6, SettingsRows

LEMMA ApplySettingSafe ==
    ASSUME Safe, NEW s \in Slots, ApplySetting(s)
    PROVE  Safe'
  <1>a. PICK op : op = call[s].op
    OBVIOUS
  <1>b. PICK i : i = call[s].seen
    OBVIOUS
  <1>c. PICK key : key = op.set[i][1]
    OBVIOUS
  <1>d. PICK value : value = op.set[i][2]
    OBVIOUS
  <1>e. PICK n : n = Cardinality(DOMAIN op.set)
    OBVIOUS
  <1>f. PICK top : top = (IF key = "quota" /\ value > hist.topQuota THEN value
                          ELSE hist.topQuota)
    OBVIOUS
  <1>g. PICK applied : applied = Asked(op.set, hist.wanted)
    OBVIOUS
  <1>1. /\ call[s].at \in Working /\ op.kind = "UpdateSettings" /\ call[s].at = "write"
        /\ Applying(s) /\ call[s].at # "idle"
        /\ db' = [db EXCEPT !.settings[key] = value]
        /\ IF i = n
           THEN Succeeds(s, [hist EXCEPT !.topQuota = top, !.wanted = applied])
           ELSE /\ call' = [call EXCEPT ![s].seen = i + 1]
                /\ hist' = [hist EXCEPT !.topQuota = top]
                /\ UNCHANGED <<records, menu, calls, faults>>
    BY <1>a, <1>b, <1>c, <1>d, <1>e, <1>f, <1>g DEF ApplySetting, At, Working, Applying, Asked
  <1>2. /\ Typed /\ db \in Tables /\ References(db) /\ HistRow(hist) /\ WellFormed(op)
        /\ SettingsInv /\ QuotaInv /\ CallsRight
        /\ hist.wanted \in Settings /\ db.settings \in Settings /\ hist.topQuota \in Nat
    BY <1>1, <1>a, CallRows DEF Safe, Typed, TypeOK, LimitsInv, HistRow, Tables
  <1>3. /\ n \in Nat /\ DOMAIN op.set = 1..n /\ i \in 1..n
        /\ \A j \in 1..n : op.set[j][1] \in Columns /\ Fits(op.set[j][1], op.set[j][2])
        /\ \A j, l \in 1..n : op.set[j][1] = op.set[l][1] => j = l
    <2>1. i \in DOMAIN op.set
      BY <1>1, <1>2, <1>a, <1>b DEF SettingsInv
    <2>2. /\ n \in Nat /\ DOMAIN op.set = 1..n
          /\ \A j \in DOMAIN op.set : op.set[j][1] \in Columns /\ Fits(op.set[j][1], op.set[j][2])
          /\ \A j, l \in DOMAIN op.set : op.set[j][1] = op.set[l][1] => j = l
      BY <1>1, <1>2, <1>e, SetRows
    <2> QED
      BY <2>1, <2>2
  <1>4. key \in Columns /\ Fits(key, value)
    BY <1>3, <1>c, <1>d
  <1>5. PICK row : row = [db.settings EXCEPT ![key] = value]
    OBVIOUS
  <1>6. /\ row \in Settings /\ row[key] = value
        /\ \A g \in Columns \ {key} : row[g] = db.settings[g]
    BY <1>2, <1>4, <1>5, PutColumn
  <1>7. db' = [db EXCEPT !.settings = row]
    BY <1>1, <1>2, <1>5 DEF Tables
  <1>8. /\ db' \in Tables /\ db'.settings = row
        /\ db'.user = db.user /\ db'.role = db.role /\ db'.assigned = db.assigned
        /\ db'.domain = db.domain /\ db'.mailbox = db.mailbox /\ db'.member = db.member
        /\ db'.conn = db.conn /\ db'.secret = db.secret /\ db'.used = db.used
    BY <1>2, <1>6, <1>7, PutSettings
  <1>9. References(db')
    BY <1>2, <1>8 DEF References
  <1>10. /\ top \in Nat /\ hist.topQuota <= top /\ row["quota"] <= top
    <2>1. /\ key = "quota" => value \in Nat
      BY <1>4 DEF Fits
    <2>2. db.settings["quota"] \in Nat /\ db.settings["quota"] <= hist.topQuota
      BY <1>2, SettingsRows DEF QuotaInv, Columns, Fits
    <2>3. top \in Nat /\ hist.topQuota <= top /\ (key = "quota" => value <= top)
      BY <1>2, <1>f, <2>1
    <2>4. key # "quota" => row["quota"] = db.settings["quota"]
      BY <1>6 DEF Columns
    <2> QED
      BY <1>2, <1>6, <2>1, <2>2, <2>3, <2>4
  <1>11. ASSUME NEW h, Handled(s, h), h.topQuota = top
         PROVE  QuotaInv'
    <2>1. /\ hist'.topQuota = top /\ hist.raced \subseteq hist'.raced
          /\ \A t \in Slots : At(t, "CreateMailbox", "write")' =>
               call'[t] = call[t] /\ At(t, "CreateMailbox", "write")
      <3>1. \A t \in Slots : At(t, "CreateMailbox", "write")' => call'[t] = call[t]
        BY <1>1, <1>2, <1>a, <1>11, OtherCalls
      <3> QED
        BY <1>11, <3>1 DEF Handled, At
    <2>2. \A u : Owned(u)' = Owned(u)
      BY <1>8 DEF Owned, Exists
    <2>3. db'.settings.quota <= hist'.topQuota
      BY <1>6, <1>8, <1>10, <2>1, SettingsRows
    <2>4. ASSUME NEW u \in Users, u \notin hist'.raced
          PROVE  /\ Cardinality(Owned(u)') <= hist'.topQuota
                 /\ \A t \in Slots : At(t, "CreateMailbox", "write")' /\ call'[t].op.by = u =>
                      Cardinality(Owned(u)') < hist'.topQuota
      BY <1>2, <1>10, <2>1, <2>2, <2>4, OwnedFinite DEF QuotaInv
    <2> QED
      BY <2>3, <2>4 DEF QuotaInv
  <1>12. ASSUME "settings" \notin hist.raced
         PROVE  /\ \A t \in Slots : Applying(t) => t = s
                /\ \A j \in 1..n : j < i => db.settings[op.set[j][1]] = op.set[j][2]
                /\ \A f \in Columns : (\A j \in 1..n : j < i => op.set[j][1] # f) =>
                     db.settings[f] = hist.wanted[f]
    <2>1. \A t \in Slots : Applying(t) => t = s
      BY <1>1, <1>2, <1>12 DEF SettingsInv
    <2>2. /\ \A j \in {j \in DOMAIN op.set : j < i} : db.settings[op.set[j][1]] = op.set[j][2]
          /\ \A f \in Columns : (\A j \in {j \in DOMAIN op.set : j < i} : op.set[j][1] # f) =>
               db.settings[f] = hist.wanted[f]
      BY <1>1, <1>2, <1>12, <1>a, <1>b DEF SettingsInv, Columns
    <2> QED
      BY <1>3, <2>1, <2>2
  <1>13. ASSUME "settings" \notin hist.raced
         PROVE  /\ \A j \in 1..n : j <= i => row[op.set[j][1]] = op.set[j][2]
                /\ \A f \in Columns : (\A j \in 1..n : j <= i => op.set[j][1] # f) =>
                     row[f] = hist.wanted[f]
    <2>1. ASSUME NEW j \in 1..n, j <= i PROVE row[op.set[j][1]] = op.set[j][2]
      <3>1. CASE j = i
        BY <1>6, <1>c, <1>d, <3>1
      <3>2. CASE j < i
        BY <1>3, <1>6, <1>12, <1>13, <1>c, <3>2
      <3> QED
        BY <1>3, <2>1, <3>1, <3>2
    <2>2. ASSUME NEW f \in Columns, \A j \in 1..n : j <= i => op.set[j][1] # f
          PROVE  row[f] = hist.wanted[f]
      <3>1. f # key
        BY <1>3, <1>c, <2>2
      <3>2. \A j \in 1..n : j < i => op.set[j][1] # f
        BY <1>3, <2>2
      <3> QED
        BY <1>6, <1>12, <1>13, <3>1, <3>2
    <2> QED
      BY <2>1, <2>2
  <1>14. CASE i = n
    <2>1. PICK h : h = [hist EXCEPT !.topQuota = top, !.wanted = applied]
      OBVIOUS
    <2>2. /\ applied \in Settings
          /\ \A j \in 1..n : applied[op.set[j][1]] = op.set[j][2]
          /\ \A f \in Columns : (\A j \in 1..n : op.set[j][1] # f) => applied[f] = hist.wanted[f]
      <3>1. /\ applied \in Settings
            /\ \A j \in DOMAIN op.set : applied[op.set[j][1]] = op.set[j][2]
            /\ \A f \in Columns : (\A j \in DOMAIN op.set : op.set[j][1] # f) =>
                 applied[f] = hist.wanted[f]
        <4>1. WellFormed(op) /\ op.kind = "UpdateSettings" /\ hist.wanted \in Settings
          BY <1>1, <1>2
        <4>2. /\ Asked(op.set, hist.wanted) \in Settings
              /\ \A j \in DOMAIN op.set :
                   Asked(op.set, hist.wanted)[op.set[j][1]] = op.set[j][2]
              /\ \A f \in Columns : (\A j \in DOMAIN op.set : op.set[j][1] # f) =>
                   Asked(op.set, hist.wanted)[f] = hist.wanted[f]
          BY ONLY <4>1, AskedRow
        <4> QED
          BY <1>g, <4>2
      <3> QED
        BY <1>3, <3>1
    <2>3. /\ HistRow(h) /\ h.ran = hist.ran /\ h.intent = hist.intent
          /\ h.raced = hist.raced /\ h.invited = hist.invited
          /\ h.topQuota = top /\ h.asked = hist.asked /\ h.wanted = applied
      BY <1>2, <1>10, <2>1, <2>2 DEF HistRow
    <2>4. Succeeds(s, h)
      BY <1>1, <1>14, <2>1
    <2>5. Handled(s, h) /\ call'[s].at # "write"
      BY <1>1, <1>2, <2>3, <2>4, Finishes
    <2>6. RemovalKept /\ InviteKept /\ SecretKept
      BY <1>8, <2>3, <2>5, FinishedParts
    <2>7. hist'.wanted = applied /\ hist'.raced = hist.raced
      BY <2>3, <2>5 DEF Handled
    <2>8. \A t \in Slots : Applying(t)' => t # s /\ call'[t] = call[t] /\ Applying(t)
      BY <2>5, FinishedKeeps DEF Applying
    <2>9. \A t \in Slots : Applying(t)' => call'[t].seen \in DOMAIN call'[t].op.set
      BY <1>2, <2>8 DEF SettingsInv
    <2>10. ASSUME "settings" \notin hist'.raced
           PROVE  /\ \A t \in Slots : ~Applying(t)'
                  /\ db'.settings = hist'.wanted
      <3>1. \A t \in Slots : ~Applying(t)'
        BY <1>12, <2>7, <2>8, <2>10
      <3>2. ASSUME NEW f \in Columns PROVE row[f] = applied[f]
        <4>1. CASE \E j \in 1..n : op.set[j][1] = f
          BY <1>3, <1>13, <1>14, <2>2, <2>7, <2>10, <4>1
        <4>2. CASE \A j \in 1..n : op.set[j][1] # f
          BY <1>3, <1>13, <1>14, <2>2, <2>7, <2>10, <4>2
        <4> QED
          BY <4>1, <4>2
      <3> QED
        BY <1>6, <1>8, <2>2, <2>7, <3>1, <3>2, SettingsRows
    <2>11. SettingsInv'
      BY <2>9, <2>10 DEF SettingsInv
    <2> QED
      BY <1>8, <1>9, <1>11, <2>3, <2>5, <2>6, <2>11, HandledSafe
  <1>15. CASE i # n
    <2>1. PICK h : h = [hist EXCEPT !.topQuota = top]
      OBVIOUS
    <2>2. /\ HistRow(h) /\ h.ran = hist.ran /\ h.intent = hist.intent
          /\ h.raced = hist.raced /\ h.invited = hist.invited
          /\ h.topQuota = top /\ h.asked = hist.asked /\ h.wanted = hist.wanted
      BY <1>2, <1>10, <2>1 DEF HistRow
    <2>3. /\ hist' = h /\ UNCHANGED <<records, menu>> /\ Moved(s, "write", i + 1)
      <3>1. /\ call' = [call EXCEPT ![s].seen = i + 1] /\ hist' = h /\ UNCHANGED <<records, menu>>
        BY <1>1, <1>15, <2>1
      <3>2. Moved(s, call[s].at, i + 1)
        BY <1>2, <3>1, Moves
      <3> QED
        BY <1>1, <3>1, <3>2
    <2>4. Handled(s, h)
      BY <1>1, <1>2, <2>2, <2>3 DEF Handled, Moved, Working
    <2>5. RemovalKept /\ InviteKept /\ SecretKept
      <3>1. \A kind : kind # "UpdateSettings" =>
              \A t \in Slots : At(t, kind, "write")' => call'[t] = call[t]
        BY <1>1, <1>a, <2>4, OtherCalls
      <3> QED
        BY <1>8, <2>2, <2>3, <3>1 DEF RemovalKept, InviteKept, SecretKept
    <2>6. \A t \in Slots : Applying(t)' =>
            \/ t # s /\ call'[t] = call[t] /\ Applying(t)
            \/ t = s /\ call'[t].seen = i + 1 /\ call'[t].op = op
      BY <2>3, <1>a DEF Applying, At, Moved, Others
    <2>7. i + 1 \in 1..n
      BY <1>3, <1>15
    <2>8. \A t \in Slots : Applying(t)' => call'[t].seen \in DOMAIN call'[t].op.set
      BY <1>2, <1>3, <2>6, <2>7 DEF SettingsInv
    <2>9. Applying(s)'
      BY <1>1, <1>a, <2>3 DEF Applying, At, Moved
    <2>10. ASSUME "settings" \notin hist'.raced
           PROVE  \A t \in Slots : Applying(t)' =>
                    t = s /\ call'[t].seen = i + 1 /\ call'[t].op = op
      BY <1>12, <2>2, <2>3, <2>6, <2>10
    <2>11. ASSUME "settings" \notin hist'.raced, NEW t \in Slots, Applying(t)'
           PROVE  LET set == call'[t].op.set
                      past == {j \in DOMAIN set : j < call'[t].seen} IN
                  /\ \A j \in past : db'.settings[set[j][1]] = set[j][2]
                  /\ \A f \in {"enabled", "invite", "quota"} :
                       (\A j \in past : set[j][1] # f) => db'.settings[f] = hist'.wanted[f]
      <3>1. call'[t].op = op /\ call'[t].seen = i + 1
        BY <2>10, <2>11
      <3>2. \A j : j \in {l \in DOMAIN op.set : l < i + 1} <=> j \in 1..n /\ j <= i
        BY <1>3
      <3>3. "settings" \notin hist.raced /\ hist'.wanted = hist.wanted
        BY <2>2, <2>3, <2>11
      <3> QED
        BY <1>8, <1>13, <3>1, <3>2, <3>3 DEF Columns
    <2>12. SettingsInv'
      <3>1. ASSUME "settings" \notin hist'.raced
            PROVE  /\ \A t, r \in Slots : Applying(t)' /\ Applying(r)' => t = r
                   /\ ~(\A t \in Slots : ~Applying(t)')
        BY <2>9, <2>10, <3>1
      <3> QED
        BY <2>8, <2>11, <3>1 DEF SettingsInv
    <2> QED
      BY <1>8, <1>9, <1>11, <2>2, <2>4, <2>5, <2>12, HandledSafe
  <1> QED
    BY <1>14, <1>15

---------------------------------------------------------------------------
(* The theorems.                                                           *)
LEMMA SafeAtInit == Init => Safe
  <1> SUFFICES ASSUME Init PROVE Safe
    OBVIOUS
  <1>1. /\ db = Seed /\ db \in Tables /\ References(db) /\ records = {} /\ menu \in Menus
        /\ call = [s \in Slots |-> Idle] /\ \A s \in Slots : call[s] = Idle
        /\ db.used = 0
    BY SeedAssumption DEF Init, References
  <1>2. /\ HistRow(hist) /\ hist.ran = [k \in Keys |-> 0]
        /\ hist.raced = {} /\ hist.invited = {} /\ hist.topQuota = db.settings.quota
        /\ hist.asked = db.secret /\ hist.wanted = db.settings
    <2>1. /\ Seed.secret \in [Connections -> Pairs] /\ Seed.settings \in Settings
          /\ Seed.settings.quota \in Nat
      BY SeedAssumption DEF Tables, Pairs, Settings
    <2> QED
      BY <1>1, <2>1 DEF Init, HistRow
  <1>3. CallsRight
    <2>1. ASSUME NEW s \in Slots PROVE CallRight(s)
      BY <1>1 DEF CallRight, Idle
    <2> QED
      BY <1>1, <2>1 DEF CallsRight
  <1>4. Typed
    BY <1>1, <1>2, <1>3 DEF Typed, TypeOK
  <1>5. \A s \in Slots : call[s].key = None /\ call[s].at = "idle"
    BY <1>1 DEF Idle
  <1>6. OnceInv
    BY <1>1, <1>2, <1>5 DEF OnceInv, Undisturbed
  <1>7. QuotaInv
    <2>1. ASSUME NEW u \in Users PROVE Cardinality(Owned(u)) <= hist.topQuota
      <3>1. Owned(u) = {m \in Mailboxes : Seed.mailbox[m] = [status |-> "active", owner |-> u]}
        BY <1>1 DEF Owned, Exists, Tables
      <3> QED
        BY <1>1, <1>2, <3>1, SeedAssumption
    <2>2. db.settings.quota \in Nat
      BY <1>1 DEF Tables, Settings
    <2> QED
      BY <1>2, <1>5, <2>1, <2>2 DEF QuotaInv, At
  <1>8. RemovalInv /\ SecretInv /\ SettingsInv
    BY <1>2, <1>5 DEF RemovalInv, SecretInv, SettingsInv, Applying, At
  <1>9. InviteInv
    BY <1>1, <1>2, <1>5, FS_EmptySet DEF InviteInv, At
  <1> QED
    BY <1>4, <1>6, <1>7, <1>8, <1>9 DEF Safe, LimitsInv

LEMMA SafeStutters ==
    ASSUME Safe, UNCHANGED vars
    PROVE  Safe'
  <1>1. db' = db /\ records' = records /\ call' = call /\ menu' = menu /\ hist' = hist
    BY DEF vars
  <1>2. Typed'
    BY <1>1 DEF Safe, Typed, TypeOK, References, CallsRight, CallRight
  <1>3. OnceInv'
    BY <1>1 DEF Safe, OnceInv, Undisturbed
  <1>4. QuotaInv' /\ RemovalInv' /\ InviteInv' /\ SecretInv' /\ SettingsInv'
    BY <1>1, Frames DEF Safe, LimitsInv, Typed, QuotaKept, RemovalKept, InviteKept,
                        SecretKept, SettingsKept
  <1> QED
    BY <1>2, <1>3, <1>4 DEF Safe, LimitsInv

LEMMA SafeSteps ==
    ASSUME Safe, Next
    PROVE  Safe'
  <1>1. Typed /\ OnceInv
    BY DEF Safe
  <1>2. CASE Expire \/ Cleanup
    BY <1>1, <1>2, ExpireAround, AroundSafe
  <1>3. ASSUME NEW s \in Slots,
               Arrive(s) \/ AnswerFromRecord(s) \/ Forward(s) \/ Record(s) \/ Crash(s)
        PROVE  Safe'
    <2>1. Around
      BY <1>1, <1>3, ArriveAround, LookupAround, CrashAround
    <2> QED
      BY <2>1, AroundSafe
  <1>4. ASSUME NEW s \in Slots, MailboxCall(s) PROVE Safe'
    <2>1. CASE ReadDomain(s) \/ ReadQuota(s) \/ InsertMailbox(s)
      BY <2>1, ReadDomainSafe, ReadQuotaSafe, InsertMailboxSafe
    <2>2. CASE CheckRemoveMailbox(s) \/ RemoveMailbox(s)
      BY <2>2, CheckRemoveSafe, RemoveMailboxSafe
    <2>3. CASE CheckUpsertMember(s) \/ CheckRemoveMember(s) \/ CheckAccess(s)
      BY <2>3, ChecksPlain, PlainSteps
    <2>4. CASE RemoveMember(s) \/ PutMember(s) \/ ChangeAccess(s)
      BY <2>4, MembersPlain, PlainSteps
    <2> QED
      BY <1>4, <2>1, <2>2, <2>3, <2>4 DEF MailboxCall
  <1>5. ASSUME NEW s \in Slots, UserCall(s) PROVE Safe'
    <2>1. CASE CreateUser(s) \/ UpdateUser(s) \/ DeleteUser(s)
      BY <2>1, UsersPlain, PlainSteps
    <2>2. CASE CreateRole(s) \/ DeleteRole(s)
      BY <2>2, RolesPlain, PlainSteps
    <2>3. CASE ReadRegistration(s) \/ ReadInvitation(s) \/ InsertUser(s)
      BY <2>3, ReadRegistrationSafe, InsertUserSafe
    <2> QED
      BY <1>5, <2>1, <2>2, <2>3 DEF UserCall
  <1>6. ASSUME NEW s \in Slots, DomainCall(s) PROVE Safe'
    <2>1. CASE CheckUpdateDomain(s) \/ CheckDeleteDomain(s) \/ CheckCreateConnection(s)
      BY <2>1, ChecksPlain, PlainSteps
    <2>2. CASE UpdateDomain(s) \/ DeleteDomain(s)
      BY <2>2, DomainsPlain, PlainSteps
    <2>3. CASE ReadConnection(s) \/ CreateConnection(s) \/ WriteConnection(s)
      BY <2>3, ReadConnectionSafe, WriteConnectionSafe
    <2>4. CASE StartSettings(s) \/ ApplySetting(s)
      BY <2>4, StartSettingsSafe, ApplySettingSafe
    <2> QED
      BY <1>6, <2>1, <2>2, <2>3, <2>4 DEF DomainCall
  <1> QED
    BY <1>2, <1>3, <1>4, <1>5, <1>6 DEF Next

(* Tables, calls and history together: no step of any call, of the cleanup  *)
(* of records or of a crash breaks the invariant the theorems below rest on.*)
THEOREM AlwaysSafe == Spec => []Safe
  <1>1. Init => Safe
    BY SafeAtInit
  <1>2. Safe /\ [Next]_vars => Safe'
    BY SafeSteps, SafeStutters
  <1> QED
    BY <1>1, <1>2, PTL DEF Spec

(* The tables hold what their columns allow; every role that a user has    *)
(* exists, and so does the domain of every mailbox, whatever deletions of  *)
(* roles and domains run between the checks and the writes of other calls. *)
THEOREM TypeCorrect == Spec => []TypeOK
  <1>1. Safe => TypeOK
    BY DEF Safe, Typed
  <1> QED
    BY <1>1, AlwaysSafe, PTL

(* A mutation sent again under its Idempotency-Key runs once, with any     *)
(* body, unless two calls with the key were in flight together, the worker *)
(* stopped before the record was written, or the record had expired.       *)
THEOREM RunsOnce == Spec => []OnceUndisturbed
  <1>1. Safe => OnceUndisturbed
    BY DEF Safe, Typed, OnceInv, Undisturbed, OnceUndisturbed, HistRow
  <1> QED
    BY <1>1, AlwaysSafe, PTL

(* A user exceeds the mailbox quota, and a registration key its uses, only *)
(* if two requests had counted before either inserted; the counter of the  *)
(* key is exact up to its limit.                                           *)
THEOREM LimitsKept == Spec => []LimitsHold
  <1>1. ASSUME Safe PROVE LimitsHold
    <2>1. QuotaInv /\ InviteInv /\ hist.topQuota \in Nat
          /\ Cardinality(hist.invited) \in Nat
      BY <1>1, FS_CardinalityType DEF Safe, LimitsInv, Typed, HistRow, InviteInv
    <2>2. \A u \in Users : Cardinality(Owned(u)) > hist.topQuota => u \in hist.raced
      BY <2>1, OwnedFinite DEF QuotaInv
    <2> QED
      BY <2>1, <2>2 DEF InviteInv, LimitsHold
  <1> QED
    BY <1>1, AlwaysSafe, PTL

(* A connection holds its API key and its webhook secret as each was last  *)
(* set, and the settings are what the finished updates made them, unless   *)
(* two updates of the same thing overlapped or one was cut short.          *)
THEOREM UpdatesKept == Spec => []UpdatesStick
  <1>1. Safe => UpdatesStick
    BY DEF Safe, LimitsInv, SecretInv, SettingsInv, Applying, UpdatesStick
  <1> QED
    BY <1>1, AlwaysSafe, PTL
=============================================================================
