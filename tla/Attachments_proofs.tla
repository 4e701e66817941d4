-------------------------- MODULE Attachments_proofs --------------------------
(***************************************************************************)
(* Theorems about Attachments and about Storage, the object store under it.*)
(* For any number of uploads, mails, files from before the catalog,        *)
(* requests and bodies: type correctness, and that what an upload or a     *)
(* message refers to is there with its bytes.  For any number of keys,     *)
(* bodies, get calls, puts, deletes and faults: what was last put is what  *)
(* the store holds and what a get finds, before, during and after the move *)
(* from KV to R2.                                                          *)
(***************************************************************************)
EXTENDS Attachments, Storage, TLAPS

-----------------------------------------------------------------------------
(* Storage.                                                                *)
USE StorageAssumption

---------------------------------------------------------------------------
(* Types.                                                                  *)
Bodies == [content : Bytes, form : {"slot", "sidecar"}]
Objects == [content : Bytes, meta : BOOLEAN]
Ops == [op : {"put", "delete", Null}, content : Bytes \cup {Null},
        form : {"slot", "sidecar", Null}, todo : SUBSET {"body", "side", "object"}]

(* A call has the writes left that it can make.                            *)
Equipped(o) ==
    /\ o.op = Null => o.todo = {}
    /\ o.op = "put" => o.content \in Bytes /\ ("body" \in o.todo => o.form # Null)

Gets == [at : {"idle", "object", "body", "done"}, key : Keys \cup {Null},
         primary : BOOLEAN, got : Bytes \cup {Null}, stable : BOOLEAN]
Copies == [at : {"idle", "next", "read", "meta", "head", "put", "verify", "deleteSide",
                 "deleteBody"},
           page : SUBSET Keys, key : Keys \cup {Null}, content : Bytes \cup {Null},
           meta : BOOLEAN, found : {Null}]

(* The script has the key, and then the bytes, that it is at work on.      *)
Engaged(s) ==
    /\ s.at \notin {"idle", "next"} => s.key \in Keys
    /\ s.at \notin {"idle", "next", "read"} => s.content \in Bytes

Histories == [latest : [Keys -> Bytes \cup {Null}], raced : SUBSET (Keys \cup Readers),
              unsure : SUBSET Keys]

StoresTyped ==
    /\ bound \in {"kv", "r2"}
    /\ body \in [Keys -> Bodies \cup {Null}] /\ side \in [Keys -> BOOLEAN]
    /\ bucket \in [Keys -> Objects \cup {Null}]
    /\ app \in [Keys -> Ops] /\ \A k \in Keys : Equipped(app[k])
    /\ reader \in [Readers -> Gets] /\ \A r \in Readers : reader[r].at # "idle" => reader[r].key \in Keys
    /\ script \in Copies /\ Engaged(script)
    /\ hist \in Histories

---------------------------------------------------------------------------
(* What the put or delete under way on a key has done so far, as long as   *)
(* the script was not at work on the key.  One that began on the KV store  *)
(* finds no R2 object.                                                     *)
Holds(place, content) == place # Null /\ place.content = content

PutRight(k) ==
    app[k].op = "put" =>
        /\ app[k].form = Null =>
             /\ bound = "r2" /\ app[k].todo \subseteq {"object"}
             /\ "object" \notin app[k].todo => Holds(bucket[k], app[k].content)
        /\ app[k].form # Null =>
             /\ bucket[k] = Null /\ "object" \notin app[k].todo
             /\ "body" \notin app[k].todo => Holds(body[k], app[k].content)

DeleteRight(k) ==
    app[k].op = "delete" =>
        /\ app[k].content = Null
        /\ "object" \notin app[k].todo => bucket[k] = Null
        /\ "body" \notin app[k].todo => body[k] = Null

(* An object without metadata is the script's copy of the body.            *)
CopyRight(k) ==
    bucket[k] # Null /\ ~bucket[k].meta /\ body[k] # Null
        => bucket[k].content = body[k].content

(* The script at work on a key: it has read the body that is there, and it *)
(* deletes that body once an object is in its place.                       *)
ScriptRight(k) ==
    Copying(k) =>
        /\ app[k].op = Null
        /\ Holds(body[k], script.content)
        /\ script.at = "put" => ~Matches(bucket[k])
        /\ script.at = "verify" => Holds(bucket[k], script.content)
        /\ script.at \in {"deleteSide", "deleteBody"} => bucket[k] # Null

KeyRight(k) ==
    k \notin hist.raced =>
        /\ PutRight(k) /\ DeleteRight(k) /\ CopyRight(k) /\ ScriptRight(k)
        /\ app[k].op = Null /\ k \notin hist.unsure => Found(k) = hist.latest[k]

(* A get of a key that nobody touches: what it is yet to find is there.    *)
GetRight(r) ==
    LET k == reader[r].key IN
    reader[r].at # "idle" /\ reader[r].stable /\ k \notin hist.raced =>
        /\ app[k].op = Null /\ k \notin hist.unsure /\ hist.latest[k] # Null
        /\ reader[r].at = "object" => bound = "r2"
        /\ reader[r].at = "body" /\ r \notin hist.raced => Holds(body[k], hist.latest[k])
        /\ reader[r].at = "done" /\ r \notin hist.raced => reader[r].got = hist.latest[k]

(* Before the binding is deployed nobody writes to R2, and nothing is there. *)
Before ==
    bound = "kv" =>
        /\ script.at = "idle"
        /\ \A k \in Keys : bucket[k] = Null /\ "object" \notin app[k].todo

StoreInv ==
    /\ StoresTyped /\ Before
    /\ \A k \in Keys : KeyRight(k)
    /\ \A r \in Readers : GetRight(r)

---------------------------------------------------------------------------
LEMMA Types ==
    ASSUME StoreInv
    PROVE  /\ StoresTyped /\ Before
           /\ \A k \in Keys : /\ KeyRight(k) /\ app[k] \in Ops /\ Equipped(app[k])
                              /\ body[k] \in Bodies \cup {Null}
                              /\ bucket[k] \in Objects \cup {Null}
                              /\ hist.latest[k] \in Bytes \cup {Null}
           /\ \A r \in Readers : /\ GetRight(r) /\ reader[r] \in Gets
                                 /\ reader[r].at # "idle" => reader[r].key \in Keys
           /\ script \in Copies /\ Engaged(script) /\ hist \in Histories
           /\ script.at # "idle" => bound = "r2"
  BY DEF StoreInv, StoresTyped, Before, Histories

(* A place holds a body when it is there and has it. *)
LEMMA Placed ==
    /\ \A b \in Bodies : b # Null /\ b.content \in Bytes /\ b.form # Null
    /\ \A o \in Objects : o # Null /\ o.content \in Bytes /\ o.meta \in BOOLEAN
    /\ \A c \in Bytes : c # Null
  BY DEF Bodies, Objects

LEMMA InitInv == StoreInit => StoreInv
  <1> SUFFICES ASSUME StoreInit PROVE StoreInv
    OBVIOUS
  <1>1. NoOp \in Ops /\ NoGet \in Gets /\ NoCopy \in Copies
        /\ NoOp.op = Null /\ NoOp.todo = {} /\ NoGet.at = "idle" /\ NoCopy.at = "idle"
    BY DEF NoOp, NoGet, NoCopy, Ops, Gets, Copies
  <1>2. StoresTyped
    <2>1. hist \in Histories
      BY DEF StoreInit, Histories
    <2> QED
      BY <1>1, <2>1 DEF StoreInit, StoresTyped, Equipped, Engaged
  <1>3. ASSUME NEW k \in Keys PROVE KeyRight(k)
    <2>1. /\ app[k] = NoOp /\ bucket[k] = Null /\ body[k] = Null /\ hist.latest[k] = Null
          /\ script.at = "idle"
      BY DEF StoreInit, NoCopy
    <2> QED
      BY <1>1, <2>1 DEF KeyRight, PutRight, DeleteRight, CopyRight, ScriptRight, Copying, Found
  <1>4. Before /\ \A r \in Readers : GetRight(r)
    BY <1>1 DEF StoreInit, Before, GetRight
  <1> QED
    BY <1>2, <1>3, <1>4 DEF StoreInv

---------------------------------------------------------------------------
(* What a step leaves alone.                                               *)
Quiet(k) ==
    /\ body'[k] = body[k] /\ bucket'[k] = bucket[k] /\ app'[k] = app[k]
    /\ hist'.latest[k] = hist.latest[k]
    /\ k \in hist'.unsure <=> k \in hist.unsure

RacesStay == hist.raced \subseteq hist'.raced

LEMMA KeyStays ==
    ASSUME StoreInv, NEW k \in Keys, Quiet(k), RacesStay, bound' = bound,
           Copying(k)' => script' = script
    PROVE  KeyRight(k)'
  <1>0. KeyRight(k)
    BY Types
  <1> SUFFICES ASSUME k \notin hist'.raced PROVE KeyRight(k)'
    BY DEF KeyRight
  <1>1. /\ PutRight(k) /\ DeleteRight(k) /\ CopyRight(k) /\ ScriptRight(k)
        /\ app[k].op = Null /\ k \notin hist.unsure => Found(k) = hist.latest[k]
    BY <1>0 DEF RacesStay, KeyRight
  <1>2. PutRight(k)' /\ DeleteRight(k)' /\ CopyRight(k)'
    BY <1>1 DEF Quiet, PutRight, DeleteRight, CopyRight, Holds
  <1>3. ScriptRight(k)'
    BY <1>1 DEF Quiet, ScriptRight, Copying, Holds, Matches
  <1>4. Found(k)' = Found(k)
    BY DEF Quiet, Found
  <1> QED
    BY <1>1, <1>2, <1>3, <1>4 DEF Quiet, KeyRight

LEMMA GetStays ==
    ASSUME StoreInv, NEW r \in Readers, RacesStay, bound' = bound,
           reader'[r] = reader[r], reader[r].at # "idle" => Quiet(reader[r].key)
    PROVE  GetRight(r)'
  <1>1. GetRight(r)
    BY Types
  <1> QED
    BY <1>1 DEF GetRight, RacesStay, Quiet, Holds

(* A get that may find either is not spoken of. *)
LEMMA UnstableGet ==
    ASSUME NEW r \in Readers, ~reader'[r].stable \/ reader'[r].at = "idle"
    PROVE  GetRight(r)'
  BY DEF GetRight

LEMMA BeforeStays ==
    ASSUME StoreInv, bound' = bound, bound = "r2" \/ UNCHANGED <<script, bucket>>,
           \A k \in Keys : "object" \in app'[k].todo
                            => "object" \in app[k].todo \/ bound = "r2"
    PROVE  Before'
  BY Types DEF Before

---------------------------------------------------------------------------
(* Deployment of the binding. *)
LEMMA DeployKeeps ==
    ASSUME StoreInv, Deploy
    PROVE  StoreInv'
  <1>1. /\ bound = "kv" /\ bound' = "r2"
        /\ UNCHANGED <<body, side, bucket, app, reader, script, puts, failures, hist>>
    BY DEF Deploy
  <1>2. StoresTyped' /\ Before'
    BY <1>1, Types DEF StoresTyped, Before
  <1>3. ASSUME NEW k \in Keys PROVE KeyRight(k)'
    <2>1. bucket[k] = Null /\ script.at = "idle" /\ KeyRight(k)
      BY <1>1, Types DEF Before
    <2>2. Found(k)' = Found(k)
      BY <1>1, <2>1 DEF Found
    <2>3. PutRight(k) => PutRight(k)'
      BY <1>1 DEF PutRight, Holds
    <2>4. ScriptRight(k)' /\ CopyRight(k)' /\ (DeleteRight(k) => DeleteRight(k)')
      BY <1>1, <2>1 DEF ScriptRight, CopyRight, DeleteRight, Copying
    <2> QED
      BY <1>1, <2>1, <2>2, <2>3, <2>4 DEF KeyRight
  <1>4. ASSUME NEW r \in Readers PROVE GetRight(r)'
    BY <1>1, Types DEF GetRight, Holds
  <1> QED
    BY <1>2, <1>3, <1>4 DEF StoreInv

---------------------------------------------------------------------------
(* The calls of the application.  A call begins on a key that the script   *)
(* is not at work on, or the key counts as raced.                          *)
LEMMA BeginsKeeps ==
    ASSUME StoreInv, NEW k \in Keys, NEW o \in Ops, o.op # Null, Equipped(o), Begins(k, o),
           "object" \in o.todo => bound = "r2",
           (/\ PutRight(k)' /\ DeleteRight(k)') \/ k \in hist.raced
    PROVE  StoreInv'
  <1>1. /\ app' = [app EXCEPT ![k] = o] /\ app[k].op = Null
        /\ reader' = [r \in Readers |->
                        IF reader[r].key = k THEN [reader[r] EXCEPT !.stable = FALSE]
                                             ELSE reader[r]]
        /\ hist' = [hist EXCEPT !.raced = IF Copying(k) THEN hist.raced \cup {k} ELSE hist.raced]
        /\ UNCHANGED <<bound, body, side, bucket, script>>
    BY DEF Begins, Unsettles
  <1>2. /\ hist'.latest = hist.latest /\ hist'.unsure = hist.unsure
        /\ RacesStay /\ (Copying(k) => k \in hist'.raced)
        /\ hist' \in Histories
    <2>1. Copying(k) \in BOOLEAN
      BY DEF Copying
    <2> QED
      BY <1>1, <2>1, Types DEF Histories, RacesStay
  <1>3. StoresTyped'
    <2>1. \A r \in Readers : /\ reader'[r] \in Gets
                             /\ reader'[r].at = reader[r].at /\ reader'[r].key = reader[r].key
      <3>1. ASSUME NEW r \in Readers
            PROVE  /\ [reader[r] EXCEPT !.stable = FALSE] \in Gets
                   /\ [reader[r] EXCEPT !.stable = FALSE].at = reader[r].at
                   /\ [reader[r] EXCEPT !.stable = FALSE].key = reader[r].key
        BY Types DEF Gets
      <3> QED
        BY <1>1, <3>1, Types
    <2>2. reader' \in [Readers -> Gets] /\ app' \in [Keys -> Ops]
          /\ \A n \in Keys : Equipped(app'[n])
      BY <1>1, <2>1, Types DEF StoresTyped
    <2> QED
      BY <1>1, <1>2, <2>1, <2>2, Types DEF StoresTyped
  <1>4. Before'
    <2>1. \A n \in Keys : "object" \in app'[n].todo
                            => "object" \in app[n].todo \/ bound = "r2"
      BY <1>1, Types DEF StoresTyped
    <2> QED
      BY <1>1, <2>1, BeforeStays
  <1>5. ASSUME NEW n \in Keys PROVE KeyRight(n)'
    <2>1. CASE n # k
      <3>1. Quiet(n)
        BY <1>1, <1>2, <2>1, Types DEF Quiet, StoresTyped
      <3> QED
        BY <1>1, <1>2, <3>1, KeyStays
    <2>2. CASE n = k
      <3> SUFFICES ASSUME k \notin hist'.raced PROVE KeyRight(k)'
        BY <2>2 DEF KeyRight
      <3>1. k \notin hist.raced /\ ~Copying(k) /\ KeyRight(k)
        BY <1>2, Types DEF RacesStay
      <3>2. app'[k].op # Null /\ ScriptRight(k)' /\ CopyRight(k)'
        BY <1>1, <3>1, Types DEF StoresTyped, ScriptRight, Copying, KeyRight, CopyRight
      <3> QED
        BY <3>1, <3>2 DEF KeyRight
    <2> QED
      BY <2>1, <2>2
  <1>6. ASSUME NEW r \in Readers PROVE GetRight(r)'
    <2>1. CASE reader[r].key = k
      <3>1. reader'[r].stable = FALSE
        BY <1>1, <2>1, Types DEF Gets
      <3> QED
        BY <3>1, UnstableGet
    <2>2. CASE reader[r].key # k
      <3>1. reader'[r] = reader[r]
        BY <1>1, <2>2
      <3>2. reader[r].at # "idle" => Quiet(reader[r].key)
        BY <1>1, <1>2, <2>2, Types DEF Quiet, StoresTyped
      <3> QED
        BY <1>1, <1>2, <3>1, <3>2, GetStays
    <2> QED
      BY <2>1, <2>2
  <1> QED
    BY <1>3, <1>4, <1>5, <1>6 DEF StoreInv

LEMMA PutKeeps ==
    ASSUME StoreInv, NEW k \in Keys, NEW c \in Bytes, Put(k, c)
    PROVE  StoreInv'
  <1>1. CASE bound = "r2"
    <2>1. PICK o : /\ o = [op |-> "put", content |-> c, form |-> Null, todo |-> {"object"}]
                   /\ Begins(k, o)
      BY <1>1 DEF Put
    <2>2. o \in Ops /\ o.op = "put" /\ o.op # Null /\ Equipped(o)
      BY <2>1 DEF Ops, Equipped
    <2>3. app'[k] = o /\ UNCHANGED <<bound, body, bucket>>
      BY <2>1, Types DEF Begins, StoresTyped
    <2>4. PutRight(k)' /\ DeleteRight(k)'
      BY <1>1, <2>1, <2>3 DEF PutRight, DeleteRight
    <2> QED
      BY <1>1, <2>1, <2>2, <2>4, BeginsKeeps
  <1>2. CASE bound = "kv"
    <2>1. PICK o : /\ Begins(k, o)
                   /\ \/ o = [op |-> "put", content |-> c, form |-> "slot", todo |-> {"body"}]
                      \/ o = [op |-> "put", content |-> c, form |-> "sidecar",
                              todo |-> {"body", "side"}]
      <3>1. PICK overflow \in BOOLEAN :
               Begins(k, [op |-> "put", content |-> c,
                          form |-> IF overflow THEN "sidecar" ELSE "slot",
                          todo |-> IF overflow THEN {"body", "side"} ELSE {"body"}])
        BY <1>2 DEF Put
      <3> QED
        BY <3>1
    <2>2. o \in Ops /\ o.op = "put" /\ o.op # Null /\ o.form # Null /\ Equipped(o)
          /\ "object" \notin o.todo /\ "body" \in o.todo
      BY <2>1 DEF Ops, Equipped
    <2>3. app'[k] = o /\ UNCHANGED <<bound, body, bucket>>
      BY <2>1, Types DEF Begins, StoresTyped
    <2>4. bucket[k] = Null
      BY <1>2, Types DEF Before
    <2>5. PutRight(k)' /\ DeleteRight(k)'
      BY <2>2, <2>3, <2>4 DEF PutRight, DeleteRight
    <2> QED
      BY <2>1, <2>2, <2>5, BeginsKeeps
  <1> QED
    BY <1>1, <1>2 DEF Put

LEMMA DeleteKeeps ==
    ASSUME StoreInv, NEW k \in Keys, Delete(k)
    PROVE  StoreInv'
  <1>1. PICK o : /\ Begins(k, o)
                 /\ o = [op |-> "delete", content |-> Null, form |-> Null,
                         todo |-> IF bound = "r2" THEN {"object", "body", "side"}
                                                  ELSE {"body", "side"}]
    BY DEF Delete
  <1>2. /\ o \in Ops /\ o.op = "delete" /\ o.op # Null /\ o.content = Null
        /\ "body" \in o.todo /\ (bound = "r2" <=> "object" \in o.todo) /\ Equipped(o)
    BY <1>1 DEF Ops, Equipped
  <1>3. app'[k] = o /\ UNCHANGED <<bound, body, bucket>>
    BY <1>1, Types DEF Begins, StoresTyped
  <1>4. bound # "r2" => bucket[k] = Null
    BY Types DEF Before, StoresTyped
  <1>5. PutRight(k)' /\ DeleteRight(k)'
    BY <1>2, <1>3, <1>4 DEF PutRight, DeleteRight
  <1> QED
    BY <1>1, <1>2, <1>5, BeginsKeeps

(* A write of a call under way: its key is neither copied nor settled.     *)
LEMMA WritesKeep ==
    ASSUME StoreInv, NEW k \in Keys, NEW write \in {"body", "side", "object"}, Does(k, write),
           StoresTyped', Before', app'[k] = [app[k] EXCEPT !.todo = app[k].todo \ {write}],
           \A n \in Keys : n # k =>
              body'[n] = body[n] /\ bucket'[n] = bucket[n] /\ app'[n] = app[n],
           k \notin hist.raced => PutRight(k)' /\ DeleteRight(k)' /\ CopyRight(k)'
    PROVE  StoreInv'
  <1>1. /\ UNCHANGED <<bound, reader, script, hist>> /\ write \in app[k].todo
        /\ app[k] \in Ops
    BY Types DEF Does
  <1>2. /\ app'[k].op = app[k].op /\ app[k].todo # {}
        /\ \A n \in Keys : n # k => Quiet(n)
    BY <1>1 DEF Ops, Quiet
  <1>3. RacesStay
    BY <1>1 DEF RacesStay
  <1>4. ASSUME NEW n \in Keys PROVE KeyRight(n)'
    <2>1. CASE n # k
      BY <1>1, <1>2, <1>3, <2>1, KeyStays
    <2>2. CASE n = k
      <3> SUFFICES ASSUME k \notin hist.raced PROVE KeyRight(k)'
        BY <1>1, <2>2 DEF KeyRight
      <3>1. KeyRight(k)
        BY Types
      <3>2. app[k].op # Null /\ ScriptRight(k)
        BY <1>2, <3>1, Types DEF KeyRight, Equipped
      <3>3. ScriptRight(k)'
        BY <1>1, <3>2 DEF ScriptRight, Copying
      <3> QED
        BY <1>2, <3>2, <3>3 DEF KeyRight
    <2> QED
      BY <2>1, <2>2
  <1>5. ASSUME NEW r \in Readers PROVE GetRight(r)'
    <2>1. CASE reader[r].at # "idle" /\ reader[r].key = k
      <3>1. GetRight(r) /\ app[k].op # Null
        BY <1>2, Types DEF Equipped
      <3> QED
        BY <1>1, <2>1, <3>1 DEF GetRight
    <2>2. CASE ~(reader[r].at # "idle" /\ reader[r].key = k)
      <3>1. reader[r].at # "idle" => Quiet(reader[r].key)
        BY <1>2, <2>2, Types
      <3> QED
        BY <1>1, <1>3, <3>1, GetStays
    <2> QED
      BY <2>1, <2>2
  <1> QED
    BY <1>4, <1>5 DEF StoreInv

LEMMA DoesTyped ==
    ASSUME StoreInv, NEW k \in Keys, NEW write \in {"body", "side", "object"}, Does(k, write)
    PROVE  /\ app' \in [Keys -> Ops] /\ \A n \in Keys : n # k => app'[n] = app[n]
           /\ \A n \in Keys : Equipped(app'[n])
           /\ app'[k] = [app[k] EXCEPT !.todo = app[k].todo \ {write}]
           /\ app'[k].op = app[k].op /\ app'[k].content = app[k].content
           /\ app'[k].form = app[k].form /\ app'[k].todo = app[k].todo \ {write}
           /\ write \in app[k].todo /\ app[k].op \in {"put", "delete"}
           /\ app[k].op = "put" => app[k].content \in Bytes
           /\ UNCHANGED <<bound, reader, script, hist>>
           /\ k \notin hist.raced => PutRight(k) /\ DeleteRight(k) /\ CopyRight(k)
  <1>1. /\ app' = [app EXCEPT ![k] = [app[k] EXCEPT !.todo = app[k].todo \ {write}]]
        /\ write \in app[k].todo /\ app \in [Keys -> Ops] /\ KeyRight(k) /\ app[k] \in Ops
        /\ Equipped(app[k])
    BY Types DEF Does, StoresTyped
  <1>2. [app[k] EXCEPT !.todo = app[k].todo \ {write}] \in Ops
    BY <1>1 DEF Ops
  <1>3. /\ app'[k] = [app[k] EXCEPT !.todo = app[k].todo \ {write}]
        /\ app' \in [Keys -> Ops] /\ \A n \in Keys : n # k => app'[n] = app[n]
    BY <1>1, <1>2
  <1>4. /\ app'[k].op = app[k].op /\ app'[k].content = app[k].content
        /\ app'[k].form = app[k].form /\ app'[k].todo = app[k].todo \ {write}
    BY <1>1, <1>3 DEF Ops
  <1>5. app[k].op \in {"put", "delete"} /\ (app[k].op = "put" => app[k].content \in Bytes)
    BY <1>1 DEF Equipped, Ops
  <1>6. \A n \in Keys : Equipped(app'[n])
    BY <1>1, <1>3, <1>4, <1>5, Types DEF Equipped
  <1> QED
    BY <1>1, <1>3, <1>4, <1>5, <1>6 DEF Does, KeyRight

LEMMA DoesBefore ==
    ASSUME StoreInv, NEW k \in Keys, NEW write \in {"body", "side", "object"}, Does(k, write),
           write = "object" \/ UNCHANGED bucket
    PROVE  Before'
  <1>1. bound = "r2" \/ UNCHANGED bucket
    <2>1. CASE write = "object"
      <3>1. "object" \in app[k].todo
        BY <2>1, DoesTyped
      <3> QED
        BY <3>1, Types DEF Before, StoresTyped
    <2>2. CASE write # "object"
      BY <2>2
    <2> QED
      BY <2>1, <2>2
  <1>2. \A n \in Keys : "object" \in app'[n].todo
                          => "object" \in app[n].todo \/ bound = "r2"
    BY DoesTyped
  <1> QED
    BY <1>1, <1>2, DoesTyped, BeforeStays

LEMMA WriteBodyKeeps ==
    ASSUME StoreInv, NEW k \in Keys, WriteBody(k)
    PROVE  StoreInv'
  <1> DEFINE b == IF app[k].op = "delete" THEN Null
                  ELSE [content |-> app[k].content, form |-> app[k].form]
  <1>1. Does(k, "body") /\ UNCHANGED <<side, bucket>> /\ body' = [body EXCEPT ![k] = b]
    BY DEF WriteBody
  <1>2. body'[k] = b /\ \A n \in Keys : n # k => body'[n] = body[n]
    BY <1>1, Types DEF StoresTyped
  <1>3. /\ b \in Bodies \cup {Null}
        /\ app[k].op = "delete" => b = Null
        /\ app[k].op = "put" => b.content = app[k].content /\ b # Null
    <2>1. app[k].op = "put" => app[k].content \in Bytes /\ app[k].form \in {"slot", "sidecar"}
      BY <1>1, DoesTyped, Types DEF Equipped, Ops
    <2>2. app[k].op = "put" => b \in Bodies /\ b.content = app[k].content
      BY <2>1 DEF Bodies
    <2> QED
      BY <1>1, <2>2, DoesTyped, Placed
  <1> HIDE DEF b
  <1>4. StoresTyped' /\ Before'
    <2>1. body' \in [Keys -> Bodies \cup {Null}]
      BY <1>1, <1>3, Types DEF StoresTyped
    <2> QED
      BY <1>1, <2>1, DoesTyped, DoesBefore, Types DEF StoresTyped
  <1>5. ASSUME k \notin hist.raced PROVE PutRight(k)' /\ DeleteRight(k)' /\ CopyRight(k)'
    <2>1. /\ PutRight(k) /\ DeleteRight(k) /\ app[k].op \in {"put", "delete"}
          /\ app'[k].op = app[k].op /\ app'[k].content = app[k].content
          /\ app'[k].form = app[k].form /\ app'[k].todo = app[k].todo \ {"body"}
          /\ "body" \in app[k].todo /\ UNCHANGED bound
      BY <1>1, <1>5, DoesTyped
    <2>2. PutRight(k)'
      BY <1>1, <1>2, <1>3, <2>1 DEF PutRight, Holds
    <2>3. DeleteRight(k)'
      BY <1>1, <1>2, <1>3, <2>1 DEF DeleteRight
    <2>4. bucket'[k] = Null \/ body'[k] = Null
      BY <1>1, <1>2, <1>3, <2>1 DEF PutRight
    <2> QED
      BY <2>2, <2>3, <2>4 DEF CopyRight
  <1> QED
    BY <1>1, <1>2, <1>4, <1>5, DoesTyped, WritesKeep

LEMMA WriteSideKeeps ==
    ASSUME StoreInv, NEW k \in Keys, WriteSide(k)
    PROVE  StoreInv'
  <1>1. Does(k, "side") /\ UNCHANGED <<body, bucket>>
        /\ side' = [side EXCEPT ![k] = app[k].op = "put"]
    BY DEF WriteSide
  <1>2. StoresTyped' /\ Before'
    <2>1. (app[k].op = "put") \in BOOLEAN /\ side \in [Keys -> BOOLEAN]
      BY Types DEF StoresTyped
    <2>2. side' \in [Keys -> BOOLEAN]
      BY <1>1, <2>1, Zenon
    <2> QED
      BY <1>1, <2>2, DoesTyped, DoesBefore, Types DEF StoresTyped
  <1>3. ASSUME k \notin hist.raced PROVE PutRight(k)' /\ DeleteRight(k)' /\ CopyRight(k)'
    <2>1. /\ PutRight(k) /\ DeleteRight(k) /\ CopyRight(k)
          /\ app'[k].op = app[k].op /\ app'[k].content = app[k].content
          /\ app'[k].form = app[k].form /\ app'[k].todo = app[k].todo \ {"side"}
          /\ UNCHANGED bound
      BY <1>1, <1>3, DoesTyped
    <2> QED
      BY <1>1, <2>1 DEF PutRight, DeleteRight, CopyRight, Holds
  <1> QED
    BY <1>1, <1>2, <1>3, DoesTyped, WritesKeep

LEMMA WriteObjectKeeps ==
    ASSUME StoreInv, NEW k \in Keys, WriteObject(k)
    PROVE  StoreInv'
  <1> DEFINE o == IF app[k].op = "delete" THEN Null
                  ELSE [content |-> app[k].content, meta |-> TRUE]
  <1>1. Does(k, "object") /\ UNCHANGED <<body, side>> /\ bucket' = [bucket EXCEPT ![k] = o]
    BY DEF WriteObject
  <1>2. bucket'[k] = o /\ \A n \in Keys : n # k => bucket'[n] = bucket[n]
    BY <1>1, Types DEF StoresTyped
  <1>3. /\ o \in Objects \cup {Null}
        /\ app[k].op = "delete" => o = Null
        /\ app[k].op = "put" => o.content = app[k].content /\ o # Null /\ o.meta
    <2>1. app[k].op = "put" => o \in Objects /\ o.content = app[k].content /\ o.meta
      BY <1>1, DoesTyped DEF Objects
    <2> QED
      BY <1>1, <2>1, DoesTyped, Placed
  <1> HIDE DEF o
  <1>4. StoresTyped' /\ Before'
    <2>1. bucket' \in [Keys -> Objects \cup {Null}]
      BY <1>1, <1>3, Types DEF StoresTyped
    <2> QED
      BY <1>1, <2>1, DoesTyped, DoesBefore, Types DEF StoresTyped
  <1>5. ASSUME k \notin hist.raced PROVE PutRight(k)' /\ DeleteRight(k)' /\ CopyRight(k)'
    <2>1. /\ PutRight(k) /\ DeleteRight(k) /\ app[k].op \in {"put", "delete"}
          /\ app'[k].op = app[k].op /\ app'[k].content = app[k].content
          /\ app'[k].form = app[k].form /\ app'[k].todo = app[k].todo \ {"object"}
          /\ "object" \in app[k].todo /\ UNCHANGED bound
      BY <1>1, <1>5, DoesTyped
    <2>2. PutRight(k)'
      BY <1>1, <1>2, <1>3, <2>1 DEF PutRight, Holds
    <2>3. DeleteRight(k)'
      BY <1>1, <1>2, <1>3, <2>1 DEF DeleteRight
    <2>4. bucket'[k] = Null \/ bucket'[k].meta
      BY <1>2, <1>3, <2>1
    <2> QED
      BY <2>2, <2>3, <2>4 DEF CopyRight
  <1> QED
    BY <1>1, <1>2, <1>4, <1>5, DoesTyped, WritesKeep

(* A call ends, with an answer or without. *)
LEMMA EndsKeeps ==
    ASSUME StoreInv, NEW k \in Keys, app[k].op # Null, app' = [app EXCEPT ![k] = NoOp],
           UNCHANGED <<bound, body, side, bucket, reader, script>>,
           hist' \in Histories, RacesStay,
           \A n \in Keys : n # k =>
              hist'.latest[n] = hist.latest[n] /\ (n \in hist'.unsure <=> n \in hist.unsure),
           k \notin hist'.raced => k \in hist'.unsure \/ Found(k)' = hist'.latest[k]
    PROVE  StoreInv'
  <1>1. NoOp \in Ops /\ NoOp.op = Null /\ NoOp.todo = {} /\ Equipped(NoOp)
    BY DEF NoOp, Ops, Equipped
  <1>2. /\ app' \in [Keys -> Ops] /\ app'[k] = NoOp
        /\ \A n \in Keys : n # k => app'[n] = app[n]
        /\ \A n \in Keys : Equipped(app'[n])
    BY <1>1, Types DEF StoresTyped
  <1>3. StoresTyped' /\ Before'
    <2>1. \A n \in Keys : "object" \in app'[n].todo => "object" \in app[n].todo
      BY <1>1, <1>2
    <2> QED
      BY <1>2, <2>1, BeforeStays, Types DEF StoresTyped
  <1>4. ASSUME NEW n \in Keys PROVE KeyRight(n)'
    <2>1. CASE n # k
      <3>1. Quiet(n)
        BY <1>2, <2>1 DEF Quiet
      <3> QED
        BY <3>1, KeyStays
    <2>2. CASE n = k
      <3> SUFFICES ASSUME k \notin hist'.raced PROVE KeyRight(k)'
        BY <2>2 DEF KeyRight
      <3>1. CopyRight(k) /\ ScriptRight(k)
        BY Types DEF KeyRight, RacesStay
      <3>2. CopyRight(k)' /\ ScriptRight(k)'
        BY <3>1 DEF CopyRight, ScriptRight, Copying
      <3>3. PutRight(k)' /\ DeleteRight(k)'
        BY <1>1, <1>2 DEF PutRight, DeleteRight
      <3> QED
        BY <3>2, <3>3 DEF KeyRight
    <2> QED
      BY <2>1, <2>2
  <1>5. ASSUME NEW r \in Readers PROVE GetRight(r)'
    <2>1. CASE reader[r].at # "idle" /\ reader[r].key = k
      <3>1. GetRight(r)
        BY Types
      <3> QED
        BY <2>1, <3>1 DEF GetRight, RacesStay
    <2>2. CASE ~(reader[r].at # "idle" /\ reader[r].key = k)
      <3>1. reader[r].at # "idle" => Quiet(reader[r].key)
        BY <1>2, <2>2, Types DEF Quiet
      <3> QED
        BY <3>1, GetStays
    <2> QED
      BY <2>1, <2>2
  <1> QED
    BY <1>3, <1>4, <1>5 DEF StoreInv

LEMMA AnswerKeeps ==
    ASSUME StoreInv, NEW k \in Keys, Answer(k)
    PROVE  StoreInv'
  <1>1. /\ app[k].op # Null /\ app[k].todo = {} /\ app' = [app EXCEPT ![k] = NoOp]
        /\ hist' = [hist EXCEPT
             !.latest[k] = app[k].content, !.unsure = hist.unsure \ {k},
             !.raced = IF Copying(k) THEN hist.raced \cup {k} ELSE hist.raced]
        /\ UNCHANGED <<bound, body, side, bucket, reader, script>>
    BY DEF Answer
  <1>2. /\ hist'.latest = [hist.latest EXCEPT ![k] = app[k].content]
        /\ hist'.unsure = hist.unsure \ {k} /\ RacesStay
        /\ hist' \in Histories
    <2>1. Copying(k) \in BOOLEAN /\ app[k].content \in Bytes \cup {Null}
      BY Types DEF Copying, Ops
    <2>2. hist.latest \in [Keys -> Bytes \cup {Null}]
      BY Types DEF Histories
    <2>3. [hist.latest EXCEPT ![k] = app[k].content] \in [Keys -> Bytes \cup {Null}]
      BY <2>1, <2>2
    <2> QED
      BY <1>1, <2>1, <2>3, Types DEF Histories, RacesStay
  <1>3. /\ hist'.latest[k] = app[k].content
        /\ \A n \in Keys : n # k =>
             hist'.latest[n] = hist.latest[n] /\ (n \in hist'.unsure <=> n \in hist.unsure)
    BY <1>2, Types DEF Histories
  <1>4. ASSUME k \notin hist'.raced PROVE Found(k)' = app[k].content
    <2>1. KeyRight(k) /\ k \notin hist.raced /\ app[k].op \in {"put", "delete"}
      BY <1>1, <1>2, <1>4, Types DEF RacesStay, Ops
    <2>2. PutRight(k) /\ DeleteRight(k)
      BY <2>1 DEF KeyRight
    <2>3. Found(k)' = Found(k)
      BY <1>1 DEF Found
    <2>4. CASE app[k].op = "put" /\ app[k].form = Null
      BY <1>1, <2>2, <2>3, <2>4 DEF PutRight, Holds, Found
    <2>5. CASE app[k].op = "put" /\ app[k].form # Null
      BY <1>1, <2>2, <2>3, <2>5 DEF PutRight, Holds, Found
    <2>6. CASE app[k].op = "delete"
      BY <1>1, <2>2, <2>3, <2>6 DEF DeleteRight, Found
    <2> QED
      BY <2>1, <2>4, <2>5, <2>6
  <1> QED
    BY <1>1, <1>2, <1>3, <1>4, EndsKeeps

LEMMA AppCrashKeeps ==
    ASSUME StoreInv, NEW k \in Keys, AppCrash(k)
    PROVE  StoreInv'
  <1>1. /\ app[k].op # Null /\ app' = [app EXCEPT ![k] = NoOp]
        /\ hist' = [hist EXCEPT !.unsure = hist.unsure \cup {k}]
        /\ UNCHANGED <<bound, body, side, bucket, reader, script>>
    BY DEF AppCrash
  <1>2. /\ hist'.latest = hist.latest /\ hist'.unsure = hist.unsure \cup {k}
        /\ RacesStay /\ hist' \in Histories
    BY <1>1, Types DEF Histories, RacesStay
  <1> QED
    BY <1>1, <1>2, EndsKeeps

---------------------------------------------------------------------------
(* get.  A step of a get changes the get alone. *)
LEMMA GetMoves ==
    ASSUME StoreInv, NEW r \in Readers, NEW g \in Gets, reader' = [reader EXCEPT ![r] = g],
           g.at # "idle" => g.key \in Keys,
           UNCHANGED <<bound, body, side, bucket, app, script, hist>>, GetRight(r)'
    PROVE  StoreInv'
  <1>1. /\ reader' \in [Readers -> Gets] /\ reader'[r] = g
        /\ \A q \in Readers : q # r => reader'[q] = reader[q]
    BY Types DEF StoresTyped
  <1>2. RacesStay /\ \A k \in Keys : Quiet(k)
    BY DEF RacesStay, Quiet
  <1>3. StoresTyped' /\ Before'
    BY <1>1, Types, BeforeStays DEF StoresTyped
  <1>4. \A k \in Keys : KeyRight(k)'
    BY <1>2, KeyStays
  <1>5. \A q \in Readers : GetRight(q)'
    BY <1>1, <1>2, Types, GetStays
  <1> QED
    BY <1>3, <1>4, <1>5 DEF StoreInv

LEMMA GetKeeps ==
    ASSUME StoreInv, NEW r \in Readers, NEW k \in Keys, Get(r, k)
    PROVE  StoreInv'
  <1>1. PICK g : g = [NoGet EXCEPT !.at = IF bound = "r2" THEN "object" ELSE "body",
                                   !.key = k, !.stable = k \notin hist.unsure]
    OBVIOUS
  <1>2. /\ reader' = [reader EXCEPT ![r] = g]
        /\ hist.latest[k] # Null /\ app[k].op = Null
        /\ UNCHANGED <<bound, body, side, bucket, app, script, hist>>
    BY <1>1 DEF Get
  <1>3. (k \notin hist.unsure) \in BOOLEAN
    OBVIOUS
  <1>4. /\ g \in Gets /\ g.at = (IF bound = "r2" THEN "object" ELSE "body")
        /\ g.key = k /\ (g.stable <=> k \notin hist.unsure)
    BY <1>1, <1>3 DEF NoGet, Gets
  <1>5. reader'[r] = g
    BY <1>2, Types DEF StoresTyped
  <1>6. GetRight(r)'
    <2> SUFFICES ASSUME g.stable, k \notin hist.raced
                 PROVE  /\ bound # "r2" => Holds(body[k], hist.latest[k])
      BY <1>2, <1>4, <1>5 DEF GetRight, Holds
    <2>1. Found(k) = hist.latest[k]
      BY <1>2, <1>4, Types DEF KeyRight
    <2> QED
      BY <1>2, <2>1 DEF Found, Holds
  <1> QED
    BY <1>2, <1>4, <1>6, GetMoves

LEMMA ReadObjectKeeps ==
    ASSUME StoreInv, NEW r \in Readers, ReadObject(r)
    PROVE  StoreInv'
  <1>1. PICK k \in Keys : k = reader[r].key /\ reader[r].at = "object"
    BY Types DEF ReadObject
  <1>2. PICK g : g = IF bucket[k] = Null THEN [reader[r] EXCEPT !.at = "body"]
                     ELSE [reader[r] EXCEPT !.at = "done", !.got = bucket[k].content]
    OBVIOUS
  <1>3. /\ reader' = [reader EXCEPT ![r] = g]
        /\ UNCHANGED <<bound, body, side, bucket, app, script, hist>>
    BY <1>1, <1>2, Types DEF ReadObject, StoresTyped
  <1>4. /\ g \in Gets /\ g.key = k /\ g.stable = reader[r].stable
        /\ bucket[k] = Null => g.at = "body"
        /\ bucket[k] # Null => g.at = "done" /\ g.got = bucket[k].content
    <2>1. bucket[k] # Null => bucket[k].content \in Bytes
      BY Types, Placed
    <2> QED
      BY <1>1, <1>2, <2>1, Types DEF Gets
  <1>5. reader'[r] = g
    BY <1>3, Types DEF StoresTyped
  <1>6. GetRight(r)'
    <2> SUFFICES ASSUME g.stable, k \notin hist.raced
                 PROVE  /\ app[k].op = Null /\ k \notin hist.unsure /\ hist.latest[k] # Null
                        /\ g.at = "body" => Holds(body[k], hist.latest[k])
                        /\ g.at = "done" => g.got = hist.latest[k]
                        /\ g.at # "object"
      BY <1>3, <1>4, <1>5 DEF GetRight, Holds
    <2>1. /\ app[k].op = Null /\ k \notin hist.unsure /\ hist.latest[k] # Null /\ bound = "r2"
      BY <1>1, <1>4, Types DEF GetRight
    <2>2. Found(k) = hist.latest[k]
      BY <2>1, Types DEF KeyRight
    <2> QED
      BY <1>4, <2>1, <2>2 DEF Found, Holds
  <1> QED
    BY <1>3, <1>4, <1>6, GetMoves

LEMMA ReadBodyKeeps ==
    ASSUME StoreInv, NEW r \in Readers, ReadBody(r)
    PROVE  StoreInv'
  <1>1. PICK k \in Keys : k = reader[r].key /\ reader[r].at = "body"
    BY Types DEF ReadBody
  <1>2. PICK c : c = IF body[k] = Null THEN Null ELSE body[k].content
    OBVIOUS
  <1>3. PICK g : g = [reader[r] EXCEPT !.at = "done", !.got = c]
    OBVIOUS
  <1>4. /\ reader' = [reader EXCEPT ![r] = g]
        /\ UNCHANGED <<bound, body, side, bucket, app, script, hist>>
    BY <1>1, <1>2, <1>3, Types DEF ReadBody, StoresTyped
  <1>5. c \in Bytes \cup {Null}
    BY <1>2, Types, Placed
  <1>6. g \in Gets /\ g.key = k /\ g.stable = reader[r].stable /\ g.at = "done" /\ g.got = c
    BY <1>1, <1>3, <1>5, Types DEF Gets
  <1>7. reader'[r] = g
    BY <1>4, Types DEF StoresTyped
  <1>8. GetRight(r)'
    <2>1. GetRight(r)
      BY Types
    <2> QED
      BY <1>1, <1>2, <1>4, <1>6, <1>7, <2>1 DEF GetRight, Holds
  <1> QED
    BY <1>4, <1>6, <1>8, GetMoves

LEMMA GetEndsKeeps ==
    ASSUME StoreInv, NEW r \in Readers, GetEnds(r)
    PROVE  StoreInv'
  <1>1. NoGet \in Gets /\ NoGet.at = "idle"
    BY DEF NoGet, Gets
  <1>2. /\ reader' = [reader EXCEPT ![r] = NoGet] /\ reader'[r] = NoGet
        /\ UNCHANGED <<bound, body, side, bucket, app, script, hist>>
    BY Types DEF GetEnds, StoresTyped
  <1>3. GetRight(r)'
    BY <1>1, <1>2, UnstableGet
  <1> QED
    BY <1>1, <1>2, <1>3, GetMoves


---------------------------------------------------------------------------
(* The migration script.  A step of it alters nothing under the keys it is *)
(* not at work on.                                                         *)
LEMMA ScriptMoves ==
    ASSUME StoreInv, script' \in Copies, bound = "r2",
           Engaged(script'),
           UNCHANGED <<bound, app, reader>>,
           body' \in [Keys -> Bodies \cup {Null}], side' \in [Keys -> BOOLEAN],
           bucket' \in [Keys -> Objects \cup {Null}], hist' \in Histories,
           hist'.latest = hist.latest, hist'.unsure = hist.unsure, RacesStay,
           \A k \in Keys : \/ body'[k] = body[k] /\ bucket'[k] = bucket[k] /\ ~Copying(k)'
                           \/ KeyRight(k)',
           \A r \in Readers : reader[r].at # "idle" => \/ Quiet(reader[r].key)
                                                       \/ GetRight(r)'
    PROVE  StoreInv'
  <1>1. StoresTyped' /\ Before'
    BY Types, BeforeStays DEF StoresTyped
  <1>2. ASSUME NEW k \in Keys PROVE KeyRight(k)'
    <2>1. CASE body'[k] = body[k] /\ bucket'[k] = bucket[k] /\ ~Copying(k)'
      <3>1. Quiet(k)
        BY <2>1 DEF Quiet
      <3> QED
        BY <2>1, <3>1, KeyStays
    <2> QED
      BY <2>1
  <1>3. ASSUME NEW r \in Readers PROVE GetRight(r)'
    <2>1. CASE reader[r].at # "idle" => Quiet(reader[r].key)
      BY <2>1, GetStays
    <2> QED
      BY <2>1
  <1> QED
    BY <1>1, <1>2, <1>3 DEF StoreInv

(* Steps that alter no body and no object. *)
LEMMA ScriptThinks ==
    ASSUME StoreInv, script' \in Copies, bound = "r2",
           Engaged(script'),
           UNCHANGED <<bound, app, reader, body, bucket>>, side' \in [Keys -> BOOLEAN],
           hist' \in Histories,
           hist'.latest = hist.latest, hist'.unsure = hist.unsure, RacesStay,
           \A k \in Keys : Copying(k)' /\ k \notin hist'.raced => ScriptRight(k)'
    PROVE  StoreInv'
  <1>1. \A k \in Keys : Quiet(k)
    BY DEF Quiet
  <1>2. ASSUME NEW k \in Keys, Copying(k)' PROVE KeyRight(k)'
    <2> SUFFICES ASSUME k \notin hist'.raced PROVE KeyRight(k)'
      BY DEF KeyRight
    <2>1. KeyRight(k) /\ k \notin hist.raced /\ ScriptRight(k)'
      BY <1>2, Types DEF RacesStay
    <2>2. PutRight(k)' /\ DeleteRight(k)' /\ CopyRight(k)'
      BY <2>1 DEF KeyRight, PutRight, DeleteRight, CopyRight, Holds
    <2>3. Found(k)' = Found(k)
      BY DEF Found
    <2> QED
      BY <2>1, <2>2, <2>3 DEF KeyRight
  <1>3. body \in [Keys -> Bodies \cup {Null}] /\ bucket \in [Keys -> Objects \cup {Null}]
    BY Types DEF StoresTyped
  <1> QED
    BY <1>1, <1>2, <1>3, Types, ScriptMoves

(* The script between two keys, or at rest. *)
LEMMA Resting ==
    ASSUME script \in Copies
    PROVE  /\ NoCopy \in Copies /\ NoCopy.at = "idle"
           /\ Skip \in Copies /\ Skip.at = "next"
           /\ \A s \in Copies : s.at \in {"idle", "next"} => Engaged(s)
  BY DEF NoCopy, Skip, Copies, Engaged

LEMMA HistoryStays ==
    ASSUME StoreInv, UNCHANGED hist
    PROVE  /\ hist' \in Histories /\ RacesStay
           /\ hist'.latest = hist.latest /\ hist'.unsure = hist.unsure
  BY Types DEF RacesStay

LEMMA ListKeysKeeps ==
    ASSUME StoreInv, ListKeys
    PROVE  StoreInv'
  <1>1. /\ script' = [NoCopy EXCEPT !.at = "next", !.page = {k \in Keys : body[k] # Null}]
        /\ bound = "r2" /\ UNCHANGED <<body, side, bucket, reader, bound, app, hist>>
    BY DEF ListKeys, stores
  <1>2. script' \in Copies /\ script'.at = "next"
    BY <1>1 DEF NoCopy, Copies
  <1>3. \A k \in Keys : ~Copying(k)'
    BY <1>2 DEF Copying
  <1>4. side' \in [Keys -> BOOLEAN]
    BY <1>1, Types DEF StoresTyped
  <1>8. Engaged(script')
    BY <1>2, Types, Resting
  <1> QED
    BY <1>8, <1>1, <1>2, <1>3, <1>4, HistoryStays, ScriptThinks

LEMMA NextKeyKeeps ==
    ASSUME StoreInv, NextKey
    PROVE  StoreInv'
  <1>1. /\ script.at = "next" /\ UNCHANGED <<body, side, bucket, reader, bound, app, hist>>
        /\ bound = "r2"
    BY Types DEF NextKey, stores
  <1>2. script' \in Copies /\ script'.at \in {"idle", "read"}
        /\ (script'.at = "read" => script'.key \in Keys)
    <2>1. CASE script' = NoCopy
      BY <2>1, Types, Resting
    <2>2. CASE \E k \in script.page :
                 script' = [NoCopy EXCEPT !.at = "read", !.page = script.page \ {k}, !.key = k]
      <3>1. PICK k \in script.page :
               script' = [NoCopy EXCEPT !.at = "read", !.page = script.page \ {k}, !.key = k]
        BY <2>2
      <3>2. k \in Keys /\ script.page \ {k} \in SUBSET Keys
        BY <3>1, Types DEF Copies
      <3> QED
        BY <3>1, <3>2 DEF NoCopy, Copies
    <2> QED
      BY <2>1, <2>2 DEF NextKey
  <1>3. \A k \in Keys : ~Copying(k)'
    BY <1>2 DEF Copying
  <1>4. side' \in [Keys -> BOOLEAN]
    BY <1>1, Types DEF StoresTyped
  <1>8. Engaged(script')
    BY <1>2 DEF Engaged
  <1> QED
    BY <1>8, <1>1, <1>2, <1>3, <1>4, HistoryStays, ScriptThinks

(* A key with a put or delete under way counts as raced from here on. *)
LEMMA ReadSourceKeeps ==
    ASSUME StoreInv, ReadSource
    PROVE  StoreInv'
  <1>1. PICK k \in Keys : k = script.key /\ script.at = "read"
    BY Types DEF ReadSource, Engaged
  <1>2. /\ script' = IF body[k] = Null THEN Skip
                     ELSE [script EXCEPT !.at = "meta", !.content = body[k].content]
        /\ hist' = [hist EXCEPT !.raced = IF app[k].op # Null THEN hist.raced \cup {k}
                                                              ELSE hist.raced]
        /\ UNCHANGED <<body, side, bucket, reader, bound, app>> /\ bound = "r2"
    BY <1>1, Types DEF ReadSource
  <1>3. /\ hist' \in Histories /\ RacesStay
        /\ hist'.latest = hist.latest /\ hist'.unsure = hist.unsure
        /\ app[k].op # Null => k \in hist'.raced
    BY <1>2, Types DEF Histories, RacesStay
  <1>4. /\ script' \in Copies
        /\ body[k] = Null => script'.at = "next"
        /\ body[k] # Null => script'.at = "meta" /\ script'.key = k
                             /\ script'.content = body[k].content
    <2>1. body[k] # Null => body[k].content \in Bytes
      BY Types, Placed
    <2>2. CASE body[k] = Null
      BY <1>2, <2>2, Types, Resting
    <2>3. CASE body[k] # Null
      BY <1>1, <1>2, <2>1, <2>3, Types DEF Copies
    <2> QED
      BY <2>2, <2>3
  <1>5. ASSUME NEW n \in Keys, Copying(n)', n \notin hist'.raced PROVE ScriptRight(n)'
    <2>1. n = k /\ body[k] # Null /\ script'.at = "meta"
      BY <1>4, <1>5 DEF Copying
    <2>2. app[k].op = Null
      BY <1>3, <1>5, <2>1
    <2> QED
      BY <1>2, <1>4, <2>1, <2>2 DEF ScriptRight, Holds
  <1>6. side' \in [Keys -> BOOLEAN]
    BY <1>2, Types DEF StoresTyped
  <1>8. Engaged(script')
    BY <1>1, <1>4, Types, Placed DEF Engaged
  <1> QED
    BY <1>8, <1>1, <1>2, <1>3, <1>4, <1>5, <1>6, ScriptThinks

(* The script goes on with the key it is at work on. *)
LEMMA OnWith ==
    ASSUME StoreInv, NEW k \in Keys, Copying(k), script'.key = script.key, UNCHANGED hist,
           NEW n \in Keys, Copying(n)', n \notin hist'.raced
    PROVE  n = k /\ KeyRight(k) /\ ScriptRight(k) /\ app[k].op = Null
           /\ Holds(body[k], script.content)
  BY Types DEF Copying, KeyRight, ScriptRight

LEMMA ReadMetaKeeps ==
    ASSUME StoreInv, ReadMeta
    PROVE  StoreInv'
  <1>1. PICK k \in Keys : k = script.key /\ script.at = "meta"
    BY Types DEF ReadMeta, Engaged
  <1>2. /\ script' = [script EXCEPT !.at = "head", !.meta = side[k]]
        /\ UNCHANGED <<body, side, bucket, reader, bound, app, hist>> /\ bound = "r2"
    BY <1>1, Types DEF ReadMeta, stores
  <1>3. side \in [Keys -> BOOLEAN]
    BY Types DEF StoresTyped
  <1>4. /\ script' \in Copies /\ script'.at = "head" /\ script'.key = k
        /\ script'.content = script.content
    <2>1. PICK m \in BOOLEAN : m = side[k]
      BY <1>3
    <2> QED
      BY <1>1, <1>2, <2>1, Types DEF Copies
  <1>5. Copying(k)
    BY <1>1 DEF Copying
  <1>6. ASSUME NEW n \in Keys, Copying(n)', n \notin hist'.raced PROVE ScriptRight(n)'
    <2>1. n = k /\ app[k].op = Null /\ Holds(body[k], script.content)
      BY <1>1, <1>2, <1>4, <1>5, <1>6, OnWith
    <2> QED
      BY <1>2, <1>4, <2>1 DEF ScriptRight, Holds
  <1>8. Engaged(script')
    BY <1>1, <1>4, Types DEF Engaged
  <1> QED
    BY <1>8, <1>1, <1>2, <1>3, <1>4, <1>6, HistoryStays, ScriptThinks

LEMMA HeadKeeps ==
    ASSUME StoreInv, Head
    PROVE  StoreInv'
  <1>1. PICK k \in Keys : k = script.key /\ script.at = "head"
    BY Types DEF Head, Engaged
  <1>2. /\ script' = [script EXCEPT !.at = IF Matches(bucket[k]) THEN "deleteSide" ELSE "put"]
        /\ UNCHANGED <<body, side, bucket, reader, bound, app, hist>> /\ bound = "r2"
    BY <1>1, Types DEF Head, stores
  <1>3. /\ script' \in Copies /\ script'.key = k /\ script'.content = script.content
        /\ script'.meta = script.meta
        /\ Matches(bucket[k]) => script'.at = "deleteSide"
        /\ ~Matches(bucket[k]) => script'.at = "put"
    BY <1>1, <1>2, Types DEF Copies
  <1>4. Copying(k)
    BY <1>1 DEF Copying
  <1>5. ASSUME NEW n \in Keys, Copying(n)', n \notin hist'.raced PROVE ScriptRight(n)'
    <2>1. n = k /\ app[k].op = Null /\ Holds(body[k], script.content)
      BY <1>1, <1>2, <1>3, <1>4, <1>5, OnWith
    <2> QED
      BY <1>2, <1>3, <2>1 DEF ScriptRight, Holds, Matches
  <1>6. side' \in [Keys -> BOOLEAN]
    BY <1>2, Types DEF StoresTyped
  <1>8. Engaged(script')
    BY <1>1, <1>3, Types DEF Engaged
  <1> QED
    BY <1>8, <1>1, <1>2, <1>3, <1>5, <1>6, HistoryStays, ScriptThinks

LEMMA VerifyKeeps ==
    ASSUME StoreInv, Verify
    PROVE  StoreInv'
  <1>1. PICK k \in Keys : k = script.key /\ script.at = "verify"
    BY Types DEF Verify, Engaged
  <1>2. /\ script' = IF Matches(bucket[k]) THEN [script EXCEPT !.at = "deleteSide"] ELSE Skip
        /\ UNCHANGED <<body, side, bucket, reader, bound, app, hist>> /\ bound = "r2"
    BY <1>1, Types DEF Verify, stores
  <1>3. /\ script' \in Copies
        /\ Matches(bucket[k]) => script'.at = "deleteSide" /\ script'.key = k
                                 /\ script'.content = script.content
        /\ ~Matches(bucket[k]) => script'.at = "next"
    BY <1>1, <1>2, Resting, Types DEF Copies
  <1>4. Copying(k)
    BY <1>1 DEF Copying
  <1>5. ASSUME NEW n \in Keys, Copying(n)', n \notin hist'.raced PROVE ScriptRight(n)'
    <2>1. Matches(bucket[k])
      BY <1>3, <1>5 DEF Copying
    <2>2. n = k /\ app[k].op = Null /\ Holds(body[k], script.content)
      BY <1>1, <1>2, <1>3, <1>4, <1>5, <2>1, OnWith
    <2> QED
      BY <1>2, <1>3, <2>1, <2>2 DEF ScriptRight, Holds, Matches
  <1>6. side' \in [Keys -> BOOLEAN]
    BY <1>2, Types DEF StoresTyped
  <1>8. Engaged(script')
    BY <1>1, <1>3, Types DEF Engaged
  <1> QED
    BY <1>8, <1>1, <1>2, <1>3, <1>5, <1>6, HistoryStays, ScriptThinks

LEMMA DeleteSideKeeps ==
    ASSUME StoreInv, DeleteSide
    PROVE  StoreInv'
  <1>1. PICK k \in Keys : k = script.key /\ script.at = "deleteSide"
    BY Types DEF DeleteSide, Engaged
  <1>2. /\ script' = [script EXCEPT !.at = "deleteBody"]
        /\ side' = [side EXCEPT ![k] = FALSE]
        /\ UNCHANGED <<body, bucket, reader, bound, app, hist>> /\ bound = "r2"
    BY <1>1, Types DEF DeleteSide, stores
  <1>3. /\ script' \in Copies /\ script'.at = "deleteBody" /\ script'.key = k
        /\ script'.content = script.content
    BY <1>1, <1>2, Types DEF Copies
  <1>4. Copying(k)
    BY <1>1 DEF Copying
  <1>5. ASSUME NEW n \in Keys, Copying(n)', n \notin hist'.raced PROVE ScriptRight(n)'
    <2>1. n = k /\ ScriptRight(k)
      BY <1>1, <1>2, <1>3, <1>4, <1>5, OnWith
    <2>2. app[k].op = Null /\ Holds(body[k], script.content) /\ bucket[k] # Null
      BY <1>1, <1>4, <2>1 DEF ScriptRight
    <2> QED
      BY <1>2, <1>3, <2>1, <2>2 DEF ScriptRight, Holds
  <1>6. side' \in [Keys -> BOOLEAN]
    BY <1>2, Types DEF StoresTyped
  <1>8. Engaged(script')
    BY <1>1, <1>3, Types DEF Engaged
  <1> QED
    BY <1>8, <1>1, <1>2, <1>3, <1>5, <1>6, HistoryStays, ScriptThinks

LEMMA ScriptFailsKeeps ==
    ASSUME StoreInv, ScriptFails
    PROVE  StoreInv'
  <1>1. /\ script' \in {Skip, NoCopy} /\ bound = "r2"
        /\ UNCHANGED <<body, side, bucket, reader, bound, app, hist>>
    BY Types DEF ScriptFails
  <1>2. script' \in Copies /\ script'.at \in {"idle", "next"}
    BY <1>1, Resting, Types
  <1>3. \A k \in Keys : ~Copying(k)'
    BY <1>2 DEF Copying
  <1>4. side' \in [Keys -> BOOLEAN]
    BY <1>1, Types DEF StoresTyped
  <1>8. Engaged(script')
    BY <1>2, Types, Resting
  <1> QED
    BY <1>8, <1>1, <1>2, <1>3, <1>4, HistoryStays, ScriptThinks

(* What the script puts is the body, and so is any object it replaces: one *)
(* that lacks the metadata which the body has.                             *)
LEMMA PutObjectKeeps ==
    ASSUME StoreInv, PutR2
    PROVE  StoreInv'
  <1>1. PICK k \in Keys : k = script.key /\ script.at = "put"
    BY Types DEF PutR2, Engaged
  <1>2. PICK o : o = [content |-> script.content, meta |-> script.meta]
    OBVIOUS
  <1>3. /\ script' = [script EXCEPT !.at = "verify"]
        /\ bucket' = [bucket EXCEPT ![k] = o]
        /\ UNCHANGED <<body, side, reader, bound, app, hist>> /\ bound = "r2"
    BY <1>1, <1>2, Types DEF PutR2, stores
  <1>4. /\ script' \in Copies /\ script'.at = "verify" /\ script'.key = k
        /\ script'.content = script.content
    BY <1>1, <1>3, Types DEF Copies
  <1>5. Engaged(script') /\ script.content \in Bytes
    BY <1>1, <1>4, Types DEF Engaged
  <1>6. o \in Objects /\ o.content = script.content /\ o # Null
    <2>1. o \in Objects /\ o.content = script.content
      BY <1>2, <1>5, Types DEF Copies, Objects
    <2> QED
      BY <2>1, Placed
  <1>7. bucket'[k] = o /\ \A n \in Keys : n # k => bucket'[n] = bucket[n]
    BY <1>3, Types DEF StoresTyped
  <1>8. ASSUME k \notin hist.raced PROVE KeyRight(k)'
    <2>1. /\ app[k].op = Null /\ Holds(body[k], script.content) /\ ~Matches(bucket[k])
          /\ CopyRight(k) /\ (k \notin hist.unsure => Found(k) = hist.latest[k])
      BY <1>1, <1>8, Types DEF KeyRight, ScriptRight, Copying
    <2>2. PutRight(k)' /\ DeleteRight(k)' /\ CopyRight(k)' /\ ScriptRight(k)'
      BY <1>3, <1>4, <1>6, <1>7, <2>1
         DEF PutRight, DeleteRight, CopyRight, ScriptRight, Holds
    <2>3. bucket[k] # Null => bucket[k].content = body[k].content
      <3>1. bucket[k] # Null => bucket[k].meta \in BOOLEAN
        BY Types, Placed
      <3> QED
        BY <2>1, <3>1 DEF Matches, CopyRight, Holds
    <2>4. Found(k) = script.content /\ Found(k)' = script.content
      BY <1>3, <1>6, <1>7, <2>1, <2>3 DEF Found, Holds
    <2> QED
      BY <1>3, <2>1, <2>2, <2>4 DEF KeyRight
  <1>9. ASSUME NEW n \in Keys
        PROVE  \/ body'[n] = body[n] /\ bucket'[n] = bucket[n] /\ ~Copying(n)'
               \/ KeyRight(n)'
    <2>1. CASE n = k
      BY <1>3, <1>8, <2>1 DEF KeyRight
    <2>2. CASE n # k
      BY <1>3, <1>4, <1>7, <2>2 DEF Copying
    <2> QED
      BY <2>1, <2>2
  <1>10. ASSUME NEW r \in Readers PROVE GetRight(r)'
    BY <1>3, Types DEF GetRight, Holds
  <1>11. bucket' \in [Keys -> Objects \cup {Null}] /\ body' \in [Keys -> Bodies \cup {Null}]
         /\ side' \in [Keys -> BOOLEAN]
    BY <1>3, <1>6, Types DEF StoresTyped
  <1> QED
    BY <1>3, <1>4, <1>5, <1>9, <1>10, <1>11, HistoryStays, ScriptMoves

(* The body goes when an object is in its place.  Gets of the key that     *)
(* have found no object count as raced.                                    *)
LEMMA DeleteBodyKeeps ==
    ASSUME StoreInv, DeleteBody
    PROVE  StoreInv'
  <1>1. PICK k \in Keys : k = script.key /\ script.at = "deleteBody"
    BY Types DEF DeleteBody, Engaged
  <1> DEFINE late == {r \in Readers : reader[r].at = "body" /\ reader[r].key = k}
  <1>2. /\ script' = Skip /\ body' = [body EXCEPT ![k] = Null]
        /\ hist' = [hist EXCEPT !.raced = hist.raced \cup late]
        /\ UNCHANGED <<side, bucket, reader, bound, app>> /\ bound = "r2"
    BY <1>1, Types DEF DeleteBody
  <1>3. /\ hist' \in Histories /\ RacesStay /\ hist'.raced = hist.raced \cup late
        /\ hist'.latest = hist.latest /\ hist'.unsure = hist.unsure
    BY <1>2, Types DEF Histories, RacesStay
  <1>4. script' \in Copies /\ script'.at = "next" /\ Engaged(script')
    BY <1>2, Resting, Types
  <1>5. body'[k] = Null /\ \A n \in Keys : n # k => body'[n] = body[n]
    BY <1>2, Types DEF StoresTyped
  <1>6. \A n \in Keys : ~Copying(n)'
    BY <1>4 DEF Copying
  <1>7. ASSUME k \notin hist'.raced PROVE KeyRight(k)'
    <2>1. k \notin hist.raced
      BY <1>3, <1>7 DEF RacesStay
    <2>2. /\ app[k].op = Null /\ bucket[k] # Null
          /\ k \notin hist.unsure => Found(k) = hist.latest[k]
      BY <1>1, <2>1, Types DEF KeyRight, ScriptRight, Copying
    <2>3. PutRight(k)' /\ DeleteRight(k)' /\ CopyRight(k)' /\ ScriptRight(k)'
      BY <1>2, <1>5, <1>6, <2>2 DEF PutRight, DeleteRight, CopyRight, ScriptRight
    <2>4. Found(k)' = Found(k)
      BY <1>2, <2>2 DEF Found
    <2> QED
      BY <1>2, <1>3, <2>2, <2>3, <2>4 DEF KeyRight
  <1>8. ASSUME NEW n \in Keys
        PROVE  \/ body'[n] = body[n] /\ bucket'[n] = bucket[n] /\ ~Copying(n)'
               \/ KeyRight(n)'
    <2>1. CASE n = k
      BY <1>7, <2>1 DEF KeyRight
    <2>2. CASE n # k
      BY <1>2, <1>5, <1>6, <2>2
    <2> QED
      BY <2>1, <2>2
  <1>9. ASSUME NEW r \in Readers, reader[r].at # "idle"
        PROVE  Quiet(reader[r].key) \/ GetRight(r)'
    <2>1. CASE reader[r].key # k
      BY <1>2, <1>3, <1>5, <1>9, <2>1, Types DEF Quiet
    <2>2. CASE reader[r].key = k
      <3>1. GetRight(r) /\ reader'[r] = reader[r]
        BY <1>2, Types
      <3>2. reader[r].at = "body" => r \in hist'.raced
        BY <1>3, <2>2
      <3> QED
        BY <1>2, <1>3, <2>2, <3>1, <3>2 DEF GetRight, RacesStay
    <2> QED
      BY <2>1, <2>2
  <1>10. bucket' \in [Keys -> Objects \cup {Null}] /\ body' \in [Keys -> Bodies \cup {Null}]
         /\ side' \in [Keys -> BOOLEAN]
    BY <1>2, Types DEF StoresTyped
  <1> QED
    BY <1>2, <1>3, <1>4, <1>8, <1>9, <1>10, ScriptMoves

---------------------------------------------------------------------------
LEMMA NextInv == StoreInv /\ [StoreNext]_storeVars => StoreInv'
  <1> SUFFICES ASSUME StoreInv, [StoreNext]_storeVars PROVE StoreInv'
    OBVIOUS
  <1>1. CASE Deploy
    BY <1>1, DeployKeeps
  <1>2. ASSUME NEW k \in Keys, NEW c \in Bytes, Put(k, c) PROVE StoreInv'
    BY <1>2, PutKeeps
  <1>3. ASSUME NEW k \in Keys,
               \/ Delete(k) \/ WriteBody(k) \/ WriteSide(k) \/ WriteObject(k)
               \/ Answer(k) \/ AppCrash(k)
        PROVE  StoreInv'
    BY <1>3, DeleteKeeps, WriteBodyKeeps, WriteSideKeeps, WriteObjectKeeps, AnswerKeeps,
       AppCrashKeeps
  <1>4. ASSUME NEW k \in Keys, NEW r \in Readers, Get(r, k) PROVE StoreInv'
    BY <1>4, GetKeeps
  <1>5. ASSUME NEW r \in Readers, ReadObject(r) \/ ReadBody(r) \/ GetEnds(r)
        PROVE  StoreInv'
    BY <1>5, ReadObjectKeeps, ReadBodyKeeps, GetEndsKeeps
  <1>6. CASE ListKeys \/ NextKey \/ ReadSource \/ ReadMeta \/ Head
    BY <1>6, ListKeysKeeps, NextKeyKeeps, ReadSourceKeeps, ReadMetaKeeps, HeadKeeps
  <1>7. CASE PutR2 \/ Verify \/ DeleteSide \/ DeleteBody \/ ScriptFails
    BY <1>7, PutObjectKeeps, VerifyKeeps, DeleteSideKeeps, DeleteBodyKeeps, ScriptFailsKeeps
  <1>8. CASE UNCHANGED storeVars
    <2>1. /\ UNCHANGED <<bound, body, side, bucket, app, reader, script, hist>>
      BY <1>8 DEF storeVars
    <2>2. RacesStay /\ \A k \in Keys : Quiet(k)
      BY <2>1 DEF RacesStay, Quiet
    <2>3. StoresTyped' /\ Before'
      BY <2>1, Types, BeforeStays DEF StoresTyped
    <2>4. \A k \in Keys : KeyRight(k)'
      BY <2>1, <2>2, KeyStays
    <2>5. \A r \in Readers : GetRight(r)'
      BY <2>1, <2>2, Types, GetStays
    <2> QED
      BY <2>3, <2>4, <2>5 DEF StoreInv
  <1> QED
    BY <1>1, <1>2, <1>3, <1>4, <1>5, <1>6, <1>7, <1>8 DEF StoreNext

LEMMA InvFinds == StoreInv => LatestIsFound
  <1> SUFFICES ASSUME StoreInv PROVE LatestIsFound
    OBVIOUS
  <1>1. StoreKeepsLatest
    BY Types DEF StoreKeepsLatest, KeyRight
  <1>2. GetsFindLatest
    BY Types DEF GetsFindLatest, GetRight
  <1> QED
    BY <1>1, <1>2 DEF LatestIsFound

(* What was last put under a key is what the store holds and what a get    *)
(* that nobody disturbs finds: on KV, with the R2 binding deployed, and at *)
(* every point of a migration that may fail, be stopped and be run again.  *)
(* It is about put, get and delete of attachment-store.ts interleaved with *)
(* migrate-attachments-to-r2.                                              *)
THEOREM LatestFound == StoreSpec => []LatestIsFound
  <1>1. StoreInit => StoreInv
    BY InitInv
  <1>2. StoreInv /\ [StoreNext]_storeVars => StoreInv'
    BY NextInv
  <1>3. StoreInv => LatestIsFound
    BY InvFinds
  <1> QED
    BY <1>1, <1>2, <1>3, PTL DEF StoreSpec

-----------------------------------------------------------------------------
(* Attachments.                                                            *)
USE BodyAssumption, SwitchAssumption, BoundAssumption, SourceAssumption,
    NamesAssumption, DisjointAssumption

---------------------------------------------------------------------------
(* An upload that was created has a body; whoever is about to use a file   *)
(* has one.                                                                *)
Chosen == {"drop", "raced", "link"}

Contented ==
    /\ \A u \in Uploads :
         /\ upload[u].status # None => upload[u].content \in Contents
         /\ upload[u].status = None => upload[u].file = None
    /\ \A q \in Requests : request[q].pc \in Chosen => Target(q) \in Files
    /\ \A l \in Legacy : backfill[l].pc = "merge" => backfill[l].target \in Files

Typed == TypeOK /\ Contented

(* The files: each has the object of its name, with its bytes, and the file*)
(* of an upload whose request is over is the one the upload names.         *)
\* The request of the file has inserted it, or will not any more.
Past(f) == f \in Legacy \/ request[f] = Done \/ At(f, "link")

FileRight(f) ==
    /\ object[file[f].key] = file[f].bytes
    /\ f \in Legacy => file[f].key = f
    /\ f \in Requests =>
         /\ file[f].key = Source[f] /\ file[f].hashed
         /\ request[f] = Done \/ (At(f, "link") /\ Target(f) = f)
         /\ request[f] = Done /\ Source[f] \in Uploads => upload[Source[f]].file = f

FileInv == \A f \in Files : Exists(f) => FileRight(f)

(* The requests: one per source; its upload waits for it, and nobody closes*)
(* the upload or deletes the object under it.                              *)
Storing == {"find", "drop", "insert", "refind", "suffix", "raced"}

\* A request that uses the file f for the body c has found that in it.
FoundIn(f, c) == Past(f) /\ (Exists(f) => file[f].hashed /\ file[f].bytes = c)

RequestRight(q) ==
    /\ Source[q] \in Uploads =>
         /\ upload[Source[q]].status = "pending" /\ upload[Source[q]].file = None
         /\ upload[Source[q]].content = request[q].content
         /\ \A x \in closing : x.upload # Source[q]
    /\ request[q].pc # "link" => Source[q] \notin drop
    /\ request[q].pc \in Storing => object[Source[q]] = request[q].content
    /\ request[q].pc \in Chosen => FoundIn(Target(q), request[q].content)

RequestInv ==
    /\ \A q, p \in Requests :
         request[q] # Idle /\ request[p] # Idle /\ Source[q] = Source[p] => q = p
    /\ \A q \in Requests : Running(q) => RequestRight(q)

(* What is about to be deleted is no file's, now or later.                 *)
Keyless(s) == \A f \in Files : Exists(f) => file[f].key # s

DropInv ==
    /\ \A s \in drop :
         /\ Keyless(s)
         /\ \/ s \in Legacy \/ Began(s)
            \/ s \in Uploads /\ upload[s].status \notin {None, "pending"}
    /\ \A x \in closing : x.file = None => Keyless(x.upload)

(* The references, and the moves of references.                            *)
UploadRight(u) ==
    upload[u].file # None =>
      /\ Active(u) => Exists(upload[u].file)
                      /\ file[upload[u].file].bytes = upload[u].content
      /\ Exists(upload[u].file) => file[upload[u].file].hashed

AttachRight(s) ==
    attach[s] # NoAttach => Exists(attach[s].file)
                            /\ file[attach[s].file].bytes = attach[s].content

BackfillRight(l) ==
    /\ Exists(l) => ~file[l].hashed
    /\ backfill[l].pc = "merge" =>
         LET f == backfill[l].target IN
         /\ Past(f) /\ f # l
         /\ Exists(f) => file[f].hashed /\ (Exists(l) => file[f].bytes = file[l].bytes)

ReferenceInv ==
    /\ \A u \in Uploads : UploadRight(u)
    /\ \A s \in Sources : AttachRight(s)
    /\ \A l \in Legacy : backfill[l] # NotRunning => BackfillRight(l)

---------------------------------------------------------------------------
(* Rows.                                                                   *)
LEMMA Names ==
    /\ Idle # Done /\ NoFile \notin FileRows /\ NoAttach \notin AttachRows
    /\ None \notin Files /\ None \notin Sources /\ None \notin Contents
    /\ Requests \subseteq Files /\ Legacy \subseteq Files
    /\ Uploads \subseteq Sources /\ Mails \subseteq Sources /\ Legacy \subseteq Sources
    /\ \A q \in Requests : Source[q] \in Uploads \cup Mails
  BY DEF Idle, Done, NoFile, FileRows, NoAttach, AttachRows, Files, Sources

\* What UploadRows says of a row.
UploadTyped(row) ==
    /\ row \in UploadRows
    /\ row.file \in Files \cup {None} /\ row.content \in Contents \cup {None}
    /\ row.due \in BOOLEAN
    /\ row.status \in {None, "uploaded", "pending", "consumed", "expired", "deleted"}
    /\ row.status = "uploaded" => row.file \in Files /\ row.content \in Contents

LEMMA UploadRow == \A row \in UploadRows : UploadTyped(row)
  BY DEF UploadRows, UploadTyped, None

LEMMA Rows ==
    ASSUME TypeOK
    PROVE  /\ \A q \in Requests :
                /\ request[q] \in RequestRows \cup {Idle, Done}
                /\ request[q].pc \in Busy =>
                     request[q] \in RequestRows /\ request[q] # Idle /\ request[q] # Done
                /\ request[q].pc \notin Busy => request[q] \in {Idle, Done}
           /\ \A f \in Files : Exists(f) => file[f] \in FileRows
           /\ \A f \in Files : file[f].key \in Sources => Exists(f)
           /\ \A s \in Sources : attach[s] # NoAttach => attach[s] \in AttachRows
           /\ \A s \in Sources : attach[s].file \in Files => attach[s] # NoAttach
           /\ \A u \in Uploads : UploadTyped(upload[u])
           /\ \A l \in Legacy :
                /\ backfill[l] = NotRunning => backfill[l].pc = "idle"
                /\ backfill[l] # NotRunning => backfill[l].pc \in {"merge", "stamp"}
                                               /\ backfill[l].target \in Files \cup {None}
           /\ \A x \in closing : x.upload \in Uploads /\ x.how \in {"cancel", "expire"}
                                 /\ x.file \in Files \cup {None}
  <1>1. \A q \in Requests :
                /\ request[q] \in RequestRows \cup {Idle, Done}
                /\ request[q].pc \in Busy =>
                     request[q] \in RequestRows /\ request[q] # Idle /\ request[q] # Done
                /\ request[q].pc \notin Busy => request[q] \in {Idle, Done}
    BY DEF TypeOK, RequestRows, Idle, Done, Busy
  <1>2. /\ \A f \in Files : Exists(f) => file[f] \in FileRows
        /\ \A f \in Files : file[f].key \in Sources => Exists(f)
    BY Names DEF TypeOK, Exists, NoFile
  <1>3. /\ \A s \in Sources : attach[s] # NoAttach => attach[s] \in AttachRows
        /\ \A s \in Sources : attach[s].file \in Files => attach[s] # NoAttach
    BY Names DEF TypeOK, NoAttach
  <1>4. \A u \in Uploads : UploadTyped(upload[u])
    BY UploadRow DEF TypeOK
  <1>5. \A l \in Legacy :
                /\ backfill[l] = NotRunning => backfill[l].pc = "idle"
                /\ backfill[l] # NotRunning => backfill[l].pc \in {"merge", "stamp"}
                                               /\ backfill[l].target \in Files \cup {None}
    BY DEF TypeOK, NotRunning
  <1>6. \A x \in closing : x.upload \in Uploads /\ x.how \in {"cancel", "expire"}
                                 /\ x.file \in Files \cup {None}
    BY DEF TypeOK
  <1> QED
    BY <1>1, <1>2, <1>3, <1>4, <1>5, <1>6

\* The request goes on, with the file t.
Goes(q, pc, t) ==
    /\ request' \in [Requests -> RequestRows \cup {Idle, Done}]
    /\ request'[q] \in RequestRows
    /\ request'[q].pc = pc /\ request'[q].target = t /\ request'[q].content = request[q].content
    /\ \A p \in Requests \ {q} : request'[p] = request[p]

LEMMA GoesOn ==
    ASSUME TypeOK, NEW q \in Requests, Running(q), NEW pc \in Busy, NEW t \in Files \cup {None},
           request' = [request EXCEPT ![q] = [request[q] EXCEPT !.pc = pc, !.target = t]]
    PROVE  Goes(q, pc, t)
  <1>1. request \in [Requests -> RequestRows \cup {Idle, Done}] /\ request[q] \in RequestRows
    BY Rows DEF TypeOK, Running
  <1>2. PICK row \in RequestRows : row = [request[q] EXCEPT !.pc = pc, !.target = t]
    <2>1. [request[q] EXCEPT !.pc = pc, !.target = t] \in RequestRows
      BY <1>1 DEF RequestRows
    <2> QED
      BY <2>1
  <1>3. row.pc = pc /\ row.target = t /\ row.content = request[q].content
    BY <1>1, <1>2 DEF RequestRows
  <1> QED
    BY <1>1, <1>2, <1>3 DEF Goes

LEMMA GotoGoes ==
    ASSUME TypeOK, NEW q \in Requests, Running(q), NEW pc \in Busy, Goto(q, pc)
    PROVE  Goes(q, pc, Target(q))
  <1>1. request \in [Requests -> RequestRows \cup {Idle, Done}] /\ request[q] \in RequestRows
    BY Rows DEF TypeOK, Running
  <1>2. [request[q] EXCEPT !.pc = pc] = [request[q] EXCEPT !.pc = pc, !.target = request[q].target]
    BY <1>1 DEF RequestRows
  <1>3. request[q].target \in Files \cup {None}
    BY <1>1 DEF RequestRows
  <1> QED
    BY <1>2, <1>3, GoesOn DEF Goto, Target

\* The request is over.
Leaves(q) ==
    /\ request' \in [Requests -> RequestRows \cup {Idle, Done}]
    /\ request'[q] = Done /\ request'[q].pc = "done"
    /\ \A p \in Requests \ {q} : request'[p] = request[p]

LEMMA LeaveLeaves ==
    ASSUME TypeOK, NEW q \in Requests, Leave(q)
    PROVE  Leaves(q)
  BY DEF TypeOK, Leave, Leaves, Done

---------------------------------------------------------------------------
(* Types: the requests' steps.                                             *)
LEMMA PutStarts ==
    ASSUME TypeOK, NEW q \in Requests, NEW c \in Contents,
           request' = [request EXCEPT ![q] = [pc |-> "put", content |-> c, target |-> None]]
    PROVE  /\ request' \in [Requests -> RequestRows \cup {Idle, Done}]
           /\ request'[q] \in RequestRows
           /\ request'[q].pc = "put" /\ request'[q].content = c
           /\ \A p \in Requests \ {q} : request'[p] = request[p]
  <1>1. PICK row \in RequestRows : row = [pc |-> "put", content |-> c, target |-> None]
    <2>1. [pc |-> "put", content |-> c, target |-> None] \in RequestRows
      BY DEF RequestRows, Busy
    <2> QED
      BY <2>1
  <1>2. row.pc = "put" /\ row.content = c
    BY <1>1
  <1> QED
    BY <1>1, <1>2 DEF TypeOK

LEMMA BeginTyped ==
    ASSUME Typed, NEW q \in Requests, BeginPut(q) \/ BeginInbound(q)
    PROVE  Typed'
  <1>1. TypeOK /\ Contented
    BY DEF Typed
  <1>2. PICK c \in Contents :
          request' = [request EXCEPT ![q] = [pc |-> "put", content |-> c, target |-> None]]
    <2>1. CASE BeginPut(q)
      <3>1. Source[q] \in Uploads /\ upload[Source[q]].status = "pending"
            /\ request' = [request EXCEPT ![q] =
                 [pc |-> "put", content |-> upload[Source[q]].content, target |-> None]]
        BY <2>1 DEF BeginPut
      <3>2. upload[Source[q]].content \in Contents
        BY <1>1, <3>1 DEF Contented, None
      <3> QED
        BY <3>1, <3>2
    <2>2. CASE BeginInbound(q)
      BY <2>2 DEF BeginInbound
    <2> QED
      BY <2>1, <2>2
  <1>3. /\ request' \in [Requests -> RequestRows \cup {Idle, Done}]
        /\ request'[q].pc = "put" /\ \A p \in Requests \ {q} : request'[p] = request[p]
    BY <1>1, <1>2, PutStarts
  <1>4. UNCHANGED <<upload, file, object, attach, closing, removing, collect, drop,
                    backfill, leaked, faults>>
    BY DEF BeginPut, BeginInbound
  <1>5. TypeOK'
    BY <1>1, <1>3, <1>4 DEF TypeOK
  <1>6. Contented'
    BY <1>1, <1>3, <1>4 DEF Contented, Chosen, Target
  <1> QED
    BY <1>5, <1>6 DEF Typed

(* What a step of the store makes of its request, and of the rest.         *)
Chooses(q) ==
    /\ UNCHANGED <<upload, file, object, attach, closing, removing, collect, drop,
                   backfill, leaked, faults>>
    /\ \/ At(q, "find") /\ \E f \in Identical(Source[q], {}) : Goes(q, "drop", f)
       \/ At(q, "refind") /\ \E f \in Identical(Source[q], {}) : Goes(q, "raced", f)
       \/ At(q, "find") /\ Goes(q, "insert", Target(q))
       \/ At(q, "refind") /\ Goes(q, "suffix", Target(q))

Writes(q) ==
    /\ UNCHANGED <<upload, file, attach, closing, removing, collect, drop,
                   backfill, leaked, faults>>
    /\ \/ At(q, "put") /\ Goes(q, "find", Target(q))
          /\ object' = [object EXCEPT ![Source[q]] = request[q].content]
       \/ (At(q, "drop") \/ At(q, "raced")) /\ Goes(q, "link", Target(q))
          /\ object' \in {object, [object EXCEPT ![Source[q]] = None]}

Inserts(q) ==
    /\ UNCHANGED <<upload, object, attach, closing, removing, collect, drop,
                   backfill, leaked, faults>>
    /\ At(q, "insert") \/ At(q, "suffix")
    /\ \/ file' = file /\ (Goes(q, "refind", Target(q)) \/ Leaves(q))
       \/ /\ ~KeyTaken(Source[q])
          /\ \E base \in BOOLEAN : file' = [file EXCEPT ![q] = NewFile(q, base)]
          /\ Goes(q, "link", q)

LEMMA StoreSteps ==
    ASSUME TypeOK, NEW q \in Requests
    PROVE  /\ FindIdentical(q) \/ FindNone(q) \/ Refind(q) => Chooses(q)
           /\ PutObject(q) \/ DropOwn(q) \/ DropRaced(q) => Writes(q)
           /\ InsertFile(q) \/ InsertSuffixed(q) => Inserts(q)
  <1> USE DEF At
  <1>1. \A pc \in Busy : request[q].pc = pc => Running(q)
    BY DEF Running
  <1>2. \A f \in Identical(Source[q], {}) : f \in Files
    BY DEF Identical
  <1>3. ASSUME NEW pc \in Busy, NEW t \in Files, Running(q),
               request' = [request EXCEPT ![q].target = t, ![q].pc = pc]
        PROVE  Goes(q, pc, t)
    <2>1. request' = [request EXCEPT ![q] = [request[q] EXCEPT !.pc = pc, !.target = t]]
      <3>1. request \in [Requests -> RequestRows \cup {Idle, Done}] /\ request[q] \in RequestRows
        BY <1>3, Rows DEF TypeOK, Running
      <3>2. request' = [request EXCEPT ![q] = [request[q] EXCEPT !.target = t, !.pc = pc]]
        BY <1>3, <3>1
      <3>3. [request[q] EXCEPT !.target = t, !.pc = pc] = [request[q] EXCEPT !.pc = pc, !.target = t]
        BY <3>1 DEF RequestRows
      <3> QED
        BY <3>2, <3>3
    <2> QED
      BY <1>3, <2>1, GoesOn
  <1>4. ASSUME FindIdentical(q) PROVE Chooses(q)
    <2>1. PICK f \in Identical(Source[q], {}) :
            request' = [request EXCEPT ![q].target = f, ![q].pc = "drop"]
      BY <1>4 DEF FindIdentical
    <2>2. Goes(q, "drop", f)
      BY <1>1, <1>2, <1>3, <1>4, <2>1 DEF FindIdentical, Busy
    <2> QED
      BY <1>4, <2>2 DEF FindIdentical, Chooses
  <1>5. ASSUME FindNone(q) PROVE Chooses(q)
    BY <1>1, <1>5, GotoGoes DEF FindNone, Chooses, Busy
  <1>6. ASSUME Refind(q) PROVE Chooses(q)
    <2>1. CASE Identical(Source[q], {}) = {}
      <3>1. Goto(q, "suffix")
        BY <1>6, <2>1 DEF Refind
      <3> QED
        BY <1>1, <1>6, <3>1, GotoGoes DEF Refind, Chooses, Busy
    <2>2. CASE Identical(Source[q], {}) # {}
      <3>1. PICK f \in Identical(Source[q], {}) :
              request' = [request EXCEPT ![q].target = f, ![q].pc = "raced"]
        BY <1>6, <2>2 DEF Refind
      <3>2. Goes(q, "raced", f)
        BY <1>1, <1>2, <1>3, <1>6, <3>1 DEF Refind, Busy
      <3> QED
        BY <1>6, <3>2 DEF Refind, Chooses
    <2> QED
      BY <2>1, <2>2
  <1>7. ASSUME PutObject(q) PROVE Writes(q)
    BY <1>1, <1>7, GotoGoes DEF PutObject, Writes, Busy
  <1>8. ASSUME DropOwn(q) PROVE Writes(q)
    BY <1>1, <1>8, GotoGoes DEF DropOwn, Writes, Busy
  <1>9. ASSUME DropRaced(q) PROVE Writes(q)
    BY <1>1, <1>9, GotoGoes DEF DropRaced, Writes, Busy
  <1>10. ASSUME InsertFile(q) PROVE Inserts(q)
    <2>1. CASE BaseTaken(request[q].content) \/ KeyTaken(Source[q])
      <3>1. Goes(q, "refind", Target(q))
        BY <1>1, <1>10, <2>1, GotoGoes DEF InsertFile, Busy
      <3> QED
        BY <1>10, <2>1, <3>1 DEF InsertFile, Inserts
    <2>2. CASE ~(BaseTaken(request[q].content) \/ KeyTaken(Source[q]))
      <3>1. Goes(q, "link", q)
        BY <1>1, <1>3, <1>10, <2>2, Names DEF InsertFile, Busy
      <3>2. file' = [file EXCEPT ![q] = NewFile(q, TRUE)]
        BY <1>10, <2>2 DEF InsertFile
      <3>3. \E base \in BOOLEAN : file' = [file EXCEPT ![q] = NewFile(q, base)]
        BY <3>2
      <3> QED
        BY <1>10, <2>2, <3>1, <3>3 DEF InsertFile, Inserts
    <2> QED
      BY <2>1, <2>2
  <1>11. ASSUME InsertSuffixed(q) PROVE Inserts(q)
    <2>1. CASE KeyTaken(Source[q])
      <3>1. Leaves(q)
        BY <1>11, <2>1, LeaveLeaves DEF InsertSuffixed
      <3> QED
        BY <1>11, <2>1, <3>1 DEF InsertSuffixed, Inserts
    <2>2. CASE ~KeyTaken(Source[q])
      <3>1. Goes(q, "link", q)
        BY <1>1, <1>3, <1>11, <2>2, Names DEF InsertSuffixed, Busy
      <3>2. file' = [file EXCEPT ![q] = NewFile(q, FALSE)]
        BY <1>11, <2>2 DEF InsertSuffixed
      <3>3. \E base \in BOOLEAN : file' = [file EXCEPT ![q] = NewFile(q, base)]
        BY <3>2
      <3> QED
        BY <1>11, <2>2, <3>1, <3>3 DEF InsertSuffixed, Inserts
    <2> QED
      BY <2>1, <2>2
  <1> QED
    BY <1>4, <1>5, <1>6, <1>7, <1>8, <1>9, <1>10, <1>11

LEMMA NewFileRow ==
    ASSUME TypeOK, NEW q \in Requests, Running(q), NEW base \in BOOLEAN
    PROVE  /\ NewFile(q, base) \in FileRows /\ NewFile(q, base) # NoFile
           /\ NewFile(q, base).key = Source[q] /\ NewFile(q, base).bytes = request[q].content
           /\ NewFile(q, base).hashed
  <1>1. request[q].content \in Contents /\ Source[q] \in Sources
    BY Rows, Names DEF Running, RequestRows
  <1>2. PICK t \in BOOLEAN : t = TRUE
    OBVIOUS
  <1>3. NewFile(q, base) = [key |-> Source[q], bytes |-> request[q].content,
                            hashed |-> t, base |-> base]
    BY <1>2 DEF NewFile
  <1>4. NewFile(q, base) \in FileRows
    BY <1>1, <1>3 DEF FileRows
  <1>5. NewFile(q, base).hashed
    BY DEF NewFile
  <1>6. NewFile(q, base).key = Source[q] /\ NewFile(q, base).bytes = request[q].content
    BY <1>3
  <1> QED
    BY <1>4, <1>5, <1>6, Names

LEMMA StoreTyped ==
    ASSUME Typed, NEW q \in Requests, Chooses(q) \/ Writes(q) \/ Inserts(q)
    PROVE  Typed'
  <1> USE DEF At
  <1>1. TypeOK /\ Contented /\ Source[q] \in Sources /\ q \in Files
    BY Names DEF Typed
  <1>2. UNCHANGED <<upload, attach, closing, removing, collect, drop, backfill, leaked, faults>>
    BY DEF Chooses, Writes, Inserts
  <1>3. /\ request' \in [Requests -> RequestRows \cup {Idle, Done}]
        /\ \A p \in Requests \ {q} : request'[p] = request[p]
        /\ request[q].pc \in Busy
    BY DEF Chooses, Writes, Inserts, Goes, Leaves, Busy
  <1>4. request'[q].pc \in Chosen => request'[q].target \in Files
    <2>1. CASE Chooses(q)
      BY <2>1 DEF Chooses, Goes, Chosen, Identical
    <2>2. CASE Writes(q)
      BY <1>1, <2>2 DEF Writes, Goes, Chosen, Contented, Target
    <2>3. CASE Inserts(q)
      BY <1>1, <2>3 DEF Inserts, Goes, Leaves, Chosen
    <2> QED
      BY <2>1, <2>2, <2>3
  <1>5. object' \in [Sources -> Contents \cup {None}]
    <2>1. request[q].content \in Contents
      BY <1>1, <1>3, Rows DEF RequestRows
    <2> QED
      BY <1>1, <2>1 DEF Chooses, Writes, Inserts, TypeOK
  <1>6. file' \in [Files -> FileRows \cup {NoFile}]
    <2>1. \A base \in BOOLEAN : NewFile(q, base) \in FileRows
      BY <1>1, <1>3, NewFileRow DEF Running
    <2> QED
      BY <1>1, <2>1 DEF Chooses, Writes, Inserts, TypeOK
  <1>7. TypeOK'
    BY <1>1, <1>2, <1>3, <1>5, <1>6 DEF TypeOK
  <1>8. Contented'
    BY <1>1, <1>2, <1>3, <1>4 DEF Contented, Target
  <1> QED
    BY <1>7, <1>8 DEF Typed

---------------------------------------------------------------------------
(* Types: everything else.                                                 *)
LEMMA FaultTyped ==
    ASSUME TypeOK, Fault
    PROVE  faults' \in 0..MaxFaults
  BY DEF TypeOK, Fault

LEMMA EndTyped ==
    ASSUME Typed, NEW q \in Requests, LinkUpload(q) \/ LinkInbound(q) \/ Crash(q)
    PROVE  Typed' /\ Leaves(q)
  <1> USE DEF At
  <1>1. TypeOK /\ Contented /\ Leave(q)
    BY DEF Typed, LinkUpload, LinkInbound, Crash
  <1>2. Leaves(q)
    BY <1>1, LeaveLeaves
  <1>3. CASE LinkUpload(q)
    <2>1. Source[q] \in Uploads /\ Target(q) \in Files
      BY <1>1, <1>3 DEF LinkUpload, Contented, Chosen
    <2>2. PICK u \in Uploads : u = Source[q]
      BY <2>1
    <2>3. \/ upload' = upload
          \/ upload[u].status = "pending" /\ upload' = [upload EXCEPT ![u].file = Target(q)]
      BY <1>3, <2>2 DEF LinkUpload
    <2>4. /\ upload' \in [Uploads -> UploadRows]
          /\ \A v \in Uploads : /\ upload'[v].status = upload[v].status
                                /\ upload'[v].content = upload[v].content
                                /\ upload[v].status = None => upload'[v].file = upload[v].file
      <3>1. CASE upload' = upload
        BY <1>1, <3>1 DEF TypeOK
      <3>2. CASE upload[u].status = "pending" /\ upload' = [upload EXCEPT ![u].file = Target(q)]
        <4>1. UploadTyped(upload[u]) /\ upload \in [Uploads -> UploadRows]
          BY <1>1, Rows DEF TypeOK
        <4>2. PICK row \in UploadRows :
                /\ row = [upload[u] EXCEPT !.file = Target(q)]
                /\ row.status = "pending" /\ row.content = upload[u].content
          <5>1. [upload[u] EXCEPT !.file = Target(q)] \in UploadRows
            BY <2>1, <3>2, <4>1 DEF UploadRows, UploadTyped
          <5> QED
            BY <3>2, <4>1, <5>1 DEF UploadTyped, UploadRows
        <4>3. upload' = [upload EXCEPT ![u] = row]
          BY <3>2, <4>2
        <4> QED
          BY <3>2, <4>1, <4>2, <4>3 DEF None
      <3> QED
        BY <2>3, <3>1, <3>2
    <2>5. collect' \subseteq Files
      BY <1>1, <1>3, <2>1 DEF LinkUpload, TypeOK
    <2>6. TypeOK'
      BY <1>1, <1>2, <1>3, <2>4, <2>5 DEF TypeOK, LinkUpload, Leaves
    <2>7. Contented'
      BY <1>1, <1>2, <1>3, <2>4 DEF Contented, LinkUpload, Leaves, Chosen, Target
    <2> QED
      BY <1>2, <2>6, <2>7 DEF Typed
  <1>4. CASE LinkInbound(q)
    <2>1. Target(q) \in Files /\ request[q].content \in Contents /\ Source[q] \in Sources
      BY <1>1, <1>4, Rows, Names DEF LinkInbound, Contented, Chosen, Busy, RequestRows
    <2>2. attach' \in [Sources -> AttachRows \cup {NoAttach}] /\ collect' \subseteq Files
      <3>1. [file |-> Target(q), content |-> request[q].content] \in AttachRows
        BY <2>1 DEF AttachRows
      <3> QED
        BY <1>1, <1>4, <2>1, <3>1 DEF LinkInbound, TypeOK
    <2>3. TypeOK'
      BY <1>1, <1>2, <1>4, <2>2 DEF TypeOK, LinkInbound, Leaves
    <2>4. Contented'
      BY <1>1, <1>2, <1>4 DEF Contented, LinkInbound, Leaves, Chosen, Target
    <2> QED
      BY <1>2, <2>3, <2>4 DEF Typed
  <1>5. CASE Crash(q)
    <2>1. TypeOK'
      BY <1>1, <1>2, <1>5, FaultTyped DEF TypeOK, Crash, Leaves
    <2>2. Contented'
      BY <1>1, <1>2, <1>5 DEF Contented, Crash, Leaves, Chosen, Target
    <2> QED
      BY <1>2, <2>1, <2>2 DEF Typed
  <1> QED
    BY <1>3, <1>4, <1>5

(* An upload's row becomes another one, of the same body.                  *)
Rewritten(u, row) ==
    /\ upload' = [upload EXCEPT ![u] = row]
    /\ row \in UploadRows /\ row.status # None
    /\ row.content \in Contents

LEMMA RewrittenTyped ==
    ASSUME Typed, NEW u \in Uploads, NEW row, Rewritten(u, row)
    PROVE  /\ upload' \in [Uploads -> UploadRows] /\ upload'[u] = row
           /\ \A v \in Uploads \ {u} : upload'[v] = upload[v]
           /\ \A v \in Uploads :
                /\ upload'[v].status # None => upload'[v].content \in Contents
                /\ upload'[v].status = None => upload'[v].file = None
  <1>1. upload \in [Uploads -> UploadRows] /\ Contented
    BY DEF Typed, TypeOK
  <1> QED
    BY <1>1 DEF Rewritten, Contented

LEMMA UploadSteps ==
    ASSUME Typed, NEW u \in Uploads
    PROVE  /\ \A c \in Contents : CreateUpload(u, c) =>
                \E row : /\ Rewritten(u, row) /\ row.status = "pending"
                         /\ row.file = None /\ row.due = upload[u].due /\ row.content = c
           /\ Complete(u) => \E row : /\ Rewritten(u, row) /\ row.status = "uploaded"
                /\ row.file = upload[u].file /\ row.content = upload[u].content
           /\ Consume(u) => \E row : /\ Rewritten(u, row) /\ row.status = "consumed"
                /\ row.file = upload[u].file /\ row.content = upload[u].content
           /\ ExpireRead(u) => \E row : /\ Rewritten(u, row) /\ row.status = upload[u].status
                /\ row.file = upload[u].file /\ row.content = upload[u].content
  <1>1. /\ UploadTyped(upload[u]) /\ upload \in [Uploads -> UploadRows]
        /\ upload[u].status # None => upload[u].content \in Contents
        /\ upload[u].status = None => upload[u].file = None
    BY Rows DEF Typed, TypeOK, Contented
  <1>2. ASSUME NEW c \in Contents, CreateUpload(u, c)
        PROVE  \E row : /\ Rewritten(u, row) /\ row.status = "pending"
                         /\ row.file = None /\ row.due = upload[u].due /\ row.content = c
    <2>1. PICK row \in UploadRows :
            /\ row = [upload[u] EXCEPT !.status = "pending", !.content = c]
            /\ row.status = "pending" /\ row.file = None /\ row.due = upload[u].due
            /\ row.content = c
      <3>1. [upload[u] EXCEPT !.status = "pending", !.content = c] \in UploadRows
        BY <1>1, <1>2 DEF UploadRows, UploadTyped, CreateUpload, None
      <3> QED
        BY <1>1, <1>2, <3>1 DEF UploadRows, UploadTyped, CreateUpload
    <2>2. upload' = [upload EXCEPT ![u] = row]
      BY <1>1, <1>2, <2>1 DEF CreateUpload
    <2> QED
      BY <2>1, <2>2 DEF Rewritten, None
  <1>3. ASSUME Complete(u)
        PROVE  \E row : /\ Rewritten(u, row) /\ row.status = "uploaded"
                /\ row.file = upload[u].file /\ row.content = upload[u].content
    <2>1. PICK row \in UploadRows :
            /\ row = [upload[u] EXCEPT !.status = "uploaded"]
            /\ row.status = "uploaded" /\ row.file = upload[u].file
            /\ row.content = upload[u].content
      <3>1. upload[u].file \in Files /\ upload[u].content \in Contents
        BY <1>1, <1>3 DEF Complete, UploadTyped, None
      <3>2. [upload[u] EXCEPT !.status = "uploaded"] \in UploadRows
        BY <1>1, <3>1 DEF UploadRows, UploadTyped
      <3> QED
        BY <1>1, <3>2 DEF UploadRows, UploadTyped
    <2>2. upload' = [upload EXCEPT ![u] = row]
      BY <1>3, <2>1 DEF Complete
    <2> QED
      BY <1>1, <1>3, <2>1, <2>2 DEF Rewritten, Complete, None
  <1>4. ASSUME Consume(u)
        PROVE  \E row : /\ Rewritten(u, row) /\ row.status = "consumed"
                /\ row.file = upload[u].file /\ row.content = upload[u].content
    <2>1. PICK row \in UploadRows :
            /\ row = [upload[u] EXCEPT !.status = "consumed"]
            /\ row.status = "consumed" /\ row.file = upload[u].file
            /\ row.content = upload[u].content
      <3>1. [upload[u] EXCEPT !.status = "consumed"] \in UploadRows
        BY <1>1 DEF UploadRows, UploadTyped
      <3> QED
        BY <1>1, <3>1 DEF UploadRows, UploadTyped
    <2>2. upload' = [upload EXCEPT ![u] = row]
      BY <1>4, <2>1 DEF Consume
    <2> QED
      BY <1>1, <1>4, <2>1, <2>2 DEF Rewritten, Consume, None
  <1>5. ASSUME ExpireRead(u)
        PROVE  \E row : /\ Rewritten(u, row) /\ row.status = upload[u].status
                /\ row.file = upload[u].file /\ row.content = upload[u].content
    <2>1. PICK t \in BOOLEAN : t = TRUE
      OBVIOUS
    <2>2. PICK row \in UploadRows :
            /\ row = [upload[u] EXCEPT !.due = t]
            /\ row.status = upload[u].status /\ row.file = upload[u].file
            /\ row.content = upload[u].content
      <3>1. [upload[u] EXCEPT !.due = t] \in UploadRows
        BY <1>1 DEF UploadRows, UploadTyped
      <3> QED
        BY <1>1, <3>1 DEF UploadRows, UploadTyped
    <2>3. upload' = [upload EXCEPT ![u] = row]
      BY <1>5, <2>1, <2>2 DEF ExpireRead
    <2>4. upload[u].status # None
      BY <1>5 DEF ExpireRead, Active, None
    <2> QED
      BY <1>1, <2>2, <2>3, <2>4 DEF Rewritten
  <1> QED
    BY <1>2, <1>3, <1>4, <1>5

LEMMA UploadTypes ==
    ASSUME Typed, NEW u \in Uploads, NEW c \in Contents,
           CreateUpload(u, c) \/ Complete(u) \/ Consume(u) \/ ExpireRead(u) \/ CancelRead(u)
    PROVE  Typed'
  <1>1. /\ TypeOK /\ Contented /\ UploadTyped(upload[u])
        /\ upload[u].status # None => upload[u].content \in Contents
    BY Rows DEF Typed, Contented
  <1>2. /\ upload' \in [Uploads -> UploadRows]
        /\ \A v \in Uploads :
             /\ upload'[v].status # None => upload'[v].content \in Contents
             /\ upload'[v].status = None => upload'[v].file = None
    <2>1. CASE CancelRead(u)
      BY <1>1, <2>1 DEF CancelRead, TypeOK, Contented
    <2>2. CASE ~CancelRead(u)
      BY <2>2, UploadSteps, RewrittenTyped
    <2> QED
      BY <2>1, <2>2
  <1>3. UNCHANGED <<file, object, request, removing, collect, drop, backfill, leaked, faults>>
    BY DEF CreateUpload, Complete, Consume, ExpireRead, CancelRead
  <1>4. closing' \subseteq [upload : Uploads, how : {"cancel", "expire"}, file : Files \cup {None}]
    <2>1. upload[u].file \in Files \cup {None}
      BY <1>1 DEF UploadTyped
    <2> QED
      BY <1>1, <2>1 DEF CreateUpload, Complete, Consume, ExpireRead, CancelRead, TypeOK
  <1>5. attach' \in [Sources -> AttachRows \cup {NoAttach}]
    <2>1. CASE Consume(u)
      <3>1. upload[u].status = "uploaded"
            /\ attach' = [attach EXCEPT ![u] =
                            [file |-> upload[u].file, content |-> upload[u].content]]
        BY <2>1 DEF Consume
      <3>2. [file |-> upload[u].file, content |-> upload[u].content] \in AttachRows
        BY <1>1, <3>1 DEF UploadTyped, AttachRows
      <3> QED
        BY <1>1, <3>1, <3>2 DEF TypeOK
    <2>2. CASE ~Consume(u)
      BY <1>1, <2>2 DEF CreateUpload, Complete, ExpireRead, CancelRead, TypeOK
    <2> QED
      BY <2>1, <2>2
  <1>6. TypeOK'
    BY <1>1, <1>2, <1>3, <1>4, <1>5 DEF TypeOK
  <1>7. Contented'
    BY <1>1, <1>2, <1>3 DEF Contented, Chosen, Target
  <1> QED
    BY <1>6, <1>7 DEF Typed

LEMMA CloseStep ==
    ASSUME Typed, NEW x \in closing, Close(x)
    PROVE  /\ x.upload \in Uploads
           /\ \/ upload' = upload /\ collect' = collect /\ drop' = drop
              \/ \E row : /\ Rewritten(x.upload, row) /\ row.status \in {"deleted", "expired"}
                          /\ row.file = upload[x.upload].file
                          /\ row.content = upload[x.upload].content
                          /\ IF x.file # None THEN collect' = collect \cup {x.file} /\ drop' = drop
                                              ELSE drop' = drop \cup {x.upload} /\ collect' = collect
  <1> DEFINE u == x.upload
             closes == Active(u) \/ (x.how = "cancel" /\ upload[u].status = "expired")
  <1>1. /\ TypeOK /\ u \in Uploads /\ UploadTyped(upload[u]) /\ upload \in [Uploads -> UploadRows]
        /\ upload[u].status # None => upload[u].content \in Contents
    BY Rows DEF Typed, TypeOK, Contented
  <1>2. CASE ~closes
    BY <1>1, <1>2 DEF Close
  <1>3. CASE closes
    <2>1. upload[u].status # None
      BY <1>3 DEF Active, None
    <2>2. PICK s \in {"deleted", "expired"} :
             s = (IF x.how = "cancel" THEN "deleted" ELSE "expired")
      OBVIOUS
    <2>3. PICK row \in UploadRows :
            /\ row = [upload[u] EXCEPT !.status = s]
            /\ row.status = s /\ row.file = upload[u].file /\ row.content = upload[u].content
      <3>1. [upload[u] EXCEPT !.status = s] \in UploadRows
        BY <1>1 DEF UploadRows, UploadTyped
      <3> QED
        BY <1>1, <3>1 DEF UploadRows, UploadTyped
    <2>4. upload' = [upload EXCEPT ![u] = row]
      BY <1>3, <2>2, <2>3 DEF Close
    <2>5. Rewritten(u, row)
      BY <1>1, <2>1, <2>2, <2>3, <2>4 DEF Rewritten, None
    <2>6. IF x.file # None THEN collect' = collect \cup {x.file} /\ drop' = drop
                           ELSE drop' = drop \cup {x.upload} /\ collect' = collect
      BY <1>3 DEF Close
    <2> QED
      BY <1>1, <2>3, <2>5, <2>6
  <1> QED
    BY <1>2, <1>3

LEMMA CloseTyped ==
    ASSUME Typed, NEW x \in closing, Close(x)
    PROVE  Typed'
  <1>1. TypeOK /\ Contented /\ x.upload \in Uploads /\ x.file \in Files \cup {None}
        /\ x.upload \in Sources
    BY Rows, Names DEF Typed
  <1>2. /\ upload' \in [Uploads -> UploadRows]
        /\ \A v \in Uploads :
             /\ upload'[v].status # None => upload'[v].content \in Contents
             /\ upload'[v].status = None => upload'[v].file = None
    <2>1. CASE upload' = upload
      BY <1>1, <2>1 DEF TypeOK, Contented
    <2>2. ASSUME NEW row, Rewritten(x.upload, row)
          PROVE  /\ upload' \in [Uploads -> UploadRows]
                 /\ \A v \in Uploads :
                      /\ upload'[v].status # None => upload'[v].content \in Contents
                      /\ upload'[v].status = None => upload'[v].file = None
      BY <1>1, <2>2, RewrittenTyped
    <2> QED
      BY <2>1, <2>2, CloseStep
  <1>3. collect' \subseteq Files /\ drop' \subseteq Sources
    BY <1>1, CloseStep DEF TypeOK
  <1>4. UNCHANGED <<file, object, attach, request, removing, backfill, leaked, faults>>
        /\ closing' = closing \ {x}
    BY DEF Close
  <1>5. TypeOK'
    BY <1>1, <1>2, <1>3, <1>4 DEF TypeOK
  <1>6. Contented'
    BY <1>1, <1>2, <1>4 DEF Contented, Chosen, Target
  <1> QED
    BY <1>5, <1>6 DEF Typed

(* What Collect makes of the uploads that name the file.                   *)
LEMMA CollectStep ==
    ASSUME Typed, NEW f \in Files, Collect(f)
    PROVE  /\ UNCHANGED <<object, attach, request, closing, removing, backfill, leaked, faults>>
           /\ \/ UNCHANGED <<file, drop, upload>>
              \/ /\ Exists(f) /\ ~Referenced(f)
                 /\ file' = [file EXCEPT ![f] = NoFile] /\ drop' = drop \cup {file[f].key}
                 /\ upload' \in [Uploads -> UploadRows]
                 /\ \A u \in Uploads :
                      /\ upload'[u].status = upload[u].status
                      /\ upload'[u].content = upload[u].content
                      /\ IF upload[u].file = f THEN upload'[u].file = None /\ ~Active(u)
                                               ELSE upload'[u].file = upload[u].file
  <1>1. TypeOK /\ upload \in [Uploads -> UploadRows] /\ \A u \in Uploads : UploadTyped(upload[u])
    BY Rows DEF Typed, TypeOK
  <1>2. UNCHANGED <<object, attach, request, closing, removing, backfill, leaked, faults>>
    BY DEF Collect
  <1>3. CASE ~(Exists(f) /\ ~Referenced(f))
    BY <1>2, <1>3 DEF Collect
  <1>4. CASE Exists(f) /\ ~Referenced(f)
    <2>1. /\ file' = [file EXCEPT ![f] = NoFile] /\ drop' = drop \cup {file[f].key}
          /\ upload' = [u \in Uploads |-> IF upload[u].file = f
                                         THEN [upload[u] EXCEPT !.file = None]
                                         ELSE upload[u]]
      BY <1>4 DEF Collect
    <2>2. ASSUME NEW u \in Uploads
          PROVE  /\ upload'[u] \in UploadRows /\ upload'[u].status = upload[u].status
                 /\ upload'[u].content = upload[u].content
                 /\ IF upload[u].file = f THEN upload'[u].file = None /\ ~Active(u)
                                          ELSE upload'[u].file = upload[u].file
      <3>1. CASE upload[u].file = f
        <4>1. ~Active(u)
          BY <1>4, <3>1 DEF Referenced
        <4>2. upload'[u] = [upload[u] EXCEPT !.file = None]
          BY <2>1, <3>1
        <4>3. [upload[u] EXCEPT !.file = None] \in UploadRows
          BY <1>1, <4>1 DEF UploadRows, UploadTyped, Active
        <4>4. PICK row \in UploadRows : row = [upload[u] EXCEPT !.file = None]
          BY <4>3
        <4>5. row.file = None /\ row.status = upload[u].status /\ row.content = upload[u].content
          BY <1>1, <4>4 DEF UploadRows, UploadTyped
        <4> QED
          BY <3>1, <4>1, <4>2, <4>4, <4>5
      <3>2. CASE upload[u].file # f
        BY <1>1, <2>1, <3>2 DEF UploadTyped
      <3> QED
        BY <3>1, <3>2
    <2>3. upload' \in [Uploads -> UploadRows]
      BY <2>1, <2>2
    <2> QED
      BY <1>2, <1>4, <2>1, <2>2, <2>3
  <1> QED
    BY <1>3, <1>4

LEMMA CollectTyped ==
    ASSUME Typed, NEW f \in Files, Collect(f)
    PROVE  Typed'
  <1>1. TypeOK /\ Contented /\ collect' = collect \ {f}
    BY DEF Typed, Collect
  <1>2. UNCHANGED <<object, attach, request, closing, removing, backfill, leaked, faults>>
    BY CollectStep
  <1>3. CASE UNCHANGED <<file, drop, upload>>
    <2>1. TypeOK'
      BY <1>1, <1>2, <1>3 DEF TypeOK
    <2>2. Contented'
      BY <1>1, <1>2, <1>3 DEF Contented, Target
    <2> QED
      BY <2>1, <2>2 DEF Typed
  <1>4. CASE ~UNCHANGED <<file, drop, upload>>
    <2>1. /\ Exists(f) /\ file' = [file EXCEPT ![f] = NoFile] /\ drop' = drop \cup {file[f].key}
          /\ upload' \in [Uploads -> UploadRows]
          /\ \A u \in Uploads :
                      /\ upload'[u].status = upload[u].status
                      /\ upload'[u].content = upload[u].content
                      /\ upload'[u].file \in {None, upload[u].file}
      BY <1>4, CollectStep
    <2>2. file[f].key \in Sources
      BY <1>1, <2>1, Rows DEF FileRows
    <2>3. file' \in [Files -> FileRows \cup {NoFile}]
      BY <1>1, <2>1 DEF TypeOK
    <2>4. TypeOK'
      BY <1>1, <1>2, <2>1, <2>2, <2>3 DEF TypeOK
    <2>5. Contented'
      BY <1>1, <1>2, <2>1 DEF Contented, Target
    <2> QED
      BY <2>4, <2>5 DEF Typed
  <1> QED
    BY <1>3, <1>4

LEMMA RemovalTyped ==
    ASSUME Typed, NEW s \in Sources,
           RemoveRead(s) \/ Remove(s) \/ DropObject(s) \/ DropLost(s)
    PROVE  Typed'
  <1>1. TypeOK /\ Contented
    BY DEF Typed
  <1>2. UNCHANGED <<upload, file, request, closing, backfill, leaked>>
    BY DEF RemoveRead, Remove, DropObject, DropLost
  <1>3. Contented'
    BY <1>1, <1>2 DEF Contented, Target
  <1>4. CASE RemoveRead(s)
    <2>1. attach[s].file \in Files
      BY <1>1, <1>4, Rows DEF RemoveRead, AttachRows
    <2>2. removing' \in [Sources -> Files \cup {None}]
      BY <1>1, <1>4, <2>1 DEF RemoveRead, TypeOK
    <2>3. TypeOK'
      BY <1>1, <1>2, <1>4, <2>2 DEF RemoveRead, TypeOK
    <2> QED
      BY <1>3, <2>3 DEF Typed
  <1>5. CASE Remove(s)
    <2>1. /\ removing' \in [Sources -> Files \cup {None}] /\ collect' \subseteq Files
          /\ attach' \in [Sources -> AttachRows \cup {NoAttach}]
      BY <1>1, <1>5 DEF Remove, TypeOK
    <2>2. TypeOK'
      BY <1>1, <1>2, <1>5, <2>1 DEF Remove, TypeOK
    <2> QED
      BY <1>3, <2>2 DEF Typed
  <1>6. CASE DropObject(s) \/ DropLost(s)
    <2>1. object' \in [Sources -> Contents \cup {None}] /\ faults' \in 0..MaxFaults
          /\ drop' \subseteq Sources /\ collect' \subseteq Files /\ UNCHANGED <<attach, removing>>
      BY <1>1, <1>6, FaultTyped DEF DropObject, DropLost, TypeOK
    <2>2. TypeOK'
      BY <1>1, <1>2, <2>1 DEF TypeOK
    <2> QED
      BY <1>3, <2>2 DEF Typed
  <1> QED
    BY <1>4, <1>5, <1>6

(* The backfill's steps.                                                   *)
LEMMA BackfillRows ==
    ASSUME TypeOK, NEW l \in Legacy
    PROVE  /\ BackfillFind(l) =>
                /\ backfill[l] = NotRunning /\ Exists(l) /\ ~file[l].hashed
                /\ UNCHANGED <<upload, file, object, attach, request, closing, removing,
                               collect, drop, leaked, faults>>
                /\ backfill' \in [Legacy -> {NotRunning} \cup
                       [pc : {"merge", "stamp"}, target : Files \cup {None}]]
                /\ \A k \in Legacy \ {l} : backfill'[k] = backfill[k]
                /\ backfill'[l] # NotRunning
                /\ backfill'[l].pc = "merge" => backfill'[l].target \in Identical(l, {l})
           /\ BackfillMerge(l) \/ BackfillStamp(l) =>
                /\ backfill' \in [Legacy -> {NotRunning} \cup
                       [pc : {"merge", "stamp"}, target : Files \cup {None}]]
                /\ \A k \in Legacy \ {l} : backfill'[k] = backfill[k]
                /\ backfill'[l] = NotRunning /\ backfill[l] # NotRunning
  <1>1. ASSUME BackfillFind(l)
        PROVE   /\ backfill[l] = NotRunning /\ Exists(l) /\ ~file[l].hashed
                /\ UNCHANGED <<upload, file, object, attach, request, closing, removing,
                               collect, drop, leaked, faults>>
                /\ backfill' \in [Legacy -> {NotRunning} \cup
                       [pc : {"merge", "stamp"}, target : Files \cup {None}]]
                /\ \A k \in Legacy \ {l} : backfill'[k] = backfill[k]
                /\ backfill'[l] # NotRunning
                /\ backfill'[l].pc = "merge" => backfill'[l].target \in Identical(l, {l})
    <2>1. PICK row \in [pc : {"merge", "stamp"}, target : Files \cup {None}] :
            /\ backfill' = [backfill EXCEPT ![l] = row]
            /\ row.pc = "merge" => row.target \in Identical(l, {l})
      <3>1. CASE Identical(l, {l}) = {}
        <4>1. PICK row \in [pc : {"merge", "stamp"}, target : Files \cup {None}] :
                row = [pc |-> "stamp", target |-> None]
          OBVIOUS
        <4>2. backfill' = [backfill EXCEPT ![l] = row] /\ row.pc = "stamp"
          BY <1>1, <3>1, <4>1 DEF BackfillFind
        <4> QED
          BY <4>2
      <3>2. CASE Identical(l, {l}) # {}
        <4>1. PICK f \in Identical(l, {l}) :
                backfill' = [backfill EXCEPT ![l] = [pc |-> "merge", target |-> f]]
          BY <1>1, <3>2 DEF BackfillFind
        <4>2. f \in Files
          BY DEF Identical
        <4>3. PICK row \in [pc : {"merge", "stamp"}, target : Files \cup {None}] :
                row = [pc |-> "merge", target |-> f]
          BY <4>2
        <4> QED
          BY <4>1, <4>3
      <3> QED
        BY <3>1, <3>2
    <2>2. row # NotRunning
      BY DEF NotRunning
    <2> QED
      BY <1>1, <2>1, <2>2 DEF BackfillFind, TypeOK
  <1>2. ASSUME BackfillMerge(l) \/ BackfillStamp(l)
        PROVE   /\ backfill' \in [Legacy -> {NotRunning} \cup
                       [pc : {"merge", "stamp"}, target : Files \cup {None}]]
                /\ \A k \in Legacy \ {l} : backfill'[k] = backfill[k]
                /\ backfill'[l] = NotRunning /\ backfill[l] # NotRunning
    <2>1. backfill[l].pc \in {"merge", "stamp"} /\ backfill' = [backfill EXCEPT ![l] = NotRunning]
      BY <1>2 DEF BackfillMerge, BackfillStamp
    <2>2. backfill[l] # NotRunning
      BY <2>1, Rows DEF NotRunning
    <2> QED
      BY <2>1, <2>2 DEF TypeOK
  <1> QED
    BY <1>1, <1>2

LEMMA MergeStep ==
    ASSUME Typed, NEW l \in Legacy, BackfillMerge(l)
    PROVE  /\ UNCHANGED <<upload, object, request, closing, removing, collect, faults>>
           /\ backfill[l].pc = "merge" /\ backfill[l].target \in Files /\ leaked' \subseteq Files
           /\ \/ UNCHANGED <<attach, file, drop>>
              \/ /\ Exists(backfill[l].target)
                 /\ attach' \in [Sources -> AttachRows \cup {NoAttach}]
                 /\ \A s \in Sources :
                      IF attach[s].file = l
                      THEN attach'[s].file = backfill[l].target /\ attach[s] # NoAttach
                           /\ attach'[s].content = attach[s].content
                      ELSE attach'[s] = attach[s]
                 /\ file' = [file EXCEPT ![l] = NoFile] /\ drop' = drop \cup {l}
  <1>1. TypeOK /\ Contented /\ l \in Files
    BY Names DEF Typed
  <1>2. backfill[l].pc = "merge" /\ backfill[l].target \in Files
    BY <1>1 DEF BackfillMerge, Contented
  <1>3. UNCHANGED <<upload, object, request, closing, removing, collect, faults>>
        /\ leaked' \subseteq Files
    BY <1>1, <1>2 DEF BackfillMerge, TypeOK
  <1>4. CASE ~Exists(backfill[l].target)
    BY <1>2, <1>3, <1>4 DEF BackfillMerge
  <1>5. CASE Exists(backfill[l].target)
    <2>1. PICK f \in Files : f = backfill[l].target
      BY <1>2
    <2>2. /\ attach' = [s \in Sources |-> IF attach[s].file = l
                                            THEN [attach[s] EXCEPT !.file = f]
                                            ELSE attach[s]]
          /\ file' = [file EXCEPT ![l] = NoFile] /\ drop' = drop \cup {l}
      BY <1>5, <2>1 DEF BackfillMerge
    <2>3. ASSUME NEW s \in Sources
          PROVE  /\ attach'[s] \in AttachRows \cup {NoAttach}
                 /\ IF attach[s].file = l
                      THEN attach'[s].file = f /\ attach[s] # NoAttach
                           /\ attach'[s].content = attach[s].content
                      ELSE attach'[s] = attach[s]
      <3>1. CASE attach[s].file = l
        <4>1. attach[s] \in AttachRows /\ attach[s] # NoAttach
          BY <1>1, <3>1, Rows
        <4>2. PICK row \in AttachRows : row = [attach[s] EXCEPT !.file = f]
          BY <4>1 DEF AttachRows
        <4>3. row.file = f /\ row.content = attach[s].content
          BY <4>1, <4>2 DEF AttachRows
        <4>4. attach'[s] = row
          BY <2>2, <3>1, <4>2
        <4> QED
          BY <3>1, <4>1, <4>3, <4>4
      <3>2. CASE attach[s].file # l
        BY <1>1, <2>2, <3>2 DEF TypeOK
      <3> QED
        BY <3>1, <3>2
    <2>4. attach' \in [Sources -> AttachRows \cup {NoAttach}]
      BY <2>2, <2>3
    <2> QED
      BY <1>2, <1>3, <1>5, <2>1, <2>2, <2>3, <2>4
  <1> QED
    BY <1>4, <1>5

LEMMA StampStep ==
    ASSUME Typed, NEW l \in Legacy, BackfillStamp(l)
    PROVE  /\ UNCHANGED <<upload, object, attach, request, closing, removing, collect, drop,
                          leaked, faults>>
           /\ file' \in [Files -> FileRows \cup {NoFile}]
           /\ \A f \in Files \ {l} : file'[f] = file[f]
           /\ IF Exists(l) THEN /\ file'[l].key = file[l].key /\ file'[l].bytes = file[l].bytes
                                /\ file'[l].hashed /\ file'[l] \in FileRows
                           ELSE file'[l] = file[l]
  <1>1. TypeOK /\ l \in Files /\ file \in [Files -> FileRows \cup {NoFile}]
    BY Names DEF Typed, TypeOK
  <1>2. UNCHANGED <<upload, object, attach, request, closing, removing, collect, drop,
                    leaked, faults>>
    BY DEF BackfillStamp
  <1>3. CASE ~Exists(l)
    BY <1>1, <1>2, <1>3 DEF BackfillStamp
  <1>4. CASE Exists(l)
    <2>1. PICK t \in BOOLEAN : t = TRUE
      OBVIOUS
    <2>2. PICK base \in BOOLEAN : base = ~BaseTaken(file[l].bytes)
      OBVIOUS
    <2>3. file[l] \in FileRows
      BY <1>1, <1>4, Rows
    <2>4. PICK row \in FileRows : row = [file[l] EXCEPT !.hashed = t, !.base = base]
      <3>1. [file[l] EXCEPT !.hashed = t, !.base = base] \in FileRows
        BY <2>3 DEF FileRows
      <3> QED
        BY <3>1
    <2>5. file' = [file EXCEPT ![l].hashed = t, ![l].base = base]
      BY <1>4, <2>1, <2>2 DEF BackfillStamp
    <2>6. file' = [file EXCEPT ![l] = row]
      BY <1>1, <2>4, <2>5
    <2>7. row.key = file[l].key /\ row.bytes = file[l].bytes /\ row.hashed = t
      BY <2>3, <2>4 DEF FileRows
    <2> QED
      BY <1>1, <1>2, <1>4, <2>1, <2>4, <2>6, <2>7
  <1> QED
    BY <1>3, <1>4

LEMMA BackfillTyped ==
    ASSUME Typed, NEW l \in Legacy, BackfillFind(l) \/ BackfillMerge(l) \/ BackfillStamp(l)
    PROVE  Typed'
  <1>1. TypeOK /\ Contented /\ l \in Sources
    BY Names DEF Typed
  <1>2. /\ backfill' \in [Legacy -> {NotRunning} \cup
                       [pc : {"merge", "stamp"}, target : Files \cup {None}]]
        /\ \A k \in Legacy \ {l} : backfill'[k] = backfill[k]
        /\ backfill'[l].pc = "merge" => backfill'[l].target \in Files
    BY <1>1, BackfillRows DEF Identical, NotRunning
  <1>3. UNCHANGED <<upload, object, request, closing, removing, collect, faults>>
    BY DEF BackfillFind, BackfillMerge, BackfillStamp
  <1>4. Contented'
    BY <1>1, <1>2, <1>3 DEF Contented, Target
  <1>5. /\ file' \in [Files -> FileRows \cup {NoFile}] /\ drop' \subseteq Sources
        /\ attach' \in [Sources -> AttachRows \cup {NoAttach}] /\ leaked' \subseteq Files
    <2>1. CASE BackfillFind(l)
      BY <1>1, <2>1 DEF BackfillFind, TypeOK
    <2>2. CASE BackfillMerge(l)
      BY <1>1, <2>2, MergeStep DEF TypeOK
    <2>3. CASE BackfillStamp(l)
      BY <1>1, <2>3, StampStep DEF TypeOK
    <2> QED
      BY <2>1, <2>2, <2>3
  <1>6. TypeOK'
    BY <1>1, <1>2, <1>3, <1>5 DEF TypeOK
  <1> QED
    BY <1>4, <1>6 DEF Typed

LEMMA InitTyped == Init => Typed
  <1> SUFFICES ASSUME Init PROVE Typed
    OBVIOUS
  <1>1. upload \in [Uploads -> UploadRows]
    <2>1. [status |-> None, file |-> None, due |-> FALSE, content |-> None] \in UploadRows
      BY DEF UploadRows
    <2> QED
      BY <2>1 DEF Init
  <1>2. /\ object \in [Sources -> Contents \cup {None}]
        /\ \A s \in Legacy : object[s] \in Contents
    BY Names DEF Init
  <1>3. file \in [Files -> FileRows \cup {NoFile}]
    <2>1. ASSUME NEW f \in Legacy
          PROVE  [key |-> f, bytes |-> object[f], hashed |-> FALSE, base |-> FALSE] \in FileRows
      BY <1>2, Names DEF FileRows
    <2> QED
      BY <2>1 DEF Init
  <1>4. attach \in [Sources -> AttachRows \cup {NoAttach}]
    <2>1. ASSUME NEW f \in Legacy PROVE [file |-> f, content |-> object[f]] \in AttachRows
      BY <1>2, Names DEF AttachRows
    <2> QED
      BY <2>1 DEF Init
  <1>5. TypeOK
    <2>1. /\ request \in [Requests -> RequestRows \cup {Idle, Done}]
          /\ removing \in [Sources -> Files \cup {None}]
          /\ backfill \in [Legacy -> {NotRunning} \cup
                       [pc : {"merge", "stamp"}, target : Files \cup {None}]]
      BY DEF Init
    <2>2. closing = {} /\ collect = {} /\ drop = {} /\ leaked = {} /\ faults \in 0..MaxFaults
      BY DEF Init
    <2> QED
      BY <1>1, <1>2, <1>3, <1>4, <2>1, <2>2 DEF TypeOK
  <1>6. Contented
    BY DEF Init, Contented, Chosen, Idle, NotRunning
  <1> QED
    BY <1>5, <1>6 DEF Typed

LEMMA NextTyped == Typed /\ [Next]_vars => Typed'
  <1> SUFFICES ASSUME Typed, [Next]_vars PROVE Typed'
    OBVIOUS
  <1>1. ASSUME NEW q \in Requests, BeginPut(q) \/ BeginInbound(q) \/ Store(q) \/ Crash(q)
        PROVE  Typed'
    BY <1>1, BeginTyped, StoreSteps, StoreTyped, EndTyped DEF Store, Typed
  <1>2. CASE UNCHANGED vars
    <2>1. TypeOK' /\ Contented'
      BY <1>2 DEF vars, Typed, TypeOK, Contented, Target
    <2> QED
      BY <2>1 DEF Typed
  <1>3. ASSUME NEW s \in Sources, DropLost(s) \/ RemoveRead(s) \/ Remove(s) \/ DropObject(s)
        PROVE  Typed'
    BY <1>3, RemovalTyped
  <1>4. ASSUME NEW f \in Files, CollectLost(f) PROVE Typed'
    <2>1. TypeOK /\ Contented
      BY DEF Typed
    <2>2. TypeOK' /\ Contented'
      BY <1>4, <2>1, FaultTyped DEF CollectLost, TypeOK, Contented, Target
    <2> QED
      BY <2>2 DEF Typed
  <1>5. ASSUME NEW u \in Uploads, Complete(u) \/ Consume(u) \/ CancelRead(u) \/ ExpireRead(u)
        PROVE  Typed'
    <2>1. PICK c : c \in Contents
      <3>1. upload[u].status # None /\ Contented
        BY <1>5 DEF Complete, Consume, CancelRead, ExpireRead, Active, None, Typed
      <3> QED
        BY <3>1 DEF Contented
    <2> QED
      BY <1>5, <2>1, UploadTypes
  <1> QED
    BY <1>1, <1>2, <1>3, <1>4, <1>5, UploadTypes, CloseTyped, CollectTyped, BackfillTyped
       DEF Next, CloseAny

(* Every row, object and request keeps its type, and an upload that is     *)
(* complete has a file (attachments/index.ts, file-catalog.ts).            *)
THEOREM TypeCorrect == Spec => []TypeOK
  <1>1. Typed => TypeOK
    BY DEF Typed
  <1> QED
    BY <1>1, InitTyped, NextTyped, PTL DEF Spec

---------------------------------------------------------------------------
(* What is referred to stays, as long as clients are patient and no PUT    *)
(* ends between its file row and its reference.                            *)
Calm == ~Impatient /\ ~CrashBeforeLink

Safe == Typed /\ FileInv /\ RequestInv /\ DropInv /\ ReferenceInv

(* The key of an object whose file is not inserted yet is no file's; two   *)
(* files never share one.                                                  *)
LEMMA KeysDiffer ==
    ASSUME Safe
    PROVE  /\ \A f, g \in Files : Exists(f) /\ Exists(g) /\ file[f].key = file[g].key => f = g
           /\ \A q \in Requests : Running(q) /\ request[q].pc # "link" =>
                Keyless(Source[q]) /\ ~Exists(q)
           /\ \A l \in Legacy : \A f \in Files : Exists(f) /\ f # l => file[f].key # l
           /\ \A f \in Files : Exists(f) => /\ f \in Legacy => file[f].key = f
                                            /\ f \in Requests => Began(file[f].key)
                                            /\ f \in Legacy \cup Requests
           /\ \A u \in Uploads : ~InFlight(u) /\ upload[u].file = None => Keyless(u)
  <1>1. ASSUME NEW f \in Requests, Exists(f)
        PROVE  /\ file[f].key = Source[f] /\ Source[f] \notin Legacy /\ request[f] # Idle
               /\ request[f] = Done \/ At(f, "link")
    <2>1. FileRight(f)
      BY <1>1, Names DEF Safe, FileInv
    <2> QED
      BY <2>1, Names DEF FileRight, At, Idle
  <1>2. ASSUME NEW f \in Legacy, Exists(f) PROVE file[f].key = f
    BY <1>2, Names DEF Safe, FileInv, FileRight
  <1>3. \A f, g \in Requests : Exists(f) /\ Exists(g) /\ file[f].key = file[g].key => f = g
    BY <1>1 DEF Safe, RequestInv
  <1>4. \A f, g \in Files : Exists(f) /\ Exists(g) /\ file[f].key = file[g].key => f = g
    BY <1>1, <1>2, <1>3 DEF Files
  <1>5. ASSUME NEW q \in Requests, Running(q), request[q].pc # "link"
        PROVE  Keyless(Source[q]) /\ ~Exists(q)
    <2>1. request[q] # Idle /\ request[q] # Done
      BY <1>5, Rows DEF Running, Safe, Typed
    <2>2. ~Exists(q)
      BY <1>1, <1>5, <2>1 DEF At
    <2>3. \A f \in Requests : Exists(f) => file[f].key # Source[q]
      BY <1>1, <2>1, <2>2 DEF Safe, RequestInv
    <2>4. \A f \in Legacy : Exists(f) => file[f].key # Source[q]
      BY <1>2, Names
    <2> QED
      BY <2>2, <2>3, <2>4 DEF Keyless, Files
  <1>6. \A l \in Legacy : \A f \in Files : Exists(f) /\ f # l => file[f].key # l
    BY <1>1, <1>2 DEF Files
  <1>7. ASSUME NEW f \in Files, Exists(f)
        PROVE  /\ f \in Legacy => file[f].key = f
               /\ f \in Requests => Began(file[f].key)
               /\ f \in Legacy \cup Requests
    BY <1>1, <1>2, <1>7 DEF Began, Files
  <1>8. ASSUME NEW u \in Uploads, ~InFlight(u), upload[u].file = None
        PROVE  Keyless(u)
    <2>1. ASSUME NEW f \in Requests, Exists(f), file[f].key = u PROVE FALSE
      <3>1. Source[f] = u /\ FileRight(f)
        BY <1>1, <2>1, Names DEF Safe, FileInv
      <3>2. CASE request[f] = Done
        BY <1>8, <3>1, <3>2, Names DEF FileRight
      <3>3. CASE At(f, "link")
        BY <1>8, <3>1, <3>3 DEF InFlight, Running, At, Busy
      <3> QED
        BY <1>1, <2>1, <3>2, <3>3
    <2>2. \A f \in Legacy : Exists(f) => file[f].key # u
      BY <1>2
    <2> QED
      BY <2>1, <2>2 DEF Keyless, Files
  <1> QED
    BY <1>4, <1>5, <1>6, <1>7, <1>8

LEMMA BeginSafe ==
    ASSUME Calm, Safe, NEW q \in Requests, BeginPut(q) \/ BeginInbound(q)
    PROVE  Safe'
  <1>1. /\ Typed /\ FileInv /\ RequestInv /\ DropInv /\ ReferenceInv /\ TypeOK /\ Contented
        /\ Typed' /\ q \in Files
    BY BeginTyped, Names DEF Safe, Typed
  <1>2. /\ request[q] = Idle /\ ~Began(Source[q])
        /\ UNCHANGED <<upload, file, object, attach, closing, removing, collect, drop,
                       backfill, leaked, faults>>
    BY DEF BeginPut, BeginInbound, Calm
  <1>3. PICK c \in Contents :
          /\ request' = [request EXCEPT ![q] = [pc |-> "put", content |-> c, target |-> None]]
          /\ Source[q] \in Uploads =>
               /\ upload[Source[q]].status = "pending" /\ upload[Source[q]].file = None
               /\ upload[Source[q]].content = c /\ \A x \in closing : x.upload # Source[q]
    <2>1. CASE BeginPut(q)
      <3>1. upload[Source[q]].content \in Contents
        BY <1>1, <2>1 DEF BeginPut, Contented, None
      <3> QED
        BY <2>1, <3>1 DEF BeginPut, Calm
    <2>2. CASE BeginInbound(q)
      <3>1. Source[q] \notin Uploads
        BY <2>2 DEF BeginInbound
      <3> QED
        BY <2>2, <3>1 DEF BeginInbound
    <2> QED
      BY <2>1, <2>2
  <1>4. /\ request'[q].pc = "put" /\ request'[q].content = c /\ request'[q] \in RequestRows
        /\ \A p \in Requests \ {q} : request'[p] = request[p]
    BY <1>1, <1>3, PutStarts
  <1>5. request[q] # Done /\ request[q].pc = "idle" /\ request'[q] # Idle
    BY <1>2, <1>4, Names DEF Idle
  <1>6. \A f \in Files : Past(f) => Past(f)' /\ f # q
    BY <1>1, <1>4, <1>5, Names DEF Past, At, Files
  <1>7. FileInv'
    <2>1. ASSUME NEW f \in Files, Exists(f)' PROVE FileRight(f)'
      <3>1. FileRight(f) /\ f # q
        BY <1>1, <1>2, <1>5, <2>1, Names DEF FileInv, FileRight, Exists, At
      <3> QED
        BY <1>2, <1>4, <3>1 DEF FileRight, At, Target
    <2> QED
      BY <2>1 DEF FileInv
  <1>8. RequestInv'
    <2>1. ASSUME NEW p \in Requests, Running(p)' PROVE RequestRight(p)'
      <3>1. CASE p = q
        <4>1. Source[q] \notin drop
          BY <1>1, <1>2, <1>3, Names DEF DropInv, None
        <4> QED
          BY <1>2, <1>3, <1>4, <3>1, <4>1 DEF RequestRight, Storing, Chosen
      <3>2. CASE p # q
        <4>1. RequestRight(p)
          BY <1>1, <1>4, <2>1, <3>2 DEF RequestInv, Running
        <4>2. request[p].pc \in Chosen => Target(p) \in Files
          BY <1>1 DEF Contented
        <4> QED
          BY <1>2, <1>4, <1>6, <3>2, <4>1, <4>2 DEF RequestRight, FoundIn, Target, Exists
      <3> QED
        BY <3>1, <3>2
    <2>2. \A p, r \in Requests :
            request'[p] # Idle /\ request'[r] # Idle /\ Source[p] = Source[r] => p = r
      BY <1>1, <1>2, <1>4 DEF RequestInv, Began
    <2> QED
      BY <2>1, <2>2 DEF RequestInv
  <1>9. DropInv'
    <2>1. \A s : Began(s) => Began(s)'
      BY <1>4, <1>5 DEF Began
    <2> QED
      BY <1>1, <1>2, <2>1 DEF DropInv, Keyless, Exists
  <1>10. ReferenceInv'
    BY <1>1, <1>2, <1>6 DEF ReferenceInv, UploadRight, AttachRight, BackfillRight, Exists,
                            Active, Contented
  <1> QED
    BY <1>1, <1>7, <1>8, <1>9, <1>10 DEF Safe

LEMMA ChoosesSafe ==
    ASSUME Calm, Safe, NEW q \in Requests, Chooses(q)
    PROVE  Safe'
  <1>1. /\ Typed /\ FileInv /\ RequestInv /\ DropInv /\ ReferenceInv /\ TypeOK /\ Contented
        /\ Typed' /\ q \in Files
    BY StoreTyped, Names DEF Safe, Typed
  <1>2. /\ UNCHANGED <<upload, file, object, attach, closing, removing, collect, drop,
                       backfill, leaked, faults>>
        /\ request[q].pc \in {"find", "refind"} /\ Running(q)
        /\ request'[q].pc \in {"drop", "raced", "insert", "suffix"}
        /\ request'[q].content = request[q].content
        /\ request'[q].pc \in Chosen => request'[q].target \in Identical(Source[q], {})
        /\ \A p \in Requests \ {q} : request'[p] = request[p]
    BY DEF Chooses, Goes, At, Running, Busy, Chosen
  <1>3. /\ request[q] # Idle /\ request[q] # Done /\ request'[q] # Idle /\ RequestRight(q)
        /\ ~Exists(q)
    BY <1>1, <1>2, Rows, KeysDiffer DEF RequestInv, Running, Idle
  <1>4. \A f \in Files : Past(f) => Past(f)' /\ f # q
    BY <1>2, <1>3, Names DEF Past, At, Files
  <1>5. FileInv'
    <2>1. ASSUME NEW f \in Files, Exists(f)' PROVE FileRight(f)'
      <3>1. FileRight(f) /\ f # q
        BY <1>1, <1>2, <1>3, <2>1 DEF FileInv, Exists
      <3> QED
        BY <1>2, <3>1 DEF FileRight, At, Target
    <2> QED
      BY <2>1 DEF FileInv
  <1>6. RequestInv'
    <2>1. ASSUME NEW p \in Requests, Running(p)' PROVE RequestRight(p)'
      <3>1. CASE p = q
        <4>1. ASSUME NEW f \in Identical(Source[q], {})
              PROVE  FoundIn(f, request[q].content) /\ f \in Files
          <5>1. /\ f \in Files /\ Exists(f) /\ file[f].hashed
                /\ object[file[f].key] = object[Source[q]]
            BY DEF Identical
          <5>2. object[Source[q]] = request[q].content
            BY <1>2, <1>3 DEF RequestRight, Storing
          <5>3. file[f].bytes = request[q].content /\ Past(f)
            BY <1>1, <5>1, <5>2 DEF FileInv, FileRight, Past, Files
          <5> QED
            BY <5>1, <5>3 DEF FoundIn
        <4>2. ASSUME request'[q].pc \in Chosen
              PROVE  FoundIn(Target(q), request[q].content)'
          <5>1. PICK f \in Identical(Source[q], {}) : f = request'[q].target
            BY <1>2, <4>2
          <5>2. f \in Files /\ Past(f)' /\ (Exists(f) => file[f].hashed /\ file[f].bytes = request[q].content)
            BY <1>4, <4>1 DEF FoundIn
          <5> QED
            BY <1>2, <5>1, <5>2 DEF FoundIn, Target, Exists, Past, At
        <4> QED
          BY <1>2, <1>3, <3>1, <4>2 DEF RequestRight, Storing, Target
      <3>2. CASE p # q
        <4>1. RequestRight(p)
          BY <1>1, <1>2, <2>1, <3>2 DEF RequestInv, Running
        <4>2. request[p].pc \in Chosen => Target(p) \in Files
          BY <1>1 DEF Contented
        <4> QED
          BY <1>2, <1>4, <3>2, <4>1, <4>2 DEF RequestRight, FoundIn, Target, Exists
      <3> QED
        BY <3>1, <3>2
    <2>2. \A p, r \in Requests :
            request'[p] # Idle /\ request'[r] # Idle /\ Source[p] = Source[r] => p = r
      BY <1>1, <1>2, <1>3 DEF RequestInv
    <2> QED
      BY <2>1, <2>2 DEF RequestInv
  <1>7. DropInv'
    <2>1. \A s : Began(s) => Began(s)'
      BY <1>2, <1>3 DEF Began
    <2> QED
      BY <1>1, <1>2, <2>1 DEF DropInv, Keyless, Exists
  <1>8. ReferenceInv'
    BY <1>1, <1>2, <1>4 DEF ReferenceInv, UploadRight, AttachRight, BackfillRight, Exists,
                            Active, Contented
  <1> QED
    BY <1>1, <1>5, <1>6, <1>7, <1>8 DEF Safe

LEMMA WritesSafe ==
    ASSUME Safe, NEW q \in Requests, Writes(q)
    PROVE  Safe'
  <1>1. /\ Typed /\ FileInv /\ RequestInv /\ DropInv /\ ReferenceInv /\ TypeOK /\ Contented
        /\ Typed' /\ q \in Files /\ Source[q] \in Sources
    BY StoreTyped, Names DEF Safe, Typed
  <1>2. /\ UNCHANGED <<upload, file, attach, closing, removing, collect, drop,
                       backfill, leaked, faults>>
        /\ request[q].pc \in {"put", "drop", "raced"} /\ Running(q)
        /\ request'[q].content = request[q].content /\ request'[q].target = request[q].target
        /\ request'[q].pc \in {"find", "link"} /\ request'[q] \in RequestRows
        /\ request'[q].pc = "link" => request[q].pc \in Chosen
        /\ \A p \in Requests \ {q} : request'[p] = request[p]
    BY DEF Writes, Goes, At, Running, Busy, Chosen, Target
  <1>3. /\ \A s \in Sources \ {Source[q]} : object'[s] = object[s]
        /\ request'[q].pc = "find" => object'[Source[q]] = request[q].content
    BY <1>1 DEF Writes, Goes, At, TypeOK
  <1>4. /\ request[q] # Idle /\ request[q] # Done /\ request'[q] # Idle /\ RequestRight(q)
        /\ ~Exists(q) /\ Keyless(Source[q])
    BY <1>1, <1>2, Rows, KeysDiffer DEF RequestInv, Running, RequestRows, Idle
  <1>5. \A f \in Files : Past(f) => Past(f)' /\ f # q
    BY <1>2, <1>4, Names DEF Past, At, Files
  <1>6. FileInv'
    <2>1. ASSUME NEW f \in Files, Exists(f)' PROVE FileRight(f)'
      <3>1. FileRight(f) /\ f # q /\ Exists(f) /\ file[f].key \in Sources \ {Source[q]}
        BY <1>1, <1>2, <1>4, <2>1, Rows DEF FileInv, Exists, FileRows, Keyless
      <3> QED
        BY <1>2, <1>3, <3>1 DEF FileRight, At, Target
    <2> QED
      BY <2>1 DEF FileInv
  <1>7. RequestInv'
    <2>1. ASSUME NEW p \in Requests, Running(p)' PROVE RequestRight(p)'
      <3>1. CASE p = q
        <4>1. request[q].pc \in Chosen => Target(q) \in Files /\ FoundIn(Target(q), request[q].content)
          BY <1>1, <1>4 DEF Contented, RequestRight
        <4>2. request'[q].pc \in Chosen => FoundIn(Target(q), request[q].content)'
          BY <1>2, <1>5, <4>1 DEF FoundIn, Target, Exists, Chosen
        <4> QED
          BY <1>2, <1>3, <1>4, <3>1, <4>2 DEF RequestRight, Storing
      <3>2. CASE p # q
        <4>1. RequestRight(p) /\ Source[p] # Source[q] /\ Source[p] \in Sources
          BY <1>1, <1>2, <1>4, <2>1, <3>2, Rows, Names DEF RequestInv, Running
        <4>2. request[p].pc \in Chosen => Target(p) \in Files
          BY <1>1 DEF Contented
        <4> QED
          BY <1>2, <1>3, <1>5, <3>2, <4>1, <4>2 DEF RequestRight, FoundIn, Target, Exists
      <3> QED
        BY <3>1, <3>2
    <2>2. \A p, r \in Requests :
            request'[p] # Idle /\ request'[r] # Idle /\ Source[p] = Source[r] => p = r
      BY <1>1, <1>2, <1>4 DEF RequestInv
    <2> QED
      BY <2>1, <2>2 DEF RequestInv
  <1>8. DropInv'
    <2>1. \A s : Began(s) => Began(s)'
      BY <1>2, <1>4 DEF Began
    <2> QED
      BY <1>1, <1>2, <2>1 DEF DropInv, Keyless, Exists
  <1>9. ReferenceInv'
    BY <1>1, <1>2, <1>5 DEF ReferenceInv, UploadRight, AttachRight, BackfillRight, Exists,
                            Active, Contented
  <1> QED
    BY <1>1, <1>6, <1>7, <1>8, <1>9 DEF Safe

LEMMA InsertsSafe ==
    ASSUME Safe, NEW q \in Requests, Inserts(q)
    PROVE  Safe'
  <1>1. /\ Typed /\ FileInv /\ RequestInv /\ DropInv /\ ReferenceInv /\ TypeOK /\ Contented
        /\ Typed' /\ q \in Files /\ Source[q] \in Sources /\ q \notin Legacy
    BY StoreTyped, Names DEF Safe, Typed
  <1>2. /\ UNCHANGED <<upload, object, attach, closing, removing, collect, drop,
                       backfill, leaked, faults>>
        /\ request[q].pc \in {"insert", "suffix"} /\ Running(q)
        /\ \A p \in Requests \ {q} : request'[p] = request[p]
    BY DEF Inserts, Goes, Leaves, At, Running, Busy
  <1>3. /\ request[q] # Idle /\ request[q] # Done /\ RequestRight(q) /\ ~Exists(q)
    BY <1>1, <1>2, Rows, KeysDiffer DEF RequestInv, Running
  <1>4. \/ /\ file' = file /\ request'[q] # Idle
           /\ \/ request'[q] = Done /\ request'[q].pc = "done"
              \/ request'[q].pc = "refind" /\ request'[q].content = request[q].content
        \/ /\ request'[q].pc = "link" /\ request'[q].target = q /\ request'[q] # Idle
           /\ request'[q].content = request[q].content
           /\ file'[q].key = Source[q] /\ file'[q].bytes = request[q].content
           /\ file'[q].hashed /\ file'[q] # NoFile
           /\ \A f \in Files \ {q} : file'[f] = file[f]
    <2>1. CASE file' = file /\ (Goes(q, "refind", Target(q)) \/ Leaves(q))
      BY <2>1, Names DEF Goes, Leaves, RequestRows, Idle, Done
    <2>2. ASSUME NEW base \in BOOLEAN, file' = [file EXCEPT ![q] = NewFile(q, base)],
                 Goes(q, "link", q)
          PROVE  /\ request'[q].pc = "link" /\ request'[q].target = q /\ request'[q] # Idle
                 /\ request'[q].content = request[q].content
                 /\ file'[q].key = Source[q] /\ file'[q].bytes = request[q].content
                 /\ file'[q].hashed /\ file'[q] # NoFile
                 /\ \A f \in Files \ {q} : file'[f] = file[f]
      <3>1. file'[q] = NewFile(q, base) /\ \A f \in Files \ {q} : file'[f] = file[f]
        BY <1>1, <2>2 DEF TypeOK
      <3>2. /\ request'[q].pc = "link" /\ request'[q].target = q /\ request'[q] # Idle
            /\ request'[q].content = request[q].content
        BY <2>2 DEF Goes, RequestRows, Idle
      <3>3. /\ NewFile(q, base) # NoFile /\ NewFile(q, base).key = Source[q]
            /\ NewFile(q, base).bytes = request[q].content /\ NewFile(q, base).hashed
        BY <1>1, <1>2, NewFileRow
      <3> QED
        BY <3>1, <3>2, <3>3
    <2> QED
      BY <2>1, <2>2 DEF Inserts
  <1>5. \A f \in Files : Past(f) => Past(f)' /\ f # q
    BY <1>1, <1>2, <1>3 DEF Past, At, Files
  <1>6. /\ \A f \in Files : Exists(f) => Exists(f)' /\ file'[f] = file[f] /\ f # q
        /\ \A f \in Files : f # q => file'[f] = file[f]
    BY <1>3, <1>4 DEF Exists
  <1>7. FileInv'
    <2>1. ASSUME NEW f \in Files, Exists(f)', f # q PROVE FileRight(f)'
      <3>1. FileRight(f) /\ Exists(f) /\ file'[f] = file[f]
        BY <1>1, <1>6, <2>1 DEF FileInv, Exists
      <3> QED
        BY <1>2, <2>1, <3>1 DEF FileRight, At, Target
    <2>2. ASSUME Exists(q)' PROVE FileRight(q)'
      <3>1. request'[q].pc = "link" /\ request'[q].target = q
            /\ file'[q].key = Source[q] /\ file'[q].bytes = request[q].content /\ file'[q].hashed
        BY <1>3, <1>4, <2>2 DEF Exists
      <3>2. object'[Source[q]] = request[q].content
        BY <1>2, <1>3 DEF RequestRight, Storing
      <3>3. request'[q] # Done
        BY <3>1 DEF Done
      <3> QED
        BY <1>1, <3>1, <3>2, <3>3 DEF FileRight, At, Target
    <2> QED
      BY <2>1, <2>2 DEF FileInv
  <1>8. RequestInv'
    <2>1. ASSUME NEW p \in Requests, Running(p)' PROVE RequestRight(p)'
      <3>1. CASE p = q
        <4>1. CASE request'[q].pc = "refind"
          BY <1>2, <1>3, <1>4, <3>1, <4>1 DEF RequestRight, Storing, Chosen
        <4>2. CASE request'[q].pc = "link"
          <5>1. FoundIn(q, request[q].content)' /\ request'[q].target = q
                /\ request'[q].content = request[q].content
            BY <1>1, <1>4, <4>2 DEF FoundIn, Past, At, Exists
          <5> QED
            BY <1>2, <1>3, <3>1, <4>2, <5>1 DEF RequestRight, Storing, Target, FoundIn
        <4> QED
          BY <1>4, <2>1, <3>1, <4>1, <4>2 DEF Running, Busy, Done
      <3>2. CASE p # q
        <4>1. RequestRight(p)
          BY <1>1, <1>2, <2>1, <3>2 DEF RequestInv, Running
        <4>2. request[p].pc \in Chosen => Target(p) \in Files
          BY <1>1 DEF Contented
        <4> QED
          BY <1>2, <1>5, <1>6, <3>2, <4>1, <4>2 DEF RequestRight, FoundIn, Target, Exists
      <3> QED
        BY <3>1, <3>2
    <2>2. \A p, r \in Requests :
            request'[p] # Idle /\ request'[r] # Idle /\ Source[p] = Source[r] => p = r
      BY <1>1, <1>2, <1>3 DEF RequestInv
    <2> QED
      BY <2>1, <2>2 DEF RequestInv
  <1>9. DropInv'
    <2>1. \A s : Began(s) => Began(s)'
      BY <1>2, <1>4 DEF Began
    <2>2. \A s : Keyless(s) /\ s # Source[q] => Keyless(s)'
      BY <1>3, <1>4, <1>6 DEF Keyless, Exists
    <2>3. Source[q] \notin drop /\ \A x \in closing : x.upload # Source[q]
      BY <1>1, <1>2, <1>3, Rows DEF RequestRight
    <2> QED
      BY <1>1, <1>2, <2>1, <2>2, <2>3 DEF DropInv
  <1>10. ReferenceInv'
    <2>1. ASSUME NEW u \in Uploads PROVE UploadRight(u)'
      <3>1. UploadRight(u) /\ upload[u].file \in Files \cup {None}
        BY <1>1, Rows DEF ReferenceInv, UploadTyped
      <3> QED
        BY <1>2, <1>3, <1>4, <1>6, <3>1 DEF UploadRight, Active, Exists
    <2>2. ASSUME NEW s \in Sources PROVE AttachRight(s)'
      <3>1. AttachRight(s) /\ (attach[s] # NoAttach => attach[s].file \in Files)
        BY <1>1, Rows DEF ReferenceInv, AttachRows
      <3> QED
        BY <1>2, <1>6, <3>1 DEF AttachRight
    <2>3. ASSUME NEW l \in Legacy, backfill'[l] # NotRunning PROVE BackfillRight(l)'
      <3>1. /\ BackfillRight(l) /\ l \in Files /\ l # q
            /\ backfill[l].pc = "merge" => backfill[l].target \in Files
        BY <1>1, <1>2, <2>3, Names DEF ReferenceInv, Contented
      <3> QED
        BY <1>2, <1>5, <1>6, <3>1 DEF BackfillRight, Exists
    <2> QED
      BY <2>1, <2>2, <2>3 DEF ReferenceInv
  <1> QED
    BY <1>1, <1>7, <1>8, <1>9, <1>10 DEF Safe

\* A request that ends: its upload or mail has its file, or nothing changes.
Given(q) ==
    /\ UNCHANGED <<file, object, closing, removing, drop, backfill>>
    /\ \/ upload' = upload
       \/ /\ Source[q] \in Uploads /\ At(q, "link") /\ Exists(Target(q))
          /\ \A u \in Uploads : /\ upload'[u].status = upload[u].status
                                /\ upload'[u].content = upload[u].content
                                /\ u # Source[q] => upload'[u] = upload[u]
          /\ upload'[Source[q]].file = Target(q)
    /\ \/ attach' = attach
       \/ /\ At(q, "link") /\ Exists(Target(q))
          /\ \A s \in Sources : s # Source[q] => attach'[s] = attach[s]
          /\ attach'[Source[q]].file = Target(q)
          /\ attach'[Source[q]].content = request[q].content
    /\ At(q, "link") /\ Target(q) = q /\ Source[q] \in Uploads /\ Exists(q) =>
         upload'[Source[q]].file = q

LEMMA EndGives ==
    ASSUME Calm, Safe, NEW q \in Requests, LinkUpload(q) \/ LinkInbound(q) \/ Crash(q)
    PROVE  Given(q) /\ Running(q)
  <1>1. TypeOK /\ RequestInv /\ Source[q] \in Sources
    BY Names DEF Safe, Typed
  <1>2. Running(q)
    BY DEF LinkUpload, LinkInbound, Crash, At, Running, Busy
  <1>3. RequestRight(q)
    BY <1>1, <1>2 DEF RequestInv
  <1>4. CASE LinkUpload(q)
    <2>1. Source[q] \in Uploads /\ At(q, "link")
          /\ UNCHANGED <<file, object, attach, closing, removing, drop, backfill>>
      BY <1>4 DEF LinkUpload
    <2>2. upload[Source[q]].status = "pending" /\ upload[Source[q]].file = None
      BY <1>3, <2>1 DEF RequestRight
    <2>3. CASE Exists(Target(q))
      <3>1. upload' = [upload EXCEPT ![Source[q]].file = Target(q)]
        BY <1>4, <2>2, <2>3 DEF LinkUpload
      <3>2. upload[Source[q]] = [status |-> upload[Source[q]].status,
                                 file |-> upload[Source[q]].file,
                                 due |-> upload[Source[q]].due,
                                 content |-> upload[Source[q]].content]
        BY <1>1, <2>1 DEF TypeOK, UploadRows
      <3>3. /\ upload'[Source[q]].status = upload[Source[q]].status
            /\ upload'[Source[q]].content = upload[Source[q]].content
            /\ upload'[Source[q]].file = Target(q)
        BY <1>1, <2>1, <3>1, <3>2 DEF TypeOK
      <3>4. \A u \in Uploads : u # Source[q] => upload'[u] = upload[u]
        BY <1>1, <3>1 DEF TypeOK
      <3> QED
        BY <1>2, <2>1, <2>3, <3>3, <3>4 DEF Given
    <2>4. CASE ~Exists(Target(q))
      <3>1. upload' = upload
        BY <1>4, <2>4 DEF LinkUpload
      <3> QED
        BY <1>2, <2>1, <2>4, <3>1 DEF Given
    <2> QED
      BY <2>3, <2>4
  <1>5. CASE LinkInbound(q)
    <2>1. /\ At(q, "link") /\ Source[q] \notin Uploads
          /\ UNCHANGED <<upload, file, object, closing, removing, drop, backfill>>
      BY <1>5, DisjointAssumption DEF LinkInbound
    <2>2. CASE Exists(Target(q))
      <3>1. attach' = [attach EXCEPT ![Source[q]] =
                         [file |-> Target(q), content |-> request[q].content]]
        BY <1>5, <2>2 DEF LinkInbound
      <3>2. /\ \A s \in Sources : s # Source[q] => attach'[s] = attach[s]
            /\ attach'[Source[q]].file = Target(q)
            /\ attach'[Source[q]].content = request[q].content
        BY <1>1, <3>1 DEF TypeOK
      <3> QED
        BY <1>2, <2>1, <2>2, <3>2 DEF Given
    <2>3. CASE ~Exists(Target(q))
      <3>1. attach' = attach
        BY <1>5, <2>3 DEF LinkInbound
      <3> QED
        BY <1>2, <2>1, <3>1 DEF Given
    <2> QED
      BY <2>2, <2>3
  <1>6. CASE Crash(q)
    BY <1>2, <1>6 DEF Crash, Calm, Given
  <1> QED
    BY <1>4, <1>5, <1>6

LEMMA EndSafe ==
    ASSUME Calm, Safe, NEW q \in Requests, LinkUpload(q) \/ LinkInbound(q) \/ Crash(q)
    PROVE  Safe'
  <1>1. /\ Typed /\ FileInv /\ RequestInv /\ DropInv /\ ReferenceInv /\ TypeOK /\ Contented
        /\ Typed' /\ q \in Files /\ Source[q] \in Sources /\ q \notin Legacy
    BY EndTyped, Names DEF Safe, Typed
  <1>2. /\ request'[q] = Done /\ request'[q].pc = "done" /\ Running(q) /\ Given(q)
        /\ UNCHANGED <<file, object, closing, removing, drop, backfill>>
        /\ \A p \in Requests \ {q} : request'[p] = request[p]
    BY <1>1, EndTyped, EndGives DEF Leaves, Given
  <1>3. request[q] # Idle /\ request[q] # Done /\ request'[q] # Idle /\ RequestRight(q)
    <2>1. request[q] # Idle /\ request[q] # Done
      BY <1>1, <1>2, Rows DEF Running
    <2>2. request'[q] # Idle
      BY <1>2, Names
    <2>3. RequestInv /\ Running(q)
      BY <1>1, <1>2
    <2>4. RequestRight(q)
      BY <2>3 DEF RequestInv
    <2> QED
      BY <2>1, <2>2, <2>4
  <1>4. \A f \in Files : Past(f) => Past(f)'
    BY <1>2 DEF Past, At, Files
  <1>5. /\ \A u \in Uploads : /\ upload'[u].status = upload[u].status
                              /\ upload'[u].content = upload[u].content
                              /\ u # Source[q] => upload'[u] = upload[u]
        /\ \A s \in Sources : s # Source[q] => attach'[s] = attach[s]
    BY <1>2 DEF Given
  <1>6. \A p \in Requests : request[p] # Idle /\ p # q => Source[p] # Source[q]
    BY <1>1, <1>3 DEF RequestInv
  <1>7. FileInv'
    <2>1. ASSUME NEW f \in Files, Exists(f)', f # q PROVE FileRight(f)'
      <3>1. FileRight(f) /\ (f \in Requests /\ request[f] = Done => Source[f] # Source[q])
        BY <1>1, <1>2, <1>6, <2>1, Names DEF FileInv, Exists
      <3> QED
        BY <1>2, <1>5, <2>1, <3>1 DEF FileRight, At, Target
    <2>2. ASSUME Exists(q)' PROVE FileRight(q)'
      <3>1. FileRight(q) /\ Exists(q)
        BY <1>1, <1>2, <2>2 DEF FileInv, Exists
      <3>2. At(q, "link") /\ Target(q) = q
        BY <1>3, <3>1 DEF FileRight
      <3>3. Source[q] \in Uploads => upload'[Source[q]].file = q
        BY <1>2, <3>1, <3>2 DEF Given
      <3> QED
        BY <1>1, <1>2, <3>1, <3>3 DEF FileRight
    <2> QED
      BY <2>1, <2>2 DEF FileInv
  <1>8. RequestInv'
    <2>1. ASSUME NEW p \in Requests, Running(p)' PROVE RequestRight(p)'
      <3>1. p # q
        BY <1>2, <2>1 DEF Running, Busy
      <3>2. RequestRight(p) /\ Source[p] # Source[q]
        BY <1>1, <1>2, <1>6, <2>1, <3>1, Rows DEF RequestInv, Running
      <3>3. request[p].pc \in Chosen => Target(p) \in Files
        BY <1>1 DEF Contented
      <3> QED
        BY <1>2, <1>4, <1>5, <3>1, <3>2, <3>3 DEF RequestRight, FoundIn, Target, Exists
    <2>2. \A p, r \in Requests :
            request'[p] # Idle /\ request'[r] # Idle /\ Source[p] = Source[r] => p = r
      BY <1>1, <1>2, <1>3 DEF RequestInv
    <2> QED
      BY <2>1, <2>2 DEF RequestInv
  <1>9. DropInv'
    <2>1. \A s : Began(s) => Began(s)'
      BY <1>2, <1>3 DEF Began
    <2> QED
      BY <1>1, <1>2, <1>5, <2>1 DEF DropInv, Keyless, Exists
  <1>10. At(q, "link") => FoundIn(Target(q), request[q].content)
    BY <1>3 DEF RequestRight, At, Chosen
  <1>11. ReferenceInv'
    <2>1. ASSUME NEW u \in Uploads PROVE UploadRight(u)'
      <3>1. CASE upload'[u] = upload[u]
        BY <1>1, <1>2, <3>1 DEF ReferenceInv, UploadRight, Active, Exists
      <3>2. CASE upload'[u] # upload[u]
        <4>1. /\ u = Source[q] /\ At(q, "link") /\ Exists(Target(q))
              /\ upload'[u].file = Target(q) /\ Source[q] \in Uploads
          BY <1>2, <3>2 DEF Given
        <4>2. upload'[u].content = request[q].content
          BY <1>3, <1>5, <4>1 DEF RequestRight
        <4>3. file[Target(q)].hashed /\ file[Target(q)].bytes = request[q].content
          BY <1>10, <4>1 DEF FoundIn
        <4> QED
          BY <1>2, <4>1, <4>2, <4>3 DEF UploadRight, Exists
      <3> QED
        BY <3>1, <3>2
    <2>2. ASSUME NEW s \in Sources PROVE AttachRight(s)'
      <3>1. CASE attach'[s] = attach[s]
        BY <1>1, <1>2, <3>1 DEF ReferenceInv, AttachRight, Exists
      <3>2. CASE attach'[s] # attach[s]
        <4>1. /\ s = Source[q] /\ At(q, "link") /\ Exists(Target(q))
              /\ attach'[s].file = Target(q) /\ attach'[s].content = request[q].content
          BY <1>2, <3>2 DEF Given
        <4>2. file[Target(q)].bytes = request[q].content
          BY <1>10, <4>1 DEF FoundIn
        <4> QED
          BY <1>2, <4>1, <4>2 DEF AttachRight, Exists
      <3> QED
        BY <3>1, <3>2
    <2>3. ASSUME NEW l \in Legacy, backfill'[l] # NotRunning PROVE BackfillRight(l)'
      <3>1. /\ BackfillRight(l)
            /\ backfill[l].pc = "merge" => backfill[l].target \in Files
        BY <1>1, <1>2, <2>3 DEF ReferenceInv, Contented
      <3> QED
        BY <1>2, <1>4, <3>1 DEF BackfillRight, Exists
    <2> QED
      BY <2>1, <2>2, <2>3 DEF ReferenceInv
  <1> QED
    BY <1>1, <1>7, <1>8, <1>9, <1>11 DEF Safe

\* An upload that no request is storing changes, or is about to be closed.
Aside(u) ==
    /\ UNCHANGED <<file, object, request, removing, backfill>>
    /\ ~InFlight(u)
    /\ \A v \in Uploads \ {u} : upload'[v] = upload[v]
    /\ upload'[u].file = upload[u].file
    /\ upload[u].file # None => /\ upload'[u].content = upload[u].content
                                /\ Active(u)' => Active(u)
    /\ upload'[u].status \in {None, "pending"} => upload[u].status \in {None, "pending"}
    /\ \A s \in Sources \ {u} : attach'[s] = attach[s]
    /\ \/ attach'[u] = attach[u]
       \/ /\ Active(u) /\ upload[u].file # None
          /\ attach'[u].file = upload[u].file /\ attach'[u].content = upload[u].content
    /\ \A x \in closing' : x \in closing \/ (x.upload = u /\ (x.file = None => Keyless(u)))
    /\ \A s \in drop' : \/ s \in drop
                        \/ s = u /\ Keyless(u) /\ upload'[u].status \notin {None, "pending"}

LEMMA AsideSafe ==
    ASSUME Safe, Typed', NEW u \in Uploads, Aside(u)
    PROVE  Safe'
  <1>1. /\ Typed /\ FileInv /\ RequestInv /\ DropInv /\ ReferenceInv /\ TypeOK /\ Contented
        /\ Typed' /\ u \in Sources /\ u \notin Legacy
    BY Names DEF Safe, Typed
  <1>2. /\ UNCHANGED <<file, object, request, removing, backfill>> /\ ~InFlight(u)
        /\ \A v \in Uploads \ {u} : upload'[v] = upload[v]
        /\ \A v \in Uploads : upload'[v].file = upload[v].file
    BY DEF Aside
  <1>3. \A f \in Files : Past(f) => Past(f)'
    BY <1>2 DEF Past, At
  <1>4. FileInv'
    <2>1. ASSUME NEW f \in Files, Exists(f)' PROVE FileRight(f)'
      <3>1. FileRight(f)
        BY <1>1, <1>2, <2>1 DEF FileInv, Exists
      <3> QED
        BY <1>2, <3>1 DEF FileRight, At, Target
    <2> QED
      BY <2>1 DEF FileInv
  <1>5. RequestInv'
    <2>1. ASSUME NEW p \in Requests, Running(p)' PROVE RequestRight(p)'
      <3>1. RequestRight(p) /\ Source[p] # u
        BY <1>1, <1>2, <2>1 DEF RequestInv, Running, InFlight
      <3>2. request[p].pc \in Chosen => Target(p) \in Files
        BY <1>1 DEF Contented
      <3>3. /\ Source[p] \in drop' => Source[p] \in drop
            /\ (\A x \in closing : x.upload # Source[p]) => \A x \in closing' : x.upload # Source[p]
        BY <3>1 DEF Aside
      <3> QED
        BY <1>2, <1>3, <3>1, <3>2, <3>3 DEF RequestRight, FoundIn, Target, Exists
    <2>2. \A p, r \in Requests :
            request'[p] # Idle /\ request'[r] # Idle /\ Source[p] = Source[r] => p = r
      BY <1>1, <1>2 DEF RequestInv
    <2> QED
      BY <2>1, <2>2 DEF RequestInv
  <1>6. DropInv'
    <2>1. /\ \A s : Began(s) => Began(s)'
          /\ \A s : Keyless(s) => Keyless(s)'
      BY <1>2 DEF Began, Keyless, Exists
    <2>2. ASSUME NEW s \in drop'
          PROVE  /\ Keyless(s)'
                 /\ \/ s \in Legacy \/ Began(s)'
                    \/ s \in Uploads /\ upload'[s].status \notin {None, "pending"}
      <3>1. CASE s \in drop
        BY <1>1, <1>2, <2>1, <3>1 DEF DropInv, Aside
      <3>2. CASE s = u /\ Keyless(u) /\ upload'[u].status \notin {None, "pending"}
        BY <2>1, <3>2
      <3> QED
        BY <3>1, <3>2 DEF Aside
    <2>3. ASSUME NEW x \in closing', x.file = None PROVE Keyless(x.upload)'
      <3>1. Keyless(x.upload)
        BY <1>1, <2>3 DEF DropInv, Aside
      <3> QED
        BY <2>1, <3>1
    <2> QED
      BY <2>2, <2>3 DEF DropInv
  <1>7. ReferenceInv'
    <2>1. ASSUME NEW v \in Uploads PROVE UploadRight(v)'
      <3>1. UploadRight(v)
        BY <1>1 DEF ReferenceInv
      <3>2. upload'[v].file # None => /\ upload'[v].content = upload[v].content
                                      /\ Active(v)' => Active(v)
        BY <1>2 DEF Aside, Active
      <3> QED
        BY <1>2, <3>1, <3>2 DEF UploadRight, Exists
    <2>2. ASSUME NEW s \in Sources PROVE AttachRight(s)'
      <3>1. CASE attach'[s] = attach[s]
        BY <1>1, <1>2, <3>1 DEF ReferenceInv, AttachRight, Exists
      <3>2. CASE attach'[s] # attach[s]
        <4>1. /\ Active(u) /\ upload[u].file # None /\ UploadRight(u) /\ s = u
              /\ attach'[u].file = upload[u].file /\ attach'[u].content = upload[u].content
          BY <1>1, <3>2 DEF ReferenceInv, Aside
        <4> QED
          BY <1>2, <4>1 DEF UploadRight, AttachRight, Exists
      <3> QED
        BY <3>1, <3>2
    <2>3. ASSUME NEW l \in Legacy, backfill'[l] # NotRunning PROVE BackfillRight(l)'
      <3>1. /\ BackfillRight(l)
            /\ backfill[l].pc = "merge" => backfill[l].target \in Files
        BY <1>1, <1>2, <2>3 DEF ReferenceInv, Contented
      <3> QED
        BY <1>2, <1>3, <3>1 DEF BackfillRight, Exists
    <2> QED
      BY <2>1, <2>2, <2>3 DEF ReferenceInv
  <1> QED
    BY <1>1, <1>4, <1>5, <1>6, <1>7 DEF Safe

LEMMA UploadAside ==
    ASSUME Calm, Safe, NEW u \in Uploads, NEW c \in Contents,
           CreateUpload(u, c) \/ Complete(u) \/ Consume(u) \/ ExpireRead(u) \/ CancelRead(u)
    PROVE  Aside(u)
  <1>1. /\ Typed /\ RequestInv /\ ReferenceInv /\ TypeOK /\ u \in Sources
        /\ upload[u].status = None => upload[u].file = None
        /\ upload[u].status = "uploaded" => upload[u].file # None
    BY Names, Rows DEF Safe, Typed, Contented, UploadTyped
  <1>2. InFlight(u) => upload[u].status = "pending" /\ upload[u].file = None
    BY <1>1 DEF InFlight, RequestInv, RequestRight
  <1>3. ~InFlight(u)
    BY <1>1, <1>2 DEF CreateUpload, Complete, Consume, ExpireRead, CancelRead, Calm, None
  <1>4. upload[u].file = None => Keyless(u)
    BY <1>3, KeysDiffer
  <1>5. ASSUME NEW row, Rewritten(u, row)
        PROVE  upload'[u] = row /\ \A v \in Uploads \ {u} : upload'[v] = upload[v]
    BY <1>1, <1>5, RewrittenTyped
  <1>6. CASE CreateUpload(u, c)
    <2>1. PICK row : /\ Rewritten(u, row) /\ row.status = "pending" /\ row.file = None
      BY <1>1, <1>6, UploadSteps
    <2> QED
      BY <1>1, <1>3, <1>5, <1>6, <2>1 DEF CreateUpload, Aside
  <1>7. CASE Complete(u)
    <2>1. PICK row : /\ Rewritten(u, row) /\ row.status = "uploaded"
                     /\ row.file = upload[u].file /\ row.content = upload[u].content
      BY <1>1, <1>7, UploadSteps
    <2> QED
      BY <1>1, <1>3, <1>5, <1>7, <2>1 DEF Complete, Aside, Active, None
  <1>8. CASE Consume(u)
    <2>1. PICK row : /\ Rewritten(u, row) /\ row.status = "consumed"
                     /\ row.file = upload[u].file /\ row.content = upload[u].content
      BY <1>1, <1>8, UploadSteps
    <2>2. /\ \A s \in Sources \ {u} : attach'[s] = attach[s]
          /\ attach'[u].file = upload[u].file /\ attach'[u].content = upload[u].content
          /\ Active(u) /\ upload[u].file # None
      BY <1>1, <1>8 DEF Consume, TypeOK, Active
    <2> QED
      BY <1>1, <1>3, <1>5, <1>8, <2>1, <2>2 DEF Consume, Aside, Active, None
  <1>9. CASE ExpireRead(u)
    <2>1. PICK row : /\ Rewritten(u, row) /\ row.status = upload[u].status
                     /\ row.file = upload[u].file /\ row.content = upload[u].content
      BY <1>1, <1>9, UploadSteps
    <2> QED
      BY <1>3, <1>4, <1>5, <1>9, <2>1 DEF ExpireRead, Aside, Active
  <1>10. CASE CancelRead(u)
    BY <1>3, <1>4, <1>10 DEF CancelRead, Aside, Active
  <1> QED
    BY <1>6, <1>7, <1>8, <1>9, <1>10

LEMMA CloseAside ==
    ASSUME Calm, Safe, NEW x \in closing, Close(x)
    PROVE  x.upload \in Uploads /\ Aside(x.upload)
  <1>1. /\ Typed /\ RequestInv /\ DropInv /\ TypeOK /\ x.upload \in Uploads
        /\ x.upload \in Sources
    BY Names, Rows DEF Safe, Typed
  <1>2. ~InFlight(x.upload)
    BY <1>1 DEF InFlight, RequestInv, RequestRight
  <1>3. /\ UNCHANGED <<file, object, attach, request, removing, backfill>>
        /\ \A y \in closing' : y \in closing
        /\ x.file = None => Keyless(x.upload)
    BY <1>1 DEF Close, DropInv
  <1>4. CASE upload' = upload /\ drop' = drop
    <2> DEFINE u == x.upload
    <2>1. /\ \A v \in Uploads : upload'[v] = upload[v]
          /\ Active(u)' => Active(u)
          /\ \A s \in Sources : attach'[s] = attach[s]
      BY <1>3, <1>4 DEF Active
    <2>2. \A s \in drop' : s \in drop
      BY <1>4
    <2> QED
      BY <1>1, <1>2, <1>3, <2>1, <2>2 DEF Aside
  <1>5. ASSUME NEW row, Rewritten(x.upload, row), row.status \in {"deleted", "expired"},
               row.file = upload[x.upload].file, row.content = upload[x.upload].content,
               drop' = drop \/ (x.file = None /\ drop' = drop \cup {x.upload})
        PROVE  Aside(x.upload)
    <2>1. upload'[x.upload] = row /\ \A v \in Uploads \ {x.upload} : upload'[v] = upload[v]
      BY <1>1, <1>5, RewrittenTyped
    <2> QED
      BY <1>2, <1>3, <1>5, <2>1 DEF Aside, Active, None
  <1> QED
    BY <1>1, <1>4, <1>5, CloseStep

\* Files go, or are stamped; objects that are to be deleted may be gone.
Kept ==
    /\ UNCHANGED <<request, closing>>
    /\ \A f \in Files : Exists(f)' =>
         /\ Exists(f)
         /\ file'[f].key = file[f].key /\ file'[f].bytes = file[f].bytes
         /\ file[f].hashed => file'[f].hashed
    /\ \A s \in Sources : object'[s] = object[s] \/ s \in drop
    /\ \A u \in Uploads :
         /\ upload'[u].status = upload[u].status /\ upload'[u].content = upload[u].content
         /\ \/ upload'[u].file = upload[u].file
            \/ upload'[u].file = None /\ ~Active(u) /\ file'[upload[u].file] = NoFile
         /\ Active(u) /\ upload[u].file # None => file'[upload[u].file] # NoFile
    /\ \A s \in drop' :
         \/ s \in drop
         \/ /\ Keyless(s)' /\ (s \in Legacy \/ Began(s))
            /\ \A q \in Requests : Running(q) /\ request[q].pc # "link" => Source[q] # s

LEMMA KeptSafe ==
    ASSUME Safe, Typed', Kept,
           \A s \in Sources : AttachRight(s)',
           \A l \in Legacy : backfill'[l] # NotRunning => BackfillRight(l)'
    PROVE  Safe'
  <1>1. /\ Typed /\ FileInv /\ RequestInv /\ DropInv /\ ReferenceInv /\ TypeOK /\ Contented
        /\ Typed'
    BY Names DEF Safe, Typed
  <1>2. /\ UNCHANGED <<request, closing>>
        /\ \A f \in Files : Past(f) => Past(f)'
        /\ \A s : Keyless(s) => Keyless(s)'
    BY DEF Kept, Past, At, Keyless
  <1>3. FileInv'
    <2>1. ASSUME NEW f \in Files, Exists(f)' PROVE FileRight(f)'
      <3>1. /\ FileRight(f) /\ Exists(f) /\ file[f].key \in Sources
            /\ file'[f].key = file[f].key /\ file'[f].bytes = file[f].bytes
            /\ file[f].hashed => file'[f].hashed
        BY <1>1, <2>1, Rows DEF FileInv, Kept, FileRows
      <3>2. object'[file[f].key] = object[file[f].key]
        BY <1>1, <3>1 DEF Kept, DropInv, Keyless
      <3>3. f \in Requests /\ request[f] = Done /\ Source[f] \in Uploads =>
              upload'[Source[f]].file = f
        BY <2>1, <3>1 DEF Kept, FileRight, Exists
      <3> QED
        BY <1>2, <3>1, <3>2, <3>3 DEF FileRight, At, Target
    <2> QED
      BY <2>1 DEF FileInv
  <1>4. RequestInv'
    <2>1. ASSUME NEW p \in Requests, Running(p)' PROVE RequestRight(p)'
      <3>1. RequestRight(p) /\ Running(p) /\ Source[p] \in Sources
        BY <1>1, <1>2, <2>1, Names DEF RequestInv, Running
      <3>2. request[p].pc \in Chosen => FoundIn(Target(p), request[p].content)'
        <4>1. request[p].pc \in Chosen => Target(p) \in Files
          BY <1>1 DEF Contented
        <4> QED
          BY <1>2, <3>1, <4>1 DEF RequestRight, FoundIn, Target, Kept
      <3>3. request[p].pc # "link" => Source[p] \notin drop' /\ object'[Source[p]] = object[Source[p]]
        BY <3>1 DEF Kept, RequestRight
      <3>4. Source[p] \in Uploads =>
              /\ upload'[Source[p]].status = "pending" /\ upload'[Source[p]].file = None
              /\ upload'[Source[p]].content = request[p].content
        BY <3>1 DEF Kept, RequestRight
      <3> QED
        BY <1>2, <3>1, <3>2, <3>3, <3>4 DEF RequestRight, Storing, Chosen
    <2> QED
      BY <1>1, <1>2, <2>1 DEF RequestInv
  <1>5. DropInv'
    <2>1. \A s : Began(s) => Began(s)'
      BY <1>2 DEF Began
    <2>2. ASSUME NEW s \in drop'
          PROVE  /\ Keyless(s)'
                 /\ \/ s \in Legacy \/ Began(s)'
                    \/ s \in Uploads /\ upload'[s].status \notin {None, "pending"}
      <3>1. CASE s \in drop
        BY <1>1, <1>2, <2>1, <3>1 DEF DropInv, Kept
      <3>2. CASE s \notin drop
        BY <2>1, <3>2 DEF Kept
      <3> QED
        BY <3>1, <3>2
    <2> QED
      BY <1>1, <1>2, <2>2 DEF DropInv
  <1>6. ReferenceInv'
    <2>1. ASSUME NEW u \in Uploads PROVE UploadRight(u)'
      <3>1. UploadRight(u) /\ upload[u].file \in Files \cup {None}
            /\ upload'[u].status = upload[u].status /\ upload'[u].content = upload[u].content
        BY <1>1, Rows DEF ReferenceInv, UploadTyped, Kept
      <3>2. CASE upload'[u].file = None
        BY <3>2 DEF UploadRight
      <3>3. CASE upload'[u].file # None
        <4>1. upload'[u].file = upload[u].file
          BY <3>3 DEF Kept
        <4>2. PICK f \in Files : f = upload[u].file
          BY <3>1, <3>3, <4>1
        <4>3. /\ Active(u) => Exists(f)'
              /\ Exists(f)' => Exists(f) /\ file'[f].bytes = file[f].bytes
                               /\ (file[f].hashed => file'[f].hashed)
          BY <3>3, <4>1, <4>2 DEF Kept, Exists
        <4>4. Active(u)' <=> Active(u)
          BY <3>1 DEF Active
        <4> QED
          BY <3>1, <3>3, <4>1, <4>2, <4>3, <4>4 DEF UploadRight, Exists
      <3> QED
        BY <3>2, <3>3
    <2> QED
      BY <2>1 DEF ReferenceInv
  <1> QED
    BY <1>1, <1>3, <1>4, <1>5, <1>6 DEF Safe

LEMMA RemovalSafe ==
    ASSUME Safe, NEW s \in Sources,
           RemoveRead(s) \/ Remove(s) \/ DropObject(s) \/ DropLost(s)
    PROVE  Safe'
  <1>1. /\ Typed /\ TypeOK /\ ReferenceInv /\ Typed'
    BY RemovalTyped DEF Safe, Typed
  <1>2. /\ UNCHANGED <<upload, file, request, closing, backfill>> /\ drop' \subseteq drop
        /\ \A t \in Sources : object'[t] = object[t] \/ t \in drop
        /\ \A t \in Sources : attach'[t] = attach[t] \/ attach'[t] = NoAttach
    BY <1>1 DEF RemoveRead, Remove, DropObject, DropLost, TypeOK
  <1>3. Kept
    <2>1. \A u \in Uploads : Active(u) /\ upload[u].file # None => Exists(upload[u].file)
      BY <1>1 DEF ReferenceInv, UploadRight
    <2> QED
      BY <1>2, <2>1 DEF Kept, Exists
  <1>4. \A t \in Sources : AttachRight(t)'
    BY <1>1, <1>2 DEF ReferenceInv, AttachRight, Exists
  <1>5. \A l \in Legacy : backfill'[l] # NotRunning => BackfillRight(l)'
    BY <1>1, <1>2 DEF ReferenceInv, BackfillRight, Exists, Past, At
  <1> QED
    BY <1>1, <1>3, <1>4, <1>5, KeptSafe

LEMMA QuietSafe ==
    ASSUME Safe, Typed', UNCHANGED <<upload, file, object, attach, request, closing, drop, backfill>>
    PROVE  Safe'
  <1>1. ReferenceInv
    BY DEF Safe
  <1>2. Kept
    <2>1. \A u \in Uploads : Active(u) /\ upload[u].file # None => Exists(upload[u].file)
      BY <1>1 DEF ReferenceInv, UploadRight
    <2> QED
      BY <2>1 DEF Kept, Exists
  <1>3. \A t \in Sources : AttachRight(t)'
    BY <1>1 DEF ReferenceInv, AttachRight, Exists
  <1>4. \A l \in Legacy : backfill'[l] # NotRunning => BackfillRight(l)'
    BY <1>1 DEF ReferenceInv, BackfillRight, Exists, Past, At
  <1> QED
    BY <1>2, <1>3, <1>4, KeptSafe

LEMMA CollectSafe ==
    ASSUME Safe, NEW f \in Files, Collect(f)
    PROVE  Safe'
  <1>1. /\ Typed /\ TypeOK /\ FileInv /\ ReferenceInv /\ Typed' /\ Contented
    BY CollectTyped DEF Safe, Typed
  <1>2. UNCHANGED <<object, attach, request, closing, removing, backfill>>
    BY <1>1, CollectStep
  <1>3. CASE UNCHANGED <<file, drop, upload>>
    BY <1>1, <1>2, <1>3, QuietSafe
  <1>4. ASSUME Exists(f), ~Referenced(f),
               file' = [file EXCEPT ![f] = NoFile], drop' = drop \cup {file[f].key},
               upload' \in [Uploads -> UploadRows],
               \A u \in Uploads :
                      /\ upload'[u].status = upload[u].status
                      /\ upload'[u].content = upload[u].content
                      /\ IF upload[u].file = f THEN upload'[u].file = None /\ ~Active(u)
                                               ELSE upload'[u].file = upload[u].file
        PROVE  Safe'
    <2>1. /\ \A g \in Files : Exists(g)' => Exists(g) /\ g # f
          /\ \A g \in Files : g # f => file'[g] = file[g]
          /\ ~Exists(f)'
      BY <1>1, <1>4 DEF TypeOK, Exists
    <2> DEFINE Free(k) == /\ \A g \in Files : Exists(g)' => file'[g].key # k
                          /\ k \in Legacy \/ Began(k)
                          /\ \A q \in Requests :
                               Running(q) /\ request[q].pc # "link" => Source[q] # k
    <2>2. Free(file[f].key)
      <3>1. \A g \in Files : Exists(g)' => file'[g].key # file[f].key
        BY <1>4, <2>1, KeysDiffer
      <3>2. file[f].key \in Legacy \/ Began(file[f].key)
        BY <1>4, KeysDiffer
      <3>3. \A q \in Requests : Running(q) /\ request[q].pc # "link" => Source[q] # file[f].key
        BY <1>4, KeysDiffer DEF Keyless
      <3> QED
        BY <3>1, <3>2, <3>3
    <2>3. \A u \in Uploads : Active(u) /\ upload[u].file # None =>
            upload[u].file \in Files /\ upload[u].file # f /\ Exists(upload[u].file)
      BY <1>1, <1>4, Rows DEF ReferenceInv, UploadRight, UploadTyped
    <2>4. Kept
      <3>1. \A u \in Uploads :
              /\ \/ upload'[u].file = upload[u].file
                 \/ upload'[u].file = None /\ ~Active(u) /\ file'[upload[u].file] = NoFile
              /\ Active(u) /\ upload[u].file # None => file'[upload[u].file] # NoFile
        <4>1. ASSUME NEW u \in Uploads, Active(u), upload[u].file # None
              PROVE  file'[upload[u].file] # NoFile
          BY <2>1, <2>3, <4>1 DEF Exists
        <4>2. ASSUME NEW u \in Uploads, upload[u].file = f
              PROVE  upload'[u].file = None /\ ~Active(u) /\ file'[upload[u].file] = NoFile
          BY <1>4, <2>1, <4>2 DEF Exists
        <4> QED
          BY <1>4, <4>1, <4>2 DEF Exists
      <3>2. ASSUME NEW s \in drop', s \notin drop
            PROVE  /\ Keyless(s)' /\ (s \in Legacy \/ Began(s))
                   /\ \A q \in Requests : Running(q) /\ request[q].pc # "link" => Source[q] # s
        BY <1>4, <2>2, <3>2 DEF Keyless
      <3> QED
        BY <1>2, <1>4, <2>1, <3>1, <3>2 DEF Kept
    <2>5. ASSUME NEW s \in Sources PROVE AttachRight(s)'
      <3>1. attach[s] # NoAttach => attach[s].file \in Files \ {f}
        BY <1>1, <1>4, Rows DEF Referenced, AttachRows
      <3> QED
        BY <1>1, <1>2, <2>1, <3>1 DEF ReferenceInv, AttachRight, Exists
    <2>6. ASSUME NEW l \in Legacy, backfill'[l] # NotRunning PROVE BackfillRight(l)'
      <3>1. /\ BackfillRight(l) /\ l \in Files
            /\ backfill[l].pc = "merge" => backfill[l].target \in Files
        BY <1>1, <1>2, <2>6, Names DEF ReferenceInv, Contented
      <3> QED
        BY <1>2, <2>1, <3>1 DEF BackfillRight, Exists, Past, At
    <2> QED
      BY <1>1, <2>4, <2>5, <2>6, KeptSafe
  <1> QED
    BY <1>1, <1>3, <1>4, CollectStep

LEMMA FindSafe ==
    ASSUME Safe, NEW l \in Legacy, BackfillFind(l)
    PROVE  Safe'
  <1>1. /\ Typed /\ TypeOK /\ FileInv /\ ReferenceInv /\ Typed' /\ Contented /\ l \in Files
    BY BackfillTyped, Names DEF Safe, Typed
  <1>2. /\ backfill[l] = NotRunning /\ Exists(l) /\ ~file[l].hashed
        /\ UNCHANGED <<upload, file, object, attach, request, closing, removing, drop>>
        /\ \A k \in Legacy \ {l} : backfill'[k] = backfill[k]
        /\ backfill'[l].pc = "merge" => backfill'[l].target \in Identical(l, {l})
    BY <1>1, BackfillRows
  <1>3. Kept
    <2>1. \A u \in Uploads : Active(u) /\ upload[u].file # None => Exists(upload[u].file)
      BY <1>1 DEF ReferenceInv, UploadRight
    <2> QED
      BY <1>2, <2>1 DEF Kept, Exists
  <1>4. \A t \in Sources : AttachRight(t)'
    BY <1>1, <1>2 DEF ReferenceInv, AttachRight, Exists
  <1>5. ASSUME NEW k \in Legacy, backfill'[k] # NotRunning PROVE BackfillRight(k)'
    <2>1. CASE k # l
      <3>1. BackfillRight(k) /\ backfill'[k] = backfill[k]
        BY <1>1, <1>2, <1>5, <2>1 DEF ReferenceInv
      <3> QED
        BY <1>2, <3>1 DEF BackfillRight, Exists, Past, At
    <2>2. CASE k = l
      <3>1. ASSUME NEW f \in Identical(l, {l})
            PROVE  /\ Past(f) /\ f # l /\ Exists(f) /\ file[f].hashed
                   /\ file[f].bytes = file[l].bytes
        <4>1. /\ f \in Files /\ f # l /\ Exists(f) /\ file[f].hashed
              /\ object[file[f].key] = object[l]
          BY DEF Identical
        <4>2. FileRight(f) /\ FileRight(l)
          BY <1>1, <1>2, <4>1 DEF FileInv
        <4> QED
          BY <4>1, <4>2 DEF FileRight, Past, Files
      <3>2. ASSUME backfill'[l].pc = "merge"
            PROVE  \E f \in Files : /\ f = backfill'[l].target
                                    /\ Past(f) /\ f # l /\ Exists(f) /\ file[f].hashed
                                    /\ file[f].bytes = file[l].bytes
        BY <1>2, <3>1, <3>2 DEF Identical
      <3> QED
        BY <1>2, <2>2, <3>2 DEF BackfillRight, Exists, Past, At
    <2> QED
      BY <2>1, <2>2
  <1> QED
    BY <1>1, <1>3, <1>4, <1>5, KeptSafe

LEMMA MergeSafe ==
    ASSUME Safe, NEW l \in Legacy, BackfillMerge(l)
    PROVE  Safe'
  <1>1. /\ Typed /\ TypeOK /\ FileInv /\ ReferenceInv /\ Typed' /\ Contented /\ l \in Files
    BY BackfillTyped, Names DEF Safe, Typed
  <1>2. /\ UNCHANGED <<upload, object, request, closing>>
        /\ \A k \in Legacy \ {l} : backfill'[k] = backfill[k]
        /\ backfill'[l] = NotRunning /\ backfill[l] # NotRunning
        /\ backfill[l].pc = "merge" /\ BackfillRight(l)
    BY <1>1, MergeStep, BackfillRows DEF ReferenceInv
  <1>3. PICK t \in Files : t = backfill[l].target
    BY <1>1, MergeStep
  <1>4. CASE UNCHANGED <<attach, file, drop>>
    <2>1. Kept
      <3>1. \A u \in Uploads : Active(u) /\ upload[u].file # None => Exists(upload[u].file)
        BY <1>1 DEF ReferenceInv, UploadRight
      <3> QED
        BY <1>2, <1>4, <3>1 DEF Kept, Exists
    <2>2. \A s \in Sources : AttachRight(s)'
      BY <1>1, <1>4 DEF ReferenceInv, AttachRight, Exists
    <2>3. \A k \in Legacy : backfill'[k] # NotRunning => BackfillRight(k)'
      BY <1>1, <1>2, <1>4 DEF ReferenceInv, BackfillRight, Exists, Past, At
    <2> QED
      BY <1>1, <2>1, <2>2, <2>3, KeptSafe
  <1>5. ASSUME Exists(t),
               \A s \in Sources :
                      IF attach[s].file = l
                      THEN attach'[s].file = t /\ attach[s] # NoAttach
                           /\ attach'[s].content = attach[s].content
                      ELSE attach'[s] = attach[s],
               file' = [file EXCEPT ![l] = NoFile], drop' = drop \cup {l}
        PROVE  Safe'
    <2>1. /\ \A g \in Files : Exists(g)' => Exists(g) /\ g # l
          /\ \A g \in Files : g # l => file'[g] = file[g]
          /\ ~Exists(l)'
      BY <1>1, <1>5 DEF TypeOK, Exists
    <2>2. t # l /\ file[t].hashed
          /\ (Exists(l) => ~file[l].hashed /\ file[t].bytes = file[l].bytes)
      BY <1>2, <1>3, <1>5 DEF BackfillRight
    <2>3. \A u \in Uploads : Active(u) /\ upload[u].file # None =>
            upload[u].file \in Files /\ upload[u].file # l /\ Exists(upload[u].file)
      BY <1>1, <2>2, Rows DEF ReferenceInv, UploadRight, UploadTyped
    <2>4. Kept
      <3>1. Keyless(l)'
        <4>1. \A g \in Files : Exists(g)' => file'[g].key # l
          BY <2>1, KeysDiffer
        <4> QED
          BY <4>1 DEF Keyless
      <3>2. \A q \in Requests : Source[q] # l
        BY Names, DisjointAssumption
      <3>3. \A u \in Uploads : Active(u) /\ upload[u].file # None =>
              file'[upload[u].file] # NoFile
        BY <2>1, <2>3 DEF Exists
      <3> QED
        BY <1>2, <1>5, <2>1, <3>1, <3>2, <3>3 DEF Kept
    <2>5. ASSUME NEW s \in Sources PROVE AttachRight(s)'
      <3>1. AttachRight(s) /\ (attach[s] # NoAttach => attach[s].file \in Files)
        BY <1>1, Rows DEF ReferenceInv, AttachRows
      <3>2. CASE attach[s].file = l
        <4>1. /\ attach'[s].file = t /\ attach'[s].content = attach[s].content
              /\ file[l].bytes = attach[s].content /\ Exists(l)
          BY <1>5, <3>1, <3>2 DEF AttachRight
        <4>2. file'[t] = file[t] /\ Exists(t) /\ file[t].bytes = file[l].bytes
          BY <1>5, <2>1, <2>2, <4>1
        <4> QED
          BY <4>1, <4>2 DEF AttachRight, Exists
      <3>3. CASE attach[s].file # l
        BY <1>5, <2>1, <3>1, <3>3 DEF AttachRight, Exists
      <3> QED
        BY <3>2, <3>3
    <2>6. ASSUME NEW k \in Legacy, backfill'[k] # NotRunning PROVE BackfillRight(k)'
      <3>1. /\ BackfillRight(k) /\ k \in Files /\ k # l /\ backfill'[k] = backfill[k]
            /\ backfill[k].pc = "merge" => backfill[k].target \in Files
        BY <1>1, <1>2, <2>6, Names DEF ReferenceInv, Contented
      <3> QED
        BY <1>2, <2>1, <3>1 DEF BackfillRight, Exists, Past, At
    <2> QED
      BY <1>1, <2>4, <2>5, <2>6, KeptSafe
  <1> QED
    BY <1>1, <1>3, <1>4, <1>5, MergeStep

LEMMA StampSafe ==
    ASSUME Safe, NEW l \in Legacy, BackfillStamp(l)
    PROVE  Safe'
  <1>1. /\ Typed /\ TypeOK /\ FileInv /\ ReferenceInv /\ Typed' /\ Contented /\ l \in Files
    BY BackfillTyped, Names DEF Safe, Typed
  <1>2. /\ UNCHANGED <<upload, object, attach, request, closing, drop>>
        /\ \A f \in Files \ {l} : file'[f] = file[f]
        /\ IF Exists(l) THEN /\ file'[l].key = file[l].key /\ file'[l].bytes = file[l].bytes
                             /\ file'[l].hashed /\ file'[l] \in FileRows
                        ELSE file'[l] = file[l]
    BY <1>1, StampStep
  <1>3. /\ \A k \in Legacy \ {l} : backfill'[k] = backfill[k]
        /\ backfill'[l] = NotRunning
    BY <1>1, BackfillRows
  <1>4. \A f \in Files : /\ Exists(f)' <=> Exists(f)
                         /\ Exists(f) => /\ file'[f].key = file[f].key
                                         /\ file'[f].bytes = file[f].bytes
                                         /\ file[f].hashed => file'[f].hashed
    BY <1>2, Names DEF Exists
  <1>5. Kept
    <2>1. \A u \in Uploads : Active(u) /\ upload[u].file # None =>
            upload[u].file \in Files /\ Exists(upload[u].file)
      BY <1>1, Rows DEF ReferenceInv, UploadRight, UploadTyped
    <2>2. \A u \in Uploads : Active(u) /\ upload[u].file # None => file'[upload[u].file] # NoFile
      BY <1>4, <2>1 DEF Exists
    <2> QED
      BY <1>2, <1>4, <2>2 DEF Kept
  <1>6. ASSUME NEW s \in Sources PROVE AttachRight(s)'
    <2>1. AttachRight(s) /\ (attach[s] # NoAttach => attach[s].file \in Files)
      BY <1>1, Rows DEF ReferenceInv, AttachRows
    <2> QED
      BY <1>2, <1>4, <2>1 DEF AttachRight, Exists
  <1>7. ASSUME NEW k \in Legacy, backfill'[k] # NotRunning PROVE BackfillRight(k)'
    <2>1. /\ BackfillRight(k) /\ k \in Files /\ k # l /\ backfill'[k] = backfill[k]
          /\ backfill[k].pc = "merge" => backfill[k].target \in Files
      BY <1>1, <1>3, <1>7, Names DEF ReferenceInv, Contented
    <2> QED
      BY <1>2, <1>4, <2>1 DEF BackfillRight, Exists, Past, At
  <1> QED
    BY <1>1, <1>5, <1>6, <1>7, KeptSafe

LEMMA InitSafe == Init => Safe
  <1> SUFFICES ASSUME Init PROVE Safe
    OBVIOUS
  <1>1. Typed
    BY InitTyped
  <1>2. \A f \in Files :
          /\ f \in Legacy => /\ file[f].key = f /\ file[f].bytes = object[f]
                             /\ ~file[f].hashed /\ file[f].key # None
          /\ f \notin Legacy => file[f] = NoFile
    BY Names DEF Init
  <1>3. FileInv
    BY <1>2, DisjointAssumption DEF FileInv, FileRight, Exists, Files
  <1>4. \A q \in Requests : request[q] = Idle /\ request[q].pc = "idle"
    BY DEF Init, Idle
  <1>5. RequestInv
    BY <1>4 DEF RequestInv, Running, Busy
  <1>6. DropInv
    BY DEF Init, DropInv
  <1>7. ReferenceInv
    <2>1. \A u \in Uploads : upload[u].file = None
      BY DEF Init
    <2>2. \A s \in Sources :
            /\ s \in Legacy => attach[s].file = s /\ attach[s].content = object[s]
            /\ s \notin Legacy => attach[s] = NoAttach
      BY DEF Init
    <2>3. \A l \in Legacy : Exists(l)
      BY <1>2, Names DEF Exists, NoFile
    <2>4. \A s \in Sources : AttachRight(s)
      BY <1>2, <2>2, <2>3, Names DEF AttachRight
    <2> QED
      BY <2>1, <2>4 DEF ReferenceInv, UploadRight, Init
  <1> QED
    BY <1>1, <1>3, <1>5, <1>6, <1>7 DEF Safe

LEMMA NextSafe ==
    ASSUME Calm, Safe, [Next]_vars
    PROVE  Safe'
  <1>1. TypeOK /\ Typed /\ Typed'
    BY NextTyped DEF Safe, Typed
  <1>2. ASSUME NEW q \in Requests, BeginPut(q) \/ BeginInbound(q) PROVE Safe'
    BY <1>2, BeginSafe
  <1>3. ASSUME NEW q \in Requests, Store(q) PROVE Safe'
    BY <1>1, <1>3, StoreSteps, ChoosesSafe, WritesSafe, InsertsSafe, EndSafe DEF Store
  <1>4. ASSUME NEW q \in Requests, Crash(q) PROVE Safe'
    BY <1>4, EndSafe
  <1>5. ASSUME NEW u \in Uploads, NEW c \in Contents,
               CreateUpload(u, c) \/ Complete(u) \/ Consume(u) \/ ExpireRead(u) \/ CancelRead(u)
        PROVE  Safe'
    <2>1. Aside(u)
      BY <1>5, UploadAside
    <2> QED
      BY <1>1, <2>1, AsideSafe
  <1>6. ASSUME NEW x \in closing, Close(x) PROVE Safe'
    <2>1. x.upload \in Uploads /\ Aside(x.upload)
      BY <1>6, CloseAside
    <2> QED
      BY <1>1, <2>1, AsideSafe
  <1>7. ASSUME NEW s \in Sources, RemoveRead(s) \/ Remove(s) \/ DropObject(s) \/ DropLost(s)
        PROVE  Safe'
    BY <1>7, RemovalSafe
  <1>8. ASSUME NEW f \in Files, Collect(f) PROVE Safe'
    BY <1>8, CollectSafe
  <1>9. ASSUME NEW f \in Files, CollectLost(f) PROVE Safe'
    BY <1>1, <1>9, QuietSafe DEF CollectLost
  <1>10. ASSUME NEW l \in Legacy, BackfillFind(l) \/ BackfillMerge(l) \/ BackfillStamp(l)
         PROVE  Safe'
    BY <1>10, FindSafe, MergeSafe, StampSafe
  <1>11. CASE UNCHANGED vars
    BY <1>1, <1>11, QuietSafe DEF vars
  <1>12. ASSUME NEW u \in Uploads, Complete(u) \/ Consume(u) \/ ExpireRead(u) \/ CancelRead(u)
         PROVE  Safe'
    <2>1. PICK c : c \in Contents
      <3>1. upload[u].status # None
        BY <1>12 DEF Complete, Consume, ExpireRead, CancelRead, Active, None
      <3> QED
        BY <1>1, <3>1 DEF Typed, Contented
    <2> QED
      BY <1>5, <1>12, <2>1
  <1> QED
    BY <1>2, <1>3, <1>4, <1>5, <1>6, <1>7, <1>8, <1>9, <1>10, <1>11, <1>12 DEF Next, CloseAny

(* ReferencedBytesStay holds for any number of uploads, mails, files and   *)
(* requests, as long as clients are patient (a PUT is neither repeated nor *)
(* cancelled while it runs) and no PUT ends between its file row and its   *)
(* reference.  TLC shows on MCAttachments that it is lost without either.  *)
THEOREM BytesStay ==
    ASSUME ~Impatient, ~CrashBeforeLink
    PROVE  Spec => []ReferencedBytesStay
  <1>1. Safe => ReferencedBytesStay
    <2> SUFFICES ASSUME Safe PROVE ReferencedBytesStay
      OBVIOUS
    <2>1. FileInv /\ ReferenceInv /\ TypeOK
      BY DEF Safe, Typed
    <2>2. ASSUME NEW u \in Uploads, Active(u), upload[u].file # None
          PROVE  /\ Exists(upload[u].file)
                 /\ object[file[upload[u].file].key] = upload[u].content
      <3>1. upload[u].file \in Files
        BY <2>1, <2>2, Rows DEF UploadTyped
      <3> QED
        BY <2>1, <2>2, <3>1 DEF FileInv, FileRight, ReferenceInv, UploadRight
    <2>3. ASSUME NEW s \in Sources, attach[s] # NoAttach
          PROVE  /\ Exists(attach[s].file)
                 /\ object[file[attach[s].file].key] = attach[s].content
      <3>1. attach[s].file \in Files
        BY <2>1, <2>3, Rows DEF AttachRows
      <3> QED
        BY <2>1, <2>3, <3>1 DEF FileInv, FileRight, ReferenceInv, AttachRight
    <2> QED
      BY <2>2, <2>3 DEF ReferencedBytesStay
  <1>2. Safe /\ [Next]_vars => Safe'
    BY NextSafe DEF Calm
  <1> QED
    BY InitSafe, <1>1, <1>2, PTL DEF Spec

=============================================================================
