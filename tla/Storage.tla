------------------------------ MODULE Storage ------------------------------
(* The object store of attachments and raw messages while a deployment moves *)
(* from Cloudflare KV to R2: the stores of platform/attachment-store.ts and  *)
(* the script migrate-attachments-to-r2.                                     *)
(*                                                                           *)
(* In KV an object is a body with a metadata slot and, when the metadata do  *)
(* not fit there or the object is an old one, a sidecar value.  With the R2  *)
(* binding deployed the Worker writes R2, reads R2 and then KV, and deletes  *)
(* from both.  The script copies what KV holds and deletes it there.  Every  *)
(* KV and R2 call is one action.  All the bytes ever put under one key have  *)
(* the size of its upload, so that a comparison of sizes always succeeds.    *)
EXTENDS Naturals

CONSTANTS
    Keys,
    Bytes,       \* bytes that may be put under a key
    Readers,     \* get calls in flight
    MaxPuts,     \* bound: puts and deletes of a behaviour
    MaxFailures, \* bound: crashes and failing calls of a behaviour
    Null

VARIABLES
    bound,    \* is ATTACHMENTS bound: "kv" or "r2"
    body,     \* attachment:<key>: the bytes and where their metadata are
    side,     \* attachment-meta:<key> is there
    bucket,   \* the R2 object: its bytes, and whether it has metadata
    app,      \* per key: the put or delete in progress, with the writes left
    reader,   \* per get call: place and locals
    script,   \* the migration: keys of the page left, current key, locals
    puts, failures,
    hist      \* latest: what was last put and not deleted; raced: overlaps

storeVars == <<bound, body, side, bucket, app, reader, script, puts, failures, hist>>

ASSUME StorageAssumption ==
    /\ MaxPuts \in Nat /\ MaxFailures \in Nat
    /\ Null \notin Bytes \cup Keys \cup {"put", "delete", "slot", "sidecar"}
    /\ Null \notin [content : Bytes, form : {"slot", "sidecar"}]
    /\ Null \notin [content : Bytes, meta : BOOLEAN]

NoOp == [op |-> Null, content |-> Null, form |-> Null, todo |-> {}]
NoGet == [at |-> "idle", key |-> Null, primary |-> FALSE, got |-> Null, stable |-> TRUE]
NoCopy == [at |-> "idle", page |-> {}, key |-> Null, content |-> Null,
           meta |-> FALSE, found |-> Null]

StoreInit ==
    /\ bound = "kv"
    /\ body = [k \in Keys |-> Null] /\ side = [k \in Keys |-> FALSE]
    /\ bucket = [k \in Keys |-> Null]
    /\ app = [k \in Keys |-> NoOp]
    /\ reader = [r \in Readers |-> NoGet]
    /\ script = NoCopy
    /\ puts = 0 /\ failures = 0
    /\ hist = [latest |-> [k \in Keys |-> Null], raced |-> {}, unsure |-> {}]

(* The Worker is deployed with the ATTACHMENTS binding.  Calls in flight go  *)
(* on with the store they have.                                              *)
Deploy ==
    /\ bound = "kv" /\ bound' = "r2"
    /\ UNCHANGED <<body, side, bucket, app, reader, script, puts, failures, hist>>

-----------------------------------------------------------------------------
(* put and delete of the store                                               *)

(* The script has taken key k up and will still write it.                    *)
Copying(k) ==
    script.key = k /\ script.at \in {"meta", "head", "put", "verify", "deleteSide", "deleteBody"}

(* A get that overlaps a put or a delete may find either.                    *)
Unsettles(k) ==
    reader' = [r \in Readers |->
                 IF reader[r].key = k THEN [reader[r] EXCEPT !.stable = FALSE]
                                      ELSE reader[r]]

Begins(k, o) ==
    /\ app[k].op = Null /\ puts < MaxPuts
    /\ app' = [app EXCEPT ![k] = o]
    /\ puts' = puts + 1
    /\ Unsettles(k)
    /\ hist' = [hist EXCEPT !.raced = IF Copying(k) THEN @ \cup {k} ELSE @]
    /\ UNCHANGED <<bound, body, side, bucket, script, failures>>

(* In KV the metadata go to the slot of the body if they fit, else to the    *)
(* sidecar; both writes are started together.                                *)
Put(k, c) ==
    \/ /\ bound = "r2"
       /\ Begins(k, [op |-> "put", content |-> c, form |-> Null, todo |-> {"object"}])
    \/ /\ bound = "kv"
       /\ \E overflow \in BOOLEAN :
            Begins(k, [op |-> "put", content |-> c,
                       form |-> IF overflow THEN "sidecar" ELSE "slot",
                       todo |-> IF overflow THEN {"body", "side"} ELSE {"body"}])

Delete(k) ==
    Begins(k, [op |-> "delete", content |-> Null, form |-> Null,
               todo |-> IF bound = "r2" THEN {"object", "body", "side"}
                                        ELSE {"body", "side"}])

Does(k, write) ==
    /\ write \in app[k].todo
    /\ app' = [app EXCEPT ![k].todo = @ \ {write}]
    /\ UNCHANGED <<bound, reader, script, puts, failures, hist>>

WriteBody(k) ==
    /\ Does(k, "body")
    /\ body' = [body EXCEPT ![k] =
         IF app[k].op = "delete" THEN Null
         ELSE [content |-> app[k].content, form |-> app[k].form]]
    /\ UNCHANGED <<side, bucket>>

WriteSide(k) ==
    /\ Does(k, "side")
    /\ side' = [side EXCEPT ![k] = app[k].op = "put"]
    /\ UNCHANGED <<body, bucket>>

WriteObject(k) ==
    /\ Does(k, "object")
    /\ bucket' = [bucket EXCEPT ![k] =
         IF app[k].op = "delete" THEN Null
         ELSE [content |-> app[k].content, meta |-> TRUE]]
    /\ UNCHANGED <<body, side>>

Answer(k) ==
    /\ app[k].op # Null /\ app[k].todo = {}
    /\ app' = [app EXCEPT ![k] = NoOp]
    /\ hist' = [hist EXCEPT
         !.latest[k] = app[k].content,
         !.unsure = @ \ {k},
         !.raced = IF Copying(k) THEN @ \cup {k} ELSE @]
    /\ UNCHANGED <<bound, body, side, bucket, reader, script, puts, failures>>

(* Some of the writes are never made.                                        *)
AppCrash(k) ==
    /\ app[k].op # Null /\ failures < MaxFailures
    /\ app' = [app EXCEPT ![k] = NoOp]
    /\ failures' = failures + 1
    /\ hist' = [hist EXCEPT !.unsure = @ \cup {k}]
    /\ UNCHANGED <<bound, body, side, bucket, reader, script, puts>>

-----------------------------------------------------------------------------
(* get of the store                                                          *)

Get(r, k) ==
    /\ reader[r].at = "idle"
    /\ hist.latest[k] # Null /\ app[k].op = Null
    /\ reader' = [reader EXCEPT ![r] =
         [NoGet EXCEPT !.at = IF bound = "r2" THEN "object" ELSE "body", !.key = k,
                       !.stable = k \notin hist.unsure]]
    /\ UNCHANGED <<bound, body, side, bucket, app, script, puts, failures, hist>>

ReadObject(r) ==
    LET o == bucket[reader[r].key]
    IN  /\ reader[r].at = "object"
        /\ reader' = IF o = Null
                     THEN [reader EXCEPT ![r].at = "body"]
                     ELSE [reader EXCEPT ![r].at = "done", ![r].got = o.content]
        /\ UNCHANGED <<bound, body, side, bucket, app, script, puts, failures, hist>>

(* The sidecar is read for the metadata only: without it the size is that of *)
(* the body.                                                                 *)
ReadBody(r) ==
    LET b == body[reader[r].key]
    IN  /\ reader[r].at = "body"
        /\ reader' = [reader EXCEPT ![r].at = "done",
                        ![r].got = IF b = Null THEN Null ELSE b.content]
        /\ UNCHANGED <<bound, body, side, bucket, app, script, puts, failures, hist>>

GetEnds(r) ==
    /\ reader[r].at = "done"
    /\ reader' = [reader EXCEPT ![r] = NoGet]
    /\ UNCHANGED <<bound, body, side, bucket, app, script, puts, failures, hist>>

-----------------------------------------------------------------------------
(* migrate                                                                   *)

stores == <<bound, app, puts, failures, hist>>

(* Runbook: the binding is deployed first.  A run may be started again.      *)
ListKeys ==
    /\ bound = "r2" /\ script.at = "idle"
    /\ script' = [NoCopy EXCEPT !.at = "next", !.page = {k \in Keys : body[k] # Null}]
    /\ UNCHANGED <<body, side, bucket, reader, stores>>

NextKey ==
    /\ script.at = "next"
    /\ IF script.page = {}
       THEN script' = NoCopy
       ELSE \E k \in script.page :
              script' = [NoCopy EXCEPT !.at = "read", !.page = script.page \ {k}, !.key = k]
    /\ UNCHANGED <<body, side, bucket, reader, stores>>

Skip == [NoCopy EXCEPT !.at = "next", !.page = script.page]

(* A body that is gone makes the read fail: the key counts as failed.        *)
ReadSource ==
    /\ script.at = "read"
    /\ script' = IF body[script.key] = Null THEN Skip
                 ELSE [script EXCEPT !.at = "meta", !.content = body[script.key].content]
    /\ hist' = [hist EXCEPT !.raced = IF app[script.key].op # Null
                                      THEN @ \cup {script.key} ELSE @]
    /\ UNCHANGED <<body, side, bucket, reader, bound, app, puts, failures>>

(* The metadata are read from the sidecar, and from nowhere else.            *)
ReadMeta ==
    /\ script.at = "meta"
    /\ script' = [script EXCEPT !.at = "head", !.meta = side[script.key]]
    /\ UNCHANGED <<body, side, bucket, reader, stores>>

(* r2ObjectMatches: the sizes are equal, and so are the metadata that the    *)
(* source has.                                                               *)
Matches(o) == o # Null /\ (script.meta => o.meta)

(* Mutant: a missing object matches.                                         *)
HeadLoosely ==
    LET o == bucket[script.key]
    IN  /\ script.at = "head"
        /\ script' = [script EXCEPT !.at = IF o = Null \/ Matches(o) THEN "deleteSide" ELSE "put"]
        /\ UNCHANGED <<body, side, bucket, reader, stores>>

Head ==
    /\ script.at = "head"
    /\ script' = [script EXCEPT !.at =
                    IF Matches(bucket[script.key]) THEN "deleteSide" ELSE "put"]
    /\ UNCHANGED <<body, side, bucket, reader, stores>>

PutR2 ==
    /\ script.at = "put"
    /\ bucket' = [bucket EXCEPT ![script.key] =
                    [content |-> script.content, meta |-> script.meta]]
    /\ script' = [script EXCEPT !.at = "verify"]
    /\ UNCHANGED <<body, side, reader, stores>>

Verify ==
    /\ script.at = "verify"
    /\ script' = IF Matches(bucket[script.key])
                 THEN [script EXCEPT !.at = "deleteSide"] ELSE Skip
    /\ UNCHANGED <<body, side, bucket, reader, stores>>

DeleteSide ==
    /\ script.at = "deleteSide"
    /\ side' = [side EXCEPT ![script.key] = FALSE]
    /\ script' = [script EXCEPT !.at = "deleteBody"]
    /\ UNCHANGED <<body, bucket, reader, stores>>

(* A get that has looked in R2 before the object was there finds no body.    *)
DeleteBody ==
    /\ script.at = "deleteBody"
    /\ body' = [body EXCEPT ![script.key] = Null]
    /\ script' = Skip
    /\ hist' = [hist EXCEPT !.raced = @ \cup
         {r \in Readers : reader[r].at = "body" /\ reader[r].key = script.key}]
    /\ UNCHANGED <<side, bucket, reader, bound, app, puts, failures>>

(* A request of the script fails and it goes on with the next key, or the    *)
(* script is stopped; a write may have been made.                            *)
ScriptFails ==
    /\ script.at \notin {"idle", "next"} /\ failures < MaxFailures
    /\ script' \in {Skip, NoCopy}
    /\ failures' = failures + 1
    /\ UNCHANGED <<body, side, bucket, reader, bound, app, puts, hist>>

StoreNext ==
    \/ Deploy
    \/ \E k \in Keys :
         \/ \E c \in Bytes : Put(k, c)
         \/ Delete(k) \/ WriteBody(k) \/ WriteSide(k) \/ WriteObject(k)
         \/ Answer(k) \/ AppCrash(k)
         \/ \E r \in Readers : Get(r, k)
    \/ \E r \in Readers : ReadObject(r) \/ ReadBody(r) \/ GetEnds(r)
    \/ ListKeys \/ NextKey \/ ReadSource \/ ReadMeta \/ Head \/ PutR2
    \/ Verify \/ DeleteSide \/ DeleteBody \/ ScriptFails

StoreSpec == StoreInit /\ [][StoreNext]_storeVars

-----------------------------------------------------------------------------
(* What a get would find under k.                                            *)
Found(k) ==
    IF bound = "r2" /\ bucket[k] # Null THEN bucket[k].content
    ELSE IF body[k] # Null THEN body[k].content ELSE Null

(* What was last put under a key, or nothing if it was deleted, is what the  *)
(* store holds, through the change of binding, a migration that fails at any *)
(* point and one that is run again; unless the put or delete was cut short   *)
(* or came while the script was at work on the key.                          *)
StoreKeepsLatest ==
    \A k \in Keys :
        app[k].op = Null /\ k \notin hist.unsure \cup hist.raced =>
            Found(k) = hist.latest[k]

(* A get of an object that nobody touches finds it during the migration,     *)
(* unless the script deleted the body between the two places it looks in.    *)
GetsFindLatest ==
    \A r \in Readers :
        /\ reader[r].at = "done" /\ reader[r].stable
        /\ reader[r].key \notin hist.raced /\ r \notin hist.raced
        => reader[r].got = hist.latest[reader[r].key]

(* The attachments can be read before, during and after the change of stores.*)
LatestIsFound == StoreKeepsLatest /\ GetsFindLatest

=============================================================================
