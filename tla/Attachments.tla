---------------------------- MODULE Attachments ----------------------------
(***************************************************************************)
(* The attachment file catalog: uploads and inbound mails that store an    *)
(* object and register it as a file, or reuse a file with the same bytes;  *)
(* the references of uploads and messages to files; every path that removes*)
(* a reference, a file or an object; the backfill of files from before the *)
(* catalog.  The daily retention of messages and the sweep of orphaned     *)
(* objects behind it are no actions: the batch of cleanupTrashAndMessages  *)
(* names a column that mailbox_messages does not have, so it always fails  *)
(* and the sweep after it is never reached.  Only drafts lose attachments. *)
(*                                                                         *)
(* One action is one D1 statement or batch, or one call of the store.  A   *)
(* source is what an object key is made from, so its key is the source.  A *)
(* message holds one attachment, so attachments are indexed by source too. *)
(***************************************************************************)
EXTENDS Naturals, FiniteSets

CONSTANTS
    Uploads,          \* rows of attachment_uploads, and their object keys
    Mails,            \* attachments of inbound mails, and their object keys
    Legacy,           \* objects from before the catalog
    Requests,         \* PUTs and inbound deliveries; each one runs once ...
    Source,           \* ... for the upload or mail that Source gives
    Contents,         \* bodies
    Body,             \* the body of each mail's attachment and legacy object
    Digest,           \* md5 and size of a body; two bodies may share it
    Impatient,        \* a client may repeat a PUT, or cancel it while it runs,
                      \* and a PUT may outlive its upload's expiry
    CrashBeforeLink,  \* a PUT may end between its file row and its reference
    MaxFaults         \* how many faults a behaviour may contain (bound)

ASSUME BodyAssumption ==
    DOMAIN Digest = Contents /\ Body \in [Mails \cup Legacy -> Contents]
ASSUME SwitchAssumption == Impatient \in BOOLEAN /\ CrashBeforeLink \in BOOLEAN
ASSUME BoundAssumption == MaxFaults \in Nat

Sources == Uploads \cup Mails \cup Legacy
ASSUME SourceAssumption == Source \in [Requests -> Uploads \cup Mails]

Files == Requests \cup Legacy        \* a new file is named by its request

None == "none"
ASSUME NamesAssumption == None \notin Sources \cup Files \cup Contents
ASSUME DisjointAssumption ==
    Uploads \cap Mails = {} /\ (Uploads \cup Mails \cup Requests) \cap Legacy = {}

VARIABLES
    upload,    \* attachment_uploads, with the bytes the user picked (ghost)
    file,      \* attachment_files
    object,    \* the object store: a body or None per key
    attach,    \* message_attachments
    request,   \* storeAttachmentFile and its callers
    closing,   \* cancellations and expiries that have read their row
    removing,  \* the file a deletion of a message has read
    collect,   \* files passed to deleteAttachmentFileIfUnreferenced
    drop,      \* keys passed to attachmentStore.delete
    backfill,  \* attachment-md5-backfill, per legacy file
    leaked,    \* files whose last reference a backfill moved there while its
               \* removal was under way (history)
    faults     \* faults so far (bounds the model only)

vars == <<upload, file, object, attach, request, closing, removing, collect,
          drop, backfill, leaked, faults>>

-----------------------------------------------------------------------------
(* Types *)

(* An upload is complete only with its file; file_id of one that is over may *)
(* have been set to NULL.  `due`: expires_at <= now.                         *)
UploadRows ==
    [ status : {"uploaded"}, file : Files, due : BOOLEAN, content : Contents ]
      \cup [ status  : {None, "pending", "consumed", "expired", "deleted"},
             file    : Files \cup {None},
             due     : BOOLEAN,
             content : Contents \cup {None} ]

(* `base`: dedupe_key is md5:size, with no file id appended. *)
FileRows == [ key : Sources, bytes : Contents, hashed : BOOLEAN, base : BOOLEAN ]
NoFile == [ key |-> None ]

AttachRows == [ file : Files, content : Contents ]
NoAttach == [ file |-> None ]

Busy == {"put", "find", "drop", "insert", "refind", "suffix", "raced", "link"}
RequestRows ==
    [ pc : Busy, content : Contents, target : Files \cup {None} ]
Idle == [ pc |-> "idle" ]
Done == [ pc |-> "done" ]

NotRunning == [ pc |-> "idle" ]

TypeOK ==
    /\ upload \in [Uploads -> UploadRows]
    /\ file \in [Files -> FileRows \cup {NoFile}]
    /\ object \in [Sources -> Contents \cup {None}]
    /\ attach \in [Sources -> AttachRows \cup {NoAttach}]
    /\ request \in [Requests -> RequestRows \cup {Idle, Done}]
    /\ closing \subseteq [upload : Uploads, how : {"cancel", "expire"},
                          file : Files \cup {None}]
    /\ removing \in [Sources -> Files \cup {None}]
    /\ collect \subseteq Files
    /\ drop \subseteq Sources
    /\ backfill \in [Legacy -> {NotRunning} \cup
                       [pc : {"merge", "stamp"}, target : Files \cup {None}]]
    /\ leaked \subseteq Files
    /\ faults \in 0..MaxFaults

-----------------------------------------------------------------------------
(* Helpers *)

Exists(f) == file[f] # NoFile
At(q, pc) == request[q].pc = pc
Running(q) == request[q].pc \in Busy
Goto(q, pc) == request' = [request EXCEPT ![q].pc = pc]
Leave(q) == request' = [request EXCEPT ![q] = Done]

Target(q) == request[q].target
Began(s) == \E q \in Requests : request[q] # Idle /\ Source[q] = s
InFlight(s) == \E q \in Requests : Running(q) /\ Source[q] = s

Active(u) == upload[u].status \in {"pending", "uploaded"}

Referenced(f) ==
    \/ \E u \in Uploads : Active(u) /\ upload[u].file = f
    \/ \E s \in Sources : attach[s].file = f

Fault == faults < MaxFaults /\ faults' = faults + 1

(* Mutant: equal digests count as equal bodies. *)
IdenticalByDigest(key, except) ==
    {f \in Files \ except :
       /\ Exists(f)
       /\ file[f].hashed
       /\ object[file[f].key] # None
       /\ object[key] # None
       /\ Digest[object[file[f].key]] = Digest[object[key]]}

(* findIdenticalCandidate: both objects are there and hold the same bytes. *)
Identical(key, except) ==
    {f \in Files \ except :
       /\ Exists(f)
       /\ file[f].hashed
       /\ object[file[f].key] # None
       /\ object[file[f].key] = object[key]}

(* Some file has the dedupe key md5:size of a body. *)
BaseTaken(c) ==
    \E f \in Files : Exists(f) /\ file[f].base /\ Digest[file[f].bytes] = Digest[c]

(* object_key is UNIQUE. *)
KeyTaken(s) == \E f \in Files : Exists(f) /\ file[f].key = s

-----------------------------------------------------------------------------
(* Uploads and inbound mails *)

(* create *)
CreateUpload(u, c) ==
    /\ upload[u].status = None
    /\ upload' = [upload EXCEPT ![u].status = "pending", ![u].content = c]
    /\ UNCHANGED <<file, object, attach, request, closing, removing, collect,
                   drop, backfill, leaked, faults>>

(* uploadContent: a token that has not expired, a pending row without a file.*)
BeginPut(q) ==
    LET u == Source[q] IN
    /\ u \in Uploads
    /\ request[q] = Idle
    /\ upload[u].status = "pending"
    /\ upload[u].file = None
    /\ ~upload[u].due
    /\ Impatient \/ (~Began(u) /\ \A x \in closing : x.upload # u)
    /\ request' = [request EXCEPT ![q] =
                     [pc |-> "put", content |-> upload[u].content, target |-> None]]
    /\ UNCHANGED <<upload, file, object, attach, closing, removing, collect,
                   drop, backfill, leaked, faults>>

(* An inbound mail that has passed its gates; its key is fresh. *)
BeginInbound(q) ==
    /\ Source[q] \in Mails
    /\ request[q] = Idle
    /\ ~Began(Source[q])
    /\ request' = [request EXCEPT ![q] =
                     [pc |-> "put", content |-> Body[Source[q]],
                      target |-> None]]
    /\ UNCHANGED <<upload, file, object, attach, closing, removing, collect,
                   drop, backfill, leaked, faults>>

(* attachmentStore.put *)
PutObject(q) ==
    /\ At(q, "put")
    /\ object' = [object EXCEPT ![Source[q]] = request[q].content]
    /\ Goto(q, "find")
    /\ UNCHANGED <<upload, file, attach, closing, removing, collect, drop,
                   backfill, leaked, faults>>

(* registerStoredFile: reuse a file with the same bytes ... *)
FindIdentical(q) ==
    /\ At(q, "find")
    /\ \E f \in Identical(Source[q], {}) :
         request' = [request EXCEPT ![q].target = f, ![q].pc = "drop"]
    /\ UNCHANGED <<upload, file, object, attach, closing, removing, collect,
                   drop, backfill, leaked, faults>>

FindNone(q) ==
    /\ At(q, "find")
    /\ Identical(Source[q], {}) = {}
    /\ Goto(q, "insert")
    /\ UNCHANGED <<upload, file, object, attach, closing, removing, collect,
                   drop, backfill, leaked, faults>>

(* ... and delete the object just stored, unless it is the file's own. *)
DropOwn(q) ==
    /\ At(q, "drop")
    /\ object' = IF file[Target(q)].key = Source[q]
                 THEN object
                 ELSE [object EXCEPT ![Source[q]] = None]
    /\ Goto(q, "link")
    /\ UNCHANGED <<upload, file, attach, closing, removing, collect, drop,
                   backfill, leaked, faults>>

NewFile(q, base) ==
    [ key |-> Source[q], bytes |-> request[q].content, hashed |-> TRUE, base |-> base ]

(* Insert under the plain dedupe key ... *)
InsertFile(q) ==
    /\ At(q, "insert")
    /\ IF BaseTaken(request[q].content) \/ KeyTaken(Source[q])
       THEN Goto(q, "refind") /\ UNCHANGED file
       ELSE /\ file' = [file EXCEPT ![q] = NewFile(q, TRUE)]
            /\ request' = [request EXCEPT ![q].target = q, ![q].pc = "link"]
    /\ UNCHANGED <<upload, object, attach, closing, removing, collect, drop,
                   backfill, leaked, faults>>

(* ... which was taken: by a file with the same bytes, ... *)
Refind(q) ==
    /\ At(q, "refind")
    /\ LET raced == Identical(Source[q], {}) IN
         IF raced = {}
         THEN Goto(q, "suffix")
         ELSE \E f \in raced :
                request' = [request EXCEPT ![q].target = f, ![q].pc = "raced"]
    /\ UNCHANGED <<upload, file, object, attach, closing, removing, collect,
                   drop, backfill, leaked, faults>>

(* (the object just stored goes, whosever it is) *)
DropRaced(q) ==
    /\ At(q, "raced")
    /\ object' = [object EXCEPT ![Source[q]] = None]
    /\ Goto(q, "link")
    /\ UNCHANGED <<upload, file, attach, closing, removing, collect, drop,
                   backfill, leaked, faults>>

(* ... or by one with the same digest only: the id is appended. *)
InsertSuffixed(q) ==
    /\ At(q, "suffix")
    /\ IF KeyTaken(Source[q])
       THEN Leave(q) /\ UNCHANGED file
       ELSE /\ file' = [file EXCEPT ![q] = NewFile(q, FALSE)]
            /\ request' = [request EXCEPT ![q].target = q, ![q].pc = "link"]
    /\ UNCHANGED <<upload, object, attach, closing, removing, collect, drop,
                   backfill, leaked, faults>>

(* The upload takes its file.  A file that is gone meanwhile breaks the     *)
(* foreign key; an upload that is, has its file collected.                   *)
LinkUpload(q) ==
    LET u == Source[q]
        open == upload[u].status = "pending" /\ upload[u].file = None
    IN
    /\ At(q, "link")
    /\ u \in Uploads
    /\ upload' = IF open /\ Exists(Target(q))
                 THEN [upload EXCEPT ![u].file = Target(q)]
                 ELSE upload
    /\ collect' = IF open THEN collect ELSE collect \cup {Target(q)}
    /\ Leave(q)
    /\ UNCHANGED <<file, object, attach, closing, removing, drop, backfill,
                   leaked, faults>>

(* The batch of an inbound mail; if it fails, its files are collected. *)
LinkInbound(q) ==
    LET f == Target(q) IN
    /\ At(q, "link")
    /\ Source[q] \in Mails
    /\ IF Exists(f)
       THEN /\ attach' = [attach EXCEPT ![Source[q]] =
                            [file |-> f, content |-> request[q].content]]
            /\ UNCHANGED collect
       ELSE collect' = collect \cup {f} /\ UNCHANGED attach
    /\ Leave(q)
    /\ UNCHANGED <<upload, file, object, closing, removing, drop, backfill,
                   leaked, faults>>

(* Mutant: completed by the client's word. *)
CompleteUnchecked(u) ==
    /\ upload[u].status = "pending"
    /\ ~upload[u].due
    /\ upload' = [upload EXCEPT ![u].status = "uploaded"]
    /\ UNCHANGED <<file, object, attach, request, closing, removing, collect,
                   drop, backfill, leaked, faults>>

(* complete *)
Complete(u) ==
    /\ upload[u].status = "pending"
    /\ upload[u].file # None
    /\ object[file[upload[u].file].key] # None
    /\ ~upload[u].due
    /\ upload' = [upload EXCEPT ![u].status = "uploaded"]
    /\ UNCHANGED <<file, object, attach, request, closing, removing, collect,
                   drop, backfill, leaked, faults>>

(* A message or draft is saved with the upload. *)
Consume(u) ==
    /\ upload[u].status = "uploaded"
    /\ ~upload[u].due
    /\ attach' = [attach EXCEPT ![u] =
                    [file |-> upload[u].file, content |-> upload[u].content]]
    /\ upload' = [upload EXCEPT ![u].status = "consumed"]
    /\ UNCHANGED <<file, object, request, closing, removing, collect, drop,
                   backfill, leaked, faults>>

-----------------------------------------------------------------------------
(* Removal of references *)

(* cancel and cleanupExpiredUploads read the row (the latter when its time   *)
(* has passed; it may have done so earlier, which only refuses requests) ... *)
CancelRead(u) ==
    /\ upload[u].status \in {"pending", "uploaded", "expired"}
    /\ Impatient \/ ~InFlight(u)
    /\ closing' = closing \cup {[upload |-> u, how |-> "cancel", file |-> upload[u].file]}
    /\ UNCHANGED <<upload, file, object, attach, request, removing, collect,
                   drop, backfill, leaked, faults>>

ExpireRead(u) ==
    /\ Active(u)
    /\ Impatient \/ ~InFlight(u)
    /\ upload' = [upload EXCEPT ![u].due = TRUE]
    /\ closing' = closing \cup {[upload |-> u, how |-> "expire", file |-> upload[u].file]}
    /\ UNCHANGED <<file, object, attach, request, removing, collect, drop,
                   backfill, leaked, faults>>

(* ... close it, and go by the file that was read before. *)
Close(x) ==
    LET u == x.upload
        closes == Active(u) \/ (x.how = "cancel" /\ upload[u].status = "expired")
    IN
    /\ x \in closing
    /\ closing' = closing \ {x}
    /\ upload' = IF ~closes THEN upload
                 ELSE [upload EXCEPT ![u].status =
                         IF x.how = "cancel" THEN "deleted" ELSE "expired"]
    /\ collect' = IF closes /\ x.file # None THEN collect \cup {x.file} ELSE collect
    /\ drop' = IF closes /\ x.file = None THEN drop \cup {u} ELSE drop
    /\ UNCHANGED <<file, object, attach, request, removing, backfill, leaked, faults>>

(* A draft is deleted, or loses its attachment: the rows are read, deleted,  *)
(* and their files collected.                                                *)
RemoveRead(s) ==
    /\ s \notin Mails
    /\ attach[s] # NoAttach
    /\ removing[s] = None
    /\ removing' = [removing EXCEPT ![s] = attach[s].file]
    /\ UNCHANGED <<upload, file, object, attach, request, closing, collect,
                   drop, backfill, leaked, faults>>

Remove(s) ==
    /\ removing[s] # None
    /\ attach' = [attach EXCEPT ![s] = NoAttach]
    /\ collect' = collect \cup {removing[s]}
    /\ removing' = [removing EXCEPT ![s] = None]
    /\ UNCHANGED <<upload, file, object, request, closing, drop, backfill,
                   leaked, faults>>

-----------------------------------------------------------------------------
(* Removal of files and objects *)

(* Mutant: an upload keeps its file whatever its status. *)
CollectUnlessNamed(f) ==
    LET gone == Exists(f) /\ ~Referenced(f) /\ \A u \in Uploads : upload[u].file # f IN
    /\ f \in collect
    /\ collect' = collect \ {f}
    /\ file' = IF gone THEN [file EXCEPT ![f] = NoFile] ELSE file
    /\ drop' = IF gone THEN drop \cup {file[f].key} ELSE drop
    /\ UNCHANGED <<upload, object, attach, request, closing, removing, backfill,
                   leaked, faults>>

(* deleteAttachmentFileIfUnreferenced; consumed and expired uploads lose     *)
(* their file_id (ON DELETE SET NULL).                                       *)
Collect(f) ==
    LET gone == Exists(f) /\ ~Referenced(f) IN
    /\ f \in collect
    /\ collect' = collect \ {f}
    /\ file' = IF gone THEN [file EXCEPT ![f] = NoFile] ELSE file
    /\ drop' = IF gone THEN drop \cup {file[f].key} ELSE drop
    /\ upload' = IF gone
                 THEN [u \in Uploads |-> IF upload[u].file = f
                                         THEN [upload[u] EXCEPT !.file = None]
                                         ELSE upload[u]]
                 ELSE upload
    /\ UNCHANGED <<object, attach, request, closing, removing, backfill, leaked, faults>>

DropObject(s) ==
    /\ s \in drop
    /\ drop' = drop \ {s}
    /\ object' = [object EXCEPT ![s] = None]
    /\ UNCHANGED <<upload, file, attach, request, closing, removing, collect,
                   backfill, leaked, faults>>

-----------------------------------------------------------------------------
(* backfillAttachmentFileMd5 *)

BackfillFind(l) ==
    /\ backfill[l] = NotRunning
    /\ Exists(l)
    /\ ~file[l].hashed
    /\ object[l] # None
    /\ LET same == Identical(l, {l}) IN
         IF same = {}
         THEN backfill' = [backfill EXCEPT ![l] = [pc |-> "stamp", target |-> None]]
         ELSE \E f \in same :
                backfill' = [backfill EXCEPT ![l] = [pc |-> "merge", target |-> f]]
    /\ UNCHANGED <<upload, file, object, attach, request, closing, removing,
                   collect, drop, leaked, faults>>

(* Its references move to the identical file, and it goes.  If that file is  *)
(* gone, the foreign key fails and the job is run again.                     *)
BackfillMerge(l) ==
    LET f == backfill[l].target
        moved == \E s \in Sources : attach[s].file = l
        held == \E s \in Sources : removing[s] = l
    IN
    /\ backfill[l].pc = "merge"
    /\ backfill' = [backfill EXCEPT ![l] = NotRunning]
    /\ IF Exists(f)
       THEN /\ attach' = [s \in Sources |-> IF attach[s].file = l
                                            THEN [attach[s] EXCEPT !.file = f]
                                            ELSE attach[s]]
            /\ file' = [file EXCEPT ![l] = NoFile]
            /\ drop' = drop \cup {l}
            /\ leaked' = IF moved /\ held THEN leaked \cup {f} ELSE leaked
       ELSE UNCHANGED <<attach, file, drop, leaked>>
    /\ UNCHANGED <<upload, object, request, closing, removing, collect, faults>>

(* It gets its digest, and the plain dedupe key unless that is taken. *)
BackfillStamp(l) ==
    /\ backfill[l].pc = "stamp"
    /\ backfill' = [backfill EXCEPT ![l] = NotRunning]
    /\ file' = IF Exists(l)
               THEN [file EXCEPT ![l].hashed = TRUE,
                                 ![l].base = ~BaseTaken(file[l].bytes)]
               ELSE file
    /\ UNCHANGED <<upload, object, attach, request, closing, removing, collect,
                   drop, leaked, faults>>

-----------------------------------------------------------------------------
(* Faults *)

(* A request ends where it stands. *)
Crash(q) ==
    /\ Running(q)
    /\ CrashBeforeLink \/ ~(At(q, "link") /\ Target(q) = q /\ Source[q] \in Uploads)
    /\ Fault
    /\ Leave(q)
    /\ UNCHANGED <<upload, file, object, attach, closing, removing, collect,
                   drop, backfill, leaked>>

(* So does one that was about to collect files, or to delete an object. *)
CollectLost(f) ==
    /\ f \in collect
    /\ Fault
    /\ collect' = collect \ {f}
    /\ UNCHANGED <<upload, file, object, attach, request, closing, removing,
                   drop, backfill, leaked>>

DropLost(s) ==
    /\ s \in drop
    /\ Fault
    /\ drop' = drop \ {s}
    /\ UNCHANGED <<upload, file, object, attach, request, closing, removing,
                   collect, backfill, leaked>>

-----------------------------------------------------------------------------
Init ==
    /\ upload = [u \in Uploads |-> [status |-> None, file |-> None,
                                    due |-> FALSE, content |-> None]]
    /\ object = [s \in Sources |-> IF s \in Legacy THEN Body[s] ELSE None]
    /\ file = [f \in Files |->
                 IF f \in Legacy
                 THEN [key |-> f, bytes |-> object[f], hashed |-> FALSE, base |-> FALSE]
                 ELSE NoFile]
    /\ attach = [s \in Sources |->
                   IF s \in Legacy THEN [file |-> s, content |-> object[s]]
                                   ELSE NoAttach]
    /\ request = [q \in Requests |-> Idle]
    /\ closing = {}
    /\ removing = [s \in Sources |-> None]
    /\ collect = {}
    /\ drop = {}
    /\ backfill = [l \in Legacy |-> NotRunning]
    /\ leaked = {}
    /\ faults = 0

Store(q) ==
    \/ PutObject(q) \/ FindIdentical(q) \/ FindNone(q) \/ DropOwn(q)
    \/ InsertFile(q) \/ Refind(q) \/ DropRaced(q) \/ InsertSuffixed(q)
    \/ LinkUpload(q) \/ LinkInbound(q)

CloseAny == \E x \in closing : Close(x)

Next ==
    \/ \E q \in Requests :
         \/ BeginPut(q) \/ BeginInbound(q) \/ Store(q) \/ Crash(q)
    \/ \E u \in Uploads :
         \/ \E c \in Contents : CreateUpload(u, c)
         \/ Complete(u) \/ Consume(u)
         \/ CancelRead(u) \/ ExpireRead(u)
    \/ CloseAny
    \/ \E s \in Sources : RemoveRead(s) \/ Remove(s) \/ DropObject(s)
                          \/ DropLost(s)
    \/ \E f \in Files : Collect(f) \/ CollectLost(f)
    \/ \E l \in Legacy : BackfillFind(l) \/ BackfillMerge(l) \/ BackfillStamp(l)

Spec == Init /\ [][Next]_vars

(* A request and a deletion that have begun go on; expiry runs every hour. *)
Fairness ==
    /\ \A q \in Requests : WF_vars(Store(q))
    /\ \A u \in Uploads : WF_vars(ExpireRead(u))
    /\ WF_vars(CloseAny)
    /\ \A s \in Sources : WF_vars(Remove(s)) /\ WF_vars(DropObject(s))
    /\ \A f \in Files : WF_vars(Collect(f))
    /\ \A l \in Legacy : WF_vars(BackfillMerge(l)) /\ WF_vars(BackfillStamp(l))

FairSpec == Spec /\ Fairness

-----------------------------------------------------------------------------
(* Properties *)

(* A file that an active upload or a message refers to exists, and the store *)
(* holds the very bytes that were uploaded or received, whatever was reused, *)
(* cancelled, expired or merged meanwhile.                                   *)
ReferencedBytesStay ==
    /\ \A u \in Uploads :
         Active(u) /\ upload[u].file # None =>
           /\ Exists(upload[u].file)
           /\ object[file[upload[u].file].key] = upload[u].content
    /\ \A s \in Sources :
         attach[s] # NoAttach =>
           /\ Exists(attach[s].file)
           /\ object[file[attach[s].file].key] = attach[s].content

(* A file that nothing refers to any more is removed, unless a fault lost the*)
(* removal or a backfill moved the last reference out of its sight.          *)
UnreferencedFilesGo ==
    \A f \in Files :
        (Exists(f) /\ ~Referenced(f))
          ~> (~Exists(f) \/ Referenced(f) \/ f \in leaked \/ faults > 0)

=============================================================================
