------------------------------ MODULE Compose ------------------------------
(* The composer of the web application (ComposePanel.tsx): what the form     *)
(* shows, the working copies it keeps in IndexedDB (drafts-db.ts), and the   *)
(* requests by which it saves, sends, schedules and unschedules a draft.     *)
(* Drafts on the server follow the contract of the module DraftSchedule:     *)
(* each change gives a draft a new version, and a request that names another *)
(* version changes nothing.                                                  *)
(*                                                                           *)
(* A text stands for the whole form (recipients, subject, body).  Texts are  *)
(* numbered as they are typed, 0 is the blank form.  Replies, attachments    *)
(* and a second mailbox are left out.                                        *)
EXTENDS Naturals, Sequences, FiniteSets, SequencesExt

CONSTANTS
    Tabs,       \* tabs of one browser: they share the IndexedDB
    Drafts,     \* drafts the server may hold
    Saved,      \* the drafts it holds at first
    Ops,        \* clicks on Save, Send, Schedule or Cancel
    Kinds,      \* the buttons a user may press
    MaxOpens,   \* bound: how often something is opened in the composer
    MaxEdits,   \* bound: how many texts are typed
    MaxLost,    \* bound: requests or answers that are lost
    Null        \* no draft, no operation

ASSUME SavedAssumption ==
    Saved \subseteq Drafts /\ IsFiniteSet(Saved) /\ Cardinality(Saved) <= MaxEdits
ASSUME KindsAssumption == Kinds \subseteq {"save", "send", "schedule", "cancel"}
ASSUME NullAssumption == Null \notin Drafts
ASSUME BoundsAssumption == {MaxOpens, MaxEdits, MaxLost} \subseteq Nat

VARIABLES
    draft,      \* drafts on the server, with their outbound job
    panel,      \* the composer of each tab
    copies,     \* draftsDb.workingDrafts, the latest `updatedAt` last
    op,         \* clicks under way; each is an async function of the panel
    opens,      \* how often the user has opened something to compose
    edits,      \* how many texts were typed
    stamps,     \* how many versions the server has given out
    mails,      \* history: how often the provider was given a text
    lost,       \* how many requests or answers were lost
    doubts      \* history: the properties excused by what has happened

composeVars == <<draft, panel, copies, op, opens, edits, stamps, mails, lost, doubts>>

Texts == 0 .. MaxEdits
WorkIds == 1 .. MaxOpens
Versions == Nat

(* What an event excuses: WorkingCopiesAdvance or ServerGetsTheForm.         *)
Doubts == {"copy", "save"}

DraftRows == [status : {"none", "draft", "sent"}, text : Texts,
              version : Versions, scheduled : BOOLEAN]
NoDraft == [status |-> "none", text |-> 0, version |-> 0, scheduled |-> FALSE]

(* `shown` is scheduled_at of the draft query's last answer; version 0       *)
(* stands for undefined.  `base` and `about` are history: the text the       *)
(* server held when the panel last loaded or saved its draft, and the draft  *)
(* the form was written for.                                                 *)
Panels == [open : BOOLEAN, mount : 0 .. MaxOpens, intent : Drafts \cup {Null},
           shown : BOOLEAN, draftId : Drafts \cup {Null}, version : Versions,
           text : Texts, work : 0 .. MaxOpens, recovered : BOOLEAN,
           restored : BOOLEAN, hydrated : Drafts \cup {Null}, timer : BOOLEAN,
           base : Texts, about : Drafts \cup {Null}]
ClosedPanel == [open |-> FALSE, mount |-> 0, intent |-> Null, shown |-> FALSE,
                draftId |-> Null, version |-> 0, text |-> 0, work |-> 0,
                recovered |-> FALSE, restored |-> FALSE, hydrated |-> Null,
                timer |-> FALSE, base |-> 0, about |-> Null]

CopyRows == [id : WorkIds, draftId : Drafts \cup {Null}, text : Texts]
Stages == {"idle", "persist", "persisted", "deliver", "delivered", "closing",
           "done"}
OpRows == [stage : Stages \ {"idle", "done"}, kind : Kinds, tab : Tabs, mount : WorkIds,
           draftId : Drafts \cup {Null}, version : Versions, text : Texts,
           work : WorkIds, ok : BOOLEAN, base : Texts,
           about : Drafts \cup {Null}]
IdleOp == [stage |-> "idle"]
DoneOp == [stage |-> "done"]
Settled(o) == [op EXCEPT ![o] = DoneOp]
Active(o) == op[o].stage \notin {"idle", "done"}

-----------------------------------------------------------------------------
(* Working copies: put, update and delete of the table, one transaction each. *)
At(id) == {i \in DOMAIN copies : copies[i].id = id}
Without(id) == IF At(id) = {} THEN copies
                              ELSE RemoveAt(copies, CHOOSE i \in At(id) : TRUE)
(* Mutant: the row is added beside the former one. *)
PutBeside(id, d, t) == Append(copies, [id |-> id, draftId |-> d, text |-> t])
Put(id, d, t) == Append(Without(id), [id |-> id, draftId |-> d, text |-> t])
Link(id, d) == [i \in DOMAIN copies |->
                  IF copies[i].id = id THEN [copies[i] EXCEPT !.draftId = d]
                                       ELSE copies[i]]

(* A panel is mounted with a working id of its own.  Its draft, if it was    *)
(* opened for one, makes the recovery of a working copy unnecessary.         *)
Mount(t, d) ==
    panel' = [panel EXCEPT ![t] =
        [ClosedPanel EXCEPT !.open = TRUE, !.mount = opens + 1, !.intent = d,
             !.draftId = d, !.work = opens + 1, !.recovered = d # Null,
             !.timer = d # Null, !.about = d]]

Open(t, d) ==
    /\ ~panel[t].open
    /\ opens < MaxOpens
    /\ d # Null => draft[d].status = "draft"
    /\ Mount(t, d)
    /\ opens' = opens + 1
    /\ UNCHANGED <<draft, copies, op, edits, stamps, mails, lost, doubts>>

(* Another draft, or a new message, is chosen while the composer is open:    *)
(* the component stays mounted, only its `intent` changes.                   *)
Switch(t, d) ==
    /\ panel[t].open
    /\ panel[t].intent # d
    /\ d # Null => draft[d].status = "draft"
    /\ opens < MaxOpens
    /\ opens' = opens + 1
    /\ panel' = [panel EXCEPT ![t].intent = d, ![t].shown = FALSE]
    /\ UNCHANGED <<draft, copies, op, edits, stamps, mails, lost, doubts>>

(* A text that arrives may replace what was typed, and while a request of    *)
(* the panel is under way.                                                   *)
Filling(t) ==
    (IF panel[t].text # 0 THEN {"copy"} ELSE {}) \cup
    (IF \E o \in Ops : Active(o) /\ op[o].tab = t THEN {"save"} ELSE {})

(* Mutant: the version follows every answer. *)
FetchVersion(t) ==
    LET p == panel[t]
        d == p.intent
        seen == [p EXCEPT !.shown = draft[d].scheduled,
                          !.version = draft[d].version]
    IN
    /\ p.open
    /\ d # Null
    /\ draft[d].status = "draft"
    /\ panel' = [panel EXCEPT ![t] =
          IF p.hydrated = d THEN seen
          ELSE [seen EXCEPT !.text = draft[d].text, !.draftId = d,
                   !.hydrated = d, !.timer = TRUE,
                   !.base = draft[d].text, !.about = d]]
    /\ doubts' = doubts \cup (IF p.hydrated = d THEN {} ELSE Filling(t))
    /\ UNCHANGED <<draft, copies, op, opens, edits, stamps, mails, lost>>

(* The draft query answers, at first or again (focus, invalidation).  The    *)
(* first answer for a draft fills the form and gives its version: the effect *)
(* runs with the render that shows it, before the next click, so that        *)
(* `draftVersion ?? draft.data?.updated_at` is draftVersion.  Later answers   *)
(* leave form and version alone.                                             *)
Fetch(t) ==
    LET p == panel[t]
        d == p.intent
        seen == [p EXCEPT !.shown = draft[d].scheduled]
    IN
    /\ p.open
    /\ d # Null
    /\ draft[d].status = "draft"
    /\ panel' = [panel EXCEPT ![t] =
          IF p.hydrated = d THEN seen
          ELSE [seen EXCEPT !.text = draft[d].text, !.draftId = d,
                   !.version = draft[d].version, !.hydrated = d, !.timer = TRUE,
                   !.base = draft[d].text, !.about = d]]
    /\ doubts' = doubts \cup (IF p.hydrated = d THEN {} ELSE Filling(t))
    /\ UNCHANGED <<draft, copies, op, opens, edits, stamps, mails, lost>>

(* A new message starts from the latest working copy, if there is one.       *)
Recover(t) ==
    LET p == panel[t] IN
    /\ p.open
    /\ p.intent = Null
    /\ ~p.restored
    /\ IF copies = <<>>
       THEN /\ panel' = [panel EXCEPT ![t].restored = TRUE,
                            ![t].recovered = TRUE, ![t].timer = TRUE]
            /\ doubts' = doubts
       ELSE LET c == Last(copies) IN
            /\ panel' = [panel EXCEPT ![t] =
                  [p EXCEPT !.restored = TRUE, !.recovered = TRUE,
                       !.timer = TRUE, !.text = c.text, !.draftId = c.draftId,
                       !.work = c.id, !.about = c.draftId]]
            /\ doubts' = doubts \cup Filling(t) \cup
                  (IF \E s \in Tabs \ {t} : panel[s].open /\ panel[s].work = c.id
                   THEN {"copy"} ELSE {})
    /\ UNCHANGED <<draft, copies, op, opens, edits, stamps, mails, lost>>

(* The form is not locked while a request runs.                              *)
Sending(t) == \E o \in Ops : Active(o) /\ op[o].tab = t /\ op[o].kind = "send"
Type(t) ==
    /\ panel[t].open
    /\ edits < MaxEdits
    /\ edits' = edits + 1
    /\ panel' = [panel EXCEPT ![t].text = edits', ![t].timer = TRUE]
    /\ doubts' = doubts \cup (IF Sending(t) THEN {"copy"} ELSE {})
    /\ UNCHANGED <<draft, copies, op, opens, stamps, mails, lost>>

(* 400 ms after the last change, once recovery is over.                      *)
Autosave(t) ==
    LET p == panel[t] IN
    /\ p.open
    /\ p.timer
    /\ p.recovered
    /\ panel' = [panel EXCEPT ![t].timer = FALSE]
    /\ copies' = Put(p.work, p.draftId, p.text)
    /\ doubts' = doubts \cup (IF \E o \in Ops : op[o].stage = "closing"
                                                 /\ op[o].tab = t
                              THEN {"copy"} ELSE {})
    /\ UNCHANGED <<draft, op, opens, edits, stamps, mails, lost>>

(* The user closes the composer; a pending timer is cleared, requests go on. *)
Close(t) ==
    /\ panel[t].open
    /\ panel' = [panel EXCEPT ![t] = ClosedPanel]
    /\ doubts' = doubts \cup
          (IF \E o \in Ops : Active(o) /\ op[o].tab = t THEN {"copy"} ELSE {})
    /\ UNCHANGED <<draft, copies, op, opens, edits, stamps, mails, lost>>

-----------------------------------------------------------------------------
(* isBusy: a mutation of this mounted panel is pending.  The save that comes *)
(* before a schedule is not part of a mutation.                              *)
Mine(o, t) == Active(o) /\ op[o].tab = t /\ op[o].mount = panel[t].mount
Busy(t) ==
    \E o \in Ops :
        /\ Mine(o, t)
        /\ op[o].kind = "schedule" => op[o].stage \in {"deliver", "delivered"}

(* A click, with the values of the last render.  A message that was never    *)
(* saved is sent by one request; any other click but Cancel saves first.     *)
FirstStage(p, kind) ==
    IF kind = "cancel" \/ (kind = "send" /\ p.draftId = Null) THEN "deliver"
                                                              ELSE "persist"
Click(o, t, kind) ==
    LET p == panel[t] IN
    /\ op[o].stage = "idle"
    /\ p.open
    /\ ~Busy(t)
    /\ kind = "send" => p.text # 0
    /\ kind = "cancel" => p.draftId # Null /\ p.shown
    /\ op' = [op EXCEPT ![o] =
          [stage |-> FirstStage(p, kind), kind |-> kind, tab |-> t,
           mount |-> p.mount, draftId |-> p.draftId,
           version |-> p.version, text |-> p.text, work |-> p.work,
           ok |-> FALSE, base |-> p.base, about |-> p.about]]
    /\ UNCHANGED <<draft, panel, copies, opens, edits, stamps, mails, lost, doubts>>

(* The server's side of a request: it holds iff the draft is still a draft   *)
(* of the named version.                                                     *)
Matches(o) ==
    LET d == op[o].draftId IN
    d # Null /\ draft[d].status = "draft" /\ draft[d].version = op[o].version

Reply(o, stage, d, ok) ==
    op' = [op EXCEPT ![o] =
        [op[o] EXCEPT !.stage = stage, !.draftId = d, !.ok = ok,
             !.version = IF ok THEN stamps' ELSE op[o].version,
             !.base = 0, !.about = Null]]

ServeCreate(o, d) ==
    /\ op[o].stage = "persist"
    /\ op[o].draftId = Null
    /\ draft[d].status = "none"
    /\ stamps' = stamps + 1
    /\ draft' = [draft EXCEPT ![d] =
          [status |-> "draft", text |-> op[o].text, version |-> stamps',
           scheduled |-> FALSE]]
    /\ Reply(o, "persisted", d, TRUE)
    /\ UNCHANGED <<panel, copies, opens, edits, mails, lost, doubts>>

ServeUpdate(o) ==
    LET d == op[o].draftId IN
    /\ op[o].stage = "persist"
    /\ Matches(o)
    /\ stamps' = stamps + 1
    /\ draft' = [draft EXCEPT ![d].text = op[o].text, ![d].version = stamps']
    /\ Reply(o, "persisted", d, TRUE)
    /\ UNCHANGED <<panel, copies, opens, edits, mails, lost, doubts>>

Refuse(o, stage, next) ==
    /\ op[o].stage = stage
    /\ op[o].draftId # Null
    /\ ~Matches(o) \/ (op[o].kind = "send" /\ draft[op[o].draftId].scheduled
                                           /\ stage = "deliver")
    /\ stamps' = stamps
    /\ Reply(o, next, op[o].draftId, FALSE)
    /\ UNCHANGED <<draft, panel, copies, opens, edits, mails, lost, doubts>>

(* POST /messages of a message that was never saved.                         *)
ServeMessage(o) ==
    /\ op[o].stage = "deliver"
    /\ op[o].kind = "send"
    /\ op[o].draftId = Null
    /\ mails' = [mails EXCEPT ![op[o].text] = @ + 1]
    /\ op' = [op EXCEPT ![o].stage = "delivered", ![o].ok = TRUE]
    /\ UNCHANGED <<draft, panel, copies, opens, edits, stamps, lost, doubts>>

(* POST /drafts/:id/send                                                     *)
ServeSend(o) ==
    LET d == op[o].draftId IN
    /\ op[o].stage = "deliver"
    /\ op[o].kind = "send"
    /\ Matches(o)
    /\ ~draft[d].scheduled
    /\ draft' = [draft EXCEPT ![d].status = "sent"]
    /\ mails' = [mails EXCEPT ![draft[d].text] = @ + 1]
    /\ op' = [op EXCEPT ![o].stage = "delivered", ![o].ok = TRUE]
    /\ UNCHANGED <<panel, copies, opens, edits, stamps, lost, doubts>>

(* POST /drafts/:id/schedule, DELETE /drafts/:id/schedule                    *)
ServeSchedule(o) ==
    /\ op[o].stage = "deliver"
    /\ op[o].kind \in {"schedule", "cancel"}
    /\ Matches(o)
    /\ stamps' = stamps + 1
    /\ draft' = [draft EXCEPT ![op[o].draftId].version = stamps',
                     ![op[o].draftId].scheduled = op[o].kind = "schedule"]
    /\ Reply(o, "delivered", op[o].draftId, TRUE)
    /\ UNCHANGED <<panel, copies, opens, edits, mails, lost, doubts>>

(* The pipeline sends a scheduled draft when it is due.                      *)
Deliver(d) ==
    /\ draft[d].status = "draft"
    /\ draft[d].scheduled
    /\ draft' = [draft EXCEPT ![d].status = "sent"]
    /\ mails' = [mails EXCEPT ![draft[d].text] = @ + 1]
    /\ UNCHANGED <<panel, copies, op, opens, edits, stamps, lost, doubts>>

-----------------------------------------------------------------------------
(* persistDraft resumes: the panel learns id and version if it is still      *)
(* mounted, the working copy is linked in any case, and Send and Schedule go *)
(* on with what the server answered.                                         *)
Mounted(o) == panel[op[o].tab].open /\ panel[op[o].tab].mount = op[o].mount
Learn(o) ==
    LET p == panel[op[o].tab] IN
    IF Mounted(o)
    THEN [panel EXCEPT ![op[o].tab] =
            [p EXCEPT !.draftId = op[o].draftId, !.version = op[o].version,
                 !.timer = p.timer \/ p.draftId # op[o].draftId,
                 !.base = op[o].text,
                 !.about = IF p.about = Null THEN op[o].draftId ELSE p.about]]
    ELSE panel

(* Save, pressed while Schedule creates the draft of a new message, creates  *)
(* another one: isBusy does not see the persistDraft of scheduleDraft.       *)
Second(o) == Mounted(o) /\ panel[op[o].tab].draftId \notin {Null, op[o].draftId}

(* The mutation's callbacks are those of the last render.                    *)
WorkOf(o) == IF Mounted(o) THEN panel[op[o].tab].work ELSE op[o].work

AnswerPersist(o) ==
    /\ op[o].stage = "persisted"
    /\ op[o].ok
    /\ panel' = Learn(o)
    /\ copies' = Link(op[o].work, op[o].draftId)
    /\ op' = IF op[o].kind = "save" THEN Settled(o)
             ELSE [op EXCEPT ![o].stage = "deliver", ![o].ok = FALSE]
    /\ doubts' = doubts \cup (IF Second(o) THEN {"save"} ELSE {})
    /\ UNCHANGED <<draft, opens, edits, stamps, mails, lost>>

(* Mutant: the working copy is removed whatever the answer. *)
AnswerRefusedForgetting(o) ==
    /\ op[o].stage \in {"persisted", "delivered"}
    /\ ~op[o].ok
    /\ op' = Settled(o)
    /\ copies' = Without(WorkOf(o))
    /\ UNCHANGED <<draft, panel, opens, edits, stamps, mails, lost, doubts>>

AnswerRefused(o) ==
    /\ op[o].stage \in {"persisted", "delivered"}
    /\ ~op[o].ok
    /\ op' = Settled(o)
    /\ UNCHANGED <<draft, panel, copies, opens, edits, stamps, mails, lost, doubts>>

(* onSuccess of Send: the working copy is deleted, and the composer closes   *)
(* when the lists have been fetched again -- whichever composer is open.     *)
AnswerSend(o) ==
    /\ op[o].stage = "delivered"
    /\ op[o].ok
    /\ op[o].kind = "send"
    /\ copies' = Without(WorkOf(o))
    /\ op' = [op EXCEPT ![o].stage = "closing"]
    /\ UNCHANGED <<draft, panel, opens, edits, stamps, mails, lost, doubts>>

CloseAfterSend(o) ==
    /\ op[o].stage = "closing"
    /\ op' = Settled(o)
    /\ panel' = [panel EXCEPT ![op[o].tab] = ClosedPanel]
    /\ UNCHANGED <<draft, copies, opens, edits, stamps, mails, lost, doubts>>

AnswerSchedule(o) ==
    /\ op[o].stage = "delivered"
    /\ op[o].ok
    /\ op[o].kind \in {"schedule", "cancel"}
    /\ panel' = IF Mounted(o)
                THEN [panel EXCEPT ![op[o].tab].version = op[o].version]
                ELSE panel
    /\ op' = Settled(o)
    /\ UNCHANGED <<draft, copies, opens, edits, stamps, mails, lost, doubts>>

(* The request or its answer is lost; the mutation fails.                    *)
Lose(o) ==
    /\ op[o].stage \in {"persist", "persisted", "deliver", "delivered"}
    /\ lost < MaxLost
    /\ lost' = lost + 1
    /\ op' = Settled(o)
    /\ UNCHANGED <<draft, panel, copies, opens, edits, stamps, mails, doubts>>

-----------------------------------------------------------------------------
(* Each saved draft has a text of its own.                                   *)
ComposeInit ==
    /\ edits = Cardinality(Saved)
    /\ stamps = Cardinality(Saved)
    /\ \E number \in [Saved -> 1 .. Cardinality(Saved)] :
          /\ \A c, d \in Saved : number[c] = number[d] => c = d
          /\ draft = [d \in Drafts |->
                IF d \in Saved THEN [NoDraft EXCEPT !.status = "draft",
                                        !.text = number[d], !.version = number[d]]
                               ELSE NoDraft]
    /\ panel = [t \in Tabs |-> ClosedPanel]
    /\ copies = <<>>
    /\ op = [o \in Ops |-> IdleOp]
    /\ opens = 0
    /\ mails = [t \in Texts |-> 0]
    /\ lost = 0
    /\ doubts = {}

User(t) ==
    \/ \E d \in Drafts \cup {Null} : Open(t, d) \/ Switch(t, d)
    \/ Type(t)
    \/ Close(t)
    \/ \E o \in Ops, kind \in Kinds : Click(o, t, kind)
Browser(t) == Fetch(t) \/ Recover(t) \/ Autosave(t)
Server ==
    \/ \E o \in Ops, d \in Drafts : ServeCreate(o, d)
    \/ \E o \in Ops : \/ ServeUpdate(o)
                      \/ Refuse(o, "persist", "persisted")
                      \/ Refuse(o, "deliver", "delivered")
                      \/ ServeMessage(o)
                      \/ ServeSend(o)
                      \/ ServeSchedule(o)
    \/ \E d \in Drafts : Deliver(d)
Resume(o) == AnswerPersist(o) \/ AnswerRefused(o) \/ AnswerSend(o)
                \/ CloseAfterSend(o) \/ AnswerSchedule(o)

ComposeNext ==
    \/ \E t \in Tabs : User(t) \/ Browser(t)
    \/ Server
    \/ \E o \in Ops : Resume(o) \/ Lose(o)

ComposeSpec == ComposeInit /\ [][ComposeNext]_composeVars

-----------------------------------------------------------------------------
ComposeTypeOK ==
    /\ draft \in [Drafts -> DraftRows]
    /\ panel \in [Tabs -> Panels]
    /\ copies \in Seq(CopyRows)
    /\ \A i, j \in DOMAIN copies : copies[i].id = copies[j].id => i = j
    /\ op \in [Ops -> OpRows \cup {IdleOp, DoneOp}]
    /\ opens \in 0 .. MaxOpens
    /\ edits \in Texts
    /\ stamps \in Versions
    /\ mails \in [Texts -> Nat]
    /\ lost \in 0 .. MaxLost
    /\ doubts \subseteq Doubts

Replaced(o) == op[o].stage = "persist" /\ op[o].draftId # Null
                 /\ op'[o].stage = "persisted" /\ op'[o].ok
Mailed(o) == op[o].stage = "deliver" /\ op[o].kind = "send"
                 /\ op'[o].stage = "delivered" /\ op'[o].ok

(* The server gets what the composer shows.  A save that is accepted replaces*)
(* the text its composer last loaded or saved, never one that it has not     *)
(* shown, and goes to the draft the form was written for -- unless another   *)
(* draft was chosen in the open composer while a request was under way, whose*)
(* answer then names the former draft (ComposePanel.tsx:391), or two clicks  *)
(* have each created a draft of the new message (:427).  What Send mails is  *)
(* the form as it was when the button was pressed, although it is stored as  *)
(* a draft in between and other tabs may save that draft meanwhile.          *)
ServerGetsTheForm ==
    [][\A o \in Ops :
         /\ Replaced(o) => \/ "save" \in doubts
                           \/ /\ draft[op[o].draftId].text = op[o].base
                              /\ op[o].about = op[o].draftId
         /\ Mailed(o) => mails'[op[o].text] = mails[op[o].text] + 1]_composeVars

(* A working copy is only ever replaced by a later text, and deleted when    *)
(* its text, or a later one, was mailed -- unless the form was edited while  *)
(* Send ran, the composer was left or its copy is open in another tab, or a  *)
(* draft or copy that arrived has replaced what was typed (before it arrived,*)
(* or in a composer that was then used for another draft).                   *)
WorkingCopiesAdvance ==
    [][\A i \in DOMAIN copies :
          \/ \E j \in DOMAIN copies' : /\ copies'[j].id = copies[i].id
                                       /\ copies'[j].text >= copies[i].text
          \/ \E t \in Texts : t >= copies[i].text /\ mails[t] > 0
          \/ "copy" \in doubts']_composeVars

=============================================================================
