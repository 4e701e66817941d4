----------------------------- MODULE WebClient -----------------------------
(***************************************************************************)
(* A tab of the web application: one query client under the page that the  *)
(* route selects, the reader's mail or the administrators' console.  The   *)
(* keys of the two pages' queries have nothing in common and leaving a     *)
(* page unmounts it, so a behaviour stays on the page it opens.            *)
(***************************************************************************)
EXTENDS Naturals

CONSTANTS
    MailClicks, AdminClicks, MaxOthers, None,               \* of both pages
    Messages, Created, Mailboxes, Owned, To, Views, PageSize,   \* the mail's
    Resources, Ids, First, Deleted, Blank, Other                \* the console's

VARIABLES
    page,                                          \* "mail" or "admin"
    cache, fetch, clicks, others,                  \* the tab's
    flag, member, open, asks, excused,             \* Mailbox's
    resource, server, stale, domain, form, saves, unsure, rushed  \* Console's

Mail == INSTANCE Mailbox WITH MaxClicks <- MailClicks
Admin == INSTANCE Console WITH MaxClicks <- AdminClicks

ASSUME PagesAssumption == Mail!MailboxConstants /\ Admin!ConsoleConstants

mailVars == <<flag, member, open, asks, excused>>
adminVars == <<resource, server, stale, domain, form, saves, unsure, rushed>>
vars == <<page, cache, fetch, clicks, others, mailVars, adminVars>>

(* The lazy routes of router.tsx load one page or the other.                 *)
Init ==
    \/ /\ page = "mail"
       /\ Mail!Init
       /\ resource = None /\ server = None /\ stale = None /\ domain = None
       /\ form = None /\ saves = None /\ unsure = None
       /\ rushed = None
    \/ /\ page = "admin"
       /\ Admin!Init
       /\ flag = None /\ member = None /\ open = None /\ asks = None
       /\ excused = None

Next ==
    \/ page = "mail" /\ Mail!Next /\ UNCHANGED <<page, adminVars>>
    \/ page = "admin" /\ Admin!Next /\ UNCHANGED <<page, mailVars>>

Spec == Init /\ [][Next]_vars

-----------------------------------------------------------------------------
(* Types of the page that is open.                                           *)
TypeOK == IF page = "mail" THEN Mail!TypeOK ELSE Admin!TypeOK

(* A list read page by page is complete and without repetition (Mailbox).    *)
PagesComplete == page = "mail" => Mail!PagesComplete

(* With nothing under way the screen shows what the server has: the flags of *)
(* the messages (Mailbox), what the administrator's saves left (Console).    *)
ScreenIsCurrent ==
    IF page = "mail" THEN Mail!RowsAreCurrent ELSE Admin!SavesAreShown

(* A save puts back nothing that an earlier one of the same administrator    *)
(* had replaced (Console).                                                   *)
OwnSavesStick == [][page = "admin" => Admin!KeepsFields]_vars

=============================================================================
