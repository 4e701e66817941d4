------------------------------ MODULE Mailbox ------------------------------
(***************************************************************************)
(* Reading mail: the links of messages to mailboxes with one user's flags, *)
(* the paged list of a mailbox, and the web client that caches its pages,  *)
(* stars messages and refetches.                                           *)
(*                                                                         *)
(* A call of the worker is one statement behind its checks, so serving one *)
(* is one action; the next page is asked for only when the one before has  *)
(* come.  The client's query library (TanStack Query 5) is external: a     *)
(* fetch of an open view replaces the one under way, an answered mutation  *)
(* marks every list stale and refetches the one on the screen.             *)
(***************************************************************************)
EXTENDS Naturals, FiniteSets, Sequences

CONSTANTS
    Messages,    \* natural numbers, ordered like the messages' ids
    Created,     \* created_at, to the second: messages may share it
    Mailboxes,   \* mailboxes that the user owns or is a member of ...
    Owned,       \* ... those that are the user's own
    To,          \* the mailboxes a message is delivered to
    Views,       \* lists the client can show: a mailbox, starred or all
    PageSize,    \* rows of a page
    MaxClicks,   \* bound: what the user does
    MaxOthers,   \* bound: changes made elsewhere, and answers lost
    None

(* A link's message_user_state, a row of a list, and a page: at most PageSize*)
(* rows and, if there are more, the cursor of the next page.                 *)
Flags == [read : BOOLEAN, starred : BOOLEAN, deleted : BOOLEAN]
RowType == [msg : Messages, starred : BOOLEAN, read : BOOLEAN]
PageType == [rows : SUBSET RowType, next : Messages \cup {None}]

(* The pages of a view and those that are being fetched, with the messages   *)
(* that the view has matched since the first of them was read (history).     *)
Lists == [pages : Seq(PageType), stay : SUBSET Messages,
          stale : BOOLEAN, failed : BOOLEAN]
Fetches == [kind : {"all", "more"}, pages : Seq(PageType), stay : SUBSET Messages,
            want : Nat \ {0}]

MailboxConstants ==
    /\ Messages \subseteq Nat /\ IsFiniteSet(Messages)
    /\ Created \in [Messages -> Nat]
    /\ Owned \subseteq Mailboxes
    /\ To \in [Messages -> SUBSET Mailboxes]
    /\ Views \subseteq [mailbox : Mailboxes, starred : BOOLEAN]
    /\ PageSize \in Nat \ {0}
    /\ None \notin Messages /\ None \notin Views /\ None \notin Flags
    /\ None \notin Lists /\ None \notin Fetches

VARIABLES
    flag,     \* message_user_state per link; None where there is no link
    member,   \* the shared mailboxes the user still has access to
    cache,    \* the query cache: per view its pages, or None
    fetch,    \* per view the fetch under way, or None
    open,     \* the view on the screen, or None
    asks,     \* star and folder mutations under way
    excused,  \* per view: messages whose rows may be out of date (history)
    clicks, others   \* counters for the bounds

vars == <<flag, member, cache, fetch, open, asks, excused, clicks, others>>

-----------------------------------------------------------------------------
(* The worker                                                                *)

Links == Messages \X Mailboxes
Fresh == [read |-> FALSE, starred |-> FALSE, deleted |-> FALSE]
Linked(m, mb) == flag[<<m, mb>>] # None

Reads(mb) == mb \in Owned \cup member

(* ORDER BY created_at DESC, id DESC                                         *)
Before(m, n) == Created[m] > Created[n] \/ (Created[m] = Created[n] /\ m > n)

(* The rows of list(), but for the cursor.                                   *)
Matching(fl, v) ==
    {m \in Messages :
        LET f == fl[<<m, v.mailbox>>]
        IN  f # None /\ ~f.deleted /\ (v.starred => f.starred)}

(* Mutant: the cursor is compared by its time alone.                         *)
BeyondByTime(v, cursor) ==
    {m \in Matching(flag, v) : cursor = None \/ Created[cursor] > Created[m]}

Beyond(v, cursor) ==
    {m \in Matching(flag, v) : cursor = None \/ Before(cursor, m)}

Row(v, m) == [msg |-> m, starred |-> flag[<<m, v.mailbox>>].starred,
              read |-> flag[<<m, v.mailbox>>].read]

Rank(m, found) == Cardinality({n \in found : Before(n, m)})
LastOf(found) == CHOOSE m \in found : \A n \in found : n = m \/ Before(n, m)

PageOf(v, found, taken) ==
    [rows |-> {Row(v, m) : m \in taken},
     next |-> IF taken = found THEN None ELSE LastOf(taken)]

(* Mutant: the row that only tells that there are more is not cut off.       *)
PageUntrimmed(v, cursor) ==
    LET found == Beyond(v, cursor)
    IN  PageOf(v, found, {m \in found : Rank(m, found) <= PageSize})

(* A page: the first PageSize rows beyond the cursor.                        *)
Page(v, cursor) ==
    LET found == Beyond(v, cursor)
    IN  PageOf(v, found, {m \in found : Rank(m, found) < PageSize})

(* requireReadableLink: the links of a message the user can read, own        *)
(* mailboxes first; which mailbox the message was listed in does not count.  *)
ReadableLinks(m) ==
    LET readable == {mb \in Mailboxes : Linked(m, mb) /\ Reads(mb)}
        mine == readable \cap Owned
    IN  IF mine # {} THEN mine ELSE readable

-----------------------------------------------------------------------------
(* The client's cache                                                        *)

Rows(pages) == UNION {pages[i].rows : i \in DOMAIN pages}

(* The view matches fewer or more messages now.                              *)
Stays(entry, fl, v) ==
    IF entry = None THEN None ELSE [entry EXCEPT !.stay = entry.stay \cap Matching(fl, v)]

(* The server's flags change.                                                *)
SetFlags(fl) ==
    /\ flag' = fl
    /\ cache' = [v \in Views |-> Stays(cache[v], fl, v)]
    /\ fetch' = [v \in Views |-> Stays(fetch[v], fl, v)]

Excuse(m) == excused' = [v \in Views |-> excused[v] \cup {m}]

(* A fetch of all pages a view has, from the first.                          *)
Refetch(v) == [kind |-> "all", pages |-> <<>>, stay |-> Matching(flag, v),
               want |-> IF cache[v] = None THEN 1 ELSE Len(cache[v].pages)]

More(v) == [kind |-> "more", pages |-> cache[v].pages, stay |-> cache[v].stay,
            want |-> Len(cache[v].pages) + 1]

NextCursor(pages) == IF pages = <<>> THEN None ELSE pages[Len(pages)].next

-----------------------------------------------------------------------------
(* Fetching                                                                  *)

(* The view's query mounts: it is fetched unless it is fresh; within fifteen *)
(* seconds fresh means that nothing has marked it stale.                     *)
Open(v) ==
    /\ open # v /\ clicks < MaxClicks
    /\ open' = v
    /\ clicks' = clicks + 1
    /\ \/ /\ fetch[v] = None
          /\ fetch' = [fetch EXCEPT ![v] = Refetch(v)]
          /\ excused' = [excused EXCEPT ![v] = {}]
       \/ /\ fetch[v] # None \/ (cache[v] # None /\ ~cache[v].stale)
          /\ UNCHANGED <<fetch, excused>>
    /\ UNCHANGED <<flag, member, cache, asks, others>>

(* The window gets the focus again, or the user retries after an error.      *)
ComeBack ==
    /\ open # None /\ fetch[open] = None /\ clicks < MaxClicks
    /\ fetch' = [fetch EXCEPT ![open] = Refetch(open)]
    /\ excused' = [excused EXCEPT ![open] = {}]
    /\ clicks' = clicks + 1
    /\ UNCHANGED <<flag, member, cache, open, asks, others>>

(* The button for the next page is enabled unless it is being fetched; it    *)
(* replaces a refetch that is under way, whose pages are thrown away.        *)
LoadMore ==
    /\ open # None /\ cache[open] # None /\ ~cache[open].failed
    /\ clicks < MaxClicks
    /\ NextCursor(cache[open].pages) # None
    /\ fetch[open] # None => fetch[open].kind = "all"
    /\ fetch' = [fetch EXCEPT ![open] = More(open)]
    /\ excused' = IF fetch[open] = None THEN excused
                  ELSE [excused EXCEPT ![open] = Messages]
    /\ clicks' = clicks + 1
    /\ UNCHANGED <<flag, member, cache, open, asks, others>>

Wanting(v) == fetch[v] # None /\ Len(fetch[v].pages) < fetch[v].want

(* list() answers the next page; the cursor comes from the page before it.   *)
FetchPage(v) ==
    /\ Wanting(v) /\ Reads(v.mailbox)
    /\ fetch[v].pages = <<>> \/ NextCursor(fetch[v].pages) # None
    /\ LET page == Page(v, NextCursor(fetch[v].pages))
       IN  fetch' = [fetch EXCEPT
               ![v].pages = Append(fetch[v].pages, page),
               ![v].stay = IF fetch[v].pages = <<>> THEN Matching(flag, v) ELSE fetch[v].stay]
    /\ UNCHANGED <<flag, member, cache, open, asks, excused, clicks, others>>

(* All pages have come, or the last has no successor: the view is fresh.     *)
FetchDone(v) ==
    /\ fetch[v] # None
    /\ ~Wanting(v) \/ (fetch[v].pages # <<>> /\ NextCursor(fetch[v].pages) = None)
    /\ cache' = [cache EXCEPT ![v] = [pages |-> fetch[v].pages,
                                      stay |-> fetch[v].stay,
                                      stale |-> FALSE, failed |-> FALSE]]
    /\ fetch' = [fetch EXCEPT ![v] = None]
    /\ UNCHANGED <<flag, member, open, asks, excused, clicks, others>>

(* A page is refused, or lost, and so is its retry: the old pages stay.      *)
FetchFails(v) ==
    /\ Wanting(v)
    /\ \/ ~Reads(v.mailbox) /\ UNCHANGED others
       \/ others < MaxOthers /\ others' = others + 1
    /\ fetch' = [fetch EXCEPT ![v] = None]
    /\ cache' = [cache EXCEPT ![v] = IF cache[v] = None THEN None
                                      ELSE [cache[v] EXCEPT !.failed = TRUE]]
    /\ excused' = [excused EXCEPT ![v] = Messages]
    /\ UNCHANGED <<flag, member, open, asks, clicks>>

-----------------------------------------------------------------------------
(* Changing flags                                                            *)

(* A click on the star of a row: the opposite of what the row shows.         *)
Star ==
    /\ open # None /\ cache[open] # None /\ ~cache[open].failed
    /\ clicks < MaxClicks
    /\ \E row \in Rows(cache[open].pages) :
         asks' = asks \cup {[id |-> clicks, what |-> "star", msg |-> row.msg,
                             value |-> ~row.starred, at |-> "sent"]}
    /\ clicks' = clicks + 1
    /\ UNCHANGED <<flag, member, cache, fetch, open, excused, others>>

(* A click on archive or trash of a message's page.                          *)
Move ==
    /\ open # None /\ cache[open] # None /\ ~cache[open].failed
    /\ clicks < MaxClicks
    /\ \E row \in Rows(cache[open].pages) :
         asks' = asks \cup {[id |-> clicks, what |-> "move", msg |-> row.msg,
                             value |-> FALSE, at |-> "sent"]}
    /\ clicks' = clicks + 1
    /\ UNCHANGED <<flag, member, cache, fetch, open, excused, others>>

Answered(a) == asks' = (asks \ {a}) \cup {[a EXCEPT !.at = "answered"]}

(* mutateState: an upsert that sets one column.                              *)
ServeStar(a) ==
    /\ a \in asks /\ a.at = "sent" /\ a.what = "star"
    /\ \E mb \in ReadableLinks(a.msg) :
         SetFlags([flag EXCEPT ![<<a.msg, mb>>].starred = a.value])
    /\ Answered(a)
    /\ UNCHANGED <<member, open, excused, clicks, others>>

(* No readable link: 404.  A move is always refused: its UPDATE names the    *)
(* column updated_at, which mailbox_messages does not have.                  *)
Refuse(a) ==
    /\ a \in asks /\ a.at = "sent"
    /\ a.what = "move" \/ ReadableLinks(a.msg) = {}
    /\ asks' = asks \ {a}
    /\ UNCHANGED <<flag, member, cache, fetch, open, excused, clicks, others>>

(* Mutant: a star only refetches the message.                                *)
AnswerKeepsLists(a) ==
    /\ a \in asks /\ a.at = "answered"
    /\ asks' = asks \ {a}
    /\ UNCHANGED <<flag, member, cache, fetch, open, excused, clicks, others>>

(* onSuccess: every list is stale; the one on the screen is fetched anew,    *)
(* whatever was under way.  A fetch of a list that is not on the screen goes *)
(* on, and will make it fresh again.                                         *)
Answer(a) ==
    /\ a \in asks /\ a.at = "answered"
    /\ asks' = asks \ {a}
    /\ cache' = [v \in Views |-> IF cache[v] = None THEN None
                                 ELSE [cache[v] EXCEPT !.stale = TRUE]]
    /\ fetch' = [v \in Views |-> IF v = open THEN Refetch(v) ELSE fetch[v]]
    /\ excused' = [v \in Views |->
         IF v = open THEN {}
         ELSE IF fetch[v] # None THEN excused[v] \cup {a.msg}
         ELSE excused[v]]
    /\ UNCHANGED <<flag, member, open, clicks, others>>

(* The answer of a mutation is lost; mutations are not retried.              *)
AnswerLost(a) ==
    /\ a \in asks /\ others < MaxOthers
    /\ asks' = asks \ {a}
    /\ Excuse(a.msg)
    /\ others' = others + 1
    /\ UNCHANGED <<flag, member, cache, fetch, open, clicks>>

-----------------------------------------------------------------------------
(* Elsewhere                                                                 *)

(* A message arrives in all its mailboxes; it is the newest.                 *)
Deliver(m) ==
    /\ \A mb \in Mailboxes : ~Linked(m, mb)
    /\ \A n \in Messages : \A mb \in Mailboxes : Linked(n, mb) => Created[n] <= Created[m]
    /\ SetFlags([l \in Links |-> IF l[1] = m /\ l[2] \in To[m] THEN Fresh ELSE flag[l]])
    /\ UNCHANGED <<member, open, asks, excused, clicks, others>>

(* The user marks a message as read, stars or deletes it in another client.  *)
Changed(f) ==
    {[f EXCEPT !.read = ~f.read], [f EXCEPT !.starred = ~f.starred],
     [f EXCEPT !.deleted = TRUE]}

FlagElsewhere(m) ==
    /\ others < MaxOthers
    /\ \E mb \in ReadableLinks(m) :
         \E f \in Changed(flag[<<m, mb>>]) : SetFlags([flag EXCEPT ![<<m, mb>>] = f])
    /\ Excuse(m)
    /\ others' = others + 1
    /\ UNCHANGED <<member, open, asks, clicks>>

(* The user loses access to a shared mailbox.                                *)
LoseAccess(mb) ==
    /\ mb \in member /\ others < MaxOthers
    /\ member' = member \ {mb}
    /\ others' = others + 1
    /\ UNCHANGED <<flag, cache, fetch, open, asks, excused, clicks>>

-----------------------------------------------------------------------------
Init ==
    /\ flag = [l \in Links |-> None]
    /\ member = Mailboxes \ Owned
    /\ cache = [v \in Views |-> None]
    /\ fetch = [v \in Views |-> None]
    /\ open = None
    /\ asks = {}
    /\ excused = [v \in Views |-> {}]
    /\ clicks = 0 /\ others = 0

Client ==
    \/ ComeBack \/ LoadMore \/ Star \/ Move
    \/ \E v \in Views : Open(v) \/ FetchPage(v) \/ FetchDone(v) \/ FetchFails(v)
    \/ \E a \in asks : Answer(a) \/ AnswerLost(a)

Server == \E a \in asks : ServeStar(a) \/ Refuse(a)

Elsewhere ==
    \/ \E m \in Messages : Deliver(m) \/ FlagElsewhere(m)
    \/ \E mb \in Mailboxes : LoseAccess(mb)

Next == Client \/ Server \/ Elsewhere

Spec == Init /\ [][Next]_vars

-----------------------------------------------------------------------------
(* Properties                                                                *)

Asks == [id : Nat, what : {"star", "move"}, msg : Messages, value : BOOLEAN,
         at : {"sent", "answered"}]

(* No page is longer than asked; every page but the last leads to the next.  *)
Trimmed(pages) == \A i \in DOMAIN pages : Cardinality(pages[i].rows) <= PageSize
Linking(pages) == \A i \in 1..Len(pages) - 1 : pages[i].next # None

(* Types; pages are trimmed and lead to one another, and no more are fetched *)
(* than were asked for.                                                      *)
TypeOK ==
    /\ flag \in [Links -> Flags \cup {None}]
    /\ member \subseteq Mailboxes \ Owned
    /\ cache \in [Views -> Lists \cup {None}]
    /\ fetch \in [Views -> Fetches \cup {None}]
    /\ \A v \in Views :
         /\ cache[v] # None => /\ cache[v].pages # <<>>
                               /\ Trimmed(cache[v].pages) /\ Linking(cache[v].pages)
         /\ fetch[v] # None => /\ Len(fetch[v].pages) <= fetch[v].want
                               /\ Trimmed(fetch[v].pages) /\ Linking(fetch[v].pages)
    /\ open \in Views \cup {None}
    /\ asks \subseteq Asks
    /\ excused \in [Views -> SUBSET Messages]
    /\ clicks \in Nat /\ others \in Nat

(* Pages follow one another in the order of the list and show no message     *)
(* twice.                                                                    *)
Ordered(pages) ==
    \A i, j \in DOMAIN pages : \A r \in pages[i].rows, s \in pages[j].rows :
        /\ i < j => Before(r.msg, s.msg)
        /\ r.msg = s.msg => i = j /\ r = s

(* Whatever stays is in a page or comes after the last of them.              *)
Covered(pages, stay) ==
    \A m \in stay : \/ \E r \in Rows(pages) : r.msg = m
                    \/ NextCursor(pages) # None /\ Before(NextCursor(pages), m)

(* Reading a list page by page shows every message that was in it throughout *)
(* exactly once, in order, however many arrive, lose their star or are       *)
(* deleted between two pages, and whatever shares its second of arrival.     *)
PagesComplete ==
    \A v \in Views : cache[v] # None =>
        Ordered(cache[v].pages) /\ Covered(cache[v].pages, cache[v].stay)

(* The list on the screen, with nothing under way, shows the flags that the  *)
(* server has, unless they were changed elsewhere, the answer of a change was*)
(* lost, a fetch failed, loading more cut a refetch short, or an answer came *)
(* while the list was still being fetched but no longer on the screen.       *)
RowsAreCurrent ==
    (open # None /\ fetch[open] = None /\ cache[open] # None /\ asks = {}) =>
        \A row \in Rows(cache[open].pages) :
            row.msg \in excused[open] \/ row = Row(open, row.msg)

=============================================================================
