----------------------------- MODULE Web_proofs -----------------------------
(***************************************************************************)
(* Theorems about the web application: the invariants of the mail pages,   *)
(* of the administrators' console and of the composer, and what they       *)
(* promise.                                                                *)
(*                                                                         *)
(* A mail list is complete since each page holds every message of the list *)
(* down to its cursor, and a refetch reads the pages again from the first. *)
(* A console dialog is right since its row is either current, or excused,  *)
(* or waits for a save that closes the dialog when it is read back.        *)
(* A save of the composer that is accepted makes the other requests of its *)
(* form stale, and no working copy has a later text than its form.         *)
(***************************************************************************)
EXTENDS WebClient, Compose, FiniteSetTheorems, SequenceTheorems, WellFoundedInduction, TLAPS

(* The instances' operators on finite sets are those of the theorems.      *)
LEMMA SameFinite ==
  ASSUME NEW S
  PROVE  Mail!IsFiniteSet(S) <=> IsFiniteSet(S)
  BY DEF Mail!IsFiniteSet, IsFiniteSet

LEMMA SameCardinality ==
  ASSUME NEW S
  PROVE  Mail!Cardinality(S) = Cardinality(S)
  BY DEF Mail!Cardinality, Cardinality, Mail!IsFiniteSet, IsFiniteSet

LEMMA MessagesFinite ==
  IsFiniteSet(Messages)
  BY PagesAssumption, SameFinite DEF Mail!MailboxConstants

---------------------------------------------------------------------------
(* Lemmas about the order of a list and its pages.                         *)

(* A set of numbers has a least element.                                   *)
LEMMA LeastNumber ==
  ASSUME NEW T \in SUBSET Nat, T # {}
  PROVE  \E n \in T : \A m \in T : n <= m
  <1>1. PICK n \in T : \A m \in T : ~ (<<m, n>> \in OpToRel(<, Nat))
    BY NatLessThanWellFounded, WFMin
  <1>2. \A m \in T : ~ (m < n)
    BY <1>1 DEF OpToRel
  <1> QED
    BY <1>2

(* The order of the list is strict, transitive and total.                  *)
LEMMA BeforeOrder ==
  ASSUME NEW l \in Messages, NEW m \in Messages, NEW n \in Messages
  PROVE  /\ ~Mail!Before(m, m)
         /\ Mail!Before(l, m) /\ Mail!Before(m, n) => Mail!Before(l, n)
         /\ m = n \/ Mail!Before(m, n) \/ Mail!Before(n, m)
  <1>1. l \in Nat /\ m \in Nat /\ n \in Nat
    BY PagesAssumption DEF Mail!MailboxConstants
  <1>2. Created[l] \in Nat /\ Created[m] \in Nat /\ Created[n] \in Nat
    BY PagesAssumption DEF Mail!MailboxConstants
  <1> QED
    BY <1>1, <1>2 DEF Mail!Before

(* The rank of a message grows along the list.                             *)
LEMMA RankGrows ==
  ASSUME NEW found \in SUBSET Messages
  PROVE  /\ IsFiniteSet(found)
         /\ \A m \in found : Mail!Rank(m, found) \in Nat
         /\ \A m, n \in found : Mail!Before(n, m) => Mail!Rank(n, found) < Mail!Rank(m, found)
  <1>1. IsFiniteSet(found)
    BY MessagesFinite, FS_Subset
  <1> DEFINE Prior(m) == {n \in found : Mail!Before(n, m)}
  <1>2. \A m \in found : IsFiniteSet(Prior(m)) /\ Cardinality(Prior(m)) \in Nat
    BY <1>1, FS_Subset, FS_CardinalityType
  <1>3. \A m \in found : Mail!Rank(m, found) = Cardinality(Prior(m))
    BY SameCardinality DEF Mail!Rank
  <1>4. ASSUME NEW m \in found, NEW n \in found, Mail!Before(n, m)
        PROVE  Mail!Rank(n, found) < Mail!Rank(m, found)
    <2>1. Prior(n) \subseteq Prior(m)
      BY <1>4, BeforeOrder
    <2>2. n \in Prior(m) /\ n \notin Prior(n)
      BY <1>4, BeforeOrder
    <2> HIDE DEF Prior
    <2>3. Prior(n) \in SUBSET Prior(m) /\ Prior(n) # Prior(m)
      BY <2>1, <2>2
    <2>4. /\ Cardinality(Prior(n)) <= Cardinality(Prior(m))
          /\ Cardinality(Prior(n)) # Cardinality(Prior(m))
      BY <1>2, <2>3, FS_Subset
    <2> QED
      BY <1>2, <1>3, <2>4
  <1> QED
    BY <1>1, <1>2, <1>3, <1>4

(* Some messages of a list are the first of it.                            *)
Heads(found, taken) ==
    taken \subseteq found /\ \A m \in taken, n \in found \ taken : Mail!Before(m, n)

(* The messages of small rank are the first, and no more than asked for;   *)
(* there are some if there are more.                                       *)
LEMMA Taken ==
  ASSUME NEW found \in SUBSET Messages, NEW taken,
         taken = {m \in found : Mail!Rank(m, found) < PageSize}
  PROVE  /\ Heads(found, taken)
         /\ taken = {} => found = {}
         /\ IsFiniteSet(taken) /\ Cardinality(taken) <= PageSize
         /\ \E f \in [taken -> 0 .. PageSize - 1] :
              \A m, n \in taken : f[m] = f[n] => m = n
  <1>0. PageSize \in Nat /\ PageSize >= 1
    BY PagesAssumption DEF Mail!MailboxConstants
  <1>1. Heads(found, taken)
    <2> SUFFICES ASSUME NEW m \in taken, NEW n \in found \ taken
                 PROVE  Mail!Before(m, n)
      BY DEF Heads
    <2>1. Mail!Rank(m, found) < PageSize /\ ~(Mail!Rank(n, found) < PageSize) /\ m # n
      OBVIOUS
    <2>2. Mail!Rank(m, found) \in Nat /\ Mail!Rank(n, found) \in Nat
      BY RankGrows
    <2>3. ~Mail!Before(n, m)
      BY <1>0, <2>1, <2>2, RankGrows
    <2> QED
      BY <2>1, <2>3, BeforeOrder
  <1>2. ASSUME found # {} PROVE taken # {}
    <2> DEFINE ranks == {Mail!Rank(m, found) : m \in found}
    <2>1. ranks \in SUBSET Nat /\ ranks # {}
      BY <1>2, RankGrows
    <2>2. PICK r \in ranks : \A s \in ranks : r <= s
      BY <2>1, LeastNumber
    <2>3. PICK m \in found : r = Mail!Rank(m, found)
      OBVIOUS
    <2>4. ASSUME NEW n \in found, Mail!Before(n, m)
          PROVE  FALSE
      <3>1. Mail!Rank(n, found) \in Nat /\ Mail!Rank(m, found) \in Nat
        BY RankGrows
      <3>2. Mail!Rank(n, found) < Mail!Rank(m, found)
        BY <2>4, RankGrows
      <3>3. Mail!Rank(m, found) <= Mail!Rank(n, found)
        BY <2>2, <2>3
      <3> QED
        BY <3>1, <3>2, <3>3
    <2>5. {n \in found : Mail!Before(n, m)} = {}
      BY <2>4
    <2>6. Mail!Rank(m, found) = 0
      BY <2>5, FS_EmptySet, SameCardinality DEF Mail!Rank
    <2> QED
      BY <1>0, <2>6
  <1> DEFINE f == [m \in taken |-> Mail!Rank(m, found)]
  <1>3. f \in [taken -> 0 .. PageSize - 1]
    <2>1. \A m \in taken : Mail!Rank(m, found) \in Nat /\ Mail!Rank(m, found) < PageSize
      BY RankGrows
    <2> QED
      BY <1>0, <2>1
  <1>4. \A m, n \in taken : f[m] = f[n] => m = n
    <2> SUFFICES ASSUME NEW m \in taken, NEW n \in taken, m # n
                 PROVE  f[m] # f[n]
      OBVIOUS
    <2>1. m \in found /\ n \in found /\ (Mail!Before(m, n) \/ Mail!Before(n, m))
      BY BeforeOrder
    <2>2. /\ Mail!Rank(m, found) \in Nat /\ Mail!Rank(n, found) \in Nat
      BY <2>1, RankGrows
    <2>3. \/ Mail!Rank(m, found) < Mail!Rank(n, found)
          \/ Mail!Rank(n, found) < Mail!Rank(m, found)
      BY <2>1, RankGrows
    <2> QED
      BY <2>2, <2>3
  <1>5. IsFiniteSet(taken) /\ Cardinality(taken) <= PageSize
    <2>1. IsFiniteSet(0 .. PageSize - 1) /\ Cardinality(0 .. PageSize - 1) = PageSize
      BY <1>0, FS_Interval
    <2>2. f \in Injection(taken, 0 .. PageSize - 1)
      BY <1>3, <1>4 DEF Injection, IsInjective
    <2> QED
      BY <2>1, <2>2, FS_Injection
  <1> QED
    BY <1>1, <1>2, <1>3, <1>4, <1>5

(* The last of some messages is one of them and comes after the others.    *)
LEMMA LastIsLast ==
  ASSUME NEW taken \in SUBSET Messages, taken # {}
  PROVE  /\ Mail!LastOf(taken) \in taken
         /\ \A n \in taken : n = Mail!LastOf(taken) \/ Mail!Before(n, Mail!LastOf(taken))
  <1> DEFINE Later(m) == {n \in taken : Mail!Before(m, n)}
             counts == {Cardinality(Later(m)) : m \in taken}
  <1>1. \A m \in taken : IsFiniteSet(Later(m)) /\ Cardinality(Later(m)) \in Nat
    BY MessagesFinite, FS_Subset, FS_CardinalityType
  <1>2. PICK c \in counts : \A d \in counts : c <= d
    <2>1. counts \in SUBSET Nat /\ counts # {}
      BY <1>1
    <2> QED
      BY <2>1, LeastNumber
  <1>3. PICK m \in taken : c = Cardinality(Later(m))
    OBVIOUS
  <1>4. ASSUME NEW n \in taken, Mail!Before(m, n)
        PROVE  FALSE
    <2>1. Later(n) \subseteq Later(m)
      BY <1>4, BeforeOrder
    <2>2. n \in Later(m) /\ n \notin Later(n)
      BY <1>4, BeforeOrder
    <2>3. c <= Cardinality(Later(n))
      BY <1>2
    <2> HIDE DEF Later
    <2>4. Later(n) \in SUBSET Later(m) /\ Later(n) # Later(m)
      BY <2>1, <2>2
    <2>5. /\ Cardinality(Later(n)) <= Cardinality(Later(m))
          /\ Cardinality(Later(n)) # Cardinality(Later(m))
      BY <1>1, <2>4, FS_Subset
    <2> QED
      BY <1>1, <1>3, <2>3, <2>5
  <1>5. \A n \in taken : n = m \/ Mail!Before(n, m)
    BY <1>4, BeforeOrder
  <1> QED
    BY <1>5 DEF Mail!LastOf

---------------------------------------------------------------------------
(* The invariant.                                                          *)

(* The cursor is the last of the rows.                                     *)
Following(pages) ==
    Mail!NextCursor(pages) # None =>
        \A r \in Mail!Rows(pages) : r.msg = Mail!NextCursor(pages) \/ Mail!Before(r.msg, Mail!NextCursor(pages))

PagesRight(pages, stay) ==
    /\ Mail!Trimmed(pages) /\ Mail!Linking(pages) /\ Mail!Ordered(pages) /\ Following(pages)
    /\ pages # <<>> => Mail!Covered(pages, stay)

(* The pages of a view, cached or under way.  Their rows are of messages   *)
(* with a link, and a link stays.                                          *)
ListRight(v, fl, e) ==
    /\ PagesRight(e.pages, e.stay)
    /\ e.stay \subseteq Mail!Matching(fl, v)
    /\ \A r \in Mail!Rows(e.pages) : fl[<<r.msg, v.mailbox>>] # None

ListsRight ==
    \A v \in Views : /\ cache[v] # None => ListRight(v, flag, cache[v])
                     /\ fetch[v] # None => ListRight(v, flag, fetch[v])

(* A row is current, or excused, or a change of its message was answered   *)
(* and the lists are about to be marked stale.                             *)
Known(v, r) ==
    \/ r = Mail!Row(v, r.msg)
    \/ r.msg \in excused[v]
    \/ \E a \in asks : a.at = "answered" /\ a.msg = r.msg

Refetching(v) == fetch[v] # None /\ fetch[v].kind = "all"

RowsKnown ==
    \A v \in Views :
        /\ fetch[v] # None => \A r \in Mail!Rows(fetch[v].pages) : Known(v, r)
        /\ cache[v] # None => \A r \in Mail!Rows(cache[v].pages) :
              Known(v, r) \/ cache[v].stale \/ Refetching(v)
        /\ v = open /\ fetch[v] = None /\ cache[v] # None =>
              ~cache[v].stale \/ excused[v] = Messages

MailInv == Mail!TypeOK /\ ListsRight /\ RowsKnown

---------------------------------------------------------------------------
(* Lemmas about pages.                                                     *)

(* A page of a view: its rows are as the server has them, beyond the       *)
(* cursor; what matches is in it or comes after it.                        *)
LEMMA PageRight ==
  ASSUME NEW v \in Views, NEW cursor \in Messages \cup {None},
         flag \in [Mail!Links -> Mail!Flags \cup {None}], NEW made, made = Mail!Page(v, cursor)
  PROVE  /\ made \in Mail!PageType /\ Cardinality(made.rows) <= PageSize
         /\ \A r \in made.rows : r.msg \in Mail!Beyond(v, cursor) /\ r = Mail!Row(v, r.msg)
         /\ \A m \in Mail!Beyond(v, cursor) :
               \/ \E r \in made.rows : r.msg = m
               \/ made.next # None /\ Mail!Before(made.next, m)
         /\ made.next # None =>
               /\ made.next \in Mail!Beyond(v, cursor)
               /\ \A r \in made.rows : r.msg = made.next \/ Mail!Before(r.msg, made.next)
  <1> DEFINE found == Mail!Beyond(v, cursor)
             taken == {m \in found : Mail!Rank(m, found) < PageSize}
  <1>1. found \in SUBSET Messages
    BY DEF Mail!Beyond, Mail!Matching
  <1>2. \A m \in found : Mail!Row(v, m) \in Mail!RowType /\ Mail!Row(v, m).msg = m
    <2> SUFFICES ASSUME NEW m \in found PROVE Mail!Row(v, m) \in Mail!RowType /\ Mail!Row(v, m).msg = m
      OBVIOUS
    <2>1. <<m, v.mailbox>> \in Mail!Links
      BY <1>1, PagesAssumption DEF Mail!Links, Mail!MailboxConstants
    <2>2. flag[<<m, v.mailbox>>] \in Mail!Flags
      BY <2>1 DEF Mail!Beyond, Mail!Matching
    <2> QED
      BY <1>1, <2>2 DEF Mail!Row, Mail!RowType, Mail!Flags
  <1>3. made = [rows |-> {Mail!Row(v, m) : m \in taken},
                next |-> IF taken = found THEN None ELSE Mail!LastOf(taken)]
    BY DEF Mail!Page, Mail!PageOf
  <1>4. /\ taken \subseteq found /\ \A m \in taken, n \in found \ taken : Mail!Before(m, n)
        /\ taken = {} => found = {}
        /\ IsFiniteSet(taken) /\ Cardinality(taken) <= PageSize
        /\ \E f \in [taken -> 0 .. PageSize - 1] :
             \A m, n \in taken : f[m] = f[n] => m = n
    <2> HIDE DEF found
    <2> QED
      BY <1>1, Taken DEF Heads
  <1>5. taken # found => /\ Mail!LastOf(taken) \in taken
                         /\ \A n \in taken : n = Mail!LastOf(taken) \/ Mail!Before(n, Mail!LastOf(taken))
    <2>1. taken # found => taken # {} /\ taken \in SUBSET Messages
      BY <1>1, <1>4
    <2> HIDE DEF taken
    <2> QED
      BY <2>1, LastIsLast
  <1> HIDE DEF found, taken
  <1>6. made \in Mail!PageType
    BY <1>1, <1>2, <1>3, <1>4, <1>5 DEF Mail!PageType
  <1>7. Cardinality(made.rows) <= PageSize
    <2>1. PICK f \in [taken -> 0 .. PageSize - 1] : \A m, n \in taken : f[m] = f[n] => m = n
      BY <1>4
    <2> DEFINE g == [r \in made.rows |-> f[r.msg]]
    <2>2. \A r \in made.rows : r.msg \in taken /\ r = Mail!Row(v, r.msg)
      BY <1>2, <1>3, <1>4
    <2>5. g \in [made.rows -> 0 .. PageSize - 1]
      BY <2>1, <2>2
    <2>6. ASSUME NEW r \in made.rows, NEW s \in made.rows, g[r] = g[s]
          PROVE  r = s
      <3>1. f[r.msg] = f[s.msg] /\ r.msg \in taken /\ s.msg \in taken
        BY <2>2, <2>6
      <3>2. r.msg = s.msg
        BY <2>1, <3>1
      <3> QED
        BY <2>2, <3>2
    <2> HIDE DEF g
    <2>3. g \in Injection(made.rows, 0 .. PageSize - 1)
      BY <2>5, <2>6 DEF Injection, IsInjective
    <2>4. /\ PageSize \in Nat /\ IsFiniteSet(0 .. PageSize - 1)
          /\ Cardinality(0 .. PageSize - 1) = PageSize
      <3>1. PageSize \in Nat /\ PageSize >= 1
        BY PagesAssumption DEF Mail!MailboxConstants
      <3> QED
        BY <3>1, FS_Interval
    <2> QED
      BY <2>3, <2>4, FS_Injection
  <1>8. \A r \in made.rows : r.msg \in taken /\ r = Mail!Row(v, r.msg)
    BY <1>2, <1>3, <1>4
  <1>9. ASSUME NEW m \in found
        PROVE  (\E r \in made.rows : r.msg = m) \/ (made.next # None /\ Mail!Before(made.next, m))
    <2>1. CASE m \in taken
      BY <1>2, <1>3, <2>1
    <2>2. CASE m \notin taken
      <3>1. made.next = Mail!LastOf(taken) /\ Mail!LastOf(taken) \in taken
        BY <1>3, <1>5, <2>2
      <3>2. made.next # None
        BY <1>1, <1>4, <3>1, PagesAssumption DEF Mail!MailboxConstants
      <3> QED
        BY <1>4, <2>2, <3>1, <3>2
    <2> QED
      BY <2>1, <2>2
  <1>10. made.next # None =>
            /\ made.next \in found
            /\ \A r \in made.rows : r.msg = made.next \/ Mail!Before(r.msg, made.next)
    BY <1>3, <1>4, <1>5, <1>8
  <1> QED
    BY <1>4, <1>6, <1>7, <1>8, <1>9, <1>10 DEF found

(* The pages of a list.                                                    *)
LEMMA PagesTyped ==
  ASSUME NEW pages \in Seq(Mail!PageType)
  PROVE  /\ Len(pages) \in Nat /\ DOMAIN pages = 1 .. Len(pages)
         /\ pages = <<>> <=> Len(pages) = 0
         /\ \A i \in DOMAIN pages : pages[i] \in Mail!PageType
         /\ Mail!NextCursor(pages) \in Messages \cup {None}
         /\ Mail!Rows(pages) \subseteq Mail!RowType
         /\ \A r : r \in Mail!Rows(pages) <=> \E i \in DOMAIN pages : r \in pages[i].rows
  <1>1. Len(pages) \in Nat /\ DOMAIN pages = 1 .. Len(pages) /\ (pages = <<>> <=> Len(pages) = 0)
    OBVIOUS
  <1>2. \A i \in DOMAIN pages : pages[i] \in Mail!PageType
    OBVIOUS
  <1>3. Mail!NextCursor(pages) \in Messages \cup {None}
    <2>1. CASE pages = <<>>
      BY <2>1 DEF Mail!NextCursor
    <2>2. CASE pages # <<>>
      <3>1. pages[Len(pages)] \in Mail!PageType
        BY <1>1, <1>2, <2>2
      <3> QED
        BY <2>2, <3>1 DEF Mail!NextCursor, Mail!PageType
    <2> QED
      BY <2>1, <2>2
  <1>4. \A r : r \in Mail!Rows(pages) <=> \E i \in DOMAIN pages : r \in pages[i].rows
    BY DEF Mail!Rows
  <1>5. Mail!Rows(pages) \subseteq Mail!RowType
    BY <1>2, <1>4 DEF Mail!PageType
  <1> QED
    BY <1>1, <1>2, <1>3, <1>4, <1>5

LEMMA NoPages ==
  ASSUME NEW stay
  PROVE  PagesRight(<<>>, stay) /\ Mail!Rows(<<>>) = {} /\ <<>> \in Seq(Mail!PageType)
  <1>1. <<>> \in Seq(Mail!PageType) /\ Len(<<>>) = 0
    OBVIOUS
  <1>2. Mail!Rows(<<>>) = {}
    <2>1. DOMAIN <<>> = {}
      BY <1>1
    <2> QED
      BY <2>1 DEF Mail!Rows
  <1> QED
    BY <1>1, <1>2 DEF PagesRight, Mail!Trimmed, Mail!Linking, Mail!Ordered, Following,
       Mail!NextCursor

(* The next page of a view is appended to those that were read.            *)
LEMMA PageAppended ==
  ASSUME NEW v \in Views, flag \in [Mail!Links -> Mail!Flags \cup {None}],
         NEW pages \in Seq(Mail!PageType), NEW stay, PagesRight(pages, stay),
         pages = <<>> \/ Mail!NextCursor(pages) # None,
         NEW made, made = Mail!Page(v, Mail!NextCursor(pages)),
         NEW kept, kept \subseteq Mail!Matching(flag, v), pages # <<>> => kept = stay
  PROVE  /\ Append(pages, made) \in Seq(Mail!PageType)
         /\ Len(Append(pages, made)) = Len(pages) + 1
         /\ PagesRight(Append(pages, made), kept)
         /\ Mail!Rows(Append(pages, made)) = Mail!Rows(pages) \cup made.rows
  <1> DEFINE cursor == Mail!NextCursor(pages)
             all == Append(pages, made)
             n == Len(pages)
  <1>1. /\ n \in Nat /\ DOMAIN pages = 1 .. n /\ (pages = <<>> <=> n = 0)
        /\ \A i \in DOMAIN pages : pages[i] \in Mail!PageType
        /\ cursor \in Messages \cup {None} /\ Mail!Rows(pages) \subseteq Mail!RowType
        /\ \A r : r \in Mail!Rows(pages) <=> \E i \in DOMAIN pages : r \in pages[i].rows
    BY PagesTyped
  <1>2. /\ made \in Mail!PageType /\ Cardinality(made.rows) <= PageSize
        /\ \A r \in made.rows : r.msg \in Mail!Beyond(v, cursor) /\ r = Mail!Row(v, r.msg)
        /\ \A m \in Mail!Beyond(v, cursor) : \/ \E r \in made.rows : r.msg = m
                                             \/ made.next # None /\ Mail!Before(made.next, m)
        /\ made.next # None =>
              /\ made.next \in Mail!Beyond(v, cursor)
              /\ \A r \in made.rows : r.msg = made.next \/ Mail!Before(r.msg, made.next)
    BY <1>1, PageRight
  <1>3. all \in Seq(Mail!PageType) /\ Len(all) = n + 1 /\ all # <<>> /\ DOMAIN all = 1 .. n + 1
    BY <1>1, <1>2
  <1>4. all[n + 1] = made /\ \A i \in 1 .. n : all[i] = pages[i]
    BY <1>1, <1>2
  <1> HIDE DEF all
  <1>5. Mail!Rows(all) = Mail!Rows(pages) \cup made.rows
    <2>1. \A r : r \in Mail!Rows(all) <=> \E i \in 1 .. n + 1 : r \in all[i].rows
      BY <1>3, PagesTyped
    <2>2. \A r : r \in Mail!Rows(all) => r \in Mail!Rows(pages) \cup made.rows
      <3> SUFFICES ASSUME NEW i \in 1 .. n + 1, NEW r \in all[i].rows
                   PROVE  r \in Mail!Rows(pages) \cup made.rows
        BY <2>1
      <3>1. CASE i = n + 1
        BY <1>4, <3>1
      <3>2. CASE i # n + 1
        <4>1. i \in 1 .. n
          BY <1>1, <3>2
        <4> QED
          BY <1>1, <1>4, <4>1
      <3> QED
        BY <3>1, <3>2
    <2>3. \A r \in made.rows : r \in Mail!Rows(all)
      <3>1. n + 1 \in 1 .. n + 1
        BY <1>1
      <3> QED
        BY <1>4, <2>1, <3>1
    <2>4. \A r \in Mail!Rows(pages) : r \in Mail!Rows(all)
      <3> SUFFICES ASSUME NEW i \in 1 .. n, NEW r \in pages[i].rows PROVE r \in Mail!Rows(all)
        BY <1>1
      <3>1. i \in 1 .. n + 1 /\ r \in all[i].rows
        BY <1>1, <1>4
      <3> QED
        BY <2>1, <3>1
    <2> QED
      BY <2>2, <2>3, <2>4
  <1>6. Mail!NextCursor(all) = made.next
    BY <1>3, <1>4 DEF Mail!NextCursor
  \* Every earlier row is before every row of the page.
  <1>7. ASSUME NEW r \in Mail!Rows(pages), NEW m \in Mail!Beyond(v, cursor)
        PROVE  Mail!Before(r.msg, m)
    <2>1. cursor # None
      BY <1>1
    <2>2. cursor \in Messages /\ r.msg \in Messages /\ m \in Messages
      BY <1>1, <2>1 DEF Mail!RowType, Mail!Beyond, Mail!Matching
    <2>3. Mail!Before(cursor, m)
      BY <2>1 DEF Mail!Beyond
    <2>4. r.msg = cursor \/ Mail!Before(r.msg, cursor)
      BY <2>1 DEF PagesRight, Following
    <2> QED
      BY <2>2, <2>3, <2>4, BeforeOrder
  <1>8. Mail!Trimmed(all)
    BY <1>1, <1>2, <1>3, <1>4, SameCardinality DEF Mail!Trimmed, PagesRight
  <1>9. Mail!Linking(all)
    <2> SUFFICES ASSUME NEW i \in 1 .. n PROVE all[i].next # None
      BY <1>1, <1>3 DEF Mail!Linking
    <2>1. CASE i = n
      <3>1. pages # <<>> /\ cursor = pages[n].next
        BY <1>1, <2>1 DEF Mail!NextCursor
      <3> QED
        BY <1>4, <2>1, <3>1
    <2>2. CASE i # n
      <3>1. i \in 1 .. n - 1
        <4>1. n \in Nat /\ i \in 1 .. n
          BY <1>1
        <4> HIDE DEF n
        <4> QED
          BY <2>2, <4>1
      <3> QED
        BY <1>4, <3>1 DEF PagesRight, Mail!Linking
    <2> QED
      BY <2>1, <2>2
  <1>10. Mail!Ordered(all)
    <2> SUFFICES ASSUME NEW i \in 1 .. n + 1, NEW j \in 1 .. n + 1,
                        NEW r \in all[i].rows, NEW s \in all[j].rows
                 PROVE  /\ i < j => Mail!Before(r.msg, s.msg)
                        /\ r.msg = s.msg => i = j /\ r = s
      BY <1>3 DEF Mail!Ordered
    <2>1. CASE i <= n /\ j <= n
      <3>1. i \in DOMAIN pages /\ j \in DOMAIN pages /\ r \in pages[i].rows /\ s \in pages[j].rows
        BY <1>1, <1>4, <2>1
      <3> QED
        BY <3>1 DEF PagesRight, Mail!Ordered
    <2>2. CASE i <= n /\ j = n + 1
      <3>1. r \in Mail!Rows(pages) /\ s \in made.rows
        BY <1>1, <1>4, <2>2
      <3>2. Mail!Before(r.msg, s.msg) /\ r.msg \in Messages
        BY <1>1, <1>2, <1>7, <3>1 DEF Mail!RowType
      <3> QED
        BY <1>1, <2>2, <3>2, BeforeOrder
    <2>3. CASE i = n + 1 /\ j <= n
      <3>1. s \in Mail!Rows(pages) /\ r \in made.rows
        BY <1>1, <1>4, <2>3
      <3>2. Mail!Before(s.msg, r.msg) /\ s.msg \in Messages
        BY <1>1, <1>2, <1>7, <3>1 DEF Mail!RowType
      <3> QED
        BY <1>1, <2>3, <3>2, BeforeOrder
    <2>4. CASE i = n + 1 /\ j = n + 1
      BY <1>1, <1>2, <1>4, <2>4
    <2> QED
      BY <1>1, <2>1, <2>2, <2>3, <2>4
  <1>11. Following(all)
    BY <1>2, <1>5, <1>6, <1>7 DEF Following
  <1>12. Mail!Covered(all, kept)
    <2> SUFFICES ASSUME NEW m \in kept
                 PROVE  \/ \E r \in Mail!Rows(all) : r.msg = m
                        \/ made.next # None /\ Mail!Before(made.next, m)
      BY <1>6 DEF Mail!Covered
    <2>1. CASE m \in Mail!Beyond(v, cursor)
      BY <1>2, <1>5, <2>1
    <2>2. CASE m \notin Mail!Beyond(v, cursor)
      <3>1. m \in Mail!Matching(flag, v) /\ cursor # None /\ ~Mail!Before(cursor, m)
        BY <2>2 DEF Mail!Beyond
      <3>2. pages # <<>>
        BY <3>1 DEF Mail!NextCursor
      <3>3. Mail!Covered(pages, stay) /\ m \in stay
        BY <3>2 DEF PagesRight
      <3>4. \E r \in Mail!Rows(pages) : r.msg = m
        BY <3>1, <3>3 DEF Mail!Covered
      <3> QED
        BY <1>5, <3>4
    <2> QED
      BY <2>1, <2>2
  <1> QED
    BY <1>3, <1>5, <1>8, <1>9, <1>10, <1>11, <1>12 DEF PagesRight, all

---------------------------------------------------------------------------
(* Steps of the mail pages.                                                *)

LEMMA MailFacts ==
  /\ None \notin Messages /\ None \notin Views /\ None \notin Mail!Flags
  /\ None \notin Mail!Lists /\ None \notin Mail!Fetches
  /\ \A v \in Views, m \in Messages : v.mailbox \in Mailboxes /\ <<m, v.mailbox>> \in Mail!Links
  BY PagesAssumption DEF Mail!MailboxConstants, Mail!Links

(* What the invariant says of a view's pages.                              *)
LEMMA MailTypes ==
  ASSUME MailInv, NEW v \in Views
  PROVE  /\ flag \in [Mail!Links -> Mail!Flags \cup {None}] /\ member \subseteq Mailboxes \ Owned
         /\ open \in Views \cup {None} /\ asks \subseteq Mail!Asks
         /\ excused \in [Views -> SUBSET Messages] /\ clicks \in Nat /\ others \in Nat
         /\ cache \in [Views -> Mail!Lists \cup {None}] /\ fetch \in [Views -> Mail!Fetches \cup {None}]
         /\ cache[v] # None =>
              /\ cache[v] \in Mail!Lists /\ cache[v].pages # <<>>
              /\ cache[v].pages \in Seq(Mail!PageType) /\ cache[v].stay \in SUBSET Messages
              /\ ListRight(v, flag, cache[v])
              /\ Mail!Rows(cache[v].pages) \subseteq Mail!RowType
              /\ cache[v].stale \in BOOLEAN /\ cache[v].failed \in BOOLEAN
         /\ fetch[v] # None =>
              /\ fetch[v] \in Mail!Fetches
              /\ fetch[v].pages \in Seq(Mail!PageType) /\ fetch[v].stay \in SUBSET Messages
              /\ Len(fetch[v].pages) <= fetch[v].want /\ fetch[v].want \in Nat \ {0}
              /\ ListRight(v, flag, fetch[v])
              /\ Mail!Rows(fetch[v].pages) \subseteq Mail!RowType
              /\ fetch[v].kind \in {"all", "more"}
  <1>1. Mail!TypeOK
    BY DEF MailInv
  <1>2. cache[v] # None => cache[v] \in Mail!Lists /\ cache[v].pages # <<>>
    BY <1>1 DEF Mail!TypeOK
  <1>3. fetch[v] # None => fetch[v] \in Mail!Fetches /\ Len(fetch[v].pages) <= fetch[v].want
    BY <1>1 DEF Mail!TypeOK
  <1>4. cache[v] # None => /\ cache[v].pages \in Seq(Mail!PageType) /\ cache[v].stay \in SUBSET Messages
                           /\ cache[v].stale \in BOOLEAN /\ cache[v].failed \in BOOLEAN
    BY <1>2 DEF Mail!Lists
  <1>5. fetch[v] # None => /\ fetch[v].pages \in Seq(Mail!PageType) /\ fetch[v].stay \in SUBSET Messages
                           /\ fetch[v].want \in Nat \ {0} /\ fetch[v].kind \in {"all", "more"}
    BY <1>3 DEF Mail!Fetches
  <1>6. /\ cache[v] # None => ListRight(v, flag, cache[v])
        /\ fetch[v] # None => ListRight(v, flag, fetch[v])
    BY DEF MailInv, ListsRight
  <1>7. /\ cache[v] # None => Mail!Rows(cache[v].pages) \subseteq Mail!RowType
        /\ fetch[v] # None => Mail!Rows(fetch[v].pages) \subseteq Mail!RowType
    BY <1>4, <1>5, PagesTyped
  <1> QED
    BY <1>1, <1>2, <1>3, <1>4, <1>5, <1>6, <1>7 DEF Mail!TypeOK

(* The types of the pages, which every step must preserve.                 *)
ListsTyped ==
    /\ cache \in [Views -> Mail!Lists \cup {None}]
    /\ fetch \in [Views -> Mail!Fetches \cup {None}]
    /\ \A v \in Views :
         /\ cache[v] # None => cache[v].pages # <<>>
         /\ fetch[v] # None => Len(fetch[v].pages) <= fetch[v].want

LEMMA TypesOfLists ==
  MailInv => ListsTyped /\ ListsRight
  BY DEF ListsTyped, ListsRight, Mail!TypeOK, MailInv

LEMMA TypesNext ==
  ASSUME ListsTyped', ListsRight', flag' \in [Mail!Links -> Mail!Flags \cup {None}],
         member' \subseteq Mailboxes \ Owned, open' \in Views \cup {None},
         asks' \subseteq Mail!Asks, excused' \in [Views -> SUBSET Messages],
         clicks' \in Nat, others' \in Nat
  PROVE  Mail!TypeOK'
  BY DEF ListsTyped, ListsRight, ListRight, PagesRight, Mail!TypeOK

(* A message that stays has matched the view all along.                    *)
LEMMA StaysRight ==
  ASSUME NEW v \in Views, NEW fl, NEW new, NEW e, e \in Mail!Lists \/ e \in Mail!Fetches,
         \A l \in Mail!Links : fl[l] # None => new[l] # None,
         ListRight(v, fl, e)
  PROVE  ListRight(v, new, [e EXCEPT !.stay = e.stay \cap Mail!Matching(new, v)])
  <1> DEFINE e2 == [e EXCEPT !.stay = e.stay \cap Mail!Matching(new, v)]
  <1>1. e2.pages = e.pages /\ e2.stay = e.stay \cap Mail!Matching(new, v) /\ e.pages \in Seq(Mail!PageType)
    BY DEF Mail!Lists, Mail!Fetches
  <1> HIDE DEF e2
  <1>2. PagesRight(e2.pages, e2.stay)
    BY <1>1 DEF ListRight, PagesRight, Mail!Covered
  <1>3. \A r \in Mail!Rows(e2.pages) : new[<<r.msg, v.mailbox>>] # None
    <2> SUFFICES ASSUME NEW r \in Mail!Rows(e.pages) PROVE new[<<r.msg, v.mailbox>>] # None
      BY <1>1
    <2>1. r \in Mail!RowType
      BY <1>1, PagesTyped
    <2>2. r.msg \in Messages
      BY <2>1 DEF Mail!RowType
    <2>3. <<r.msg, v.mailbox>> \in Mail!Links /\ fl[<<r.msg, v.mailbox>>] # None
      BY <2>2, MailFacts DEF ListRight
    <2> QED
      BY <2>3
  <1>4. e2.stay \subseteq Mail!Matching(new, v)
    BY <1>1
  <1>5. ListRight(v, new, e2)
    BY <1>2, <1>3, <1>4 DEF ListRight
  <1> QED
    BY <1>5 DEF e2

(* The pages and what is done with them stay as they are.                  *)
SamePages(v) ==
    /\ cache'[v] = None <=> cache[v] = None
    /\ cache[v] # None => /\ cache'[v].pages = cache[v].pages
                          /\ cache'[v].stale = cache[v].stale
    /\ fetch'[v] = None <=> fetch[v] = None
    /\ fetch[v] # None => /\ fetch'[v].pages = fetch[v].pages
                          /\ fetch'[v].kind = fetch[v].kind

(* The server's flags change; no link disappears.                          *)
LEMMA FlagsSet ==
  ASSUME MailInv, NEW fl \in [Mail!Links -> Mail!Flags \cup {None}],
         \A l \in Mail!Links : flag[l] # None => fl[l] # None, Mail!SetFlags(fl)
  PROVE  /\ flag' = fl /\ ListsTyped' /\ ListsRight'
         /\ \A v \in Views : SamePages(v)
  <1>1. flag' = fl
    BY DEF Mail!SetFlags
  <1>2. ASSUME NEW v \in Views
        PROVE  /\ cache'[v] = Mail!Stays(cache[v], fl, v) /\ fetch'[v] = Mail!Stays(fetch[v], fl, v)
               /\ cache'[v] \in Mail!Lists \cup {None} /\ fetch'[v] \in Mail!Fetches \cup {None}
               /\ SamePages(v)
               /\ cache'[v] # None => cache'[v].pages # <<>> /\ ListRight(v, fl, cache'[v])
               /\ fetch'[v] # None => /\ Len(fetch'[v].pages) <= fetch'[v].want
                                      /\ ListRight(v, fl, fetch'[v])
    <2>1. cache'[v] = Mail!Stays(cache[v], fl, v) /\ fetch'[v] = Mail!Stays(fetch[v], fl, v)
      BY DEF Mail!SetFlags
    <2>2. CASE cache[v] = None /\ fetch[v] = None
      BY <2>1, <2>2 DEF Mail!Stays, SamePages
    <2>3. ASSUME cache[v] # None
          PROVE  /\ cache'[v] \in Mail!Lists /\ cache'[v] # None
                 /\ cache'[v].pages = cache[v].pages /\ cache'[v].stale = cache[v].stale
                 /\ cache'[v].pages # <<>> /\ ListRight(v, fl, cache'[v])
      <3>1. cache[v] \in Mail!Lists /\ ListRight(v, flag, cache[v]) /\ cache[v].pages # <<>>
        BY <2>3, MailTypes
      <3>2. cache'[v] = [cache[v] EXCEPT !.stay = cache[v].stay \cap Mail!Matching(fl, v)]
        BY <2>1, <2>3 DEF Mail!Stays
      <3>3. ListRight(v, fl, cache'[v])
        BY <3>1, <3>2, StaysRight
      <3>4. /\ cache'[v] \in Mail!Lists /\ cache'[v].pages = cache[v].pages
            /\ cache'[v].stale = cache[v].stale
        BY <3>1, <3>2 DEF Mail!Lists
      <3>5. cache'[v] # None
        BY <3>4, MailFacts
      <3> QED
        BY <3>1, <3>3, <3>4, <3>5
    <2>4. ASSUME fetch[v] # None
          PROVE  /\ fetch'[v] \in Mail!Fetches /\ fetch'[v] # None
                 /\ fetch'[v].pages = fetch[v].pages /\ fetch'[v].kind = fetch[v].kind
                 /\ Len(fetch'[v].pages) <= fetch'[v].want /\ ListRight(v, fl, fetch'[v])
      <3>1. /\ fetch[v] \in Mail!Fetches /\ ListRight(v, flag, fetch[v])
            /\ Len(fetch[v].pages) <= fetch[v].want
        BY <2>4, MailTypes
      <3>2. fetch'[v] = [fetch[v] EXCEPT !.stay = fetch[v].stay \cap Mail!Matching(fl, v)]
        BY <2>1, <2>4 DEF Mail!Stays
      <3>3. ListRight(v, fl, fetch'[v])
        BY <3>1, <3>2, StaysRight
      <3>4. /\ fetch'[v] \in Mail!Fetches /\ fetch'[v].pages = fetch[v].pages
            /\ fetch'[v].kind = fetch[v].kind /\ fetch'[v].want = fetch[v].want
        BY <3>1, <3>2 DEF Mail!Fetches
      <3>5. fetch'[v] # None
        BY <3>4, MailFacts
      <3> QED
        BY <3>1, <3>3, <3>4, <3>5
    <2>5. /\ cache[v] = None => cache'[v] = None
          /\ fetch[v] = None => fetch'[v] = None
      BY <2>1 DEF Mail!Stays
    <2> QED
      BY <2>1, <2>3, <2>4, <2>5 DEF SamePages
  <1>3. cache' = [v \in Views |-> Mail!Stays(cache[v], fl, v)] /\ fetch' = [v \in Views |-> Mail!Stays(fetch[v], fl, v)]
    BY DEF Mail!SetFlags
  <1>4. cache' \in [Views -> Mail!Lists \cup {None}] /\ fetch' \in [Views -> Mail!Fetches \cup {None}]
    BY <1>2, <1>3
  <1>5. ListsTyped'
    BY <1>2, <1>4 DEF ListsTyped
  <1>6. ListsRight'
    BY <1>1, <1>2 DEF ListsRight
  <1> QED
    BY <1>1, <1>2, <1>5, <1>6

(* A step that keeps the pages, and what is known of their rows.           *)
LEMMA RowsStayKnown ==
  ASSUME MailInv, open' = open, \A v \in Views : SamePages(v),
         \A v \in Views : excused[v] = Messages => excused'[v] = Messages,
         \A v \in Views, r \in Mail!RowType :
             flag[<<r.msg, v.mailbox>>] # None /\ Known(v, r) => Known(v, r)'
  PROVE  RowsKnown'
  <1> SUFFICES ASSUME NEW v \in Views
               PROVE  /\ fetch'[v] # None => \A r \in Mail!Rows(fetch'[v].pages) : Known(v, r)'
                      /\ cache'[v] # None => \A r \in Mail!Rows(cache'[v].pages) :
                            Known(v, r)' \/ cache'[v].stale \/ Refetching(v)'
                      /\ v = open' /\ fetch'[v] = None /\ cache'[v] # None =>
                            ~cache'[v].stale \/ excused'[v] = Messages
    BY DEF RowsKnown
  <1>1. SamePages(v)
    OBVIOUS
  <1>2. ASSUME fetch[v] # None, NEW r \in Mail!Rows(fetch[v].pages)
        PROVE  Known(v, r)'
    <2>1. r \in Mail!RowType /\ flag[<<r.msg, v.mailbox>>] # None
      BY <1>2, MailTypes DEF ListRight
    <2>2. Known(v, r)
      BY <1>2 DEF MailInv, RowsKnown
    <2> QED
      BY <2>1, <2>2
  <1>3. ASSUME cache[v] # None, NEW r \in Mail!Rows(cache[v].pages)
        PROVE  Known(v, r)' \/ cache[v].stale \/ Refetching(v)
    <2>1. r \in Mail!RowType /\ flag[<<r.msg, v.mailbox>>] # None
      BY <1>3, MailTypes DEF ListRight
    <2>2. Known(v, r) \/ cache[v].stale \/ Refetching(v)
      BY <1>3 DEF MailInv, RowsKnown
    <2> QED
      BY <2>1, <2>2
  <1>4. Refetching(v) => Refetching(v)'
    BY <1>1 DEF SamePages, Refetching
  <1>5. v = open' /\ fetch'[v] = None /\ cache'[v] # None =>
            ~cache'[v].stale \/ excused'[v] = Messages
    BY <1>1 DEF SamePages, MailInv, RowsKnown
  <1> QED
    BY <1>1, <1>2, <1>3, <1>4, <1>5 DEF SamePages

(* Nothing changes but requests, what is excused and the counters.         *)
LEMMA MailUnmoved ==
  ASSUME MailInv, UNCHANGED <<flag, cache, fetch>>
  PROVE  ListsTyped' /\ ListsRight' /\ \A v \in Views : SamePages(v)
  <1>1. ListsTyped' /\ ListsRight'
    BY TypesOfLists DEF ListsTyped, ListsRight
  <1>2. \A v \in Views : SamePages(v)
    BY DEF SamePages
  <1> QED
    BY <1>1, <1>2

LEMMA LinkOfMessage ==
  ASSUME MailInv, NEW m \in Messages, NEW mb \in Mail!ReadableLinks(m)
  PROVE  /\ mb \in Mailboxes /\ <<m, mb>> \in Mail!Links
         /\ flag[<<m, mb>>] \in Mail!Flags /\ flag[<<m, mb>>] # None
  <1>1. mb \in Mailboxes /\ flag[<<m, mb>>] # None
    BY DEF Mail!ReadableLinks, Mail!Linked
  <1>2. <<m, mb>> \in Mail!Links
    BY <1>1 DEF Mail!Links
  <1> QED
    BY <1>1, <1>2 DEF MailInv, Mail!TypeOK

(* Rows of other messages are as current as they were.                     *)
LEMMA OtherRows ==
  ASSUME NEW m \in Messages, NEW mb, NEW f, flag \in [Mail!Links -> Mail!Flags \cup {None}],
         <<m, mb>> \in Mail!Links, flag' = [flag EXCEPT ![<<m, mb>>] = f],
         NEW v \in Views, NEW r \in Mail!RowType, r.msg # m, r = Mail!Row(v, r.msg)
  PROVE  r = Mail!Row(v, r.msg)'
  <1>1. r.msg \in Messages
    BY DEF Mail!RowType
  <1>2. <<r.msg, v.mailbox>> \in Mail!Links /\ <<r.msg, v.mailbox>> # <<m, mb>>
    BY <1>1, MailFacts
  <1>3. flag'[<<r.msg, v.mailbox>>] = flag[<<r.msg, v.mailbox>>]
    BY <1>2
  <1> QED
    BY <1>3 DEF Mail!Row

LEMMA ServeStarKeeps ==
  ASSUME MailInv, NEW a, Mail!ServeStar(a)
  PROVE  MailInv'
  <1>1. a \in Mail!Asks /\ a \in asks /\ a.at = "sent"
    BY DEF Mail!ServeStar, MailInv, Mail!TypeOK
  <1>2. a.msg \in Messages /\ a.value \in BOOLEAN
    BY <1>1 DEF Mail!Asks
  <1>3. PICK mb \in Mail!ReadableLinks(a.msg) :
          Mail!SetFlags([flag EXCEPT ![<<a.msg, mb>>].starred = a.value])
    BY DEF Mail!ServeStar
  <1>4. /\ mb \in Mailboxes /\ <<a.msg, mb>> \in Mail!Links
        /\ flag[<<a.msg, mb>>] \in Mail!Flags
    BY <1>2, LinkOfMessage
  <1> DEFINE f == [flag[<<a.msg, mb>>] EXCEPT !.starred = a.value]
             fl == [flag EXCEPT ![<<a.msg, mb>>] = f]
  <1>5. f \in Mail!Flags /\ f # None
    <2>1. f \in Mail!Flags
      BY <1>2, <1>4 DEF Mail!Flags
    <2> QED
      BY <2>1, MailFacts
  <1>6. Mail!SetFlags(fl)
    BY <1>3
  <1>7. flag \in [Mail!Links -> Mail!Flags \cup {None}]
    BY DEF MailInv, Mail!TypeOK
  <1> HIDE DEF f
  <1>8. fl \in [Mail!Links -> Mail!Flags \cup {None}] /\ \A l \in Mail!Links : flag[l] # None => fl[l] # None
    BY <1>4, <1>5, <1>7
  <1> HIDE DEF fl
  <1>9. flag' = fl /\ ListsTyped' /\ ListsRight' /\ \A v \in Views : SamePages(v)
    BY <1>6, <1>8, FlagsSet
  <1> DEFINE b == [a EXCEPT !.at = "answered"]
  <1>10. asks' = (asks \ {a}) \cup {b} /\ b \in Mail!Asks /\ b.msg = a.msg /\ b.at = "answered"
    BY <1>1 DEF Mail!ServeStar, Mail!Answered, Mail!Asks
  <1> HIDE DEF b
  <1>11. UNCHANGED <<member, open, excused, clicks, others>>
    BY DEF Mail!ServeStar
  <1>12. Mail!TypeOK'
    BY <1>8, <1>9, <1>10, <1>11, TypesNext DEF MailInv, Mail!TypeOK
  <1>13. ASSUME NEW v \in Views, NEW r \in Mail!RowType, Known(v, r)
         PROVE  Known(v, r)'
    <2>1. CASE r.msg = a.msg
      BY <1>10, <2>1 DEF Known
    <2>2. CASE r.msg # a.msg
      <3>1. r = Mail!Row(v, r.msg) => r = Mail!Row(v, r.msg)'
        BY <1>2, <1>4, <1>7, <1>9, <2>2, OtherRows DEF fl
      <3>2. r.msg \in excused[v] => r.msg \in excused'[v]
        BY <1>11
      <3>3. (\E c \in asks : c.at = "answered" /\ c.msg = r.msg)
              => (\E c \in asks' : c.at = "answered" /\ c.msg = r.msg)
        BY <1>1, <1>10
      <3> QED
        BY <1>13, <3>1, <3>2, <3>3 DEF Known
    <2> QED
      BY <2>1, <2>2
  <1>14. RowsKnown'
    BY <1>9, <1>11, <1>13, RowsStayKnown
  <1> QED
    BY <1>9, <1>12, <1>14 DEF MailInv

LEMMA FlagElsewhereKeeps ==
  ASSUME MailInv, NEW m \in Messages, Mail!FlagElsewhere(m)
  PROVE  MailInv'
  <1>0. PICK mb \in Mail!ReadableLinks(m) : \E f \in Mail!Changed(flag[<<m, mb>>]) :
          Mail!SetFlags([flag EXCEPT ![<<m, mb>>] = f])
    BY DEF Mail!FlagElsewhere
  <1>1. PICK f \in Mail!Changed(flag[<<m, mb>>]) : Mail!SetFlags([flag EXCEPT ![<<m, mb>>] = f])
    BY <1>0
  <1>2. /\ mb \in Mailboxes /\ <<m, mb>> \in Mail!Links
        /\ flag[<<m, mb>>] \in Mail!Flags
    BY LinkOfMessage
  <1>3. f \in Mail!Flags /\ f # None
    <2>1. f \in Mail!Flags
      BY <1>2 DEF Mail!Changed, Mail!Flags
    <2> QED
      BY <2>1, MailFacts
  <1> DEFINE fl == [flag EXCEPT ![<<m, mb>>] = f]
  <1>4. flag \in [Mail!Links -> Mail!Flags \cup {None}]
    BY DEF MailInv, Mail!TypeOK
  <1>5. fl \in [Mail!Links -> Mail!Flags \cup {None}] /\ \A l \in Mail!Links : flag[l] # None => fl[l] # None
    BY <1>2, <1>3, <1>4
  <1>6. Mail!SetFlags(fl)
    BY <1>1
  <1> HIDE DEF fl
  <1>7. flag' = fl /\ ListsTyped' /\ ListsRight' /\ \A v \in Views : SamePages(v)
    BY <1>5, <1>6, FlagsSet
  <1>8. /\ UNCHANGED <<member, open, asks, clicks>> /\ others' = others + 1
        /\ excused' = [v \in Views |-> excused[v] \cup {m}]
    BY DEF Mail!FlagElsewhere, Mail!Excuse
  <1>9. Mail!TypeOK'
    <2>1. excused' \in [Views -> SUBSET Messages] /\ others' \in Nat
      BY <1>8 DEF MailInv, Mail!TypeOK
    <2> QED
      BY <1>5, <1>7, <1>8, <2>1, TypesNext DEF MailInv, Mail!TypeOK
  <1>10. ASSUME NEW v \in Views, NEW r \in Mail!RowType, Known(v, r)
         PROVE  Known(v, r)'
    <2>1. CASE r.msg = m
      BY <1>8, <2>1 DEF Known
    <2>2. CASE r.msg # m
      <3>1. r = Mail!Row(v, r.msg) => r = Mail!Row(v, r.msg)'
        BY <1>2, <1>4, <1>7, <2>2, OtherRows DEF fl
      <3> QED
        BY <1>8, <1>10, <3>1 DEF Known
    <2> QED
      BY <2>1, <2>2
  <1>11. \A v \in Views : excused[v] = Messages => excused'[v] = Messages
    BY <1>8, MailFacts
  <1>12. RowsKnown'
    BY <1>7, <1>8, <1>10, <1>11, RowsStayKnown
  <1> QED
    BY <1>7, <1>9, <1>12 DEF MailInv

LEMMA DeliverKeeps ==
  ASSUME MailInv, NEW m \in Messages, Mail!Deliver(m)
  PROVE  MailInv'
  <1> DEFINE fl == [l \in Mail!Links |-> IF l[1] = m /\ l[2] \in To[m] THEN Mail!Fresh ELSE flag[l]]
  <1>1. flag \in [Mail!Links -> Mail!Flags \cup {None}]
    BY DEF MailInv, Mail!TypeOK
  <1>2. Mail!Fresh \in Mail!Flags /\ Mail!Fresh # None
    <2>1. Mail!Fresh \in Mail!Flags
      BY DEF Mail!Fresh, Mail!Flags
    <2> QED
      BY <2>1, MailFacts
  <1>3. fl \in [Mail!Links -> Mail!Flags \cup {None}] /\ \A l \in Mail!Links : flag[l] # None => fl[l] # None
    BY <1>1, <1>2
  <1>4. Mail!SetFlags(fl)
    BY DEF Mail!Deliver
  <1>5. \A n \in Messages, mb \in Mailboxes : n # m => fl[<<n, mb>>] = flag[<<n, mb>>]
    BY DEF Mail!Links
  <1> HIDE DEF fl
  <1>6. flag' = fl /\ ListsTyped' /\ ListsRight' /\ \A v \in Views : SamePages(v)
    BY <1>3, <1>4, FlagsSet
  <1>7. UNCHANGED <<member, open, asks, excused, clicks, others>>
    BY DEF Mail!Deliver
  <1>8. Mail!TypeOK'
    BY <1>3, <1>6, <1>7, TypesNext DEF MailInv, Mail!TypeOK
  <1>9. ASSUME NEW v \in Views, NEW r \in Mail!RowType, flag[<<r.msg, v.mailbox>>] # None, Known(v, r)
        PROVE  Known(v, r)'
    <2>1. v.mailbox \in Mailboxes /\ r.msg \in Messages
      BY MailFacts, PagesAssumption DEF Mail!MailboxConstants, Mail!RowType
    <2>2. r.msg # m
      BY <1>9, <2>1 DEF Mail!Deliver, Mail!Linked
    <2>3. flag'[<<r.msg, v.mailbox>>] = flag[<<r.msg, v.mailbox>>]
      BY <1>5, <1>6, <2>1, <2>2
    <2> QED
      BY <1>7, <1>9, <2>3 DEF Known, Mail!Row
  <1>10. RowsKnown'
    BY <1>6, <1>7, <1>9, RowsStayKnown
  <1> QED
    BY <1>6, <1>8, <1>10 DEF MailInv

(* Requests that are sent, refused or lost, and access that is lost.       *)
LEMMA RequestKeeps ==
  ASSUME MailInv, UNCHANGED <<flag, cache, fetch, open>>,
         member' \subseteq member, asks' \subseteq Mail!Asks, clicks' \in Nat, others' \in Nat,
         excused' \in [Views -> SUBSET Messages],
         \A v \in Views : excused[v] \subseteq excused'[v],
         \A a \in asks \ asks' : a.at = "sent" \/ \A v \in Views : a.msg \in excused'[v]
  PROVE  MailInv'
  <1>1. ListsTyped' /\ ListsRight' /\ \A v \in Views : SamePages(v)
    BY MailUnmoved
  <1>2. Mail!TypeOK'
    BY <1>1, TypesNext DEF MailInv, Mail!TypeOK
  <1>3. \A v \in Views, r \in Mail!RowType : Known(v, r) => Known(v, r)'
    BY DEF Known, Mail!Row
  <1>4. \A v \in Views : excused[v] = Messages => excused'[v] = Messages
    OBVIOUS
  <1>5. RowsKnown'
    BY <1>1, <1>3, <1>4, RowsStayKnown
  <1> QED
    BY <1>1, <1>2, <1>5 DEF MailInv

LEMMA StarKeeps ==
  ASSUME MailInv, Mail!Star \/ Mail!Move
  PROVE  MailInv'
  <1>1. open \in Views /\ cache[open] # None
    BY DEF Mail!Star, Mail!Move, MailInv, Mail!TypeOK
  <1>2. Mail!Rows(cache[open].pages) \subseteq Mail!RowType
    BY <1>1, MailTypes
  <1>3. PICK row \in Mail!Rows(cache[open].pages), what \in {"star", "move"}, value \in BOOLEAN :
          asks' = asks \cup {[id |-> clicks, what |-> what, msg |-> row.msg,
                              value |-> value, at |-> "sent"]}
    <2>1. ASSUME Mail!Star
          PROVE  \E row \in Mail!Rows(cache[open].pages), what \in {"star", "move"}, value \in BOOLEAN :
                   asks' = asks \cup {[id |-> clicks, what |-> what, msg |-> row.msg,
                                       value |-> value, at |-> "sent"]}
      <3>1. PICK row \in Mail!Rows(cache[open].pages) :
              asks' = asks \cup {[id |-> clicks, what |-> "star", msg |-> row.msg,
                                  value |-> ~row.starred, at |-> "sent"]}
        BY <2>1 DEF Mail!Star
      <3>2. (~row.starred) \in BOOLEAN
        OBVIOUS
      <3> QED
        BY <3>1, <3>2
    <2>2. ASSUME Mail!Move
          PROVE  \E row \in Mail!Rows(cache[open].pages), what \in {"star", "move"}, value \in BOOLEAN :
                   asks' = asks \cup {[id |-> clicks, what |-> what, msg |-> row.msg,
                                       value |-> value, at |-> "sent"]}
      BY <2>2 DEF Mail!Move
    <2> QED
      BY <2>1, <2>2
  <1>4. row.msg \in Messages
    BY <1>2, <1>3 DEF Mail!RowType
  <1>5. asks \subseteq Mail!Asks /\ clicks \in Nat /\ others \in Nat /\ excused \in [Views -> SUBSET Messages]
    BY DEF MailInv, Mail!TypeOK
  <1>6. asks' \subseteq Mail!Asks
    BY <1>3, <1>4, <1>5 DEF Mail!Asks
  <1>7. /\ UNCHANGED <<flag, member, cache, fetch, open, excused, others>>
        /\ clicks' = clicks + 1
    BY DEF Mail!Star, Mail!Move
  <1> QED
    BY <1>3, <1>5, <1>6, <1>7, RequestKeeps

LEMMA RefuseKeeps ==
  ASSUME MailInv, NEW a, Mail!Refuse(a)
  PROVE  MailInv'
  BY RequestKeeps DEF Mail!Refuse, MailInv, Mail!TypeOK

LEMMA AnswerLostKeeps ==
  ASSUME MailInv, NEW a, Mail!AnswerLost(a)
  PROVE  MailInv'
  <1>1. a \in Mail!Asks /\ asks' = asks \ {a} /\ asks \subseteq Mail!Asks
    BY DEF Mail!AnswerLost, MailInv, Mail!TypeOK
  <1>2. a.msg \in Messages
    BY <1>1 DEF Mail!Asks
  <1>3. excused' = [v \in Views |-> excused[v] \cup {a.msg}] /\ excused \in [Views -> SUBSET Messages]
    BY DEF Mail!AnswerLost, Mail!Excuse, MailInv, Mail!TypeOK
  <1>4. /\ excused' \in [Views -> SUBSET Messages]
        /\ \A v \in Views : excused[v] \subseteq excused'[v] /\ a.msg \in excused'[v]
    BY <1>2, <1>3
  <1>5. /\ UNCHANGED <<flag, member, cache, fetch, open, clicks>>
        /\ clicks \in Nat /\ others' = others + 1 /\ others \in Nat
    BY DEF Mail!AnswerLost, MailInv, Mail!TypeOK
  <1>6. \A b \in asks \ asks' : b = a
    BY <1>1
  <1> QED
    BY <1>1, <1>4, <1>5, <1>6, RequestKeeps

LEMMA LoseAccessKeeps ==
  ASSUME MailInv, NEW mb, Mail!LoseAccess(mb)
  PROVE  MailInv'
  BY RequestKeeps DEF Mail!LoseAccess, MailInv, Mail!TypeOK

(* A step of one view: its pages c and what is under way for it, e.        *)
ViewRight(w, c, e) ==
    /\ c # None => c \in Mail!Lists /\ c.pages # <<>> /\ ListRight(w, flag, c)
    /\ e # None => e \in Mail!Fetches /\ Len(e.pages) <= e.want /\ ListRight(w, flag, e)

ViewKnown(w, c, e) ==
    /\ e # None => \A r \in Mail!Rows(e.pages) : Known(w, r)'
    /\ c # None => \A r \in Mail!Rows(c.pages) :
          Known(w, r)' \/ c.stale \/ (e # None /\ e.kind = "all")
    /\ w = open' /\ e = None /\ c # None => ~c.stale \/ excused'[w] = Messages

LEMMA OneView ==
  ASSUME MailInv, NEW w \in Views, NEW c, NEW e,
         UNCHANGED <<flag, member, asks>>, open' \in Views \cup {None},
         cache' = [cache EXCEPT ![w] = c], fetch' = [fetch EXCEPT ![w] = e],
         excused' \in [Views -> SUBSET Messages], clicks' \in Nat, others' \in Nat,
         \A v \in Views \ {w} : excused'[v] = excused[v] /\ (v = open' => v = open),
         ViewRight(w, c, e), ViewKnown(w, c, e)
  PROVE  MailInv'
  <1>1. /\ cache \in [Views -> Mail!Lists \cup {None}] /\ fetch \in [Views -> Mail!Fetches \cup {None}]
        /\ Mail!TypeOK
    BY DEF MailInv, Mail!TypeOK
  <1>2. cache' \in [Views -> Mail!Lists \cup {None}] /\ fetch' \in [Views -> Mail!Fetches \cup {None}]
    BY <1>1 DEF ViewRight
  <1>3. cache'[w] = c /\ fetch'[w] = e
    BY <1>1
  <1>4. \A v \in Views \ {w} : cache'[v] = cache[v] /\ fetch'[v] = fetch[v]
    BY <1>1
  <1>5. ListsTyped' /\ ListsRight'
    <2> SUFFICES ASSUME NEW v \in Views
                 PROVE  /\ cache'[v] # None => cache'[v].pages # <<>> /\ ListRight(v, flag, cache'[v])
                        /\ fetch'[v] # None => /\ Len(fetch'[v].pages) <= fetch'[v].want
                                               /\ ListRight(v, flag, fetch'[v])
      BY <1>2 DEF ListsTyped, ListsRight
    <2>1. CASE v = w
      BY <1>3, <2>1 DEF ViewRight
    <2>2. CASE v # w
      <3>1. cache'[v] = cache[v] /\ fetch'[v] = fetch[v]
        BY <1>4, <2>2
      <3> QED
        BY <3>1, MailTypes
    <2> QED
      BY <2>1, <2>2
  <1>6. Mail!TypeOK'
    BY <1>1, <1>5, TypesNext DEF Mail!TypeOK
  <1>7. RowsKnown'
    <2> SUFFICES ASSUME NEW v \in Views
                 PROVE  /\ fetch'[v] # None => \A r \in Mail!Rows(fetch'[v].pages) : Known(v, r)'
                        /\ cache'[v] # None => \A r \in Mail!Rows(cache'[v].pages) :
                              Known(v, r)' \/ cache'[v].stale \/ Refetching(v)'
                        /\ v = open' /\ fetch'[v] = None /\ cache'[v] # None =>
                              ~cache'[v].stale \/ excused'[v] = Messages
      BY DEF RowsKnown
    <2>1. CASE v = w
      BY <1>3, <2>1 DEF ViewKnown, Refetching
    <2>2. CASE v # w
      <3>1. /\ cache'[v] = cache[v] /\ fetch'[v] = fetch[v]
            /\ excused'[v] = excused[v] /\ (v = open' => v = open)
        BY <1>4, <2>2
      <3>2. \A r : Known(v, r) => Known(v, r)'
        BY <3>1 DEF Known, Mail!Row
      <3>3. Refetching(v) => Refetching(v)'
        BY <3>1 DEF Refetching
      <3> QED
        BY <3>1, <3>2, <3>3 DEF MailInv, RowsKnown
    <2> QED
      BY <2>1, <2>2
  <1> QED
    BY <1>5, <1>6, <1>7 DEF MailInv

(* What is under way for a view when all its pages are fetched anew.       *)
LEMMA RefetchRight ==
  ASSUME MailInv, NEW w \in Views, NEW e, e = Mail!Refetch(w)
  PROVE  /\ e \in Mail!Fetches /\ e # None /\ e.kind = "all" /\ Mail!Rows(e.pages) = {}
         /\ Len(e.pages) <= e.want /\ ListRight(w, flag, e)
  <1>1. cache[w] # None => Len(cache[w].pages) \in Nat \ {0}
    BY MailTypes, PagesTyped
  <1>2. Mail!Matching(flag, w) \in SUBSET Messages
    BY DEF Mail!Matching
  <1>3. PagesRight(<<>>, Mail!Matching(flag, w)) /\ Mail!Rows(<<>>) = {} /\ <<>> \in Seq(Mail!PageType)
    BY NoPages
  <1>4. /\ e.pages = <<>> /\ e.kind = "all" /\ e.stay = Mail!Matching(flag, w)
        /\ e.want = IF cache[w] = None THEN 1 ELSE Len(cache[w].pages)
    BY DEF Mail!Refetch
  <1>5. e \in Mail!Fetches
    BY <1>1, <1>2, <1>3 DEF Mail!Refetch, Mail!Fetches
  <1>6. Len(<<>>) = 0
    OBVIOUS
  <1>7. Len(e.pages) <= e.want
    BY <1>1, <1>4, <1>6
  <1>8. ListRight(w, flag, e)
    BY <1>3, <1>4 DEF ListRight
  <1>9. e # None
    BY <1>5, MailFacts
  <1> QED
    BY <1>3, <1>4, <1>5, <1>7, <1>8, <1>9

LEMMA OpenKeeps ==
  ASSUME MailInv, NEW v \in Views, Mail!Open(v)
  PROVE  MailInv'
  <1>1. /\ open' = v /\ clicks' = clicks + 1 /\ UNCHANGED <<flag, member, cache, asks, others>>
        /\ clicks \in Nat /\ others \in Nat
        /\ cache \in [Views -> Mail!Lists \cup {None}] /\ fetch \in [Views -> Mail!Fetches \cup {None}]
        /\ excused \in [Views -> SUBSET Messages]
    BY DEF Mail!Open, MailInv, Mail!TypeOK
  <1>2. cache' = [cache EXCEPT ![v] = cache[v]]
    BY <1>1
  <1>5. /\ UNCHANGED <<flag, member, asks>> /\ open' \in Views \cup {None}
        /\ clicks' \in Nat /\ others' \in Nat
    BY <1>1
  <1>3. CASE fetch[v] = None /\ fetch' = [fetch EXCEPT ![v] = Mail!Refetch(v)]
               /\ excused' = [excused EXCEPT ![v] = {}]
    <2> DEFINE e == Mail!Refetch(v)
    <2>1. /\ e \in Mail!Fetches /\ e # None /\ e.kind = "all" /\ Mail!Rows(e.pages) = {}
          /\ Len(e.pages) <= e.want /\ ListRight(v, flag, e)
      BY RefetchRight
    <2>2. fetch' = [fetch EXCEPT ![v] = e]
      BY <1>3
    <2> HIDE DEF e
    <2>3. ViewRight(v, cache[v], e)
      BY <2>1, MailTypes DEF ViewRight
    <2>4. ViewKnown(v, cache[v], e)
      BY <2>1 DEF ViewKnown
    <2>5. excused' \in [Views -> SUBSET Messages]
          /\ \A w \in Views \ {v} : excused'[w] = excused[w] /\ (w = open' => w = open)
      BY <1>1, <1>3
    <2> QED
      BY <1>2, <1>5, <2>2, <2>3, <2>4, <2>5, OneView
  <1>4. CASE (fetch[v] # None \/ (cache[v] # None /\ ~cache[v].stale)) /\ UNCHANGED <<fetch, excused>>
    <2>1. fetch' = [fetch EXCEPT ![v] = fetch[v]]
      BY <1>1, <1>4
    <2>2. ViewRight(v, cache[v], fetch[v])
      BY MailTypes DEF ViewRight
    <2>3. \A r : Known(v, r) => Known(v, r)'
      BY <1>1, <1>4 DEF Known, Mail!Row
    <2>4. ViewKnown(v, cache[v], fetch[v])
      BY <1>4, <2>3 DEF ViewKnown, MailInv, RowsKnown, Refetching
    <2>5. excused' \in [Views -> SUBSET Messages]
          /\ \A w \in Views \ {v} : excused'[w] = excused[w] /\ (w = open' => w = open)
      BY <1>1, <1>4
    <2> QED
      BY <1>2, <1>5, <2>1, <2>2, <2>4, <2>5, OneView
  <1> QED
    BY <1>3, <1>4 DEF Mail!Open

LEMMA ComeBackKeeps ==
  ASSUME MailInv, Mail!ComeBack
  PROVE  MailInv'
  <1>1. /\ open' = open /\ clicks' = clicks + 1 /\ UNCHANGED <<flag, member, cache, asks, others>>
        /\ clicks \in Nat /\ others \in Nat /\ open \in Views
        /\ cache \in [Views -> Mail!Lists \cup {None}] /\ fetch \in [Views -> Mail!Fetches \cup {None}]
        /\ excused \in [Views -> SUBSET Messages]
        /\ fetch' = [fetch EXCEPT ![open] = Mail!Refetch(open)]
        /\ excused' = [excused EXCEPT ![open] = {}]
    BY DEF Mail!ComeBack, MailInv, Mail!TypeOK
  <1> DEFINE e == Mail!Refetch(open)
  <1>2. cache' = [cache EXCEPT ![open] = cache[open]] /\ fetch' = [fetch EXCEPT ![open] = e]
    BY <1>1
  <1>3. /\ e \in Mail!Fetches /\ e # None /\ e.kind = "all" /\ Mail!Rows(e.pages) = {}
        /\ Len(e.pages) <= e.want /\ ListRight(open, flag, e)
    BY <1>1, RefetchRight
  <1> HIDE DEF e
  <1>4. ViewRight(open, cache[open], e)
    BY <1>1, <1>3, MailTypes DEF ViewRight
  <1>5. ViewKnown(open, cache[open], e)
    BY <1>3 DEF ViewKnown
  <1>6. /\ UNCHANGED <<flag, member, asks>> /\ open' \in Views \cup {None}
        /\ clicks' \in Nat /\ others' \in Nat
    BY <1>1
  <1>7. /\ excused' \in [Views -> SUBSET Messages]
        /\ \A v \in Views \ {open} : excused'[v] = excused[v] /\ (v = open' => v = open)
    BY <1>1
  <1>8. open \in Views
    BY <1>1
  <1> QED
    BY <1>2, <1>4, <1>5, <1>6, <1>7, <1>8, OneView

LEMMA LoadMoreKeeps ==
  ASSUME MailInv, Mail!LoadMore
  PROVE  MailInv'
  <1>1. /\ open' = open /\ clicks' = clicks + 1 /\ UNCHANGED <<flag, member, cache, asks, others>>
        /\ clicks \in Nat /\ others \in Nat /\ open \in Views /\ cache[open] # None
        /\ cache \in [Views -> Mail!Lists \cup {None}] /\ fetch \in [Views -> Mail!Fetches \cup {None}]
        /\ excused \in [Views -> SUBSET Messages]
        /\ fetch' = [fetch EXCEPT ![open] = Mail!More(open)]
        /\ excused' = IF fetch[open] = None THEN excused
                      ELSE [excused EXCEPT ![open] = Messages]
    BY DEF Mail!LoadMore, MailInv, Mail!TypeOK
  <1> DEFINE e == Mail!More(open)
  <1>2. cache' = [cache EXCEPT ![open] = cache[open]] /\ fetch' = [fetch EXCEPT ![open] = e]
    BY <1>1
  <1>3. /\ cache[open] \in Mail!Lists /\ cache[open].pages # <<>>
        /\ cache[open].pages \in Seq(Mail!PageType) /\ cache[open].stay \in SUBSET Messages
        /\ ListRight(open, flag, cache[open]) /\ Mail!Rows(cache[open].pages) \subseteq Mail!RowType
        /\ Len(cache[open].pages) \in Nat
    BY <1>1, MailTypes, PagesTyped
  <1>4. /\ e.kind = "more" /\ e.pages = cache[open].pages /\ e.stay = cache[open].stay
        /\ e.want = Len(cache[open].pages) + 1 /\ e \in Mail!Fetches
    BY <1>3 DEF Mail!More, Mail!Fetches
  <1> HIDE DEF e
  <1>5. ViewRight(open, cache[open], e)
    BY <1>3, <1>4 DEF ViewRight, ListRight
  <1>6. \A r \in Mail!Rows(cache[open].pages) : Known(open, r)'
    <2> SUFFICES ASSUME NEW r \in Mail!Rows(cache[open].pages) PROVE Known(open, r)'
      OBVIOUS
    <2>1. r.msg \in Messages
      BY <1>3 DEF Mail!RowType
    <2>2. CASE fetch[open] = None
      <3>1. Known(open, r) \/ (cache[open].stale /\ excused[open] = Messages)
        BY <1>1, <2>2 DEF MailInv, RowsKnown, Refetching
      <3>2. excused' = excused
        BY <1>1, <2>2
      <3> QED
        BY <1>1, <2>1, <3>1, <3>2 DEF Known, Mail!Row
    <2>3. CASE fetch[open] # None
      BY <1>1, <2>1, <2>3 DEF Known
    <2> QED
      BY <2>2, <2>3
  <1>7. e # None
    BY <1>4, MailFacts
  <1>8. ViewKnown(open, cache[open], e)
    BY <1>4, <1>6, <1>7 DEF ViewKnown
  <1>9. /\ excused' \in [Views -> SUBSET Messages]
        /\ \A v \in Views \ {open} : excused'[v] = excused[v] /\ (v = open' => v = open)
    BY <1>1
  <1>10. /\ UNCHANGED <<flag, member, asks>> /\ open' \in Views \cup {None}
         /\ clicks' \in Nat /\ others' \in Nat /\ open \in Views
    BY <1>1
  <1> QED
    BY <1>2, <1>5, <1>8, <1>9, <1>10, OneView

LEMMA FetchPageKeeps ==
  ASSUME MailInv, NEW v \in Views, Mail!FetchPage(v)
  PROVE  MailInv'
  <1> DEFINE pages == fetch[v].pages
             made == Mail!Page(v, Mail!NextCursor(pages))
             kept == IF pages = <<>> THEN Mail!Matching(flag, v) ELSE fetch[v].stay
             e == [fetch[v] EXCEPT !.pages = Append(pages, made), !.stay = kept]
  <1>1. /\ UNCHANGED <<flag, member, cache, open, asks, excused, clicks, others>>
        /\ fetch[v] # None /\ Len(pages) < fetch[v].want
        /\ pages = <<>> \/ Mail!NextCursor(pages) # None
        /\ fetch' = [fetch EXCEPT ![v] = e]
    BY DEF Mail!FetchPage, Mail!Wanting
  <1>2. /\ clicks \in Nat /\ others \in Nat /\ open \in Views \cup {None}
        /\ cache \in [Views -> Mail!Lists \cup {None}] /\ fetch \in [Views -> Mail!Fetches \cup {None}]
        /\ excused \in [Views -> SUBSET Messages] /\ flag \in [Mail!Links -> Mail!Flags \cup {None}]
    BY DEF MailInv, Mail!TypeOK
  <1>3. /\ fetch[v] \in Mail!Fetches /\ pages \in Seq(Mail!PageType) /\ fetch[v].stay \in SUBSET Messages
        /\ fetch[v].want \in Nat /\ ListRight(v, flag, fetch[v]) /\ Len(pages) \in Nat
    BY <1>1, MailTypes, PagesTyped
  <1>4. /\ PagesRight(pages, fetch[v].stay) /\ fetch[v].stay \subseteq Mail!Matching(flag, v)
        /\ \A r \in Mail!Rows(pages) : flag[<<r.msg, v.mailbox>>] # None
    BY <1>3 DEF ListRight
  <1>5. Mail!Matching(flag, v) \subseteq Messages
    BY DEF Mail!Matching
  <1>6. kept \subseteq Mail!Matching(flag, v) /\ (pages # <<>> => kept = fetch[v].stay)
    BY <1>4
  <1> HIDE DEF kept
  <1>7. /\ Append(pages, made) \in Seq(Mail!PageType) /\ Len(Append(pages, made)) = Len(pages) + 1
        /\ PagesRight(Append(pages, made), kept)
        /\ Mail!Rows(Append(pages, made)) = Mail!Rows(pages) \cup made.rows
    BY <1>1, <1>2, <1>3, <1>4, <1>6, PageAppended
  <1>8. \A r \in made.rows : r.msg \in Mail!Beyond(v, Mail!NextCursor(pages)) /\ r = Mail!Row(v, r.msg)
    BY <1>2, <1>3, PagesTyped, PageRight
  <1> HIDE DEF made
  <1>9. /\ e.pages = Append(pages, made) /\ e.stay = kept /\ e.want = fetch[v].want
        /\ e.kind = fetch[v].kind /\ e \in Mail!Fetches
    BY <1>3, <1>5, <1>6, <1>7 DEF Mail!Fetches
  <1> HIDE DEF e
  <1>10. \A r \in Mail!Rows(e.pages) : flag[<<r.msg, v.mailbox>>] # None
    BY <1>4, <1>7, <1>8, <1>9 DEF Mail!Beyond, Mail!Matching
  <1>11. Len(e.pages) <= e.want /\ ListRight(v, flag, e)
    BY <1>1, <1>3, <1>6, <1>7, <1>9, <1>10 DEF ListRight
  <1>12. ViewRight(v, cache[v], e)
    BY <1>9, <1>11, MailTypes DEF ViewRight
  <1>13. \A r \in Mail!Rows(e.pages) : Known(v, r)'
    <2>1. \A r \in Mail!Rows(pages) : Known(v, r)
      BY <1>1 DEF MailInv, RowsKnown
    <2>2. \A r \in made.rows : Known(v, r)
      BY <1>8 DEF Known
    <2> QED
      BY <1>1, <1>7, <1>9, <2>1, <2>2 DEF Known, Mail!Row
  <1>14. e # None
    BY <1>9, MailFacts
  <1>15. \A r : Known(v, r) => Known(v, r)'
    BY <1>1 DEF Known, Mail!Row
  <1>16. ViewKnown(v, cache[v], e)
    BY <1>9, <1>13, <1>14, <1>15 DEF ViewKnown, MailInv, RowsKnown, Refetching
  <1>17. cache' = [cache EXCEPT ![v] = cache[v]]
    BY <1>1, <1>2
  <1> QED
    BY <1>1, <1>2, <1>12, <1>16, <1>17, OneView

LEMMA FetchDoneKeeps ==
  ASSUME MailInv, NEW v \in Views, Mail!FetchDone(v)
  PROVE  MailInv'
  <1> DEFINE c == [pages |-> fetch[v].pages, stay |-> fetch[v].stay,
                   stale |-> FALSE, failed |-> FALSE]
  <1>1. /\ UNCHANGED <<flag, member, open, asks, excused, clicks, others>> /\ fetch[v] # None
        /\ cache' = [cache EXCEPT ![v] = c] /\ fetch' = [fetch EXCEPT ![v] = None]
    BY DEF Mail!FetchDone
  <1>2. /\ clicks \in Nat /\ others \in Nat /\ open \in Views \cup {None}
        /\ excused \in [Views -> SUBSET Messages]
    BY DEF MailInv, Mail!TypeOK
  <1>3. /\ fetch[v] \in Mail!Fetches /\ fetch[v].pages \in Seq(Mail!PageType)
        /\ fetch[v].stay \in SUBSET Messages /\ fetch[v].want \in Nat \ {0}
        /\ ListRight(v, flag, fetch[v])
    BY <1>1, MailTypes
  <1>4. fetch[v].pages # <<>>
    BY <1>3, PagesTyped DEF Mail!FetchDone, Mail!Wanting
  <1>5. c \in Mail!Lists /\ c.pages = fetch[v].pages /\ c.stay = fetch[v].stay /\ c.stale = FALSE
    BY <1>3 DEF Mail!Lists
  <1> HIDE DEF c
  <1>6. ViewRight(v, c, None)
    BY <1>3, <1>4, <1>5 DEF ViewRight, ListRight
  <1>7. \A r \in Mail!Rows(c.pages) : Known(v, r)'
    BY <1>1, <1>5 DEF MailInv, RowsKnown, Known, Mail!Row
  <1>8. ViewKnown(v, c, None)
    BY <1>5, <1>7 DEF ViewKnown
  <1> QED
    BY <1>1, <1>2, <1>6, <1>8, OneView

LEMMA FetchFailsKeeps ==
  ASSUME MailInv, NEW v \in Views, Mail!FetchFails(v)
  PROVE  MailInv'
  <1> DEFINE c == IF cache[v] = None THEN None ELSE [cache[v] EXCEPT !.failed = TRUE]
  <1>1. /\ UNCHANGED <<flag, member, open, asks, clicks>> /\ (others' = others \/ others' = others + 1)
        /\ cache' = [cache EXCEPT ![v] = c] /\ fetch' = [fetch EXCEPT ![v] = None]
        /\ excused' = [excused EXCEPT ![v] = Messages]
    BY DEF Mail!FetchFails
  <1>2. /\ clicks \in Nat /\ others \in Nat /\ open \in Views \cup {None}
        /\ excused \in [Views -> SUBSET Messages]
    BY DEF MailInv, Mail!TypeOK
  <1>3. cache[v] # None => /\ cache[v] \in Mail!Lists /\ cache[v].pages # <<>>
                           /\ ListRight(v, flag, cache[v]) /\ Mail!Rows(cache[v].pages) \subseteq Mail!RowType
    BY MailTypes
  <1>4. c # None => /\ c \in Mail!Lists /\ c.pages = cache[v].pages /\ c.stay = cache[v].stay
                    /\ cache[v] # None
    BY <1>3 DEF Mail!Lists
  <1> HIDE DEF c
  <1>5. ViewRight(v, c, None)
    BY <1>3, <1>4 DEF ViewRight, ListRight
  <1>6. excused'[v] = Messages
    BY <1>1, <1>2
  <1>7. c # None => \A r \in Mail!Rows(c.pages) : Known(v, r)'
    BY <1>3, <1>4, <1>6 DEF Known, Mail!RowType
  <1>8. ViewKnown(v, c, None)
    BY <1>6, <1>7 DEF ViewKnown
  <1>9. /\ excused' \in [Views -> SUBSET Messages] /\ others' \in Nat
        /\ \A w \in Views \ {v} : excused'[w] = excused[w]
    BY <1>1, <1>2
  <1> QED
    BY <1>1, <1>2, <1>5, <1>8, <1>9, OneView

(* An answered change: the lists are marked stale, the one on the screen is *)
(* fetched anew.                                                           *)
LEMMA AnswerKeeps ==
  ASSUME MailInv, NEW a, Mail!Answer(a)
  PROVE  MailInv'
  <1>1. /\ a \in asks /\ a.at = "answered" /\ asks' = asks \ {a}
        /\ UNCHANGED <<flag, member, open, clicks, others>>
        /\ cache' = [v \in Views |-> IF cache[v] = None THEN None
                                     ELSE [cache[v] EXCEPT !.stale = TRUE]]
        /\ fetch' = [v \in Views |-> IF v = open THEN Mail!Refetch(v) ELSE fetch[v]]
        /\ excused' = [v \in Views |->
             IF v = open THEN {}
             ELSE IF fetch[v] # None THEN excused[v] \cup {a.msg}
             ELSE excused[v]]
    BY DEF Mail!Answer
  <1>2. Mail!TypeOK /\ a \in Mail!Asks /\ a.msg \in Messages
    BY <1>1 DEF MailInv, Mail!TypeOK, Mail!Asks
  <1>3. ASSUME NEW v \in Views
        PROVE  /\ cache'[v] = None <=> cache[v] = None
               /\ cache[v] # None => /\ cache'[v] \in Mail!Lists
                                     /\ cache'[v].pages = cache[v].pages
                                     /\ cache'[v].stay = cache[v].stay
                                     /\ cache'[v].stale
    <2>1. CASE cache[v] = None
      BY <1>1, <2>1
    <2>2. CASE cache[v] # None
      <3>1. cache[v] \in Mail!Lists
        BY <2>2, MailTypes
      <3>2. cache'[v] = [cache[v] EXCEPT !.stale = TRUE]
        BY <1>1, <2>2
      <3>3. /\ cache'[v] \in Mail!Lists /\ cache'[v].pages = cache[v].pages
            /\ cache'[v].stay = cache[v].stay /\ cache'[v].stale
        BY <3>1, <3>2 DEF Mail!Lists
      <3>4. cache'[v] # None
        BY <3>3, MailFacts
      <3> QED
        BY <2>2, <3>3, <3>4
    <2> QED
      BY <2>1, <2>2
  <1>4. ASSUME NEW v \in Views, v # open
        PROVE  fetch'[v] = fetch[v]
    BY <1>1, <1>4
  <1>5. ASSUME open \in Views
        PROVE  /\ fetch'[open] \in Mail!Fetches /\ fetch'[open] # None
               /\ fetch'[open].kind = "all" /\ Mail!Rows(fetch'[open].pages) = {}
               /\ Len(fetch'[open].pages) <= fetch'[open].want
               /\ ListRight(open, flag, fetch'[open])
    <2>1. fetch'[open] = Mail!Refetch(open)
      BY <1>1, <1>5
    <2> QED
      BY <1>5, <2>1, RefetchRight
  <1>6. ASSUME NEW v \in Views
        PROVE  /\ v # open /\ fetch[v] # None => excused'[v] = excused[v] \cup {a.msg}
               /\ v # open /\ fetch[v] = None => excused'[v] = excused[v]
               /\ v = open => excused'[v] = {}
    BY <1>1
  <1>7. ListsTyped' /\ ListsRight'
    <2>1. ASSUME NEW v \in Views
          PROVE  /\ cache'[v] \in Mail!Lists \cup {None} /\ fetch'[v] \in Mail!Fetches \cup {None}
                 /\ cache'[v] # None => cache'[v].pages # <<>> /\ ListRight(v, flag, cache'[v])
                 /\ fetch'[v] # None => /\ Len(fetch'[v].pages) <= fetch'[v].want
                                        /\ ListRight(v, flag, fetch'[v])
      <3>1. cache'[v] \in Mail!Lists \cup {None}
        BY <1>3
      <3>2. cache'[v] # None => cache'[v].pages # <<>> /\ ListRight(v, flag, cache'[v])
        BY <1>3, MailTypes DEF ListRight
      <3>3. CASE v = open
        BY <1>5, <3>1, <3>2, <3>3
      <3>4. CASE v # open
        BY <1>4, <3>1, <3>2, <3>4, MailTypes
      <3> QED
        BY <3>3, <3>4
    <2>2. cache' \in [Views -> Mail!Lists \cup {None}] /\ fetch' \in [Views -> Mail!Fetches \cup {None}]
      BY <1>1, <2>1
    <2> QED
      BY <1>1, <2>1, <2>2 DEF ListsTyped, ListsRight
  <1>8. excused' \in [Views -> SUBSET Messages]
    <2>1. ASSUME NEW v \in Views PROVE excused'[v] \in SUBSET Messages
      BY <1>2, <1>6 DEF Mail!TypeOK
    <2> QED
      BY <1>1, <2>1
  <1>9. Mail!TypeOK'
    BY <1>1, <1>2, <1>7, <1>8, TypesNext DEF Mail!TypeOK
  <1>10. RowsKnown'
    <2> SUFFICES ASSUME NEW v \in Views
                 PROVE  /\ fetch'[v] # None => \A r \in Mail!Rows(fetch'[v].pages) : Known(v, r)'
                        /\ cache'[v] # None => \A r \in Mail!Rows(cache'[v].pages) :
                              Known(v, r)' \/ cache'[v].stale \/ Refetching(v)'
                        /\ v = open' /\ fetch'[v] = None /\ cache'[v] # None =>
                              ~cache'[v].stale \/ excused'[v] = Messages
      BY DEF RowsKnown
    <2>1. cache'[v] # None => cache'[v].stale
      BY <1>3
    <2>2. v = open' => fetch'[v] # None
      BY <1>1, <1>5
    <2>3. ASSUME fetch'[v] # None, NEW r \in Mail!Rows(fetch'[v].pages) PROVE Known(v, r)'
      <3>1. v # open
        BY <1>5, <2>3
      <3>2. fetch[v] # None /\ r \in Mail!Rows(fetch[v].pages)
        BY <1>4, <2>3, <3>1
      <3>3. Known(v, r)
        BY <3>2 DEF MailInv, RowsKnown
      <3>4. excused'[v] = excused[v] \cup {a.msg}
        BY <1>6, <3>1, <3>2
      <3>5. CASE r.msg = a.msg
        BY <3>4, <3>5 DEF Known
      <3>6. CASE r.msg # a.msg
        <4>1. \A c \in asks : c.msg = r.msg => c \in asks'
          BY <1>1, <3>6
        <4>2. r = Mail!Row(v, r.msg) => r = Mail!Row(v, r.msg)'
          BY <1>1 DEF Mail!Row
        <4> QED
          BY <3>3, <3>4, <4>1, <4>2 DEF Known
      <3> QED
        BY <3>5, <3>6
    <2> QED
      BY <2>1, <2>2, <2>3
  <1> QED
    BY <1>7, <1>9, <1>10 DEF MailInv

LEMMA MailStarts ==
  ASSUME Mail!Init
  PROVE  MailInv
  <1>1. Mail!TypeOK
    BY DEF Mail!Init, Mail!TypeOK
  <1>2. ListsRight
    BY DEF Mail!Init, ListsRight
  <1>3. RowsKnown
    BY DEF Mail!Init, RowsKnown
  <1> QED
    BY <1>1, <1>2, <1>3 DEF MailInv

LEMMA MailStays ==
  ASSUME MailInv, UNCHANGED Mail!vars
  PROVE  MailInv'
  <1> USE DEF Mail!vars
  <1>1. Mail!TypeOK'
    BY DEF MailInv, Mail!TypeOK
  <1>2. ListsRight'
    BY DEF MailInv, ListsRight
  <1>3. RowsKnown'
    <2>1. \A v, r : Known(v, r) => Known(v, r)'
      BY DEF Known, Mail!Row
    <2>2. \A v \in Views : Refetching(v) => Refetching(v)'
      BY DEF Refetching
    <2> QED
      BY <2>1, <2>2 DEF MailInv, RowsKnown
  <1> QED
    BY <1>1, <1>2, <1>3 DEF MailInv

LEMMA MailStep ==
  ASSUME MailInv, Mail!Next
  PROVE  MailInv'
  <1>1. CASE Mail!Client
    BY <1>1, ComeBackKeeps, LoadMoreKeeps, StarKeeps, OpenKeeps, FetchPageKeeps,
       FetchDoneKeeps, FetchFailsKeeps, AnswerKeeps, AnswerLostKeeps DEF Mail!Client
  <1>2. CASE Mail!Server
    BY <1>2, ServeStarKeeps, RefuseKeeps DEF Mail!Server
  <1>3. CASE Mail!Elsewhere
    BY <1>3, DeliverKeeps, FlagElsewhereKeeps, LoseAccessKeeps DEF Mail!Elsewhere
  <1> QED
    BY <1>1, <1>2, <1>3 DEF Mail!Next

(* What the invariant says of the lists a user sees.                       *)
LEMMA MailShown ==
  ASSUME MailInv
  PROVE  Mail!TypeOK /\ Mail!PagesComplete /\ Mail!RowsAreCurrent
  <1>1. Mail!PagesComplete
    <2> SUFFICES ASSUME NEW v \in Views, cache[v] # None
                 PROVE  Mail!Ordered(cache[v].pages) /\ Mail!Covered(cache[v].pages, cache[v].stay)
      BY DEF Mail!PagesComplete
    <2>1. ListRight(v, flag, cache[v]) /\ cache[v].pages # <<>>
      BY MailTypes
    <2> QED
      BY <2>1 DEF ListRight, PagesRight
  <1>2. Mail!RowsAreCurrent
    <2> SUFFICES ASSUME open # None, fetch[open] = None, cache[open] # None, asks = {},
                        NEW row \in Mail!Rows(cache[open].pages)
                 PROVE  row.msg \in excused[open] \/ row = Mail!Row(open, row.msg)
      BY DEF Mail!RowsAreCurrent
    <2>1. open \in Views
      BY DEF MailInv, Mail!TypeOK
    <2>2. Known(open, row) \/ excused[open] = Messages
      BY <2>1 DEF MailInv, RowsKnown, Refetching
    <2>3. row \in Mail!RowType
      BY <2>1, MailTypes
    <2>4. row.msg \in Messages
      BY <2>3 DEF Mail!RowType
    <2> QED
      BY <2>2, <2>4 DEF Known
  <1> QED
    BY <1>1, <1>2 DEF MailInv
---------------------------------------------------------------------------
(* The invariant of the console.                                           *)

Excluded == unsure \cup rushed
Dialogs == ~Admin!Editor /\ resource # "access"

(* A row as it was read and as the server has it.                          *)
Current(c, r) ==
    IF r \in {None, Deleted} THEN c = r
    ELSE c \notin {None, Deleted} /\ \A f \in Admin!Fields : c[f] = r[f] \/ r[f] = Other

ServedOn(id) == \E s \in saves : s.id = id /\ s.at = "served"
Awaited(q, id) ==
    \E s \in saves : /\ s.id = id
                     /\ \/ s.at = "served"
                        \/ s.at = "answered" /\ fetch[q] # None /\ s.n \in fetch[q].waits

(* Rows that were read, or are shown, are current unless a save of the row *)
(* is on its way back, and those that a dialog may take even if it is.     *)
ReadIsCurrent(q) ==
    fetch[q] # None /\ fetch[q].rows # None =>
        \A id \in Admin!RowsOf(q) \ unsure : Current(fetch[q].rows[id], server[id]) \/ ServedOn(id)

ShownIsCurrent(q) ==
    cache[q] # None => \A id \in Admin!RowsOf(q) \ unsure :
        \/ Current(cache[q][id], server[id]) \/ ServedOn(id) \/ fetch[q] # None
        \/ ~Admin!Mounted(q) /\ q \in stale

TakenIsCurrent(q) ==
    cache[q] # None => \A id \in Admin!RowsOf(q) \ Excluded :
        Current(cache[q][id], server[id]) \/ Awaited(q, id)

TablesTyped ==
    /\ resource \in Resources
    /\ server \in Admin!Table(Ids, Admin!Fields)
    /\ cache = [q \in Admin!Queries |-> cache[q]] /\ fetch = [q \in Admin!Queries |-> fetch[q]]
    /\ \A q \in Admin!Queries : /\ cache[q] \in Admin!Table(Admin!RowsOf(q), Admin!Fields) \cup {None}
                                /\ fetch[q] \in Admin!Fetches(Admin!RowsOf(q), Admin!Fields) \cup {None}
    /\ stale \subseteq Admin!Queries
    /\ domain \in Ids \cup {None}
    /\ unsure \subseteq Ids /\ rushed \subseteq Ids
    /\ others \in Nat

TablesCurrent ==
    \A q \in Admin!Queries : ReadIsCurrent(q) /\ ShownIsCurrent(q) /\ (resource # "access" => TakenIsCurrent(q))

(* Saves have numbers of their own; a form knows of its own saves, and a   *)
(* save of a row that is not excused belongs to the dialog that is open.   *)
FormsTyped ==
    /\ saves \subseteq Admin!Saves(Admin!Fields) /\ form \in Admin!Forms(Admin!Fields) \cup {None}
    /\ clicks \in 0 .. AdminClicks
    /\ \A s, t \in saves : s.n = t.n \/ (s.form = t.form /\ s.kind = t.kind) => s = t
    /\ \A s \in saves : s.n \in 1 .. clicks /\ s.form \in 0 .. clicks - 1
    /\ form # None => /\ form.n \in 0 .. clicks
                      /\ form.busy = {s.kind : s \in {t \in saves : t.form = form.n}}

DialogSaves ==
    /\ \A s \in saves : /\ form # None /\ s.form = form.n => s.id = form.id /\ s.kind = form.kind
                        /\ s.id \notin Excluded => form # None /\ s.form = form.n
    /\ \A s, t \in saves : s.form = t.form => s = t

EditorSaves ==
    /\ form # None /\ form.kind = "edit"
    /\ form.id = IF resource = "settings" THEN First ELSE domain
    /\ \A s \in saves : s.form = form.n /\ s.kind = "edit"
    /\ \A s, t \in saves : s = t

AccessSaves ==
    /\ form # None => form.kind = "view"
    /\ \A s \in saves : s.left = {}

FormsRight ==
    /\ FormsTyped
    /\ Dialogs => DialogSaves
    /\ Admin!Editor => EditorSaves
    /\ resource = "access" => AccessSaves

(* What an edit dialog shows of its row, and what a save leaves alone, is  *)
(* what the server has.                                                    *)
DialogFits ==
    Dialogs /\ form # None /\ form.kind = "edit" /\ form.id \notin Excluded =>
        \/ \A f \in Admin!Fields : IF f \in Admin!Secret THEN form.values[f] = Blank
                             ELSE form.values[f] = server[form.id][f] \/ server[form.id][f] = Other
        \/ \E s \in saves : s.form = form.n /\ s.at # "sent"

LeftFits ==
    \A s \in saves : s.at = "sent" /\ s.kind = "edit" /\ s.id \notin Excluded /\ ~s.mixed =>
        \A f \in s.left : s.body[f] = server[s.id][f] \/ server[s.id][f] = Other

(* An editor whose data have come shows them; its rows are never deleted.  *)
EditorRows == IF resource = "settings" THEN {First} ELSE Ids
EditorTyped ==
    /\ \A id \in EditorRows : server[id] \in [Admin!Fields -> Admin!Values]
    /\ \A q \in Admin!Queries : \A id \in Admin!RowsOf(q) \cap EditorRows :
         /\ fetch[q] # None /\ fetch[q].rows # None => fetch[q].rows[id] \in [Admin!Fields -> Admin!Values]
         /\ cache[q] # None => cache[q][id] \in [Admin!Fields -> Admin!Values]

EditorShows ==
    /\ form.of # None => cache[Admin!QueryOf(form.of)] # None
    /\ form.of = form.id => form.values = Admin!Shown(cache[Admin!QueryOf(form.id)][form.id])

AdminInv ==
    /\ TablesTyped /\ TablesCurrent /\ FormsRight
    /\ DialogFits /\ LeftFits /\ (Admin!Editor => EditorTyped /\ EditorShows)

---------------------------------------------------------------------------
(* Lemmas about the console's pages.                                       *)

LEMMA AdminFacts ==
  /\ First \in Ids /\ AdminClicks \in Nat /\ None \notin Ids
  /\ \A fields \in Admin!FieldSets :
       /\ None \notin [fields -> Admin!Values] /\ Deleted \notin [fields -> Admin!Values]
       /\ None \notin Admin!Forms(fields)
       /\ \A ids \in SUBSET Ids : None \notin Admin!Fetches(ids, fields)
  BY PagesAssumption DEF Admin!ConsoleConstants

(* The fields of a page.                                                   *)
LEMMA FieldFacts ==
  ASSUME resource \in Resources
  PROVE  /\ Admin!Fields \in Admin!FieldSets /\ Admin!FormOf.always \subseteq Admin!Fields
         /\ Admin!Secret \cap Admin!FormOf.always = {}
         /\ Admin!Editor => Admin!Secret \cap Admin!Fields = {}
  <1>1. \/ resource = "users" \/ resource = "roles" \/ resource = "domains"
        \/ resource = "provider-connections" \/ resource = "settings"
        \/ resource = "signatures" \/ resource = "access"
    BY PagesAssumption DEF Admin!ConsoleConstants
  <1>2. CASE resource = "users"
    BY <1>2 DEF Admin!FormOf, Admin!Fields, Admin!FieldSets, Admin!UserForm, Admin!Secret,
       Admin!Editor
  <1>3. CASE resource = "roles"
    BY <1>3 DEF Admin!FormOf, Admin!Fields, Admin!FieldSets, Admin!RoleForm, Admin!Secret,
       Admin!Editor
  <1>4. CASE resource = "domains"
    BY <1>4 DEF Admin!FormOf, Admin!Fields, Admin!FieldSets, Admin!DomainForm, Admin!Secret,
       Admin!Editor
  <1>5. CASE resource = "provider-connections"
    BY <1>5 DEF Admin!FormOf, Admin!Fields, Admin!FieldSets, Admin!ProviderForm, Admin!Secret,
       Admin!Editor
  <1>6. CASE resource = "settings"
    BY <1>6 DEF Admin!FormOf, Admin!Fields, Admin!FieldSets, Admin!SettingsForm, Admin!Secret,
       Admin!Editor
  <1>7. CASE resource = "signatures"
    BY <1>7 DEF Admin!FormOf, Admin!Fields, Admin!FieldSets, Admin!SignatureForm,
       Admin!Secret, Admin!Editor
  <1>8. CASE resource = "access"
    BY <1>8 DEF Admin!FormOf, Admin!Fields, Admin!FieldSets, Admin!AccessForm, Admin!Secret,
       Admin!Editor
  <1> QED
    BY <1>1, <1>2, <1>3, <1>4, <1>5, <1>6, <1>7, <1>8

LEMMA QueryFacts ==
  /\ Admin!Queries \subseteq Ids
  /\ \A q \in Admin!Queries : Admin!RowsOf(q) \subseteq Ids
  /\ \A id \in Ids : Admin!QueryOf(id) \in Admin!Queries /\ id \in Admin!RowsOf(Admin!QueryOf(id))
  /\ \A q \in Admin!Queries : \A id \in Admin!RowsOf(q) : Admin!QueryOf(id) = q
  /\ EditorRows \subseteq Ids
  BY AdminFacts DEF Admin!Queries, Admin!RowsOf, Admin!QueryOf, EditorRows

(* What depends on the page only.                                          *)
LEMMA SamePage ==
  ASSUME UNCHANGED resource
  PROVE  /\ Admin!Fields' = Admin!Fields /\ Admin!FormOf' = Admin!FormOf /\ (Admin!Editor' <=> Admin!Editor) /\ (Dialogs' <=> Dialogs)
         /\ Admin!Queries' = Admin!Queries /\ EditorRows' = EditorRows
         /\ \A q : Admin!RowsOf(q)' = Admin!RowsOf(q) /\ Admin!QueryOf(q)' = Admin!QueryOf(q)
         /\ \A row : Admin!Shown(row)' = Admin!Shown(row)
         /\ \A c, r : Current(c, r)' <=> Current(c, r)
  <1>1. Admin!FormOf' = Admin!FormOf
    BY DEF Admin!FormOf
  <1>2. Admin!Fields' = Admin!Fields
    BY <1>1 DEF Admin!Fields
  <1> QED
    BY <1>1, <1>2 DEF Admin!Editor, Dialogs, Admin!Queries, EditorRows, Admin!RowsOf,
       Admin!QueryOf, Admin!Shown, Current

LEMMA MountedFacts ==
  ASSUME NEW q
  PROVE  /\ resource = "signatures" => (Admin!Mounted(q) <=> q = domain)
         /\ resource = "access" => (Admin!Mounted(q) <=> form # None)
         /\ resource # "signatures" /\ resource # "access" => Admin!Mounted(q)
  BY DEF Admin!Mounted

LEMMA MountedNext ==
  ASSUME NEW q
  PROVE  /\ resource' = "signatures" => (Admin!Mounted(q)' <=> q = domain')
         /\ resource' = "access" => (Admin!Mounted(q)' <=> form' # None)
         /\ resource' # "signatures" /\ resource' # "access" => Admin!Mounted(q)'
  BY DEF Admin!Mounted

LEMMA TableFacts ==
  ASSUME TablesTyped
  PROVE  /\ resource \in Resources /\ server \in [Ids -> [Admin!Fields -> Admin!Values] \cup {None, Deleted}]
         /\ stale \subseteq Admin!Queries /\ domain \in Ids \cup {None}
         /\ unsure \subseteq Ids /\ rushed \subseteq Ids /\ others \in Nat
         /\ \A q \in Admin!Queries :
              /\ cache[q] # None => cache[q] \in [Admin!RowsOf(q) -> [Admin!Fields -> Admin!Values] \cup {None, Deleted}]
              /\ fetch[q] # None =>
                   /\ fetch[q] \in Admin!Fetches(Admin!RowsOf(q), Admin!Fields) /\ fetch[q].waits \in SUBSET Nat
                   /\ fetch[q].rows # None =>
                        fetch[q].rows \in [Admin!RowsOf(q) -> [Admin!Fields -> Admin!Values] \cup {None, Deleted}]
  BY DEF TablesTyped, Admin!Table, Admin!Fetches

(* A fetch that was just asked for.                                        *)
LEMMA AskedFacts ==
  ASSUME resource \in Resources, NEW q \in Admin!Queries, NEW waits \in SUBSET Nat
  PROVE  /\ Admin!Asked(waits) \in Admin!Fetches(Admin!RowsOf(q), Admin!Fields) /\ Admin!Asked(waits) # None
         /\ Admin!Asked(waits).rows = None /\ Admin!Asked(waits).waits = waits
  <1>1. Admin!Asked(waits) \in Admin!Fetches(Admin!RowsOf(q), Admin!Fields)
    BY DEF Admin!Asked, Admin!Fetches
  <1>2. None \notin Admin!Fetches(Admin!RowsOf(q), Admin!Fields)
    BY AdminFacts, FieldFacts, QueryFacts
  <1> QED
    BY <1>1, <1>2 DEF Admin!Asked

LEMMA SaveFacts ==
  ASSUME FormsTyped, NEW s \in saves
  PROVE  /\ s.n \in Nat /\ s.id \in Ids /\ s.kind \in Admin!Kinds /\ s.body \in [Admin!Fields -> Admin!Values]
         /\ s.left \subseteq Admin!Fields /\ s.form \in Nat /\ s.mixed \in BOOLEAN
         /\ s.at \in {"sent", "served", "answered"}
  BY DEF FormsTyped, Admin!Saves

LEMMA FormFacts ==
  ASSUME FormsTyped, form # None
  PROVE  /\ form \in Admin!Forms(Admin!Fields) /\ form.id \in Ids /\ form.kind \in Admin!Kinds \cup {"view"}
         /\ form.values \in [Admin!Fields -> Admin!Values] /\ form.of \in Ids \cup {None}
         /\ form.n \in Nat /\ form.busy \subseteq Admin!Kinds
  BY DEF FormsTyped, Admin!Forms

LEMMA FormExists ==
  ASSUME resource \in Resources, NEW fm \in Admin!Forms(Admin!Fields)
  PROVE  fm # None
  BY AdminFacts, FieldFacts

---------------------------------------------------------------------------
(* Saves and forms.                                                        *)

(* A step that leaves saves alone, and of the form what makes it this one. *)
SameForm ==
    /\ form' = None <=> form = None
    /\ form # None => /\ form' \in Admin!Forms(Admin!Fields) /\ form'.id = form.id /\ form'.kind = form.kind
                      /\ form'.n = form.n /\ form'.busy = form.busy

LEMMA FormsStay ==
  ASSUME FormsRight, UNCHANGED <<resource, domain, saves>>, SameForm,
         clicks' \in 0 .. AdminClicks, clicks' >= clicks,
         unsure \subseteq unsure', rushed \subseteq rushed'
  PROVE  FormsRight'
  <1>1. clicks \in Nat /\ AdminClicks \in Nat /\ clicks' \in Nat
    BY AdminFacts DEF FormsRight, FormsTyped
  <1>2. FormsTyped'
    <2>1. saves' \subseteq Admin!Saves(Admin!Fields') /\ form' \in Admin!Forms(Admin!Fields') \cup {None}
      BY SamePage DEF FormsRight, FormsTyped, SameForm
    <2>2. \A s \in saves' : s.n \in 1 .. clicks' /\ s.form \in 0 .. clicks' - 1
      <3> SUFFICES ASSUME NEW s \in saves PROVE s.n \in 1 .. clicks' /\ s.form \in 0 .. clicks' - 1
        OBVIOUS
      <3>1. s.n \in 1 .. clicks /\ s.form \in 0 .. clicks - 1
        BY DEF FormsRight, FormsTyped
      <3> QED
        BY <1>1, <3>1
    <2>3. form' # None => /\ form'.n \in 0 .. clicks'
                          /\ form'.busy = {s.kind : s \in {t \in saves' : t.form = form'.n}}
      <3> SUFFICES ASSUME form' # None
                   PROVE  /\ form'.n \in 0 .. clicks'
                          /\ form'.busy = {s.kind : s \in {t \in saves' : t.form = form'.n}}
        OBVIOUS
      <3>1. form # None /\ form'.n = form.n /\ form'.busy = form.busy
        BY DEF SameForm
      <3>2. form.n \in 0 .. clicks /\ form.busy = {s.kind : s \in {t \in saves : t.form = form.n}}
        BY <3>1 DEF FormsRight, FormsTyped
      <3> QED
        BY <1>1, <3>1, <3>2
    <2>4. \A s, t \in saves' : (s.n = t.n \/ (s.form = t.form /\ s.kind = t.kind)) => s = t
      BY DEF FormsRight, FormsTyped
    <2> QED
      BY <2>1, <2>2, <2>3, <2>4 DEF FormsTyped
  <1>3. Dialogs => DialogSaves'
    BY DEF FormsRight, DialogSaves, SameForm, Excluded
  <1>4. Admin!Editor => EditorSaves'
    BY DEF FormsRight, EditorSaves, SameForm
  <1>5. resource = "access" => AccessSaves'
    BY DEF FormsRight, AccessSaves, SameForm
  <1> QED
    BY <1>2, <1>3, <1>4, <1>5, SamePage DEF FormsRight

(* A save moves on.                                                        *)
LEMMA SaveMoves ==
  ASSUME FormsRight, NEW s \in saves, NEW stage \in {"served", "answered"}, Admin!At(s, stage),
         UNCHANGED <<resource, domain, form, clicks>>,
         unsure \subseteq unsure', rushed \subseteq rushed'
  PROVE  FormsRight'
  <1> DEFINE u == [s EXCEPT !.at = stage]
  <1>1. /\ u \in Admin!Saves(Admin!Fields) /\ u.n = s.n /\ u.id = s.id /\ u.kind = s.kind /\ u.form = s.form
        /\ u.left = s.left /\ u.body = s.body /\ u.mixed = s.mixed
    BY DEF FormsRight, FormsTyped, Admin!Saves
  <1>2. saves' = (saves \ {s}) \cup {u}
    BY DEF Admin!At
  <1> HIDE DEF u
  <1>3. \A t \in saves' : t = u \/ (t \in saves /\ t # s)
    BY <1>2
  <1>4. FormsTyped'
    <2>1. saves' \subseteq Admin!Saves(Admin!Fields') /\ form' \in Admin!Forms(Admin!Fields') \cup {None}
      BY <1>1, <1>2, SamePage DEF FormsRight, FormsTyped
    <2>2. \A t \in saves' : t.n \in 1 .. clicks' /\ t.form \in 0 .. clicks' - 1
      BY <1>1, <1>3 DEF FormsRight, FormsTyped
    <2>3. form' # None => /\ form'.n \in 0 .. clicks'
                          /\ form'.busy = {r.kind : r \in {t \in saves' : t.form = form'.n}}
      <3> SUFFICES ASSUME form # None
                   PROVE  /\ form.n \in 0 .. clicks
                          /\ form.busy = {r.kind : r \in {t \in saves' : t.form = form.n}}
        OBVIOUS
      <3>1. form.n \in 0 .. clicks /\ form.busy = {r.kind : r \in {t \in saves : t.form = form.n}}
        BY DEF FormsRight, FormsTyped
      <3>2. ASSUME NEW k PROVE (\E r \in saves' : r.form = form.n /\ r.kind = k)
                                 <=> (\E r \in saves : r.form = form.n /\ r.kind = k)
        BY <1>1, <1>2
      <3> QED
        BY <3>1, <3>2
    <2>4. \A r, t \in saves' : (r.n = t.n \/ (r.form = t.form /\ r.kind = t.kind)) => r = t
      <3> SUFFICES ASSUME NEW r \in saves', NEW t \in saves',
                          r.n = t.n \/ (r.form = t.form /\ r.kind = t.kind)
                   PROVE  r = t
        OBVIOUS
      <3>1. \A p, q \in saves : (p.n = q.n \/ (p.form = q.form /\ p.kind = q.kind)) => p = q
        BY DEF FormsRight, FormsTyped
      <3>2. CASE r = u /\ t # u
        BY <1>1, <1>3, <3>1, <3>2
      <3>3. CASE r # u /\ t = u
        BY <1>1, <1>3, <3>1, <3>3
      <3>4. CASE r # u /\ t # u
        BY <1>3, <3>1, <3>4
      <3> QED
        BY <3>2, <3>3, <3>4
    <2>5. clicks' \in 0 .. AdminClicks
      BY DEF FormsRight, FormsTyped
    <2> QED
      BY <2>1, <2>2, <2>3, <2>4, <2>5 DEF FormsTyped
  <1>5. Dialogs => DialogSaves'
    BY <1>1, <1>3 DEF FormsRight, DialogSaves, Excluded
  <1>6. Admin!Editor => EditorSaves'
    BY <1>1, <1>3 DEF FormsRight, EditorSaves
  <1>7. resource = "access" => AccessSaves'
    BY <1>1, <1>3 DEF FormsRight, AccessSaves
  <1> QED
    BY <1>4, <1>5, <1>6, <1>7, SamePage DEF FormsRight

(* A save is over; its form, if that is open, may be used again.           *)
LEMMA EnabledFacts ==
  ASSUME FormsTyped, form # None, NEW s \in saves, resource \in Resources
  PROVE  LET fm == Admin!Enabled(form, s)
         IN  /\ fm # None /\ fm \in Admin!Forms(Admin!Fields) /\ fm.id = form.id /\ fm.kind = form.kind
             /\ fm.n = form.n /\ fm.values = form.values /\ fm.of = form.of
             /\ fm.busy = IF form.n = s.form THEN form.busy \ {s.kind} ELSE form.busy
  <1> DEFINE fm == Admin!Enabled(form, s)
  <1>1. form \in Admin!Forms(Admin!Fields) /\ form.busy \subseteq Admin!Kinds
    BY FormFacts
  <1>2. CASE form.n = s.form
    <2>1. fm = [form EXCEPT !.busy = form.busy \ {s.kind}]
      BY <1>2 DEF Admin!Enabled
    <2>2. /\ fm \in Admin!Forms(Admin!Fields) /\ fm.id = form.id /\ fm.kind = form.kind
          /\ fm.n = form.n /\ fm.values = form.values /\ fm.of = form.of
          /\ fm.busy = form.busy \ {s.kind}
      BY <1>1, <2>1 DEF Admin!Forms
    <2> QED
      BY <1>2, <2>2, FormExists
  <1>3. CASE form.n # s.form
    BY <1>1, <1>3 DEF Admin!Enabled
  <1> QED
    BY <1>2, <1>3

LEMMA SaveIsOver ==
  ASSUME FormsRight, resource \in Resources, NEW s \in saves, saves' = saves \ {s},
         form' = Admin!Enabled(form, s), UNCHANGED <<resource, domain, clicks>>,
         unsure \subseteq unsure', rushed \subseteq rushed'
  PROVE  FormsRight'
  <1>0. FormsTyped
    BY DEF FormsRight
  <1>1. form = None => form' = None
    BY DEF Admin!Enabled
  <1>2. form # None =>
          /\ form' # None /\ form' \in Admin!Forms(Admin!Fields) /\ form'.id = form.id /\ form'.kind = form.kind
          /\ form'.n = form.n
          /\ form'.busy = IF form.n = s.form THEN form.busy \ {s.kind} ELSE form.busy
    BY <1>0, EnabledFacts
  <1>3. FormsTyped'
    <2>1. saves' \subseteq Admin!Saves(Admin!Fields') /\ form' \in Admin!Forms(Admin!Fields') \cup {None}
      BY <1>1, <1>2, SamePage DEF FormsRight, FormsTyped
    <2>2. \A t \in saves' : t.n \in 1 .. clicks' /\ t.form \in 0 .. clicks' - 1
      BY DEF FormsRight, FormsTyped
    <2>3. form' # None => /\ form'.n \in 0 .. clicks'
                          /\ form'.busy = {r.kind : r \in {t \in saves' : t.form = form'.n}}
      <3> SUFFICES ASSUME form # None
                   PROVE  /\ form'.n \in 0 .. clicks
                          /\ form'.busy = {r.kind : r \in {t \in saves' : t.form = form'.n}}
        BY <1>1
      <3>1. form.n \in 0 .. clicks /\ form.busy = {r.kind : r \in {t \in saves : t.form = form.n}}
        BY DEF FormsRight, FormsTyped
      <3>2. \A t \in saves : t.form = s.form /\ t.kind = s.kind => t = s
        BY DEF FormsRight, FormsTyped
      <3>3. ASSUME NEW k PROVE k \in form'.busy <=> \E r \in saves' : r.form = form.n /\ r.kind = k
        BY <1>2, <3>1, <3>2
      <3>4. form'.n = form.n
        BY <1>2
      <3> QED
        BY <3>1, <3>3, <3>4
    <2>4. \A r, t \in saves' : (r.n = t.n \/ (r.form = t.form /\ r.kind = t.kind)) => r = t
      BY DEF FormsRight, FormsTyped
    <2>5. clicks' \in 0 .. AdminClicks
      BY DEF FormsRight, FormsTyped
    <2> QED
      BY <2>1, <2>2, <2>3, <2>4, <2>5 DEF FormsTyped
  <1>4. Dialogs => DialogSaves'
    BY <1>1, <1>2 DEF FormsRight, DialogSaves, Excluded
  <1>5. Admin!Editor => EditorSaves'
    BY <1>2 DEF FormsRight, EditorSaves
  <1>6. resource = "access" => AccessSaves'
    BY <1>1, <1>2 DEF FormsRight, AccessSaves
  <1> QED
    BY <1>3, <1>4, <1>5, <1>6, SamePage DEF FormsRight

(* The form is closed on whatever it is saving.                            *)
LEMMA FormCloses ==
  ASSUME FormsRight, ~Admin!Editor, saves' \subseteq saves, form' = None,
         UNCHANGED <<resource, domain>>, clicks' \in 0 .. AdminClicks, clicks' >= clicks,
         unsure \subseteq unsure', rushed \subseteq rushed',
         \A s \in saves' : s.id \in rushed'
  PROVE  FormsRight'
  <1>1. clicks \in Nat /\ clicks' \in Nat
    BY AdminFacts DEF FormsRight, FormsTyped
  <1>2. FormsTyped'
    <2>1. saves' \subseteq Admin!Saves(Admin!Fields')
      BY SamePage DEF FormsRight, FormsTyped
    <2>2. ASSUME NEW s \in saves' PROVE s.n \in 1 .. clicks' /\ s.form \in 0 .. clicks' - 1
      <3>1. s.n \in 1 .. clicks /\ s.form \in 0 .. clicks - 1
        BY DEF FormsRight, FormsTyped
      <3> QED
        BY <1>1, <3>1
    <2>3. \A s, t \in saves' : (s.n = t.n \/ (s.form = t.form /\ s.kind = t.kind)) => s = t
      BY DEF FormsRight, FormsTyped
    <2> QED
      BY <2>1, <2>2, <2>3 DEF FormsTyped
  <1>3. Dialogs => DialogSaves'
    BY DEF FormsRight, DialogSaves, Excluded
  <1>4. resource = "access" => AccessSaves'
    BY DEF FormsRight, AccessSaves
  <1> QED
    BY <1>2, <1>3, <1>4, SamePage DEF FormsRight

(* A dialog opens.                                                         *)
LEMMA FormOpens ==
  ASSUME FormsRight, resource \in Resources, ~Admin!Editor, form = None, form' \in Admin!Forms(Admin!Fields),
         form'.n = clicks, form'.busy = {}, resource = "access" => form'.kind = "view", clicks' \in 0 .. AdminClicks, clicks' = clicks + 1,
         UNCHANGED <<resource, domain, saves, unsure, rushed>>
  PROVE  FormsRight'
  <1>1. clicks \in Nat /\ clicks' \in Nat /\ form' # None
    BY FormExists DEF FormsRight, FormsTyped
  <1>2. \A s \in saves : s.n \in 1 .. clicks /\ s.form \in 0 .. clicks - 1
    BY DEF FormsRight, FormsTyped
  <1>3. \A s \in saves : s.form # form'.n
    BY <1>1, <1>2
  <1>4. FormsTyped'
    <2>1. saves' \subseteq Admin!Saves(Admin!Fields') /\ form' \in Admin!Forms(Admin!Fields')
      BY SamePage DEF FormsRight, FormsTyped
    <2>2. ASSUME NEW s \in saves' PROVE s.n \in 1 .. clicks' /\ s.form \in 0 .. clicks' - 1
      BY <1>1, <1>2
    <2>3. form'.n \in 0 .. clicks'
      BY <1>1
    <2>4. form'.busy = {s.kind : s \in {t \in saves' : t.form = form'.n}}
      BY <1>3
    <2>5. \A s, t \in saves' : (s.n = t.n \/ (s.form = t.form /\ s.kind = t.kind)) => s = t
      BY DEF FormsRight, FormsTyped
    <2> QED
      BY <2>1, <2>2, <2>3, <2>4, <2>5 DEF FormsTyped
  <1>5. Dialogs => DialogSaves'
    BY <1>3 DEF FormsRight, DialogSaves, Excluded
  <1>6. resource = "access" => AccessSaves'
    BY DEF FormsRight, AccessSaves
  <1> QED
    BY <1>4, <1>5, <1>6, SamePage DEF FormsRight

(* A save is sent.                                                         *)
LEMMA SaveIsSent ==
  ASSUME FormsRight, resource \in Resources, form # None, NEW u \in Admin!Saves(Admin!Fields),
         u.n = clicks + 1, u.form = form.n, Admin!Send(u), u.kind \notin form.busy,
         Dialogs => u.id = form.id /\ u.kind = form.kind /\ form.busy = {},
         Admin!Editor => u.kind = form.kind /\ form.busy = {}, resource = "access" => u.left = {},
         clicks' \in 0 .. AdminClicks, clicks' = clicks + 1,
         UNCHANGED <<resource, domain, unsure, rushed>>
  PROVE  /\ FormsRight' /\ form' # None
         /\ form'.n = form.n /\ form'.id = form.id /\ form'.kind = form.kind
         /\ form'.values = form.values /\ form'.of = form.of
  <1>1. /\ FormsTyped /\ clicks \in Nat /\ clicks' \in Nat
        /\ form.n \in 0 .. clicks /\ form.busy = {s.kind : s \in {t \in saves : t.form = form.n}}
        /\ u.kind \in Admin!Kinds
    BY DEF FormsRight, FormsTyped, Admin!Saves
  <1>2. saves' = saves \cup {u} /\ form' = [form EXCEPT !.busy = form.busy \cup {u.kind}]
    BY DEF Admin!Send
  <1>3. /\ form' \in Admin!Forms(Admin!Fields) /\ form'.id = form.id /\ form'.kind = form.kind
        /\ form'.n = form.n /\ form'.values = form.values /\ form'.of = form.of
        /\ form'.busy = form.busy \cup {u.kind}
    BY <1>1, <1>2, FormFacts DEF Admin!Forms
  <1>4. form' # None
    BY <1>3, FormExists
  <1>5. \A s \in saves : s.n \in 1 .. clicks /\ s.form \in 0 .. clicks - 1
    BY DEF FormsRight, FormsTyped
  <1>6. \A s \in saves : s.form = form.n => s.kind \in form.busy
    BY <1>1
  <1>7. form.n < clicks'
    BY <1>1
  <1>8. FormsTyped'
    <2>1. saves' \subseteq Admin!Saves(Admin!Fields') /\ form' \in Admin!Forms(Admin!Fields')
      BY <1>2, <1>3, SamePage DEF FormsRight, FormsTyped
    <2>2. ASSUME NEW s \in saves' PROVE s.n \in 1 .. clicks' /\ s.form \in 0 .. clicks' - 1
      <3>1. CASE s = u
        BY <1>1, <1>7, <3>1
      <3>2. CASE s \in saves
        BY <1>1, <1>5, <3>2
      <3> QED
        BY <1>2, <3>1, <3>2
    <2>3. form'.n \in 0 .. clicks'
      BY <1>1, <1>3
    <2>4. form'.busy = {s.kind : s \in {t \in saves' : t.form = form'.n}}
      BY <1>1, <1>2, <1>3
    <2>5. ASSUME NEW s \in saves', NEW t \in saves',
                 s.n = t.n \/ (s.form = t.form /\ s.kind = t.kind)
          PROVE  s = t
      <3>1. CASE s \in saves /\ t \in saves
        BY <2>5, <3>1 DEF FormsRight, FormsTyped
      <3>2. ASSUME NEW r \in saves, r.n = u.n \/ (r.form = u.form /\ r.kind = u.kind)
            PROVE  FALSE
        <4>1. r.n # u.n
          BY <1>1, <1>5
        <4> QED
          BY <1>6, <3>2, <4>1
      <3> QED
        BY <1>2, <2>5, <3>1, <3>2
    <2> QED
      BY <2>1, <2>2, <2>3, <2>4, <2>5 DEF FormsTyped
  <1>9. Dialogs => DialogSaves'
    BY <1>2, <1>3, <1>4, <1>6 DEF FormsRight, DialogSaves, Excluded
  <1>10. Admin!Editor => EditorSaves'
    BY <1>2, <1>3, <1>4, <1>6 DEF FormsRight, EditorSaves
  <1>11. resource = "access" => AccessSaves'
    BY <1>2, <1>3 DEF FormsRight, AccessSaves
  <1> QED
    BY <1>3, <1>4, <1>8, <1>9, <1>10, <1>11, SamePage DEF FormsRight

(* Another domain's signature.                                             *)
LEMMA SignatureMoves ==
  ASSUME FormsRight, resource = "signatures", resource \in Resources,
         form' \in Admin!Forms(Admin!Fields), form'.id = domain', form'.kind = form.kind,
         form'.n = form.n, form'.busy = form.busy,
         clicks' \in 0 .. AdminClicks, clicks' = clicks + 1,
         UNCHANGED <<resource, saves, unsure, rushed>>
  PROVE  FormsRight'
  <1>1. clicks \in Nat /\ clicks' \in Nat /\ form' # None /\ form # None /\ Admin!Editor
    BY FormExists DEF FormsRight, FormsTyped, EditorSaves, Admin!Editor
  <1>2. FormsTyped'
    <2>1. saves' \subseteq Admin!Saves(Admin!Fields') /\ form' \in Admin!Forms(Admin!Fields')
      BY SamePage DEF FormsRight, FormsTyped
    <2>2. ASSUME NEW s \in saves' PROVE s.n \in 1 .. clicks' /\ s.form \in 0 .. clicks' - 1
      <3>1. s.n \in 1 .. clicks /\ s.form \in 0 .. clicks - 1
        BY DEF FormsRight, FormsTyped
      <3> QED
        BY <1>1, <3>1
    <2>3. form'.n \in 0 .. clicks'
      BY <1>1 DEF FormsRight, FormsTyped
    <2>4. form'.busy = {s.kind : s \in {t \in saves' : t.form = form'.n}}
      BY <1>1 DEF FormsRight, FormsTyped
    <2>5. \A s, t \in saves' : (s.n = t.n \/ (s.form = t.form /\ s.kind = t.kind)) => s = t
      BY DEF FormsRight, FormsTyped
    <2> QED
      BY <2>1, <2>2, <2>3, <2>4, <2>5 DEF FormsTyped
  <1>3. EditorSaves'
    BY <1>1 DEF FormsRight, EditorSaves
  <1> QED
    BY <1>1, <1>2, <1>3, SamePage DEF FormsRight, Dialogs

---------------------------------------------------------------------------
(* Tables.                                                                 *)

LEMMA TypesOfTables ==
  ASSUME TablesTyped, UNCHANGED <<resource, server, cache, others>>,
         stale' \subseteq Admin!Queries, domain' \in Ids \cup {None},
         unsure' \subseteq Ids, rushed' \subseteq Ids,
         fetch' = [q \in Admin!Queries |-> fetch'[q]],
         \A q \in Admin!Queries : fetch'[q] \in Admin!Fetches(Admin!RowsOf(q), Admin!Fields) \cup {None}
  PROVE  TablesTyped'
  <1>1. \A q \in Admin!Queries : cache'[q] \in Admin!Table(Admin!RowsOf(q), Admin!Fields)' \cup {None}
    BY SamePage DEF TablesTyped, Admin!Table
  <1>2. \A q \in Admin!Queries : fetch'[q] \in Admin!Fetches(Admin!RowsOf(q), Admin!Fields)' \cup {None}
    BY SamePage DEF Admin!Fetches, Admin!Table
  <1>3. server' \in Admin!Table(Ids, Admin!Fields)'
    BY SamePage DEF TablesTyped, Admin!Table
  <1> QED
    BY <1>1, <1>2, <1>3, SamePage DEF TablesTyped

LEMMA OneFetch ==
  ASSUME TablesTyped, NEW q \in Admin!Queries, NEW e \in Admin!Fetches(Admin!RowsOf(q), Admin!Fields) \cup {None},
         fetch' = [fetch EXCEPT ![q] = e]
  PROVE  /\ fetch' = [r \in Admin!Queries |-> fetch'[r]] /\ fetch'[q] = e
         /\ \A r \in Admin!Queries \ {q} : fetch'[r] = fetch[r]
         /\ \A r \in Admin!Queries : fetch'[r] \in Admin!Fetches(Admin!RowsOf(r), Admin!Fields) \cup {None}
  BY DEF TablesTyped

(* A step that asks for more, and loses no save that a row waits for.      *)
LEMMA TablesStay ==
  ASSUME TablesTyped, TablesCurrent, UNCHANGED <<resource, server, cache, stale>>,
         unsure \subseteq unsure', rushed \subseteq rushed',
         \A q \in Admin!Queries : \/ fetch'[q] = fetch[q]
                                  \/ fetch[q] = None /\ fetch'[q] # None /\ fetch'[q].rows = None,
         \A s \in saves : \/ s \in saves' \/ s.id \in unsure' \/ s.at = "sent"
                          \/ /\ s.at = "answered"
                             /\ \A q \in Admin!Queries : fetch[q] # None => s.n \notin fetch[q].waits,
         \A q \in Admin!Queries : Admin!Mounted(q)' => Admin!Mounted(q) \/ fetch'[q] # None \/ q \notin stale
  PROVE  TablesCurrent'
  <1> SUFFICES ASSUME NEW q \in Admin!Queries
               PROVE  /\ ReadIsCurrent(q)' /\ ShownIsCurrent(q)'
                      /\ resource # "access" => TakenIsCurrent(q)'
    BY SamePage DEF TablesCurrent
  <1>1. /\ ReadIsCurrent(q) /\ ShownIsCurrent(q) /\ (resource # "access" => TakenIsCurrent(q))
    BY DEF TablesCurrent
  <1>2. \A id : id \notin unsure' /\ ServedOn(id) => ServedOn(id)'
    BY DEF ServedOn
  <1>3. \A id : id \notin unsure' /\ Awaited(q, id) => Awaited(q, id)'
    <2> SUFFICES ASSUME NEW id, id \notin unsure', NEW s \in saves, s.id = id,
                        \/ s.at = "served"
                        \/ s.at = "answered" /\ fetch[q] # None /\ s.n \in fetch[q].waits
                 PROVE  Awaited(q, id)'
      BY DEF Awaited
    <2>1. s \in saves'
      OBVIOUS
    <2> QED
      BY <2>1 DEF Awaited
  <1>4. ReadIsCurrent(q)'
    <2> SUFFICES ASSUME fetch'[q] # None, fetch'[q].rows # None, NEW id \in Admin!RowsOf(q) \ unsure'
                 PROVE  Current(fetch'[q].rows[id], server[id]) \/ ServedOn(id)'
      BY SamePage DEF ReadIsCurrent
    <2>1. fetch'[q] = fetch[q] /\ id \notin unsure
      OBVIOUS
    <2> QED
      BY <1>1, <1>2, <2>1 DEF ReadIsCurrent
  <1>5. ShownIsCurrent(q)'
    <2> SUFFICES ASSUME cache[q] # None, NEW id \in Admin!RowsOf(q) \ unsure'
                 PROVE  \/ Current(cache[q][id], server[id]) \/ ServedOn(id)' \/ fetch'[q] # None
                        \/ ~Admin!Mounted(q)' /\ q \in stale
      BY SamePage DEF ShownIsCurrent
    <2>1. id \notin unsure
      OBVIOUS
    <2> QED
      BY <1>1, <1>2, <2>1 DEF ShownIsCurrent
  <1>6. ASSUME resource # "access" PROVE TakenIsCurrent(q)'
    <2> SUFFICES ASSUME cache[q] # None, NEW id \in Admin!RowsOf(q) \ Excluded'
                 PROVE  Current(cache[q][id], server[id]) \/ Awaited(q, id)'
      BY SamePage DEF TakenIsCurrent
    <2>1. id \notin Excluded /\ id \notin unsure'
      BY DEF Excluded
    <2> QED
      BY <1>1, <1>3, <1>6, <2>1 DEF TakenIsCurrent
  <1> QED
    BY <1>4, <1>5, <1>6

(* What dialogs and saves hold stays right.                                *)
LEMMA DialogStays ==
  ASSUME FormsRight, DialogFits, UNCHANGED <<resource, server>>,
         unsure \subseteq unsure', rushed \subseteq rushed',
         Dialogs => \/ form' = None
                    \/ /\ form # None /\ form'.id = form.id /\ form'.kind = form.kind
                       /\ form'.n = form.n /\ form'.values = form.values
                       /\ \A s \in saves : s.form = form.n /\ s.at # "sent" /\ form.kind = "edit" =>
                             \/ s.id \in unsure'
                             \/ \E t \in saves' : t.form = form.n /\ t.at # "sent"
  PROVE  DialogFits'
  <1> SUFFICES ASSUME Dialogs, form' # None, form'.kind = "edit", form'.id \notin Excluded'
               PROVE  \/ \A f \in Admin!Fields :
                           IF f \in Admin!Secret THEN form'.values[f] = Blank
                           ELSE form'.values[f] = server[form'.id][f] \/ server[form'.id][f] = Other
                      \/ \E s \in saves' : s.form = form'.n /\ s.at # "sent"
    BY SamePage DEF DialogFits, Admin!Secret
  <1>1. /\ form # None /\ form'.id = form.id /\ form'.kind = form.kind
        /\ form'.n = form.n /\ form'.values = form.values
        /\ form.id \notin Excluded /\ form.kind = "edit" /\ form.id \notin unsure'
    BY DEF Excluded
  <1>2. CASE \E s \in saves : s.form = form.n /\ s.at # "sent"
    <2>1. PICK s \in saves : s.form = form.n /\ s.at # "sent"
      BY <1>2
    <2>2. s.id = form.id
      BY <1>1, <2>1 DEF FormsRight, DialogSaves
    <2> QED
      BY <1>1, <2>1, <2>2
  <1>3. CASE ~ \E s \in saves : s.form = form.n /\ s.at # "sent"
    BY <1>1, <1>3 DEF DialogFits
  <1> QED
    BY <1>2, <1>3

LEMMA LeftStays ==
  ASSUME LeftFits, UNCHANGED <<resource, server>>,
         unsure \subseteq unsure', rushed \subseteq rushed',
         \A t \in saves' : t.at = "sent" => t \in saves
  PROVE  LeftFits'
  BY SamePage DEF LeftFits, Excluded

(* The rows of an editor are rows, and its form shows them.                *)
LEMMA EditorStays ==
  ASSUME EditorTyped, EditorShows, UNCHANGED <<resource, server, cache>>,
         \A q \in Admin!Queries : fetch'[q] = fetch[q] \/ fetch'[q] = None \/ fetch'[q].rows = None,
         form'.id = form.id, form'.of = form.of, form'.values = form.values
  PROVE  EditorTyped' /\ EditorShows'
  <1>1. EditorTyped'
    BY SamePage DEF EditorTyped, Admin!Values
  <1>2. EditorShows'
    BY SamePage DEF EditorShows, Admin!QueryOf, Admin!Shown
  <1> QED
    BY <1>1, <1>2

---------------------------------------------------------------------------
(* Steps of the console: fetches.                                          *)

LEMMA AdminTypes ==
  ASSUME AdminInv
  PROVE  /\ TablesTyped /\ FormsTyped /\ FormsRight /\ TablesCurrent /\ DialogFits /\ LeftFits
         /\ resource \in Resources /\ AdminClicks \in Nat /\ clicks \in Nat /\ clicks \in 0 .. AdminClicks
         /\ others \in Nat
  BY AdminFacts DEF AdminInv, FormsRight, FormsTyped, TablesTyped

LEMMA FormUnmoved ==
  ASSUME FormsTyped, UNCHANGED form
  PROVE  SameForm
  BY FormFacts DEF SameForm

LEMMA ReadKeeps ==
  ASSUME AdminInv, NEW q \in Admin!Queries, Admin!Read(q)
  PROVE  AdminInv'
  <1> DEFINE rows == [id \in Admin!RowsOf(q) |-> server[id]]
             e == [fetch[q] EXCEPT !.rows = rows]
  <1>1. /\ UNCHANGED <<resource, server, cache, stale, domain, form, saves, unsure, rushed,
                       clicks, others>>
        /\ fetch[q] # None /\ fetch[q].rows = None /\ fetch' = [fetch EXCEPT ![q] = e]
    BY DEF Admin!Read
  <1>2. /\ resource \in Resources /\ fetch[q] \in Admin!Fetches(Admin!RowsOf(q), Admin!Fields)
        /\ server \in [Ids -> [Admin!Fields -> Admin!Values] \cup {None, Deleted}] /\ Admin!RowsOf(q) \subseteq Ids
    BY <1>1, AdminTypes, TableFacts, QueryFacts
  <1>3. rows \in Admin!Table(Admin!RowsOf(q), Admin!Fields)
    BY <1>2 DEF Admin!Table
  <1> HIDE DEF rows
  <1>4. /\ e \in Admin!Fetches(Admin!RowsOf(q), Admin!Fields) /\ e.rows = rows /\ e.waits = fetch[q].waits
    BY <1>2, <1>3 DEF Admin!Fetches
  <1> HIDE DEF e
  <1>5. e # None
    BY <1>2, <1>4, AdminFacts, FieldFacts
  <1>6. /\ fetch' = [r \in Admin!Queries |-> fetch'[r]] /\ fetch'[q] = e
        /\ \A r \in Admin!Queries \ {q} : fetch'[r] = fetch[r]
        /\ \A r \in Admin!Queries : fetch'[r] \in Admin!Fetches(Admin!RowsOf(r), Admin!Fields) \cup {None}
    BY <1>1, <1>4, AdminTypes, OneFetch
  <1>7. TablesTyped'
    BY <1>1, <1>6, AdminTypes, TableFacts, TypesOfTables
  <1>8. \A id \in Admin!RowsOf(q) : e.rows[id] = server[id]
    BY <1>4 DEF rows
  <1>9. TablesCurrent'
    <2> SUFFICES ASSUME NEW r \in Admin!Queries
                 PROVE  /\ ReadIsCurrent(r)' /\ ShownIsCurrent(r)'
                        /\ resource # "access" => TakenIsCurrent(r)'
      BY <1>1, SamePage DEF TablesCurrent
    <2>1. /\ ReadIsCurrent(r) /\ ShownIsCurrent(r) /\ (resource # "access" => TakenIsCurrent(r))
      BY AdminTypes DEF TablesCurrent
    <2>2. fetch[r] # None <=> fetch'[r] # None
      BY <1>1, <1>5, <1>6
    <2>3. fetch[r] # None => fetch'[r].waits = fetch[r].waits
      BY <1>4, <1>6
    <2>4. ShownIsCurrent(r)'
      BY <1>1, <2>1, <2>2, SamePage DEF ShownIsCurrent, Admin!Mounted, ServedOn
    <2>5. \A id : Awaited(r, id) => Awaited(r, id)'
      BY <1>1, <2>2, <2>3 DEF Awaited
    <2>6. ASSUME resource # "access" PROVE TakenIsCurrent(r)'
      BY <1>1, <2>1, <2>5, <2>6, SamePage DEF TakenIsCurrent, Excluded
    <2>7. ReadIsCurrent(r)'
      <3>1. CASE r = q
        <4>1. \A id \in Admin!RowsOf(q) : Current(e.rows[id], server[id])
          BY <1>8 DEF Current
        <4> QED
          BY <1>1, <1>6, <3>1, <4>1, SamePage DEF ReadIsCurrent
      <3>2. CASE r # q
        BY <1>1, <1>6, <2>1, <3>2, SamePage DEF ReadIsCurrent, ServedOn
      <3> QED
        BY <3>1, <3>2
    <2> QED
      BY <2>4, <2>6, <2>7
  <1>10. FormsRight'
    BY <1>1, AdminTypes, FormUnmoved, FormsStay
  <1>11. DialogFits' /\ LeftFits'
    BY <1>1, AdminTypes, DialogStays, LeftStays
  <1>12. ASSUME Admin!Editor PROVE EditorTyped' /\ EditorShows'
    <2>1. EditorTyped /\ EditorShows
      BY <1>12 DEF AdminInv
    <2>2. EditorShows'
      BY <1>1, <2>1, SamePage DEF EditorShows, Admin!QueryOf, Admin!Shown
    <2>3. ASSUME NEW r \in Admin!Queries, NEW id \in Admin!RowsOf(r) \cap EditorRows, fetch'[r] # None,
                 fetch'[r].rows # None
          PROVE  fetch'[r].rows[id] \in [Admin!Fields -> Admin!Values]
      <3>1. CASE r = q
        BY <1>6, <1>8, <2>1, <2>3, <3>1 DEF EditorTyped
      <3>2. CASE r # q
        BY <1>6, <2>1, <2>3, <3>2 DEF EditorTyped
      <3> QED
        BY <3>1, <3>2
    <2>4. EditorTyped'
      BY <1>1, <2>1, <2>3, SamePage DEF EditorTyped, Admin!Values
    <2> QED
      BY <2>2, <2>4
  <1> QED
    BY <1>1, <1>7, <1>9, <1>10, <1>11, <1>12, SamePage DEF AdminInv

LEMMA TableFetchFailsKeeps ==
  ASSUME AdminInv, NEW q \in Admin!Queries, Admin!FetchFails(q)
  PROVE  AdminInv'
  <1>1. /\ UNCHANGED <<resource, server, cache, stale, domain, form, saves, rushed, clicks>>
        /\ fetch' = [fetch EXCEPT ![q] = None] /\ unsure' = unsure \cup Admin!RowsOf(q)
        /\ others' = others + 1
    BY DEF Admin!FetchFails, Admin!Trouble
  <1>2. /\ fetch' = [r \in Admin!Queries |-> fetch'[r]] /\ fetch'[q] = None
        /\ \A r \in Admin!Queries \ {q} : fetch'[r] = fetch[r]
        /\ \A r \in Admin!Queries : fetch'[r] \in Admin!Fetches(Admin!RowsOf(r), Admin!Fields) \cup {None}
    BY <1>1, AdminTypes, OneFetch
  <1>3. TablesTyped'
    <2>1. /\ Admin!RowsOf(q) \subseteq Ids /\ unsure \subseteq Ids /\ rushed \subseteq Ids
          /\ stale \subseteq Admin!Queries /\ domain \in Ids \cup {None} /\ others \in Nat
      BY AdminTypes, TableFacts, QueryFacts
    <2>2. /\ \A r \in Admin!Queries : cache'[r] \in Admin!Table(Admin!RowsOf(r), Admin!Fields)' \cup {None}
          /\ \A r \in Admin!Queries : fetch'[r] \in Admin!Fetches(Admin!RowsOf(r), Admin!Fields)' \cup {None}
          /\ server' \in Admin!Table(Ids, Admin!Fields)'
      BY <1>1, <1>2, AdminTypes, SamePage DEF TablesTyped, Admin!Table, Admin!Fetches
    <2> QED
      BY <1>1, <1>2, <2>1, <2>2, AdminTypes, SamePage DEF TablesTyped
  <1>4. TablesCurrent'
    <2> SUFFICES ASSUME NEW r \in Admin!Queries
                 PROVE  /\ ReadIsCurrent(r)' /\ ShownIsCurrent(r)'
                        /\ resource # "access" => TakenIsCurrent(r)'
      BY <1>1, SamePage DEF TablesCurrent
    <2>1. /\ ReadIsCurrent(r) /\ ShownIsCurrent(r) /\ (resource # "access" => TakenIsCurrent(r))
      BY AdminTypes DEF TablesCurrent
    <2>2. CASE r = q
      BY <1>1, <1>2, <2>2, SamePage DEF ReadIsCurrent, ShownIsCurrent, TakenIsCurrent, Excluded
    <2>3. CASE r # q
      <3>1. fetch'[r] = fetch[r]
        BY <1>2, <2>3
      <3>2. ReadIsCurrent(r)'
        BY <1>1, <2>1, <3>1, SamePage DEF ReadIsCurrent, ServedOn
      <3>3. ShownIsCurrent(r)'
        BY <1>1, <2>1, <3>1, SamePage DEF ShownIsCurrent, ServedOn, Admin!Mounted
      <3>4. \A id : Awaited(r, id) => Awaited(r, id)'
        BY <1>1, <3>1 DEF Awaited
      <3>5. ASSUME resource # "access" PROVE TakenIsCurrent(r)'
        BY <1>1, <2>1, <3>4, <3>5, SamePage DEF TakenIsCurrent, Excluded
      <3> QED
        BY <3>2, <3>3, <3>5
    <2> QED
      BY <2>2, <2>3
  <1>5. FormsRight'
    BY <1>1, AdminTypes, FormUnmoved, FormsStay
  <1>6. DialogFits' /\ LeftFits'
    BY <1>1, AdminTypes, DialogStays, LeftStays
  <1>7. Admin!Editor => EditorTyped' /\ EditorShows'
    BY <1>1, <1>2, EditorStays DEF AdminInv
  <1> QED
    BY <1>1, <1>3, <1>4, <1>5, <1>6, <1>7, SamePage DEF AdminInv

LEMMA AdminComesBackKeeps ==
  ASSUME AdminInv, Admin!ComeBack
  PROVE  AdminInv'
  <1>1. PICK q \in Admin!Queries : fetch[q] = None /\ fetch' = [fetch EXCEPT ![q] = Admin!Asked({})]
    BY DEF Admin!ComeBack
  <1>2. /\ UNCHANGED <<resource, server, cache, stale, domain, form, saves, unsure, rushed, others>>
        /\ clicks < AdminClicks /\ clicks' = clicks + 1
    BY DEF Admin!ComeBack, Admin!Press
  <1>3. Admin!Asked({}) \in Admin!Fetches(Admin!RowsOf(q), Admin!Fields) /\ Admin!Asked({}) # None /\ Admin!Asked({}).rows = None
    BY AdminTypes, AskedFacts
  <1>4. /\ fetch' = [r \in Admin!Queries |-> fetch'[r]] /\ fetch'[q] = Admin!Asked({})
        /\ \A r \in Admin!Queries \ {q} : fetch'[r] = fetch[r]
        /\ \A r \in Admin!Queries : fetch'[r] \in Admin!Fetches(Admin!RowsOf(r), Admin!Fields) \cup {None}
    BY <1>1, <1>3, AdminTypes, OneFetch
  <1>5. TablesTyped'
    BY <1>2, <1>4, AdminTypes, TableFacts, TypesOfTables
  <1>6. \A r \in Admin!Queries : \/ fetch'[r] = fetch[r]
                                 \/ fetch[r] = None /\ fetch'[r] # None /\ fetch'[r].rows = None
    BY <1>1, <1>3, <1>4
  <1>7. TablesCurrent'
    BY <1>2, <1>6, AdminTypes, TablesStay DEF Admin!Mounted
  <1>8. FormsRight'
    BY <1>2, AdminTypes, FormUnmoved, FormsStay
  <1>9. DialogFits' /\ LeftFits'
    BY <1>2, AdminTypes, DialogStays, LeftStays
  <1>10. Admin!Editor => EditorTyped' /\ EditorShows'
    BY <1>2, <1>6, EditorStays DEF AdminInv
  <1> QED
    BY <1>2, <1>5, <1>7, <1>8, <1>9, <1>10, SamePage DEF AdminInv

(* The rows come.                                                          *)
LEMMA ArriveKeeps ==
  ASSUME AdminInv, NEW q \in Admin!Queries, Admin!Arrive(q)
  PROVE  AdminInv'
  <1> DEFINE rows == fetch[q].rows
             resets == Admin!Editor /\ Admin!Mounted(q) /\ cache[q] # rows
  <1>1. /\ UNCHANGED <<resource, server, domain, saves, unsure, rushed, clicks, others>>
        /\ fetch[q] # None /\ rows # None /\ cache' = [cache EXCEPT ![q] = rows]
        /\ stale' = stale \ {q} /\ fetch' = [fetch EXCEPT ![q] = None]
        /\ form' = IF resets THEN Admin!Reset(form, form.id, Admin!Shown(rows[form.id])) ELSE form
    BY DEF Admin!Arrive
  <1>2. /\ fetch' = [r \in Admin!Queries |-> fetch'[r]] /\ fetch'[q] = None
        /\ \A r \in Admin!Queries \ {q} : fetch'[r] = fetch[r]
        /\ \A r \in Admin!Queries : fetch'[r] \in Admin!Fetches(Admin!RowsOf(r), Admin!Fields) \cup {None}
    BY <1>1, AdminTypes, OneFetch
  <1>3. /\ cache' = [r \in Admin!Queries |-> cache'[r]] /\ cache'[q] = rows
        /\ \A r \in Admin!Queries \ {q} : cache'[r] = cache[r]
    BY <1>1, AdminTypes DEF TablesTyped
  <1>4. rows \in [Admin!RowsOf(q) -> [Admin!Fields -> Admin!Values] \cup {None, Deleted}]
    BY <1>1, AdminTypes, TableFacts
  <1> HIDE DEF rows
  <1>5. TablesTyped'
    <2>1. \A r \in Admin!Queries : cache'[r] \in Admin!Table(Admin!RowsOf(r), Admin!Fields) \cup {None}
      BY <1>3, <1>4, AdminTypes DEF TablesTyped, Admin!Table
    <2>2. /\ \A r \in Admin!Queries : cache'[r] \in Admin!Table(Admin!RowsOf(r), Admin!Fields)' \cup {None}
          /\ \A r \in Admin!Queries : fetch'[r] \in Admin!Fetches(Admin!RowsOf(r), Admin!Fields)' \cup {None}
          /\ server' \in Admin!Table(Ids, Admin!Fields)'
      BY <1>1, <1>2, <2>1, AdminTypes, SamePage DEF TablesTyped, Admin!Table, Admin!Fetches
    <2> QED
      BY <1>1, <1>2, <1>3, <2>2, AdminTypes, SamePage DEF TablesTyped
  <1>6. TablesCurrent'
    <2> SUFFICES ASSUME NEW r \in Admin!Queries
                 PROVE  /\ ReadIsCurrent(r)' /\ ShownIsCurrent(r)'
                        /\ resource # "access" => TakenIsCurrent(r)'
      BY <1>1, SamePage DEF TablesCurrent
    <2>1. /\ ReadIsCurrent(r) /\ ShownIsCurrent(r) /\ (resource # "access" => TakenIsCurrent(r))
      BY AdminTypes DEF TablesCurrent
    <2>2. ASSUME r = q
          PROVE  /\ ReadIsCurrent(r)' /\ ShownIsCurrent(r)'
                 /\ resource # "access" => TakenIsCurrent(r)'
      <3>1. \A id \in Admin!RowsOf(q) \ unsure : Current(rows[id], server[id]) \/ ServedOn(id)
        BY <1>1, <2>1, <2>2 DEF ReadIsCurrent, rows
      <3>2. ReadIsCurrent(q)'
        BY <1>2 DEF ReadIsCurrent
      <3>3. ShownIsCurrent(q)'
        BY <1>1, <1>3, <3>1, SamePage DEF ShownIsCurrent, ServedOn
      <3>4. \A id : ServedOn(id) => Awaited(q, id)'
        BY <1>1 DEF ServedOn, Awaited
      <3>5. TakenIsCurrent(q)'
        BY <1>1, <1>3, <3>1, <3>4, SamePage DEF TakenIsCurrent, Excluded
      <3> QED
        BY <2>2, <3>2, <3>3, <3>5
    <2>3. ASSUME r # q
          PROVE  /\ ReadIsCurrent(r)' /\ ShownIsCurrent(r)'
                 /\ resource # "access" => TakenIsCurrent(r)'
      <3>1. fetch'[r] = fetch[r] /\ cache'[r] = cache[r] /\ (r \in stale => r \in stale')
        BY <1>1, <1>2, <1>3, <2>3
      <3>2. ReadIsCurrent(r)'
        BY <1>1, <2>1, <3>1, SamePage DEF ReadIsCurrent, ServedOn
      <3>3. Admin!Mounted(r)' => Admin!Mounted(r)
        <4>1. form' # None => form # None \/ resource # "access"
          BY <1>1 DEF Admin!Editor
        <4> QED
          BY <1>1, <4>1, MountedFacts, MountedNext
      <3>4. ShownIsCurrent(r)'
        BY <1>1, <2>1, <3>1, <3>3, SamePage DEF ShownIsCurrent, ServedOn
      <3>5. \A id : Awaited(r, id) => Awaited(r, id)'
        BY <1>1, <3>1 DEF Awaited
      <3>6. ASSUME resource # "access" PROVE TakenIsCurrent(r)'
        BY <1>1, <2>1, <3>1, <3>5, <3>6, SamePage DEF TakenIsCurrent, Excluded
      <3> QED
        BY <3>2, <3>4, <3>6
    <2> QED
      BY <2>2, <2>3
  <1>7. ASSUME Admin!Editor
        PROVE  /\ EditorTyped /\ EditorShows /\ form # None /\ form.id \in EditorRows
               /\ form \in Admin!Forms(Admin!Fields) /\ q \in Admin!RowsOf(q) /\ Admin!QueryOf(q) = q
               /\ Admin!Mounted(q) => form.id \in Admin!RowsOf(q) /\ Admin!QueryOf(form.id) = q
    <2>1. EditorTyped /\ EditorShows /\ EditorSaves
      BY <1>7, AdminTypes DEF AdminInv, FormsRight
    <2>2. form # None /\ form.id = IF resource = "settings" THEN First ELSE domain
      BY <2>1 DEF EditorSaves
    <2>3. form \in Admin!Forms(Admin!Fields) /\ form.id \in Ids
      BY <2>2, AdminTypes, FormFacts
    <2>4. resource = "settings" \/ resource = "signatures"
      BY <1>7 DEF Admin!Editor
    <2>5. form.id \in EditorRows
      BY <2>2, <2>3, <2>4 DEF EditorRows
    <2>6. q \in Admin!RowsOf(q) /\ Admin!QueryOf(q) = q
      BY AdminFacts DEF Admin!Queries, Admin!RowsOf, Admin!QueryOf
    <2>7. ASSUME Admin!Mounted(q) PROVE form.id \in Admin!RowsOf(q) /\ Admin!QueryOf(form.id) = q
      BY <2>2, <2>3, <2>4, <2>7, MountedFacts DEF Admin!Queries, Admin!RowsOf, Admin!QueryOf
    <2> QED
      BY <2>1, <2>2, <2>3, <2>5, <2>6, <2>7
  <1>8. ASSUME resets
        PROVE  /\ form' \in Admin!Forms(Admin!Fields) /\ form'.id = form.id /\ form'.kind = form.kind
               /\ form'.n = form.n /\ form'.busy = form.busy /\ form'.of = form.id
               /\ form'.values = Admin!Shown(rows[form.id])
    <2>1. rows[form.id] \in [Admin!Fields -> Admin!Values]
      BY <1>1, <1>7, <1>8 DEF EditorTyped, rows
    <2>2. Admin!Secret \cap Admin!Fields = {}
      BY <1>8, AdminTypes, FieldFacts
    <2>3. Admin!Shown(rows[form.id]) \in [Admin!Fields -> Admin!Values]
      BY <2>1, <2>2 DEF Admin!Shown
    <2>4. form' = [form EXCEPT !.values = Admin!Shown(rows[form.id]), !.of = form.id]
      BY <1>1, <1>8 DEF Admin!Reset
    <2> HIDE DEF resets
    <2>5. form \in Admin!Forms(Admin!Fields)
      BY <1>7, <1>8 DEF resets
    <2> QED
      BY <2>3, <2>4, <2>5 DEF Admin!Forms
  <1>9. SameForm
    <2>1. CASE resets
      <3>1. form' # None
        BY <1>8, <2>1, AdminTypes, FormExists
      <3>2. form # None
        BY <1>7, <2>1
      <3> QED
        BY <1>8, <2>1, <3>1, <3>2 DEF SameForm
    <2>2. CASE ~resets
      BY <1>1, <2>2, AdminTypes, FormUnmoved
    <2> QED
      BY <2>1, <2>2
  <1>10. FormsRight'
    BY <1>1, <1>9, AdminTypes, FormsStay
  <1>11. DialogFits' /\ LeftFits'
    BY <1>1, AdminTypes, DialogStays, LeftStays DEF Dialogs
  <1>12. ASSUME Admin!Editor PROVE EditorTyped' /\ EditorShows'
    <2>1. EditorTyped'
      <3>1. ASSUME NEW r \in Admin!Queries, NEW id \in Admin!RowsOf(r) \cap EditorRows
            PROVE  /\ fetch'[r] # None /\ fetch'[r].rows # None => fetch'[r].rows[id] \in [Admin!Fields -> Admin!Values]
                   /\ cache'[r] # None => cache'[r][id] \in [Admin!Fields -> Admin!Values]
        <4>1. CASE r = q
          BY <1>1, <1>2, <1>3, <1>7, <1>12, <4>1 DEF EditorTyped, rows
        <4>2. CASE r # q
          BY <1>2, <1>3, <1>7, <1>12, <4>2 DEF EditorTyped
        <4> QED
          BY <4>1, <4>2
      <3> QED
        BY <1>1, <1>7, <1>12, <3>1, SamePage DEF EditorTyped, Admin!Values
    <2>2. EditorShows'
      <3>1. CASE resets
        <4>1. PICK id \in Ids : id = form.id
          BY <1>7, <3>1 DEF Admin!Forms
        <4>2. /\ Admin!QueryOf(id)' = q /\ form'.of = id /\ form'.id = id
              /\ form'.values = Admin!Shown(rows[id]) /\ cache'[q] = rows /\ rows # None
          BY <1>1, <1>3, <1>7, <1>8, <3>1, <4>1, SamePage
        <4> QED
          BY <1>1, <4>2, SamePage DEF EditorShows, Admin!QueryOf, Admin!Shown
      <3>2. CASE ~resets
        <4>1. form' = form
          BY <1>1, <3>2
        <4>2. \A id : cache[Admin!QueryOf(id)] # None => cache'[Admin!QueryOf(id)] # None
          BY <1>1 
        <4>3. form.of = form.id => cache'[Admin!QueryOf(form.id)][form.id] = cache[Admin!QueryOf(form.id)][form.id]
          <5>1. CASE Admin!Mounted(q)
            BY <1>1, <1>3, <1>12, <3>2, <5>1
          <5>2. CASE ~Admin!Mounted(q)
            <6>1. Admin!QueryOf(form.id) # q
              BY <1>7, <1>12, <5>2, MountedFacts, AdminTypes DEF FormsRight, EditorSaves,
                 Admin!QueryOf, Admin!Editor, Admin!Queries
            <6> QED
              BY <1>1, <6>1 
          <5> QED
            BY <5>1, <5>2
        <4> QED
          BY <1>1, <1>7, <1>12, <4>1, <4>2, <4>3, SamePage DEF EditorShows, Admin!QueryOf,
             Admin!Shown
      <3> QED
        BY <3>1, <3>2
    <2> QED
      BY <2>1, <2>2
  <1> QED
    BY <1>1, <1>5, <1>6, <1>10, <1>11, <1>12, SamePage DEF AdminInv

---------------------------------------------------------------------------
(* Steps of the console: the administrator.                                *)

LEMMA FetchTyped ==
  ASSUME TablesTyped, UNCHANGED fetch
  PROVE  /\ fetch' = [q \in Admin!Queries |-> fetch'[q]]
         /\ \A q \in Admin!Queries : fetch'[q] \in Admin!Fetches(Admin!RowsOf(q), Admin!Fields) \cup {None}
  BY DEF TablesTyped

LEMMA EmptyTyped ==
  /\ Admin!Empty \in [Admin!Fields -> Admin!Values]
  /\ \A row \in [Admin!Fields -> Admin!Values] : Admin!Shown(row) \in [Admin!Fields -> Admin!Values]
  BY DEF Admin!Empty, Admin!Shown, Admin!Values

LEMMA OpenDialogKeeps ==
  ASSUME AdminInv, NEW id \in Ids, NEW kind \in Admin!Kinds, Admin!OpenDialog(id, kind)
  PROVE  AdminInv'
  <1>1. /\ UNCHANGED <<resource, server, cache, stale, fetch, domain, saves, unsure, rushed, others>>
        /\ ~Admin!Editor /\ resource # "access" /\ form = None /\ clicks < AdminClicks
        /\ clicks' = clicks + 1 /\ cache[First] # None /\ Dialogs
    BY DEF Admin!OpenDialog, Admin!Press, Dialogs
  <1>2. First \in Admin!Queries /\ Admin!QueryOf(id) = First /\ Admin!RowsOf(First) = Ids /\ First \in Ids
    BY <1>1, AdminFacts DEF Admin!Editor, Admin!Queries, Admin!QueryOf, Admin!RowsOf
  <1>3. cache[First] \in [Ids -> [Admin!Fields -> Admin!Values] \cup {None, Deleted}]
    BY <1>1, <1>2, AdminTypes, TableFacts
  <1>4. PICK values \in [Admin!Fields -> Admin!Values] :
          /\ form' = Admin!Form(id, kind, values)
          /\ kind = "edit" => Admin!Cached(id) /\ values = Admin!Shown(cache[First][id])
    <2>1. CASE kind = "edit"
      <3>1. Admin!Cached(id) /\ form' = Admin!Form(id, kind, Admin!Shown(cache[First][id]))
        BY <2>1 DEF Admin!OpenDialog
      <3>2. cache[First][id] \in [Admin!Fields -> Admin!Values]
        BY <1>2, <1>3, <3>1 DEF Admin!Cached
      <3> QED
        BY <3>1, <3>2, EmptyTyped
    <2>2. CASE kind # "edit"
      BY <2>2, EmptyTyped DEF Admin!OpenDialog
    <2> QED
      BY <2>1, <2>2
  <1>5. /\ form' \in Admin!Forms(Admin!Fields) /\ form'.id = id /\ form'.kind = kind /\ form'.values = values
        /\ form'.n = clicks /\ form'.busy = {}
    BY <1>4, AdminTypes DEF Admin!Form, Admin!Forms
  <1>6. clicks' \in 0 .. AdminClicks
    BY <1>1, AdminTypes
  <1>7. FormsRight'
    BY <1>1, <1>5, <1>6, AdminTypes, FormOpens
  <1>8. TablesTyped'
    BY <1>1, AdminTypes, FetchTyped, TableFacts, TypesOfTables
  <1>9. TablesCurrent'
    BY <1>1, AdminTypes, MountedFacts, TablesStay DEF Admin!Editor
  <1>10. LeftFits'
    BY <1>1, AdminTypes, LeftStays
  <1>11. DialogFits'
    <2> SUFFICES ASSUME kind = "edit", id \notin Excluded
                 PROVE  \A f \in Admin!Fields : IF f \in Admin!Secret THEN values[f] = Blank
                           ELSE values[f] = server[id][f] \/ server[id][f] = Other
      BY <1>1, <1>5, SamePage DEF DialogFits, Admin!Secret, Excluded
    <2>1. \A s \in saves : s.id \in Excluded
      BY <1>1, AdminTypes DEF FormsRight, DialogSaves
    <2>2. Current(cache[First][id], server[id])
      BY <1>1, <1>2, <2>1, AdminTypes DEF TablesCurrent, TakenIsCurrent, Awaited
    <2>3. /\ values = Admin!Shown(cache[First][id])
          /\ cache[First][id] \notin {None, Deleted}
      BY <1>2, <1>4 DEF Admin!Cached
    <2> QED
      BY <2>2, <2>3 DEF Current, Admin!Shown
  <1> QED
    BY <1>1, <1>7, <1>8, <1>9, <1>10, <1>11, SamePage DEF AdminInv

LEMMA OpenAccessKeeps ==
  ASSUME AdminInv, Admin!OpenAccess
  PROVE  AdminInv'
  <1>1. /\ UNCHANGED <<resource, server, cache, stale, domain, saves, unsure, rushed, others>>
        /\ resource = "access" /\ form = None /\ clicks < AdminClicks
        /\ clicks' = clicks + 1 /\ form' = Admin!Form(First, "view", Admin!Empty) /\ ~Admin!Editor /\ ~Dialogs
    BY DEF Admin!OpenAccess, Admin!Press, Dialogs, Admin!Editor
  <1>2. Admin!Queries = {First} /\ First \in Ids
    BY <1>1, AdminFacts DEF Admin!Queries
  <1>3. /\ form' \in Admin!Forms(Admin!Fields) /\ form'.kind = "view" /\ form'.n = clicks /\ form'.busy = {}
    BY <1>1, <1>2, AdminTypes, EmptyTyped DEF Admin!Form, Admin!Forms
  <1>4. clicks' \in 0 .. AdminClicks
    BY <1>1, AdminTypes
  <1>5. FormsRight'
    BY <1>1, <1>3, <1>4, AdminTypes, FormOpens
  <1>6. /\ fetch' = [q \in Admin!Queries |-> fetch'[q]]
        /\ \A q \in Admin!Queries : fetch'[q] \in Admin!Fetches(Admin!RowsOf(q), Admin!Fields) \cup {None}
        /\ \A q \in Admin!Queries : \/ fetch'[q] = fetch[q]
                                    \/ fetch[q] = None /\ fetch'[q] # None /\ fetch'[q].rows = None
        /\ \A q \in Admin!Queries : fetch'[q] # None \/ q \notin stale
    <2>1. CASE fetch[First] = None /\ fetch' = [fetch EXCEPT ![First] = Admin!Asked({})]
      <3>1. Admin!Asked({}) \in Admin!Fetches(Admin!RowsOf(First), Admin!Fields) /\ Admin!Asked({}) # None /\ Admin!Asked({}).rows = None
        BY <1>2, AdminTypes, AskedFacts
      <3> QED
        BY <1>2, <2>1, <3>1, AdminTypes, OneFetch
    <2>2. CASE (fetch[First] # None \/ (cache[First] # None /\ First \notin stale)) /\ UNCHANGED fetch
      BY <1>2, <2>2, AdminTypes, FetchTyped
    <2> QED
      BY <2>1, <2>2 DEF Admin!OpenAccess
  <1>7. TablesTyped'
    BY <1>1, <1>6, AdminTypes, TableFacts, TypesOfTables
  <1>8. TablesCurrent'
    BY <1>1, <1>6, AdminTypes, TablesStay
  <1>9. DialogFits' /\ LeftFits'
    BY <1>1, AdminTypes, LeftStays, SamePage DEF DialogFits
  <1> QED
    BY <1>1, <1>5, <1>7, <1>8, <1>9, SamePage DEF AdminInv

LEMMA CloseKeeps ==
  ASSUME AdminInv, Admin!Close
  PROVE  AdminInv'
  <1>1. /\ UNCHANGED <<resource, server, cache, stale, fetch, domain, saves, unsure, others>>
        /\ form # None /\ ~Admin!Editor /\ form' = None /\ clicks < AdminClicks /\ clicks' = clicks + 1
        /\ rushed' = rushed \cup {s.id : s \in saves}
    BY DEF Admin!Close, Admin!Press
  <1>2. rushed' \subseteq Ids /\ rushed \subseteq rushed' /\ \A s \in saves' : s.id \in rushed'
    BY <1>1, AdminTypes, TableFacts, SaveFacts
  <1>3. clicks' \in 0 .. AdminClicks /\ clicks' >= clicks
    BY <1>1, AdminTypes
  <1>4. FormsRight'
    BY <1>1, <1>2, <1>3, AdminTypes, FormCloses
  <1>5. TablesTyped'
    BY <1>1, <1>2, AdminTypes, FetchTyped, TableFacts, TypesOfTables
  <1>6. \A q \in Admin!Queries : Admin!Mounted(q)' => Admin!Mounted(q)
    BY <1>1, MountedFacts, MountedNext
  <1>7. TablesCurrent'
    BY <1>1, <1>2, <1>6, AdminTypes, TablesStay
  <1>8. DialogFits' /\ LeftFits'
    BY <1>1, <1>2, AdminTypes, DialogStays, LeftStays
  <1> QED
    BY <1>1, <1>4, <1>5, <1>7, <1>8, SamePage DEF AdminInv

LEMMA SelectKeeps ==
  ASSUME AdminInv, NEW id \in Ids, Admin!Select(id)
  PROVE  AdminInv'
  <1> DEFINE moved == [form EXCEPT !.id = id]
  <1>1. /\ UNCHANGED <<resource, server, cache, stale, saves, unsure, rushed, others>>
        /\ resource = "signatures" /\ domain' = id /\ clicks < AdminClicks /\ clicks' = clicks + 1
        /\ form' = IF cache[id] = None THEN moved ELSE Admin!Reset(moved, id, Admin!Shown(cache[id][id]))
        /\ Admin!Editor /\ ~Dialogs /\ EditorTyped /\ EditorShows
    BY DEF Admin!Select, Admin!Press, Admin!Editor, Dialogs, AdminInv
  <1>2. /\ Admin!Queries = Ids /\ EditorRows = Ids /\ \A q \in Ids : Admin!RowsOf(q) = {q} /\ Admin!QueryOf(q) = q
    BY <1>1 DEF Admin!Queries, EditorRows, Admin!RowsOf, Admin!QueryOf
  <1>3. form # None /\ form \in Admin!Forms(Admin!Fields)
    BY <1>1, AdminTypes, FormFacts DEF FormsRight, EditorSaves
  <1>4. /\ moved \in Admin!Forms(Admin!Fields) /\ moved.id = id /\ moved.kind = form.kind /\ moved.n = form.n
        /\ moved.busy = form.busy /\ moved.of = form.of /\ moved.values = form.values
    BY <1>3 DEF Admin!Forms
  <1> HIDE DEF moved
  <1>5. ASSUME cache[id] # None
        PROVE  /\ form' \in Admin!Forms(Admin!Fields) /\ form'.id = id /\ form'.kind = form.kind /\ form'.n = form.n
               /\ form'.busy = form.busy /\ form'.of = id /\ form'.values = Admin!Shown(cache[id][id])
    <2>1. form' = [moved EXCEPT !.values = Admin!Shown(cache[id][id]), !.of = id]
      BY <1>1, <1>5 DEF Admin!Reset
    <2>2. cache[id][id] \in [Admin!Fields -> Admin!Values]
      BY <1>1, <1>2, <1>5 DEF EditorTyped
    <2>3. Admin!Shown(cache[id][id]) \in [Admin!Fields -> Admin!Values]
      BY <2>2, EmptyTyped
    <2> QED
      BY <1>4, <2>1, <2>3 DEF Admin!Forms
  <1>6. ASSUME cache[id] = None
        PROVE  form' = moved
    BY <1>1, <1>6
  <1>7. clicks' \in 0 .. AdminClicks
    BY <1>1, AdminTypes
  <1>8. FormsRight'
    <2>1. /\ form' \in Admin!Forms(Admin!Fields) /\ form'.id = domain' /\ form'.kind = form.kind
          /\ form'.n = form.n /\ form'.busy = form.busy
      BY <1>1, <1>4, <1>5, <1>6
    <2> QED
      BY <1>1, <1>7, <2>1, AdminTypes, SignatureMoves
  <1>9. /\ fetch' = [q \in Admin!Queries |-> fetch'[q]]
        /\ \A q \in Admin!Queries : fetch'[q] \in Admin!Fetches(Admin!RowsOf(q), Admin!Fields) \cup {None}
        /\ \A q \in Admin!Queries : \/ fetch'[q] = fetch[q]
                                    \/ fetch[q] = None /\ fetch'[q] # None /\ fetch'[q].rows = None
        /\ fetch'[id] # None \/ id \notin stale
    <2>1. CASE fetch[id] = None /\ fetch' = [fetch EXCEPT ![id] = Admin!Asked({})]
      <3>1. Admin!Asked({}) \in Admin!Fetches(Admin!RowsOf(id), Admin!Fields) /\ Admin!Asked({}) # None /\ Admin!Asked({}).rows = None
        BY <1>2, AdminTypes, AskedFacts
      <3> QED
        BY <1>2, <2>1, <3>1, AdminTypes, OneFetch
    <2>2. CASE (fetch[id] # None \/ (cache[id] # None /\ id \notin stale)) /\ UNCHANGED fetch
      BY <1>2, <2>2, AdminTypes, FetchTyped
    <2> QED
      BY <2>1, <2>2 DEF Admin!Select
  <1>10. TablesTyped'
    BY <1>1, <1>9, AdminTypes, TableFacts, TypesOfTables
  <1>11. \A q \in Admin!Queries : Admin!Mounted(q)' => fetch'[q] # None \/ q \notin stale
    BY <1>1, <1>9, MountedNext
  <1>12. TablesCurrent'
    BY <1>1, <1>9, <1>11, AdminTypes, TablesStay
  <1>13. DialogFits' /\ LeftFits'
    BY <1>1, AdminTypes, LeftStays, SamePage DEF DialogFits
  <1>14. EditorTyped'
    BY <1>1, <1>9, SamePage DEF EditorTyped, Admin!Values
  <1>15. EditorShows'
    <2>1. CASE cache[id] # None
      BY <1>1, <1>2, <1>5, <2>1, SamePage DEF EditorShows, Admin!QueryOf, Admin!Shown
    <2>2. CASE cache[id] = None
      <3>1. form'.id = id /\ form'.of = form.of
        BY <1>4, <1>6, <2>2
      <3>2. form.of # None => cache[form.of] # None
        BY <1>1 DEF EditorShows, Admin!QueryOf
      <3>3. form'.of # id
        BY <2>2, <3>1, <3>2, AdminFacts
      <3> QED
        BY <1>1, <3>1, <3>2, <3>3 DEF EditorShows, Admin!QueryOf
    <2> QED
      BY <2>1, <2>2
  <1> QED
    BY <1>1, <1>8, <1>10, <1>12, <1>13, <1>14, <1>15, SamePage DEF AdminInv

(* A save that is sent leaves alone what the server has.                   *)
LEMMA SubmitKeeps ==
  ASSUME AdminInv, NEW typed \in SUBSET Admin!Fields, Admin!Submit(typed)
  PROVE  AdminInv'
  <1> DEFINE body == [f \in Admin!Fields |-> IF f \in typed THEN clicks + 1 ELSE form.values[f]]
             left == {f \in Admin!Fields \ typed : f \in Admin!FormOf.always \/ form.values[f] # Blank}
             u == Admin!Save(form.id, form.kind, body, left)
  <1>1. /\ UNCHANGED <<resource, server, cache, stale, fetch, domain, unsure, rushed, others>>
        /\ form # None /\ form.kind \in Admin!Kinds /\ form.busy = {} /\ Admin!Send(u)
        /\ clicks < AdminClicks /\ clicks' = clicks + 1
    BY DEF Admin!Submit, Admin!Press, Admin!Kinds
  <1>2. resource # "access"
    BY <1>1, AdminTypes DEF FormsRight, AccessSaves, Admin!Kinds
  <1>3. /\ form.id \in Ids /\ form.values \in [Admin!Fields -> Admin!Values] /\ form.n \in Nat
        /\ form.kind \in Admin!Kinds
    BY <1>1, AdminTypes, FormFacts
  <1>4. clicks' \in 0 .. AdminClicks /\ clicks + 1 \in Admin!Values
    BY <1>1, AdminTypes DEF Admin!Values
  <1>5. body \in [Admin!Fields -> Admin!Values] /\ left \in SUBSET Admin!Fields
    BY <1>3, <1>4
  <1>6. /\ \A f \in left : body[f] = form.values[f]
        /\ \A f \in left : f \in Admin!Fields /\ (f \in Admin!FormOf.always \/ form.values[f] # Blank)
    OBVIOUS
  <1> HIDE DEF body, left
  <1>7. /\ u \in Admin!Saves(Admin!Fields) /\ u.n = clicks + 1 /\ u.form = form.n /\ u.id = form.id
        /\ u.kind = form.kind /\ u.at = "sent" /\ u.body = body /\ u.left = left
        /\ u.mixed <=> (Admin!Editor /\ form.of # form.id)
    <2>1. PICK mixed \in BOOLEAN : mixed = (Admin!Editor /\ form.of # form.id)
      OBVIOUS
    <2>2. u = [n |-> clicks + 1, id |-> form.id, kind |-> form.kind, body |-> body, left |-> left,
               form |-> form.n, mixed |-> mixed, at |-> "sent"]
      BY <2>1 DEF Admin!Save
    <2>3. clicks + 1 \in Nat
      BY AdminTypes
    <2>4. u \in Admin!Saves(Admin!Fields)
      BY <1>3, <1>5, <2>2, <2>3 DEF Admin!Saves
    <2>5. u.mixed = mixed
      BY <2>2
    <2>6. u.mixed <=> (Admin!Editor /\ form.of # form.id)
      BY <2>1, <2>5
    <2> QED
      BY <2>2, <2>4, <2>6
  <1> HIDE DEF u
  <1>8. saves' = saves \cup {u}
    BY <1>1 DEF Admin!Send
  <1>9. /\ FormsRight' /\ form' # None
        /\ form'.n = form.n /\ form'.id = form.id /\ form'.kind = form.kind
        /\ form'.values = form.values /\ form'.of = form.of
    BY <1>1, <1>2, <1>4, <1>7, AdminTypes, SaveIsSent
  <1>10. TablesTyped'
    BY <1>1, AdminTypes, FetchTyped, TableFacts, TypesOfTables
  <1>11. \A q \in Admin!Queries : Admin!Mounted(q)' => Admin!Mounted(q)
    BY <1>1, <1>9, MountedFacts, MountedNext
  <1>12. TablesCurrent'
    BY <1>1, <1>8, <1>11, AdminTypes, TablesStay
  <1>13. DialogFits'
    BY <1>1, <1>8, <1>9, AdminTypes, DialogStays
  <1>14. \A s \in saves : s.form # form.n
    BY <1>1, AdminTypes DEF FormsTyped
  <1>15. ASSUME u.kind = "edit", u.id \notin Excluded, ~u.mixed, NEW f \in u.left
         PROVE  u.body[f] = server[u.id][f] \/ server[u.id][f] = Other
    <2>1. f \in Admin!Fields /\ u.body[f] = form.values[f] /\ u.id = form.id /\ form.kind = "edit"
      BY <1>6, <1>7, <1>15
    <2>2. CASE Dialogs
      <3>1. IF f \in Admin!Secret THEN form.values[f] = Blank
            ELSE form.values[f] = server[form.id][f] \/ server[form.id][f] = Other
        BY <1>1, <1>14, <1>15, <2>1, <2>2, AdminTypes DEF DialogFits
      <3>2. f \notin Admin!Secret
        BY <1>6, <1>7, <1>15, <3>1, AdminTypes, FieldFacts
      <3> QED
        BY <2>1, <3>1, <3>2
    <2>3. CASE Admin!Editor
      <3>1. /\ EditorShows /\ EditorSaves /\ form.of = form.id
        BY <1>7, <1>15, <2>3, AdminTypes DEF AdminInv, FormsRight
      <3> DEFINE q == Admin!QueryOf(form.id)
      <3>2. q \in Admin!Queries /\ form.id \in Admin!RowsOf(q) /\ cache[q] # None
        BY <1>3, <3>1, AdminFacts, QueryFacts DEF EditorShows
      <3>3. form.values = Admin!Shown(cache[q][form.id])
        BY <3>1 DEF EditorShows
      <3> HIDE DEF q
      <3>4. saves = {}
        BY <1>14, <3>1 DEF EditorSaves
      <3>5. Current(cache[q][form.id], server[form.id])
        BY <1>2, <1>7, <1>15, <3>2, <3>4, AdminTypes DEF TablesCurrent, TakenIsCurrent, Awaited
      <3>6. f \notin Admin!Secret
        BY <2>1, <2>3, AdminTypes, FieldFacts
      <3>7. form.values[f] = cache[q][form.id][f]
        BY <2>1, <3>3, <3>6 DEF Admin!Shown
      <3> QED
        BY <2>1, <3>5, <3>7 DEF Current
    <2> QED
      BY <1>2, <2>2, <2>3 DEF Dialogs
  <1>16. LeftFits'
    BY <1>1, <1>8, <1>15, AdminTypes DEF LeftFits, Excluded
  <1>17. Admin!Editor => EditorTyped' /\ EditorShows'
    BY <1>1, <1>9, EditorStays DEF AdminInv
  <1> QED
    BY <1>1, <1>9, <1>10, <1>12, <1>13, <1>16, <1>17, SamePage DEF AdminInv

LEMMA ChangeAccessKeeps ==
  ASSUME AdminInv, NEW id \in Ids, NEW kind \in Admin!Kinds, Admin!ChangeAccess(id, kind)
  PROVE  AdminInv'
  <1> DEFINE u == Admin!Save(id, kind, Admin!New(clicks + 1), {})
  <1>1. /\ UNCHANGED <<resource, server, cache, stale, fetch, domain, unsure, rushed, others>>
        /\ resource = "access" /\ form # None /\ kind \notin form.busy /\ Admin!Send(u)
        /\ clicks < AdminClicks /\ clicks' = clicks + 1 /\ ~Admin!Editor /\ ~Dialogs
    BY DEF Admin!ChangeAccess, Admin!Press, Dialogs, Admin!Editor
  <1>2. form.n \in Nat
    BY <1>1, AdminTypes, FormFacts
  <1>3. clicks' \in 0 .. AdminClicks /\ clicks + 1 \in Admin!Values
    BY <1>1, AdminTypes DEF Admin!Values
  <1>4. Admin!New(clicks + 1) \in [Admin!Fields -> Admin!Values]
    BY <1>3 DEF Admin!New
  <1>5. /\ u \in Admin!Saves(Admin!Fields) /\ u.n = clicks + 1 /\ u.form = form.n /\ u.kind = kind /\ u.left = {}
    BY <1>2, <1>4, AdminTypes DEF Admin!Save, Admin!Saves
  <1> HIDE DEF u
  <1>6. saves' = saves \cup {u}
    BY <1>1 DEF Admin!Send
  <1>7. FormsRight' /\ form' # None
    BY <1>1, <1>3, <1>5, AdminTypes, SaveIsSent
  <1>8. TablesTyped'
    BY <1>1, AdminTypes, FetchTyped, TableFacts, TypesOfTables
  <1>9. \A q \in Admin!Queries : Admin!Mounted(q)' => Admin!Mounted(q)
    BY <1>1, MountedFacts, MountedNext
  <1>10. TablesCurrent'
    BY <1>1, <1>6, <1>9, AdminTypes, TablesStay
  <1>11. DialogFits' /\ LeftFits'
    BY <1>1, <1>5, <1>6, AdminTypes, SamePage DEF LeftFits, DialogFits, Excluded
  <1> QED
    BY <1>1, <1>7, <1>8, <1>10, <1>11, SamePage DEF AdminInv

---------------------------------------------------------------------------
(* Steps of the console: saves.                                            *)

LEMMA StageFacts ==
  ASSUME FormsTyped, NEW s \in saves, NEW stage \in {"served", "answered"}, Admin!At(s, stage)
  PROVE  \E u : /\ saves' = (saves \ {s}) \cup {u} /\ u.at = stage
                /\ u.n = s.n /\ u.id = s.id /\ u.kind = s.kind /\ u.form = s.form
                /\ u.left = s.left /\ u.body = s.body /\ u.mixed = s.mixed
  <1> DEFINE u == [s EXCEPT !.at = stage]
  <1>1. /\ u.at = stage /\ u.n = s.n /\ u.id = s.id /\ u.kind = s.kind /\ u.form = s.form
        /\ u.left = s.left /\ u.body = s.body /\ u.mixed = s.mixed
    BY DEF FormsTyped, Admin!Saves
  <1>2. saves' = (saves \ {s}) \cup {u}
    BY DEF Admin!At
  <1> QED
    BY <1>1, <1>2

(* The server's rows change.                                               *)
LEMMA TypesOfServer ==
  ASSUME TablesTyped, UNCHANGED <<resource, cache, stale, fetch, domain, rushed>>,
         NEW id \in Ids, NEW row \in [Admin!Fields -> Admin!Values] \cup {None, Deleted},
         server' = [server EXCEPT ![id] = row], unsure' \subseteq Ids, others' \in Nat
  PROVE  /\ TablesTyped' /\ server'[id] = row
         /\ \A i \in Ids \ {id} : server'[i] = server[i]
  <1>1. server \in [Ids -> [Admin!Fields -> Admin!Values] \cup {None, Deleted}]
    BY TableFacts
  <1>2. server' \in Admin!Table(Ids, Admin!Fields)
    BY <1>1 DEF Admin!Table
  <1>3. \A q \in Admin!Queries : /\ cache'[q] \in Admin!Table(Admin!RowsOf(q), Admin!Fields)' \cup {None}
                                 /\ fetch'[q] \in Admin!Fetches(Admin!RowsOf(q), Admin!Fields)' \cup {None}
    BY SamePage DEF TablesTyped, Admin!Table, Admin!Fetches
  <1>4. server' \in Admin!Table(Ids, Admin!Fields)'
    BY <1>2, SamePage DEF Admin!Table
  <1>5. TablesTyped'
    BY <1>3, <1>4, SamePage DEF TablesTyped
  <1> QED
    BY <1>1, <1>5

(* The worker has served a save of a row.                                  *)
LEMMA RowIsWritten ==
  ASSUME AdminInv, NEW s \in saves, s.at = "sent", Admin!Served(s),
         NEW row \in [Admin!Fields -> Admin!Values] \cup {None, Deleted},
         server' = [server EXCEPT ![s.id] = row],
         Admin!Editor /\ s.id \in EditorRows => row \in [Admin!Fields -> Admin!Values]
  PROVE  AdminInv'
  <1>1. /\ UNCHANGED <<resource, cache, stale, fetch, domain, form, unsure, rushed, clicks, others>>
        /\ Admin!At(s, "served")
    BY DEF Admin!Served
  <1>2. s.id \in Ids
    BY AdminTypes, SaveFacts
  <1>3. /\ TablesTyped' /\ server'[s.id] = row
        /\ \A i \in Ids \ {s.id} : server'[i] = server[i]
    BY <1>1, <1>2, AdminTypes, TableFacts, TypesOfServer
  <1>4. PICK u : /\ saves' = (saves \ {s}) \cup {u} /\ u.at = "served"
                 /\ u.n = s.n /\ u.id = s.id /\ u.kind = s.kind /\ u.form = s.form
                 /\ u.left = s.left /\ u.body = s.body /\ u.mixed = s.mixed
    BY <1>1, AdminTypes, StageFacts
  <1>5. FormsRight'
    BY <1>1, AdminTypes, SaveMoves
  <1>6. TablesCurrent'
    <2> SUFFICES ASSUME NEW q \in Admin!Queries
                 PROVE  /\ ReadIsCurrent(q)' /\ ShownIsCurrent(q)'
                        /\ resource # "access" => TakenIsCurrent(q)'
      BY <1>1, SamePage DEF TablesCurrent
    <2>1. /\ ReadIsCurrent(q) /\ ShownIsCurrent(q) /\ (resource # "access" => TakenIsCurrent(q))
      BY AdminTypes DEF TablesCurrent
    <2>2. \A i : ServedOn(i) => ServedOn(i)'
      BY <1>4 DEF ServedOn
    <2>3. \A i : Awaited(q, i) => Awaited(q, i)'
      BY <1>1, <1>4 DEF Awaited
    <2>4. ServedOn(s.id)' /\ Awaited(q, s.id)'
      BY <1>4 DEF ServedOn, Awaited
    <2>5. Admin!RowsOf(q) \subseteq Ids
      BY QueryFacts
    <2>6. ReadIsCurrent(q)'
      BY <1>1, <1>3, <2>1, <2>2, <2>4, <2>5, SamePage DEF ReadIsCurrent
    <2>7. ShownIsCurrent(q)'
      BY <1>1, <1>3, <2>1, <2>2, <2>4, <2>5, SamePage DEF ShownIsCurrent, Admin!Mounted
    <2>8. ASSUME resource # "access" PROVE TakenIsCurrent(q)'
      BY <1>1, <1>3, <2>1, <2>3, <2>4, <2>5, <2>8, SamePage DEF TakenIsCurrent, Excluded
    <2> QED
      BY <2>6, <2>7, <2>8
  <1>7. DialogFits'
    <2> SUFFICES ASSUME Dialogs, form # None, form.kind = "edit", form.id \notin Excluded
                 PROVE  \/ \A f \in Admin!Fields :
                             IF f \in Admin!Secret THEN form.values[f] = Blank
                             ELSE form.values[f] = server'[form.id][f] \/ server'[form.id][f] = Other
                        \/ \E t \in saves' : t.form = form.n /\ t.at # "sent"
      BY <1>1, SamePage DEF DialogFits, Admin!Secret, Excluded
    <2>1. CASE form.id = s.id
      <3>1. s.form = form.n
        BY <2>1, AdminTypes DEF FormsRight, DialogSaves
      <3> QED
        BY <1>4, <3>1
    <2>2. CASE form.id # s.id
      <3>1. server'[form.id] = server[form.id]
        BY <1>3, <2>2, AdminTypes, FormFacts
      <3> QED
        BY <1>4, <3>1, AdminTypes DEF DialogFits
    <2> QED
      BY <2>1, <2>2
  <1>8. LeftFits'
    <2> SUFFICES ASSUME NEW t \in saves', t.at = "sent", t.kind = "edit", t.id \notin Excluded,
                        ~t.mixed, NEW f \in t.left
                 PROVE  t.body[f] = server'[t.id][f] \/ server'[t.id][f] = Other
      BY <1>1 DEF LeftFits, Excluded
    <2>1. t \in saves /\ t # s
      BY <1>4
    <2>2. t.id # s.id
      <3>1. SUFFICES ASSUME t.id = s.id PROVE FALSE
        OBVIOUS
      <3>2. CASE Dialogs
        BY <2>1, <3>1, <3>2, AdminTypes DEF FormsRight, DialogSaves
      <3>3. CASE Admin!Editor
        BY <2>1, <3>3, AdminTypes DEF FormsRight, EditorSaves
      <3>4. CASE resource = "access"
        BY <2>1, <3>4, AdminTypes DEF FormsRight, AccessSaves
      <3> QED
        BY <3>2, <3>3, <3>4 DEF Dialogs
    <2>3. server'[t.id] = server[t.id]
      BY <1>3, <2>1, <2>2, AdminTypes, SaveFacts
    <2> QED
      BY <2>1, <2>3, AdminTypes DEF LeftFits
  <1>9. ASSUME Admin!Editor PROVE EditorTyped' /\ EditorShows'
    <2>1. EditorTyped /\ EditorShows /\ EditorRows \subseteq Ids
      BY <1>9, QueryFacts DEF AdminInv
    <2>2. \A id \in EditorRows : server'[id] \in [Admin!Fields -> Admin!Values]
      BY <1>3, <1>9, <2>1 DEF EditorTyped
    <2>3. EditorTyped'
      BY <1>1, <2>1, <2>2, SamePage DEF EditorTyped, Admin!Values
    <2>4. EditorShows'
      BY <1>1, <2>1, SamePage DEF EditorShows, Admin!QueryOf, Admin!Shown
    <2> QED
      BY <2>3, <2>4
  <1> QED
    BY <1>1, <1>3, <1>5, <1>6, <1>7, <1>8, <1>9, SamePage DEF AdminInv

LEMMA WrittenTyped ==
  ASSUME AdminInv, NEW s \in saves, Admin!Exists(s.id)
  PROVE  Admin!Written(s) \in [Admin!Fields -> Admin!Values]
  <1>1. server[s.id] \in [Admin!Fields -> Admin!Values] /\ s.body \in [Admin!Fields -> Admin!Values]
    BY AdminTypes, TableFacts, SaveFacts DEF Admin!Exists
  <1> QED
    BY <1>1 DEF Admin!Written

(* An editor only edits.                                                   *)
LEMMA EditorEdits ==
  ASSUME AdminInv, NEW s \in saves, s.kind # "edit"
  PROVE  ~Admin!Editor
  BY AdminTypes DEF FormsRight, EditorSaves

LEMMA ServeEditKeeps ==
  ASSUME AdminInv, NEW s \in saves, Admin!ServeEdit(s)
  PROVE  AdminInv'
  <1>1. /\ s.at = "sent" /\ Admin!Served(s) /\ s.id \in Ids
        /\ server' = IF Admin!Exists(s.id) THEN [server EXCEPT ![s.id] = Admin!Written(s)] ELSE server
    BY AdminTypes, SaveFacts DEF Admin!ServeEdit
  <1>2. server \in [Ids -> [Admin!Fields -> Admin!Values] \cup {None, Deleted}]
    BY AdminTypes, TableFacts
  <1>3. CASE Admin!Exists(s.id)
    BY <1>1, <1>3, WrittenTyped, RowIsWritten
  <1>4. CASE ~Admin!Exists(s.id)
    <2>1. server' = [server EXCEPT ![s.id] = server[s.id]]
      BY <1>1, <1>2, <1>4
    <2>2. Admin!Editor /\ s.id \in EditorRows => server[s.id] \in [Admin!Fields -> Admin!Values]
      BY DEF AdminInv, EditorTyped
    <2> QED
      BY <1>1, <1>2, <2>1, <2>2, RowIsWritten
  <1> QED
    BY <1>3, <1>4

LEMMA ServeCreateKeeps ==
  ASSUME AdminInv, NEW s \in saves, Admin!ServeCreate(s)
  PROVE  AdminInv'
  <1>1. /\ s.at = "sent" /\ Admin!Served(s) /\ server' = [server EXCEPT ![s.id] = s.body]
        /\ s.kind = "create" /\ s.body \in [Admin!Fields -> Admin!Values]
    BY AdminTypes, SaveFacts DEF Admin!ServeCreate
  <1> QED
    BY <1>1, RowIsWritten

LEMMA ServeDeleteKeeps ==
  ASSUME AdminInv, NEW s \in saves, Admin!ServeDelete(s)
  PROVE  AdminInv'
  <1>1. PICK row \in {None, Deleted} :
          /\ s.at = "sent" /\ Admin!Served(s) /\ server' = [server EXCEPT ![s.id] = row]
          /\ s.kind = "delete"
    BY DEF Admin!ServeDelete
  <1>2. ~Admin!Editor
    BY <1>1, EditorEdits
  <1> QED
    BY <1>1, <1>2, RowIsWritten

(* A save is over, and what waits for it is over too.                      *)
LEMMA SaveEnds ==
  ASSUME AdminInv, NEW s \in saves, saves' = saves \ {s}, form' = Admin!Enabled(form, s),
         UNCHANGED <<resource, server, cache, stale, fetch, domain, rushed, clicks>>,
         unsure \subseteq unsure', unsure' \subseteq Ids, others' \in Nat,
         \/ s.at = "sent" \/ s.id \in unsure'
         \/ /\ s.at = "answered"
            /\ \A q \in Admin!Queries : fetch[q] # None => s.n \notin fetch[q].waits,
         Dialogs /\ form # None /\ form.kind = "edit" /\ s.form = form.n =>
             s.at = "sent" \/ s.id \in unsure'
  PROVE  AdminInv'
  <1>1. FormsRight'
    BY AdminTypes, SaveIsOver
  <1>2. TablesTyped'
    <2>1. First \in Ids /\ server \in [Ids -> [Admin!Fields -> Admin!Values] \cup {None, Deleted}]
      BY AdminFacts, AdminTypes, TableFacts
    <2>2. server' = [server EXCEPT ![First] = server[First]]
      BY <2>1
    <2> QED
      BY <2>1, <2>2, AdminTypes, TypesOfServer
  <1>3. form = None => form' = None
    BY DEF Admin!Enabled
  <1>4. form # None => /\ form' # None /\ form'.id = form.id /\ form'.kind = form.kind
                       /\ form'.n = form.n /\ form'.values = form.values /\ form'.of = form.of
    BY AdminTypes, EnabledFacts
  <1>5. \A q \in Admin!Queries : Admin!Mounted(q)' => Admin!Mounted(q)
    BY <1>3, MountedFacts, MountedNext
  <1>6. TablesCurrent'
    BY <1>5, AdminTypes, TablesStay
  <1>7. DialogFits'
    BY <1>3, <1>4, AdminTypes, DialogStays
  <1>8. LeftFits'
    BY AdminTypes, LeftStays
  <1>9. ASSUME Admin!Editor PROVE EditorTyped' /\ EditorShows'
    <2>1. form # None
      BY <1>9, AdminTypes DEF FormsRight, EditorSaves
    <2> QED
      BY <1>4, <1>9, <2>1, EditorStays DEF AdminInv
  <1> QED
    BY <1>1, <1>2, <1>6, <1>7, <1>8, <1>9, SamePage DEF AdminInv

LEMMA RefuseSaveKeeps ==
  ASSUME AdminInv, NEW s \in saves, Admin!Refuse(s)
  PROVE  AdminInv'
  BY AdminTypes, TableFacts, SaveEnds DEF Admin!Refuse

LEMMA SaveLostKeeps ==
  ASSUME AdminInv, NEW s \in saves, Admin!SaveLost(s)
  PROVE  AdminInv'
  <1>1. /\ saves' = saves \ {s} /\ form' = Admin!Enabled(form, s) /\ unsure' = unsure \cup {s.id}
        /\ UNCHANGED <<resource, server, cache, stale, fetch, domain, rushed, clicks>>
        /\ others' = others + 1
    BY DEF Admin!SaveLost, Admin!Trouble
  <1>2. s.id \in unsure' /\ unsure' \subseteq Ids /\ others' \in Nat
    BY <1>1, AdminTypes, TableFacts, SaveFacts
  <1> QED
    BY <1>1, <1>2, SaveEnds

(* A save's dialog closes with it.                                         *)
LEMMA FinishKeeps ==
  ASSUME AdminInv, NEW s \in saves, Admin!Finish(s)
  PROVE  AdminInv'
  <1> DEFINE closes == form # None /\ Admin!ClosesAfter(s) /\ ((form.kind = "create") = (s.kind = "create"))
  <1>1. /\ s.at = "answered" /\ \A q \in Admin!Queries : fetch[q] # None => s.n \notin fetch[q].waits
        /\ saves' = saves \ {s}
        /\ UNCHANGED <<resource, server, cache, stale, fetch, domain, unsure, clicks, others>>
        /\ IF closes THEN form' = None /\ rushed' = rushed \cup {t.id : t \in saves'}
           ELSE form' = Admin!Enabled(form, s) /\ UNCHANGED rushed
    BY DEF Admin!Finish
  <1>2. CASE closes
    <2>1. ~Admin!Editor /\ resource # "access"
      BY <1>2 DEF Admin!ClosesAfter
    <2>2. /\ form' = None /\ rushed' = rushed \cup {t.id : t \in saves'}
          /\ rushed \subseteq rushed' /\ rushed' \subseteq Ids
          /\ \A t \in saves' : t.id \in rushed'
      BY <1>1, <1>2, AdminTypes, TableFacts, SaveFacts
    <2>3. FormsRight'
      BY <1>1, <2>1, <2>2, AdminTypes, FormCloses
    <2>4. TablesTyped'
      BY <1>1, <2>2, AdminTypes, FetchTyped, TableFacts, TypesOfTables
    <2>5. \A q \in Admin!Queries : Admin!Mounted(q)' => Admin!Mounted(q)
      BY <1>1, <2>2, MountedFacts, MountedNext
    <2>6. TablesCurrent'
      BY <1>1, <2>2, <2>5, AdminTypes, TablesStay
    <2>7. DialogFits' /\ LeftFits'
      BY <1>1, <2>2, AdminTypes, DialogStays, LeftStays
    <2> QED
      BY <1>1, <2>1, <2>3, <2>4, <2>6, <2>7, SamePage DEF AdminInv
  <1>3. CASE ~closes
    <2>1. ~(Dialogs /\ form # None /\ form.kind = "edit" /\ s.form = form.n)
      <3> SUFFICES ASSUME Dialogs, form # None, form.kind = "edit", s.form = form.n
                   PROVE  closes
        BY <1>3
      <3>1. s.kind = "edit"
        BY AdminTypes DEF FormsRight, DialogSaves
      <3> QED
        BY <3>1 DEF Admin!ClosesAfter, Dialogs
    <2> HIDE DEF closes
    <2>2. form' = Admin!Enabled(form, s) /\ UNCHANGED rushed
      BY <1>1, <1>3
    <2> QED
      BY <1>1, <2>1, <2>2, AdminTypes, TableFacts, SaveEnds
  <1> QED
    BY <1>2, <1>3

(* The worker's answer makes the list be fetched anew.                     *)
LEMMA AnswerSaveKeeps ==
  ASSUME AdminInv, NEW s \in saves, Admin!Answer(s)
  PROVE  AdminInv'
  <1> DEFINE q == Admin!QueryOf(IF resource = "signatures" THEN domain ELSE s.id)
  <1>1. /\ UNCHANGED <<resource, server, cache, domain, form, clicks, others>>
        /\ s.at = "served" /\ Admin!At(s, "answered") /\ stale' = stale \cup {q}
        /\ fetch' = IF Admin!Mounted(q) THEN [fetch EXCEPT ![q] = Admin!Asked({s.n})] ELSE fetch
        /\ rushed' = IF Admin!Mounted(q) /\ fetch[q] # None
                     THEN rushed \cup {t.id : t \in {u \in saves : u.n \in fetch[q].waits}}
                     ELSE rushed
        /\ unsure' = IF q # Admin!QueryOf(s.id) \/ (~Admin!Mounted(q) /\ fetch[q] # None)
                     THEN unsure \cup {s.id} ELSE unsure
    BY DEF Admin!Answer, Admin!Invalidate
  <1>2. /\ q \in Admin!Queries /\ s.id \in Ids /\ s.n \in Nat
        /\ resource = "signatures" => q = domain
    <2>1. s.id \in Ids /\ s.n \in Nat
      BY AdminTypes, SaveFacts
    <2>2. ASSUME resource = "signatures" PROVE domain \in Ids /\ q = domain
      <3>1. Admin!Editor /\ form # None /\ form.id = domain
        BY <2>2, AdminTypes DEF Admin!Editor, FormsRight, EditorSaves
      <3> QED
        BY <2>2, <3>1, AdminTypes, FormFacts DEF Admin!QueryOf
    <2> QED
      BY <2>1, <2>2, QueryFacts
  <1> HIDE DEF q
  <1>3. PICK u : /\ saves' = (saves \ {s}) \cup {u} /\ u.at = "answered"
                 /\ u.n = s.n /\ u.id = s.id /\ u.kind = s.kind /\ u.form = s.form
                 /\ u.left = s.left /\ u.body = s.body /\ u.mixed = s.mixed
    BY <1>1, AdminTypes, StageFacts
  <1>4. /\ rushed \subseteq rushed' /\ rushed' \subseteq Ids
        /\ unsure \subseteq unsure' /\ unsure' \subseteq Ids
    BY <1>1, <1>2, AdminTypes, TableFacts, SaveFacts
  <1>5. FormsRight'
    BY <1>1, <1>4, AdminTypes, SaveMoves
  <1>6. /\ Admin!Asked({s.n}) \in Admin!Fetches(Admin!RowsOf(q), Admin!Fields) /\ Admin!Asked({s.n}) # None
        /\ Admin!Asked({s.n}).rows = None /\ Admin!Asked({s.n}).waits = {s.n}
    BY <1>2, AdminTypes, AskedFacts
  <1>7. /\ fetch' = [r \in Admin!Queries |-> fetch'[r]]
        /\ \A r \in Admin!Queries : fetch'[r] \in Admin!Fetches(Admin!RowsOf(r), Admin!Fields) \cup {None}
        /\ \A r \in Admin!Queries : r # q \/ ~Admin!Mounted(q) => fetch'[r] = fetch[r]
        /\ Admin!Mounted(q) => fetch'[q] = Admin!Asked({s.n})
    BY <1>1, <1>2, <1>6, AdminTypes, FetchTyped, OneFetch
  <1>8. TablesTyped'
    <2>1. stale' \subseteq Admin!Queries
      BY <1>1, <1>2, AdminTypes, TableFacts
    <2> QED
      BY <1>1, <1>4, <1>7, <2>1, AdminTypes, TableFacts, TypesOfTables
  <1>9. TablesCurrent'
    <2> SUFFICES ASSUME NEW r \in Admin!Queries
                 PROVE  /\ ReadIsCurrent(r)' /\ ShownIsCurrent(r)'
                        /\ resource # "access" => TakenIsCurrent(r)'
      BY <1>1, SamePage DEF TablesCurrent
    <2>1. /\ ReadIsCurrent(r) /\ ShownIsCurrent(r) /\ (resource # "access" => TakenIsCurrent(r))
      BY AdminTypes DEF TablesCurrent
    <2>2. \A id \in Admin!RowsOf(r) : id \notin unsure' /\ ServedOn(id) /\ ~ServedOn(id)' =>
            /\ id = s.id /\ r = q /\ (Admin!Mounted(q) \/ fetch[q] = None)
      <3> SUFFICES ASSUME NEW id \in Admin!RowsOf(r), id \notin unsure', ServedOn(id), ~ServedOn(id)'
                   PROVE  id = s.id /\ r = q /\ (Admin!Mounted(q) \/ fetch[q] = None)
        OBVIOUS
      <3>1. id = s.id
        BY <1>3 DEF ServedOn
      <3>2. Admin!QueryOf(s.id) = r
        BY <3>1, QueryFacts
      <3> QED
        BY <1>1, <3>1, <3>2
    <2>3. ReadIsCurrent(r)'
      <3> SUFFICES ASSUME fetch'[r] # None, fetch'[r].rows # None, NEW id \in Admin!RowsOf(r) \ unsure'
                   PROVE  Current(fetch'[r].rows[id], server[id]) \/ ServedOn(id)'
        BY <1>1, SamePage DEF ReadIsCurrent
      <3>1. r # q \/ ~Admin!Mounted(q)
        BY <1>6, <1>7
      <3>2. fetch'[r] = fetch[r]
        BY <1>7, <3>1
      <3>3. Current(fetch[r].rows[id], server[id]) \/ ServedOn(id)
        BY <1>4, <2>1, <3>2 DEF ReadIsCurrent
      <3> QED
        BY <2>2, <3>1, <3>2, <3>3
    <2>4. ShownIsCurrent(r)'
      <3> SUFFICES ASSUME cache[r] # None, NEW id \in Admin!RowsOf(r) \ unsure'
                   PROVE  \/ Current(cache[r][id], server[id]) \/ ServedOn(id)' \/ fetch'[r] # None
                          \/ ~Admin!Mounted(r)' /\ r \in stale'
        BY <1>1, SamePage DEF ShownIsCurrent
      <3>1. Admin!Mounted(r)' <=> Admin!Mounted(r)
        BY <1>1 DEF Admin!Mounted
      <3>2. fetch[r] # None => fetch'[r] # None
        BY <1>6, <1>7
      <3>3. \/ Current(cache[r][id], server[id]) \/ ServedOn(id) \/ fetch[r] # None
            \/ ~Admin!Mounted(r) /\ r \in stale
        BY <1>4, <2>1 DEF ShownIsCurrent
      <3>4. r = q => (Admin!Mounted(r) => fetch'[r] # None) /\ r \in stale'
        BY <1>1, <1>6, <1>7
      <3> QED
        BY <1>1, <2>2, <3>1, <3>2, <3>3, <3>4
    <2>5. ASSUME resource # "access" PROVE TakenIsCurrent(r)'
      <3> SUFFICES ASSUME cache[r] # None, NEW id \in Admin!RowsOf(r) \ Excluded'
                   PROVE  Current(cache[r][id], server[id]) \/ Awaited(r, id)'
        BY <1>1, SamePage DEF TakenIsCurrent
      <3>1. id \notin Excluded /\ id \notin unsure' /\ id \notin rushed'
        BY <1>4 DEF Excluded
      <3>2. Admin!Mounted(q)
        BY <1>2, <2>5, MountedFacts
      <3>3. ASSUME NEW t \in saves, t.id = id,
                   \/ t.at = "served"
                   \/ t.at = "answered" /\ fetch[r] # None /\ t.n \in fetch[r].waits
            PROVE  Awaited(r, id)'
        <4>1. CASE t = s
          <5>1. r = q
            BY <1>1, <3>1, <3>3, <4>1, QueryFacts
          <5> QED
            BY <1>3, <1>6, <1>7, <3>2, <3>3, <4>1, <5>1 DEF Awaited
        <4>2. CASE t # s
          <5>1. t \in saves'
            BY <1>3, <4>2
          <5>2. CASE t.at = "served"
            BY <3>3, <5>1, <5>2 DEF Awaited
          <5>3. CASE t.at = "answered" /\ fetch[r] # None /\ t.n \in fetch[r].waits
            <6>1. r # q
              BY <1>1, <3>1, <3>2, <3>3, <5>3
            <6> QED
              BY <1>7, <3>3, <5>1, <5>3, <6>1 DEF Awaited
          <5> QED
            BY <3>3, <5>2, <5>3
        <4> QED
          BY <4>1, <4>2
      <3>4. Current(cache[r][id], server[id]) \/ Awaited(r, id)
        BY <2>1, <2>5, <3>1 DEF TakenIsCurrent
      <3> QED
        BY <3>3, <3>4 DEF Awaited
    <2> QED
      BY <2>3, <2>4, <2>5
  <1>10. DialogFits'
    BY <1>1, <1>3, <1>4, AdminTypes, DialogStays
  <1>11. LeftFits'
    BY <1>1, <1>3, <1>4, AdminTypes, LeftStays
  <1>12. ASSUME Admin!Editor PROVE EditorTyped' /\ EditorShows'
    BY <1>1, <1>6, <1>7, <1>12, EditorStays DEF AdminInv
  <1> QED
    BY <1>1, <1>5, <1>8, <1>9, <1>10, <1>11, <1>12, SamePage DEF AdminInv

(* Another administrator changes a row, or deletes one that may be.        *)
LEMMA ElsewhereKeeps ==
  ASSUME AdminInv, NEW id \in Ids, Admin!Elsewhere(id)
  PROVE  AdminInv'
  <1>1. /\ UNCHANGED <<resource, cache, stale, fetch, domain, form, saves, rushed, clicks>>
        /\ server[id] \notin {None, Deleted} /\ others' = others + 1 /\ others' \in Nat
    BY AdminTypes DEF Admin!Elsewhere, Admin!Trouble
  <1>2. /\ server \in [Ids -> [Admin!Fields -> Admin!Values] \cup {None, Deleted}]
        /\ server[id] \in [Admin!Fields -> Admin!Values] /\ Admin!Fields \in Admin!FieldSets
        /\ unsure \subseteq Ids
    BY <1>1, AdminTypes, TableFacts, FieldFacts
  <1>3. PICK row \in [Admin!Fields -> Admin!Values] \cup {None, Deleted} :
          /\ server' = [server EXCEPT ![id] = row]
          /\ unsure' = unsure \/ unsure' = unsure \cup {id}
          /\ \/ id \in unsure' /\ ~Admin!Editor
             \/ /\ row \in [Admin!Fields -> Admin!Values]
                /\ \A f \in Admin!Fields : row[f] = server[id][f] \/ row[f] = Other
    <2>1. CASE \E f \in Admin!Fields : server' = [server EXCEPT ![id][f] = Other] /\ UNCHANGED unsure
      <3>1. PICK f \in Admin!Fields : server' = [server EXCEPT ![id][f] = Other] /\ UNCHANGED unsure
        BY <2>1
      <3> DEFINE row == [server[id] EXCEPT ![f] = Other]
      <3>2. Other \in Admin!Values
        BY DEF Admin!Values
      <3>3. /\ row \in [Admin!Fields -> Admin!Values]
            /\ \A g \in Admin!Fields : row[g] = server[id][g] \/ row[g] = Other
        BY <1>2, <3>2
      <3>4. server' = [server EXCEPT ![id] = row]
        BY <3>1
      <3> QED
        BY <3>1, <3>3, <3>4
    <2>2. CASE /\ Admin!Deletable /\ unsure' = unsure \cup {id}
               /\ server' = [server EXCEPT ![id] = IF resource = "users" THEN Deleted ELSE None]
      <3>1. ~Admin!Editor
        BY <2>2 DEF Admin!Deletable, Admin!Editor
      <3> QED
        BY <2>2, <3>1
    <2> QED
      BY <2>1, <2>2 DEF Admin!Elsewhere
  <1>4. /\ TablesTyped' /\ server'[id] = row /\ unsure \subseteq unsure' /\ unsure' \subseteq Ids
        /\ \A i \in Ids \ {id} : server'[i] = server[i]
    BY <1>1, <1>2, <1>3, AdminTypes, TypesOfServer
  <1>5. ASSUME NEW i \in Ids, i \notin unsure', NEW f \in Admin!Fields, server'[i][f] # Other
        PROVE  server'[i][f] = server[i][f]
    BY <1>3, <1>4, <1>5
  <1>6. ASSUME NEW i \in Ids, i \notin unsure', NEW c, Current(c, server[i])
        PROVE  Current(c, server'[i])
    <2>1. CASE i = id
      <3>1. row \in [Admin!Fields -> Admin!Values] /\ \A f \in Admin!Fields : row[f] = server[id][f] \/ row[f] = Other
        BY <1>3, <1>6, <2>1
      <3>2. row \notin {None, Deleted}
        BY <1>2, <3>1, AdminFacts
      <3> QED
        BY <1>1, <1>4, <1>6, <2>1, <3>1, <3>2 DEF Current
    <2>2. CASE i # id
      BY <1>4, <1>6, <2>2
    <2> QED
      BY <2>1, <2>2
  <1>7. FormsRight'
    BY <1>1, <1>4, AdminTypes, FormUnmoved, FormsStay
  <1>8. TablesCurrent'
    <2> SUFFICES ASSUME NEW q \in Admin!Queries
                 PROVE  /\ ReadIsCurrent(q)' /\ ShownIsCurrent(q)'
                        /\ resource # "access" => TakenIsCurrent(q)'
      BY <1>1, SamePage DEF TablesCurrent
    <2>1. /\ ReadIsCurrent(q) /\ ShownIsCurrent(q) /\ (resource # "access" => TakenIsCurrent(q))
          /\ Admin!RowsOf(q) \subseteq Ids
      BY AdminTypes, QueryFacts DEF TablesCurrent
    <2>2. ReadIsCurrent(q)'
      BY <1>1, <1>4, <1>6, <2>1, SamePage DEF ReadIsCurrent, ServedOn
    <2>3. ShownIsCurrent(q)'
      BY <1>1, <1>4, <1>6, <2>1, SamePage DEF ShownIsCurrent, ServedOn, Admin!Mounted
    <2>4. ASSUME resource # "access" PROVE TakenIsCurrent(q)'
      BY <1>1, <1>4, <1>6, <2>1, <2>4, SamePage DEF TakenIsCurrent, Awaited, Excluded
    <2> QED
      BY <2>2, <2>3, <2>4
  <1>9. DialogFits'
    <2> SUFFICES ASSUME Dialogs, form # None, form.kind = "edit", form.id \notin Excluded',
                        ~ \E s \in saves : s.form = form.n /\ s.at # "sent", NEW f \in Admin!Fields
                 PROVE  IF f \in Admin!Secret THEN form.values[f] = Blank
                        ELSE form.values[f] = server'[form.id][f] \/ server'[form.id][f] = Other
      BY <1>1, SamePage DEF DialogFits, Admin!Secret
    <2>1. form.id \notin Excluded /\ form.id \notin unsure' /\ form.id \in Ids
      BY <1>1, <1>4, AdminTypes, FormFacts DEF Excluded
    <2>2. IF f \in Admin!Secret THEN form.values[f] = Blank
          ELSE form.values[f] = server[form.id][f] \/ server[form.id][f] = Other
      BY <2>1, AdminTypes DEF DialogFits
    <2> QED
      BY <1>3, <1>4, <2>1, <2>2
  <1>10. LeftFits'
    <2> SUFFICES ASSUME NEW s \in saves, s.at = "sent", s.kind = "edit", s.id \notin Excluded',
                        ~s.mixed, NEW f \in s.left
                 PROVE  s.body[f] = server'[s.id][f] \/ server'[s.id][f] = Other
      BY <1>1, SamePage DEF LeftFits
    <2>1. s.id \notin Excluded /\ s.id \notin unsure' /\ s.id \in Ids /\ f \in Admin!Fields
      BY <1>1, <1>4, AdminTypes, SaveFacts DEF Excluded
    <2>2. s.body[f] = server[s.id][f] \/ server[s.id][f] = Other
      BY <2>1, AdminTypes DEF LeftFits
    <2> QED
      BY <1>3, <1>4, <2>1, <2>2
  <1>11. ASSUME Admin!Editor PROVE EditorTyped' /\ EditorShows'
    <2>1. EditorTyped /\ EditorShows /\ EditorRows \subseteq Ids
      BY <1>11, QueryFacts DEF AdminInv
    <2>2. \A i \in EditorRows : server'[i] \in [Admin!Fields -> Admin!Values]
      BY <1>3, <1>4, <1>11, <2>1 DEF EditorTyped
    <2>3. EditorTyped'
      BY <1>1, <2>1, <2>2, SamePage DEF EditorTyped, Admin!Values
    <2>4. EditorShows'
      BY <1>1, <2>1, SamePage DEF EditorShows, Admin!QueryOf, Admin!Shown
    <2> QED
      BY <2>3, <2>4
  <1> QED
    BY <1>1, <1>4, <1>7, <1>8, <1>9, <1>10, <1>11, SamePage DEF AdminInv

---------------------------------------------------------------------------
(* The console's invariant, and what it promises.                          *)

LEMMA AdminStarts ==
  ASSUME Admin!Init
  PROVE  AdminInv
  <1>1. /\ resource \in Resources /\ cache = [q \in Admin!Queries |-> None] /\ stale = {}
        /\ fetch = [q \in Admin!Queries |->
                      IF q = First /\ resource # "access" THEN Admin!Asked({}) ELSE None]
        /\ server = [id \in Ids |->
                       IF id = First \/ resource = "signatures" THEN Admin!New(0) ELSE None]
        /\ domain = IF resource = "signatures" THEN First ELSE None
        /\ clicks = 0 /\ others = 0 /\ saves = {} /\ unsure = {} /\ rushed = {}
        /\ form = IF Admin!Editor THEN [Admin!Form(First, "edit", Admin!Empty) EXCEPT !.of = None] ELSE None
    BY DEF Admin!Init
  <1>2. First \in Ids /\ AdminClicks \in Nat
    BY AdminFacts
  <1>3. Admin!New(0) \in [Admin!Fields -> Admin!Values]
    BY <1>2 DEF Admin!New, Admin!Values
  <1>4. server \in Admin!Table(Ids, Admin!Fields)
    BY <1>1, <1>3 DEF Admin!Table
  <1>5. \A q \in Admin!Queries : /\ Admin!Asked({}) \in Admin!Fetches(Admin!RowsOf(q), Admin!Fields) /\ Admin!Asked({}).rows = None
    BY <1>1, AskedFacts
  <1>6. TablesTyped
    BY <1>1, <1>2, <1>4, <1>5 DEF TablesTyped
  <1>7. TablesCurrent
    BY <1>1, <1>5 DEF TablesCurrent, ReadIsCurrent, ShownIsCurrent, TakenIsCurrent
  <1>8. ASSUME Admin!Editor
        PROVE  /\ form \in Admin!Forms(Admin!Fields) /\ form # None /\ form.id = First /\ form.kind = "edit"
               /\ form.of = None /\ form.n = 0 /\ form.busy = {}
    <2>1. form = [id |-> First, kind |-> "edit", values |-> Admin!Empty, of |-> None, n |-> 0, busy |-> {}]
      BY <1>1, <1>8 DEF Admin!Form
    <2>2. form \in Admin!Forms(Admin!Fields)
      BY <1>2, <2>1, EmptyTyped DEF Admin!Forms, Admin!Kinds
    <2> QED
      BY <1>1, <2>1, <2>2, FormExists
  <1>9. FormsRight
    <2>1. FormsTyped
      BY <1>1, <1>2, <1>8 DEF FormsTyped
    <2>2. Admin!Editor => EditorSaves
      BY <1>1, <1>8 DEF EditorSaves, Admin!Editor
    <2>3. Dialogs => DialogSaves
      BY <1>1 DEF DialogSaves
    <2>4. resource = "access" => AccessSaves
      BY <1>1 DEF AccessSaves, Admin!Editor
    <2> QED
      BY <2>1, <2>2, <2>3, <2>4 DEF FormsRight
  <1>10. DialogFits /\ LeftFits
    BY <1>1 DEF DialogFits, LeftFits, Dialogs
  <1>11. ASSUME Admin!Editor PROVE EditorTyped /\ EditorShows
    <2>1. \A id \in EditorRows : server[id] \in [Admin!Fields -> Admin!Values]
      BY <1>1, <1>2, <1>3, <1>11 DEF EditorRows, Admin!Editor
    <2>2. EditorTyped
      BY <1>1, <1>5, <2>1 DEF EditorTyped
    <2>3. EditorShows
      BY <1>2, <1>8, <1>11, AdminFacts DEF EditorShows
    <2> QED
      BY <2>2, <2>3
  <1> QED
    BY <1>6, <1>7, <1>9, <1>10, <1>11 DEF AdminInv

LEMMA AdminStays ==
  ASSUME AdminInv, UNCHANGED Admin!cvars
  PROVE  AdminInv'
  <1>1. UNCHANGED <<resource, server, cache, stale, fetch, domain, form, saves, unsure, rushed,
                    clicks, others>>
    BY DEF Admin!cvars
  <1>2. FormsRight'
    BY <1>1, AdminTypes, FormUnmoved, FormsStay
  <1>3. TablesTyped'
    BY <1>1, AdminTypes, FetchTyped, TableFacts, TypesOfTables
  <1>4. TablesCurrent'
    BY <1>1, AdminTypes, MountedFacts, MountedNext, TablesStay
  <1>5. DialogFits' /\ LeftFits'
    BY <1>1, AdminTypes, DialogStays, LeftStays
  <1>6. Admin!Editor => EditorTyped' /\ EditorShows'
    BY <1>1, EditorStays DEF AdminInv
  <1> QED
    BY <1>1, <1>2, <1>3, <1>4, <1>5, <1>6, SamePage DEF AdminInv

LEMMA AdminStep ==
  ASSUME AdminInv, Admin!Next
  PROVE  AdminInv'
  <1>1. CASE \E q \in Admin!Queries : Admin!Read(q) \/ Admin!Arrive(q) \/ Admin!FetchFails(q)
    BY <1>1, ReadKeeps, ArriveKeeps, TableFetchFailsKeeps
  <1>2. CASE Admin!ComeBack \/ Admin!OpenAccess \/ Admin!Close
    BY <1>2, AdminComesBackKeeps, OpenAccessKeeps, CloseKeeps
  <1>3. CASE \E id \in Ids : Admin!Select(id) \/ Admin!Elsewhere(id)
    BY <1>3, SelectKeeps, ElsewhereKeeps
  <1>4. CASE \E id \in Ids, kind \in Admin!Kinds : Admin!OpenDialog(id, kind) \/ Admin!ChangeAccess(id, kind)
    BY <1>4, OpenDialogKeeps, ChangeAccessKeeps
  <1>5. CASE \E typed \in SUBSET Admin!Fields : Admin!Submit(typed)
    BY <1>5, SubmitKeeps
  <1>6. CASE \E s \in saves : \/ Admin!ServeEdit(s) \/ Admin!ServeCreate(s) \/ Admin!ServeDelete(s) \/ Admin!Refuse(s)
                             \/ Admin!SaveLost(s) \/ Admin!Answer(s) \/ Admin!Finish(s)
    BY <1>6, ServeEditKeeps, ServeCreateKeeps, ServeDeleteKeeps, RefuseSaveKeeps, SaveLostKeeps,
       AnswerSaveKeeps, FinishKeeps
  <1> QED
    BY <1>1, <1>2, <1>3, <1>4, <1>5, <1>6 DEF Admin!Next

LEMMA AdminShown ==
  ASSUME AdminInv
  PROVE  Admin!TypeOK /\ Admin!SavesAreShown
  <1>1. Admin!TypeOK
    BY AdminTypes DEF Admin!TypeOK, FormsTyped, TablesTyped
  <1>2. Admin!SavesAreShown
    <2> SUFFICES ASSUME saves = {}, NEW q \in Admin!Queries, Admin!Mounted(q), cache[q] # None, fetch[q] = None,
                        NEW id \in Admin!RowsOf(q) \ unsure
                 PROVE  Current(cache[q][id], server[id])
      BY DEF Admin!SavesAreShown, Current
    <2>1. ~ServedOn(id)
      BY DEF ServedOn
    <2> QED
      BY <2>1, AdminTypes DEF TablesCurrent, ShownIsCurrent
  <1> QED
    BY <1>1, <1>2

LEMMA AdminKeeps ==
  ASSUME AdminInv, Admin!Next
  PROVE  Admin!KeepsFields
  <1> SUFFICES ASSUME NEW s \in saves, s.at = "sent", s.kind = "edit", server'[s.id] # server[s.id],
                      NEW t \in saves', t.n = s.n, t.at = "served",
                      NEW f \in s.left, s.id \notin unsure \cup rushed, ~s.mixed
               PROVE  server'[s.id][f] = server[s.id][f] \/ server[s.id][f] = Other
    BY DEF Admin!KeepsFields
  <1>1. s.body[f] = server[s.id][f] \/ server[s.id][f] = Other
    BY AdminTypes DEF LeftFits, Excluded
  <1>2. f \in Admin!Fields /\ s.id \in Ids
    BY AdminTypes, SaveFacts
  <1>3. \A r \in saves : r.n = t.n => r = s
    BY AdminTypes DEF FormsTyped
  <1>4. t \notin saves
    BY <1>3
  <1>5. PICK r \in saves : Admin!At(r, "served") /\ (Admin!ServeEdit(r) \/ Admin!ServeCreate(r) \/ Admin!ServeDelete(r))
    <2>1. saves' # saves /\ ~(saves' \subseteq saves)
      BY <1>4
    <2>2. ~(\E q \in Admin!Queries : Admin!Read(q) \/ Admin!Arrive(q) \/ Admin!FetchFails(q))
      BY <2>1 DEF Admin!Read, Admin!Arrive, Admin!FetchFails
    <2>3. ~(Admin!ComeBack \/ Admin!OpenAccess \/ Admin!Close)
      BY <2>1 DEF Admin!ComeBack, Admin!OpenAccess, Admin!Close
    <2>4. ~(\E id \in Ids : Admin!Select(id) \/ Admin!Elsewhere(id))
      BY <2>1 DEF Admin!Select, Admin!Elsewhere
    <2>5. ~(\E id \in Ids, kind \in Admin!Kinds : Admin!OpenDialog(id, kind) \/ Admin!ChangeAccess(id, kind))
      <3>1. \A id \in Ids, kind \in Admin!Kinds : ~Admin!OpenDialog(id, kind)
        BY <2>1 DEF Admin!OpenDialog
      <3>2. ASSUME NEW id \in Ids, NEW kind \in Admin!Kinds, Admin!ChangeAccess(id, kind) PROVE FALSE
        <4>1. UNCHANGED server
          BY <3>2 DEF Admin!ChangeAccess
        <4> QED
          BY <4>1
      <3> QED
        BY <3>1, <3>2
    <2>6. ASSUME NEW typed \in SUBSET Admin!Fields, Admin!Submit(typed) PROVE FALSE
      <3>1. UNCHANGED server
        BY <2>6 DEF Admin!Submit
      <3> QED
        BY <3>1
    <2>7. PICK r \in saves : \/ Admin!ServeEdit(r) \/ Admin!ServeCreate(r) \/ Admin!ServeDelete(r) \/ Admin!Refuse(r)
                            \/ Admin!SaveLost(r) \/ Admin!Answer(r) \/ Admin!Finish(r)
      BY <2>2, <2>3, <2>4, <2>5, <2>6 DEF Admin!Next
    <2>8. Admin!ServeEdit(r) \/ Admin!ServeCreate(r) \/ Admin!ServeDelete(r)
      <3>1. ~(Admin!Refuse(r) \/ Admin!SaveLost(r) \/ Admin!Finish(r))
        BY <2>1 DEF Admin!Refuse, Admin!SaveLost, Admin!Finish
      <3>2. ~Admin!Answer(r)
        BY DEF Admin!Answer
      <3> QED
        BY <2>7, <3>1, <3>2
    <2>9. Admin!At(r, "served")
      BY <2>8 DEF Admin!ServeEdit, Admin!ServeCreate, Admin!ServeDelete, Admin!Served
    <2> QED
      BY <2>8, <2>9
  <1>6. r = s
    <2>1. PICK u : saves' = (saves \ {r}) \cup {u} /\ u.n = r.n
      BY <1>5, AdminTypes, StageFacts
    <2>2. t = u
      BY <1>4, <2>1
    <2> QED
      BY <1>3, <2>1, <2>2
  <1>7. Admin!ServeEdit(s)
    BY <1>5, <1>6 DEF Admin!ServeCreate, Admin!ServeDelete
  <1>8. server' = [server EXCEPT ![s.id] = Admin!Written(s)]
    BY <1>7 DEF Admin!ServeEdit
  <1>9. server'[s.id] = Admin!Written(s)
    BY <1>2, <1>8, AdminTypes, TableFacts
  <1>10. server'[s.id][f] = server[s.id][f] \/ server'[s.id][f] = s.body[f]
    BY <1>2, <1>9 DEF Admin!Written
  <1> QED
    BY <1>1, <1>10

---------------------------------------------------------------------------
(* The tab: whichever page is open keeps its invariant.                    *)

WebInv ==
    /\ page \in {"mail", "admin"}
    /\ page = "mail" => MailInv
    /\ page = "admin" => AdminInv

LEMMA WebStarts ==
  ASSUME Init
  PROVE  WebInv
  BY MailStarts, AdminStarts DEF Init, WebInv

LEMMA WebStays ==
  ASSUME WebInv, UNCHANGED vars
  PROVE  WebInv'
  <1>1. UNCHANGED <<page, Mail!vars, Admin!cvars>>
    BY DEF vars, mailVars, adminVars, Mail!vars, Admin!cvars
  <1>2. page = "mail" => MailInv'
    BY <1>1, MailStays DEF WebInv
  <1>3. page = "admin" => AdminInv'
    BY <1>1, AdminStays DEF WebInv
  <1> QED
    BY <1>1, <1>2, <1>3 DEF WebInv

LEMMA WebStep ==
  ASSUME WebInv, [Next]_vars
  PROVE  WebInv'
  <1>1. CASE page = "mail" /\ Mail!Next /\ UNCHANGED page
    BY <1>1, MailStep DEF WebInv
  <1>2. CASE page = "admin" /\ Admin!Next /\ UNCHANGED page
    BY <1>2, AdminStep DEF WebInv
  <1> QED
    BY <1>1, <1>2, WebStays DEF Next

LEMMA WebShown ==
  ASSUME WebInv
  PROVE  TypeOK /\ PagesComplete /\ ScreenIsCurrent
  <1>1. CASE page = "mail"
    BY <1>1, MailShown DEF WebInv, TypeOK, PagesComplete, ScreenIsCurrent
  <1>2. CASE page = "admin"
    BY <1>2, AdminShown DEF WebInv, TypeOK, PagesComplete, ScreenIsCurrent
  <1> QED
    BY <1>1, <1>2 DEF WebInv

THEOREM Inductive == Spec => []WebInv
  BY WebStarts, WebStep, PTL DEF Spec

(* The variables of the page that is open have their types: a list holds the *)
(* pages that were asked for, at most one call is made for a row at a time,  *)
(* and a form knows of the saves it waits for.                               *)
THEOREM TypeCorrect == Spec => []TypeOK
  BY Inductive, WebShown, PTL

(* Reading a list page by page shows every message that was in it throughout *)
(* exactly once and in order, however many arrive, lose their star or are    *)
(* deleted between two pages, and whatever shares its second of arrival.     *)
THEOREM ListsComplete == Spec => []PagesComplete
  BY Inductive, WebShown, PTL

(* With nothing under way the screen shows the server's flags, and what the  *)
(* administrator's saves have left, in whatever order answers, fetches and   *)
(* their replacements came in, except for what was changed elsewhere, lost   *)
(* or not read back.                                                         *)
THEOREM ScreenCurrent == Spec => []ScreenIsCurrent
  BY Inductive, WebShown, PTL

(* A save of a dialog, of an editor or of a user's access leaves the fields  *)
(* that the administrator left alone as the saves before it made them, if    *)
(* those were waited for.                                                    *)
THEOREM SavesKept == Spec => OwnSavesStick
  <1>1. WebInv /\ [Next]_vars => [page = "admin" => Admin!KeepsFields]_vars
    <2> SUFFICES ASSUME WebInv, Next, page = "admin"
                 PROVE  Admin!KeepsFields
      OBVIOUS
    <2>1. Admin!Next /\ AdminInv
      BY DEF WebInv, Next
    <2> QED
      BY <2>1, AdminKeeps
  <1> QED
    BY <1>1, Inductive, PTL DEF Spec, OwnSavesStick

---------------------------------------------------------------------------
(* Lemmas about the table of working copies.                               *)

(* No two rows have one key.                                               *)
Keyed(rows) == \A i, j \in DOMAIN rows : rows[i].id = rows[j].id => i = j

(* A row taken out of a sequence leaves the others, in their order.        *)
LEMMA RemoveAtRows ==
  ASSUME NEW S, NEW s \in Seq(S), NEW k \in 1 .. Len(s)
  PROVE  /\ RemoveAt(s, k) \in Seq(S)
         /\ Len(RemoveAt(s, k)) = Len(s) - 1
         /\ \A j \in 1 .. Len(s) - 1 : RemoveAt(s, k)[j] = IF j < k THEN s[j] ELSE s[j + 1]
  <1> DEFINE left == SubSeq(s, 1, k - 1)
             right == SubSeq(s, k + 1, Len(s))
  <1>0. Len(s) \in Nat /\ k \in Nat /\ \A i \in 1 .. Len(s) : s[i] \in S
    BY LenProperties, ElementOfSeq
  <1>1. /\ left \in Seq(S)
        /\ Len(left) = k - 1
        /\ \A j \in 1 .. k - 1 : left[j] = s[j]
    <2>1. \A i \in 1 .. k - 1 : s[i] \in S
      BY <1>0
    <2> QED
      BY <1>0, <2>1, SubSeqProperties
  <1>2. /\ right \in Seq(S)
        /\ Len(right) = Len(s) - k
        /\ \A j \in 1 .. Len(s) - k : right[j] = s[k + j]
    <2>1. \A i \in k + 1 .. Len(s) : s[i] \in S
      BY <1>0
    <2> QED
      BY <1>0, <2>1, SubSeqProperties
  <1>3. RemoveAt(s, k) = left \o right
    BY DEF RemoveAt
  <1> HIDE DEF left, right
  <1>4. /\ RemoveAt(s, k) \in Seq(S)
        /\ Len(RemoveAt(s, k)) = Len(s) - 1
        /\ \A j \in 1 .. Len(s) - 1 :
              RemoveAt(s, k)[j] = IF j <= k - 1 THEN left[j] ELSE right[j - (k - 1)]
    <2>1. /\ left \o right \in Seq(S)
          /\ Len(left \o right) = Len(left) + Len(right)
          /\ \A j \in 1 .. Len(left) + Len(right) :
                (left \o right)[j] = IF j <= Len(left) THEN left[j] ELSE right[j - Len(left)]
      BY <1>1, <1>2, ConcatProperties
    <2>2. Len(left) + Len(right) = Len(s) - 1
      BY <1>0, <1>1, <1>2
    <2> QED
      BY <2>1, <2>2, <1>1, <1>3
  <1>5. \A j \in 1 .. Len(s) - 1 : RemoveAt(s, k)[j] = IF j < k THEN s[j] ELSE s[j + 1]
    <2> TAKE j \in 1 .. Len(s) - 1
    <2>1. CASE j < k
      BY <2>1, <1>0, <1>1, <1>4
    <2>2. CASE ~(j < k)
      <3>1. PICK i \in Nat : i = j - (k - 1)
        BY <2>2, <1>0
      <3>2. i \in 1 .. Len(s) - k /\ k + i = j + 1
        BY <2>2, <3>1, <1>0
      <3>3. RemoveAt(s, k)[j] = right[i]
        BY <2>2, <3>1, <1>0, <1>4
      <3>4. right[i] = s[k + i]
        BY <3>2, <1>2
      <3> QED
        BY <2>2, <3>2, <3>3, <3>4
    <2> QED
      BY <2>1, <2>2
  <1> QED
    BY <1>4, <1>5

(* A deletion takes the row of the key, if there is one, and no other.     *)
LEMMA WithoutRows ==
  ASSUME copies \in Seq(CopyRows), Keyed(copies), NEW id
  PROVE  /\ Without(id) \in Seq(CopyRows)
         /\ Keyed(Without(id))
         /\ \A j \in DOMAIN Without(id) :
               /\ Without(id)[j].id # id
               /\ \E i \in DOMAIN copies : Without(id)[j] = copies[i]
         /\ \A i \in DOMAIN copies : copies[i].id # id =>
               \E j \in DOMAIN Without(id) : Without(id)[j] = copies[i]
  <1>0. Len(copies) \in Nat /\ DOMAIN copies = 1 .. Len(copies)
    BY LenProperties
  <1>1. CASE At(id) = {}
    BY <1>1 DEF Without, At, Keyed
  <1>2. CASE At(id) # {}
    <2>1. PICK k \in At(id) : Without(id) = RemoveAt(copies, k)
      BY <1>2 DEF Without
    <2>2. k \in 1 .. Len(copies) /\ copies[k].id = id
      BY <2>1, <1>0 DEF At
    <2> DEFINE rest == Without(id)
    <2>3. /\ rest \in Seq(CopyRows)
          /\ Len(rest) = Len(copies) - 1
          /\ \A j \in 1 .. Len(copies) - 1 :
                rest[j] = IF j < k THEN copies[j] ELSE copies[j + 1]
      BY <2>1, <2>2, RemoveAtRows
    <2> HIDE DEF rest
    <2>4. DOMAIN rest = 1 .. Len(copies) - 1
      BY <2>3, LenProperties
    <2> DEFINE from(j) == IF j < k THEN j ELSE j + 1
    <2>a. \A j \in DOMAIN rest : /\ from(j) \in DOMAIN copies
                                 /\ from(j) # k
                                 /\ rest[j] = copies[from(j)]
      BY <2>2, <2>3, <2>4, <1>0
    <2>b. \A i, j \in DOMAIN rest : from(i) = from(j) => i = j
      BY <2>2, <2>4, <1>0
    <2> HIDE DEF from
    <2>5. Keyed(rest)
      BY <2>a, <2>b DEF Keyed
    <2>6. \A j \in DOMAIN rest : rest[j].id # id /\ \E i \in DOMAIN copies : rest[j] = copies[i]
      BY <2>a, <2>2, <1>0 DEF Keyed
    <2>7. \A i \in DOMAIN copies : copies[i].id # id => \E j \in DOMAIN rest : rest[j] = copies[i]
      <3> SUFFICES ASSUME NEW i \in DOMAIN copies, copies[i].id # id
                   PROVE  \E j \in DOMAIN rest : rest[j] = copies[i]
        OBVIOUS
      <3>1. CASE i < k
        <4>1. i \in DOMAIN rest /\ rest[i] = copies[i]
          BY <3>1, <2>2, <2>3, <2>4, <1>0
        <4> QED
          BY <4>1
      <3>2. CASE ~(i < k)
        <4>1. i - 1 \in DOMAIN rest /\ rest[i - 1] = copies[i]
          BY <3>2, <2>2, <2>3, <2>4, <1>0
        <4> QED
          BY <4>1
      <3> QED
        BY <3>1, <3>2
    <2> QED
      BY <2>3, <2>5, <2>6, <2>7 DEF rest
  <1> QED
    BY <1>1, <1>2

(* A put leaves one row of the key, the one that was put.                  *)
LEMMA PutRows ==
  ASSUME copies \in Seq(CopyRows), Keyed(copies),
         NEW id \in WorkIds, NEW d \in Drafts \cup {Null}, NEW x \in Texts
  PROVE  /\ Put(id, d, x) \in Seq(CopyRows)
         /\ Keyed(Put(id, d, x))
         /\ \E j \in DOMAIN Put(id, d, x) : /\ Put(id, d, x)[j].id = id
                                            /\ Put(id, d, x)[j].text = x
         /\ \A j \in DOMAIN Put(id, d, x) :
               \/ Put(id, d, x)[j].id = id /\ Put(id, d, x)[j].text = x
               \/ /\ Put(id, d, x)[j].id # id
                  /\ \E i \in DOMAIN copies : Put(id, d, x)[j] = copies[i]
  <1> DEFINE row == [id |-> id, draftId |-> d, text |-> x]
             old == Without(id)
             new == Put(id, d, x)
  <1>0. row \in CopyRows /\ row.id = id /\ row.text = x
    BY DEF CopyRows
  <1>1. /\ old \in Seq(CopyRows) /\ Keyed(old)
        /\ \A j \in DOMAIN old : old[j].id # id /\ \E i \in DOMAIN copies : old[j] = copies[i]
        /\ \A i \in DOMAIN copies : copies[i].id # id => \E j \in DOMAIN old : old[j] = copies[i]
    BY WithoutRows
  <1>2. new = Append(old, row)
    BY DEF Put
  <1> HIDE DEF row, old, new
  <1>3. Len(old) \in Nat /\ DOMAIN old = 1 .. Len(old)
    BY <1>1, LenProperties
  <1>4. /\ new \in Seq(CopyRows)
        /\ DOMAIN new = 1 .. Len(old) + 1
        /\ \A j \in 1 .. Len(old) : new[j] = old[j]
        /\ new[Len(old) + 1] = row
    BY <1>0, <1>1, <1>2, <1>3
  <1>5. Keyed(new)
    BY <1>0, <1>1, <1>3, <1>4 DEF Keyed
  <1>6. Len(old) + 1 \in DOMAIN new /\ \A j \in 1 .. Len(old) : j \in DOMAIN new
    BY <1>3, <1>4
  <1>7. \A j \in DOMAIN new : \/ new[j].id = id /\ new[j].text = x
                              \/ new[j].id # id /\ \E i \in DOMAIN copies : new[j] = copies[i]
    <2> TAKE j \in DOMAIN new
    <2>1. CASE j = Len(old) + 1
      BY <2>1, <1>0, <1>4
    <2>2. CASE j # Len(old) + 1
      <3>1. j \in DOMAIN old /\ new[j] = old[j]
        BY <2>2, <1>3, <1>4
      <3> QED
        BY <3>1, <1>1
    <2> QED
      BY <2>1, <2>2
  <1>8. \E j \in DOMAIN new : new[j].id = id /\ new[j].text = x
    BY <1>0, <1>4, <1>6
  <1> QED
    BY <1>4, <1>5, <1>7, <1>8 DEF new

(* A link changes neither key nor text of any row.                         *)
LEMMA LinkRows ==
  ASSUME copies \in Seq(CopyRows), Keyed(copies), NEW id, NEW d \in Drafts \cup {Null}
  PROVE  /\ Link(id, d) \in Seq(CopyRows)
         /\ Keyed(Link(id, d))
         /\ DOMAIN Link(id, d) = DOMAIN copies
         /\ \A i \in DOMAIN copies : /\ Link(id, d)[i].id = copies[i].id
                                     /\ Link(id, d)[i].text = copies[i].text
  <1>0. Len(copies) \in Nat /\ DOMAIN copies = 1 .. Len(copies)
    BY LenProperties
  <1>1. \A i \in DOMAIN copies : copies[i] \in CopyRows
    BY <1>0, ElementOfSeq
  <1>2. DOMAIN Link(id, d) = 1 .. Len(copies)
    BY <1>0 DEF Link
  <1>3. \A i \in DOMAIN copies : /\ Link(id, d)[i] \in CopyRows
                                 /\ Link(id, d)[i].id = copies[i].id
                                 /\ Link(id, d)[i].text = copies[i].text
    BY <1>1 DEF Link, CopyRows
  <1>4. Link(id, d) = [i \in 1 .. Len(copies) |-> Link(id, d)[i]]
    BY <1>0 DEF Link
  <1>5. Link(id, d) \in Seq(CopyRows)
    BY <1>0, <1>3, <1>4, SeqDef
  <1> QED
    BY <1>0, <1>2, <1>3, <1>5 DEF Keyed

(* The rows of other keys stay.                                            *)
LEMMA PutKeeps ==
  ASSUME copies \in Seq(CopyRows), Keyed(copies),
         NEW id \in WorkIds, NEW d \in Drafts \cup {Null}, NEW x \in Texts,
         NEW i \in DOMAIN copies, copies[i].id # id
  PROVE  \E j \in DOMAIN Put(id, d, x) : Put(id, d, x)[j] = copies[i]
  <1> DEFINE row == [id |-> id, draftId |-> d, text |-> x]
             old == Without(id)
             new == Put(id, d, x)
  <1>1. old \in Seq(CopyRows)
    BY WithoutRows
  <1>2. PICK j \in DOMAIN old : old[j] = copies[i]
    BY WithoutRows
  <1>3. row \in CopyRows /\ new = Append(old, row)
    BY DEF CopyRows, Put
  <1> HIDE DEF row, old, new
  <1>4. j \in DOMAIN new /\ new[j] = old[j]
    BY <1>1, <1>2, <1>3, LenProperties
  <1> QED
    BY <1>2, <1>4 DEF new
---------------------------------------------------------------------------
(* The invariant of the composer.  First what numbers say, whatever        *)
(* happens; then what forms and saves know, unless an event is excused.    *)

(* The clicks whose answer carries a version that was given out for them.  *)
Fresh(o) ==
  /\ op[o].ok
  /\ \/ op[o].stage = "persisted"
     \/ op[o].stage = "delivered" /\ op[o].kind \in {"schedule", "cancel"}

(* A click of Schedule or Cancel, at its last request.                     *)
Scheduling(o) ==
  /\ op[o].stage = "deliver" \/ (op[o].stage = "delivered" /\ op[o].ok)
  /\ op[o].kind \in {"schedule", "cancel"}

(* A click that has stored its text, and goes on with what it stored.      *)
HasStored(o) ==
  /\ op[o].draftId # Null
  /\ \/ op[o].stage = "persisted" /\ op[o].ok
     \/ op[o].stage = "deliver" /\ op[o].kind \in {"send", "schedule"}

(* What is numbered was numbered before; an open form has its numbers.     *)
DraftBounds ==
  \A d \in Drafts : /\ draft[d].version <= stamps
                    /\ draft[d].text <= edits
                    /\ draft[d].status = "draft" => draft[d].version >= 1
PanelBounds ==
  \A t \in Tabs : /\ panel[t].version <= stamps
                  /\ panel[t].text <= edits
                  /\ panel[t].mount <= opens
                  /\ panel[t].work <= opens
                  /\ panel[t].open => panel[t].mount >= 1 /\ panel[t].work >= 1
OpBounds ==
  \A o \in Ops : Active(o) => /\ op[o].version <= stamps
                              /\ op[o].text <= edits
                              /\ op[o].mount <= opens
                              /\ Fresh(o) \/ Scheduling(o) => op[o].draftId # Null
CopyBounds ==
  \A i \in DOMAIN copies : copies[i].id <= opens /\ copies[i].text <= edits
ComposeBounded == DraftBounds /\ PanelBounds /\ OpBounds /\ CopyBounds

(* A version that was given out for a click is its draft's and no other's. *)
OwnVersion(o) ==
  Active(o) /\ Fresh(o) =>
     /\ draft[op[o].draftId].status # "none"
     /\ \A d \in Drafts \ {op[o].draftId} : draft[d].version # op[o].version

(* As long as a draft has the version a click stored, it has its text.     *)
StoredText(o) ==
  Active(o) /\ HasStored(o) /\ draft[op[o].draftId].version = op[o].version
     => draft[op[o].draftId].text = op[o].text

(* An open form knows its draft, and the text of the version it names.     *)
FormKnows(t) ==
  panel[t].open =>
     /\ panel[t].about = panel[t].draftId
     /\ \A d \in Drafts : draft[d].status = "draft" /\ draft[d].version = panel[t].version
                          => draft[d].text = panel[t].base

(* So does a save that was clicked there.                                  *)
SaveKnows(o) ==
  op[o].stage = "persist" /\ op[o].draftId # Null =>
     /\ op[o].about = op[o].draftId
     /\ Matches(o) => draft[op[o].draftId].text = op[o].base

(* The clicks of a form are about its draft.                               *)
FormsDraft(o) ==
  /\ op[o].stage \in {"persist", "deliver", "delivered"} /\ op[o].draftId # Null
  /\ Mounted(o)
  => panel[op[o].tab].draftId = op[o].draftId

(* A schedule leaves the text the form has saved or loaded.                *)
ScheduleKnows(o) ==
  Active(o) /\ Scheduling(o) /\ Mounted(o) /\ Matches(o)
     => draft[op[o].draftId].text = panel[op[o].tab].base

(* A save that was accepted makes the versions stale that its form, and    *)
(* the other clicks of the form, name.                                     *)
Wins(o) == op[o].stage = "persisted" /\ op[o].ok /\ Mounted(o)
FormStale(o) == Wins(o) => panel[op[o].tab].version # draft[op[o].draftId].version
Stale(o, p) ==
  /\ Wins(o) /\ p # o
  /\ Active(p) /\ op[p].tab = op[o].tab /\ Mounted(p) /\ op[p].draftId = op[o].draftId
  => /\ ~Wins(p)
     /\ op[p].stage = "persist" \/ Scheduling(p) => op[p].version # draft[op[o].draftId].version

SaveInv ==
  /\ \A t \in Tabs : FormKnows(t)
  /\ \A o \in Ops : SaveKnows(o) /\ FormsDraft(o) /\ ScheduleKnows(o) /\ FormStale(o)
  /\ \A o, p \in Ops : Stale(o, p)

(* A working copy is no later than the form that writes it.                *)
CopiesOlder ==
  \A t \in Tabs : \A i \in DOMAIN copies :
     panel[t].open /\ copies[i].id = panel[t].work => copies[i].text <= panel[t].text

(* Two open forms write two copies.                                        *)
OwnCopies ==
  \A s, t \in Tabs : panel[s].open /\ panel[t].open /\ panel[s].work = panel[t].work => s = t

(* While Send runs, its form is open, unchanged, and sends nothing else.   *)
SendsShown(o) ==
  Active(o) /\ op[o].kind = "send" =>
     /\ Mounted(o)
     /\ op[o].text # 0
     /\ panel[op[o].tab].text = op[o].text
     /\ op[o].stage = "delivered" /\ op[o].ok => mails[op[o].text] > 0
     /\ \A p \in Ops : Active(p) /\ op[p].kind = "send" /\ op[p].tab = op[o].tab => p = o

(* Only Send closes the form.                                              *)
SendCloses(o) == op[o].stage = "closing" => op[o].kind = "send"

CopyInv == CopiesOlder /\ OwnCopies /\ \A o \in Ops : SendsShown(o) /\ SendCloses(o)

StoreInvariant == \A o \in Ops : OwnVersion(o) /\ StoredText(o)

(* Two drafts that are there have two versions.                            *)
OwnNumbers ==
  \A c, d \in Drafts :
     draft[c].status = "draft" /\ draft[d].status = "draft"
     /\ draft[c].version = draft[d].version => c = d

ComposeInv ==
  /\ ComposeTypeOK
  /\ ComposeBounded
  /\ StoreInvariant
  /\ OwnNumbers
  /\ "save" \notin doubts => SaveInv
  /\ "copy" \notin doubts => CopyInv

---------------------------------------------------------------------------
(* The effects of the steps, and their types.                              *)

LEMMA Numbers ==
  MaxOpens \in Nat /\ MaxEdits \in Nat /\ MaxLost \in Nat
  BY BoundsAssumption

(* Whoever is at work has a row.                                           *)
LEMMA ActiveRows ==
  ASSUME ComposeTypeOK, NEW o \in Ops
  PROVE  /\ op[o].stage \in Stages
         /\ Active(o) => op[o] \in OpRows
         /\ op[o] \in OpRows => Active(o)
  BY DEF ComposeTypeOK, OpRows, IdleOp, DoneOp, Active, Stages

(* What a step may do to the drafts: nothing that is seen here, or a new   *)
(* version; a draft that is there stays, and one that was sent stays sent. *)
DraftsMove ==
  /\ stamps' \in Nat /\ stamps <= stamps'
  /\ \A d \in Drafts :
        /\ draft'[d].status = "none" => draft[d].status = "none"
        /\ \/ /\ draft'[d].version = draft[d].version
              /\ draft'[d].text = draft[d].text
              /\ draft'[d].status = "draft" => draft[d].status = "draft"
           \/ stamps < draft'[d].version /\ draft'[d].version <= stamps'

LEMMA DraftsStay ==
  ASSUME ComposeTypeOK, UNCHANGED <<draft, stamps>>
  PROVE  DraftsMove
  BY DEF ComposeTypeOK, Versions, DraftsMove

(* A step of one form.                                                     *)
OnlyPanel(t) ==
  /\ UNCHANGED <<draft, op, stamps, mails>>
  /\ \A s \in Tabs \ {t} : panel'[s] = panel[s]

LEMMA PanelTyped ==
  ASSUME ComposeTypeOK, NEW t \in Tabs, NEW p \in Panels, panel' = [panel EXCEPT ![t] = p],
         UNCHANGED <<draft, op, stamps, mails, lost>>,
         copies' \in Seq(CopyRows), Keyed(copies'),
         opens' \in 0 .. MaxOpens, edits' \in Texts, doubts' \subseteq Doubts
  PROVE  /\ ComposeTypeOK'
         /\ OnlyPanel(t)
         /\ panel'[t] = p
  BY DEF ComposeTypeOK, OnlyPanel, Keyed

LEMMA OpenTyped ==
  ASSUME ComposeTypeOK, NEW t \in Tabs, NEW d \in Drafts \cup {Null}, Open(t, d)
  PROVE  /\ ComposeTypeOK'
         /\ OnlyPanel(t)
         /\ UNCHANGED <<copies, edits, doubts>>
         /\ opens' = opens + 1
         /\ panel'[t] = [ClosedPanel EXCEPT !.open = TRUE, !.mount = opens + 1, !.intent = d,
                           !.draftId = d, !.work = opens + 1, !.recovered = d # Null,
                           !.timer = d # Null, !.about = d]
  <1> DEFINE p == [ClosedPanel EXCEPT !.open = TRUE, !.mount = opens + 1, !.intent = d,
                     !.draftId = d, !.work = opens + 1, !.recovered = d # Null,
                     !.timer = d # Null, !.about = d]
  <1>1. opens \in Nat /\ opens + 1 \in 0 .. MaxOpens
    BY Numbers DEF ComposeTypeOK, Open
  <1>2. p \in Panels
    <2>1. PICK n \in 0 .. MaxOpens, known \in BOOLEAN : n = opens + 1 /\ known = (d # Null)
      BY <1>1
    <2>2. p = [ClosedPanel EXCEPT !.open = TRUE, !.mount = n, !.intent = d, !.draftId = d,
                 !.work = n, !.recovered = known, !.timer = known, !.about = d]
      BY <2>1
    <2>3. ClosedPanel \in Panels
      BY Numbers DEF ClosedPanel, Panels, Versions, Texts
    <2> QED
      BY <2>2, <2>3 DEF Panels
  <1>3. panel' = [panel EXCEPT ![t] = p]
    BY DEF Open, Mount
  <1>4. copies \in Seq(CopyRows) /\ Keyed(copies) /\ edits \in Texts /\ doubts \subseteq Doubts
    BY DEF ComposeTypeOK, Keyed
  <1> HIDE DEF p
  <1>5. ComposeTypeOK' /\ OnlyPanel(t) /\ panel'[t] = p
    BY <1>1, <1>2, <1>3, <1>4, PanelTyped DEF Open
  <1> QED
    BY <1>5 DEF Open, p

LEMMA SwitchTyped ==
  ASSUME ComposeTypeOK, NEW t \in Tabs, NEW d \in Drafts \cup {Null}, Switch(t, d)
  PROVE  /\ ComposeTypeOK'
         /\ OnlyPanel(t)
         /\ UNCHANGED <<copies, edits, doubts>>
         /\ opens' = opens + 1
         /\ panel'[t] = [panel[t] EXCEPT !.intent = d, !.shown = FALSE]
  <1> DEFINE p == [panel[t] EXCEPT !.intent = d, !.shown = FALSE]
  <1>1. opens \in Nat /\ opens + 1 \in 0 .. MaxOpens
    BY Numbers DEF ComposeTypeOK, Switch
  <1>0. panel[t] \in Panels
    BY DEF ComposeTypeOK
  <1>2. p \in Panels
    BY <1>0 DEF Panels
  <1>3. panel' = [panel EXCEPT ![t] = p]
    BY DEF ComposeTypeOK, Switch
  <1>4. copies \in Seq(CopyRows) /\ Keyed(copies) /\ edits \in Texts /\ doubts \subseteq Doubts
    BY DEF ComposeTypeOK, Keyed
  <1> HIDE DEF p
  <1>5. ComposeTypeOK' /\ OnlyPanel(t) /\ panel'[t] = p
    BY <1>1, <1>2, <1>3, <1>4, PanelTyped DEF Switch
  <1> QED
    BY <1>5 DEF Switch, p

(* A fetch fills the form, the first time it answers for the draft.        *)
Filled(t) ==
  LET d == panel[t].intent IN
  [panel[t] EXCEPT !.shown = draft[d].scheduled, !.text = draft[d].text, !.draftId = d,
     !.version = draft[d].version, !.hydrated = d, !.timer = TRUE,
     !.base = draft[d].text, !.about = d]

LEMMA DraftFetchTyped ==
  ASSUME ComposeTypeOK, NEW t \in Tabs, Fetch(t)
  PROVE  /\ ComposeTypeOK'
         /\ OnlyPanel(t)
         /\ UNCHANGED <<copies, edits, opens>>
         /\ doubts \subseteq doubts'
         /\ panel[t].open
         /\ panel[t].intent \in Drafts /\ draft[panel[t].intent].status = "draft"
         /\ \/ panel'[t] = [panel[t] EXCEPT !.shown = draft[panel[t].intent].scheduled]
            \/ panel'[t] = Filled(t) /\ Filling(t) \subseteq doubts'
  <1> DEFINE d == panel[t].intent
             p == IF panel[t].hydrated = d
                  THEN [panel[t] EXCEPT !.shown = draft[d].scheduled] ELSE Filled(t)
  <1>1. panel[t].open /\ d \in Drafts /\ draft[d].status = "draft" /\ draft[d] \in DraftRows
        /\ panel[t] \in Panels
    BY DEF ComposeTypeOK, Panels, Fetch
  <1>2. p \in Panels
    BY <1>1 DEF Panels, DraftRows, Filled
  <1>3. panel' = [panel EXCEPT ![t] = p]
    BY DEF Fetch, Filled
  <1>4. copies \in Seq(CopyRows) /\ Keyed(copies) /\ edits \in Texts /\ opens \in 0 .. MaxOpens
    BY DEF ComposeTypeOK, Keyed
  <1>5. Filling(t) \subseteq Doubts
    BY DEF Filling, Doubts
  <1>6. doubts' = doubts \cup (IF panel[t].hydrated = d THEN {} ELSE Filling(t))
        /\ doubts' \subseteq Doubts
    BY <1>5 DEF Fetch, ComposeTypeOK
  <1> HIDE DEF p
  <1>7. ComposeTypeOK' /\ OnlyPanel(t) /\ panel'[t] = p
    BY <1>2, <1>3, <1>4, <1>6, PanelTyped DEF Fetch
  <1> QED
    BY <1>1, <1>6, <1>7 DEF Fetch, p

LEMMA RecoverTyped ==
  ASSUME ComposeTypeOK, NEW t \in Tabs, Recover(t)
  PROVE  /\ ComposeTypeOK'
         /\ OnlyPanel(t)
         /\ UNCHANGED <<copies, edits, opens>>
         /\ doubts \subseteq doubts'
         /\ panel[t].open
         /\ \/ panel'[t] = [panel[t] EXCEPT !.restored = TRUE, !.recovered = TRUE, !.timer = TRUE]
            \/ \E i \in DOMAIN copies :
                  /\ copies[i] \in CopyRows
                  /\ panel'[t] = [panel[t] EXCEPT !.restored = TRUE, !.recovered = TRUE,
                                    !.timer = TRUE, !.text = copies[i].text,
                                    !.draftId = copies[i].draftId,
                                    !.work = copies[i].id, !.about = copies[i].draftId]
                  /\ Filling(t) \subseteq doubts'
                  /\ (\E s \in Tabs \ {t} : panel[s].open /\ panel[s].work = copies[i].id)
                        => "copy" \in doubts'
  <1>0. panel[t].open /\ panel[t] \in Panels
    BY DEF ComposeTypeOK, Recover
  <1>4. copies \in Seq(CopyRows) /\ Keyed(copies) /\ edits \in Texts /\ opens \in 0 .. MaxOpens
        /\ doubts \subseteq Doubts
    BY DEF ComposeTypeOK, Keyed
  <1>1. CASE copies = <<>>
    <2> DEFINE p == [panel[t] EXCEPT !.restored = TRUE, !.recovered = TRUE, !.timer = TRUE]
    <2>1. p \in Panels
      BY <1>0 DEF Panels
    <2>2. panel' = [panel EXCEPT ![t] = p] /\ doubts' = doubts
      BY <1>1 DEF ComposeTypeOK, Recover
    <2> HIDE DEF p
    <2>3. ComposeTypeOK' /\ OnlyPanel(t) /\ panel'[t] = p
      BY <1>4, <2>1, <2>2, PanelTyped DEF Recover
    <2> QED
      BY <1>0, <2>2, <2>3 DEF Recover, p
  <1>2. CASE copies # <<>>
    <2>1. Len(copies) \in DOMAIN copies /\ Last(copies) = copies[Len(copies)]
      BY <1>2, <1>4, EmptySeq, LenProperties DEF Last
    <2> DEFINE i == Len(copies)
               p == [panel[t] EXCEPT !.restored = TRUE, !.recovered = TRUE,
                       !.timer = TRUE, !.text = copies[i].text, !.draftId = copies[i].draftId,
                       !.work = copies[i].id, !.about = copies[i].draftId]
    <2>2. copies[i] \in CopyRows
      BY <2>1, <1>4, LenProperties, ElementOfSeq
    <2>3. p \in Panels
      <3>1. PICK c \in CopyRows : c = copies[i]
        BY <2>2
      <3>2. c.text \in Texts /\ c.draftId \in Drafts \cup {Null} /\ c.id \in 0 .. MaxOpens
        BY Numbers DEF CopyRows, WorkIds
      <3>3. p = [panel[t] EXCEPT !.restored = TRUE, !.recovered = TRUE, !.timer = TRUE,
                   !.text = c.text, !.draftId = c.draftId, !.work = c.id, !.about = c.draftId]
        BY <3>1
      <3> QED
        BY <1>0, <3>2, <3>3 DEF Panels
    <2>4. panel' = [panel EXCEPT ![t] = p]
      BY <1>2, <2>1 DEF Recover
    <2>5. Filling(t) \subseteq Doubts /\ "copy" \in Doubts
      BY DEF Filling, Doubts
    <2>6. doubts' = doubts \cup Filling(t) \cup
                  (IF \E s \in Tabs \ {t} : panel[s].open /\ panel[s].work = copies[i].id
                   THEN {"copy"} ELSE {})
      BY <1>2, <2>1 DEF Recover
    <2>7. doubts' \subseteq Doubts
      BY <2>5, <2>6, <1>4
    <2> HIDE DEF p
    <2>8. ComposeTypeOK' /\ OnlyPanel(t) /\ panel'[t] = p
      BY <1>4, <2>3, <2>4, <2>7, PanelTyped DEF Recover
    <2> HIDE DEF i
    <2>9. i \in DOMAIN copies /\ copies[i] \in CopyRows
      BY <2>1, <2>2 DEF i
    <2>10. /\ panel'[t] = [panel[t] EXCEPT !.restored = TRUE, !.recovered = TRUE,
                       !.timer = TRUE, !.text = copies[i].text, !.draftId = copies[i].draftId,
                       !.work = copies[i].id, !.about = copies[i].draftId]
           /\ Filling(t) \subseteq doubts'
           /\ (\E s \in Tabs \ {t} : panel[s].open /\ panel[s].work = copies[i].id)
                 => "copy" \in doubts'
      BY <2>6, <2>8 DEF p
    <2>11. UNCHANGED <<copies, edits, opens>> /\ doubts \subseteq doubts'
      BY <2>6 DEF Recover
    <2> QED
      BY <1>0, <2>8, <2>9, <2>10, <2>11
  <1> QED
    BY <1>1, <1>2

LEMMA TypeTyped ==
  ASSUME ComposeTypeOK, NEW t \in Tabs, Type(t)
  PROVE  /\ ComposeTypeOK'
         /\ OnlyPanel(t)
         /\ UNCHANGED <<copies, opens>>
         /\ edits' = edits + 1
         /\ doubts \subseteq doubts'
         /\ panel[t].open
         /\ panel'[t] = [panel[t] EXCEPT !.text = edits + 1, !.timer = TRUE]
         /\ Sending(t) => "copy" \in doubts'
  <1> DEFINE p == [panel[t] EXCEPT !.text = edits + 1, !.timer = TRUE]
  <1>1. edits \in Nat /\ edits + 1 \in Texts
    BY Numbers DEF ComposeTypeOK, Texts, Type
  <1>2. p \in Panels
    <2>1. panel[t] \in Panels
      BY DEF ComposeTypeOK
    <2>2. PICK n \in Texts : n = edits + 1
      BY <1>1
    <2>3. p = [panel[t] EXCEPT !.text = n, !.timer = TRUE]
      BY <2>2
    <2> QED
      BY <2>1, <2>3 DEF Panels
  <1>3. panel' = [panel EXCEPT ![t] = p] /\ edits' = edits + 1
    BY DEF ComposeTypeOK, Type
  <1>4. copies \in Seq(CopyRows) /\ Keyed(copies) /\ opens \in 0 .. MaxOpens
    BY DEF ComposeTypeOK, Keyed
  <1>5. doubts' \subseteq Doubts /\ doubts \subseteq doubts' /\ (Sending(t) => "copy" \in doubts')
    BY DEF ComposeTypeOK, Type, Doubts
  <1> HIDE DEF p
  <1>6. ComposeTypeOK' /\ OnlyPanel(t) /\ panel'[t] = p
    BY <1>1, <1>2, <1>3, <1>4, <1>5, PanelTyped DEF Type
  <1> QED
    BY <1>3, <1>5, <1>6 DEF Type, p

LEMMA AutosaveTyped ==
  ASSUME ComposeTypeOK, ComposeBounded, NEW t \in Tabs, Autosave(t)
  PROVE  /\ ComposeTypeOK'
         /\ OnlyPanel(t)
         /\ UNCHANGED <<edits, opens>>
         /\ copies' = Put(panel[t].work, panel[t].draftId, panel[t].text)
         /\ panel[t].work \in WorkIds
         /\ panel[t].open
         /\ doubts \subseteq doubts'
         /\ panel'[t] = [panel[t] EXCEPT !.timer = FALSE]
  <1> DEFINE p == [panel[t] EXCEPT !.timer = FALSE]
  <1>0. panel[t] \in Panels /\ panel[t].open
    BY DEF ComposeTypeOK, Autosave
  <1>1. panel[t].work \in WorkIds
    BY <1>0, Numbers DEF ComposeBounded, PanelBounds, Panels, WorkIds
  <1>2. p \in Panels
    BY <1>0 DEF Panels
  <1>3. panel' = [panel EXCEPT ![t] = p]
    BY DEF ComposeTypeOK, Autosave
  <1>4. copies \in Seq(CopyRows) /\ Keyed(copies) /\ opens \in 0 .. MaxOpens /\ edits \in Texts
    BY DEF ComposeTypeOK, Keyed
  <1>5. doubts' \subseteq Doubts /\ doubts \subseteq doubts'
    BY DEF ComposeTypeOK, Autosave, Doubts
  <1>6. copies' = Put(panel[t].work, panel[t].draftId, panel[t].text)
    BY DEF Autosave
  <1>7. copies' \in Seq(CopyRows) /\ Keyed(copies')
    <2>1. panel[t].draftId \in Drafts \cup {Null} /\ panel[t].text \in Texts
      BY <1>0 DEF Panels
    <2> QED
      BY <2>1, <1>1, <1>4, <1>6, PutRows
  <1> HIDE DEF p
  <1>8. ComposeTypeOK' /\ OnlyPanel(t) /\ panel'[t] = p
    BY <1>2, <1>3, <1>4, <1>5, <1>7, PanelTyped DEF Autosave
  <1> QED
    BY <1>0, <1>1, <1>5, <1>6, <1>8 DEF Autosave, p

LEMMA CloseTyped ==
  ASSUME ComposeTypeOK, NEW t \in Tabs, Close(t)
  PROVE  /\ ComposeTypeOK'
         /\ OnlyPanel(t)
         /\ UNCHANGED <<copies, edits, opens>>
         /\ doubts \subseteq doubts'
         /\ panel'[t] = ClosedPanel
         /\ (\E o \in Ops : Active(o) /\ op[o].tab = t) => "copy" \in doubts'
  <1>1. ClosedPanel \in Panels
    BY Numbers DEF ClosedPanel, Panels, Texts, Versions
  <1>3. panel' = [panel EXCEPT ![t] = ClosedPanel]
    BY DEF Close
  <1>4. copies \in Seq(CopyRows) /\ Keyed(copies) /\ opens \in 0 .. MaxOpens /\ edits \in Texts
    BY DEF ComposeTypeOK, Keyed
  <1>5. /\ doubts' \subseteq Doubts /\ doubts \subseteq doubts'
        /\ (\E o \in Ops : Active(o) /\ op[o].tab = t) => "copy" \in doubts'
    BY DEF ComposeTypeOK, Close, Doubts
  <1>6. ComposeTypeOK' /\ OnlyPanel(t) /\ panel'[t] = ClosedPanel
    BY <1>1, <1>3, <1>4, <1>5, PanelTyped DEF Close
  <1> QED
    BY <1>5, <1>6 DEF Close
---------------------------------------------------------------------------
(* The steps of clicks and of the server.                                  *)

OnlyOp(o) == \A x \in Ops \ {o} : op'[x] = op[x]

SameClick(o) ==
  /\ op'[o] \in OpRows
  /\ op'[o].kind = op[o].kind /\ op'[o].tab = op[o].tab /\ op'[o].mount = op[o].mount
  /\ op'[o].text = op[o].text /\ op'[o].work = op[o].work

OnlyDraft(d) == \A e \in Drafts \ {d} : draft'[e] = draft[e]

LEMMA OpTyped ==
  ASSUME ComposeTypeOK, NEW o \in Ops, NEW row \in OpRows \cup {IdleOp, DoneOp},
         op' = [op EXCEPT ![o] = row]
  PROVE  op' \in [Ops -> OpRows \cup {IdleOp, DoneOp}] /\ OnlyOp(o) /\ op'[o] = row
  BY DEF ComposeTypeOK, OnlyOp

LEMMA ClickTyped ==
  ASSUME ComposeTypeOK, ComposeBounded, NEW o \in Ops, NEW t \in Tabs, NEW kind \in Kinds,
         Click(o, t, kind)
  PROVE  /\ ComposeTypeOK'
         /\ UNCHANGED <<draft, panel, copies, opens, edits, stamps, mails, doubts>>
         /\ OnlyOp(o)
         /\ op[o].stage = "idle"
         /\ panel[t].open
         /\ ~Busy(t)
         /\ op'[o] = [stage |-> FirstStage(panel[t], kind), kind |-> kind, tab |-> t,
                      mount |-> panel[t].mount, draftId |-> panel[t].draftId,
                      version |-> panel[t].version, text |-> panel[t].text,
                      work |-> panel[t].work, ok |-> FALSE, base |-> panel[t].base,
                      about |-> panel[t].about]
         /\ op'[o] \in OpRows
         /\ kind = "send" => panel[t].text # 0
         /\ kind = "cancel" => panel[t].draftId # Null
  <1> DEFINE row == [stage |-> FirstStage(panel[t], kind), kind |-> kind, tab |-> t,
                      mount |-> panel[t].mount, draftId |-> panel[t].draftId,
                      version |-> panel[t].version, text |-> panel[t].text,
                      work |-> panel[t].work, ok |-> FALSE, base |-> panel[t].base,
                      about |-> panel[t].about]
  <1>1. panel[t] \in Panels /\ panel[t].open
    BY DEF ComposeTypeOK, Click
  <1>2. panel[t].work \in WorkIds /\ panel[t].mount \in WorkIds
    BY <1>1, Numbers DEF ComposeBounded, PanelBounds, Panels, WorkIds
  <1>3. FirstStage(panel[t], kind) \in Stages \ {"idle", "done"}
    BY DEF FirstStage, Stages
  <1>4. row \in OpRows
    BY <1>1, <1>2, <1>3 DEF Panels, OpRows
  <1>5. op' = [op EXCEPT ![o] = row]
    BY DEF Click
  <1> HIDE DEF row
  <1>6. op' \in [Ops -> OpRows \cup {IdleOp, DoneOp}] /\ OnlyOp(o) /\ op'[o] = row
    BY <1>4, <1>5, OpTyped
  <1>7. ComposeTypeOK'
    BY <1>6 DEF ComposeTypeOK, Click
  <1> QED
    BY <1>1, <1>4, <1>6, <1>7 DEF Click, row

(* A save is stored, in a new draft or in the one it names.                *)
Stores(o, d) ==
  /\ op[o].stage = "persist" /\ op[o] \in OpRows
  /\ \/ op[o].draftId = Null /\ draft[d].status = "none"
     \/ op[o].draftId = d /\ Matches(o)
  /\ stamps' = stamps + 1
  /\ OnlyDraft(d)
  /\ draft'[d].status = "draft" /\ draft'[d].text = op[o].text /\ draft'[d].version = stamps'
  /\ OnlyOp(o) /\ SameClick(o)
  /\ op'[o].stage = "persisted" /\ op'[o].draftId = d /\ op'[o].ok /\ op'[o].version = stamps'
  /\ UNCHANGED <<panel, copies, opens, edits, mails, doubts>>

LEMMA ReplyTyped ==
  ASSUME ComposeTypeOK, NEW o \in Ops, op[o] \in OpRows, NEW stage \in Stages \ {"idle", "done"},
         NEW d \in Drafts \cup {Null}, NEW ok \in BOOLEAN, stamps' \in Nat, Reply(o, stage, d, ok)
  PROVE  /\ op' \in [Ops -> OpRows \cup {IdleOp, DoneOp}]
         /\ OnlyOp(o) /\ SameClick(o)
         /\ op'[o].stage = stage /\ op'[o].draftId = d /\ op'[o].ok = ok
         /\ op'[o].version = IF ok THEN stamps' ELSE op[o].version
  <1> DEFINE v == IF ok THEN stamps' ELSE op[o].version
             row == [op[o] EXCEPT !.stage = stage, !.draftId = d, !.ok = ok, !.version = v,
                       !.base = 0, !.about = Null]
  <1>1. v \in Versions /\ 0 \in Texts
    BY Numbers DEF OpRows, Versions, Texts
  <1>2. op' = [op EXCEPT ![o] = row]
    BY DEF Reply
  <1> HIDE DEF v
  <1>3. row \in OpRows
    BY <1>1 DEF OpRows
  <1>4. /\ row.stage = stage /\ row.draftId = d /\ row.ok = ok /\ row.version = v
        /\ row.kind = op[o].kind /\ row.tab = op[o].tab /\ row.mount = op[o].mount
        /\ row.text = op[o].text /\ row.work = op[o].work
    BY DEF OpRows
  <1> HIDE DEF row
  <1>5. op' \in [Ops -> OpRows \cup {IdleOp, DoneOp}] /\ OnlyOp(o) /\ op'[o] = row
    BY <1>2, <1>3, OpTyped
  <1> QED
    BY <1>3, <1>4, <1>5 DEF SameClick, v

LEMMA StageRow ==
  ASSUME ComposeTypeOK, NEW o \in Ops, op[o].stage \notin {"idle", "done"}
  PROVE  op[o] \in OpRows /\ Active(o)
  BY ActiveRows DEF Active

LEMMA ServeCreateTyped ==
  ASSUME ComposeTypeOK, NEW o \in Ops, NEW d \in Drafts, ServeCreate(o, d)
  PROVE  ComposeTypeOK' /\ Stores(o, d)
  <1> DEFINE row == [status |-> "draft", text |-> op[o].text, version |-> stamps',
                     scheduled |-> FALSE]
  <1>1. op[o].stage = "persist" /\ op[o].draftId = Null /\ draft[d].status = "none"
        /\ op[o] \in OpRows
    BY StageRow DEF ServeCreate
  <1>2. stamps' = stamps + 1 /\ stamps' \in Nat
    BY DEF ComposeTypeOK, Versions, ServeCreate
  <1>3. row \in DraftRows /\ draft' = [draft EXCEPT ![d] = row]
    BY <1>1, <1>2 DEF DraftRows, OpRows, Versions, ServeCreate
  <1>4. draft' \in [Drafts -> DraftRows] /\ OnlyDraft(d) /\ draft'[d] = row
    BY <1>3 DEF ComposeTypeOK, OnlyDraft
  <1>5. Reply(o, "persisted", d, TRUE)
    BY DEF ServeCreate
  <1>6. /\ op' \in [Ops -> OpRows \cup {IdleOp, DoneOp}]
        /\ OnlyOp(o) /\ SameClick(o)
        /\ op'[o].stage = "persisted" /\ op'[o].draftId = d /\ op'[o].ok
        /\ op'[o].version = stamps'
    BY <1>1, <1>2, <1>5, ReplyTyped DEF Stages
  <1>7. ComposeTypeOK'
    BY <1>2, <1>4, <1>6 DEF ComposeTypeOK, Versions, ServeCreate
  <1> QED
    BY <1>1, <1>2, <1>4, <1>6, <1>7 DEF Stores, ServeCreate

LEMMA ServeUpdateTyped ==
  ASSUME ComposeTypeOK, NEW o \in Ops, ServeUpdate(o)
  PROVE  /\ ComposeTypeOK'
         /\ op[o].draftId \in Drafts
         /\ Stores(o, op[o].draftId)
  <1> DEFINE d == op[o].draftId
             row == [draft[d] EXCEPT !.text = op[o].text, !.version = stamps']
  <1>1. op[o].stage = "persist" /\ op[o] \in OpRows /\ Matches(o)
    BY StageRow DEF ServeUpdate
  <1>2. d \in Drafts /\ draft[d] \in DraftRows /\ draft[d].status = "draft"
    BY <1>1 DEF OpRows, Matches, ComposeTypeOK
  <1>3. stamps' = stamps + 1 /\ stamps' \in Nat
    BY DEF ComposeTypeOK, Versions, ServeUpdate
  <1>4. draft' = [draft EXCEPT ![d] = row]
    BY DEF ServeUpdate
  <1>5. row \in DraftRows /\ row.status = "draft" /\ row.text = op[o].text
        /\ row.version = stamps'
    BY <1>1, <1>2, <1>3 DEF DraftRows, OpRows, Versions
  <1> HIDE DEF row
  <1>6. draft' \in [Drafts -> DraftRows] /\ OnlyDraft(d) /\ draft'[d] = row
    BY <1>2, <1>4, <1>5 DEF ComposeTypeOK, OnlyDraft
  <1>7. Reply(o, "persisted", d, TRUE)
    BY DEF ServeUpdate
  <1>8. /\ op' \in [Ops -> OpRows \cup {IdleOp, DoneOp}]
        /\ OnlyOp(o) /\ SameClick(o)
        /\ op'[o].stage = "persisted" /\ op'[o].draftId = d /\ op'[o].ok
        /\ op'[o].version = stamps'
    BY <1>1, <1>2, <1>3, <1>7, ReplyTyped DEF Stages
  <1>9. ComposeTypeOK'
    BY <1>3, <1>6, <1>8 DEF ComposeTypeOK, Versions, ServeUpdate
  <1> QED
    BY <1>1, <1>2, <1>3, <1>5, <1>6, <1>8, <1>9 DEF Stores, ServeUpdate

(* A request is refused.                                                   *)
LEMMA RefuseTyped ==
  ASSUME ComposeTypeOK, NEW o \in Ops,
         NEW stage \in {"persist", "deliver"}, NEW next \in {"persisted", "delivered"},
         Refuse(o, stage, next)
  PROVE  /\ ComposeTypeOK'
         /\ UNCHANGED <<draft, panel, copies, opens, edits, stamps, mails, doubts>>
         /\ op[o] \in OpRows /\ op[o].stage = stage
         /\ OnlyOp(o) /\ SameClick(o)
         /\ op'[o].stage = next /\ ~op'[o].ok
         /\ op'[o].draftId = op[o].draftId /\ op'[o].version = op[o].version
  <1>1. op[o].stage = stage /\ op[o] \in OpRows
    BY StageRow DEF Refuse
  <1>2. op[o].draftId \in Drafts \cup {Null} /\ stamps' \in Nat
    BY <1>1 DEF OpRows, ComposeTypeOK, Versions, Refuse
  <1>3. Reply(o, next, op[o].draftId, FALSE)
    BY DEF Refuse
  <1>4. /\ op' \in [Ops -> OpRows \cup {IdleOp, DoneOp}]
        /\ OnlyOp(o) /\ SameClick(o)
        /\ op'[o].stage = next /\ op'[o].draftId = op[o].draftId /\ op'[o].ok = FALSE
        /\ op'[o].version = op[o].version
    BY <1>1, <1>2, <1>3, ReplyTyped DEF Stages
  <1>5. ComposeTypeOK'
    BY <1>4 DEF ComposeTypeOK, Refuse
  <1> QED
    BY <1>1, <1>4, <1>5 DEF Refuse

(* Drafts are left alone, or become sent.                                  *)
OnlySent ==
  \A d \in Drafts :
     /\ draft'[d].version = draft[d].version
     /\ draft'[d].text = draft[d].text
     /\ draft'[d].status \in {draft[d].status, "sent"}
     /\ draft'[d].status = "none" <=> draft[d].status = "none"

(* A mail is accepted: a message that was never saved, or a draft.         *)
Sends(o) ==
  /\ op[o].stage = "deliver" /\ op[o].kind = "send" /\ op[o] \in OpRows
  /\ OnlyOp(o) /\ SameClick(o)
  /\ op'[o].stage = "delivered" /\ op'[o].ok /\ op'[o].draftId = op[o].draftId
  /\ op'[o].version = op[o].version
  /\ UNCHANGED <<panel, copies, opens, edits, stamps, doubts>>
  /\ \A x \in Texts : mails[x] <= mails'[x]
  /\ OnlySent

LEMMA DeliveredRow ==
  ASSUME ComposeTypeOK, NEW o \in Ops, op[o] \in OpRows,
         op' = [op EXCEPT ![o].stage = "delivered", ![o].ok = TRUE]
  PROVE  /\ op' \in [Ops -> OpRows \cup {IdleOp, DoneOp}]
         /\ OnlyOp(o) /\ SameClick(o)
         /\ op'[o].stage = "delivered" /\ op'[o].ok /\ op'[o].draftId = op[o].draftId
         /\ op'[o].version = op[o].version
  <1> DEFINE row == [op[o] EXCEPT !.stage = "delivered", !.ok = TRUE]
  <1>1. op' = [op EXCEPT ![o] = row]
    OBVIOUS
  <1>2. /\ row \in OpRows
        /\ row.stage = "delivered" /\ row.ok = TRUE /\ row.draftId = op[o].draftId
        /\ row.version = op[o].version
        /\ row.kind = op[o].kind /\ row.tab = op[o].tab /\ row.mount = op[o].mount
        /\ row.text = op[o].text /\ row.work = op[o].work
    BY DEF OpRows, Stages
  <1> HIDE DEF row
  <1>3. op' \in [Ops -> OpRows \cup {IdleOp, DoneOp}] /\ OnlyOp(o) /\ op'[o] = row
    BY <1>1, <1>2, OpTyped
  <1> QED
    BY <1>2, <1>3 DEF SameClick

LEMMA OneMore ==
  ASSUME mails \in [Texts -> Nat], NEW x \in Texts, mails' = [mails EXCEPT ![x] = @ + 1]
  PROVE  /\ mails' \in [Texts -> Nat]
         /\ mails'[x] = mails[x] + 1
         /\ \A y \in Texts : mails[y] <= mails'[y]
  OBVIOUS

LEMMA ServeMessageTyped ==
  ASSUME ComposeTypeOK, NEW o \in Ops, ServeMessage(o)
  PROVE  /\ ComposeTypeOK'
         /\ Sends(o)
         /\ UNCHANGED draft
         /\ op[o].draftId = Null
         /\ mails'[op[o].text] = mails[op[o].text] + 1
  <1>1. op[o].stage = "deliver" /\ op[o].kind = "send" /\ op[o].draftId = Null
        /\ op[o] \in OpRows
    BY StageRow DEF ServeMessage
  <1>2. op[o].text \in Texts /\ mails \in [Texts -> Nat]
    BY <1>1 DEF OpRows, ComposeTypeOK
  <1>3. /\ op' \in [Ops -> OpRows \cup {IdleOp, DoneOp}]
        /\ OnlyOp(o) /\ SameClick(o)
        /\ op'[o].stage = "delivered" /\ op'[o].ok /\ op'[o].draftId = op[o].draftId
        /\ op'[o].version = op[o].version
    BY <1>1, DeliveredRow DEF ServeMessage
  <1>4. /\ mails' \in [Texts -> Nat]
        /\ mails'[op[o].text] = mails[op[o].text] + 1
        /\ \A y \in Texts : mails[y] <= mails'[y]
    BY <1>2, OneMore DEF ServeMessage
  <1>5. ComposeTypeOK'
    BY <1>3, <1>4 DEF ComposeTypeOK, ServeMessage
  <1>6. UNCHANGED <<draft, panel, copies, opens, edits, stamps, doubts>>
    BY DEF ServeMessage
  <1> QED
    BY <1>1, <1>3, <1>4, <1>5, <1>6 DEF Sends, OnlySent

LEMMA SentRow ==
  ASSUME ComposeTypeOK, NEW d \in Drafts, draft[d].status = "draft",
         draft' = [draft EXCEPT ![d].status = "sent"]
  PROVE  /\ draft' \in [Drafts -> DraftRows]
         /\ OnlySent
  <1> DEFINE row == [draft[d] EXCEPT !.status = "sent"]
  <1>1. draft[d] \in DraftRows /\ draft' = [draft EXCEPT ![d] = row]
    BY DEF ComposeTypeOK
  <1>2. row \in DraftRows /\ row.version = draft[d].version /\ row.text = draft[d].text
        /\ row.status = "sent"
    BY <1>1 DEF DraftRows
  <1> HIDE DEF row
  <1>3. draft' \in [Drafts -> DraftRows] /\ draft'[d] = row
    BY <1>1, <1>2 DEF ComposeTypeOK
  <1>4. \A e \in Drafts : e # d => draft'[e] = draft[e]
    BY <1>1 DEF ComposeTypeOK
  <1> QED
    BY <1>2, <1>3, <1>4 DEF OnlySent

LEMMA ServeSendTyped ==
  ASSUME ComposeTypeOK, NEW o \in Ops, ServeSend(o)
  PROVE  /\ ComposeTypeOK'
         /\ Sends(o)
         /\ Matches(o) /\ op[o].draftId \in Drafts
         /\ mails'[draft[op[o].draftId].text] = mails[draft[op[o].draftId].text] + 1
  <1> DEFINE d == op[o].draftId
  <1>1. op[o].stage = "deliver" /\ op[o].kind = "send" /\ op[o] \in OpRows /\ Matches(o)
    BY StageRow DEF ServeSend
  <1>2. d \in Drafts /\ draft[d].status = "draft" /\ draft[d].text \in Texts
        /\ mails \in [Texts -> Nat]
    BY <1>1 DEF OpRows, ComposeTypeOK, Matches, DraftRows
  <1>3. /\ op' \in [Ops -> OpRows \cup {IdleOp, DoneOp}]
        /\ OnlyOp(o) /\ SameClick(o)
        /\ op'[o].stage = "delivered" /\ op'[o].ok /\ op'[o].draftId = op[o].draftId
        /\ op'[o].version = op[o].version
    BY <1>1, DeliveredRow DEF ServeSend
  <1>4. /\ mails' \in [Texts -> Nat]
        /\ mails'[draft[d].text] = mails[draft[d].text] + 1
        /\ \A y \in Texts : mails[y] <= mails'[y]
    BY <1>2, OneMore DEF ServeSend
  <1>5. /\ draft' \in [Drafts -> DraftRows]
        /\ OnlySent
    BY <1>2, SentRow DEF ServeSend
  <1>6. UNCHANGED <<panel, copies, opens, edits, stamps, lost, doubts>>
    BY DEF ServeSend
  <1>7. ComposeTypeOK'
    <2>1. draft' \in [Drafts -> DraftRows]
      BY <1>5
    <2>2. mails' \in [Texts -> Nat]
      BY <1>4
    <2>3. op' \in [Ops -> OpRows \cup {IdleOp, DoneOp}]
      BY <1>3
    <2> QED
      BY <2>1, <2>2, <2>3, <1>6 DEF ComposeTypeOK
  <1> QED
    BY <1>1, <1>2, <1>3, <1>4, <1>5, <1>6, <1>7 DEF Sends

LEMMA DeliverTyped ==
  ASSUME ComposeTypeOK, NEW d \in Drafts, Deliver(d)
  PROVE  /\ ComposeTypeOK'
         /\ UNCHANGED <<panel, copies, op, opens, edits, stamps, doubts>>
         /\ \A x \in Texts : mails[x] <= mails'[x]
         /\ OnlySent
  <1>1. draft[d].status = "draft" /\ draft[d].text \in Texts /\ mails \in [Texts -> Nat]
    BY DEF Deliver, ComposeTypeOK, DraftRows
  <1>2. mails' \in [Texts -> Nat] /\ \A y \in Texts : mails[y] <= mails'[y]
    BY <1>1, OneMore DEF Deliver
  <1>3. /\ draft' \in [Drafts -> DraftRows]
        /\ OnlySent
    BY <1>1, SentRow DEF Deliver
  <1>4. UNCHANGED <<panel, copies, op, opens, edits, stamps, lost, doubts>>
    BY DEF Deliver
  <1>5. ComposeTypeOK'
    <2>1. draft' \in [Drafts -> DraftRows]
      BY <1>3
    <2>2. mails' \in [Texts -> Nat]
      BY <1>2
    <2> QED
      BY <2>1, <2>2, <1>4 DEF ComposeTypeOK
  <1> QED
    BY <1>2, <1>3, <1>4, <1>5

(* A schedule is set or cancelled.                                         *)
LEMMA ServeScheduleTyped ==
  ASSUME ComposeTypeOK, NEW o \in Ops, ServeSchedule(o)
  PROVE  /\ ComposeTypeOK'
         /\ op[o].stage = "deliver" /\ op[o].kind \in {"schedule", "cancel"}
         /\ op[o] \in OpRows /\ Matches(o)
         /\ op[o].draftId \in Drafts
         /\ stamps' = stamps + 1
         /\ OnlyDraft(op[o].draftId)
         /\ draft'[op[o].draftId].status = "draft"
         /\ draft'[op[o].draftId].text = draft[op[o].draftId].text
         /\ draft'[op[o].draftId].version = stamps'
         /\ OnlyOp(o) /\ SameClick(o)
         /\ op'[o].stage = "delivered" /\ op'[o].ok /\ op'[o].draftId = op[o].draftId
         /\ op'[o].version = stamps'
         /\ UNCHANGED <<panel, copies, opens, edits, mails, doubts>>
  <1>1. /\ op[o].stage = "deliver" /\ op[o].kind \in {"schedule", "cancel"}
        /\ op[o] \in OpRows /\ Matches(o)
    BY StageRow DEF ServeSchedule
  <1>2. PICK scheduled \in BOOLEAN : scheduled = (op[o].kind = "schedule")
    OBVIOUS
  <1> DEFINE d == op[o].draftId
             row == [draft[d] EXCEPT !.version = stamps', !.scheduled = scheduled]
  <1>3. d \in Drafts /\ draft[d] \in DraftRows /\ draft[d].status = "draft"
    BY <1>1 DEF OpRows, Matches, ComposeTypeOK
  <1>4. stamps' = stamps + 1 /\ stamps' \in Nat
    BY DEF ComposeTypeOK, Versions, ServeSchedule
  <1>5. draft' = [draft EXCEPT ![d] = row]
    BY <1>2 DEF ServeSchedule
  <1>6. row \in DraftRows /\ row.status = "draft" /\ row.text = draft[d].text
        /\ row.version = stamps'
    BY <1>3, <1>4 DEF DraftRows, Versions
  <1> HIDE DEF row
  <1>7. draft' \in [Drafts -> DraftRows] /\ OnlyDraft(d) /\ draft'[d] = row
    BY <1>3, <1>5, <1>6 DEF ComposeTypeOK, OnlyDraft
  <1>8. Reply(o, "delivered", d, TRUE)
    BY DEF ServeSchedule
  <1>9. /\ op' \in [Ops -> OpRows \cup {IdleOp, DoneOp}]
        /\ OnlyOp(o) /\ SameClick(o)
        /\ op'[o].stage = "delivered" /\ op'[o].draftId = d /\ op'[o].ok
        /\ op'[o].version = stamps'
    BY <1>1, <1>3, <1>4, <1>8, ReplyTyped DEF Stages
  <1>10. UNCHANGED <<panel, copies, opens, edits, mails, lost, doubts>>
    BY DEF ServeSchedule
  <1>11. ComposeTypeOK'
    BY <1>4, <1>7, <1>9, <1>10 DEF ComposeTypeOK, Versions
  <1> QED
    BY <1>1, <1>3, <1>4, <1>6, <1>7, <1>9, <1>10, <1>11
---------------------------------------------------------------------------
(* The steps of answers.                                                   *)

LEMMA SettledTyped ==
  ASSUME ComposeTypeOK, NEW o \in Ops, op' = Settled(o)
  PROVE  op' \in [Ops -> OpRows \cup {IdleOp, DoneOp}] /\ OnlyOp(o) /\ op'[o] = DoneOp
  BY OpTyped DEF Settled

LEMMA DoneInactive ==
  ASSUME NEW o \in Ops, op'[o] = DoneOp
  PROVE  ~Active(o)'
  BY DEF Active, DoneOp

(* A form learns what its save was stored as.                              *)
Learns(o) ==
  LET t == op[o].tab IN
  /\ \A s \in Tabs \ {t} : panel'[s] = panel[s]
  /\ ~Mounted(o) => panel'[t] = panel[t]
  /\ panel'[t].open = panel[t].open /\ panel'[t].mount = panel[t].mount
  /\ panel'[t].text = panel[t].text /\ panel'[t].work = panel[t].work
  /\ Mounted(o) =>
        /\ panel'[t].draftId = op[o].draftId
        /\ panel'[t].version = op[o].version
        /\ panel'[t].base = op[o].text
        /\ panel'[t].about = IF panel[t].about = Null THEN op[o].draftId ELSE panel[t].about

LEMMA LearnTyped ==
  ASSUME ComposeTypeOK, NEW o \in Ops, op[o] \in OpRows, op[o].draftId \in Drafts, panel' = Learn(o)
  PROVE  panel' \in [Tabs -> Panels] /\ Learns(o)
  <1> DEFINE t == op[o].tab
  <1>0. t \in Tabs /\ panel[t] \in Panels
    BY DEF OpRows, ComposeTypeOK
  <1>1. CASE ~Mounted(o)
    <2>1. panel' = panel
      BY <1>1 DEF Learn
    <2> QED
      BY <1>1, <2>1 DEF ComposeTypeOK, Learns
  <1>2. CASE Mounted(o)
    <2>1. PICK ring \in BOOLEAN : ring = (panel[t].timer \/ panel[t].draftId # op[o].draftId)
      OBVIOUS
    <2>2. PICK about \in Drafts \cup {Null} :
             about = IF panel[t].about = Null THEN op[o].draftId ELSE panel[t].about
      BY <1>0 DEF Panels
    <2>3. PICK v \in Versions, x \in Texts, d \in Drafts :
             v = op[o].version /\ x = op[o].text /\ d = op[o].draftId
      BY DEF OpRows
    <2> DEFINE row == [panel[t] EXCEPT !.draftId = d, !.version = v, !.timer = ring,
                         !.base = x, !.about = about]
    <2>4. panel' = [panel EXCEPT ![t] = row]
      BY <1>2, <2>1, <2>2, <2>3 DEF Learn
    <2>5. /\ row \in Panels
          /\ row.draftId = d /\ row.version = v /\ row.base = x /\ row.about = about
          /\ row.open = panel[t].open /\ row.mount = panel[t].mount
          /\ row.text = panel[t].text /\ row.work = panel[t].work
      BY <1>0 DEF Panels
    <2> HIDE DEF row
    <2>6. panel' \in [Tabs -> Panels] /\ panel'[t] = row
      BY <1>0, <2>4, <2>5 DEF ComposeTypeOK
    <2>7. \A s \in Tabs \ {t} : panel'[s] = panel[s]
      BY <2>4 DEF ComposeTypeOK
    <2> QED
      BY <1>2, <2>2, <2>3, <2>5, <2>6, <2>7 DEF Learns
  <1> QED
    BY <1>1, <1>2

LEMMA AnswerPersistTyped ==
  ASSUME ComposeTypeOK, ComposeBounded, NEW o \in Ops, AnswerPersist(o)
  PROVE  /\ ComposeTypeOK'
         /\ UNCHANGED <<draft, opens, edits, stamps, mails>>
         /\ op[o] \in OpRows /\ op[o].stage = "persisted" /\ op[o].ok
         /\ op[o].draftId \in Drafts
         /\ Learns(o)
         /\ copies' = Link(op[o].work, op[o].draftId)
         /\ OnlyOp(o)
         /\ \/ op'[o] = DoneOp
            \/ /\ SameClick(o) /\ op[o].kind # "save"
               /\ op'[o].stage = "deliver" /\ ~op'[o].ok
               /\ op'[o].draftId = op[o].draftId /\ op'[o].version = op[o].version
         /\ doubts \subseteq doubts'
         /\ Second(o) => "save" \in doubts'
  <1>1. op[o] \in OpRows /\ op[o].stage = "persisted" /\ op[o].ok
    BY StageRow DEF AnswerPersist
  <1>2. op[o].draftId \in Drafts
    BY <1>1, ActiveRows DEF ComposeBounded, OpBounds, Fresh, OpRows
  <1>3. panel' \in [Tabs -> Panels] /\ Learns(o)
    BY <1>1, <1>2, LearnTyped DEF AnswerPersist
  <1>4. copies' \in Seq(CopyRows) /\ Keyed(copies')
    BY <1>2, LinkRows DEF AnswerPersist, ComposeTypeOK, Keyed
  <1>5. doubts \subseteq doubts' /\ doubts' \subseteq Doubts /\ (Second(o) => "save" \in doubts')
    BY DEF AnswerPersist, ComposeTypeOK, Doubts
  <1>6. /\ op' \in [Ops -> OpRows \cup {IdleOp, DoneOp}] /\ OnlyOp(o)
        /\ \/ op'[o] = DoneOp
           \/ /\ SameClick(o) /\ op[o].kind # "save"
              /\ op'[o].stage = "deliver" /\ ~op'[o].ok
              /\ op'[o].draftId = op[o].draftId /\ op'[o].version = op[o].version
    <2>1. CASE op[o].kind = "save"
      BY <2>1, SettledTyped DEF AnswerPersist
    <2>2. CASE op[o].kind # "save"
      <3> DEFINE row == [op[o] EXCEPT !.stage = "deliver", !.ok = FALSE]
      <3>1. op' = [op EXCEPT ![o] = row]
        BY <2>2 DEF AnswerPersist
      <3>2. /\ row \in OpRows
            /\ row.stage = "deliver" /\ row.ok = FALSE /\ row.draftId = op[o].draftId
            /\ row.version = op[o].version
            /\ row.kind = op[o].kind /\ row.tab = op[o].tab /\ row.mount = op[o].mount
            /\ row.text = op[o].text /\ row.work = op[o].work
        BY <1>1 DEF OpRows, Stages
      <3> HIDE DEF row
      <3>3. op' \in [Ops -> OpRows \cup {IdleOp, DoneOp}] /\ OnlyOp(o) /\ op'[o] = row
        BY <3>1, <3>2, OpTyped
      <3> QED
        BY <2>2, <3>2, <3>3 DEF SameClick
    <2> QED
      BY <2>1, <2>2
  <1>7. /\ UNCHANGED <<draft, opens, edits, stamps, mails, lost>>
        /\ copies' = Link(op[o].work, op[o].draftId)
    BY DEF AnswerPersist
  <1>8. ComposeTypeOK'
    BY <1>3, <1>4, <1>5, <1>6, <1>7 DEF ComposeTypeOK, Keyed
  <1> QED
    BY <1>1, <1>2, <1>3, <1>5, <1>6, <1>7, <1>8

(* A click ends, and nothing else happens.                                 *)
Ends(o) ==
  /\ op[o] \in OpRows
  /\ OnlyOp(o) /\ op'[o] = DoneOp
  /\ UNCHANGED <<draft, panel, copies, opens, edits, stamps, mails, doubts>>

LEMMA EndsTyped ==
  ASSUME ComposeTypeOK, NEW o \in Ops, AnswerRefused(o) \/ Lose(o)
  PROVE  ComposeTypeOK' /\ Ends(o)
  <1>1. op[o] \in OpRows
    BY StageRow DEF AnswerRefused, Lose
  <1>2. op' = Settled(o) /\ UNCHANGED <<draft, panel, copies, opens, edits, stamps, mails, doubts>>
    BY DEF AnswerRefused, Lose
  <1>3. op' \in [Ops -> OpRows \cup {IdleOp, DoneOp}] /\ OnlyOp(o) /\ op'[o] = DoneOp
    BY <1>2, SettledTyped
  <1>4. lost' \in 0 .. MaxLost
    BY Numbers DEF ComposeTypeOK, AnswerRefused, Lose
  <1>5. ComposeTypeOK'
    BY <1>2, <1>3, <1>4 DEF ComposeTypeOK
  <1> QED
    BY <1>1, <1>2, <1>3, <1>5 DEF Ends

LEMMA AnswerSendTyped ==
  ASSUME ComposeTypeOK, NEW o \in Ops, AnswerSend(o)
  PROVE  /\ ComposeTypeOK'
         /\ op[o] \in OpRows /\ op[o].stage = "delivered" /\ op[o].ok /\ op[o].kind = "send"
         /\ copies' = Without(WorkOf(o))
         /\ OnlyOp(o) /\ SameClick(o)
         /\ op'[o].stage = "closing" /\ op'[o].draftId = op[o].draftId
         /\ op'[o].version = op[o].version
         /\ UNCHANGED <<draft, panel, opens, edits, stamps, mails, doubts>>
  <1>1. op[o] \in OpRows /\ op[o].stage = "delivered" /\ op[o].ok /\ op[o].kind = "send"
    BY StageRow DEF AnswerSend
  <1>2. copies' \in Seq(CopyRows) /\ Keyed(copies')
    BY WithoutRows DEF AnswerSend, ComposeTypeOK, Keyed
  <1> DEFINE row == [op[o] EXCEPT !.stage = "closing"]
  <1>3. op' = [op EXCEPT ![o] = row]
    BY DEF AnswerSend
  <1>4. /\ row \in OpRows
        /\ row.stage = "closing" /\ row.draftId = op[o].draftId /\ row.version = op[o].version
        /\ row.kind = op[o].kind /\ row.tab = op[o].tab /\ row.mount = op[o].mount
        /\ row.text = op[o].text /\ row.work = op[o].work
    BY <1>1 DEF OpRows, Stages
  <1> HIDE DEF row
  <1>5. op' \in [Ops -> OpRows \cup {IdleOp, DoneOp}] /\ OnlyOp(o) /\ op'[o] = row
    BY <1>3, <1>4, OpTyped
  <1>6. /\ UNCHANGED <<draft, panel, opens, edits, stamps, mails, lost, doubts>>
        /\ copies' = Without(WorkOf(o))
    BY DEF AnswerSend
  <1>7. ComposeTypeOK'
    BY <1>2, <1>5, <1>4, <1>6 DEF ComposeTypeOK, Keyed
  <1> QED
    BY <1>1, <1>4, <1>5, <1>6, <1>7 DEF SameClick

LEMMA CloseAfterSendTyped ==
  ASSUME ComposeTypeOK, NEW o \in Ops, CloseAfterSend(o)
  PROVE  /\ ComposeTypeOK'
         /\ op[o] \in OpRows /\ op[o].stage = "closing"
         /\ OnlyOp(o) /\ op'[o] = DoneOp
         /\ \A s \in Tabs \ {op[o].tab} : panel'[s] = panel[s]
         /\ panel'[op[o].tab] = ClosedPanel
         /\ UNCHANGED <<draft, copies, opens, edits, stamps, mails, doubts>>
  <1>1. op[o] \in OpRows /\ op[o].stage = "closing"
    BY StageRow DEF CloseAfterSend
  <1>2. op[o].tab \in Tabs /\ ClosedPanel \in Panels
    BY <1>1, Numbers DEF OpRows, ClosedPanel, Panels, Texts, Versions
  <1>3. /\ op' = Settled(o) /\ panel' = [panel EXCEPT ![op[o].tab] = ClosedPanel]
        /\ UNCHANGED <<draft, copies, opens, edits, stamps, mails, lost, doubts>>
    BY DEF CloseAfterSend
  <1>4. op' \in [Ops -> OpRows \cup {IdleOp, DoneOp}] /\ OnlyOp(o) /\ op'[o] = DoneOp
    BY <1>3, SettledTyped
  <1>5. /\ panel' \in [Tabs -> Panels] /\ panel'[op[o].tab] = ClosedPanel
        /\ \A s \in Tabs \ {op[o].tab} : panel'[s] = panel[s]
    BY <1>2, <1>3 DEF ComposeTypeOK
  <1>6. ComposeTypeOK'
    BY <1>3, <1>4, <1>5 DEF ComposeTypeOK
  <1> QED
    BY <1>1, <1>3, <1>4, <1>5, <1>6

LEMMA AnswerScheduleTyped ==
  ASSUME ComposeTypeOK, NEW o \in Ops, AnswerSchedule(o)
  PROVE  /\ ComposeTypeOK'
         /\ op[o] \in OpRows /\ op[o].stage = "delivered" /\ op[o].ok
         /\ op[o].kind \in {"schedule", "cancel"} /\ op[o].tab \in Tabs
         /\ OnlyOp(o) /\ op'[o] = DoneOp
         /\ \A s \in Tabs \ {op[o].tab} : panel'[s] = panel[s]
         /\ panel'[op[o].tab] = IF Mounted(o) THEN [panel[op[o].tab] EXCEPT !.version = op[o].version]
                                              ELSE panel[op[o].tab]
         /\ UNCHANGED <<draft, copies, opens, edits, stamps, mails, doubts>>
  <1> DEFINE t == op[o].tab
             row == [panel[t] EXCEPT !.version = op[o].version]
  <1>1. /\ op[o] \in OpRows /\ op[o].stage = "delivered" /\ op[o].ok
        /\ op[o].kind \in {"schedule", "cancel"}
    BY StageRow DEF AnswerSchedule
  <1>2. t \in Tabs /\ op[o].version \in Versions /\ panel[t] \in Panels
    BY <1>1 DEF OpRows, ComposeTypeOK
  <1>3. /\ op' = Settled(o)
        /\ panel' = IF Mounted(o) THEN [panel EXCEPT ![t] = row] ELSE panel
        /\ UNCHANGED <<draft, copies, opens, edits, stamps, mails, lost, doubts>>
    BY DEF AnswerSchedule
  <1>4. op' \in [Ops -> OpRows \cup {IdleOp, DoneOp}] /\ OnlyOp(o) /\ op'[o] = DoneOp
    BY <1>3, SettledTyped
  <1>5. row \in Panels
    BY <1>2 DEF Panels
  <1> HIDE DEF row
  <1>6. /\ panel' \in [Tabs -> Panels]
        /\ panel'[t] = IF Mounted(o) THEN row ELSE panel[t]
        /\ \A s \in Tabs \ {t} : panel'[s] = panel[s]
    BY <1>2, <1>3, <1>5 DEF ComposeTypeOK
  <1>7. ComposeTypeOK'
    BY <1>3, <1>4, <1>6 DEF ComposeTypeOK
  <1> QED
    BY <1>1, <1>2, <1>3, <1>4, <1>6, <1>7 DEF row
---------------------------------------------------------------------------
(* What holds of a click or a form goes on to hold while it is left alone, *)
(* whatever happens to the drafts.                                         *)

LEMMA OwnVersionKept ==
  ASSUME ComposeTypeOK, OpBounds, DraftsMove, NEW x \in Ops, op'[x] = op[x], OwnVersion(x)
  PROVE  OwnVersion(x)'
  <1> SUFFICES ASSUME Active(x), Fresh(x)
               PROVE  /\ draft'[op[x].draftId].status # "none"
                      /\ \A d \in Drafts \ {op[x].draftId} : draft'[d].version # op[x].version
    BY DEF OwnVersion, Active, Fresh
  <1>1. op[x] \in OpRows /\ op[x].draftId \in Drafts /\ op[x].version <= stamps
    BY ActiveRows DEF OpBounds, OpRows
  <1>2. op[x].version \in Nat /\ stamps \in Nat /\ \A d \in Drafts : draft[d].version \in Nat
    BY <1>1 DEF OpRows, Versions, ComposeTypeOK, DraftRows
  <1>3. draft'[op[x].draftId].status # "none"
    BY <1>1 DEF OwnVersion, DraftsMove
  <1>4. ASSUME NEW d \in Drafts \ {op[x].draftId}
        PROVE  draft'[d].version # op[x].version
    <2>1. draft[d].version # op[x].version
      BY <1>1 DEF OwnVersion
    <2> QED
      BY <2>1, <1>1, <1>2 DEF DraftsMove
  <1> QED
    BY <1>3, <1>4

(* An old version of a draft is the version it had: it has its text.       *)
LEMMA OldVersion ==
  ASSUME ComposeTypeOK, DraftsMove, NEW d \in Drafts, NEW v \in Nat, v <= stamps,
         draft'[d].version = v
  PROVE  /\ draft[d].version = v
         /\ draft'[d].text = draft[d].text
         /\ draft'[d].status = "draft" => draft[d].status = "draft"
  <1>1. stamps \in Nat
    BY DEF ComposeTypeOK, Versions
  <1> QED
    BY <1>1 DEF DraftsMove

LEMMA StoredTextKept ==
  ASSUME ComposeTypeOK, OpBounds, DraftsMove, NEW x \in Ops, op'[x] = op[x], StoredText(x)
  PROVE  StoredText(x)'
  <1> SUFFICES ASSUME Active(x), HasStored(x),
                      draft'[op[x].draftId].version = op[x].version
               PROVE  draft'[op[x].draftId].text = op[x].text
    BY DEF StoredText, Active, HasStored
  <1>1. op[x] \in OpRows /\ op[x].version <= stamps
    BY ActiveRows DEF OpBounds
  <1>2. op[x].draftId \in Drafts /\ op[x].version \in Nat
    BY <1>1 DEF HasStored, OpRows, Versions
  <1> QED
    BY <1>1, <1>2, OldVersion DEF StoredText

(* A form that is left alone by a step, as far as its draft is concerned.  *)
FormKept(t) ==
  panel'[t].open =>
     /\ panel[t].open
     /\ panel'[t].mount = panel[t].mount /\ panel'[t].draftId = panel[t].draftId
     /\ panel'[t].version = panel[t].version /\ panel'[t].base = panel[t].base
     /\ panel'[t].about = panel[t].about

LEMMA FormKnowsKept ==
  ASSUME ComposeTypeOK, PanelBounds, DraftsMove, NEW t \in Tabs, FormKept(t), FormKnows(t)
  PROVE  FormKnows(t)'
  <1> SUFFICES ASSUME panel'[t].open
               PROVE  /\ panel'[t].about = panel'[t].draftId
                      /\ \A d \in Drafts :
                            draft'[d].status = "draft" /\ draft'[d].version = panel'[t].version
                            => draft'[d].text = panel'[t].base
    BY DEF FormKnows
  <1>1. panel[t].version \in Nat /\ panel[t].version <= stamps
    BY DEF ComposeTypeOK, Panels, Versions, PanelBounds
  <1>2. ASSUME NEW d \in Drafts, draft'[d].status = "draft",
               draft'[d].version = panel'[t].version
        PROVE  draft'[d].text = panel'[t].base
    BY <1>1, <1>2, OldVersion DEF FormKept, FormKnows
  <1> QED
    BY <1>2 DEF FormKept, FormKnows

LEMMA MatchesKept ==
  ASSUME ComposeTypeOK, OpBounds, DraftsMove, NEW x \in Ops, op'[x] = op[x], Active(x),
         Matches(x)'
  PROVE  Matches(x) /\ op[x].draftId \in Drafts
         /\ draft'[op[x].draftId].text = draft[op[x].draftId].text
  <1>1. op[x] \in OpRows /\ op[x].version <= stamps
    BY ActiveRows DEF OpBounds
  <1>2. op[x].draftId \in Drafts /\ op[x].version \in Nat
    BY <1>1 DEF Matches, OpRows, Versions
  <1>3. draft'[op[x].draftId].status = "draft" /\ draft'[op[x].draftId].version = op[x].version
    BY DEF Matches
  <1> QED
    BY <1>1, <1>2, <1>3, OldVersion DEF Matches

LEMMA SaveKnowsKept ==
  ASSUME ComposeTypeOK, OpBounds, DraftsMove, NEW x \in Ops, op'[x] = op[x], SaveKnows(x)
  PROVE  SaveKnows(x)'
  <1> SUFFICES ASSUME op[x].stage = "persist", op[x].draftId # Null
               PROVE  /\ op[x].about = op[x].draftId
                      /\ Matches(x)' => draft'[op[x].draftId].text = op[x].base
    BY DEF SaveKnows
  <1>1. Active(x)
    BY DEF Active
  <1> QED
    BY <1>1, MatchesKept DEF SaveKnows

(* A click is mounted after a step only if it was before.                  *)
LEMMA MountedKept ==
  ASSUME ComposeTypeOK, NEW x \in Ops, op[x] \in OpRows, op'[x].tab = op[x].tab,
         op'[x].mount = op[x].mount, FormKept(op[x].tab), Mounted(x)'
  PROVE  Mounted(x)
  BY DEF FormKept, Mounted

LEMMA FormsDraftKept ==
  ASSUME ComposeTypeOK, NEW x \in Ops, op'[x] = op[x], FormKept(op[x].tab), FormsDraft(x)
  PROVE  FormsDraft(x)'
  BY DEF FormsDraft, FormKept, Mounted

LEMMA ScheduleKnowsKept ==
  ASSUME ComposeTypeOK, OpBounds, DraftsMove, NEW x \in Ops, op'[x] = op[x],
         Mounted(x)' => FormKept(op[x].tab), ScheduleKnows(x)
  PROVE  ScheduleKnows(x)'
  <1> SUFFICES ASSUME Active(x), Scheduling(x), Mounted(x)', Matches(x)'
               PROVE  draft'[op[x].draftId].text = panel'[op[x].tab].base
    BY DEF ScheduleKnows, Active, Scheduling
  <1>1. Mounted(x) /\ panel'[op[x].tab].base = panel[op[x].tab].base
    BY DEF FormKept, Mounted
  <1>2. Matches(x) /\ draft'[op[x].draftId].text = draft[op[x].draftId].text
    BY MatchesKept
  <1> QED
    BY <1>1, <1>2 DEF ScheduleKnows

(* A draft has another version than an old one that it did not have.       *)
LEMMA OtherVersion ==
  ASSUME ComposeTypeOK, DraftsMove, NEW d \in Drafts, NEW v \in Nat, v <= stamps,
         draft[d].version # v
  PROVE  draft'[d].version # v
  BY OldVersion

LEMMA FormStaleKept ==
  ASSUME ComposeTypeOK, ComposeBounded, DraftsMove, NEW x \in Ops, op'[x] = op[x],
         Mounted(x)' => FormKept(op[x].tab), FormStale(x)
  PROVE  FormStale(x)'
  <1> SUFFICES ASSUME Wins(x)'
               PROVE  panel'[op[x].tab].version # draft'[op[x].draftId].version
    BY DEF FormStale
  <1>1. Wins(x) /\ Active(x) /\ panel'[op[x].tab].version = panel[op[x].tab].version
    BY DEF Wins, FormKept, Mounted, Active
  <1>2. op[x] \in OpRows /\ op[x].draftId \in Drafts /\ op[x].tab \in Tabs
    BY <1>1, ActiveRows DEF ComposeBounded, OpBounds, OpRows, Fresh, Wins
  <1>3. panel[op[x].tab].version \in Nat /\ panel[op[x].tab].version <= stamps
    BY <1>2 DEF ComposeTypeOK, Panels, Versions, ComposeBounded, PanelBounds
  <1>4. panel[op[x].tab].version # draft[op[x].draftId].version
    BY <1>1 DEF FormStale
  <1> QED
    BY <1>1, <1>2, <1>3, <1>4, OtherVersion

LEMMA StaleKept ==
  ASSUME ComposeTypeOK, OpBounds, DraftsMove, NEW x \in Ops, NEW p \in Ops,
         op'[x] = op[x], op'[p] = op[p],
         Mounted(x)' => FormKept(op[x].tab), Stale(x, p)
  PROVE  Stale(x, p)'
  <1> SUFFICES ASSUME Wins(x)', p # x, Active(p), op[p].tab = op[x].tab, Mounted(p)',
                      op[p].draftId = op[x].draftId
               PROVE  /\ ~Wins(p)'
                      /\ op[p].stage = "persist" \/ Scheduling(p)
                         => op[p].version # draft'[op[x].draftId].version
    BY DEF Stale, Active, Scheduling
  <1>1. Wins(x) /\ Active(x) /\ Mounted(p)
    BY DEF Wins, FormKept, Mounted, Active
  <1>2. op[x] \in OpRows /\ op[x].draftId \in Drafts
    BY <1>1, ActiveRows DEF OpBounds, OpRows, Fresh, Wins
  <1>3. op[p].version \in Nat /\ op[p].version <= stamps
    BY ActiveRows DEF OpBounds, OpRows, Versions
  <1>4. /\ ~Wins(p)
        /\ op[p].stage = "persist" \/ Scheduling(p)
           => op[p].version # draft[op[x].draftId].version
    BY <1>1 DEF Stale
  <1>5. ~Wins(p)'
    BY <1>4, <1>1 DEF Wins
  <1> QED
    BY <1>2, <1>3, <1>4, <1>5, OtherVersion
---------------------------------------------------------------------------
(* Steps after which no click knows more than before.                      *)

LEMMA SentMove ==
  ASSUME ComposeTypeOK, OnlySent, stamps' = stamps
  PROVE  DraftsMove
  BY DEF ComposeTypeOK, Versions, OnlySent, DraftsMove

LEMMA NewVersionMove ==
  ASSUME ComposeTypeOK, NEW d \in Drafts, OnlyDraft(d), stamps' = stamps + 1,
         draft'[d].version = stamps', draft'[d].status = "draft"
  PROVE  DraftsMove
  <1>1. stamps \in Nat
    BY DEF ComposeTypeOK, Versions
  <1> QED
    BY <1>1 DEF OnlyDraft, DraftsMove

(* A click that ends, is refused, or is done with its draft.               *)
Withdrawn(x) ==
  \/ ~Active(x)'
  \/ /\ op[x] \in OpRows /\ SameClick(x)
     /\ op'[x].draftId = op[x].draftId /\ op'[x].version = op[x].version
     /\ ~Fresh(x)' /\ ~HasStored(x)' /\ ~Scheduling(x)'
     /\ op'[x].stage # "persist"
     /\ op'[x].stage \in {"deliver", "delivered"} => op[x].stage = "deliver"

LEMMA RefusedWithdrawn ==
  ASSUME NEW o \in Ops, op[o] \in OpRows, SameClick(o),
         op'[o].draftId = op[o].draftId, op'[o].version = op[o].version, ~op'[o].ok,
         \/ op'[o].stage = "persisted"
         \/ op'[o].stage = "delivered" /\ op[o].stage = "deliver"
  PROVE  Withdrawn(o)
  BY DEF Withdrawn, Fresh, HasStored, Scheduling

LEMMA SendsWithdrawn ==
  ASSUME NEW o \in Ops, Sends(o)
  PROVE  Withdrawn(o)
  BY DEF Withdrawn, Sends, SameClick, Fresh, HasStored, Scheduling

LEMMA ClosingWithdrawn ==
  ASSUME NEW o \in Ops, op[o] \in OpRows, SameClick(o), op'[o].stage = "closing",
         op'[o].draftId = op[o].draftId, op'[o].version = op[o].version
  PROVE  Withdrawn(o)
  BY DEF Withdrawn, Fresh, HasStored, Scheduling

LEMMA WithdrawnKnows ==
  ASSUME ComposeTypeOK, NEW x \in Ops, Withdrawn(x), FormsDraft(x),
         FormKept(op[x].tab)
  PROVE  /\ OwnVersion(x)' /\ StoredText(x)'
         /\ SaveKnows(x)' /\ FormsDraft(x)' /\ ScheduleKnows(x)'
         /\ ~Wins(x)'
  <1>1. CASE ~Active(x)'
    <2>1. op'[x].stage \notin {"persist", "deliver", "delivered", "persisted"}
      BY <1>1 DEF Active
    <2> QED
      BY <1>1, <2>1 DEF OwnVersion, StoredText, SaveKnows, FormsDraft, ScheduleKnows, Wins
  <1>2. CASE Active(x)'
    <2>1. /\ op[x] \in OpRows /\ SameClick(x)
          /\ op'[x].draftId = op[x].draftId /\ op'[x].version = op[x].version
          /\ ~Fresh(x)' /\ ~HasStored(x)' /\ ~Scheduling(x)'
          /\ op'[x].stage # "persist"
          /\ op'[x].stage \in {"deliver", "delivered"} => op[x].stage = "deliver"
      BY <1>2 DEF Withdrawn
    <2>2. OwnVersion(x)' /\ StoredText(x)' /\ SaveKnows(x)' /\ ScheduleKnows(x)' /\ ~Wins(x)'
      BY <2>1 DEF OwnVersion, StoredText, SaveKnows, ScheduleKnows, Wins, Fresh
    <2>3. FormsDraft(x)'
      BY <2>1 DEF FormsDraft, FormKept, Mounted, SameClick
    <2> QED
      BY <2>2, <2>3
  <1> QED
    BY <1>1, <1>2

(* It is nobody's rival any more.                                          *)
LEMMA WithdrawnStale ==
  ASSUME NEW x \in Ops, NEW p \in Ops, Withdrawn(p)
  PROVE  Stale(x, p)'
  <1>1. ~Active(p)' \/ (~Fresh(p)' /\ ~Scheduling(p)' /\ op'[p].stage # "persist")
    BY DEF Withdrawn
  <1> QED
    BY <1>1 DEF Stale, Wins, Fresh

LEMMA QuietStores ==
  ASSUME ComposeTypeOK, ComposeBounded, DraftsMove,
         \A x \in Ops : op'[x] = op[x] \/ Withdrawn(x), StoreInvariant
  PROVE  StoreInvariant'
  <1> SUFFICES ASSUME NEW x \in Ops
               PROVE  OwnVersion(x)' /\ StoredText(x)'
    BY DEF StoreInvariant
  <1>1. CASE op'[x] = op[x]
    BY <1>1, OwnVersionKept, StoredTextKept DEF StoreInvariant, ComposeBounded
  <1>2. CASE Withdrawn(x)
    BY <1>2 DEF Withdrawn, OwnVersion, StoredText
  <1> QED
    BY <1>1, <1>2

LEMMA QuietSaves ==
  ASSUME ComposeTypeOK, ComposeBounded, DraftsMove, \A t \in Tabs : FormKept(t),
         \A x \in Ops : op'[x] = op[x] \/ Withdrawn(x), SaveInv
  PROVE  SaveInv'
  <1>1. ASSUME NEW t \in Tabs
        PROVE  FormKnows(t)'
    BY FormKnowsKept DEF SaveInv, ComposeBounded
  <1>2. ASSUME NEW x \in Ops
        PROVE  SaveKnows(x)' /\ FormsDraft(x)' /\ ScheduleKnows(x)' /\ FormStale(x)'
    <2>0. SaveKnows(x) /\ FormsDraft(x) /\ ScheduleKnows(x) /\ FormStale(x)
      BY DEF SaveInv
    <2>1. CASE op'[x] = op[x] /\ Active(x)
      <3>1. FormKept(op[x].tab)
        BY <2>1, ActiveRows DEF OpRows
      <3> QED
        BY <2>0, <2>1, <3>1, SaveKnowsKept, FormsDraftKept, ScheduleKnowsKept, FormStaleKept
        DEF ComposeBounded
    <2>2. CASE Withdrawn(x) /\ op[x] \in OpRows
      <3>1. FormKept(op[x].tab)
        BY <2>2 DEF OpRows
      <3> QED
        BY <2>0, <2>2, <3>1, WithdrawnKnows DEF FormStale
    <2>3. CASE ~Active(x)'
      BY <2>3 DEF Active, SaveKnows, FormsDraft, ScheduleKnows, FormStale, Wins
    <2> QED
      BY <2>1, <2>2, <2>3 DEF Withdrawn, Active
  <1>3. ASSUME NEW x \in Ops, NEW p \in Ops
        PROVE  Stale(x, p)'
    <2>0. Stale(x, p)
      BY DEF SaveInv
    <2>1. CASE Withdrawn(p)
      BY <2>1, WithdrawnStale
    <2>2. CASE Withdrawn(x)
      <3>1. ~Wins(x)'
        BY <2>2 DEF Withdrawn, Active, Wins, Fresh
      <3> QED
        BY <3>1 DEF Stale
    <2>3. CASE op'[x] = op[x] /\ op'[p] = op[p]
      <3>1. CASE Active(x)
        <4>1. FormKept(op[x].tab)
          BY <3>1, ActiveRows DEF OpRows
        <4> QED
          BY <2>0, <2>3, <4>1, StaleKept DEF ComposeBounded
      <3>2. CASE ~Active(x)
        BY <2>3, <3>2 DEF Stale, Wins, Active
      <3> QED
        BY <3>1, <3>2
    <2> QED
      BY <2>1, <2>2, <2>3
  <1> QED
    BY <1>1, <1>2, <1>3 DEF SaveInv
---------------------------------------------------------------------------
(* The numbers, step by step.                                              *)

LEMMA Counters ==
  ASSUME ComposeTypeOK
  PROVE  /\ stamps \in Nat /\ edits \in Nat /\ opens \in Nat
         /\ \A d \in Drafts : draft[d].version \in Nat /\ draft[d].text \in Nat
         /\ \A t \in Tabs : /\ panel[t].version \in Nat /\ panel[t].text \in Nat
                            /\ panel[t].mount \in Nat /\ panel[t].work \in Nat
         /\ \A i \in DOMAIN copies : /\ copies[i] \in CopyRows
                                     /\ copies[i].id \in Nat /\ copies[i].text \in Nat
         /\ \A o \in Ops : op[o] \in OpRows => /\ op[o].version \in Nat /\ op[o].text \in Nat
                                               /\ op[o].mount \in Nat
  <1>1. \A d \in Drafts : draft[d] \in DraftRows
    BY DEF ComposeTypeOK
  <1>2. \A t \in Tabs : panel[t] \in Panels
    BY DEF ComposeTypeOK
  <1>3. \A i \in DOMAIN copies : copies[i] \in CopyRows
    BY LenProperties, ElementOfSeq DEF ComposeTypeOK
  <1>4. stamps \in Nat /\ edits \in Nat /\ opens \in Nat
    BY Numbers DEF ComposeTypeOK, Versions, Texts
  <1>5. \A d \in Drafts : draft[d].version \in Nat /\ draft[d].text \in Nat
    BY <1>1, Numbers DEF DraftRows, Versions, Texts
  <1>6. \A t \in Tabs : /\ panel[t].version \in Nat /\ panel[t].text \in Nat
                        /\ panel[t].mount \in Nat /\ panel[t].work \in Nat
    BY <1>2, Numbers DEF Panels, Versions, Texts
  <1>7. \A i \in DOMAIN copies : copies[i].id \in Nat /\ copies[i].text \in Nat
    BY <1>3, Numbers DEF CopyRows, WorkIds, Texts
  <1>8. \A o \in Ops : op[o] \in OpRows =>
           op[o].version \in Nat /\ op[o].text \in Nat /\ op[o].mount \in Nat
    BY Numbers DEF OpRows, Versions, Texts, WorkIds
  <1> QED
    BY <1>3, <1>4, <1>5, <1>6, <1>7, <1>8

LEMMA FormBounds ==
  ASSUME ComposeTypeOK, ComposeBounded, NEW t \in Tabs, OnlyPanel(t),
         opens' \in Nat, edits' \in Nat, opens <= opens', edits <= edits', CopyBounds',
         panel'[t].version <= stamps, panel'[t].text <= edits', panel'[t].mount <= opens',
         panel'[t].work <= opens',
         panel'[t].open => panel'[t].mount >= 1 /\ panel'[t].work >= 1
  PROVE  ComposeBounded'
  <1>1. DraftBounds'
    BY Counters DEF ComposeBounded, DraftBounds, OnlyPanel
  <1>2. PanelBounds'
    <2> SUFFICES ASSUME NEW s \in Tabs
                 PROVE  /\ panel'[s].version <= stamps'
                        /\ panel'[s].text <= edits'
                        /\ panel'[s].mount <= opens'
                        /\ panel'[s].work <= opens'
                        /\ panel'[s].open => panel'[s].mount >= 1 /\ panel'[s].work >= 1
      BY DEF PanelBounds
    <2>1. CASE s = t
      BY <2>1 DEF OnlyPanel
    <2>2. CASE s # t
      <3>1. panel'[s] = panel[s] /\ stamps' = stamps
        BY <2>2 DEF OnlyPanel
      <3> QED
        BY <3>1, Counters DEF ComposeBounded, PanelBounds
    <2> QED
      BY <2>1, <2>2
  <1>3. OpBounds'
    <2> SUFFICES ASSUME NEW o \in Ops, Active(o)
                 PROVE  /\ op[o].version <= stamps
                        /\ op[o].text <= edits'
                        /\ op[o].mount <= opens'
                        /\ Fresh(o) \/ Scheduling(o) => op[o].draftId # Null
      BY DEF OpBounds, OnlyPanel, Active, Fresh, Scheduling
    <2>1. op[o] \in OpRows
      BY ActiveRows
    <2> QED
      BY <2>1, Counters DEF ComposeBounded, OpBounds
  <1> QED
    BY <1>1, <1>2, <1>3 DEF ComposeBounded

LEMMA CopyBoundsGrow ==
  ASSUME ComposeTypeOK, CopyBounds, copies' = copies,
         opens' \in Nat, edits' \in Nat, opens <= opens', edits <= edits'
  PROVE  CopyBounds'
  BY Counters DEF CopyBounds

LEMMA OpenBounds ==
  ASSUME ComposeTypeOK, ComposeBounded, NEW t \in Tabs, NEW d \in Drafts \cup {Null}, Open(t, d)
  PROVE  ComposeBounded'
  <1>1. /\ OnlyPanel(t) /\ UNCHANGED <<copies, edits>> /\ opens' = opens + 1
        /\ panel'[t].version = 0 /\ panel'[t].text = 0 /\ panel'[t].mount = opens + 1
        /\ panel'[t].work = opens + 1
    <2>1. /\ OnlyPanel(t) /\ UNCHANGED <<copies, edits>> /\ opens' = opens + 1
          /\ panel'[t] = [ClosedPanel EXCEPT !.open = TRUE, !.mount = opens + 1, !.intent = d,
                           !.draftId = d, !.work = opens + 1, !.recovered = d # Null,
                           !.timer = d # Null, !.about = d]
      BY OpenTyped
    <2> QED
      BY <2>1 DEF ClosedPanel
  <1>2. CopyBounds'
    BY <1>1, CopyBoundsGrow, Counters DEF ComposeBounded
  <1>3. 0 <= stamps /\ 0 <= edits' /\ opens <= opens' /\ opens' \in Nat /\ opens' >= 1
        /\ edits' \in Nat /\ edits <= edits'
    BY <1>1, Counters
  <1> QED
    BY <1>1, <1>2, <1>3, FormBounds

(* A form whose numbers stay as they are, or are those of its draft.       *)
LEMMA SameBounds ==
  ASSUME ComposeTypeOK, ComposeBounded, NEW t \in Tabs, OnlyPanel(t), copies' = copies,
         opens' \in Nat, opens <= opens', edits' = edits,
         panel'[t].open = panel[t].open, panel'[t].mount = panel[t].mount,
         panel'[t].work = panel[t].work,
         \/ panel'[t].version = panel[t].version /\ panel'[t].text = panel[t].text
         \/ \E d \in Drafts : panel'[t].version = draft[d].version /\ panel'[t].text = draft[d].text
  PROVE  ComposeBounded'
  <1>1. panel'[t].version <= stamps /\ panel'[t].text <= edits'
    BY DEF ComposeBounded, PanelBounds, DraftBounds
  <1>2. /\ panel'[t].mount <= opens' /\ panel'[t].work <= opens'
        /\ panel'[t].open => panel'[t].mount >= 1 /\ panel'[t].work >= 1
    BY Counters DEF ComposeBounded, PanelBounds
  <1>3. CopyBounds' /\ edits' \in Nat /\ edits <= edits'
    BY CopyBoundsGrow, Counters DEF ComposeBounded
  <1> QED
    BY <1>1, <1>2, <1>3, FormBounds

LEMMA SwitchBounds ==
  ASSUME ComposeTypeOK, ComposeBounded, NEW t \in Tabs, NEW d \in Drafts \cup {Null}, Switch(t, d)
  PROVE  ComposeBounded'
  <1>1. /\ OnlyPanel(t) /\ UNCHANGED <<copies, edits>> /\ opens' = opens + 1
        /\ panel'[t].open = panel[t].open /\ panel'[t].mount = panel[t].mount
        /\ panel'[t].work = panel[t].work
        /\ panel'[t].version = panel[t].version /\ panel'[t].text = panel[t].text
    <2>1. panel[t] \in Panels
      BY DEF ComposeTypeOK
    <2>2. /\ OnlyPanel(t) /\ UNCHANGED <<copies, edits>> /\ opens' = opens + 1
          /\ panel'[t] = [panel[t] EXCEPT !.intent = d, !.shown = FALSE]
      BY SwitchTyped
    <2> QED
      BY <2>1, <2>2 DEF Panels
  <1>2. opens <= opens' /\ opens' \in Nat
    BY <1>1, Counters
  <1> QED
    BY <1>1, <1>2, SameBounds

LEMMA FetchBounds ==
  ASSUME ComposeTypeOK, ComposeBounded, NEW t \in Tabs, Fetch(t)
  PROVE  ComposeBounded'
  <1>0. panel[t] \in Panels
    BY DEF ComposeTypeOK
  <1>1. /\ OnlyPanel(t) /\ UNCHANGED <<copies, edits, opens>>
        /\ panel[t].intent \in Drafts
        /\ \/ panel'[t] = [panel[t] EXCEPT !.shown = draft[panel[t].intent].scheduled]
           \/ panel'[t] = Filled(t)
    BY DraftFetchTyped
  <1>2. /\ panel'[t].open = panel[t].open /\ panel'[t].mount = panel[t].mount
        /\ panel'[t].work = panel[t].work
        /\ \/ panel'[t].version = panel[t].version /\ panel'[t].text = panel[t].text
           \/ \E d \in Drafts : /\ panel'[t].version = draft[d].version
                                /\ panel'[t].text = draft[d].text
    BY <1>0, <1>1 DEF Filled, Panels
  <1>3. opens <= opens' /\ opens' \in Nat
    BY <1>1, Counters
  <1> QED
    BY <1>1, <1>2, <1>3, SameBounds

LEMMA RecoverBounds ==
  ASSUME ComposeTypeOK, ComposeBounded, NEW t \in Tabs, Recover(t)
  PROVE  ComposeBounded'
  <1>0. panel[t] \in Panels
    BY DEF ComposeTypeOK
  <1>1. /\ OnlyPanel(t) /\ UNCHANGED <<copies, edits, opens>>
        /\ \/ panel'[t] = [panel[t] EXCEPT !.restored = TRUE, !.recovered = TRUE, !.timer = TRUE]
           \/ \E i \in DOMAIN copies :
                  panel'[t] = [panel[t] EXCEPT !.restored = TRUE, !.recovered = TRUE,
                                 !.timer = TRUE, !.text = copies[i].text,
                                 !.draftId = copies[i].draftId,
                                 !.work = copies[i].id, !.about = copies[i].draftId]
    BY RecoverTyped
  <1>2. opens' \in Nat /\ edits' \in Nat /\ opens <= opens' /\ edits <= edits' /\ CopyBounds'
    <2>1. UNCHANGED <<copies, edits, opens>>
      BY <1>1
    <2>2. opens' \in Nat /\ edits' \in Nat /\ opens <= opens' /\ edits <= edits'
      BY <2>1, Counters
    <2> QED
      BY <2>1, <2>2, CopyBoundsGrow DEF ComposeBounded
  <1>3. CASE panel'[t] = [panel[t] EXCEPT !.restored = TRUE, !.recovered = TRUE, !.timer = TRUE]
    BY <1>0, <1>1, <1>2, <1>3, SameBounds DEF Panels
  <1>4. ASSUME NEW i \in DOMAIN copies,
               panel'[t] = [panel[t] EXCEPT !.restored = TRUE, !.recovered = TRUE,
                                 !.timer = TRUE, !.text = copies[i].text,
                                 !.draftId = copies[i].draftId,
                                 !.work = copies[i].id, !.about = copies[i].draftId]
        PROVE  ComposeBounded'
    <2>1. /\ panel'[t].version = panel[t].version /\ panel'[t].text = copies[i].text
          /\ panel'[t].mount = panel[t].mount /\ panel'[t].work = copies[i].id
          /\ panel'[t].open = panel[t].open
      BY <1>0, <1>4 DEF Panels
    <2>2. copies[i].id <= opens /\ copies[i].text <= edits /\ copies[i].id >= 1
      BY Counters DEF ComposeBounded, CopyBounds, CopyRows, WorkIds
    <2>3. /\ panel[t].version <= stamps /\ panel[t].mount <= opens
          /\ panel[t].open => panel[t].mount >= 1
      BY DEF ComposeBounded, PanelBounds
    <2> QED
      BY <1>1, <1>2, <2>1, <2>2, <2>3, FormBounds
  <1> QED
    BY <1>1, <1>3, <1>4

LEMMA TypeBounds ==
  ASSUME ComposeTypeOK, ComposeBounded, NEW t \in Tabs, Type(t)
  PROVE  ComposeBounded'
  <1>1. /\ OnlyPanel(t) /\ UNCHANGED <<copies, opens>> /\ edits' = edits + 1
        /\ panel'[t].version = panel[t].version /\ panel'[t].text = edits'
        /\ panel'[t].mount = panel[t].mount /\ panel'[t].work = panel[t].work
        /\ panel'[t].open = panel[t].open
    <2>1. panel[t] \in Panels
      BY DEF ComposeTypeOK
    <2>2. /\ OnlyPanel(t) /\ UNCHANGED <<copies, opens>> /\ edits' = edits + 1
          /\ panel'[t] = [panel[t] EXCEPT !.text = edits + 1, !.timer = TRUE]
      BY TypeTyped
    <2> QED
      BY <2>1, <2>2 DEF Panels
  <1>2. opens' \in Nat /\ edits' \in Nat /\ opens <= opens' /\ edits <= edits'
    BY <1>1, Counters
  <1>3. CopyBounds'
    BY <1>1, <1>2, CopyBoundsGrow DEF ComposeBounded
  <1>4. /\ panel[t].version <= stamps /\ panel[t].mount <= opens /\ panel[t].work <= opens
        /\ panel[t].open => panel[t].mount >= 1 /\ panel[t].work >= 1
    BY DEF ComposeBounded, PanelBounds
  <1>5. panel'[t].text <= edits' /\ panel'[t].mount <= opens' /\ panel'[t].work <= opens'
    BY <1>1, <1>2, <1>4
  <1> QED
    BY <1>1, <1>2, <1>3, <1>4, <1>5, FormBounds

LEMMA AutosaveBounds ==
  ASSUME ComposeTypeOK, ComposeBounded, NEW t \in Tabs, Autosave(t)
  PROVE  ComposeBounded'
  <1>0. panel[t] \in Panels
    BY DEF ComposeTypeOK
  <1>1. /\ OnlyPanel(t) /\ UNCHANGED <<edits, opens>>
        /\ copies' = Put(panel[t].work, panel[t].draftId, panel[t].text)
        /\ panel[t].work \in WorkIds
        /\ panel'[t].version = panel[t].version /\ panel'[t].text = panel[t].text
        /\ panel'[t].mount = panel[t].mount /\ panel'[t].work = panel[t].work
        /\ panel'[t].open = panel[t].open
    BY AutosaveTyped, <1>0 DEF Panels
  <1>2. opens' \in Nat /\ edits' \in Nat /\ opens <= opens' /\ edits <= edits'
    BY <1>1, Counters
  <1>3. /\ panel[t].version <= stamps /\ panel[t].mount <= opens /\ panel[t].work <= opens
        /\ panel[t].text <= edits
        /\ panel[t].open => panel[t].mount >= 1 /\ panel[t].work >= 1
    BY DEF ComposeBounded, PanelBounds
  <1>4. CopyBounds'
    <2>1. \A j \in DOMAIN copies' :
             \/ copies'[j].id = panel[t].work /\ copies'[j].text = panel[t].text
             \/ \E i \in DOMAIN copies : copies'[j] = copies[i]
      <3>1. panel[t].draftId \in Drafts \cup {Null} /\ panel[t].text \in Texts
        BY <1>0 DEF Panels
      <3>2. copies \in Seq(CopyRows) /\ Keyed(copies)
        BY DEF ComposeTypeOK, Keyed
      <3>3. PICK id \in WorkIds, d \in Drafts \cup {Null}, x \in Texts :
               id = panel[t].work /\ d = panel[t].draftId /\ x = panel[t].text
        BY <1>1, <3>1
      <3>4. \A j \in DOMAIN Put(id, d, x) :
               \/ Put(id, d, x)[j].id = id /\ Put(id, d, x)[j].text = x
               \/ /\ Put(id, d, x)[j].id # id
                  /\ \E i \in DOMAIN copies : Put(id, d, x)[j] = copies[i]
        BY <3>2, PutRows
      <3>5. copies' = Put(id, d, x)
        BY <1>1, <3>3
      <3> QED
        BY <3>3, <3>4, <3>5
    <2> QED
      BY <1>1, <1>3, <2>1 DEF CopyBounds, ComposeBounded
  <1> QED
    BY <1>1, <1>2, <1>3, <1>4, FormBounds

LEMMA CloseBounds ==
  ASSUME ComposeTypeOK, ComposeBounded, NEW t \in Tabs, Close(t)
  PROVE  ComposeBounded'
  <1>1. /\ OnlyPanel(t) /\ UNCHANGED <<copies, opens, edits>>
        /\ panel'[t].version = 0 /\ panel'[t].text = 0 /\ panel'[t].mount = 0
        /\ panel'[t].work = 0 /\ panel'[t].open = FALSE
    BY CloseTyped DEF ClosedPanel
  <1>2. /\ opens' \in Nat /\ edits' \in Nat /\ opens <= opens' /\ edits <= edits'
        /\ 0 <= stamps /\ 0 <= opens' /\ 0 <= edits'
    BY <1>1, Counters
  <1>3. CopyBounds'
    BY <1>1, <1>2, CopyBoundsGrow DEF ComposeBounded
  <1> QED
    BY <1>1, <1>2, <1>3, FormBounds

---------------------------------------------------------------------------
(* The other steps type and open nothing.                                  *)

LEMMA MoveBounds ==
  ASSUME ComposeTypeOK, ComposeTypeOK', ComposeBounded, DraftsMove, UNCHANGED <<opens, edits>>,
         \A d \in Drafts : draft'[d].text <= edits
  PROVE  DraftBounds'
  <1> SUFFICES ASSUME NEW d \in Drafts
               PROVE  /\ draft'[d].version <= stamps'
                      /\ draft'[d].text <= edits'
                      /\ draft'[d].status = "draft" => draft'[d].version >= 1
    BY DEF DraftBounds
  <1>1. /\ stamps \in Nat /\ draft[d].version \in Nat
        /\ draft[d].version <= stamps /\ (draft[d].status = "draft" => draft[d].version >= 1)
    BY Counters DEF ComposeBounded, DraftBounds
  <1>2. draft'[d].version \in Nat
    BY DEF ComposeTypeOK, DraftRows, Versions
  <1> QED
    BY <1>1, <1>2 DEF DraftsMove

LEMMA PanelBoundsKept ==
  ASSUME ComposeTypeOK, ComposeBounded, DraftsMove, UNCHANGED <<opens, edits>>,
         \A t \in Tabs : \/ panel'[t] = panel[t]
                         \/ panel'[t] = ClosedPanel
                         \/ /\ panel'[t].open = panel[t].open /\ panel'[t].mount = panel[t].mount
                            /\ panel'[t].text = panel[t].text /\ panel'[t].work = panel[t].work
                            /\ \E o \in Ops : Active(o) /\ panel'[t].version = op[o].version
  PROVE  PanelBounds'
  <1> SUFFICES ASSUME NEW t \in Tabs
               PROVE  /\ panel'[t].version <= stamps'
                      /\ panel'[t].text <= edits'
                      /\ panel'[t].mount <= opens'
                      /\ panel'[t].work <= opens'
                      /\ panel'[t].open => panel'[t].mount >= 1 /\ panel'[t].work >= 1
    BY DEF PanelBounds
  <1>1. stamps \in Nat /\ opens \in Nat /\ edits \in Nat /\ stamps' \in Nat /\ stamps <= stamps'
    BY Counters DEF DraftsMove
  <1>2. /\ panel[t].version <= stamps /\ panel[t].text <= edits
        /\ panel[t].mount <= opens /\ panel[t].work <= opens /\ panel[t].version \in Nat
        /\ (panel[t].open => panel[t].mount >= 1 /\ panel[t].work >= 1)
    BY Counters DEF ComposeBounded, PanelBounds
  <1>3. CASE panel'[t] = panel[t]
    BY <1>1, <1>2, <1>3
  <1>4. CASE panel'[t] = ClosedPanel
    BY <1>1, <1>4 DEF ClosedPanel
  <1>5. CASE /\ panel'[t].open = panel[t].open /\ panel'[t].mount = panel[t].mount
             /\ panel'[t].text = panel[t].text /\ panel'[t].work = panel[t].work
             /\ \E o \in Ops : Active(o) /\ panel'[t].version = op[o].version
    <2>1. PICK o \in Ops : Active(o) /\ panel'[t].version = op[o].version
      BY <1>5
    <2>2. op[o].version \in Nat /\ op[o].version <= stamps
      BY <2>1, ActiveRows, Counters DEF ComposeBounded, OpBounds
    <2> QED
      BY <1>1, <1>2, <1>5, <2>1, <2>2
  <1> QED
    BY <1>3, <1>4, <1>5

LEMMA OpBoundsKept ==
  ASSUME ComposeTypeOK, ComposeBounded, DraftsMove, UNCHANGED <<opens, edits>>,
         NEW o \in Ops, OnlyOp(o),
         \/ ~Active(o)'
         \/ /\ op'[o].version \in Nat /\ op'[o].version <= stamps'
            /\ op'[o].text <= edits
            /\ op'[o].mount <= opens
            /\ Fresh(o)' \/ Scheduling(o)' => op'[o].draftId # Null
  PROVE  OpBounds'
  <1> SUFFICES ASSUME NEW x \in Ops, Active(x)'
               PROVE  /\ op'[x].version <= stamps'
                      /\ op'[x].text <= edits'
                      /\ op'[x].mount <= opens'
                      /\ Fresh(x)' \/ Scheduling(x)' => op'[x].draftId # Null
    BY DEF OpBounds
  <1>1. CASE x = o
    BY <1>1
  <1>2. CASE x # o
    <2>1. op'[x] = op[x] /\ Active(x)
      BY <1>2 DEF OnlyOp, Active
    <2>2. /\ op[x].version <= stamps /\ op[x].text <= edits /\ op[x].mount <= opens
          /\ Fresh(x) \/ Scheduling(x) => op[x].draftId # Null
      BY <2>1 DEF ComposeBounded, OpBounds
    <2>3. op[x].version \in Nat /\ stamps \in Nat /\ stamps' \in Nat /\ stamps <= stamps'
      BY <2>1, ActiveRows, Counters DEF DraftsMove
    <2>4. Fresh(x)' \/ Scheduling(x)' => op'[x].draftId # Null
      BY <2>1, <2>2 DEF Fresh, Scheduling
    <2> QED
      BY <2>1, <2>2, <2>3, <2>4
  <1> QED
    BY <1>1, <1>2

LEMMA NoOpBounds ==
  ASSUME ComposeTypeOK, ComposeBounded, UNCHANGED <<op, opens, edits, stamps>>
  PROVE  OpBounds'
  BY DEF ComposeBounded, OpBounds, Active, Fresh, Scheduling
---------------------------------------------------------------------------
(* Types, numbers and stored texts, for every step.                        *)

ComposeBase == ComposeTypeOK /\ ComposeBounded /\ StoreInvariant

LEMMA FormBase ==
  ASSUME ComposeBase, UNCHANGED <<draft, op, stamps>>
  PROVE  DraftsMove /\ StoreInvariant'
  <1>1. DraftsMove
    BY DraftsStay DEF ComposeBase
  <1>2. \A x \in Ops : op'[x] = op[x]
    OBVIOUS
  <1> QED
    BY <1>1, <1>2, QuietStores DEF ComposeBase

LEMMA OneOpStores ==
  ASSUME ComposeBase, DraftsMove, NEW o \in Ops, OnlyOp(o), OwnVersion(o)', StoredText(o)'
  PROVE  StoreInvariant'
  <1> SUFFICES ASSUME NEW x \in Ops
               PROVE  OwnVersion(x)' /\ StoredText(x)'
    BY DEF StoreInvariant
  <1>1. CASE x = o
    BY <1>1
  <1>2. CASE x # o
    <2>1. op'[x] = op[x] /\ OwnVersion(x) /\ StoredText(x)
      BY <1>2 DEF OnlyOp, ComposeBase, StoreInvariant
    <2> QED
      BY <2>1, OwnVersionKept, StoredTextKept DEF ComposeBase, ComposeBounded
  <1> QED
    BY <1>1, <1>2

LEMMA WithdrawnStores ==
  ASSUME ComposeBase, DraftsMove, NEW o \in Ops, OnlyOp(o), Withdrawn(o)
  PROVE  StoreInvariant'
  <1>1. OwnVersion(o)' /\ StoredText(o)'
    BY DEF Withdrawn, OwnVersion, StoredText
  <1> QED
    BY <1>1, OneOpStores

(* The bounds of a click that is withdrawn.                                *)
LEMMA WithdrawnBounds ==
  ASSUME ComposeBase, DraftsMove, UNCHANGED <<opens, edits>>, NEW o \in Ops, OnlyOp(o), Withdrawn(o)
  PROVE  OpBounds'
  <1>1. CASE ~Active(o)'
    BY <1>1, OpBoundsKept DEF ComposeBase
  <1>2. CASE Active(o)'
    <2>1. /\ op[o] \in OpRows /\ SameClick(o) /\ op'[o].version = op[o].version
          /\ ~Fresh(o)' /\ ~Scheduling(o)'
      BY <1>2 DEF Withdrawn
    <2>2. /\ op[o].version \in Nat /\ op[o].version <= stamps /\ op[o].text <= edits
          /\ op[o].mount <= opens
      BY <2>1, ActiveRows, Counters DEF ComposeBase, ComposeBounded, OpBounds
    <2>3. op'[o].version \in Nat /\ op'[o].version <= stamps'
          /\ op'[o].text <= edits /\ op'[o].mount <= opens
      BY <2>1, <2>2, Counters DEF DraftsMove, SameClick, ComposeBase
    <2> QED
      BY <2>1, <2>3, OpBoundsKept DEF ComposeBase
  <1> QED
    BY <1>1, <1>2

LEMMA SamePanels ==
  ASSUME ComposeBase, DraftsMove, UNCHANGED <<panel, opens, edits>>
  PROVE  PanelBounds'
  BY PanelBoundsKept DEF ComposeBase

LEMMA SameCopies ==
  ASSUME ComposeBase, UNCHANGED <<copies, opens, edits>>
  PROVE  CopyBounds'
  BY DEF ComposeBase, ComposeBounded, CopyBounds

LEMMA SameDrafts ==
  ASSUME ComposeBase, ComposeTypeOK', UNCHANGED <<draft, stamps, opens, edits>>
  PROVE  DraftsMove /\ DraftBounds'
  BY DraftsStay DEF ComposeBase, ComposeBounded, DraftBounds

LEMMA OnlySentBounds ==
  ASSUME ComposeBase, ComposeTypeOK', OnlySent, UNCHANGED <<stamps, opens, edits>>
  PROVE  DraftsMove /\ DraftBounds'
  <1>1. DraftsMove
    BY SentMove DEF ComposeBase
  <1>2. \A d \in Drafts : draft'[d].text <= edits
    BY DEF OnlySent, ComposeBase, ComposeBounded, DraftBounds
  <1> QED
    BY <1>1, <1>2, MoveBounds DEF ComposeBase

LEMMA UserBase ==
  ASSUME ComposeBase, NEW t \in Tabs,
         \/ \E d \in Drafts \cup {Null} : Open(t, d) \/ Switch(t, d)
         \/ Type(t) \/ Close(t) \/ Browser(t)
  PROVE  ComposeBase' /\ OnlyPanel(t)
  <1>1. ComposeTypeOK' /\ OnlyPanel(t)
    BY OpenTyped, SwitchTyped, TypeTyped, CloseTyped, DraftFetchTyped, RecoverTyped, AutosaveTyped
    DEF ComposeBase, Browser
  <1>2. ComposeBounded'
    BY OpenBounds, SwitchBounds, TypeBounds, CloseBounds, FetchBounds, RecoverBounds, AutosaveBounds
    DEF ComposeBase, Browser
  <1>3. StoreInvariant'
    BY <1>1, FormBase DEF OnlyPanel
  <1> QED
    BY <1>1, <1>2, <1>3 DEF ComposeBase

LEMMA ClickBase ==
  ASSUME ComposeBase, NEW o \in Ops, NEW t \in Tabs, NEW kind \in Kinds, Click(o, t, kind)
  PROVE  ComposeBase' /\ DraftsMove
  <1>1. /\ ComposeTypeOK'
        /\ UNCHANGED <<draft, panel, copies, opens, edits, stamps, mails, doubts>>
        /\ OnlyOp(o)
        /\ panel[t].open
    BY ClickTyped DEF ComposeBase
  <1>2. op'[o] = [stage |-> FirstStage(panel[t], kind), kind |-> kind, tab |-> t,
                      mount |-> panel[t].mount, draftId |-> panel[t].draftId,
                      version |-> panel[t].version, text |-> panel[t].text,
                      work |-> panel[t].work, ok |-> FALSE, base |-> panel[t].base,
                      about |-> panel[t].about]
        /\ (kind = "cancel" => panel[t].draftId # Null)
    BY ClickTyped DEF ComposeBase
  <1>3. /\ op'[o].stage = FirstStage(panel[t], kind) /\ op'[o].kind = kind
        /\ op'[o].draftId = panel[t].draftId
        /\ op'[o].version = panel[t].version /\ op'[o].text = panel[t].text
        /\ op'[o].mount = panel[t].mount /\ op'[o].ok = FALSE
    BY <1>2
  <1>4. DraftsMove /\ DraftBounds' /\ PanelBounds' /\ CopyBounds'
    BY <1>1, SameDrafts, SamePanels, SameCopies
  <1>5. ~Fresh(o)' /\ ~HasStored(o)' /\ (Scheduling(o)' => op'[o].draftId # Null)
    BY <1>2, <1>3 DEF Fresh, HasStored, Scheduling, FirstStage
  <1>6. OpBounds'
    <2>1. op'[o].version \in Nat /\ op'[o].version <= stamps' /\ op'[o].text <= edits
          /\ op'[o].mount <= opens
      BY <1>1, <1>3, Counters DEF ComposeBase, ComposeBounded, PanelBounds
    <2> QED
      BY <1>1, <1>4, <1>5, <2>1, OpBoundsKept DEF ComposeBase
  <1>7. StoreInvariant'
    <2>1. OwnVersion(o)' /\ StoredText(o)'
      BY <1>5 DEF OwnVersion, StoredText
    <2> QED
      BY <1>1, <1>4, <2>1, OneOpStores
  <1> QED
    BY <1>1, <1>4, <1>6, <1>7 DEF ComposeBase, ComposeBounded

LEMMA StoresBase ==
  ASSUME ComposeBase, ComposeTypeOK', NEW o \in Ops, NEW d \in Drafts, Stores(o, d)
  PROVE  ComposeBase' /\ DraftsMove
  <1>1. DraftsMove
    BY NewVersionMove DEF ComposeBase, Stores
  <1>2. Active(o) /\ op[o] \in OpRows /\ op[o].text <= edits /\ op[o].mount <= opens
    BY DEF Stores, Active, ComposeBase, ComposeBounded, OpBounds
  <1>3. DraftBounds'
    <2>1. \A e \in Drafts : draft'[e].text <= edits
      BY <1>2 DEF Stores, OnlyDraft, ComposeBase, ComposeBounded, DraftBounds
    <2> QED
      BY <1>1, <2>1, MoveBounds DEF ComposeBase, Stores
  <1>4. PanelBounds' /\ CopyBounds'
    BY <1>1, SamePanels, SameCopies DEF Stores
  <1>5. d # Null
    BY NullAssumption
  <1>6. stamps \in Nat /\ stamps' = stamps + 1
    BY Counters DEF ComposeBase, Stores
  <1>7. OpBounds'
    <2>1. op'[o].version \in Nat /\ op'[o].version <= stamps' /\ op'[o].text <= edits
          /\ op'[o].mount <= opens /\ op'[o].draftId # Null
      BY <1>2, <1>5, <1>6 DEF Stores, SameClick
    <2>2. UNCHANGED <<opens, edits>> /\ OnlyOp(o)
      BY DEF Stores
    <2> QED
      BY <1>1, <2>1, <2>2, OpBoundsKept DEF ComposeBase
  <1>8. OwnVersion(o)'
    <2>1. \A e \in Drafts \ {d} : draft'[e].version # stamps'
      BY <1>6, Counters DEF Stores, OnlyDraft, ComposeBase, ComposeBounded, DraftBounds
    <2> QED
      BY <2>1 DEF OwnVersion, Stores
  <1>9. StoredText(o)'
    BY DEF StoredText, Stores, SameClick
  <1>10. StoreInvariant'
    BY <1>1, <1>8, <1>9, OneOpStores DEF Stores
  <1> QED
    BY <1>1, <1>3, <1>4, <1>7, <1>10 DEF ComposeBase, ComposeBounded

(* Steps that leave the panels alone and withdraw one click.               *)
LEMMA WithdrawnBase ==
  ASSUME ComposeBase, ComposeTypeOK', NEW o \in Ops, OnlyOp(o), Withdrawn(o),
         OnlySent, UNCHANGED <<stamps, opens, edits, panel>>, CopyBounds'
  PROVE  ComposeBase' /\ DraftsMove
  <1>1. DraftsMove /\ DraftBounds'
    BY OnlySentBounds
  <1>2. PanelBounds' /\ OpBounds' /\ StoreInvariant'
    BY <1>1, SamePanels, WithdrawnBounds, WithdrawnStores
  <1> QED
    BY <1>1, <1>2 DEF ComposeBase, ComposeBounded

LEMMA UnchangedSent ==
  ASSUME draft' = draft
  PROVE  OnlySent
  BY DEF OnlySent

LEMMA RefuseBase ==
  ASSUME ComposeBase, NEW o \in Ops,
         Refuse(o, "persist", "persisted") \/ Refuse(o, "deliver", "delivered")
  PROVE  ComposeBase' /\ DraftsMove /\ OnlyOp(o) /\ Withdrawn(o) /\ UNCHANGED <<panel, doubts>>
  <1>1. /\ ComposeTypeOK'
        /\ UNCHANGED <<draft, panel, copies, opens, edits, stamps, mails, doubts>>
        /\ op[o] \in OpRows /\ OnlyOp(o) /\ SameClick(o)
        /\ op'[o].draftId = op[o].draftId /\ op'[o].version = op[o].version /\ ~op'[o].ok
        /\ \/ op'[o].stage = "persisted"
           \/ op'[o].stage = "delivered" /\ op[o].stage = "deliver"
    BY RefuseTyped DEF ComposeBase
  <1>2. Withdrawn(o) /\ OnlySent /\ CopyBounds'
    BY <1>1, RefusedWithdrawn, UnchangedSent, SameCopies
  <1> QED
    BY <1>1, <1>2, WithdrawnBase

LEMMA SendsBase ==
  ASSUME ComposeBase, NEW o \in Ops, ServeMessage(o) \/ ServeSend(o)
  PROVE  ComposeBase' /\ DraftsMove /\ Sends(o) /\ Withdrawn(o)
  <1>1. ComposeTypeOK' /\ Sends(o)
    BY ServeMessageTyped, ServeSendTyped DEF ComposeBase
  <1>2. Withdrawn(o) /\ CopyBounds'
    BY <1>1, SendsWithdrawn, SameCopies DEF Sends
  <1>3. OnlyOp(o) /\ OnlySent /\ UNCHANGED <<stamps, opens, edits, panel>>
    BY <1>1 DEF Sends
  <1> QED
    BY <1>1, <1>2, <1>3, WithdrawnBase

LEMMA DeliverBase ==
  ASSUME ComposeBase, NEW d \in Drafts, Deliver(d)
  PROVE  ComposeBase' /\ DraftsMove /\ UNCHANGED <<panel, op, doubts>>
  <1>1. /\ ComposeTypeOK' /\ OnlySent
        /\ UNCHANGED <<panel, copies, op, opens, edits, stamps, doubts>>
    BY DeliverTyped DEF ComposeBase
  <1>2. DraftsMove /\ DraftBounds'
    BY <1>1, OnlySentBounds
  <1>3. PanelBounds' /\ CopyBounds' /\ OpBounds'
    BY <1>1, <1>2, SamePanels, SameCopies, NoOpBounds DEF ComposeBase
  <1>4. StoreInvariant'
    BY <1>1, <1>2, QuietStores DEF ComposeBase
  <1> QED
    BY <1>1, <1>2, <1>3, <1>4 DEF ComposeBase, ComposeBounded

LEMMA ServeScheduleBase ==
  ASSUME ComposeBase, NEW o \in Ops, ServeSchedule(o)
  PROVE  ComposeBase' /\ DraftsMove
  <1> DEFINE d == op[o].draftId
  <1>1. /\ ComposeTypeOK'
        /\ op[o].stage = "deliver" /\ op[o].kind \in {"schedule", "cancel"}
        /\ op[o] \in OpRows /\ d \in Drafts
        /\ stamps' = stamps + 1
        /\ OnlyDraft(d)
        /\ draft'[d].status = "draft" /\ draft'[d].text = draft[d].text
        /\ draft'[d].version = stamps'
        /\ OnlyOp(o) /\ SameClick(o)
        /\ op'[o].stage = "delivered" /\ op'[o].ok /\ op'[o].draftId = d
        /\ op'[o].version = stamps'
        /\ UNCHANGED <<panel, copies, opens, edits, mails, doubts>>
    BY ServeScheduleTyped DEF ComposeBase
  <1> HIDE DEF d
  <1>2. DraftsMove
    BY <1>1, NewVersionMove DEF ComposeBase
  <1>3. DraftBounds'
    <2>1. \A e \in Drafts : draft'[e].text <= edits
      BY <1>1 DEF OnlyDraft, ComposeBase, ComposeBounded, DraftBounds
    <2> QED
      BY <1>1, <1>2, <2>1, MoveBounds DEF ComposeBase
  <1>4. PanelBounds' /\ CopyBounds'
    BY <1>1, <1>2, SamePanels, SameCopies
  <1>5. stamps \in Nat /\ d # Null
    BY <1>1, Counters, NullAssumption DEF ComposeBase
  <1>6. OpBounds'
    <2>1. Active(o)
      BY <1>1 DEF Active
    <2>2. op'[o].version \in Nat /\ op'[o].version <= stamps' /\ op'[o].text <= edits
          /\ op'[o].mount <= opens /\ op'[o].draftId # Null
      BY <1>1, <1>5, <2>1 DEF SameClick, ComposeBase, ComposeBounded, OpBounds
    <2> QED
      BY <1>1, <1>2, <2>2, OpBoundsKept DEF ComposeBase
  <1>7. OwnVersion(o)'
    <2>1. \A e \in Drafts \ {d} : draft'[e].version # stamps'
      BY <1>1, <1>5, Counters DEF OnlyDraft, ComposeBase, ComposeBounded, DraftBounds
    <2> QED
      BY <1>1, <2>1 DEF OwnVersion
  <1>8. StoredText(o)'
    BY <1>1 DEF StoredText, HasStored
  <1>9. StoreInvariant'
    BY <1>1, <1>2, <1>7, <1>8, OneOpStores
  <1> QED
    BY <1>1, <1>2, <1>3, <1>4, <1>6, <1>9 DEF ComposeBase, ComposeBounded

LEMMA AnswerPersistBase ==
  ASSUME ComposeBase, NEW o \in Ops, AnswerPersist(o)
  PROVE  ComposeBase' /\ DraftsMove
  <1>1. /\ ComposeTypeOK'
        /\ UNCHANGED <<draft, opens, edits, stamps, mails>>
        /\ op[o] \in OpRows /\ op[o].stage = "persisted" /\ op[o].ok
        /\ op[o].draftId \in Drafts
        /\ Learns(o)
        /\ copies' = Link(op[o].work, op[o].draftId)
        /\ OnlyOp(o)
        /\ \/ op'[o] = DoneOp
           \/ /\ SameClick(o) /\ op[o].kind # "save"
              /\ op'[o].stage = "deliver" /\ ~op'[o].ok
              /\ op'[o].draftId = op[o].draftId /\ op'[o].version = op[o].version
    BY AnswerPersistTyped DEF ComposeBase
  <1>2. DraftsMove /\ DraftBounds'
    BY <1>1, SameDrafts
  <1>3. Active(o) /\ op[o].draftId # Null
    BY <1>1, NullAssumption DEF Active
  <1>4. PanelBounds'
    <2>1. \A t \in Tabs : \/ panel'[t] = panel[t]
                          \/ /\ panel'[t].open = panel[t].open /\ panel'[t].mount = panel[t].mount
                             /\ panel'[t].text = panel[t].text /\ panel'[t].work = panel[t].work
                             /\ panel'[t].version = op[o].version
      BY <1>1 DEF Learns
    <2> QED
      BY <1>1, <1>2, <1>3, <2>1, PanelBoundsKept DEF ComposeBase
  <1>5. CopyBounds'
    <2>1. copies \in Seq(CopyRows) /\ Keyed(copies) /\ op[o].draftId \in Drafts \cup {Null}
      BY <1>1 DEF ComposeBase, ComposeTypeOK, Keyed
    <2>2. /\ DOMAIN copies' = DOMAIN copies
          /\ \A i \in DOMAIN copies : /\ copies'[i].id = copies[i].id
                                      /\ copies'[i].text = copies[i].text
      BY <1>1, <2>1, LinkRows
    <2> QED
      BY <1>1, <2>2 DEF CopyBounds, ComposeBase, ComposeBounded
  <1>6. CASE op'[o] = DoneOp
    <2>1. Withdrawn(o)
      BY <1>6, DoneInactive DEF Withdrawn
    <2>2. OpBounds' /\ StoreInvariant'
      BY <1>1, <1>2, <2>1, WithdrawnBounds, WithdrawnStores
    <2> QED
      BY <1>1, <1>2, <1>4, <1>5, <2>2 DEF ComposeBase, ComposeBounded
  <1>7. CASE /\ SameClick(o) /\ op'[o].stage = "deliver" /\ ~op'[o].ok
             /\ op'[o].draftId = op[o].draftId /\ op'[o].version = op[o].version
    <2>1. /\ op[o].version \in Nat /\ op[o].version <= stamps /\ op[o].text <= edits
          /\ op[o].mount <= opens /\ stamps' = stamps
      BY <1>1, <1>3, Counters DEF ComposeBase, ComposeBounded, OpBounds
    <2>2. op'[o].version \in Nat /\ op'[o].version <= stamps' /\ op'[o].text <= edits
          /\ op'[o].mount <= opens /\ op'[o].draftId # Null
      BY <1>3, <1>7, <2>1 DEF SameClick
    <2>3. OpBounds'
      BY <1>1, <1>2, <2>2, OpBoundsKept DEF ComposeBase
    <2>4. OwnVersion(o)'
      BY <1>7 DEF OwnVersion, Fresh
    <2>5. StoredText(o)'
      <3>1. StoredText(o) /\ HasStored(o) /\ Active(o)
        BY <1>1, <1>3 DEF HasStored, ComposeBase, StoreInvariant
      <3> QED
        BY <1>1, <1>7, <3>1 DEF StoredText, SameClick
    <2>6. StoreInvariant'
      BY <1>1, <1>2, <2>4, <2>5, OneOpStores
    <2> QED
      BY <1>1, <1>2, <1>4, <1>5, <2>3, <2>6 DEF ComposeBase, ComposeBounded
  <1> QED
    BY <1>1, <1>6, <1>7

LEMMA EndsBase ==
  ASSUME ComposeBase, NEW o \in Ops, AnswerRefused(o) \/ Lose(o)
  PROVE  ComposeBase' /\ DraftsMove /\ OnlyOp(o) /\ Withdrawn(o) /\ UNCHANGED <<panel, doubts>>
  <1>1. ComposeTypeOK' /\ Ends(o)
    BY EndsTyped DEF ComposeBase
  <1>2. Withdrawn(o) /\ OnlySent /\ CopyBounds'
    BY <1>1, DoneInactive, UnchangedSent, SameCopies DEF Ends, Withdrawn
  <1>3. OnlyOp(o) /\ UNCHANGED <<stamps, opens, edits, panel, doubts>>
    BY <1>1 DEF Ends
  <1> QED
    BY <1>1, <1>2, <1>3, WithdrawnBase

LEMMA AnswerSendBase ==
  ASSUME ComposeBase, NEW o \in Ops, AnswerSend(o)
  PROVE  ComposeBase' /\ DraftsMove /\ OnlyOp(o) /\ Withdrawn(o) /\ UNCHANGED <<panel, doubts>>
  <1>1. /\ ComposeTypeOK'
        /\ op[o] \in OpRows
        /\ copies' = Without(WorkOf(o))
        /\ OnlyOp(o) /\ SameClick(o)
        /\ op'[o].stage = "closing" /\ op'[o].draftId = op[o].draftId
        /\ op'[o].version = op[o].version
        /\ UNCHANGED <<draft, panel, opens, edits, stamps, mails, doubts>>
    BY AnswerSendTyped DEF ComposeBase
  <1>2. Withdrawn(o) /\ OnlySent
    BY <1>1, ClosingWithdrawn, UnchangedSent
  <1>3. CopyBounds'
    <2>1. \A j \in DOMAIN copies' : \E i \in DOMAIN copies : copies'[j] = copies[i]
      BY <1>1, WithoutRows DEF ComposeBase, ComposeTypeOK, Keyed
    <2> QED
      BY <1>1, <2>1 DEF CopyBounds, ComposeBase, ComposeBounded
  <1> QED
    BY <1>1, <1>2, <1>3, WithdrawnBase

LEMMA CloseAfterSendBase ==
  ASSUME ComposeBase, NEW o \in Ops, CloseAfterSend(o)
  PROVE  ComposeBase' /\ DraftsMove
  <1>1. /\ ComposeTypeOK'
        /\ OnlyOp(o) /\ op'[o] = DoneOp
        /\ \A s \in Tabs \ {op[o].tab} : panel'[s] = panel[s]
        /\ panel'[op[o].tab] = ClosedPanel
        /\ UNCHANGED <<draft, copies, opens, edits, stamps, mails, doubts>>
    BY CloseAfterSendTyped DEF ComposeBase
  <1>2. DraftsMove /\ DraftBounds' /\ CopyBounds'
    BY <1>1, SameDrafts, SameCopies
  <1>3. PanelBounds'
    BY <1>1, <1>2, PanelBoundsKept DEF ComposeBase
  <1>4. Withdrawn(o)
    BY <1>1, DoneInactive DEF Withdrawn
  <1>5. OpBounds' /\ StoreInvariant'
    BY <1>1, <1>2, <1>4, WithdrawnBounds, WithdrawnStores
  <1> QED
    BY <1>1, <1>2, <1>3, <1>5 DEF ComposeBase, ComposeBounded

LEMMA AnswerScheduleBase ==
  ASSUME ComposeBase, NEW o \in Ops, AnswerSchedule(o)
  PROVE  ComposeBase' /\ DraftsMove
  <1>1. /\ ComposeTypeOK'
        /\ op[o] \in OpRows /\ op[o].stage = "delivered" /\ op[o].tab \in Tabs
        /\ OnlyOp(o) /\ op'[o] = DoneOp
        /\ \A s \in Tabs \ {op[o].tab} : panel'[s] = panel[s]
        /\ panel'[op[o].tab] = IF Mounted(o) THEN [panel[op[o].tab] EXCEPT !.version = op[o].version]
                                              ELSE panel[op[o].tab]
        /\ UNCHANGED <<draft, copies, opens, edits, stamps, mails, doubts>>
    BY AnswerScheduleTyped DEF ComposeBase
  <1>2. DraftsMove /\ DraftBounds' /\ CopyBounds'
    BY <1>1, SameDrafts, SameCopies
  <1>3. PanelBounds'
    <2>1. Active(o) /\ panel[op[o].tab] \in Panels
      BY <1>1 DEF Active, ComposeBase, ComposeTypeOK
    <2>2. \A t \in Tabs : \/ panel'[t] = panel[t]
                          \/ /\ panel'[t].open = panel[t].open /\ panel'[t].mount = panel[t].mount
                             /\ panel'[t].text = panel[t].text /\ panel'[t].work = panel[t].work
                             /\ panel'[t].version = op[o].version
      BY <1>1, <2>1 DEF Panels
    <2> QED
      BY <1>1, <1>2, <2>1, <2>2, PanelBoundsKept DEF ComposeBase
  <1>4. Withdrawn(o)
    BY <1>1, DoneInactive DEF Withdrawn
  <1>5. OpBounds' /\ StoreInvariant'
    BY <1>1, <1>2, <1>4, WithdrawnBounds, WithdrawnStores
  <1> QED
    BY <1>1, <1>2, <1>3, <1>5 DEF ComposeBase, ComposeBounded
---------------------------------------------------------------------------
(* What forms and saves know, for every step.                              *)

LEMMA NumbersStay ==
  ASSUME OwnNumbers, OnlySent
  PROVE  OwnNumbers'
  <1> SUFFICES ASSUME NEW c \in Drafts, NEW d \in Drafts, draft'[c].status = "draft",
                      draft'[d].status = "draft", draft'[c].version = draft'[d].version
               PROVE  c = d
    BY DEF OwnNumbers
  <1>1. draft[c].status = "draft" /\ draft[d].status = "draft"
    BY DEF OnlySent
  <1> QED
    BY <1>1 DEF OwnNumbers, OnlySent

LEMMA NumbersGrow ==
  ASSUME OwnNumbers, ComposeTypeOK, DraftBounds, NEW d \in Drafts, OnlyDraft(d),
         stamps' = stamps + 1, draft'[d].version = stamps'
  PROVE  OwnNumbers'
  <1>1. stamps \in Nat /\ \A e \in Drafts : draft[e].version \in Nat
    BY Counters
  <1> SUFFICES ASSUME NEW b \in Drafts, NEW c \in Drafts, draft'[b].status = "draft",
                      draft'[c].status = "draft", draft'[b].version = draft'[c].version
               PROVE  b = c
    BY DEF OwnNumbers
  <1>2. CASE b # d /\ c # d
    BY <1>2 DEF OwnNumbers, OnlyDraft
  <1>3. \A e \in Drafts \ {d} : draft'[e].version # stamps'
    BY <1>1 DEF OnlyDraft, DraftBounds
  <1> QED
    BY <1>2, <1>3

(* A form that is new to all clicks.                                       *)
LEMMA NewFormSaves ==
  ASSUME ComposeTypeOK, ComposeBounded, DraftsMove, op' = op, NEW t \in Tabs,
         \A s \in Tabs \ {t} : FormKept(s), FormKnows(t)',
         \A x \in Ops : Active(x) /\ op[x].tab = t => ~Mounted(x)', SaveInv
  PROVE  SaveInv'
  <1>1. ASSUME NEW s \in Tabs
        PROVE  FormKnows(s)'
    <2>1. CASE s # t
      <3>1. FormKept(s) /\ FormKnows(s)
        BY <2>1 DEF SaveInv
      <3> QED
        BY <3>1, FormKnowsKept DEF ComposeBounded
    <2> QED
      BY <2>1
  <1>2. ASSUME NEW x \in Ops, Active(x)
        PROVE  Mounted(x)' => FormKept(op[x].tab)
    <2>1. op[x].tab \in Tabs
      BY <1>2, ActiveRows DEF OpRows
    <2> QED
      BY <1>2, <2>1
  <1>3. ASSUME NEW x \in Ops
        PROVE  SaveKnows(x)' /\ FormsDraft(x)' /\ ScheduleKnows(x)' /\ FormStale(x)'
    <2>0. SaveKnows(x) /\ FormsDraft(x) /\ ScheduleKnows(x) /\ FormStale(x) /\ op'[x] = op[x]
      BY DEF SaveInv
    <2>1. CASE Active(x)
      <3>1. SaveKnows(x)' /\ ScheduleKnows(x)' /\ FormStale(x)'
        BY <2>0, <2>1, <1>2, SaveKnowsKept, ScheduleKnowsKept, FormStaleKept DEF ComposeBounded
      <3>2. FormsDraft(x)'
        BY <2>0, <2>1, <1>2, FormsDraftKept DEF FormsDraft
      <3> QED
        BY <3>1, <3>2
    <2>2. CASE ~Active(x)
      BY <2>0, <2>2 DEF Active, SaveKnows, FormsDraft, ScheduleKnows, FormStale, Wins
    <2> QED
      BY <2>1, <2>2
  <1>4. ASSUME NEW x \in Ops, NEW p \in Ops
        PROVE  Stale(x, p)'
    <2>0. Stale(x, p) /\ op'[x] = op[x] /\ op'[p] = op[p]
      BY DEF SaveInv
    <2>1. CASE Active(x)
      BY <2>0, <2>1, <1>2, StaleKept DEF ComposeBounded
    <2>2. CASE ~Active(x)
      BY <2>0, <2>2 DEF Stale, Wins, Active
    <2> QED
      BY <2>1, <2>2
  <1> QED
    BY <1>1, <1>3, <1>4 DEF SaveInv

LEMMA OpenSaves ==
  ASSUME ComposeBase, SaveInv, NEW t \in Tabs, NEW d \in Drafts \cup {Null}, Open(t, d)
  PROVE  SaveInv'
  <1>1. /\ OnlyPanel(t)
        /\ panel'[t] = [ClosedPanel EXCEPT !.open = TRUE, !.mount = opens + 1, !.intent = d,
                           !.draftId = d, !.work = opens + 1, !.recovered = d # Null,
                           !.timer = d # Null, !.about = d]
    BY OpenTyped DEF ComposeBase
  <1>2. /\ panel'[t].mount = opens + 1 /\ panel'[t].about = d /\ panel'[t].draftId = d
        /\ panel'[t].version = 0 /\ panel'[t].base = 0
    BY <1>1 DEF ClosedPanel
  <1>3. DraftsMove /\ op' = op /\ draft' = draft /\ \A s \in Tabs \ {t} : FormKept(s)
    BY <1>1, DraftsStay DEF OnlyPanel, FormKept, ComposeBase
  <1>4. FormKnows(t)'
    <2>1. \A e \in Drafts : draft[e].status = "draft" => draft[e].version # 0
      BY DEF ComposeBase, ComposeBounded, DraftBounds
    <2> QED
      BY <1>2, <1>3, <2>1 DEF FormKnows
  <1>5. ASSUME NEW x \in Ops, Active(x), op[x].tab = t
        PROVE  ~Mounted(x)'
    <2>1. op[x].mount \in Nat /\ op[x].mount <= opens /\ opens \in Nat
      BY <1>5, ActiveRows, Counters DEF ComposeBase, ComposeBounded, OpBounds
    <2> QED
      BY <1>2, <1>3, <1>5, <2>1 DEF Mounted
  <1> QED
    BY <1>3, <1>4, <1>5, NewFormSaves DEF ComposeBase

(* A form that is filled while no request of its tab is under way.         *)
LEMMA QuietTab ==
  ASSUME NEW t \in Tabs, Filling(t) \subseteq doubts', "save" \notin doubts'
  PROVE  \A x \in Ops : ~(Active(x) /\ op[x].tab = t)
  BY DEF Filling

LEMMA FetchSaves ==
  ASSUME ComposeBase, OwnNumbers, SaveInv, NEW t \in Tabs, Fetch(t), "save" \notin doubts'
  PROVE  SaveInv'
  <1> DEFINE d == panel[t].intent
  <1>1. /\ OnlyPanel(t)
        /\ panel[t].open
        /\ d \in Drafts /\ draft[d].status = "draft"
        /\ \/ panel'[t] = [panel[t] EXCEPT !.shown = draft[d].scheduled]
           \/ panel'[t] = Filled(t) /\ Filling(t) \subseteq doubts'
    BY DraftFetchTyped DEF ComposeBase
  <1>2. DraftsMove /\ op' = op /\ draft' = draft /\ \A s \in Tabs \ {t} : FormKept(s)
    BY <1>1, DraftsStay DEF OnlyPanel, FormKept, ComposeBase
  <1>3. panel[t] \in Panels
    BY DEF ComposeBase, ComposeTypeOK
  <1> HIDE DEF d
  <1>4. CASE panel'[t] = [panel[t] EXCEPT !.shown = draft[d].scheduled]
    <2>1. FormKept(t)
      BY <1>1, <1>3, <1>4 DEF Panels, FormKept
    <2>2. \A s \in Tabs : FormKept(s)
      BY <1>2, <2>1
    <2> QED
      BY <1>2, <2>2, QuietSaves DEF ComposeBase
  <1>5. CASE panel'[t] = Filled(t) /\ Filling(t) \subseteq doubts'
    <2>1. /\ panel'[t].about = d /\ panel'[t].draftId = d
          /\ panel'[t].version = draft[d].version /\ panel'[t].base = draft[d].text
      BY <1>3, <1>5 DEF Filled, Panels, d
    <2>2. FormKnows(t)'
      BY <1>1, <1>2, <2>1 DEF FormKnows, OwnNumbers
    <2>3. \A x \in Ops : Active(x) /\ op[x].tab = t => ~Mounted(x)'
      BY <1>5, QuietTab
    <2> QED
      BY <1>2, <2>2, <2>3, NewFormSaves DEF ComposeBase
  <1> QED
    BY <1>1, <1>4, <1>5

LEMMA RecoverSaves ==
  ASSUME ComposeBase, SaveInv, NEW t \in Tabs, Recover(t), "save" \notin doubts'
  PROVE  SaveInv'
  <1>1. /\ OnlyPanel(t)
        /\ panel[t].open
        /\ \/ panel'[t] = [panel[t] EXCEPT !.restored = TRUE, !.recovered = TRUE, !.timer = TRUE]
           \/ \E i \in DOMAIN copies :
                  /\ panel'[t] = [panel[t] EXCEPT !.restored = TRUE, !.recovered = TRUE,
                                    !.timer = TRUE, !.text = copies[i].text,
                                    !.draftId = copies[i].draftId,
                                    !.work = copies[i].id, !.about = copies[i].draftId]
                  /\ Filling(t) \subseteq doubts'
    BY RecoverTyped DEF ComposeBase
  <1>2. DraftsMove /\ op' = op /\ draft' = draft /\ \A s \in Tabs \ {t} : FormKept(s)
    BY <1>1, DraftsStay DEF OnlyPanel, FormKept, ComposeBase
  <1>3. panel[t] \in Panels
    BY DEF ComposeBase, ComposeTypeOK
  <1>4. CASE panel'[t] = [panel[t] EXCEPT !.restored = TRUE, !.recovered = TRUE, !.timer = TRUE]
    <2>1. FormKept(t)
      BY <1>1, <1>3, <1>4 DEF Panels, FormKept
    <2>2. \A s \in Tabs : FormKept(s)
      BY <1>2, <2>1
    <2> QED
      BY <1>2, <2>2, QuietSaves DEF ComposeBase
  <1>5. CASE \E i \in DOMAIN copies :
                  /\ panel'[t] = [panel[t] EXCEPT !.restored = TRUE, !.recovered = TRUE,
                                    !.timer = TRUE, !.text = copies[i].text,
                                    !.draftId = copies[i].draftId,
                                    !.work = copies[i].id, !.about = copies[i].draftId]
                  /\ Filling(t) \subseteq doubts'
    <2>1. PICK c : panel'[t] = [panel[t] EXCEPT !.restored = TRUE, !.recovered = TRUE,
                                    !.timer = TRUE, !.text = c.text, !.draftId = c.draftId,
                                    !.work = c.id, !.about = c.draftId]
                   /\ Filling(t) \subseteq doubts'
      BY <1>5
    <2>2. /\ panel'[t].about = c.draftId /\ panel'[t].draftId = c.draftId
          /\ panel'[t].version = panel[t].version /\ panel'[t].base = panel[t].base
      BY <1>3, <2>1 DEF Panels
    <2>3. FormKnows(t)'
      <3>1. FormKnows(t)
        BY DEF SaveInv
      <3> QED
        BY <1>1, <1>2, <2>2, <3>1 DEF FormKnows
    <2>4. \A x \in Ops : Active(x) /\ op[x].tab = t => ~Mounted(x)'
      BY <2>1, QuietTab
    <2> QED
      BY <1>2, <2>3, <2>4, NewFormSaves DEF ComposeBase
  <1> QED
    BY <1>1, <1>4, <1>5

(* Steps of a form that leave its draft alone.                             *)
LEMMA QuietFormSaves ==
  ASSUME ComposeBase, SaveInv, NEW t \in Tabs,
         \/ \E d \in Drafts \cup {Null} : Switch(t, d)
         \/ Type(t) \/ Close(t) \/ Autosave(t)
  PROVE  SaveInv'
  <1>1. /\ OnlyPanel(t)
        /\ \/ \E d \in Drafts \cup {Null} : panel[t].open
                 /\ panel'[t] = [panel[t] EXCEPT !.intent = d, !.shown = FALSE]
           \/ panel[t].open /\ panel'[t] = [panel[t] EXCEPT !.text = edits + 1, !.timer = TRUE]
           \/ panel'[t] = ClosedPanel
           \/ panel[t].open /\ panel'[t] = [panel[t] EXCEPT !.timer = FALSE]
    <2>1. ASSUME NEW d \in Drafts \cup {Null}, Switch(t, d)
          PROVE  OnlyPanel(t) /\ panel[t].open
                 /\ panel'[t] = [panel[t] EXCEPT !.intent = d, !.shown = FALSE]
      <3>1. panel[t].open
        BY <2>1 DEF Switch
      <3> QED
        BY <2>1, <3>1, SwitchTyped DEF ComposeBase
    <2> QED
      BY <2>1, TypeTyped, CloseTyped, AutosaveTyped DEF ComposeBase
  <1>2. panel[t] \in Panels
    BY DEF ComposeBase, ComposeTypeOK
  <1>3. FormKept(t)
    <2>1. ClosedPanel.open = FALSE
      BY DEF ClosedPanel
    <2>2. CASE panel'[t] = ClosedPanel
      BY <2>1, <2>2 DEF FormKept
    <2>3. ASSUME NEW d \in Drafts \cup {Null}, panel[t].open,
                 panel'[t] = [panel[t] EXCEPT !.intent = d, !.shown = FALSE]
          PROVE  FormKept(t)
      BY <1>2, <2>3 DEF Panels, FormKept
    <2>4. CASE panel[t].open /\ panel'[t] = [panel[t] EXCEPT !.text = edits + 1, !.timer = TRUE]
      BY <1>2, <2>4 DEF Panels, FormKept
    <2>5. CASE panel[t].open /\ panel'[t] = [panel[t] EXCEPT !.timer = FALSE]
      BY <1>2, <2>5 DEF Panels, FormKept
    <2> QED
      BY <1>1, <2>2, <2>3, <2>4, <2>5
  <1>4. DraftsMove /\ op' = op /\ \A s \in Tabs : FormKept(s)
    BY <1>1, <1>3, DraftsStay DEF OnlyPanel, FormKept, ComposeBase
  <1> QED
    BY <1>4, QuietSaves DEF ComposeBase
(* One click moves, and no form does: the other clicks know what they knew. *)
LEMMA OneOpSaves ==
  ASSUME ComposeTypeOK, ComposeBounded, DraftsMove, panel' = panel, NEW o \in Ops, OnlyOp(o),
         SaveKnows(o)', FormsDraft(o)', ScheduleKnows(o)', FormStale(o)',
         \A x \in Ops \ {o} : Stale(o, x)' /\ Stale(x, o)', SaveInv
  PROVE  SaveInv'
  <1>0. \A t \in Tabs : FormKept(t)
    BY DEF FormKept
  <1>1. ASSUME NEW t \in Tabs
        PROVE  FormKnows(t)'
    BY <1>0, FormKnowsKept DEF SaveInv, ComposeBounded
  <1>2. ASSUME NEW x \in Ops
        PROVE  SaveKnows(x)' /\ FormsDraft(x)' /\ ScheduleKnows(x)' /\ FormStale(x)'
    <2>1. CASE x = o
      BY <2>1
    <2>2. CASE x # o
      <3>1. SaveKnows(x) /\ FormsDraft(x) /\ ScheduleKnows(x) /\ FormStale(x) /\ op'[x] = op[x]
        BY <2>2 DEF SaveInv, OnlyOp
      <3>2. FormKept(op[x].tab)
        BY DEF FormKept
      <3> QED
        BY <3>1, <3>2, SaveKnowsKept, FormsDraftKept, ScheduleKnowsKept, FormStaleKept
        DEF ComposeBounded
    <2> QED
      BY <2>1, <2>2
  <1>3. ASSUME NEW x \in Ops, NEW p \in Ops
        PROVE  Stale(x, p)'
    <2>1. CASE x # o /\ p # o
      <3>1. Stale(x, p) /\ op'[x] = op[x] /\ op'[p] = op[p] /\ FormKept(op[x].tab)
        BY <2>1 DEF SaveInv, OnlyOp, FormKept
      <3> QED
        BY <3>1, StaleKept DEF ComposeBounded
    <2>2. CASE x = p
      BY <2>2 DEF Stale
    <2> QED
      BY <2>1, <2>2
  <1> QED
    BY <1>1, <1>2, <1>3 DEF SaveInv

LEMMA ClickSaves ==
  ASSUME ComposeBase, SaveInv, NEW o \in Ops, NEW t \in Tabs, NEW kind \in Kinds,
         Click(o, t, kind)
  PROVE  SaveInv'
  <1>1. /\ UNCHANGED <<draft, panel, copies, opens, edits, stamps, mails, doubts>>
        /\ OnlyOp(o)
        /\ panel[t].open
        /\ op'[o].stage = FirstStage(panel[t], kind) /\ op'[o].tab = t
        /\ op'[o].draftId = panel[t].draftId /\ op'[o].version = panel[t].version
        /\ op'[o].base = panel[t].base /\ op'[o].about = panel[t].about
    <2>1. op'[o] = [stage |-> FirstStage(panel[t], kind), kind |-> kind, tab |-> t,
                    mount |-> panel[t].mount, draftId |-> panel[t].draftId,
                    version |-> panel[t].version, text |-> panel[t].text,
                    work |-> panel[t].work, ok |-> FALSE, base |-> panel[t].base,
                    about |-> panel[t].about]
      BY ClickTyped DEF ComposeBase
    <2>2. /\ UNCHANGED <<draft, panel, copies, opens, edits, stamps, mails, doubts>>
          /\ OnlyOp(o)
          /\ panel[t].open
      BY ClickTyped DEF ComposeBase
    <2> QED
      BY <2>1, <2>2
  <1>2. DraftsMove
    BY <1>1, DraftsStay DEF ComposeBase
  <1>3. op'[o].stage \in {"persist", "deliver"} /\ op'[o].draftId \in Drafts \cup {Null}
    BY <1>1 DEF FirstStage, ComposeBase, ComposeTypeOK, Panels
  <1>4. FormKnows(t)
    BY DEF SaveInv
  <1>5. Matches(o)' => draft'[op'[o].draftId].text = panel[t].base
    BY <1>1, <1>3, <1>4 DEF Matches, FormKnows
  <1>6. SaveKnows(o)' /\ FormsDraft(o)' /\ ScheduleKnows(o)'
    BY <1>1, <1>4, <1>5 DEF SaveKnows, FormsDraft, ScheduleKnows, FormKnows, Mounted
  <1>7. ~Wins(o)'
    BY <1>3 DEF Wins
  <1>8. ASSUME NEW x \in Ops \ {o}
        PROVE  Stale(x, o)'
    <2> SUFFICES ASSUME Wins(x)', op'[x].tab = t
                 PROVE  op'[o].version # draft'[op'[x].draftId].version
      BY <1>1, <1>7 DEF Stale
    <2>1. Wins(x) /\ op'[x] = op[x] /\ FormStale(x)
      BY <1>1 DEF Wins, OnlyOp, Mounted, SaveInv
    <2> QED
      BY <1>1, <2>1 DEF FormStale
  <1> QED
    BY <1>1, <1>2, <1>6, <1>7, <1>8, OneOpSaves DEF FormStale, Stale, ComposeBase

(* A save that is accepted has no rival that was accepted before it.       *)
LEMMA StoresWins ==
  ASSUME ComposeBase, SaveInv, NEW o \in Ops, NEW d \in Drafts, Stores(o, d),
         NEW x \in Ops \ {o}, op[x].tab = op[o].tab, op[x].draftId = d, Mounted(o), Wins(x)
  PROVE  FALSE
  <1>1. Active(x) /\ Fresh(x) /\ Active(o)
    BY DEF Wins, Fresh, Active, Stores
  <1>2. CASE op[o].draftId = Null /\ draft[d].status = "none"
    BY <1>1, <1>2 DEF ComposeBase, StoreInvariant, OwnVersion
  <1>3. CASE op[o].draftId = d /\ Matches(o)
    <2>1. Stale(x, o) /\ op[o].stage = "persist"
      BY DEF SaveInv, Stores
    <2> QED
      BY <1>1, <1>3, <2>1 DEF Stale, Matches
  <1> QED
    BY <1>2, <1>3 DEF Stores

LEMMA StoresSaves ==
  ASSUME ComposeBase, SaveInv, NEW o \in Ops, NEW d \in Drafts, Stores(o, d)
  PROVE  SaveInv'
  <1>1. /\ DraftsMove /\ OnlyOp(o) /\ SameClick(o) /\ panel' = panel
        /\ draft'[d].version = stamps' /\ stamps' = stamps + 1
        /\ op'[o].stage = "persisted" /\ op'[o].draftId = d
    BY NewVersionMove DEF ComposeBase, Stores
  <1>2. SaveKnows(o)' /\ FormsDraft(o)' /\ ScheduleKnows(o)'
    BY <1>1 DEF SaveKnows, FormsDraft, ScheduleKnows, Scheduling
  <1>3. stamps \in Nat /\ \A t \in Tabs : panel[t].version \in Nat /\ panel[t].version <= stamps
    BY Counters DEF ComposeBase, ComposeBounded, PanelBounds
  <1>4. op[o].tab \in Tabs /\ op'[o].tab = op[o].tab /\ (Mounted(o)' => Mounted(o))
    BY <1>1 DEF Stores, OpRows, SameClick, Mounted
  <1>5. FormStale(o)'
    BY <1>1, <1>3, <1>4 DEF FormStale
  <1>6. ASSUME NEW x \in Ops \ {o}
        PROVE  Stale(o, x)'
    <2> SUFFICES ASSUME Wins(o)', Active(x)', op'[x].tab = op'[o].tab, Mounted(x)',
                        op'[x].draftId = d
                 PROVE  /\ ~Wins(x)'
                        /\ op'[x].version # draft'[d].version
      BY <1>1 DEF Stale
    <2>1. op'[x] = op[x] /\ Mounted(o) /\ Active(x)
      BY <1>1, <1>4 DEF OnlyOp, Wins, Active
    <2>2. op[x].version \in Nat /\ op[x].version <= stamps
      BY <2>1, ActiveRows, Counters DEF ComposeBase, ComposeBounded, OpBounds
    <2>3. ~Wins(x)
      BY <2>1, <1>4, StoresWins
    <2>4. ~Wins(x)'
      BY <1>1, <2>1, <2>3 DEF Wins, Mounted
    <2> QED
      BY <1>1, <1>3, <2>1, <2>2, <2>4
  <1>7. ASSUME NEW x \in Ops \ {o}
        PROVE  Stale(x, o)'
    <2> SUFFICES ASSUME Wins(x)', op'[o].tab = op'[x].tab, Mounted(o)', op'[x].draftId = d
                 PROVE  FALSE
      BY <1>1 DEF Stale
    <2>1. op'[x] = op[x] /\ Mounted(o)
      BY <1>1, <1>4 DEF OnlyOp
    <2>2. Wins(x)
      BY <1>1, <2>1 DEF Wins, Mounted
    <2> QED
      BY <1>4, <2>1, <2>2, StoresWins
  <1> QED
    BY <1>1, <1>2, <1>5, <1>6, <1>7, OneOpSaves DEF ComposeBase

LEMMA ServeScheduleSaves ==
  ASSUME ComposeBase, SaveInv, NEW o \in Ops, ServeSchedule(o)
  PROVE  SaveInv'
  <1> DEFINE d == op[o].draftId
  <1>1. /\ op[o].stage = "deliver" /\ op[o].kind \in {"schedule", "cancel"}
        /\ op[o] \in OpRows /\ Matches(o)
        /\ d \in Drafts
        /\ draft'[d].text = draft[d].text
        /\ OnlyOp(o) /\ SameClick(o)
        /\ op'[o].stage = "delivered" /\ op'[o].draftId = d
        /\ panel' = panel
    BY ServeScheduleTyped DEF ComposeBase
  <1>2. DraftsMove
    BY ServeScheduleBase
  <1>3. Active(o) /\ Scheduling(o)
    BY <1>1 DEF Active, Scheduling
  <1>4. op'[o].tab = op[o].tab /\ (Mounted(o)' => Mounted(o))
    BY <1>1 DEF SameClick, Mounted
  <1>5. ~Wins(o)' /\ SaveKnows(o)'
    BY <1>1 DEF Wins, SaveKnows
  <1>6. FormsDraft(o)'
    <2>1. FormsDraft(o)
      BY DEF SaveInv
    <2> QED
      BY <1>1, <1>4, <2>1 DEF FormsDraft
  <1>7. ScheduleKnows(o)'
    <2>1. ScheduleKnows(o)
      BY DEF SaveInv
    <2> QED
      BY <1>1, <1>3, <1>4, <2>1 DEF ScheduleKnows
  <1>8. ASSUME NEW x \in Ops \ {o}
        PROVE  Stale(x, o)'
    <2> SUFFICES ASSUME Wins(x)', op'[o].tab = op'[x].tab, Mounted(o)', op'[x].draftId = d
                 PROVE  FALSE
      BY <1>1 DEF Stale
    <2>1. op'[x] = op[x] /\ Mounted(o) /\ Stale(x, o)
      BY <1>1, <1>4 DEF OnlyOp, SaveInv
    <2>2. Wins(x)
      BY <1>1, <2>1 DEF Wins, Mounted
    <2> QED
      BY <1>1, <1>3, <1>4, <2>1, <2>2 DEF Stale, Matches
  <1> QED
    BY <1>1, <1>2, <1>5, <1>6, <1>7, <1>8, OneOpSaves DEF FormStale, Stale, ComposeBase

(* Steps after which a click is withdrawn, or none moves.                  *)
LEMMA QuietOpSaves ==
  ASSUME ComposeBase, SaveInv,
         \/ \E o \in Ops : \/ Refuse(o, "persist", "persisted")
                           \/ Refuse(o, "deliver", "delivered")
                           \/ ServeMessage(o) \/ ServeSend(o)
                           \/ AnswerRefused(o) \/ Lose(o)
                           \/ AnswerSend(o) \/ CloseAfterSend(o)
         \/ \E d \in Drafts : Deliver(d)
  PROVE  SaveInv'
  <1>1. CASE \E d \in Drafts : Deliver(d)
    <2>1. DraftsMove /\ op' = op /\ panel' = panel
      BY <1>1, DeliverBase
    <2>2. (\A x \in Ops : op'[x] = op[x]) /\ \A s \in Tabs : FormKept(s)
      BY <2>1 DEF FormKept
    <2> QED
      BY <2>1, <2>2, QuietSaves DEF ComposeBase
  <1>2. ASSUME NEW o \in Ops,
               \/ Refuse(o, "persist", "persisted")
               \/ Refuse(o, "deliver", "delivered")
               \/ ServeMessage(o) \/ ServeSend(o)
               \/ AnswerRefused(o) \/ Lose(o)
               \/ AnswerSend(o)
        PROVE  SaveInv'
    <2>1. DraftsMove /\ OnlyOp(o) /\ Withdrawn(o) /\ panel' = panel
      BY <1>2, RefuseBase, SendsBase, EndsBase, AnswerSendBase DEF Sends
    <2>2. (\A x \in Ops : op'[x] = op[x] \/ Withdrawn(x)) /\ \A s \in Tabs : FormKept(s)
      BY <2>1 DEF FormKept, OnlyOp
    <2> QED
      BY <2>1, <2>2, QuietSaves DEF ComposeBase
  <1>3. ASSUME NEW o \in Ops, CloseAfterSend(o)
        PROVE  SaveInv'
    <2>1. /\ DraftsMove /\ OnlyOp(o) /\ op'[o] = DoneOp
          /\ \A s \in Tabs \ {op[o].tab} : panel'[s] = panel[s]
          /\ panel'[op[o].tab] = ClosedPanel
      BY <1>3, CloseAfterSendBase, CloseAfterSendTyped DEF ComposeBase
    <2>2. \A x \in Ops : op'[x] = op[x] \/ Withdrawn(x)
      BY <2>1, DoneInactive DEF OnlyOp, Withdrawn
    <2>3. \A s \in Tabs : FormKept(s)
      BY <2>1 DEF FormKept, ClosedPanel
    <2> QED
      BY <2>1, <2>2, <2>3, QuietSaves DEF ComposeBase
  <1> QED
    BY <1>1, <1>2, <1>3
(* A form learns the version of its save: nobody else's is that version.   *)
LEMMA LearnSaves ==
  ASSUME ComposeBase, SaveInv, NEW o \in Ops, AnswerPersist(o), Mounted(o),
         "save" \notin doubts'
  PROVE  SaveInv'
  <1> DEFINE t == op[o].tab
             d == op[o].draftId
             v == op[o].version
  <1>1. /\ draft' = draft
        /\ op[o] \in OpRows /\ op[o].stage = "persisted" /\ op[o].ok
        /\ d \in Drafts
        /\ Learns(o) /\ OnlyOp(o)
        /\ \/ op'[o] = DoneOp
           \/ /\ SameClick(o) /\ op[o].kind # "save"
              /\ op'[o].stage = "deliver" /\ ~op'[o].ok
              /\ op'[o].draftId = d /\ op'[o].version = v
        /\ ~Second(o)
    BY AnswerPersistTyped DEF ComposeBase
  <1>2. DraftsMove
    BY AnswerPersistBase
  <1>3. t \in Tabs /\ d # Null /\ Active(o) /\ Wins(o) /\ Fresh(o) /\ HasStored(o)
    BY <1>1, NullAssumption DEF OpRows, Active, Wins, Fresh, HasStored
  <1>4. panel[t].draftId \in {Null, d} /\ panel[t].open
    BY <1>1 DEF Second, Mounted
  <1>5. /\ \A s \in Tabs \ {t} : panel'[s] = panel[s]
        /\ panel'[t].open = panel[t].open /\ panel'[t].mount = panel[t].mount
        /\ panel'[t].draftId = d /\ panel'[t].version = v /\ panel'[t].base = op[o].text
        /\ panel'[t].about = IF panel[t].about = Null THEN d ELSE panel[t].about
    BY <1>1 DEF Learns
  <1>6. \A s \in Tabs \ {t} : FormKept(s)
    BY <1>5 DEF FormKept
  (* The only draft of that version is the one that was saved. *)
  <1>7. \A e \in Drafts : draft[e].version = v => e = d /\ draft[e].text = op[o].text
    BY <1>1, <1>3 DEF ComposeBase, StoreInvariant, OwnVersion, StoredText
  <1>8. \A x \in Ops \ {o} : op'[x] = op[x]
    BY <1>1 DEF OnlyOp
  <1>9. \A x \in Ops \ {o} : Active(x) => (Mounted(x)' <=> Mounted(x))
    <2> SUFFICES ASSUME NEW x \in Ops \ {o}, Active(x)
                 PROVE  Mounted(x)' <=> Mounted(x)
      OBVIOUS
    <2>1. op[x].tab \in Tabs
      BY ActiveRows DEF OpRows, ComposeBase
    <2> QED
      BY <1>5, <1>8, <2>1 DEF Mounted
  <1> HIDE DEF t, d, v
  <1>10. ASSUME NEW s \in Tabs
         PROVE  FormKnows(s)'
    <2>1. FormKnows(s)
      BY DEF SaveInv
    <2>2. CASE s # t
      BY <2>1, <2>2, <1>2, <1>6, FormKnowsKept DEF ComposeBase, ComposeBounded
    <2>3. CASE s = t
      <3>1. panel'[t].about = d
        BY <1>4, <1>5, <2>1, <2>3 DEF FormKnows
      <3> QED
        BY <1>1, <1>5, <1>7, <2>3, <3>1 DEF FormKnows
    <2> QED
      BY <2>2, <2>3
  (* No other click of the form was accepted, or names the draft's version. *)
  <1>11. ASSUME NEW x \in Ops \ {o}, Active(x), op[x].tab = t, Mounted(x), op[x].draftId = d
         PROVE  /\ ~Wins(x)
                /\ op[x].stage = "persist" \/ Scheduling(x) => op[x].version # draft[d].version
    BY <1>3, <1>11 DEF SaveInv, Stale, t, d
  <1>12. ASSUME NEW x \in Ops \ {o}, Active(x)
         PROVE  SaveKnows(x)' /\ FormsDraft(x)' /\ ScheduleKnows(x)' /\ FormStale(x)'
    <2>0. SaveKnows(x) /\ FormsDraft(x) /\ ScheduleKnows(x) /\ FormStale(x) /\ op'[x] = op[x]
      BY <1>8 DEF SaveInv
    <2>1. op[x] \in OpRows /\ op[x].tab \in Tabs
      BY <1>12, ActiveRows DEF OpRows, ComposeBase
    <2>2. SaveKnows(x)'
      BY <2>0, <1>2, SaveKnowsKept DEF ComposeBase, ComposeBounded
    <2>3. CASE op[x].tab # t
      <3>1. FormKept(op[x].tab)
        BY <1>6, <2>1, <2>3
      <3> QED
        BY <2>0, <2>2, <3>1, <1>2, FormsDraftKept, ScheduleKnowsKept, FormStaleKept
        DEF ComposeBase, ComposeBounded
    <2>4. CASE op[x].tab = t
      <3>1. FormsDraft(x)'
        BY <2>0, <2>4, <1>4, <1>5, <1>9, <1>12 DEF FormsDraft
      <3>2. ScheduleKnows(x)'
        <4> SUFFICES ASSUME Scheduling(x), Mounted(x), Matches(x)
                     PROVE  FALSE
          BY <2>0, <1>1, <1>9, <1>12 DEF ScheduleKnows, Scheduling, Matches
        <4>1. op[x].draftId = d
          BY <2>0, <2>4, <1>4 DEF FormsDraft, Scheduling, Matches
        <4> QED
          BY <1>11, <1>12, <2>4, <4>1 DEF Matches
      <3>3. FormStale(x)'
        <4> SUFFICES ASSUME Wins(x)
                     PROVE  draft[op[x].draftId].version # v
          BY <2>0, <2>4, <1>1, <1>5, <1>9, <1>12 DEF FormStale, Wins
        <4>1. op[x].draftId \in Drafts /\ Mounted(x)
          BY <2>1, <1>12 DEF Wins, Fresh, OpRows, ComposeBase, ComposeBounded, OpBounds
        <4>2. op[x].draftId # d
          BY <1>11, <1>12, <2>4, <4>1
        <4> QED
          BY <1>7, <4>1, <4>2
      <3> QED
        BY <2>2, <3>1, <3>2, <3>3
    <2> QED
      BY <2>3, <2>4
  <1>13. ASSUME NEW x \in Ops \ {o}, ~Active(x)
         PROVE  SaveKnows(x)' /\ FormsDraft(x)' /\ ScheduleKnows(x)' /\ FormStale(x)'
    BY <1>8, <1>13 DEF Active, SaveKnows, FormsDraft, ScheduleKnows, FormStale, Wins
  <1>14. SaveKnows(o)' /\ FormsDraft(o)' /\ ScheduleKnows(o)' /\ ~Wins(o)'
    <2>1. CASE op'[o] = DoneOp
      BY <2>1 DEF DoneOp, Active, SaveKnows, FormsDraft, ScheduleKnows, Wins
    <2>2. CASE SameClick(o) /\ op'[o].stage = "deliver" /\ op'[o].draftId = d /\ op'[o].version = v
      <3>1. op'[o].tab = t
        BY <2>2 DEF SameClick, t
      <3>2. SaveKnows(o)' /\ ~Wins(o)' /\ FormsDraft(o)'
        BY <2>2, <3>1, <1>5 DEF SaveKnows, Wins, FormsDraft
      <3>3. ScheduleKnows(o)'
        BY <2>2, <3>1, <1>1, <1>5, <1>7 DEF ScheduleKnows, Matches
      <3> QED
        BY <3>2, <3>3
    <2> QED
      BY <1>1, <2>1, <2>2
  <1>15. ASSUME NEW x \in Ops, NEW p \in Ops
         PROVE  Stale(x, p)'
    <2>1. CASE x = o
      BY <2>1, <1>14 DEF Stale
    <2>2. CASE x # o /\ ~Active(x)
      BY <2>2, <1>8 DEF Stale, Wins, Active
    <2>3. CASE x # o /\ Active(x) /\ p # o
      <3>1. Stale(x, p) /\ op'[x] = op[x] /\ op'[p] = op[p]
        BY <2>3, <1>8 DEF SaveInv
      <3> SUFFICES ASSUME Wins(x)', p # x, Active(p), op[p].tab = op[x].tab, Mounted(p)',
                          op[p].draftId = op[x].draftId
                   PROVE  /\ ~Wins(p)'
                          /\ op[p].stage = "persist" \/ Scheduling(p)
                             => op[p].version # draft[op[x].draftId].version
        BY <3>1, <1>1 DEF Stale, Active, Scheduling
      <3>2. Mounted(x) /\ Mounted(p) /\ Wins(x)
        BY <2>3, <3>1, <1>9 DEF Wins
      <3>3. Wins(p)' => Wins(p)
        BY <2>3, <3>1, <3>2 DEF Wins
      <3> QED
        BY <3>1, <3>2, <3>3 DEF Stale
    <2>4. CASE x # o /\ Active(x) /\ p = o
      <3> SUFFICES ASSUME Wins(x)', Active(o)', op'[o].tab = op[x].tab,
                          op'[o].draftId = op[x].draftId
                   PROVE  FALSE
        BY <2>4, <1>8 DEF Stale
      <3>1. SameClick(o) /\ op'[o].draftId = d
        BY <1>1, DoneInactive
      <3>2. Mounted(x) /\ Wins(x) /\ op[x].tab = t
        BY <2>4, <3>1, <1>8, <1>9 DEF Wins, SameClick, t
      <3> QED
        BY <2>4, <3>1, <3>2, <1>11
    <2> QED
      BY <2>1, <2>2, <2>3, <2>4
  <1> QED
    BY <1>10, <1>12, <1>13, <1>14, <1>15 DEF SaveInv, FormStale

LEMMA AnswerPersistSaves ==
  ASSUME ComposeBase, SaveInv, NEW o \in Ops, AnswerPersist(o), "save" \notin doubts'
  PROVE  SaveInv'
  <1>1. CASE Mounted(o)
    BY <1>1, LearnSaves
  <1>2. CASE ~Mounted(o)
    <2>1. /\ draft' = draft
          /\ op[o] \in OpRows /\ op[o].stage = "persisted"
          /\ Learns(o) /\ OnlyOp(o)
          /\ \/ op'[o] = DoneOp
             \/ SameClick(o) /\ op'[o].stage = "deliver"
      BY AnswerPersistTyped DEF ComposeBase
    <2>2. DraftsMove
      BY AnswerPersistBase
    <2>3. panel' = panel
      BY <1>2 DEF AnswerPersist, Learn
    <2>4. ~Active(o)' \/ (~Mounted(o)' /\ op'[o].stage = "deliver")
      BY <1>2, <2>1, <2>3, DoneInactive DEF SameClick, Mounted
    <2>5. SaveKnows(o)' /\ FormsDraft(o)' /\ ScheduleKnows(o)' /\ ~Wins(o)'
      BY <2>4 DEF Active, SaveKnows, FormsDraft, ScheduleKnows, Wins
    <2>6. \A x \in Ops \ {o} : Stale(o, x)' /\ Stale(x, o)'
      BY <2>4, <2>5 DEF Stale
    <2> QED
      BY <2>1, <2>2, <2>3, <2>5, <2>6, OneOpSaves DEF FormStale, ComposeBase
  <1> QED
    BY <1>1, <1>2

(* A form learns the version of its schedule.                              *)
LEMMA AnswerScheduleSaves ==
  ASSUME ComposeBase, SaveInv, NEW o \in Ops, AnswerSchedule(o)
  PROVE  SaveInv'
  <1> DEFINE t == op[o].tab
             d == op[o].draftId
             v == op[o].version
  <1>1. /\ op[o] \in OpRows /\ op[o].stage = "delivered" /\ op[o].ok
        /\ op[o].kind \in {"schedule", "cancel"} /\ t \in Tabs
        /\ OnlyOp(o) /\ op'[o] = DoneOp
        /\ \A s \in Tabs \ {t} : panel'[s] = panel[s]
        /\ panel'[t] = IF Mounted(o) THEN [panel[t] EXCEPT !.version = v] ELSE panel[t]
        /\ draft' = draft
    BY AnswerScheduleTyped DEF ComposeBase
  <1>2. DraftsMove
    BY AnswerScheduleBase
  <1>3. \A x \in Ops : op'[x] = op[x] \/ Withdrawn(x)
    BY <1>1, DoneInactive DEF OnlyOp, Withdrawn
  <1>4. CASE ~Mounted(o)
    <2>1. \A s \in Tabs : FormKept(s)
      BY <1>1, <1>4 DEF FormKept
    <2> QED
      BY <2>1, <1>2, <1>3, QuietSaves DEF ComposeBase
  <1>5. CASE Mounted(o)
    <2>1. Active(o) /\ Fresh(o) /\ Scheduling(o) /\ panel[t] \in Panels
      BY <1>1 DEF Active, Fresh, Scheduling, ComposeBase, ComposeTypeOK
    <2>2. d \in Drafts
      BY <1>1, <2>1 DEF OpRows, ComposeBase, ComposeBounded, OpBounds
    <2>3. /\ panel'[t].open = panel[t].open /\ panel'[t].mount = panel[t].mount
          /\ panel'[t].draftId = panel[t].draftId /\ panel'[t].base = panel[t].base
          /\ panel'[t].about = panel[t].about /\ panel'[t].version = v
      BY <1>1, <1>5, <2>1 DEF Panels
    <2>4. \A s \in Tabs \ {t} : FormKept(s)
      BY <1>1 DEF FormKept
    <2>5. \A e \in Drafts : draft[e].version = v => e = d
      BY <2>1 DEF ComposeBase, StoreInvariant, OwnVersion
    <2>6. \A x \in Ops \ {o} : op'[x] = op[x]
      BY <1>1 DEF OnlyOp
    <2>7. ASSUME NEW x \in Ops \ {o}, Active(x)
          PROVE  Mounted(x)' <=> Mounted(x)
      <3>1. op[x].tab \in Tabs
        BY <2>7, ActiveRows DEF OpRows, ComposeBase
      <3> QED
        BY <1>1, <2>3, <2>6, <3>1 DEF Mounted
    <2>8. ~Active(o)' /\ SaveKnows(o)' /\ FormsDraft(o)' /\ ScheduleKnows(o)' /\ ~Wins(o)'
      BY <1>1 DEF DoneOp, Active, SaveKnows, FormsDraft, ScheduleKnows, Wins
    <2>9. ASSUME NEW s \in Tabs
          PROVE  FormKnows(s)'
      <3>1. FormKnows(s)
        BY DEF SaveInv
      <3>2. CASE s # t
        BY <3>1, <3>2, <1>2, <2>4, FormKnowsKept DEF ComposeBase, ComposeBounded
      <3>3. CASE s = t
        <4>1. ScheduleKnows(o)
          BY DEF SaveInv
        <4>2. ASSUME NEW e \in Drafts, draft[e].status = "draft", draft[e].version = v
              PROVE  draft[e].text = panel[t].base
          <5>1. e = d
            BY <2>5, <4>2
          <5>2. Matches(o)
            BY <2>2, <4>2, <5>1, NullAssumption DEF Matches
          <5> QED
            BY <1>5, <2>1, <4>1, <5>1, <5>2 DEF ScheduleKnows
        <4> QED
          BY <1>1, <2>3, <3>1, <3>3, <4>2 DEF FormKnows
      <3> QED
        BY <3>2, <3>3
    <2>10. ASSUME NEW x \in Ops \ {o}, Active(x)
           PROVE  SaveKnows(x)' /\ FormsDraft(x)' /\ ScheduleKnows(x)' /\ FormStale(x)'
      <3>0. SaveKnows(x) /\ FormsDraft(x) /\ ScheduleKnows(x) /\ FormStale(x) /\ op'[x] = op[x]
        BY <2>6 DEF SaveInv
      <3>1. op[x] \in OpRows /\ op[x].tab \in Tabs
        BY <2>10, ActiveRows DEF OpRows, ComposeBase
      <3>2. SaveKnows(x)'
        BY <3>0, <1>2, SaveKnowsKept DEF ComposeBase, ComposeBounded
      <3>3. CASE op[x].tab # t
        <4>1. FormKept(op[x].tab)
          BY <2>4, <3>1, <3>3
        <4> QED
          BY <3>0, <3>2, <4>1, <1>2, FormsDraftKept, ScheduleKnowsKept, FormStaleKept
          DEF ComposeBase, ComposeBounded
      <3>4. CASE op[x].tab = t
        <4>1. FormsDraft(x)'
          BY <3>0, <3>4, <2>3, <2>7, <2>10 DEF FormsDraft
        <4>2. ScheduleKnows(x)'
          BY <3>0, <3>4, <1>1, <2>3, <2>7, <2>10 DEF ScheduleKnows, Scheduling, Matches
        <4>3. FormStale(x)'
          <5> SUFFICES ASSUME Wins(x)
                       PROVE  draft[op[x].draftId].version # v
            BY <3>0, <3>4, <1>1, <2>3, <2>7, <2>10 DEF FormStale, Wins
          <5>1. op[x].draftId \in Drafts
            BY <3>1, <2>10 DEF Wins, Fresh, OpRows, ComposeBase, ComposeBounded, OpBounds
          <5>2. CASE op[x].draftId = d
            <6>1. Stale(x, o)
              BY DEF SaveInv
            <6> QED
              BY <5>2, <6>1, <1>5, <2>1, <3>4 DEF Stale
          <5> QED
            BY <2>5, <5>1, <5>2
        <4> QED
          BY <3>2, <4>1, <4>2, <4>3
      <3> QED
        BY <3>3, <3>4
    <2>11. ASSUME NEW x \in Ops \ {o}, ~Active(x)
           PROVE  SaveKnows(x)' /\ FormsDraft(x)' /\ ScheduleKnows(x)' /\ FormStale(x)'
      BY <2>6, <2>11 DEF Active, SaveKnows, FormsDraft, ScheduleKnows, FormStale, Wins
    <2>12. ASSUME NEW x \in Ops, NEW p \in Ops
           PROVE  Stale(x, p)'
      <3>1. CASE x = o \/ p = o
        BY <3>1, <2>8 DEF Stale
      <3>2. CASE x # o /\ ~Active(x)
        BY <3>2, <2>6 DEF Stale, Wins, Active
      <3>3. CASE x # o /\ Active(x) /\ p # o
        <4>1. Stale(x, p) /\ op'[x] = op[x] /\ op'[p] = op[p]
          BY <3>3, <2>6 DEF SaveInv
        <4> SUFFICES ASSUME Wins(x)', p # x, Active(p), op[p].tab = op[x].tab, Mounted(p)',
                            op[p].draftId = op[x].draftId
                     PROVE  /\ ~Wins(p)'
                            /\ op[p].stage = "persist" \/ Scheduling(p)
                               => op[p].version # draft[op[x].draftId].version
          BY <4>1, <1>1 DEF Stale, Active, Scheduling
        <4>2. Mounted(x) /\ Mounted(p) /\ Wins(x)
          BY <3>3, <4>1, <2>7 DEF Wins
        <4>3. Wins(p)' => Wins(p)
          BY <3>3, <4>1, <4>2 DEF Wins
        <4> QED
          BY <4>1, <4>2, <4>3 DEF Stale
      <3> QED
        BY <3>1, <3>2, <3>3
    <2> QED
      BY <2>8, <2>9, <2>10, <2>11, <2>12 DEF SaveInv, FormStale
  <1> QED
    BY <1>4, <1>5
---------------------------------------------------------------------------
(* The working copies, for every step.                                     *)

(* A form is shown as before.                                              *)
ShownKept(t) ==
  /\ panel'[t].open = panel[t].open /\ panel'[t].mount = panel[t].mount
  /\ panel'[t].work = panel[t].work /\ panel'[t].text = panel[t].text

LEMMA SameShown ==
  ASSUME NEW t \in Tabs, panel'[t] = panel[t]
  PROVE  ShownKept(t)
  BY DEF ShownKept

(* A step of one form that shows a later text, or another copy.            *)
LEMMA FormCopies ==
  ASSUME ComposeTypeOK, CopyInv, NEW t \in Tabs, OnlyPanel(t), CopiesOlder',
         \A s \in Tabs \ {t} : panel'[t].open /\ panel[s].open => panel[s].work # panel'[t].work,
         \A x \in Ops : Active(x) /\ op[x].kind = "send" /\ op[x].tab = t
                           => Mounted(x)' /\ panel'[t].text = op[x].text
  PROVE  CopyInv'
  <1>1. OwnCopies'
    BY DEF OwnCopies, OnlyPanel, CopyInv
  <1>2. ASSUME NEW x \in Ops
        PROVE  SendsShown(x)' /\ SendCloses(x)'
    <2>0. SendsShown(x) /\ SendCloses(x) /\ op' = op /\ mails' = mails
      BY DEF CopyInv, OnlyPanel
    <2>1. SendCloses(x)'
      BY <2>0 DEF SendCloses
    <2>2. SendsShown(x)'
      <3> SUFFICES ASSUME Active(x), op[x].kind = "send"
                   PROVE  Mounted(x)' /\ panel'[op[x].tab].text = op[x].text
        BY <2>0 DEF SendsShown, Active
      <3>1. op[x].tab \in Tabs
        BY ActiveRows DEF OpRows
      <3>2. CASE op[x].tab = t
        BY <3>2
      <3>3. CASE op[x].tab # t
        BY <2>0, <3>1, <3>3 DEF SendsShown, OnlyPanel, Mounted
      <3> QED
        BY <3>2, <3>3
    <2> QED
      BY <2>1, <2>2
  <1> QED
    BY <1>1, <1>2 DEF CopyInv

LEMMA FormOlder ==
  ASSUME CopyInv, NEW t \in Tabs, OnlyPanel(t), copies' = copies,
         \A i \in DOMAIN copies : panel'[t].open /\ copies[i].id = panel'[t].work
                                     => copies[i].text <= panel'[t].text
  PROVE  CopiesOlder'
  BY DEF CopyInv, CopiesOlder, OnlyPanel

(* A form that goes on being shown as it was.                              *)
LEMMA ShownCopies ==
  ASSUME ComposeTypeOK, CopyInv, NEW t \in Tabs, OnlyPanel(t), ShownKept(t), CopiesOlder'
  PROVE  CopyInv'
  <1>1. \A s \in Tabs \ {t} : panel'[t].open /\ panel[s].open => panel[s].work # panel'[t].work
    BY DEF ShownKept, CopyInv, OwnCopies
  <1>2. \A x \in Ops : Active(x) /\ op[x].kind = "send" /\ op[x].tab = t
                           => Mounted(x)' /\ panel'[t].text = op[x].text
    BY DEF ShownKept, CopyInv, SendsShown, Mounted, OnlyPanel
  <1> QED
    BY <1>1, <1>2, FormCopies

(* A blank form sends nothing.                                             *)
LEMMA BlankSendsNothing ==
  ASSUME CopyInv, NEW t \in Tabs, panel[t].text = 0
  PROVE  \A x \in Ops : ~(Active(x) /\ op[x].kind = "send" /\ op[x].tab = t)
  BY DEF CopyInv, SendsShown

LEMMA FillsBlank ==
  ASSUME NEW t \in Tabs, Filling(t) \subseteq doubts', "copy" \notin doubts'
  PROVE  panel[t].text = 0
  BY DEF Filling

LEMMA OpenCopies ==
  ASSUME ComposeBase, CopyInv, NEW t \in Tabs, NEW d \in Drafts \cup {Null}, Open(t, d)
  PROVE  CopyInv'
  <1>1. /\ OnlyPanel(t) /\ copies' = copies
        /\ panel'[t] = [ClosedPanel EXCEPT !.open = TRUE, !.mount = opens + 1, !.intent = d,
                           !.draftId = d, !.work = opens + 1, !.recovered = d # Null,
                           !.timer = d # Null, !.about = d]
    BY OpenTyped DEF ComposeBase
  <1>2. panel'[t].work = opens + 1
    BY <1>1 DEF ClosedPanel
  <1>3. CopiesOlder'
    <2>1. \A i \in DOMAIN copies : copies[i].id # panel'[t].work
      BY <1>2, Counters DEF ComposeBase, ComposeBounded, CopyBounds
    <2> QED
      BY <1>1, <2>1, FormOlder
  <1>4. \A s \in Tabs \ {t} : panel'[t].open /\ panel[s].open => panel[s].work # panel'[t].work
    BY <1>2, Counters DEF ComposeBase, ComposeBounded, PanelBounds
  <1>5. \A x \in Ops : ~(Active(x) /\ op[x].kind = "send" /\ op[x].tab = t)
    BY DEF CopyInv, SendsShown, Mounted, Open
  <1> QED
    BY <1>1, <1>3, <1>4, <1>5, FormCopies DEF ComposeBase

LEMMA FetchCopies ==
  ASSUME ComposeBase, CopyInv, NEW t \in Tabs, Fetch(t), "copy" \notin doubts'
  PROVE  CopyInv'
  <1> DEFINE d == panel[t].intent
  <1>1. /\ OnlyPanel(t) /\ copies' = copies
        /\ panel[t].open /\ d \in Drafts
        /\ \/ panel'[t] = [panel[t] EXCEPT !.shown = draft[d].scheduled]
           \/ panel'[t] = Filled(t) /\ Filling(t) \subseteq doubts'
    BY DraftFetchTyped DEF ComposeBase
  <1>2. panel[t] \in Panels /\ draft[d].text \in Nat
    BY <1>1, Counters DEF ComposeBase, ComposeTypeOK
  <1> HIDE DEF d
  <1>3. CASE panel'[t] = [panel[t] EXCEPT !.shown = draft[d].scheduled]
    <2>1. ShownKept(t)
      BY <1>2, <1>3 DEF Panels, ShownKept
    <2>2. CopiesOlder'
      BY <1>1, <2>1, FormOlder DEF ShownKept, CopyInv, CopiesOlder
    <2> QED
      BY <1>1, <2>1, <2>2, ShownCopies DEF ComposeBase
  <1>4. CASE panel'[t] = Filled(t) /\ Filling(t) \subseteq doubts'
    <2>1. panel'[t].work = panel[t].work /\ panel'[t].text = draft[d].text
          /\ panel'[t].open = panel[t].open
      BY <1>2, <1>4 DEF Filled, Panels, d
    <2>2. panel[t].text = 0
      BY <1>4, FillsBlank
    <2>3. CopiesOlder'
      <3>1. \A i \in DOMAIN copies : copies[i].id = panel[t].work => copies[i].text <= 0
        BY <1>1, <2>2 DEF CopyInv, CopiesOlder
      <3>2. \A i \in DOMAIN copies : copies[i].id = panel[t].work
                                        => copies[i].text <= draft[d].text
        BY <3>1, <1>2, Counters DEF ComposeBase
      <3> QED
        BY <1>1, <2>1, <3>2, FormOlder
    <2>4. \A s \in Tabs \ {t} : panel'[t].open /\ panel[s].open => panel[s].work # panel'[t].work
      BY <1>1, <2>1 DEF CopyInv, OwnCopies
    <2>5. \A x \in Ops : ~(Active(x) /\ op[x].kind = "send" /\ op[x].tab = t)
      BY <2>2, BlankSendsNothing
    <2> QED
      BY <1>1, <2>3, <2>4, <2>5, FormCopies DEF ComposeBase
  <1> QED
    BY <1>1, <1>3, <1>4

LEMMA RecoverCopies ==
  ASSUME ComposeBase, CopyInv, NEW t \in Tabs, Recover(t), "copy" \notin doubts'
  PROVE  CopyInv'
  <1>1. /\ OnlyPanel(t) /\ copies' = copies
        /\ panel[t].open
        /\ \/ panel'[t] = [panel[t] EXCEPT !.restored = TRUE, !.recovered = TRUE, !.timer = TRUE]
           \/ \E i \in DOMAIN copies :
                  /\ panel'[t] = [panel[t] EXCEPT !.restored = TRUE, !.recovered = TRUE,
                                    !.timer = TRUE, !.text = copies[i].text,
                                    !.draftId = copies[i].draftId,
                                    !.work = copies[i].id, !.about = copies[i].draftId]
                  /\ Filling(t) \subseteq doubts'
                  /\ (\E s \in Tabs \ {t} : panel[s].open /\ panel[s].work = copies[i].id)
                        => "copy" \in doubts'
    BY RecoverTyped DEF ComposeBase
  <1>2. panel[t] \in Panels
    BY DEF ComposeBase, ComposeTypeOK
  <1>3. CASE panel'[t] = [panel[t] EXCEPT !.restored = TRUE, !.recovered = TRUE, !.timer = TRUE]
    <2>1. ShownKept(t)
      BY <1>2, <1>3 DEF Panels, ShownKept
    <2>2. CopiesOlder'
      BY <1>1, <2>1, FormOlder DEF ShownKept, CopyInv, CopiesOlder
    <2> QED
      BY <1>1, <2>1, <2>2, ShownCopies DEF ComposeBase
  <1>4. ASSUME NEW k \in DOMAIN copies,
               panel'[t] = [panel[t] EXCEPT !.restored = TRUE, !.recovered = TRUE,
                              !.timer = TRUE, !.text = copies[k].text,
                              !.draftId = copies[k].draftId,
                              !.work = copies[k].id, !.about = copies[k].draftId],
               Filling(t) \subseteq doubts',
               (\E s \in Tabs \ {t} : panel[s].open /\ panel[s].work = copies[k].id)
                  => "copy" \in doubts'
        PROVE  CopyInv'
    <2>1. panel'[t].work = copies[k].id /\ panel'[t].text = copies[k].text
      BY <1>2, <1>4 DEF Panels
    <2>2. panel[t].text = 0
      BY <1>4, FillsBlank
    <2>3. CopiesOlder'
      <3>1. \A i \in DOMAIN copies : copies[i].id = copies[k].id => i = k
        BY DEF ComposeBase, ComposeTypeOK
      <3>2. copies[k].text \in Nat
        BY Counters DEF ComposeBase
      <3>3. \A i \in DOMAIN copies : copies[i].id = panel'[t].work
                                        => copies[i].text <= panel'[t].text
        BY <2>1, <3>1, <3>2
      <3> QED
        BY <1>1, <3>3, FormOlder
    <2>4. \A s \in Tabs \ {t} : panel'[t].open /\ panel[s].open => panel[s].work # panel'[t].work
      BY <1>4, <2>1
    <2>5. \A x \in Ops : ~(Active(x) /\ op[x].kind = "send" /\ op[x].tab = t)
      BY <2>2, BlankSendsNothing
    <2> QED
      BY <1>1, <2>3, <2>4, <2>5, FormCopies DEF ComposeBase
  <1> QED
    BY <1>1, <1>3, <1>4

LEMMA TypeCopies ==
  ASSUME ComposeBase, CopyInv, NEW t \in Tabs, Type(t), "copy" \notin doubts'
  PROVE  CopyInv'
  <1>1. /\ OnlyPanel(t) /\ copies' = copies /\ ~Sending(t)
        /\ panel'[t] = [panel[t] EXCEPT !.text = edits + 1, !.timer = TRUE]
        /\ panel[t].open
    BY TypeTyped DEF ComposeBase
  <1>2. panel'[t].work = panel[t].work /\ panel'[t].text = edits + 1
    <2>1. panel[t] \in Panels
      BY DEF ComposeBase, ComposeTypeOK
    <2> QED
      BY <1>1, <2>1 DEF Panels
  <1>3. CopiesOlder'
    <2>1. \A i \in DOMAIN copies : copies[i].text <= edits + 1
      BY Counters DEF ComposeBase, ComposeBounded, CopyBounds
    <2> QED
      BY <1>1, <1>2, <2>1, FormOlder
  <1>4. \A s \in Tabs \ {t} : panel'[t].open /\ panel[s].open => panel[s].work # panel'[t].work
    BY <1>1, <1>2 DEF CopyInv, OwnCopies
  <1>5. \A x \in Ops : ~(Active(x) /\ op[x].kind = "send" /\ op[x].tab = t)
    BY <1>1 DEF Sending
  <1> QED
    BY <1>1, <1>3, <1>4, <1>5, FormCopies DEF ComposeBase

LEMMA CloseCopies ==
  ASSUME ComposeBase, CopyInv, NEW t \in Tabs, Close(t), "copy" \notin doubts'
  PROVE  CopyInv'
  <1>1. /\ OnlyPanel(t) /\ copies' = copies /\ panel'[t] = ClosedPanel
        /\ \A x \in Ops : ~(Active(x) /\ op[x].tab = t)
    BY CloseTyped DEF ComposeBase
  <1>2. ~panel'[t].open
    BY <1>1 DEF ClosedPanel
  <1>3. CopiesOlder'
    BY <1>1, <1>2, FormOlder
  <1> QED
    BY <1>1, <1>2, <1>3, FormCopies DEF ComposeBase

LEMMA SwitchCopies ==
  ASSUME ComposeBase, CopyInv, NEW t \in Tabs, NEW d \in Drafts \cup {Null}, Switch(t, d)
  PROVE  CopyInv'
  <1>1. /\ OnlyPanel(t) /\ copies' = copies
        /\ panel'[t] = [panel[t] EXCEPT !.intent = d, !.shown = FALSE]
    BY SwitchTyped DEF ComposeBase
  <1>2. ShownKept(t)
    <2>1. panel[t] \in Panels
      BY DEF ComposeBase, ComposeTypeOK
    <2> QED
      BY <1>1, <2>1 DEF Panels, ShownKept
  <1>3. CopiesOlder'
    BY <1>1, <1>2, FormOlder DEF ShownKept, CopyInv, CopiesOlder
  <1> QED
    BY <1>1, <1>2, <1>3, ShownCopies DEF ComposeBase

(* What an autosave does to the table.                                     *)
LEMMA AutosaveRows ==
  ASSUME ComposeBase, CopyInv, NEW t \in Tabs, Autosave(t)
  PROVE  /\ \A j \in DOMAIN copies' :
               \/ copies'[j].id = panel[t].work /\ copies'[j].text = panel[t].text
               \/ /\ copies'[j].id # panel[t].work
                  /\ \E i \in DOMAIN copies : copies'[j] = copies[i]
         /\ \A i \in DOMAIN copies :
               \E j \in DOMAIN copies' : /\ copies'[j].id = copies[i].id
                                         /\ copies'[j].text >= copies[i].text
  <1>1. /\ copies' = Put(panel[t].work, panel[t].draftId, panel[t].text)
        /\ panel[t].work \in WorkIds /\ panel[t].open
    BY AutosaveTyped DEF ComposeBase
  <1>2. /\ copies \in Seq(CopyRows) /\ Keyed(copies)
        /\ panel[t].draftId \in Drafts \cup {Null} /\ panel[t].text \in Texts
    <2>1. panel[t] \in Panels
      BY DEF ComposeBase, ComposeTypeOK
    <2> QED
      BY <2>1 DEF ComposeBase, ComposeTypeOK, Keyed, Panels
  <1>3. /\ \E j \in DOMAIN copies' : /\ copies'[j].id = panel[t].work
                                     /\ copies'[j].text = panel[t].text
        /\ \A j \in DOMAIN copies' :
               \/ copies'[j].id = panel[t].work /\ copies'[j].text = panel[t].text
               \/ /\ copies'[j].id # panel[t].work
                  /\ \E i \in DOMAIN copies : copies'[j] = copies[i]
        /\ \A i \in DOMAIN copies : copies[i].id # panel[t].work =>
               \E j \in DOMAIN copies' : copies'[j] = copies[i]
    <2>1. PICK w \in WorkIds, d \in Drafts \cup {Null}, x \in Texts :
             w = panel[t].work /\ d = panel[t].draftId /\ x = panel[t].text
      BY <1>1, <1>2
    <2>a. w \in WorkIds /\ d \in Drafts \cup {Null} /\ x \in Texts
      BY <2>1
    <2>b. copies \in Seq(CopyRows) /\ Keyed(copies)
      BY <1>2
    <2> DEFINE new == Put(w, d, x)
    <2>c. \E j \in DOMAIN new : new[j].id = w /\ new[j].text = x
      BY <2>a, <2>b, PutRows
    <2>d. \A j \in DOMAIN new :
             \/ new[j].id = w /\ new[j].text = x
             \/ new[j].id # w /\ \E i \in DOMAIN copies : new[j] = copies[i]
      BY <2>a, <2>b, PutRows
    <2>e. ASSUME NEW i \in DOMAIN copies, copies[i].id # w
          PROVE  \E j \in DOMAIN new : new[j] = copies[i]
      BY <2>a, <2>b, <2>e, PutKeeps
    <2>3. copies' = new
      BY <1>1, <2>1
    <2> HIDE DEF new
    <2> QED
      BY <2>1, <2>3, <2>c, <2>d, <2>e
  <1>4. ASSUME NEW i \in DOMAIN copies
        PROVE  \E j \in DOMAIN copies' : /\ copies'[j].id = copies[i].id
                                         /\ copies'[j].text >= copies[i].text
    <2>0. copies[i].text \in Nat /\ panel[t].text \in Nat
      BY Counters DEF ComposeBase
    <2>1. CASE copies[i].id = panel[t].work
      <3>1. copies[i].text <= panel[t].text
        BY <1>1, <2>1 DEF CopyInv, CopiesOlder
      <3> QED
        BY <1>3, <2>0, <2>1, <3>1
    <2>2. CASE copies[i].id # panel[t].work
      <3>1. PICK j \in DOMAIN copies' : copies'[j] = copies[i]
        BY <1>3, <2>2
      <3> QED
        BY <2>0, <3>1
    <2> QED
      BY <2>1, <2>2
  <1> QED
    BY <1>3, <1>4

LEMMA AutosaveCopies ==
  ASSUME ComposeBase, CopyInv, NEW t \in Tabs, Autosave(t)
  PROVE  CopyInv'
  <1>1. /\ OnlyPanel(t) /\ panel[t].open
        /\ panel'[t] = [panel[t] EXCEPT !.timer = FALSE]
    BY AutosaveTyped DEF ComposeBase
  <1>2. ShownKept(t)
    <2>1. panel[t] \in Panels
      BY DEF ComposeBase, ComposeTypeOK
    <2> QED
      BY <1>1, <2>1 DEF Panels, ShownKept
  <1>3. ASSUME NEW s \in Tabs, NEW j \in DOMAIN copies', panel'[s].open,
               copies'[j].id = panel'[s].work
        PROVE  copies'[j].text <= panel'[s].text
    <2>0. ShownKept(s)
      BY <1>1, <1>2, SameShown DEF OnlyPanel
    <2>1. CASE copies'[j].id = panel[t].work /\ copies'[j].text = panel[t].text
      <3>1. s = t
        BY <1>1, <1>3, <2>0, <2>1 DEF CopyInv, OwnCopies, ShownKept
      <3> QED
        BY <2>0, <2>1, <3>1, Counters DEF ShownKept, ComposeBase
    <2>2. CASE \E i \in DOMAIN copies : copies'[j] = copies[i]
      BY <1>3, <2>0, <2>2 DEF CopyInv, CopiesOlder, ShownKept
    <2> QED
      BY <2>1, <2>2, AutosaveRows
  <1>4. CopiesOlder'
    BY <1>3 DEF CopiesOlder
  <1> QED
    BY <1>1, <1>2, <1>4, ShownCopies DEF ComposeBase
(* A click goes on, ends, or is left alone, as far as copies are concerned. *)
Proceeds(x) ==
  \/ op'[x] = op[x]
  \/ ~Active(x)'
  \/ /\ Active(x) /\ SameClick(x)
     /\ op'[x].stage = "closing" => op[x].kind = "send"
     /\ op'[x].stage = "delivered" /\ op'[x].ok /\ op[x].kind = "send"
           => mails'[op[x].text] > 0

(* Rows are deleted or linked, and nothing else is done to them.           *)
RowsStay ==
  \A j \in DOMAIN copies' : \E i \in DOMAIN copies :
     copies'[j].id = copies[i].id /\ copies'[j].text = copies[i].text

MailsGrow == \A x \in Texts : mails[x] <= mails'[x]

LEMMA SameRows ==
  ASSUME copies' = copies
  PROVE  RowsStay
  BY DEF RowsStay

LEMMA SameMails ==
  ASSUME ComposeTypeOK, mails' = mails
  PROVE  MailsGrow
  BY DEF MailsGrow, ComposeTypeOK

LEMMA OpCopies ==
  ASSUME ComposeTypeOK, ComposeTypeOK', CopyInv, \A t \in Tabs : ShownKept(t), RowsStay, MailsGrow,
         \A x \in Ops : Proceeds(x)
  PROVE  CopyInv'
  <1>1. CopiesOlder'
    BY DEF CopyInv, CopiesOlder, ShownKept, RowsStay
  <1>2. OwnCopies'
    BY DEF CopyInv, OwnCopies, ShownKept
  <1>3. ASSUME NEW x \in Ops, Active(x)'
        PROVE  /\ Active(x) /\ op[x] \in OpRows
               /\ op'[x].kind = op[x].kind /\ op'[x].tab = op[x].tab
               /\ op'[x].mount = op[x].mount /\ op'[x].text = op[x].text
    <2>1. Active(x)
      BY <1>3 DEF Proceeds, Active
    <2> QED
      BY <1>3, <2>1, ActiveRows DEF Proceeds, SameClick
  <1>4. ASSUME NEW x \in Ops
        PROVE  SendsShown(x)' /\ SendCloses(x)'
    <2>0. SendsShown(x) /\ SendCloses(x) /\ Proceeds(x)
      BY DEF CopyInv
    <2>1. SendCloses(x)'
      <3> SUFFICES ASSUME op'[x].stage = "closing"
                   PROVE  op'[x].kind = "send"
        BY DEF SendCloses
      <3>1. Active(x)'
        BY DEF Active
      <3> QED
        BY <2>0, <3>1, <1>3 DEF SendCloses, Proceeds
    <2>2. SendsShown(x)'
      <3> SUFFICES ASSUME Active(x)', op'[x].kind = "send"
                   PROVE  /\ Mounted(x)'
                          /\ op'[x].text # 0
                          /\ panel'[op'[x].tab].text = op'[x].text
                          /\ op'[x].stage = "delivered" /\ op'[x].ok => mails'[op'[x].text] > 0
                          /\ \A p \in Ops : Active(p)' /\ op'[p].kind = "send"
                                            /\ op'[p].tab = op'[x].tab => p = x
        BY DEF SendsShown
      <3>1. /\ Active(x) /\ op[x] \in OpRows /\ op[x].kind = "send"
            /\ op'[x].tab = op[x].tab /\ op'[x].mount = op[x].mount /\ op'[x].text = op[x].text
        BY <1>3
      <3>2. op[x].tab \in Tabs /\ op[x].text \in Texts
        BY <3>1 DEF OpRows
      <3>3. Mounted(x)' /\ panel'[op[x].tab].text = op[x].text /\ op[x].text # 0
        BY <2>0, <3>1, <3>2 DEF SendsShown, ShownKept, Mounted
      <3>4. op'[x].stage = "delivered" /\ op'[x].ok => mails'[op[x].text] > 0
        <4>1. CASE op'[x] = op[x]
          <5>1. mails[op[x].text] \in Nat /\ mails'[op[x].text] \in Nat
                /\ mails[op[x].text] <= mails'[op[x].text]
            BY <3>2 DEF ComposeTypeOK, MailsGrow
          <5>2. op[x].stage = "delivered" /\ op[x].ok => mails[op[x].text] > 0
            BY <2>0, <3>1 DEF SendsShown
          <5> QED
            BY <4>1, <5>1, <5>2
        <4>2. CASE op'[x] # op[x]
          BY <2>0, <3>1, <4>2 DEF Proceeds
        <4> QED
          BY <4>1, <4>2
      <3>5. ASSUME NEW p \in Ops, Active(p)', op'[p].kind = "send", op'[p].tab = op'[x].tab
            PROVE  p = x
        BY <2>0, <3>1, <3>5, <1>3 DEF SendsShown
      <3> QED
        BY <3>1, <3>3, <3>4, <3>5
    <2> QED
      BY <2>1, <2>2
  <1> QED
    BY <1>1, <1>2, <1>4 DEF CopyInv

(* A click of the server's, or an answer, that leaves panels and rows alone. *)
LEMMA OneProceeds ==
  ASSUME NEW o \in Ops, OnlyOp(o), Proceeds(o)
  PROVE  \A x \in Ops : Proceeds(x)
  BY DEF OnlyOp, Proceeds

LEMMA ClickCopies ==
  ASSUME ComposeBase, CopyInv, NEW o \in Ops, NEW t \in Tabs, NEW kind \in Kinds,
         Click(o, t, kind)
  PROVE  CopyInv'
  <1>1. /\ UNCHANGED <<draft, panel, copies, opens, edits, stamps, mails, doubts>>
        /\ OnlyOp(o)
        /\ panel[t].open
        /\ ~Busy(t)
        /\ op[o].stage = "idle"
        /\ kind = "send" => panel[t].text # 0
    BY ClickTyped DEF ComposeBase
  <1>2. /\ op'[o].stage = FirstStage(panel[t], kind) /\ op'[o].tab = t /\ op'[o].kind = kind
        /\ op'[o].mount = panel[t].mount /\ op'[o].text = panel[t].text
    <2>1. op'[o] = [stage |-> FirstStage(panel[t], kind), kind |-> kind, tab |-> t,
                    mount |-> panel[t].mount, draftId |-> panel[t].draftId,
                    version |-> panel[t].version, text |-> panel[t].text,
                    work |-> panel[t].work, ok |-> FALSE, base |-> panel[t].base,
                    about |-> panel[t].about]
      BY ClickTyped DEF ComposeBase
    <2> QED
      BY <2>1
  <1>3. CopiesOlder' /\ OwnCopies'
    BY <1>1 DEF CopyInv, CopiesOlder, OwnCopies
  <1>4. op'[o].stage \in {"persist", "deliver"}
    BY <1>2 DEF FirstStage
  (* No other Send of the tab is under way. *)
  <1>5. ASSUME kind = "send", NEW p \in Ops, Active(p), op[p].kind = "send", op[p].tab = t
        PROVE  FALSE
    <2>1. Mounted(p)
      BY <1>5 DEF CopyInv, SendsShown
    <2> QED
      BY <1>1, <1>5, <2>1 DEF Busy, Mine, Mounted
  <1>6. \A x \in Ops \ {o} : op'[x] = op[x] /\ (Active(x)' <=> Active(x))
    BY <1>1 DEF OnlyOp, Active
  <1>7. ASSUME NEW x \in Ops \ {o}
        PROVE  SendsShown(x)' /\ SendCloses(x)'
    <2>0. SendsShown(x) /\ SendCloses(x) /\ op'[x] = op[x]
      BY <1>6 DEF CopyInv
    <2>1. SendCloses(x)'
      BY <2>0 DEF SendCloses
    <2>2. SendsShown(x)'
      <3> SUFFICES ASSUME Active(x), op[x].kind = "send"
                   PROVE  \A p \in Ops : Active(p)' /\ op'[p].kind = "send"
                                         /\ op'[p].tab = op[x].tab => p = x
        BY <1>1, <1>6, <2>0 DEF SendsShown, Mounted
      <3> QED
        BY <1>2, <1>5, <1>6, <2>0 DEF SendsShown
    <2> QED
      BY <2>1, <2>2
  <1>8. SendsShown(o)' /\ SendCloses(o)'
    BY <1>1, <1>2, <1>4, <1>5, <1>6 DEF SendsShown, SendCloses, Mounted
  <1> QED
    BY <1>3, <1>7, <1>8 DEF CopyInv

(* The steps of the server.                                                *)
LEMMA ServerCopies ==
  ASSUME ComposeBase, CopyInv, NEW o \in Ops,
         \/ \E d \in Drafts : ServeCreate(o, d)
         \/ ServeUpdate(o)
         \/ Refuse(o, "persist", "persisted")
         \/ Refuse(o, "deliver", "delivered")
         \/ ServeMessage(o)
         \/ ServeSend(o)
         \/ ServeSchedule(o)
  PROVE  CopyInv'
  <1>1. ASSUME NEW d \in Drafts, ComposeTypeOK', Stores(o, d)
        PROVE  /\ ComposeTypeOK' /\ UNCHANGED <<panel, copies>> /\ OnlyOp(o) /\ MailsGrow
               /\ Proceeds(o)
    <2>1. MailsGrow
      BY <1>1, SameMails DEF Stores, ComposeBase
    <2> QED
      BY <1>1, <2>1 DEF Stores, Proceeds, Active
  <1>2. ASSUME ServeMessage(o) \/ ServeSend(o)
        PROVE  /\ ComposeTypeOK' /\ UNCHANGED <<panel, copies>> /\ OnlyOp(o) /\ MailsGrow
               /\ Proceeds(o)
    <2>1. ComposeTypeOK' /\ Sends(o)
      BY <1>2, SendsBase DEF ComposeBase
    <2>2. op[o].text \in Texts /\ mails \in [Texts -> Nat] /\ Active(o)
      BY <2>1 DEF Sends, OpRows, ComposeBase, ComposeTypeOK, Active
    <2>3. mails'[op[o].text] = mails[op[o].text] + 1
      <3>1. CASE ServeMessage(o)
        BY <3>1, ServeMessageTyped DEF ComposeBase
      <3>2. CASE ServeSend(o)
        <4>1. Matches(o) /\ op[o].draftId \in Drafts
              /\ mails'[draft[op[o].draftId].text] = mails[draft[op[o].draftId].text] + 1
          BY <3>2, ServeSendTyped DEF ComposeBase
        <4>2. HasStored(o)
          BY <2>1, <4>1, NullAssumption DEF HasStored, Sends
        <4>3. draft[op[o].draftId].text = op[o].text
          BY <2>2, <4>1, <4>2 DEF ComposeBase, StoreInvariant, StoredText, Matches
        <4> QED
          BY <4>1, <4>3
      <3> QED
        BY <1>2, <3>1, <3>2
    <2>4. mails'[op[o].text] > 0
      BY <2>2, <2>3
    <2> QED
      BY <2>1, <2>2, <2>4 DEF Sends, Proceeds, MailsGrow
  <1>3. ASSUME Refuse(o, "persist", "persisted") \/ Refuse(o, "deliver", "delivered")
        PROVE  /\ ComposeTypeOK' /\ UNCHANGED <<panel, copies>> /\ OnlyOp(o) /\ MailsGrow
               /\ Proceeds(o)
    <2>1. /\ ComposeTypeOK'
          /\ UNCHANGED <<draft, panel, copies, opens, edits, stamps, mails, doubts>>
          /\ op[o].stage \in {"persist", "deliver"}
          /\ OnlyOp(o) /\ SameClick(o)
          /\ op'[o].stage \in {"persisted", "delivered"} /\ ~op'[o].ok
      BY <1>3, RefuseTyped DEF ComposeBase
    <2>2. MailsGrow
      BY <2>1, SameMails DEF ComposeBase
    <2> QED
      BY <2>1, <2>2 DEF Proceeds, Active
  <1>4. ASSUME ServeSchedule(o)
        PROVE  /\ ComposeTypeOK' /\ UNCHANGED <<panel, copies>> /\ OnlyOp(o) /\ MailsGrow
               /\ Proceeds(o)
    <2>1. /\ ComposeTypeOK'
          /\ op[o].stage = "deliver" /\ op[o].kind \in {"schedule", "cancel"}
          /\ OnlyOp(o) /\ SameClick(o) /\ op'[o].stage = "delivered"
          /\ UNCHANGED <<panel, copies, mails>>
      BY <1>4, ServeScheduleTyped DEF ComposeBase
    <2>2. MailsGrow
      BY <2>1, SameMails DEF ComposeBase
    <2> QED
      BY <2>1, <2>2 DEF Proceeds, Active
  <1>5. /\ ComposeTypeOK' /\ UNCHANGED <<panel, copies>> /\ OnlyOp(o) /\ MailsGrow
        /\ Proceeds(o)
    BY <1>1, <1>2, <1>3, <1>4, ServeCreateTyped, ServeUpdateTyped DEF ComposeBase
  <1>6. (\A t \in Tabs : ShownKept(t)) /\ RowsStay /\ \A x \in Ops : Proceeds(x)
    BY <1>5, SameShown, SameRows, OneProceeds
  <1> QED
    BY <1>5, <1>6, OpCopies DEF ComposeBase

LEMMA DeliverCopies ==
  ASSUME ComposeBase, CopyInv, NEW d \in Drafts, Deliver(d)
  PROVE  CopyInv'
  <1>1. /\ ComposeTypeOK' /\ MailsGrow
        /\ UNCHANGED <<panel, copies, op, opens, edits, stamps, doubts>>
    BY DeliverTyped DEF ComposeBase, MailsGrow
  <1>2. (\A t \in Tabs : ShownKept(t)) /\ RowsStay /\ \A x \in Ops : Proceeds(x)
    BY <1>1, SameShown, SameRows DEF Proceeds
  <1> QED
    BY <1>1, <1>2, OpCopies DEF ComposeBase

(* The steps of answers.                                                   *)
LEMMA AnswerPersistCopies ==
  ASSUME ComposeBase, CopyInv, NEW o \in Ops, AnswerPersist(o)
  PROVE  CopyInv'
  <1>1. /\ ComposeTypeOK' /\ mails' = mails
        /\ op[o] \in OpRows /\ op[o].stage = "persisted"
        /\ op[o].draftId \in Drafts
        /\ Learns(o) /\ OnlyOp(o)
        /\ copies' = Link(op[o].work, op[o].draftId)
        /\ \/ op'[o] = DoneOp
           \/ SameClick(o) /\ op'[o].stage = "deliver"
    BY AnswerPersistTyped DEF ComposeBase
  <1>2. Proceeds(o)
    BY <1>1, DoneInactive DEF Proceeds, Active
  <1>3. RowsStay
    <2>1. copies \in Seq(CopyRows) /\ Keyed(copies) /\ op[o].draftId \in Drafts \cup {Null}
      BY <1>1 DEF ComposeBase, ComposeTypeOK, Keyed
    <2>2. /\ DOMAIN copies' = DOMAIN copies
          /\ \A i \in DOMAIN copies : /\ copies'[i].id = copies[i].id
                                      /\ copies'[i].text = copies[i].text
      BY <1>1, <2>1, LinkRows
    <2> QED
      BY <2>2 DEF RowsStay
  <1>4. \A t \in Tabs : ShownKept(t)
    <2> SUFFICES ASSUME NEW t \in Tabs
                 PROVE  ShownKept(t)
      OBVIOUS
    <2>1. CASE t = op[o].tab
      BY <1>1, <2>1 DEF Learns, ShownKept
    <2>2. CASE t # op[o].tab
      BY <1>1, <2>2, SameShown DEF Learns
    <2> QED
      BY <2>1, <2>2
  <1>5. MailsGrow /\ \A x \in Ops : Proceeds(x)
    BY <1>1, <1>2, SameMails, OneProceeds DEF ComposeBase
  <1> QED
    BY <1>1, <1>3, <1>4, <1>5, OpCopies DEF ComposeBase

LEMMA EndsCopies ==
  ASSUME ComposeBase, CopyInv, NEW o \in Ops, AnswerRefused(o) \/ Lose(o)
  PROVE  CopyInv'
  <1>1. ComposeTypeOK' /\ Ends(o)
    BY EndsTyped DEF ComposeBase
  <1>2. Proceeds(o) /\ OnlyOp(o) /\ UNCHANGED <<panel, copies, mails>>
    BY <1>1, DoneInactive DEF Ends, Proceeds
  <1>3. /\ \A t \in Tabs : ShownKept(t)
        /\ RowsStay /\ MailsGrow
        /\ \A x \in Ops : Proceeds(x)
    BY <1>2, SameShown, SameRows, SameMails, OneProceeds DEF ComposeBase
  <1> QED
    BY <1>1, <1>3, OpCopies DEF ComposeBase

LEMMA AnswerSendCopies ==
  ASSUME ComposeBase, CopyInv, NEW o \in Ops, AnswerSend(o)
  PROVE  CopyInv'
  <1>1. /\ ComposeTypeOK'
        /\ op[o] \in OpRows /\ op[o].stage = "delivered" /\ op[o].kind = "send"
        /\ copies' = Without(WorkOf(o))
        /\ OnlyOp(o) /\ SameClick(o)
        /\ op'[o].stage = "closing"
        /\ panel' = panel /\ mails' = mails
    BY AnswerSendTyped DEF ComposeBase
  <1>2. Proceeds(o)
    BY <1>1 DEF Proceeds, Active
  <1>3. RowsStay
    <2>1. \A j \in DOMAIN copies' : \E i \in DOMAIN copies : copies'[j] = copies[i]
      BY <1>1, WithoutRows DEF ComposeBase, ComposeTypeOK, Keyed
    <2> QED
      BY <2>1 DEF RowsStay
  <1>4. /\ \A t \in Tabs : ShownKept(t)
        /\ MailsGrow
        /\ \A x \in Ops : Proceeds(x)
    BY <1>1, <1>2, SameShown, SameMails, OneProceeds DEF ComposeBase
  <1> QED
    BY <1>1, <1>3, <1>4, OpCopies DEF ComposeBase

LEMMA AnswerScheduleCopies ==
  ASSUME ComposeBase, CopyInv, NEW o \in Ops, AnswerSchedule(o)
  PROVE  CopyInv'
  <1>1. /\ ComposeTypeOK'
        /\ op[o].tab \in Tabs
        /\ OnlyOp(o) /\ op'[o] = DoneOp
        /\ \A s \in Tabs \ {op[o].tab} : panel'[s] = panel[s]
        /\ panel'[op[o].tab] = IF Mounted(o) THEN [panel[op[o].tab] EXCEPT !.version = op[o].version]
                                             ELSE panel[op[o].tab]
        /\ copies' = copies /\ mails' = mails
    BY AnswerScheduleTyped DEF ComposeBase
  <1>2. Proceeds(o)
    BY <1>1, DoneInactive DEF Proceeds
  <1>3. \A t \in Tabs : ShownKept(t)
    <2> SUFFICES ASSUME NEW t \in Tabs
                 PROVE  ShownKept(t)
      OBVIOUS
    <2>0. panel[t] \in Panels
      BY DEF ComposeBase, ComposeTypeOK
    <2>1. CASE t = op[o].tab
      BY <1>1, <2>0, <2>1 DEF Panels, ShownKept
    <2>2. CASE t # op[o].tab
      BY <1>1, <2>2, SameShown
    <2> QED
      BY <2>1, <2>2
  <1>4. RowsStay /\ MailsGrow /\ \A x \in Ops : Proceeds(x)
    BY <1>1, <1>2, SameRows, SameMails, OneProceeds DEF ComposeBase
  <1> QED
    BY <1>1, <1>3, <1>4, OpCopies DEF ComposeBase

(* Send closes its form: no other Send of the tab is under way.            *)
LEMMA CloseAfterSendCopies ==
  ASSUME ComposeBase, CopyInv, NEW o \in Ops, CloseAfterSend(o)
  PROVE  CopyInv'
  <1> DEFINE t == op[o].tab
  <1>1. /\ op[o] \in OpRows /\ op[o].stage = "closing"
        /\ OnlyOp(o) /\ op'[o] = DoneOp
        /\ \A s \in Tabs \ {t} : panel'[s] = panel[s]
        /\ panel'[t] = ClosedPanel
        /\ copies' = copies /\ mails' = mails
    BY CloseAfterSendTyped DEF ComposeBase
  <1>2. ~panel'[t].open /\ t \in Tabs
    BY <1>1 DEF ClosedPanel, OpRows
  <1>3. Active(o) /\ op[o].kind = "send" /\ ~Active(o)'
    BY <1>1, DoneInactive DEF CopyInv, SendCloses, Active
  <1>4. CopiesOlder' /\ OwnCopies'
    BY <1>1, <1>2 DEF CopyInv, CopiesOlder, OwnCopies
  <1>5. \A x \in Ops \ {o} : op'[x] = op[x]
    BY <1>1 DEF OnlyOp
  <1>6. \A p \in Ops : Active(p) /\ op[p].kind = "send" /\ op[p].tab = t => p = o
    BY <1>3 DEF CopyInv, SendsShown
  <1>7. ASSUME NEW x \in Ops \ {o}
        PROVE  SendsShown(x)' /\ SendCloses(x)'
    <2>0. SendsShown(x) /\ SendCloses(x) /\ op'[x] = op[x]
      BY <1>5 DEF CopyInv
    <2>1. SendCloses(x)'
      BY <2>0 DEF SendCloses
    <2>2. SendsShown(x)'
      <3> SUFFICES ASSUME Active(x), op[x].kind = "send"
                   PROVE  /\ Mounted(x)' /\ panel'[op[x].tab].text = op[x].text
                          /\ \A p \in Ops : Active(p)' /\ op'[p].kind = "send"
                                            /\ op'[p].tab = op[x].tab => p = x
        BY <1>1, <2>0 DEF SendsShown, Active
      <3>1. op[x].tab \in Tabs /\ op[x].tab # t
        BY <1>6, ActiveRows DEF OpRows, ComposeBase
      <3>2. Mounted(x)' /\ panel'[op[x].tab].text = op[x].text
        BY <1>1, <2>0, <3>1 DEF SendsShown, Mounted
      <3>3. ASSUME NEW p \in Ops, Active(p)', op'[p].kind = "send", op'[p].tab = op[x].tab
            PROVE  p = x
        BY <1>3, <1>5, <2>0, <3>3 DEF SendsShown, Active
      <3> QED
        BY <3>2, <3>3
    <2> QED
      BY <2>1, <2>2
  <1>8. SendsShown(o)' /\ SendCloses(o)'
    BY <1>1, <1>3 DEF SendsShown, SendCloses, DoneOp
  <1> QED
    BY <1>4, <1>7, <1>8 DEF CopyInv
---------------------------------------------------------------------------
(* The invariant of the composer, and what it says.                        *)

LEMMA ComposeStart ==
  ComposeInit => ComposeInv
  <1> SUFFICES ASSUME ComposeInit
               PROVE  ComposeInv
    OBVIOUS
  <1> DEFINE n == Cardinality(Saved)
  <1>0. n \in Nat /\ n \in Texts /\ 0 \in Texts
    BY SavedAssumption, Numbers, FS_CardinalityType DEF Texts
  <1>1. PICK number \in [Saved -> 1 .. n] :
           /\ \A c, d \in Saved : number[c] = number[d] => c = d
           /\ draft = [d \in Drafts |->
                 IF d \in Saved THEN [NoDraft EXCEPT !.status = "draft",
                                         !.text = number[d], !.version = number[d]]
                                ELSE NoDraft]
    BY DEF ComposeInit
  <1>2. /\ edits = n /\ stamps = n
        /\ panel = [t \in Tabs |-> ClosedPanel]
        /\ copies = <<>> /\ op = [o \in Ops |-> IdleOp] /\ opens = 0
        /\ mails = [t \in Texts |-> 0] /\ lost = 0 /\ doubts = {}
    BY DEF ComposeInit
  <1> HIDE DEF n
  <1>3. ASSUME NEW d \in Drafts
        PROVE  /\ draft[d] \in DraftRows
               /\ draft[d].version <= n /\ draft[d].text <= n
               /\ draft[d].status = "draft" =>
                     d \in Saved /\ draft[d].version = number[d] /\ draft[d].version >= 1
    <2>1. CASE d \in Saved
      <3>0. number[d] \in 1 .. n
        BY <1>1, <2>1
      <3>1. number[d] \in 1 .. n /\ number[d] \in Texts
        BY <1>0, <3>0, Numbers DEF Texts
      <3>2. PICK k \in Texts : k = number[d] /\ k >= 1 /\ k <= n
        BY <1>0, <3>1
      <3>3. draft[d] = [NoDraft EXCEPT !.status = "draft", !.text = k, !.version = k]
        BY <1>1, <2>1, <3>2
      <3>4. k \in Nat
        BY <3>2, Numbers DEF Texts
      <3> QED
        BY <2>1, <3>2, <3>3, <3>4 DEF NoDraft, DraftRows, Versions
    <2>2. CASE d \notin Saved
      <3>1. draft[d] = NoDraft
        BY <1>1, <2>2
      <3> QED
        BY <1>0, <3>1 DEF NoDraft, DraftRows, Versions
    <2> QED
      BY <2>1, <2>2
  <1>4. ASSUME NEW t \in Tabs
        PROVE  panel[t] \in Panels /\ panel[t] = ClosedPanel /\ ~panel[t].open
               /\ panel[t].version = 0 /\ panel[t].text = 0
               /\ panel[t].mount = 0 /\ panel[t].work = 0
    BY <1>0, <1>2, Numbers DEF ClosedPanel, Panels, Versions
  <1>5. ASSUME NEW o \in Ops
        PROVE  op[o] = IdleOp /\ op[o].stage = "idle" /\ ~Active(o)
    BY <1>2 DEF IdleOp, Active
  <1>6. ComposeTypeOK
    <2>1. draft \in [Drafts -> DraftRows]
      <3>1. draft = [d \in Drafts |-> draft[d]]
        BY <1>1
      <3> QED
        BY <1>3, <3>1
    <2>2. panel \in [Tabs -> Panels]
      BY <1>2, <1>4
    <2>3. op \in [Ops -> OpRows \cup {IdleOp, DoneOp}]
      BY <1>2
    <2>4. copies \in Seq(CopyRows) /\ \A i, j \in DOMAIN copies : copies[i].id = copies[j].id => i = j
      BY <1>2, EmptySeq
    <2>5. opens \in 0 .. MaxOpens /\ lost \in 0 .. MaxLost /\ edits \in Texts
          /\ stamps \in Versions /\ mails \in [Texts -> Nat] /\ doubts \subseteq Doubts
      BY <1>0, <1>2, Numbers DEF Versions
    <2> QED
      BY <2>1, <2>2, <2>3, <2>4, <2>5 DEF ComposeTypeOK
  <1>7. ComposeBounded
    <2>1. DraftBounds
      BY <1>2, <1>3 DEF DraftBounds
    <2>2. PanelBounds
      BY <1>0, <1>2, <1>4 DEF PanelBounds
    <2>3. OpBounds
      BY <1>5 DEF OpBounds
    <2>4. CopyBounds
      BY <1>2, EmptySeq DEF CopyBounds
    <2> QED
      BY <2>1, <2>2, <2>3, <2>4 DEF ComposeBounded
  <1>8. StoreInvariant /\ OwnNumbers
    <2>1. StoreInvariant
      BY <1>5 DEF StoreInvariant, OwnVersion, StoredText
    <2>2. OwnNumbers
      <3>1. ASSUME NEW c \in Drafts, NEW d \in Drafts, draft[c].status = "draft",
                   draft[d].status = "draft", draft[c].version = draft[d].version
            PROVE  c = d
        <4>1. c \in Saved /\ d \in Saved /\ number[c] = number[d]
          BY <1>3, <3>1
        <4> QED
          BY <1>1, <4>1
      <3> QED
        BY <3>1 DEF OwnNumbers
    <2> QED
      BY <2>1, <2>2
  <1>9. SaveInv
    BY <1>4, <1>5 DEF SaveInv, FormKnows, SaveKnows, FormsDraft, ScheduleKnows, FormStale, Stale, Wins
  <1>10. CopyInv
    BY <1>4, <1>5 DEF CopyInv, CopiesOlder, OwnCopies, SendsShown, SendCloses
  <1> QED
    BY <1>6, <1>7, <1>8, <1>9, <1>10 DEF ComposeInv

(* Types, numbers and stored texts.                                        *)
LEMMA StepBase ==
  ASSUME ComposeBase, ComposeNext
  PROVE  ComposeBase' /\ doubts \subseteq doubts'
  <1>1. ASSUME NEW t \in Tabs, User(t) \/ Browser(t)
        PROVE  ComposeBase'
    BY <1>1, UserBase, ClickBase DEF User
  <1>2. ASSUME NEW o \in Ops, NEW d \in Drafts, ServeCreate(o, d)
        PROVE  ComposeBase'
    BY <1>2, ServeCreateTyped, StoresBase DEF ComposeBase
  <1>3. ASSUME NEW o \in Ops, ServeUpdate(o)
        PROVE  ComposeBase'
    <2>1. op[o].draftId \in Drafts /\ ComposeTypeOK' /\ Stores(o, op[o].draftId)
      BY <1>3, ServeUpdateTyped DEF ComposeBase
    <2> QED
      BY <2>1, StoresBase
  <1>4. ASSUME Server
        PROVE  ComposeBase'
    <2>1. ASSUME NEW o \in Ops, \/ Refuse(o, "persist", "persisted")
                               \/ Refuse(o, "deliver", "delivered")
                               \/ ServeMessage(o) \/ ServeSend(o) \/ ServeSchedule(o)
          PROVE  ComposeBase'
      BY <2>1, RefuseBase, SendsBase, ServeScheduleBase
    <2>2. ASSUME NEW d \in Drafts, Deliver(d)
          PROVE  ComposeBase'
      BY <2>2, DeliverBase
    <2>3. \/ \E o \in Ops, d \in Drafts : ServeCreate(o, d)
          \/ \E o \in Ops : ServeUpdate(o)
          \/ \E o \in Ops : \/ Refuse(o, "persist", "persisted")
                            \/ Refuse(o, "deliver", "delivered")
                            \/ ServeMessage(o) \/ ServeSend(o) \/ ServeSchedule(o)
          \/ \E d \in Drafts : Deliver(d)
      BY <1>4, Zenon DEF Server
    <2> QED
      BY <1>2, <1>3, <2>1, <2>2, <2>3
  <1>5. ASSUME NEW o \in Ops, Resume(o) \/ Lose(o)
        PROVE  ComposeBase'
    BY <1>5, AnswerPersistBase, EndsBase, AnswerSendBase, CloseAfterSendBase, AnswerScheduleBase
    DEF Resume
  <1>6. doubts \subseteq doubts'
    BY DEF ComposeNext, User, Browser, Server, Resume, Open, Switch, Type, Close, Click, Fetch,
           Recover, Autosave, ServeCreate, ServeUpdate, Refuse, ServeMessage, ServeSend,
           ServeSchedule, Deliver, AnswerPersist, AnswerRefused, AnswerSend, CloseAfterSend,
           AnswerSchedule, Lose
  <1> QED
    BY <1>1, <1>4, <1>5, <1>6 DEF ComposeNext

LEMMA StepNumbers ==
  ASSUME ComposeBase, OwnNumbers, ComposeNext
  PROVE  OwnNumbers'
  <1>1. ASSUME draft' = draft
        PROVE  OwnNumbers'
    BY <1>1 DEF OwnNumbers
  <1>2. ASSUME NEW o \in Ops, NEW d \in Drafts, Stores(o, d)
        PROVE  OwnNumbers'
    BY <1>2, NumbersGrow DEF Stores, ComposeBase, ComposeBounded
  <1>3. ASSUME NEW o \in Ops, ServeSchedule(o)
        PROVE  OwnNumbers'
    BY <1>3, ServeScheduleTyped, NumbersGrow DEF ComposeBase, ComposeBounded
  <1>4. ASSUME NEW o \in Ops, NEW d \in Drafts, ServeCreate(o, d)
        PROVE  OwnNumbers'
    BY <1>2, <1>4, ServeCreateTyped DEF ComposeBase
  <1>5. ASSUME NEW o \in Ops, ServeUpdate(o)
        PROVE  OwnNumbers'
    BY <1>2, <1>5, ServeUpdateTyped DEF ComposeBase
  <1>6. ASSUME NEW o \in Ops, ServeSend(o)
        PROVE  OwnNumbers'
    BY <1>6, ServeSendTyped, NumbersStay DEF Sends, ComposeBase
  <1>7. ASSUME NEW d \in Drafts, Deliver(d)
        PROVE  OwnNumbers'
    BY <1>7, DeliverTyped, NumbersStay DEF ComposeBase
  <1>8. CASE Server
    BY <1>1, <1>3, <1>4, <1>5, <1>6, <1>7, <1>8 DEF Server, Refuse, ServeMessage
  <1>9. ASSUME NEW t \in Tabs, User(t) \/ Browser(t)
        PROVE  OwnNumbers'
    BY <1>1, <1>9 DEF User, Browser, Open, Switch, Type, Close, Click, Fetch, Recover, Autosave
  <1>10. ASSUME NEW o \in Ops, Resume(o) \/ Lose(o)
         PROVE  OwnNumbers'
    BY <1>1, <1>10 DEF Resume, AnswerPersist, AnswerRefused, AnswerSend, CloseAfterSend,
                      AnswerSchedule, Lose
  <1> QED
    BY <1>8, <1>9, <1>10 DEF ComposeNext

LEMMA StepSaves ==
  ASSUME ComposeBase, OwnNumbers, SaveInv, ComposeNext, "save" \notin doubts'
  PROVE  SaveInv'
  <1>1. ASSUME NEW t \in Tabs, User(t) \/ Browser(t)
        PROVE  SaveInv'
    BY <1>1, OpenSaves, QuietFormSaves, ClickSaves, FetchSaves, RecoverSaves DEF User, Browser
  <1>2. ASSUME NEW o \in Ops, NEW d \in Drafts, ServeCreate(o, d)
        PROVE  SaveInv'
    BY <1>2, ServeCreateTyped, StoresSaves DEF ComposeBase
  <1>3. ASSUME NEW o \in Ops, ServeUpdate(o)
        PROVE  SaveInv'
    BY <1>3, ServeUpdateTyped, StoresSaves DEF ComposeBase
  <1>4. CASE Server
    BY <1>2, <1>3, <1>4, QuietOpSaves, ServeScheduleSaves DEF Server
  <1>5. ASSUME NEW o \in Ops, Resume(o) \/ Lose(o)
        PROVE  SaveInv'
    BY <1>5, AnswerPersistSaves, QuietOpSaves, AnswerScheduleSaves DEF Resume
  <1> QED
    BY <1>1, <1>4, <1>5 DEF ComposeNext

LEMMA StepCopies ==
  ASSUME ComposeBase, CopyInv, ComposeNext, "copy" \notin doubts'
  PROVE  CopyInv'
  <1>1. ASSUME NEW t \in Tabs, User(t) \/ Browser(t)
        PROVE  CopyInv'
    BY <1>1, OpenCopies, SwitchCopies, TypeCopies, CloseCopies, ClickCopies, FetchCopies,
       RecoverCopies, AutosaveCopies DEF User, Browser
  <1>2. CASE Server
    BY <1>2, ServerCopies, DeliverCopies DEF Server
  <1>3. ASSUME NEW o \in Ops, Resume(o) \/ Lose(o)
        PROVE  CopyInv'
    BY <1>3, AnswerPersistCopies, EndsCopies, AnswerSendCopies, CloseAfterSendCopies,
       AnswerScheduleCopies DEF Resume
  <1> QED
    BY <1>1, <1>2, <1>3 DEF ComposeNext

(* A step that changes nothing keeps it.                                   *)
LEMMA ComposeStays ==
  ASSUME ComposeInv, UNCHANGED composeVars
  PROVE  ComposeInv'
  BY DEF ComposeInv, composeVars, ComposeTypeOK, ComposeBounded, DraftBounds, PanelBounds, OpBounds,
         CopyBounds, StoreInvariant, OwnVersion, StoredText, OwnNumbers, SaveInv, FormKnows,
         SaveKnows, FormsDraft, ScheduleKnows, FormStale, Stale, CopyInv, CopiesOlder, OwnCopies,
         SendsShown, SendCloses, Fresh, Scheduling, HasStored, Wins, Active, Matches, Mounted

(* Every step keeps the invariant.                                         *)
LEMMA ComposeSteps ==
  ComposeInv /\ [ComposeNext]_composeVars => ComposeInv'
  <1> SUFFICES ASSUME ComposeInv, [ComposeNext]_composeVars
               PROVE  ComposeInv'
    OBVIOUS
  <1>1. CASE ComposeNext
    <2>1. ComposeBase /\ OwnNumbers
      BY DEF ComposeInv, ComposeBase
    <2>2. ComposeBase' /\ doubts \subseteq doubts' /\ OwnNumbers'
      BY <1>1, <2>1, StepBase, StepNumbers
    <2>3. "save" \notin doubts' => SaveInv'
      BY <1>1, <2>1, <2>2, StepSaves DEF ComposeInv
    <2>4. "copy" \notin doubts' => CopyInv'
      BY <1>1, <2>1, <2>2, StepCopies DEF ComposeInv
    <2> QED
      BY <2>2, <2>3, <2>4 DEF ComposeInv, ComposeBase
  <1>2. CASE UNCHANGED composeVars
    BY <1>2, ComposeStays
  <1> QED
    BY <1>1, <1>2

(* The inductive invariant of the composer.                                *)
THEOREM ComposeInductive == ComposeSpec => []ComposeInv
  BY ComposeStart, ComposeSteps, PTL DEF ComposeSpec

(* Panels, working copies, clicks and drafts have the types the code gives *)
(* them, and the table of working copies has one row for a key.            *)
THEOREM ComposeTypeCorrect == ComposeSpec => []ComposeTypeOK
  <1>1. ComposeInv => ComposeTypeOK
    BY DEF ComposeInv
  <1> QED
    BY <1>1, ComposeInductive, PTL

---------------------------------------------------------------------------
(* What the server is given.                                               *)

LEMMA StoresTheForm ==
  ASSUME ComposeInv, NEW o \in Ops, Replaced(o), Matches(o)
  PROVE  \/ "save" \in doubts
         \/ /\ draft[op[o].draftId].text = op[o].base
            /\ op[o].about = op[o].draftId
  BY DEF ComposeInv, SaveInv, SaveKnows, Replaced

LEMMA MailsTheForm ==
  ASSUME ComposeInv, NEW o \in Ops, ServeMessage(o) \/ ServeSend(o)
  PROVE  mails'[op[o].text] = mails[op[o].text] + 1
  <1>0. ComposeBase
    BY DEF ComposeInv, ComposeBase
  <1>1. CASE ServeMessage(o)
    BY <1>0, <1>1, ServeMessageTyped DEF ComposeBase
  <1>2. CASE ServeSend(o)
    <2>1. Matches(o) /\ op[o].draftId \in Drafts /\ Sends(o)
          /\ mails'[draft[op[o].draftId].text] = mails[draft[op[o].draftId].text] + 1
      BY <1>0, <1>2, ServeSendTyped DEF ComposeBase
    <2>2. HasStored(o) /\ Active(o)
      BY <2>1, NullAssumption DEF HasStored, Sends, Active
    <2>3. draft[op[o].draftId].text = op[o].text
      BY <1>0, <2>1, <2>2 DEF ComposeBase, StoreInvariant, StoredText, Matches
    <2> QED
      BY <2>1, <2>3
  <1> QED
    BY <1>1, <1>2

(* A request is served by a step of the server for it.                     *)
LEMMA WhoServes ==
  ASSUME ComposeBase, ComposeNext, NEW o \in Ops, op'[o].ok,
         \/ op[o].stage = "persist" /\ op'[o].stage = "persisted"
         \/ op[o].stage = "deliver" /\ op'[o].stage = "delivered"
  PROVE  \/ \E d \in Drafts : ServeCreate(o, d)
         \/ ServeUpdate(o) \/ ServeMessage(o) \/ ServeSend(o) \/ ServeSchedule(o)
  <1>1. op'[o] # op[o] /\ op'[o] # DoneOp /\ op'[o].stage # "closing"
    BY DEF DoneOp
  <1>2. ASSUME NEW t \in Tabs, User(t) \/ Browser(t)
        PROVE  FALSE
    <2>1. op' = op \/ \E x \in Ops, kind \in Kinds : Click(x, t, kind)
      BY <1>2 DEF User, Browser, Open, Switch, Type, Close, Fetch, Recover, Autosave
    <2>2. ASSUME NEW x \in Ops, NEW kind \in Kinds, Click(x, t, kind)
          PROVE  FALSE
      <3>1. OnlyOp(x) /\ op[x].stage = "idle"
        BY <2>2, ClickTyped DEF ComposeBase
      <3> QED
        BY <1>1, <3>1 DEF OnlyOp
    <2> QED
      BY <1>1, <2>1, <2>2
  <1>3. ASSUME NEW x \in Ops, Resume(x) \/ Lose(x)
        PROVE  FALSE
    <2>1. CASE AnswerPersist(x)
      <3>1. OnlyOp(x) /\ op[x].stage = "persisted"
        BY <2>1, AnswerPersistTyped DEF ComposeBase
      <3> QED
        BY <1>1, <3>1 DEF OnlyOp
    <2>2. CASE AnswerRefused(x) \/ Lose(x)
      BY <1>1, <2>2, EndsTyped DEF Ends, OnlyOp, ComposeBase
    <2>3. CASE AnswerSend(x)
      BY <1>1, <2>3, AnswerSendTyped DEF OnlyOp, ComposeBase
    <2>4. CASE CloseAfterSend(x)
      BY <1>1, <2>4, CloseAfterSendTyped DEF OnlyOp, ComposeBase
    <2>5. CASE AnswerSchedule(x)
      BY <1>1, <2>5, AnswerScheduleTyped DEF OnlyOp, ComposeBase
    <2> QED
      BY <1>3, <2>1, <2>2, <2>3, <2>4, <2>5 DEF Resume
  <1>4. ASSUME NEW x \in Ops, x # o
        PROVE  /\ ~\E d \in Drafts : ServeCreate(x, d)
               /\ ~ServeUpdate(x) /\ ~ServeMessage(x) /\ ~ServeSend(x) /\ ~ServeSchedule(x)
    BY <1>1, <1>4, ServeCreateTyped, ServeUpdateTyped, ServeMessageTyped, ServeSendTyped,
       ServeScheduleTyped DEF Stores, Sends, OnlyOp, ComposeBase
  <1>5. ASSUME NEW x \in Ops
        PROVE  ~Refuse(x, "persist", "persisted") /\ ~Refuse(x, "deliver", "delivered")
    BY <1>1, RefuseTyped DEF OnlyOp, ComposeBase
  <1>6. ~\E d \in Drafts : Deliver(d)
    BY <1>1, DeliverTyped DEF ComposeBase
  <1> QED
    BY <1>2, <1>3, <1>4, <1>5, <1>6 DEF ComposeNext, Server

(* The server gets what the composer shows: a save that is accepted        *)
(* replaces the text its form loaded or saved last, and Send mails the     *)
(* form as it was when the button was pressed.                             *)
THEOREM ServerGetsForm == ComposeSpec => ServerGetsTheForm
  <1>1. ASSUME ComposeInv, ComposeNext, NEW o \in Ops
        PROVE  /\ Replaced(o) => \/ "save" \in doubts
                                 \/ /\ draft[op[o].draftId].text = op[o].base
                                    /\ op[o].about = op[o].draftId
               /\ Mailed(o) => mails'[op[o].text] = mails[op[o].text] + 1
    <2>0. ComposeBase
      BY <1>1 DEF ComposeInv, ComposeBase
    <2>1. ASSUME Replaced(o)
          PROVE  \/ "save" \in doubts
                 \/ /\ draft[op[o].draftId].text = op[o].base
                    /\ op[o].about = op[o].draftId
      <3>1. \/ \E d \in Drafts : ServeCreate(o, d)
            \/ ServeUpdate(o) \/ ServeMessage(o) \/ ServeSend(o) \/ ServeSchedule(o)
        BY <1>1, <2>0, <2>1, WhoServes DEF Replaced
      <3>2. Matches(o)
        BY <2>1, <3>1 DEF Replaced, ServeCreate, ServeUpdate, ServeMessage, ServeSend, ServeSchedule
      <3> QED
        BY <1>1, <2>1, <3>2, StoresTheForm
    <2>2. ASSUME Mailed(o)
          PROVE  mails'[op[o].text] = mails[op[o].text] + 1
      <3>1. \/ \E d \in Drafts : ServeCreate(o, d)
            \/ ServeUpdate(o) \/ ServeMessage(o) \/ ServeSend(o) \/ ServeSchedule(o)
        BY <1>1, <2>0, <2>2, WhoServes DEF Mailed
      <3>2. ServeMessage(o) \/ ServeSend(o)
        BY <2>2, <3>1 DEF Mailed, ServeCreate, ServeUpdate, ServeSchedule
      <3> QED
        BY <1>1, <3>2, MailsTheForm
    <2> QED
      BY <2>1, <2>2
  <1>2. ComposeInv /\ [ComposeNext]_composeVars =>
           [\A o \in Ops :
              /\ Replaced(o) => \/ "save" \in doubts
                                \/ /\ draft[op[o].draftId].text = op[o].base
                                   /\ op[o].about = op[o].draftId
              /\ Mailed(o) => mails'[op[o].text] = mails[op[o].text] + 1]_composeVars
    BY <1>1
  <1> QED
    BY <1>2, ComposeInductive, PTL DEF ComposeSpec, ServerGetsTheForm

---------------------------------------------------------------------------
(* What becomes of working copies.                                         *)

(* The working copy i survives, or its text or a later one was mailed.     *)
Advances(i) ==
  \/ \E j \in DOMAIN copies' : /\ copies'[j].id = copies[i].id
                               /\ copies'[j].text >= copies[i].text
  \/ \E t \in Texts : t >= copies[i].text /\ mails[t] > 0

LEMMA StayAdvances ==
  ASSUME ComposeBase, copies' = copies, NEW i \in DOMAIN copies
  PROVE  Advances(i)
  <1>1. copies[i].text \in Nat
    BY Counters DEF ComposeBase
  <1> QED
    BY <1>1 DEF Advances

LEMMA LinkAdvances ==
  ASSUME ComposeBase, NEW o \in Ops, AnswerPersist(o), NEW i \in DOMAIN copies
  PROVE  Advances(i)
  <1>1. op[o].draftId \in Drafts /\ copies' = Link(op[o].work, op[o].draftId)
    BY AnswerPersistTyped DEF ComposeBase
  <1>2. copies \in Seq(CopyRows) /\ Keyed(copies) /\ op[o].draftId \in Drafts \cup {Null}
    BY <1>1 DEF ComposeBase, ComposeTypeOK, Keyed
  <1>3. /\ DOMAIN copies' = DOMAIN copies
        /\ copies'[i].id = copies[i].id /\ copies'[i].text = copies[i].text
    BY <1>1, <1>2, LinkRows
  <1>4. copies[i].text \in Nat
    BY Counters DEF ComposeBase
  <1> QED
    BY <1>3, <1>4 DEF Advances

LEMMA SendAdvances ==
  ASSUME ComposeBase, CopyInv, NEW o \in Ops, AnswerSend(o), NEW i \in DOMAIN copies
  PROVE  Advances(i)
  <1>1. /\ op[o] \in OpRows /\ op[o].stage = "delivered" /\ op[o].ok /\ op[o].kind = "send"
        /\ copies' = Without(WorkOf(o))
    BY AnswerSendTyped DEF ComposeBase
  <1>2. copies[i].text \in Nat
    BY Counters DEF ComposeBase
  <1>3. CASE copies[i].id # WorkOf(o)
    <2>1. \E j \in DOMAIN copies' : copies'[j] = copies[i]
      BY <1>1, <1>3, WithoutRows DEF ComposeBase, ComposeTypeOK, Keyed
    <2> QED
      BY <1>2, <2>1 DEF Advances
  <1>4. CASE copies[i].id = WorkOf(o)
    <2>1. /\ Mounted(o) /\ panel[op[o].tab].text = op[o].text /\ mails[op[o].text] > 0
      BY <1>1 DEF CopyInv, SendsShown, Active
    <2>2. op[o].tab \in Tabs /\ op[o].text \in Texts /\ op[o].text \in Nat
      BY <1>1, Counters DEF OpRows, ComposeBase
    <2>3. copies[i].text <= op[o].text
      BY <1>4, <2>1, <2>2 DEF CopyInv, CopiesOlder, WorkOf, Mounted
    <2> QED
      BY <1>2, <2>1, <2>2, <2>3 DEF Advances
  <1> QED
    BY <1>3, <1>4

(* A working copy is only ever replaced by a later text, and deleted when  *)
(* its text, or a later one, was mailed.                                   *)
THEOREM CopiesAdvance == ComposeSpec => WorkingCopiesAdvance
  <1>1. ASSUME ComposeInv, ComposeNext, NEW i \in DOMAIN copies, "copy" \notin doubts'
        PROVE  Advances(i)
    <2>0. ComposeBase /\ CopyInv
      <3>1. ComposeBase
        BY <1>1 DEF ComposeInv, ComposeBase
      <3>2. "copy" \notin doubts
        BY <1>1, <3>1, StepBase
      <3> QED
        BY <1>1, <3>1, <3>2 DEF ComposeInv
    <2>1. \/ copies' = copies
          \/ \E t \in Tabs : Autosave(t)
          \/ \E o \in Ops : AnswerPersist(o) \/ AnswerSend(o)
      BY <1>1 DEF ComposeNext, User, Browser, Server, Resume, Open, Switch, Type, Close, Click,
                  Fetch, Recover, ServeCreate, ServeUpdate, Refuse, ServeMessage, ServeSend,
                  ServeSchedule, Deliver, AnswerRefused, CloseAfterSend, AnswerSchedule, Lose
    <2>2. ASSUME NEW t \in Tabs, Autosave(t)
          PROVE  Advances(i)
      BY <2>0, <2>2, AutosaveRows DEF Advances
    <2> QED
      BY <2>0, <2>1, <2>2, StayAdvances, LinkAdvances, SendAdvances
  <1>2. ComposeInv /\ [ComposeNext]_composeVars =>
           [\A i \in DOMAIN copies :
              \/ \E j \in DOMAIN copies' : /\ copies'[j].id = copies[i].id
                                           /\ copies'[j].text >= copies[i].text
              \/ \E t \in Texts : t >= copies[i].text /\ mails[t] > 0
              \/ "copy" \in doubts']_composeVars
    BY <1>1 DEF Advances
  <1> QED
    BY <1>2, ComposeInductive, PTL DEF ComposeSpec, WorkingCopiesAdvance

=============================================================================
