------------------------------- MODULE History -------------------------------
(***************************************************************************)
(* The table as the shell pages through it.  A client asks for the newest  *)
(* rows, then for the newest ones before the last it was given, and so on, *)
(* each request a statement of its own; meanwhile notifications come in,   *)
(* are dismissed, replaced and cleaned up.                                 *)
(*                                                                         *)
(* A notification takes its timestamp from the wall clock when it is built *)
(* and is inserted later: two may have the same timestamp, and they may be *)
(* inserted in another order, or after the clock has been set back.  Of    *)
(* rows with the same timestamp SQLite returns any first.                  *)
(***************************************************************************)
EXTENDS Storage, FiniteSetsExt

CONSTANTS
    App,        \* application names
    Sender,     \* the app of each call
    IdOf,       \* and its id: calls with the same id replace each other
    Latest,     \* bound: timestamps are 1 .. Latest
    Size,       \* what each notification adds to a message, its icon for the most part
    MaxMessage, \* MAX_MESSAGE_SIZE (1 MB)
    Limits,     \* page sizes a client may ask for
    MaxCounts,  \* values of max_count
    DbMayFail   \* TRUE: any query may return an error

ASSUME SenderAssumption == Sender \in [Call -> App]
ASSUME IdOfAssumption == IdOf \in [Call -> Ids]
ASSUME LatestAssumption == Latest \in Nat \ {0}
ASSUME SizeAssumption == Size \in [Call -> Nat] /\ MaxMessage \in Nat
ASSUME LimitsAssumption == Limits \subseteq Nat \ {0}
ASSUME MaxCountsAssumption == MaxCounts \subseteq Nat \ {0}
ASSUME DbMayFailAssumption == DbMayFail \in BOOLEAN

VARIABLES
    db,       \* the notifications table
    stamp,    \* the timestamp of each call (0: not built yet)
    stored,   \* the calls that have been inserted
    reader,   \* the client: what it does, the app it asks for, its cursor
    page,     \* the notifications it was given last,
    listed,   \* and all those it has been given
    opened,   \* history: those that matched when it began
    cursors,  \* history: the cursors it has used
    failed    \* history: a page was lost to an error

readerVars == <<reader, page, listed, opened, cursors, failed>>
vars == <<db, stamp, stored, readerVars>>

\* "9999-12-31T23:59:59Z", the cursor of a request without one.
NoCursor == Latest + 1

\* app_name: an app, or none for all.
Filters == {{}} \cup {{a} : a \in App}
Matches(c, filter) == Sender[c] \in filter \/ filter = {}

IdleReader == [pc |-> "idle", filter |-> {}, before |-> NoCursor]

Init ==
    /\ db = {}
    /\ stamp = [c \in Call |-> 0]
    /\ stored = {}
    /\ reader = IdleReader
    /\ page = {}
    /\ listed = {}
    /\ opened = {}
    /\ cursors = {}
    /\ failed = FALSE

-----------------------------------------------------------------------------
(* What changes the table *)

\* chrono::Utc::now() in handle_notify.
Build(c, now) ==
    /\ stamp[c] = 0
    /\ stamp' = [stamp EXCEPT ![c] = now]
    /\ UNCHANGED <<db, stored, readerVars>>

InsertNotification(c) ==
    /\ stamp[c] # 0 /\ c \notin stored
    /\ db' = Insert(db, [id |-> IdOf[c], call |-> c, stamp |-> stamp[c],
                         dismissed |-> FALSE])
    /\ stored' = stored \cup {c}
    /\ UNCHANGED <<stamp, readerVars>>

DismissNotification(id) ==
    /\ db' = Dismiss(db, id)
    /\ UNCHANGED <<stamp, stored, readerVars>>

\* ORDER BY timestamp DESC LIMIT n: the answers SQLite may give.
Newest(rows, n) ==
    {top \in SUBSET rows :
        /\ Cardinality(top) = IF Cardinality(rows) < n THEN Cardinality(rows) ELSE n
        /\ \A r \in top, s \in rows \ top : r.stamp >= s.stamp}

CleanupAge(cutoff) ==
    /\ db' = DeleteOlder(db, cutoff)
    /\ UNCHANGED <<stamp, stored, readerVars>>

CleanupCount(max_count) ==
    /\ db' \in Newest(db, max_count)
    /\ UNCHANGED <<stamp, stored, readerVars>>

-----------------------------------------------------------------------------
(* GetKnownApps and GetHistory *)

CallsOf(rows) == {r.call : r \in rows}

\* SELECT DISTINCT app_name
KnownApps == {Sender[c] : c \in CallsOf(db)}

\* The history of all, or of an app picked from the known ones.
OpenHistory(filter) ==
    /\ reader.pc = "idle"
    /\ filter \subseteq KnownApps
    /\ reader' = [pc |-> "paging", filter |-> filter, before |-> NoCursor]
    /\ opened' = {c \in CallsOf(db) : Matches(c, filter)}
    /\ UNCHANGED <<db, stamp, stored, page, listed, cursors, failed>>

\* WHERE timestamp <= ?
Earlier_OrTied(s, before) == s <= before

\* WHERE timestamp < ?
Earlier(s, before) == s < before

Matching == {r \in db : Earlier(r.stamp, reader.before)
                        /\ Matches(r.call, reader.filter)}

\* has_more as if one row more than asked for had been read.
HasMore_IfLonger(rows, limit) == Cardinality(rows) > limit

\* notifications.len() == limit
HasMore(rows, limit) == Cardinality(rows) = limit

\* A page can be sent if it can be encoded.
Fits(rows) == MapThenSumSet(LAMBDA r : Size[r.call], rows) <= MaxMessage

\* The client goes on from the last notification of the page, as long as there
\* is more.
NextPage(limit) ==
    /\ reader.pc = "paging"
    /\ \E rows \in Newest(Matching, limit) :
          /\ Fits(rows)
          /\ page' = CallsOf(rows)
          /\ IF HasMore(rows, limit)
               THEN \E last \in rows :
                      /\ \A r \in rows : last.stamp <= r.stamp
                      /\ reader' = [reader EXCEPT !.before = last.stamp]
                      /\ cursors' = cursors \cup {last.stamp}
               ELSE /\ reader' = [reader EXCEPT !.pc = "done"]
                    /\ cursors' = cursors
    /\ listed' = listed \cup page'
    /\ UNCHANGED <<db, stamp, stored, opened, failed>>

\* A page too large to encode ends the handler.  The writer stays registered, so the
\* connection stays open, and the client is not answered.
PageTooLarge(limit) ==
    /\ reader.pc = "paging"
    /\ \E rows \in Newest(Matching, limit) : ~Fits(rows)
    /\ reader' = [reader EXCEPT !.pc = "unanswered"]
    /\ UNCHANGED <<db, stamp, stored, page, listed, opened, cursors, failed>>

\* unwrap_or_default: an error is answered with an empty page.
PageFails ==
    /\ DbMayFail
    /\ reader.pc = "paging"
    /\ reader' = [reader EXCEPT !.pc = "done"]
    /\ failed' = TRUE
    /\ UNCHANGED <<db, stamp, stored, page, listed, opened, cursors>>

\* From a client that is not answered, over another connection.
CloseHistory ==
    /\ reader.pc \in {"done", "unanswered"}
    /\ reader' = IdleReader
    /\ page' = {}
    /\ listed' = {}
    /\ opened' = {}
    /\ cursors' = {}
    /\ failed' = FALSE
    /\ UNCHANGED <<db, stamp, stored>>

-----------------------------------------------------------------------------

Next ==
    \/ \E c \in Call, now \in 1..Latest : Build(c, now)
    \/ \E c \in Call : InsertNotification(c)
    \/ \E id \in Ids : DismissNotification(id)
    \/ \E cutoff \in 1..Latest : CleanupAge(cutoff)
    \/ \E max_count \in MaxCounts : CleanupCount(max_count)
    \/ \E filter \in Filters : OpenHistory(filter)
    \/ \E limit \in Limits : NextPage(limit) \/ PageTooLarge(limit)
    \/ PageFails
    \/ CloseHistory

Spec == Init /\ [][Next]_vars

\* The client goes on asking, until it is not answered.
LiveSpec == Spec /\ WF_vars(\E limit \in Limits : NextPage(limit) \/ PageTooLarge(limit))

-----------------------------------------------------------------------------
(* Properties *)

\* Type correctness, with the table keyed by id and a row carrying the timestamp
\* of its notification.
TypeOK ==
    /\ db \subseteq Rows
    /\ \A r, s \in db : r.id = s.id => r = s
    /\ \A r \in db : r.call \in stored /\ r.stamp = stamp[r.call]
    /\ stamp \in [Call -> 0..Latest]
    /\ stored \subseteq Call
    /\ reader \in [pc : {"idle", "paging", "done", "unanswered"}, filter : Filters,
                   before : 1..NoCursor]
    /\ page \subseteq Call
    /\ listed \subseteq Call
    /\ opened \subseteq Call
    /\ cursors \subseteq 1..Latest
    /\ failed \in BOOLEAN

\* "Pagination": when a client has come to the end, a notification that was there
\* from the beginning and still is has been listed, whatever was inserted, replaced
\* or deleted between the pages, unless it shares the timestamp at which a page ended.
MissedOnlyAtTies ==
    reader.pc = "done" /\ ~failed =>
        \A c \in opened \cap CallsOf(db) :
            c \in listed \/ stamp[c] \in cursors

\* The pages descend: no notification comes twice, and none after an older one
\* of an earlier page.
PagesDescend ==
    [][\A limit \in Limits :
          NextPage(limit) => \A c \in page', d \in listed : stamp[c] < stamp[d]]_vars

\* A client that goes on comes to an end: a page that says there is more brings
\* it closer, even while notifications come in.  The end is the last page, or a page
\* too large to send, which leaves the client waiting.
PagingEnds == reader.pc = "paging" ~> reader.pc \in {"done", "unanswered"}
=============================================================================
