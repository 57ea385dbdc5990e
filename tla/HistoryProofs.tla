---------------------------- MODULE HistoryProofs ----------------------------
(***************************************************************************)
(* Theorems about paging through the history, for every set of calls and   *)
(* apps, all page sizes, and any timestamps.                               *)
(***************************************************************************)
EXTENDS History, FiniteSetTheorems, TLAPS

\* What the paging rests on: the table and its rows, and what the client has been
\* told.  Everything that was there when it began and is not older than its cursor
\* has been listed or shares a cursor's timestamp.
Settled(c) == c \in listed \/ stamp[c] \in cursors

Table ==
    /\ IsFiniteSet(db)
    /\ db \subseteq Rows
    /\ \A r, s \in db : r.id = s.id => r = s
    /\ \A r \in db : r.call \in stored /\ r.stamp = stamp[r.call]
    /\ stamp \in [Call -> 0..Latest]
    /\ stored \subseteq Call
    /\ \A c \in stored : stamp[c] # 0

Client ==
    /\ reader \in [pc : {"idle", "paging", "done", "unanswered"}, filter : Filters,
                   before : 1..NoCursor]
    /\ page \subseteq stored
    /\ listed \subseteq stored
    /\ opened \subseteq stored
    /\ cursors \subseteq 1..Latest
    /\ failed \in BOOLEAN
    /\ reader.pc = "idle" => listed = {}

Paging ==
    /\ reader.pc = "paging" =>
          /\ \A c \in listed : stamp[c] >= reader.before
          /\ \A c \in opened : Matches(c, reader.filter)
          /\ \A c \in opened \cap CallsOf(db) : stamp[c] >= reader.before => Settled(c)
    /\ MissedOnlyAtTies

Inv == Table /\ Client /\ Paging

\* Nothing is stored and nobody reads.
LEMMA InitInv == Init => Inv
<1> SUFFICES ASSUME Init  PROVE Inv
  OBVIOUS
<1>1. Table
  BY FS_EmptySet, LatestAssumption DEF Init, Table
<1>2. Client
  <2>1. NoCursor \in 1..NoCursor /\ {} \in Filters
    BY LatestAssumption DEF NoCursor, Filters
  <2>2. reader \in [pc : {"idle", "paging", "done", "unanswered"}, filter : Filters,
                    before : 1..NoCursor]
    BY <2>1 DEF Init, IdleReader
  <2>3. QED  BY <2>2 DEF Init, Client
<1>3. Paging
  BY DEF Init, Paging, IdleReader, MissedOnlyAtTies
<1>4. QED  BY <1>1, <1>2, <1>3 DEF Inv

\* A page is taken from the matching rows; nothing newer is left out, and when it
\* is shorter than asked for nothing is left out.
LEMMA PageOf ==
    ASSUME Inv, NEW limit \in Limits, NEW rows \in Newest(Matching, limit)
    PROVE  /\ rows \subseteq Matching
           /\ \A r \in rows, s \in Matching \ rows : r.stamp >= s.stamp
           /\ ~HasMore(rows, limit) => rows = Matching
<1>1. IsFiniteSet(Matching) /\ Cardinality(Matching) \in Nat
  BY FS_Subset, FS_CardinalityType DEF Inv, Table, Matching
<1>2. rows \subseteq Matching /\ \A r \in rows, s \in Matching \ rows : r.stamp >= s.stamp
  BY DEF Newest
<1>3. Cardinality(rows) = IF Cardinality(Matching) < limit
                            THEN Cardinality(Matching) ELSE limit
  BY DEF Newest
<1>4. limit \in Nat
  BY LimitsAssumption
<1>5. ~HasMore(rows, limit) => Cardinality(rows) = Cardinality(Matching)
  BY <1>1, <1>3, <1>4 DEF HasMore
<1>6. QED  BY <1>1, <1>2, <1>5, FS_Subset

\* A step that only takes rows out of the table, or marks them, keeps everything.
LEMMA TableShrinks ==
    ASSUME Inv, UNCHANGED <<stamp, stored, readerVars>>,
           IsFiniteSet(db'), db' \subseteq Rows,
           \A r \in db' : \E s \in db : r.id = s.id /\ r.call = s.call /\ r.stamp = s.stamp,
           \A r, s \in db' : r.id = s.id => r = s
    PROVE  Inv'
<1>1. CallsOf(db') \subseteq CallsOf(db)
  BY DEF CallsOf
<1>2. Table'
  BY DEF Inv, Table
<1>3. Client'
  BY DEF Inv, Client, readerVars
<1>4. Paging'
  BY <1>1 DEF Inv, Paging, MissedOnlyAtTies, Settled, readerVars
<1>5. QED  BY <1>2, <1>3, <1>4 DEF Inv

\* A notification is built before it is stored, so the timestamp of a stored one
\* does not change.
LEMMA BuildInv ==
    ASSUME Inv, NEW c \in Call, NEW now \in 1..Latest, Build(c, now)
    PROVE  Inv'
<1>1. c \notin stored /\ \A d \in stored : stamp'[d] = stamp[d]
  BY DEF Inv, Table, Build
<1>2. stamp' \in [Call -> 0..Latest] /\ UNCHANGED <<db, stored, readerVars>>
  BY DEF Inv, Table, Build
<1>3. \A r \in db : r.call \in stored
  BY DEF Inv, Table
<1>4. Table'
  BY <1>1, <1>2, <1>3 DEF Inv, Table
<1>5. Client'
  BY <1>2 DEF Inv, Client, readerVars
<1>6. Paging'
  <2>1. listed \subseteq stored /\ opened \subseteq stored
    BY DEF Inv, Client
  <2>2. QED
    BY <1>1, <1>2, <2>1 DEF Inv, Paging, MissedOnlyAtTies, Settled, readerVars, CallsOf
<1>7. QED  BY <1>4, <1>5, <1>6 DEF Inv

\* A notification stored now was not there when the client began.
LEMMA InsertInv ==
    ASSUME Inv, NEW c \in Call, InsertNotification(c)
    PROVE  Inv'
<1> DEFINE row == [id |-> IdOf[c], call |-> c, stamp |-> stamp[c], dismissed |-> FALSE]
<1>1. /\ db' = {r \in db : r.id # row.id} \cup {row}
      /\ stored' = stored \cup {c} /\ c \notin stored /\ stamp[c] # 0
      /\ UNCHANGED <<stamp, readerVars>>
  BY DEF InsertNotification, Insert
<1>2. row \in Rows
  <2>1. IdOf[c] \in Ids /\ stamp[c] \in Nat
    BY IdOfAssumption, LatestAssumption DEF Inv, Table
  <2>2. QED  BY <2>1 DEF Rows
<1>3. IsFiniteSet(db')
  <2>1. IsFiniteSet({r \in db : r.id # row.id})
    BY FS_Subset DEF Inv, Table
  <2>2. QED  BY <1>1, <2>1, FS_AddElement
<1>4. Table'
  <2>1. db' \subseteq Rows /\ \A r, s \in db' : r.id = s.id => r = s
    BY <1>1, <1>2 DEF Inv, Table
  <2>2. \A r \in db' : r.call \in stored' /\ r.stamp = stamp'[r.call]
    BY <1>1 DEF Inv, Table
  <2>3. stored' \subseteq Call /\ \A d \in stored' : stamp'[d] # 0
    BY <1>1 DEF Inv, Table
  <2>4. QED  BY <1>1, <1>3, <2>1, <2>2, <2>3 DEF Inv, Table
<1>5. Client'
  BY <1>1 DEF Inv, Client, readerVars
<1>6. opened \cap CallsOf(db') \subseteq opened \cap CallsOf(db)
  BY <1>1 DEF Inv, Client, CallsOf
<1>7. Paging'
  BY <1>1, <1>6 DEF Inv, Paging, MissedOnlyAtTies, Settled, readerVars
<1>8. QED  BY <1>4, <1>5, <1>7 DEF Inv

\* Marking a row keeps the table's keys and timestamps.
LEMMA DismissInv ==
    ASSUME Inv, NEW id \in Ids, DismissNotification(id)
    PROVE  Inv'
<1> DEFINE Marked(r) == IF r.id = id THEN [r EXCEPT !.dismissed = TRUE] ELSE r
<1>1. db' = {Marked(r) : r \in db} /\ UNCHANGED <<stamp, stored, readerVars>>
  BY DEF DismissNotification, Dismiss
<1>2. IsFiniteSet(db')
  <2> DEFINE f == [r \in db |-> IF r.id = id THEN [r EXCEPT !.dismissed = TRUE] ELSE r]
  <2>1. IsFiniteSet(db)
    BY DEF Inv, Table
  <2>2. f \in Surjection(db, db')
    BY <1>1 DEF Surjection
  <2>3. QED  BY <2>1, <2>2, FS_Surjection
<1>3. \A r \in db : /\ Marked(r) \in Rows
                    /\ Marked(r).id = r.id /\ Marked(r).call = r.call
                    /\ Marked(r).stamp = r.stamp
  BY DEF Inv, Table, Rows
<1> HIDE DEF Marked
<1>4. db' \subseteq Rows
      /\ \A r \in db' : \E s \in db : r.id = s.id /\ r.call = s.call /\ r.stamp = s.stamp
  BY <1>1, <1>3
<1>5. \A r, s \in db' : r.id = s.id => r = s
  BY <1>1, <1>3 DEF Inv, Table
<1>6. QED  BY <1>1, <1>2, <1>4, <1>5, TableShrinks

\* A table that loses rows is still one.
LEMMA CleanupInv ==
    ASSUME Inv, db' \subseteq db, UNCHANGED <<stamp, stored, readerVars>>
    PROVE  Inv'
<1>1. IsFiniteSet(db')
  BY FS_Subset DEF Inv, Table
<1>2. QED  BY <1>1, TableShrinks DEF Inv, Table

\* The client begins behind every timestamp.
LEMMA OpenInv ==
    ASSUME Inv, NEW filter \in Filters, OpenHistory(filter)
    PROVE  Inv'
<1>1. /\ UNCHANGED <<db, stamp, stored, page, listed, cursors, failed>>
      /\ reader' = [pc |-> "paging", filter |-> filter, before |-> NoCursor]
      /\ opened' = {c \in CallsOf(db) : Matches(c, filter)}
      /\ listed = {}
  BY DEF OpenHistory, Inv, Client
<1>2. NoCursor \in 1..NoCursor /\ \A n \in 0..Latest : ~(n >= NoCursor)
  BY LatestAssumption DEF NoCursor
<1>3. CallsOf(db) \subseteq stored /\ stored \subseteq Call
  BY DEF Inv, Table, CallsOf
<1>4. Table'
  BY <1>1 DEF Inv, Table
<1>5. Client'
  <2>1. reader' \in [pc : {"idle", "paging", "done", "unanswered"}, filter : Filters,
                     before : 1..NoCursor]
    BY <1>1, <1>2
  <2>2. QED  BY <1>1, <1>3, <2>1 DEF Inv, Client
<1>6. Paging'
  <2>1. \A c \in opened' : ~(stamp[c] >= NoCursor)
    BY <1>1, <1>2, <1>3 DEF Inv, Table
  <2>2. QED  BY <1>1, <2>1 DEF Paging, MissedOnlyAtTies, Matches
<1>7. QED  BY <1>4, <1>5, <1>6 DEF Inv

\* What a page that says there is more leaves out is older than its last row, or
\* shares its timestamp; any other page leaves nothing out.
LEMMA NextPageInv ==
    ASSUME Inv, NEW limit \in Limits, NextPage(limit)
    PROVE  Inv'
<1>1. PICK rows \in Newest(Matching, limit) :
        /\ page' = CallsOf(rows)
        /\ IF HasMore(rows, limit)
             THEN \E last \in rows :
                    /\ \A r \in rows : last.stamp <= r.stamp
                    /\ reader' = [reader EXCEPT !.before = last.stamp]
                    /\ cursors' = cursors \cup {last.stamp}
             ELSE /\ reader' = [reader EXCEPT !.pc = "done"]
                  /\ cursors' = cursors
  BY DEF NextPage
<1>2. /\ reader.pc = "paging" /\ listed' = listed \cup page'
      /\ UNCHANGED <<db, stamp, stored, opened, failed>>
  BY DEF NextPage
<1>3. /\ rows \subseteq Matching
      /\ \A r \in rows, s \in Matching \ rows : r.stamp >= s.stamp
      /\ ~HasMore(rows, limit) => rows = Matching
  BY PageOf
<1>4. \A r \in Matching :
        /\ r \in db /\ r.call \in stored /\ r.stamp = stamp[r.call]
        /\ r.stamp \in 1..Latest /\ r.stamp < reader.before
  BY DEF Matching, Earlier, Inv, Table
<1>5. reader.before \in Nat
  BY DEF Inv, Client, NoCursor
<1>6. page' \subseteq stored /\ \A c \in page' : \E r \in rows : c = r.call
  BY <1>1, <1>3, <1>4 DEF CallsOf
\* What was there from the beginning and is newer than the cursor was settled
\* before; the rest matches.
<1>7. ASSUME NEW c \in opened \cap CallsOf(db)
      PROVE  Settled(c) \/ \E r \in Matching : r.call = c
  <2>1. PICK r \in db : r.call = c
    BY DEF CallsOf
  <2>2. r.stamp = stamp[c] /\ stamp[c] \in Nat /\ Matches(c, reader.filter)
    BY <1>2, <1>7, <2>1 DEF Inv, Table, Paging
  <2>3. CASE stamp[c] >= reader.before
    BY <1>2, <2>3 DEF Inv, Paging
  <2>4. CASE stamp[c] < reader.before
    BY <2>1, <2>2, <2>4 DEF Matching, Earlier
  <2>5. QED  BY <1>5, <2>2, <2>3, <2>4
<1>8. Table'
  BY <1>2 DEF Inv, Table
<1>9. CASE HasMore(rows, limit)
  <2>1. PICK last \in rows :
          /\ \A r \in rows : last.stamp <= r.stamp
          /\ reader' = [reader EXCEPT !.before = last.stamp]
          /\ cursors' = cursors \cup {last.stamp}
    BY <1>1, <1>9
  <2>2. last.stamp \in 1..Latest /\ last.stamp < reader.before
    BY <1>3, <1>4
  <2>3. /\ reader'.pc = "paging" /\ reader'.before = last.stamp
        /\ reader'.filter = reader.filter
        /\ reader' \in [pc : {"idle", "paging", "done", "unanswered"}, filter : Filters,
                        before : 1..NoCursor]
    BY <1>2, <2>1, <2>2, LatestAssumption DEF Inv, Client, NoCursor
  <2>4. Client'
    BY <1>2, <1>6, <2>1, <2>2, <2>3 DEF Inv, Client
  <2>5. \A c \in listed' : stamp[c] >= last.stamp
    <3>1. ASSUME NEW c \in listed PROVE stamp[c] >= last.stamp
      <4>1. stamp[c] >= reader.before /\ stamp[c] \in Nat
        BY <1>2 DEF Inv, Paging, Client, Table
      <4>2. QED  BY <4>1, <2>2, <1>5
    <3>2. ASSUME NEW c \in page' PROVE stamp[c] >= last.stamp
      <4>1. PICK r \in rows : c = r.call
        BY <1>6
      <4>2. r.stamp = stamp[c] /\ r.stamp \in Nat /\ last.stamp <= r.stamp
        BY <1>3, <1>4, <2>1, <4>1
      <4>3. QED  BY <4>2, <2>2
    <3>3. QED  BY <1>2, <3>1, <3>2
  <2>6. ASSUME NEW c \in opened \cap CallsOf(db), stamp[c] >= last.stamp
        PROVE  c \in listed' \/ stamp[c] \in cursors'
    <3>1. CASE Settled(c)
      BY <1>2, <2>1, <3>1 DEF Settled
    <3>2. ASSUME NEW r \in Matching, r.call = c PROVE c \in listed' \/ stamp[c] \in cursors'
      <4>1. CASE r \in rows
        BY <1>1, <1>2, <3>2, <4>1 DEF CallsOf
      <4>2. CASE r \notin rows
        <5>1. last.stamp >= r.stamp /\ r.stamp = stamp[c] /\ r.stamp \in Nat
          BY <1>3, <1>4, <3>2, <4>2
        <5>2. stamp[c] = last.stamp
          BY <5>1, <2>2, <2>6
        <5>3. QED  BY <5>2, <2>1
      <4>3. QED  BY <4>1, <4>2
    <3>3. QED  BY <1>7, <3>1, <3>2
  <2>7. Paging'
    BY <1>2, <2>3, <2>5, <2>6 DEF Inv, Paging, MissedOnlyAtTies, Settled
  <2>8. QED  BY <1>8, <2>4, <2>7 DEF Inv
<1>10. CASE ~HasMore(rows, limit)
  <2>1. reader' = [reader EXCEPT !.pc = "done"] /\ cursors' = cursors /\ rows = Matching
    BY <1>1, <1>3, <1>10
  <2>2. reader'.pc = "done"
        /\ reader' \in [pc : {"idle", "paging", "done", "unanswered"}, filter : Filters,
                        before : 1..NoCursor]
    BY <2>1 DEF Inv, Client
  <2>3. Client'
    BY <1>2, <1>6, <2>1, <2>2 DEF Inv, Client
  <2>4. ASSUME NEW c \in opened \cap CallsOf(db) PROVE c \in listed' \/ stamp[c] \in cursors'
    BY <1>1, <1>2, <1>7, <2>1 DEF Settled, CallsOf
  <2>5. Paging'
    BY <1>2, <2>2, <2>4 DEF Paging, MissedOnlyAtTies
  <2>6. QED  BY <1>8, <2>3, <2>5 DEF Inv
<1>11. QED  BY <1>9, <1>10

\* A client that is not answered has been given nothing more.
LEMMA PageTooLargeInv ==
    ASSUME Inv, NEW limit \in Limits, PageTooLarge(limit)
    PROVE  Inv'
<1>1. /\ reader' = [reader EXCEPT !.pc = "unanswered"] /\ reader.pc = "paging"
      /\ UNCHANGED <<db, stamp, stored, page, listed, opened, cursors, failed>>
  BY DEF PageTooLarge
<1>2. Table'
  BY <1>1 DEF Inv, Table
<1>3. Client'
  BY <1>1 DEF Inv, Client
<1>4. Paging'
  BY <1>1 DEF Inv, Client, Paging, MissedOnlyAtTies
<1>5. QED  BY <1>2, <1>3, <1>4 DEF Inv

\* An error ends the paging, and is exempt.
LEMMA PageFailsInv == Inv /\ PageFails => Inv'
<1> SUFFICES ASSUME Inv, PageFails PROVE Inv'
  OBVIOUS
<1>1. Table'
  BY DEF Inv, Table, PageFails
<1>2. Client'
  BY DEF Inv, Client, PageFails
<1>3. Paging'
  BY DEF Inv, Client, Paging, MissedOnlyAtTies, PageFails
<1>4. QED  BY <1>1, <1>2, <1>3 DEF Inv

\* A client that closes the history forgets what it was given.
LEMMA CloseInv == Inv /\ CloseHistory => Inv'
<1> SUFFICES ASSUME Inv, CloseHistory PROVE Inv'
  OBVIOUS
<1>1. Table'
  BY DEF Inv, Table, CloseHistory
<1>2. Client'
  <2>1. NoCursor \in 1..NoCursor /\ {} \in Filters
    BY LatestAssumption DEF NoCursor, Filters
  <2>2. reader' \in [pc : {"idle", "paging", "done", "unanswered"}, filter : Filters,
                     before : 1..NoCursor]
    BY <2>1 DEF CloseHistory, IdleReader
  <2>3. QED  BY <2>2 DEF Inv, Client, CloseHistory
<1>3. Paging'
  BY DEF Paging, MissedOnlyAtTies, CloseHistory, IdleReader
<1>4. QED  BY <1>1, <1>2, <1>3 DEF Inv

-----------------------------------------------------------------------------

\* The inductive invariant of the table and its reader.
THEOREM HistoryInvariant == Spec => []Inv
<1>1. Init => Inv
  BY InitInv
<1>2. Inv /\ [Next]_vars => Inv'
  <2> SUFFICES ASSUME Inv, [Next]_vars PROVE Inv'
    OBVIOUS
  <2>1. ASSUME NEW c \in Call, NEW now \in 1..Latest, Build(c, now) PROVE Inv'
    BY <2>1, BuildInv
  <2>2. ASSUME NEW c \in Call, InsertNotification(c) PROVE Inv'
    BY <2>2, InsertInv
  <2>3. ASSUME NEW id \in Ids, DismissNotification(id) PROVE Inv'
    BY <2>3, DismissInv
  <2>4. ASSUME NEW cutoff \in 1..Latest, CleanupAge(cutoff) PROVE Inv'
    BY <2>4, CleanupInv DEF CleanupAge, DeleteOlder
  <2>5. ASSUME NEW max_count \in MaxCounts, CleanupCount(max_count) PROVE Inv'
    BY <2>5, CleanupInv DEF CleanupCount, Newest
  <2>6. ASSUME NEW filter \in Filters, OpenHistory(filter) PROVE Inv'
    BY <2>6, OpenInv
  <2>7. ASSUME NEW limit \in Limits, NextPage(limit) PROVE Inv'
    BY <2>7, NextPageInv
  <2>8. ASSUME NEW limit \in Limits, PageTooLarge(limit) PROVE Inv'
    BY <2>8, PageTooLargeInv
  <2>9. CASE PageFails
    BY <2>9, PageFailsInv
  <2>10. CASE CloseHistory
    BY <2>10, CloseInv
  <2>11. CASE UNCHANGED vars
    BY <2>11 DEF vars, readerVars, Inv, Table, Client, Paging, MissedOnlyAtTies, Settled, CallsOf
  <2>12. QED
    BY <2>1, <2>2, <2>3, <2>4, <2>5, <2>6, <2>7, <2>8, <2>9, <2>10, <2>11 DEF Next
<1>3. QED  BY <1>1, <1>2, PTL DEF Spec

\* Type correctness; the table is keyed by id through every insert and update.
THEOREM HistoryTypeOK == Spec => []TypeOK
<1>1. Inv => TypeOK
  <2> SUFFICES ASSUME Inv PROVE TypeOK
    OBVIOUS
  <2>1. page \subseteq Call /\ listed \subseteq Call /\ opened \subseteq Call
    BY DEF Inv, Table, Client
  <2>2. QED  BY <2>1 DEF Inv, Table, Client, TypeOK
<1>2. QED  BY <1>1, HistoryInvariant, PTL

\* Whatever happens to the table between the pages, a client that has come to the
\* end has been given everything that was there throughout, ties excepted.
THEOREM HistoryMissedOnlyAtTies == Spec => []MissedOnlyAtTies
<1>1. Inv => MissedOnlyAtTies
  BY DEF Inv, Paging
<1>2. QED  BY <1>1, HistoryInvariant, PTL

\* No page repeats a notification, or brings one newer than an earlier page's.
THEOREM HistoryPagesDescend == Spec => PagesDescend
<1>1. ASSUME Inv, NEW limit \in Limits, NextPage(limit),
             NEW c \in page', NEW d \in listed
      PROVE  stamp[c] < stamp[d]
  <2>1. PICK r \in Matching : c = r.call
    BY <1>1, PageOf DEF NextPage, CallsOf
  <2>2. r.stamp = stamp[c] /\ r.stamp < reader.before /\ stamp[c] \in Nat
    BY <2>1, <1>1 DEF Matching, Earlier, Inv, Table
  <2>3. stamp[d] >= reader.before /\ stamp[d] \in Nat /\ reader.before \in Nat
    BY <1>1 DEF NextPage, Inv, Paging, Client, Table, NoCursor
  <2>4. QED  BY <2>2, <2>3
<1>2. Inv => [\A limit \in Limits :
                NextPage(limit) => \A c \in page', d \in listed : stamp[c] < stamp[d]]_vars
  BY <1>1
<1>3. QED  BY <1>2, HistoryInvariant, PTL DEF PagesDescend
=============================================================================
