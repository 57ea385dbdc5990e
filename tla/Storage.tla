------------------------------- MODULE Storage -------------------------------
(***************************************************************************)
(* The notifications table and its queries, each one SQL statement and so  *)
(* atomic.  The table is the set of its rows; the primary key is id.       *)
(* A row stands for a notification by the D-Bus call that brought it       *)
(* (call), with the columns the daemon's logic reads.                      *)
(***************************************************************************)
EXTENDS Integers, FiniteSets

CONSTANTS
    Call,     \* the Notify calls the daemon receives
    MaxU32    \* largest id (2^32 - 1 in the code)

ASSUME MaxU32Assumption == MaxU32 \in Nat \ {0}

Ids == 0..MaxU32

Rows == [id : Ids, call : Call, stamp : Nat, dismissed : BOOLEAN]

IdsOf(db) == {r.id : r \in db}
Pending(db) == {r \in db : ~r.dismissed}

\* An INSERT into a table without its primary key.
Insert_Plain(db, row) == db \cup {row}

\* INSERT OR REPLACE
Insert(db, row) == {r \in db : r.id # row.id} \cup {row}

\* UPDATE ... SET dismissed = 1 WHERE id = ?
Dismiss(db, id) ==
    {IF r.id = id THEN [r EXCEPT !.dismissed = TRUE] ELSE r : r \in db}

\* Retention by age that forgets "AND dismissed = 1".
DeleteOlder_AnyState(db, cutoff) == {r \in db : r.stamp >= cutoff}

\* DELETE ... WHERE timestamp < cutoff AND dismissed = 1
DeleteOlder(db, cutoff) == {r \in db : r.stamp >= cutoff \/ ~r.dismissed}

\* DELETE ... WHERE id NOT IN (SELECT id ... ORDER BY timestamp DESC LIMIT n);
\* timestamps are distinct, see NotificationManager.
KeepNewest(db, n) ==
    {r \in db : Cardinality({s \in db : s.stamp > r.stamp}) < n}
=============================================================================
