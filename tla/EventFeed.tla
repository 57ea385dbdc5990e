------------------------------ MODULE EventFeed ------------------------------
(***************************************************************************)
(* What the socket server promises its clients about events.  There is one *)
(* log, forwarded event by event.  A client joins before an event and from *)
(* there on gets every event, once and in order, until it leaves or the    *)
(* feed stops for all.  An event counts as forwarded only when no member   *)
(* lacks it, and no member is given a later one before.                    *)
(***************************************************************************)
EXTENDS Integers, Sequences

CONSTANTS Client, Event

VARIABLES
    log,        \* the events published
    forwarded,  \* how many of them every member has been given
    members,    \* the clients that get them
    start,      \* how many were forwarded before each client joined
    got         \* what each client has been given

vars == <<log, forwarded, members, start, got>>

\* How much of the log c needs no more.
Place(c) == start[c] + Len(got[c])

Init ==
    /\ log = <<>>
    /\ forwarded = 0
    /\ members = {}
    /\ start = [c \in Client |-> 0]
    /\ got = [c \in Client |-> <<>>]

Publish(e) ==
    /\ log' = Append(log, e)
    /\ UNCHANGED <<forwarded, members, start, got>>

Join(c) ==
    /\ c \notin members
    /\ got[c] = <<>>
    /\ members' = members \cup {c}
    /\ start' = [start EXCEPT ![c] = forwarded]
    /\ UNCHANGED <<log, forwarded, got>>

Deliver(c) ==
    /\ c \in members
    /\ forwarded < Len(log)
    /\ Place(c) = forwarded
    /\ got' = [got EXCEPT ![c] = Append(@, log[forwarded + 1])]
    /\ UNCHANGED <<log, forwarded, members, start>>

Advance ==
    /\ forwarded < Len(log)
    /\ \A c \in members : Place(c) = forwarded + 1
    /\ forwarded' = forwarded + 1
    /\ UNCHANGED <<log, members, start, got>>

Leave(c) ==
    /\ members' = members \ {c}
    /\ UNCHANGED <<log, forwarded, start, got>>

Next ==
    \/ \E e \in Event : Publish(e)
    \/ Advance
    \/ \E c \in Client : Join(c) \/ Deliver(c) \/ Leave(c)

Spec == Init /\ [][Next]_vars
=============================================================================
