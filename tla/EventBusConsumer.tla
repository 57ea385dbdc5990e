-------------------------- MODULE EventBusConsumer --------------------------
(***************************************************************************)
(* The task that follows the event bus, and the bus as it appears to it.   *)
(* A topic (fullscreen, focus) has a state on the bus, changed by events,  *)
(* and one in the daemon.  The bus sends a consumer the events that happen *)
(* while it is registered; it sends no state on registration.              *)
(***************************************************************************)
EXTENDS Integers, Sequences, Functions

CONSTANTS
    Topic,      \* "fullscreen" and "focus" in the code
    State,      \* the states of a topic
    Off,        \* the one every topic starts in: no fullscreen, no focus
    MaxStream   \* bound: messages in the socket

ASSUME OffAssumption == Off \in State
ASSUME MaxStreamAssumption == MaxStream \in Nat

VARIABLES
    bus,      \* the bus accepts connections
    pub,      \* the state of each topic on the bus
    task,     \* the consumer: none, sleeping, connecting, reading
    peer,     \* the other end of its connection: closed, connected, registered
    stream,   \* the messages in the socket
    known,    \* the state of each topic in the daemon
    last      \* history: the last message of each topic on this connection

busVars == <<bus, pub, task, peer, stream, known, last>>

\* An event, one whose body or payload does not decode, one of another type, and
\* a length that is 0 or too large.
Happened(t, s) == [kind |-> "event", topic |-> t, state |-> s]
Malformed(t) == [kind |-> "malformed", topic |-> t]
Unknown == [kind |-> "unknown"]
BadLength == [kind |-> "length"]
Messages == {Happened(t, s) : t \in Topic, s \in State}
            \cup {Malformed(t) : t \in Topic} \cup {Unknown, BadLength}
IsAbout(m, t) == m.kind \in {"event", "malformed"} /\ m.topic = t

Nothing == [t \in Topic |-> "none"]
AllOff == [t \in Topic |-> Off]

BusInit ==
    /\ bus = FALSE
    /\ pub \in [Topic -> State]
    /\ task = "none"
    /\ peer = "closed"
    /\ stream = <<>>
    /\ known = AllOff
    /\ last = Nothing

\* A topic changes on the bus, which tells a registered consumer.
Publish(t, s, m) ==
    /\ m \in {Happened(t, s), Malformed(t)}
    /\ pub' = [pub EXCEPT ![t] = s]
    /\ IF peer = "registered"
         THEN /\ Len(stream) < MaxStream
              /\ stream' = Append(stream, m)
              /\ last' = [last EXCEPT ![t] = m.kind]
         ELSE UNCHANGED <<stream, last>>
    /\ UNCHANGED <<bus, task, peer, known>>

SendOther(m) ==
    /\ m \in {Unknown, BadLength}
    /\ peer = "registered"
    /\ Len(stream) < MaxStream
    /\ stream' = Append(stream, m)
    /\ UNCHANGED <<bus, pub, task, peer, known, last>>

\* The bus goes down, or drops the consumer: what has arrived can still be read.
BusCloses(up) ==
    /\ bus' = up
    /\ peer' = "closed"
    /\ stream' \in {SubSeq(stream, 1, n) : n \in 0..Len(stream)}
    /\ last' = Nothing
    /\ UNCHANGED <<pub, task, known>>

BusStarts ==
    /\ ~bus
    /\ bus' = TRUE
    /\ UNCHANGED <<pub, task, peer, stream, known, last>>

\* The bus reads the registration and subscribes the consumer.
Register ==
    /\ peer = "connected"
    /\ peer' = "registered"
    /\ UNCHANGED <<bus, pub, task, stream, known, last>>

-----------------------------------------------------------------------------

StartConsumer ==
    /\ task' = "connecting"
    /\ UNCHANGED <<bus, pub, peer, stream, known, last>>

Connect ==
    /\ task = "connecting"
    /\ IF bus THEN task' = "reading" /\ peer' = "connected"
              ELSE task' = "sleeping" /\ peer' = peer
    /\ UNCHANGED <<bus, pub, stream, known, last>>

\* The message a dispatch in a task of its own may carry out first.
NextMessage_Spawned(i) == i \in DOMAIN stream

\* The messages are handled one by one, in order.
NextMessage(i) == i = 1 /\ stream # <<>>

\* A message without a bad length; what cannot be decoded is skipped.
ReadMessage(i) ==
    /\ task = "reading"
    /\ NextMessage(i)
    /\ stream[i].kind # "length"
    /\ stream' = SubSeq(stream, 1, i - 1) \o SubSeq(stream, i + 1, Len(stream))
    /\ known' = IF stream[i].kind = "event"
                THEN [known EXCEPT ![stream[i].topic] = stream[i].state] ELSE known
    /\ UNCHANGED <<bus, pub, task, peer, last>>

\* run_once returns without the retry.
AfterError_Ends == "none"

AfterError == "sleeping"

\* A bad length, or the end of the stream, drops the connection.
ReadFails ==
    /\ task = "reading"
    /\ \/ stream # <<>> /\ stream[1].kind = "length"
       \/ stream = <<>> /\ peer = "closed"
    /\ task' = AfterError
    /\ peer' = "closed"
    /\ stream' = <<>>
    /\ last' = Nothing
    /\ UNCHANGED <<bus, pub, known>>

\* Two seconds later.
Wake ==
    /\ task = "sleeping"
    /\ task' = "connecting"
    /\ UNCHANGED <<bus, pub, peer, stream, known, last>>

\* The process dies.
ConsumerDies ==
    /\ task' = "none"
    /\ peer' = "closed"
    /\ stream' = <<>>
    /\ known' = AllOff
    /\ last' = Nothing
    /\ UNCHANGED <<bus, pub>>

Consume ==
    \/ Connect
    \/ \E i \in DOMAIN stream : ReadMessage(i)
    \/ ReadFails
    \/ Wake

TheBus ==
    \/ \E t \in Topic, s \in State, m \in Messages : Publish(t, s, m)
    \/ \E m \in Messages : SendOther(m)
    \/ \E up \in BOOLEAN : BusCloses(up)
    \/ BusStarts
    \/ Register

-----------------------------------------------------------------------------
(* Properties *)

ConsumerTypeOK ==
    /\ bus \in BOOLEAN
    /\ pub \in [Topic -> State]
    /\ task \in {"none", "sleeping", "connecting", "reading"}
    /\ peer \in {"closed", "connected", "registered"}
    /\ stream \in Seq(Messages)
    /\ known \in [Topic -> State]
    /\ last \in [Topic -> {"none", "event", "malformed"}]

\* While the consumer is registered, the daemon's state of a topic is the bus's,
\* as soon as the messages about it have been handled, from the first readable
\* change on: events are not reordered, and none is left from an old connection.
FollowsBus ==
    \A t \in Topic :
        /\ peer = "registered" /\ last[t] = "event"
        /\ \A i \in DOMAIN stream : ~IsAbout(stream[i], t)
        => known[t] = pub[t]
=============================================================================
