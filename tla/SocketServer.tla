---------------------------- MODULE SocketServer ----------------------------
(***************************************************************************)
(* The socket server that feeds the shell: the accept loop, the broadcast  *)
(* task, and one handler per connection.  A step ends where the code       *)
(* awaits.                                                                 *)
(*                                                                         *)
(*   task     recv -Receive-> lock -LockWriters-> write -WriteTo->* write  *)
(*            -Finish-> recv;   recv -Receive-> ended (Lagged)             *)
(*   handler  idle -Hello-> mode -HelloMode-> respond -WriteResponse-> idle *)
(*            idle -Dismiss, MarkRead, SetDnd-> send -SendEvent-> idle      *)
(*            idle -ClearAll-> clear -ClearOne->* clear -SendCleared-> idle *)
(*                                                                         *)
(* The channel is tokio's: one receiver, and a send that finds it full     *)
(* overwrites the oldest event, which the receiver learns as Lagged.  A    *)
(* client is one connection; its socket buffer (inbox) holds InboxSize     *)
(* messages, and what it makes of them (view) is the reading the message   *)
(* names suggest.  Around them, the manager stores, announces, and closes  *)
(* notifications and rewrites the shared DND mode.  Replacement, retention *)
(* and restart are left to NotificationManager: here an id is a            *)
(* notification, and its row, once stored, stays.                          *)
(***************************************************************************)
EXTENDS Integers, FiniteSets, SequencesExt

CONSTANTS
    Client,        \* connections that may be made
    Note,          \* notifications, by id
    Big,           \* those whose message exceeds MAX_MESSAGE_SIZE (1 MB)
    MaxSync,       \* rows an answer of that size holds
    Capacity,      \* of the broadcast channel (256)
    InboxSize,     \* messages a client's socket buffers
    Asks,          \* the kinds of messages clients send
    WireModes,     \* values a SetDnd message may carry
    ConfigModes,   \* modes the manager may mirror
    MaxRequests,   \* bound: messages the clients send
    MaxMirrors,    \* bound: how often the manager changes the mode
    HistoryEnabled,\* values history.enabled takes
    MayFail,       \* TRUE: statements, accept and decoding may fail
    Reader,        \* clients that keep reading (used by the fairness only)
    Recording      \* TRUE: the history of the feed (log, start, got) is kept

DndModes == {"Off", "Priority", "Alarms", "Total", "Scheduled"}

ASSUME BigAssumption == Big \subseteq Note
ASSUME BoundsAssumption == /\ MaxSync \in Nat
                           /\ Capacity \in Nat \ {0}
                           /\ InboxSize \in Nat \ {0}
                           /\ MaxRequests \in Nat
                           /\ MaxMirrors \in Nat
ASSUME HistoryEnabledAssumption == HistoryEnabled \subseteq BOOLEAN
ASSUME MayFailAssumption == MayFail \in BOOLEAN
ASSUME ConfigModesAssumption == ConfigModes \subseteq DndModes
ASSUME ReaderAssumption == Reader \subseteq Client
ASSUME RecordingAssumption == Recording \in BOOLEAN

VARIABLES
    stored, read, dismissed,  \* the table: rows, and their two flags
    arrival,    \* what the manager has done with each notification
    closing,    \* CloseNotification for each
    channel,    \* the events not received yet
    overrun,    \* the oldest of them has been overwritten
    task,       \* the broadcast task: pc, event in hand, next writer, dead ones
    writers,    \* the registered writers, in the order of registration
    listening,  \* the accept loop runs
    conn,       \* the connections as their clients see them
    handler,    \* the handlers: pc, rows read, and the message or event to send
    inbox,      \* written to a client and not read by it
    view,       \* what a client shows
    dnd_mode,   \* the shared mode
    requests,   \* messages read from clients
    mirrors,    \* changes of the mode by the manager
    log,        \* history: the events sent, less the ones too big to forward,
    forwarded,  \*   how many of those have been written to every client,
    start,      \*   and had been when a client joined,
    got,        \*   and the events written to it since
    disputed,   \* history: notifications whose events contradict the table,
    overtaken,  \*   those a client was told of since the snapshot its handler holds,
    missed,     \*   or had been when the last Sync was written to it,
    mode_disputed \* and that the mode was changed behind the events

tableVars == <<stored, read, dismissed>>
managerVars == <<arrival, closing, mirrors>>
channelVars == <<channel, overrun, log>>   \* what a send changes
serverVars == <<writers, listening>>
clientVars == <<conn, inbox, view, start, got>>
syncHistory == <<overtaken, missed>>
history == <<disputed, syncHistory, mode_disputed>>
vars == <<tableVars, managerVars, channelVars, forwarded, task, serverVars, clientVars, handler,
          dnd_mode, requests, history>>

\* What the actions of one part leave alone is stated once, in Manager, Broadcast,
\* Handle and Request below; that of connections by each of theirs.
managerFrame == <<forwarded, task, serverVars, clientVars, handler, requests, syncHistory>>
broadcastFrame == <<tableVars, managerVars, listening, conn, view, start, handler, requests,
                    dnd_mode, log, disputed>>
connectionFrame == <<forwarded, tableVars, managerVars, channelVars, task, got, dnd_mode, requests,
                     history>>
sessionFrame == <<forwarded, managerVars, task, serverVars, conn, view, start, got>>

NoteEvent(kind, n) == [kind |-> kind, note |-> n]
AllCleared == [kind |-> "AllCleared"]
DndChanged(m) == [kind |-> "DndChanged", mode |-> m]
Event == [kind : {"Added", "Closed", "Read", "ActionInvoked"}, note : Note]
         \cup {AllCleared} \cup [kind : {"DndChanged"}, mode : DndModes]

Sync(rows, seen, m) == [kind |-> "Sync", rows |-> rows, seen |-> seen, mode |-> m]
Reply(rows) == [kind |-> "Reply", rows |-> rows]   \* a page, or the known apps
NoMsg == [kind |-> "none"]
Response == [kind : {"Sync"}, rows : SUBSET Note, seen : SUBSET Note, mode : DndModes]
            \cup [kind : {"Reply"}, rows : SUBSET Note]

IdleHandler == [pc |-> "idle", rows |-> {}, seen |-> {}, msg |-> NoMsg]
EndedHandler == [IdleHandler EXCEPT !.pc = "ended"]
ReceivingTask == [pc |-> "recv", event |-> NoMsg, next |-> 1, dead |-> <<>>]
EmptyView == [synced |-> FALSE, shown |-> {}, read |-> {}, mode |-> "Off"]

Pending == stored \ dismissed

Init ==
    /\ stored = {} /\ read = {} /\ dismissed = {}
    /\ arrival = [n \in Note |-> "new"]
    /\ closing = [n \in Note |-> "no"]
    /\ channel = <<>> /\ overrun = FALSE
    /\ task = ReceivingTask
    /\ writers = <<>> /\ listening = TRUE
    /\ conn = [c \in Client |-> "away"]
    /\ handler = [c \in Client |-> EndedHandler]
    /\ inbox = [c \in Client |-> <<>>]
    /\ view = [c \in Client |-> EmptyView]
    /\ dnd_mode = "Off"
    /\ requests = 0
    /\ mirrors = 0
    /\ log = <<>> /\ forwarded = 0
    /\ start = [c \in Client |-> 0]
    /\ got = [c \in Client |-> <<>>]
    /\ disputed = {}
    /\ overtaken = [c \in Client |-> {}]
    /\ missed = [c \in Client |-> {}]
    /\ mode_disputed = FALSE

Oversized(rows) == rows \cap Big # {} \/ Cardinality(rows) > MaxSync
TooLarge(msg) ==
    \/ msg.kind = "Added" /\ msg.note \in Big
    \/ msg.kind \in {"Sync", "Reply"} /\ Oversized(msg.rows)

\* A channel without a limit.
Send_Unbounded(e) ==
    IF task.pc = "ended"
    THEN UNCHANGED channelVars
    ELSE /\ channel' = Append(channel, e)
         /\ log' = IF Recording /\ ~TooLarge(e) THEN Append(log, e) ELSE log
         /\ overrun' = overrun

\* broadcast::Sender::send; with the receiver gone it reaches nobody.
Send(e) ==
    IF task.pc = "ended"
    THEN UNCHANGED channelVars
    ELSE /\ channel' = Append(IF Len(channel) < Capacity THEN channel ELSE Tail(channel), e)
         /\ overrun' = (overrun \/ Len(channel) = Capacity)
         /\ log' = IF Recording /\ ~TooLarge(e) THEN Append(log, e) ELSE log

\* UPDATE ... WHERE id = ?: of no effect without the row, and its error is
\* ignored.  Before the notification is announced, it comes too early.
Dispute(n) == disputed' = disputed \cup {n}
Noted(n) == IF arrival[n] \in {"new", "stored"} THEN Dispute(n) ELSE UNCHANGED disputed

UpdateDismissed(n) ==
    /\ \/ dismissed' = dismissed \cup ({n} \cap stored) /\ Noted(n)
       \/ MayFail /\ dismissed' = dismissed /\ Dispute(n)
    /\ UNCHANGED <<stored, read>>

UpdateRead(n) ==
    /\ \/ read' = read \cup ({n} \cap stored) /\ Noted(n)
       \/ MayFail /\ read' = read /\ Dispute(n)
    /\ UNCHANGED <<stored, dismissed>>

-----------------------------------------------------------------------------
(* The manager, the other sender on the channel and writer of the table *)

\* With the history off there is no row for what will be announced.
Store(n) ==
    /\ arrival[n] = "new"
    /\ arrival' = [arrival EXCEPT ![n] = "stored"]
    /\ \/ TRUE \in HistoryEnabled /\ stored' = stored \cup {n} /\ UNCHANGED disputed
       \/ (MayFail \/ FALSE \in HistoryEnabled) /\ stored' = stored /\ Dispute(n)
    /\ UNCHANGED <<read, dismissed, closing, mirrors, channelVars, dnd_mode, mode_disputed>>

\* At once or from the fullscreen queue; "silent" is a suppressed notification.
Announce(n) ==
    /\ arrival[n] = "stored"
    /\ \/ arrival' = [arrival EXCEPT ![n] = "sent"] /\ Send(NoteEvent("Added", n))
       \/ arrival' = [arrival EXCEPT ![n] = "silent"] /\ UNCHANGED channelVars
    /\ UNCHANGED <<tableVars, closing, mirrors, dnd_mode, disputed, mode_disputed>>

CloseDismiss(n) ==
    /\ closing[n] = "no"
    /\ UpdateDismissed(n)
    /\ closing' = [closing EXCEPT ![n] = "send"]
    /\ UNCHANGED <<arrival, mirrors, channelVars, dnd_mode, mode_disputed>>

CloseBroadcast(n) ==
    /\ closing[n] = "send"
    /\ Send(NoteEvent("Closed", n))
    /\ closing' = [closing EXCEPT ![n] = "done"]
    /\ UNCHANGED <<tableVars, arrival, mirrors, dnd_mode, disputed, mode_disputed>>

\* Every decision assigns the configured mode, and tells nobody.
Mirror(m) ==
    /\ mirrors < MaxMirrors
    /\ m # dnd_mode
    /\ dnd_mode' = m
    /\ mirrors' = mirrors + 1
    /\ mode_disputed' = TRUE
    /\ UNCHANGED <<tableVars, arrival, closing, channelVars, disputed>>

-----------------------------------------------------------------------------
(* The broadcast task *)

\* while let Ok(event) = recv(): Lagged ends the loop and drops the receiver;
\* an event that cannot be encoded is skipped.
Receive ==
    /\ task.pc = "recv"
    /\ channel # <<>>
    /\ \/ /\ overrun
          /\ task' = [ReceivingTask EXCEPT !.pc = "ended"]
          /\ channel' = <<>>
       \/ /\ ~overrun
          /\ channel' = Tail(channel)
          /\ task' = IF TooLarge(Head(channel)) THEN task
                     ELSE [task EXCEPT !.pc = "lock", !.event = Head(channel)]
    /\ overrun' = FALSE
    /\ UNCHANGED <<forwarded, writers, inbox, got, syncHistory, mode_disputed>>

LockWriters ==
    /\ task.pc = "lock"
    /\ task' = [task EXCEPT !.pc = "write"]
    /\ UNCHANGED <<channel, overrun, forwarded, writers, inbox, got, syncHistory, mode_disputed>>

HasRoom(c) == conn[c] = "open" /\ Len(inbox[c]) < InboxSize

\* The handler of c holds a snapshot of the table, or of the mode, that c lacks.
HoldsMode(c) == handler[c].msg.kind = "Sync"
HoldsRows(c) == handler[c].pc = "mode" \/ HoldsMode(c)

ToldOf(e) ==
    IF e.kind = "AllCleared" THEN Note
    ELSE IF e.kind \in {"Added", "Closed", "Read"} THEN {e.note} ELSE {}

\* A broken pipe is tried again.
WriteFails_Retried(c) ==
    /\ conn[c] = "closed"
    /\ UNCHANGED <<task, inbox, got, overtaken, mode_disputed>>

\* A broken pipe marks c dead.
WriteFails(c) ==
    /\ conn[c] = "closed"
    /\ task' = [task EXCEPT !.next = @ + 1, !.dead = Append(task.dead, task.next)]
    /\ UNCHANGED <<inbox, got, overtaken, mode_disputed>>

\* Awaits room in the buffer, with writers locked.
WriteTo(c) ==
    /\ task.pc = "write"
    /\ task.next <= Len(writers)
    /\ c = writers[task.next]
    /\ \/ /\ HasRoom(c)
          /\ inbox' = [inbox EXCEPT ![c] = Append(@, task.event)]
          /\ got' = IF Recording THEN [got EXCEPT ![c] = Append(@, task.event)] ELSE got
          /\ task' = [task EXCEPT !.next = @ + 1]
          /\ overtaken' = [overtaken EXCEPT ![c] =
                              IF HoldsRows(c) THEN @ \cup ToldOf(task.event) ELSE @]
          /\ mode_disputed' = (mode_disputed \/
                               (HoldsMode(c) /\ task.event.kind = "DndChanged"))
       \/ WriteFails(c)
    /\ UNCHANGED <<channel, overrun, forwarded, writers, missed>>

\* Removing from the front shifts the places of those still to be removed.
Survivors_Forward(dead) ==
    FoldLeft(LAMBDA ws, i : IF i <= Len(ws) THEN RemoveAt(ws, i) ELSE ws, writers, dead)

\* Removed from the back, the dead keep their places: the k-th to survive had before
\* it the dead with fewer than k survivors before them.
Survivors(dead) ==
    [k \in 1..(Len(writers) - Len(dead)) |->
        writers[k + Cardinality({i \in DOMAIN dead : dead[i] - i < k})]]

Finish ==
    /\ task.pc = "write"
    /\ task.next > Len(writers)
    /\ writers' = Survivors(task.dead)
    /\ task' = ReceivingTask
    /\ forwarded' = IF Recording THEN forwarded + 1 ELSE forwarded
    /\ UNCHANGED <<channel, overrun, inbox, got, syncHistory, mode_disputed>>

-----------------------------------------------------------------------------
(* Connections.  What a client does by itself is outside this repository. *)

Connect(c) ==
    /\ conn[c] = "away"
    /\ conn' = [conn EXCEPT ![c] = "waiting"]
    /\ UNCHANGED <<serverVars, inbox, view, start, handler, connectionFrame>>

\* The accept loop, blocked while the broadcast task has writers locked.
Accept(c) ==
    /\ listening
    /\ conn[c] = "waiting"
    /\ task.pc # "write"
    /\ conn' = [conn EXCEPT ![c] = "open"]
    /\ writers' = Append(writers, c)
    /\ handler' = [handler EXCEPT ![c] = IdleHandler]
    /\ start' = [start EXCEPT ![c] = forwarded]
    /\ UNCHANGED <<listening, inbox, view, connectionFrame>>

\* An error of accept() ends the loop.
AcceptFails ==
    /\ MayFail
    /\ listening
    /\ listening' = FALSE
    /\ UNCHANGED <<writers, conn, inbox, view, start, handler, connectionFrame>>

Shown(v, m) ==
    IF m.kind = "Sync" THEN m.rows
    ELSE IF m.kind = "Added" THEN v.shown \cup {m.note}
    ELSE IF m.kind = "Closed" THEN v.shown \ {m.note}
    ELSE IF m.kind = "AllCleared" THEN {} ELSE v.shown

ShownRead(v, m) ==
    IF m.kind = "Sync" THEN m.seen
    ELSE IF m.kind = "Added" THEN v.read \ {m.note}
    ELSE IF m.kind = "Read" THEN v.read \cup {m.note} ELSE v.read

ClientRead(c) ==
    /\ conn[c] = "open"
    /\ inbox[c] # <<>>
    /\ LET v == view[c]  m == Head(inbox[c]) IN
       view' = [view EXCEPT ![c] =
           [synced |-> v.synced \/ m.kind = "Sync",
            shown |-> Shown(v, m), read |-> ShownRead(v, m),
            mode |-> IF m.kind \in {"Sync", "DndChanged"} THEN m.mode ELSE v.mode]]
    /\ inbox' = [inbox EXCEPT ![c] = Tail(@)]
    /\ UNCHANGED <<serverVars, conn, start, handler, connectionFrame>>

ClientClose(c) ==
    /\ conn[c] = "open"
    /\ conn' = [conn EXCEPT ![c] = "closed"]
    /\ inbox' = [inbox EXCEPT ![c] = <<>>]
    /\ view' = [view EXCEPT ![c] = EmptyView]
    /\ UNCHANGED <<serverVars, start, handler, connectionFrame>>

-----------------------------------------------------------------------------
(* The handlers *)

\* A message of c is read.
Reads(c, kind) ==
    /\ kind \in Asks
    /\ conn[c] = "open"
    /\ handler[c].pc = "idle"
    /\ requests < MaxRequests
    /\ requests' = requests + 1

\* End of file, or with the stream still open a message that is not one; the
\* writer of a handler that ends stays registered.
HandlerEnds(c) ==
    /\ handler[c].pc = "idle"
    /\ conn[c] = "closed" \/ MayFail
    /\ handler' = [handler EXCEPT ![c] = EndedHandler]
    /\ UNCHANGED <<tableVars, channelVars, inbox, dnd_mode, requests, history>>

\* The snapshot of Hello, without "WHERE dismissed = 0".
Hello_AllRows(c) ==
    /\ Reads(c, "Hello")
    /\ handler' = [handler EXCEPT ![c] =
           [IdleHandler EXCEPT !.pc = "mode", !.rows = stored, !.seen = read]]
    /\ overtaken' = [overtaken EXCEPT ![c] = {}]
    /\ UNCHANGED <<tableVars, channelVars, inbox, dnd_mode, disputed, missed, mode_disputed>>

\* get_pending; if it fails, the list is empty.
Hello(c) ==
    /\ Reads(c, "Hello")
    /\ \/ /\ handler' = [handler EXCEPT ![c] =
                   [IdleHandler EXCEPT !.pc = "mode", !.rows = Pending, !.seen = read \cap Pending]]
          /\ overtaken' = [overtaken EXCEPT ![c] = {}]
       \/ /\ MayFail
          /\ handler' = [handler EXCEPT ![c] = [IdleHandler EXCEPT !.pc = "mode"]]
          /\ overtaken' = [overtaken EXCEPT ![c] = Note]
    /\ UNCHANGED <<tableVars, channelVars, inbox, dnd_mode, disputed, missed, mode_disputed>>

HelloMode(c) ==
    /\ handler[c].pc = "mode"
    /\ LET snapshot == handler[c] IN
       handler' = [handler EXCEPT ![c] =
           [IdleHandler EXCEPT !.pc = "respond",
                               !.msg = Sync(snapshot.rows, snapshot.seen, dnd_mode)]]
    /\ UNCHANGED <<tableVars, channelVars, inbox, dnd_mode, requests, history>>

\* GetHistory and GetKnownApps read the table and answer with some of it.
Query(c) ==
    /\ Reads(c, "Query")
    /\ \E rows \in SUBSET stored :
          handler' = [handler EXCEPT ![c] =
              [IdleHandler EXCEPT !.pc = "respond", !.msg = Reply(rows)]]
    /\ UNCHANGED <<tableVars, channelVars, inbox, dnd_mode, history>>

\* An answer too large to encode that does not end the handler.
GivesUp_BrokenPipeOnly(c) == conn[c] = "closed"

\* An answer that cannot be encoded or written ends the handler.
GivesUp(c) == TooLarge(handler[c].msg) \/ conn[c] = "closed"

WriteResponse(c) ==
    /\ handler[c].pc = "respond"
    /\ \/ /\ GivesUp(c)
          /\ handler' = [handler EXCEPT ![c] = EndedHandler]
          /\ UNCHANGED <<inbox, missed>>
       \/ /\ ~TooLarge(handler[c].msg)
          /\ HasRoom(c)
          /\ inbox' = [inbox EXCEPT ![c] = Append(@, handler[c].msg)]
          /\ handler' = [handler EXCEPT ![c] = IdleHandler]
          /\ missed' = [missed EXCEPT ![c] = IF HoldsMode(c) THEN overtaken[c] ELSE @]
    /\ overtaken' = [overtaken EXCEPT ![c] = {}]
    /\ UNCHANGED <<tableVars, channelVars, dnd_mode, requests, disputed, mode_disputed>>

ToSend(e) == [IdleHandler EXCEPT !.pc = "send", !.msg = e]

\* A dismissal without its broadcast.
Dismiss_Untold(c, n) ==
    /\ Reads(c, "Dismiss")
    /\ UpdateDismissed(n)
    /\ UNCHANGED <<channelVars, handler, inbox, dnd_mode, syncHistory, mode_disputed>>

Dismiss(c, n) ==
    /\ Reads(c, "Dismiss")
    /\ UpdateDismissed(n)
    /\ handler' = [handler EXCEPT ![c] = ToSend(NoteEvent("Closed", n))]
    /\ UNCHANGED <<channelVars, inbox, dnd_mode, syncHistory, mode_disputed>>

MarkRead(c, n) ==
    /\ Reads(c, "MarkRead")
    /\ UpdateRead(n)
    /\ handler' = [handler EXCEPT ![c] = ToSend(NoteEvent("Read", n))]
    /\ UNCHANGED <<channelVars, inbox, dnd_mode, syncHistory, mode_disputed>>

\* proto_to_dnd_mode: the old DndOn is Priority, what is unknown is Off.
FromWire(w) ==
    CASE w \in {"DndPriority", "DndOn"} -> "Priority"
      [] w = "DndAlarms" -> "Alarms"
      [] w = "DndTotal" -> "Total"
      [] w = "DndScheduled" -> "Scheduled"
      [] OTHER -> "Off"

\* The event made from the mode before the write.
SetDnd_TellsOld(c, w) ==
    /\ Reads(c, "SetDnd")
    /\ dnd_mode' = FromWire(w)
    /\ handler' = [handler EXCEPT ![c] = ToSend(DndChanged(dnd_mode))]
    /\ mode_disputed' = \E d \in Client : handler[d].msg.kind = "DndChanged"
    /\ UNCHANGED <<tableVars, channelVars, inbox, disputed, syncHistory>>

\* A write between another client's write and its event leaves the events in the
\* wrong order, perhaps; one alone brings everybody up to date again.
SetDnd(c, w) ==
    /\ Reads(c, "SetDnd")
    /\ dnd_mode' = FromWire(w)
    /\ handler' = [handler EXCEPT ![c] = ToSend(DndChanged(FromWire(w)))]
    /\ mode_disputed' = \E d \in Client : handler[d].msg.kind = "DndChanged"
    /\ UNCHANGED <<tableVars, channelVars, inbox, disputed, syncHistory>>

SendEvent(c) ==
    /\ handler[c].pc = "send"
    /\ Send(handler[c].msg)
    /\ handler' = [handler EXCEPT ![c] = IdleHandler]
    /\ UNCHANGED <<tableVars, inbox, dnd_mode, requests, history>>

InvokeAction(c, n) ==
    /\ Reads(c, "InvokeAction")
    /\ Send(NoteEvent("ActionInvoked", n))
    /\ UNCHANGED <<tableVars, inbox, handler, dnd_mode, history>>

\* ClearAll dismisses the rows of a snapshot, one statement each; if the snapshot
\* fails, none.
ClearAll(c) ==
    /\ Reads(c, "ClearAll")
    /\ \E rows \in {Pending} \cup (IF MayFail THEN {{}} ELSE {}) :
          handler' = [handler EXCEPT ![c] = [IdleHandler EXCEPT !.pc = "clear", !.rows = rows]]
    /\ UNCHANGED <<tableVars, channelVars, inbox, dnd_mode, history>>

ClearOne(c, n) ==
    /\ handler[c].pc = "clear"
    /\ n \in handler[c].rows
    /\ UpdateDismissed(n)
    /\ handler' = [handler EXCEPT ![c].rows = @ \ {n}]
    /\ UNCHANGED <<channelVars, inbox, dnd_mode, requests, syncHistory, mode_disputed>>

\* Clients drop what has been stored since the snapshot, too.
SendCleared(c) ==
    /\ handler[c].pc = "clear"
    /\ handler[c].rows = {}
    /\ Send(AllCleared)
    /\ handler' = [handler EXCEPT ![c] = IdleHandler]
    /\ disputed' = disputed \cup {n \in Pending : arrival[n] # "stored"}
    /\ UNCHANGED <<tableVars, inbox, dnd_mode, requests, syncHistory, mode_disputed>>

-----------------------------------------------------------------------------

Manager ==
    /\ \/ \E n \in Note : Store(n) \/ Announce(n) \/ CloseDismiss(n) \/ CloseBroadcast(n)
       \/ \E m \in ConfigModes : Mirror(m)
    /\ UNCHANGED managerFrame

Broadcast ==
    /\ Receive \/ LockWriters \/ Finish \/ \E c \in Client : WriteTo(c)
    /\ UNCHANGED broadcastFrame

\* What the handler of c does without waiting for a message.
Handle(c) ==
    /\ \/ HelloMode(c) \/ WriteResponse(c) \/ SendEvent(c) \/ SendCleared(c)
       \/ \E n \in Note : ClearOne(c, n)
    /\ UNCHANGED sessionFrame

Request(c) ==
    /\ \/ Hello(c) \/ Query(c) \/ ClearAll(c) \/ HandlerEnds(c)
       \/ \E n \in Note : Dismiss(c, n) \/ MarkRead(c, n) \/ InvokeAction(c, n)
       \/ \E w \in WireModes : SetDnd(c, w)
    /\ UNCHANGED sessionFrame

Next ==
    \/ Manager
    \/ Broadcast
    \/ AcceptFails
    \/ \E c \in Client :
          \/ Connect(c) \/ Accept(c) \/ ClientRead(c) \/ ClientClose(c)
          \/ Request(c) \/ Handle(c)

Spec == Init /\ [][Next]_vars

\* Tokio polls every task that can go on, connections are accepted, and the clients in Reader read.
Fairness ==
    /\ WF_vars(Broadcast)
    /\ \A c \in Client : WF_vars(Handle(c)) /\ WF_vars(Accept(c))
    /\ \A c \in Reader : WF_vars(ClientRead(c))

LiveSpec == Spec /\ Fairness

-----------------------------------------------------------------------------
(* Properties *)

\* Type correctness; the channel and the buffers keep their limits, and no
\* connection is registered twice.
TypeOK ==
    /\ stored \subseteq Note /\ read \subseteq stored /\ dismissed \subseteq stored
    /\ arrival \in [Note -> {"new", "stored", "sent", "silent"}]
    /\ closing \in [Note -> {"no", "send", "done"}]
    /\ channel \in Seq(Event) /\ Len(channel) <= Capacity
    /\ overrun \in BOOLEAN
    /\ task \in [pc : {"recv", "lock", "write", "ended"}, event : Event \cup {NoMsg},
                 next : Nat, dead : Seq(Nat)]
    /\ writers \in Seq(Client) /\ IsInjective(writers)
    /\ listening \in BOOLEAN
    /\ conn \in [Client -> {"away", "waiting", "open", "closed"}]
    /\ handler \in [Client ->
           [pc : {"idle", "mode", "respond", "send", "clear", "ended"}, rows : SUBSET Note,
            seen : SUBSET Note, msg : Event \cup Response \cup {NoMsg}]]
    /\ inbox \in [Client -> Seq(Event \cup Response)]
    /\ \A c \in Client : Len(inbox[c]) <= InboxSize
    /\ view \in [Client -> [synced : BOOLEAN, shown : SUBSET Note, read : SUBSET Note,
                            mode : DndModes]]
    /\ dnd_mode \in DndModes
    /\ requests \in 0..MaxRequests
    /\ mirrors \in 0..MaxMirrors
    /\ disputed \subseteq Note
    /\ log \in Seq(Event) /\ forwarded \in Nat
    /\ start \in [Client -> Nat] /\ got \in [Client -> Seq(Event)]
    /\ overtaken \in [Client -> SUBSET Note] /\ missed \in [Client -> SUBSET Note]
    /\ mode_disputed \in BOOLEAN

\* "Broadcast task: forwards D-Bus events to all connected clients": each gets
\* every event once and in order, whoever disconnects while it is written, and none
\* is done with before all have got it.
Feed == INSTANCE EventFeed WITH members <- {c \in Client : conn[c] = "open"}

FeedsClients == Feed!Spec

\* Nothing is on its way to a client any more.
Quiet ==
    /\ task.pc = "recv" /\ channel = <<>>
    /\ \A n \in Note : arrival[n] # "stored" /\ closing[n] # "send"
    /\ \A c \in Client : handler[c].pc \in {"idle", "ended"} /\ inbox[c] = <<>>

\* Once everything has arrived, a client that has synced shows exactly the
\* announced notifications that are pending, and knows which are read: however
\* requests, closes, announcements and its snapshot overlapped, and with these
\* exceptions only.  A notification closed or read before it was announced, kept or
\* not stored by a statement that failed, without a row as the history is off, or
\* stored while ClearAll swept (disputed); one
\* that an event told the client of between the snapshot and its Sync (missed);
\* and one too big to send.
ShellAgreesWithTable ==
    Quiet =>
        \A c \in Client, n \in Note \ (disputed \cup Big) :
            conn[c] = "open" /\ view[c].synced /\ n \notin missed[c] =>
                /\ n \in view[c].shown =>
                       n \in Pending /\ (n \in view[c].read <=> n \in read)
                /\ n \in Pending /\ arrival[n] = "sent" => n \in view[c].shown

\* The clients show the shared DND mode, unless the manager rewrote it, two
\* clients set it at once, or a change overtook the Sync; and then again from the
\* next change on that a client makes alone.
ShellAgreesOnMode ==
    Quiet /\ ~mode_disputed =>
        \A c \in Client :
            conn[c] = "open" /\ view[c].synced => view[c].mode = dnd_mode

\* An event has been sent that is on its way to c.
Lacking(c) ==
    /\ conn[c] = "open"
    /\ \/ \E i \in DOMAIN channel : ~TooLarge(channel[i])
       \/ task.pc = "lock"
       \/ task.pc = "write" /\ \E i \in task.next..Len(writers) : writers[i] = c

\* "forwards D-Bus events to all connected clients": what is sent while a client
\* that reads is connected reaches it, or the client goes, or the broadcast task
\* has ended.
EventsArrive ==
    \A c \in Reader : Lacking(c) ~> ~Lacking(c) \/ task.pc = "ended"

\* Every connection is accepted, although the accept loop needs the lock that the
\* broadcast task holds while it writes, and every Hello is answered or its
\* handler has ended.
ConnectionsAccepted == \A c \in Client : conn[c] = "waiting" ~> conn[c] # "waiting"
HelloAnswered ==
    \A c \in Client : handler[c].pc = "mode" ~> handler[c].pc \in {"idle", "ended"}
=============================================================================
