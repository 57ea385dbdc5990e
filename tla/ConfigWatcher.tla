---------------------------- MODULE ConfigWatcher ----------------------------
(***************************************************************************)
(* The configuration file, the thread that watches it, the channel from    *)
(* the thread to the reload task, and the shared configuration.            *)
(*                                                                         *)
(* A file is the text it holds, numbered: version counts the changes.  A   *)
(* text that is missing, cut short or malformed is one that does not       *)
(* parse.  A configuration carries the version it was read from, so that   *)
(* old and new ones can be told apart.                                     *)
(***************************************************************************)
EXTENDS Integers, Sequences

CONSTANTS
    Text,          \* what the file may hold, or its absence
    Valid,         \* the texts that parse: each is the configuration it says
    Default,       \* Config::default()
    Capacity,      \* of the channel (8 in the code)
    MaxEvents,     \* bound: the events the file system reports for one change
    MaxChanges     \* bound: how often the file is changed

ASSUME ValidAssumption == Valid \subseteq Text
ASSUME WatcherBounds ==
    Capacity \in Nat \ {0} /\ MaxEvents \in Nat \ {0} /\ MaxChanges \in Nat

VARIABLES
    file,       \* the file
    fs_events,  \* events of the file system the thread has not handled
    watcher,    \* the thread: off, on, or closing (told to stop)
    chan,       \* the configurations sent and not received
    lagged,     \* the channel has overwritten one the reload task lacked
    reloader,   \* the reload task
    config      \* the shared configuration

watcherVars == <<file, fs_events, watcher, chan, lagged, reloader, config>>

Config == Valid \cup {Default}
Versions == [version : Nat, conf : Config]

\* load_config
Load(text) == IF text \in Valid THEN text ELSE Default
Loaded == [version |-> file.version, conf |-> Load(file.text)]

NoConfig == [version |-> 0, conf |-> Default]

WatcherInit ==
    /\ file \in [version : {0}, text : Text]
    /\ fs_events = 0
    /\ watcher = "off"
    /\ chan = <<>>
    /\ lagged = FALSE
    /\ reloader = "none"
    /\ config = NoConfig

\* Somebody saves, replaces or removes the file; saving in place shows first a
\* text that is cut short.
Change(text, n) ==
    /\ file.version < MaxChanges
    /\ file' = [version |-> file.version + 1, text |-> text]
    /\ fs_events' = IF watcher = "off" THEN fs_events ELSE fs_events + n
    /\ UNCHANGED <<watcher, chan, lagged, reloader, config>>

\* Step 1 of main.
LoadConfig ==
    /\ config' = Loaded
    /\ UNCHANGED <<file, fs_events, watcher, chan, lagged, reloader>>

\* Step 6; an error of watch_config is ignored, see Daemon.
WatchConfig ==
    /\ watcher' = "on"
    /\ UNCHANGED <<file, fs_events, chan, lagged, reloader, config>>

SpawnReloader ==
    /\ reloader' = IF watcher = "on" THEN "waiting" ELSE "none"
    /\ UNCHANGED <<file, fs_events, watcher, chan, lagged, config>>

\* The end of the block drops _watcher: the thread is told to stop, and may
\* still handle what it has been told before.
DropWatcher ==
    /\ watcher' = IF watcher = "on" THEN "closing" ELSE watcher
    /\ UNCHANGED <<file, fs_events, chan, lagged, reloader, config>>

\* A channel without a limit.
Sent_Unbounded(c, value) == Append(c, value)

\* send: a full channel overwrites its oldest value.
Sent(c, value) ==
    Append(IF Len(c) = Capacity THEN Tail(c) ELSE c, value)

\* The handler of the thread: the file is read when the event is handled.
HandleEvent ==
    /\ watcher # "off"
    /\ fs_events > 0
    /\ fs_events' = fs_events - 1
    /\ chan' = Sent(chan, Loaded)
    /\ lagged' = (lagged \/ Len(chan) = Capacity)
    /\ UNCHANGED <<file, watcher, reloader, config>>

\* The thread ends, and with it the sending side of the channel.
ThreadEnds ==
    /\ watcher = "closing"
    /\ watcher' = "off"
    /\ fs_events' = 0
    /\ UNCHANGED <<file, chan, lagged, reloader, config>>

\* A receiver that takes a closed channel for an empty one.
Receivable_IfOpen == chan # <<>> /\ watcher # "off"

\* recv() has a value to give: a closed channel gives those it still holds.
Receivable == chan # <<>>

Reload ==
    /\ reloader = "waiting"
    /\ ~lagged /\ Receivable
    /\ config' = Head(chan)
    /\ chan' = Tail(chan)
    /\ UNCHANGED <<file, fs_events, watcher, lagged, reloader>>

\* "while let Ok": Lagged ends the task as Closed does.
ReloaderEnds ==
    /\ reloader = "waiting"
    /\ lagged \/ (~Receivable /\ watcher = "off")
    /\ reloader' = "ended"
    /\ UNCHANGED <<file, fs_events, watcher, chan, lagged, config>>

\* The process dies.
WatcherDies ==
    /\ fs_events' = 0
    /\ watcher' = "off"
    /\ chan' = <<>>
    /\ lagged' = FALSE
    /\ reloader' = "none"
    /\ config' = NoConfig
    /\ file' = file

ReloadTasks == HandleEvent \/ ThreadEnds \/ Reload \/ ReloaderEnds

-----------------------------------------------------------------------------
(* Properties *)

WatcherTypeOK ==
    /\ file \in [version : Nat, text : Text]
    /\ fs_events \in Nat
    /\ watcher \in {"off", "on", "closing"}
    /\ chan \in Seq(Versions)
    /\ Len(chan) <= Capacity
    /\ lagged \in BOOLEAN
    /\ reloader \in {"none", "waiting", "ended"}
    /\ config \in Versions
=============================================================================
