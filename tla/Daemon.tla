-------------------------------- MODULE Daemon --------------------------------
(***************************************************************************)
(* The life of the process: the steps of main in their order, with those   *)
(* of the schema initialisation, and what they start: the D-Bus service,   *)
(* the socket server, the reload of the configuration (ConfigWatcher) and  *)
(* the event bus consumer (EventBusConsumer).  It may die at any point;    *)
(* systemd starts it again, and then only the file and the database are    *)
(* left.                                                                   *)
(***************************************************************************)
EXTENDS ConfigWatcher, EventBusConsumer

CONSTANT
    MayFail     \* TRUE: the process may die, or a step may fail, at any point

ASSUME MayFailAssumption == MayFail \in BOOLEAN

VARIABLES
    stage,      \* the step of main that comes next, or "down"
    schema,     \* what the database file holds
    wired,      \* set_manager has been called
    serving     \* what the process offers: D-Bus name, socket

vars == <<watcherVars, busVars, stage, schema, wired, serving>>

Objects == {"schema_version", "notifications", "index_timestamp", "index_app", "version"}
Tables == Objects \ {"version"}

\* The version inserted before the tables are created.
After_VersionFirst ==
    [down |-> "config", config |-> "schema_version", schema_version |-> "select",
     select |-> "version", version |-> "notifications",
     notifications |-> "index_timestamp", index_timestamp |-> "index_app",
     index_app |-> "manager", manager |-> "dbus", dbus |-> "socket",
     socket |-> "watch", watch |-> "reloader", reloader |-> "unwatch",
     unwatch |-> "consumer", consumer |-> "ready"]

\* The file read when the watcher is in place, so as to miss no change.
After_LoadLast ==
    [down |-> "schema_version", schema_version |-> "select", select |-> "notifications",
     notifications |-> "index_timestamp", index_timestamp |-> "index_app",
     index_app |-> "version", version |-> "manager", manager |-> "dbus",
     dbus |-> "socket", socket |-> "watch", watch |-> "reloader",
     reloader |-> "unwatch", unwatch |-> "config", config |-> "consumer",
     consumer |-> "ready"]

\* The steps of main, each with the one after it; "select" may skip to "manager".
After ==
    [down |-> "config", config |-> "schema_version", schema_version |-> "select",
     select |-> "notifications", notifications |-> "index_timestamp",
     index_timestamp |-> "index_app", index_app |-> "version", version |-> "manager",
     manager |-> "dbus", dbus |-> "socket", socket |-> "watch", watch |-> "reloader",
     reloader |-> "unwatch", unwatch |-> "consumer", consumer |-> "ready"]

Stages == DOMAIN After \cup {"ready"}

Init ==
    /\ WatcherInit
    /\ BusInit
    /\ stage = "down"
    /\ schema = {}
    /\ wired = FALSE
    /\ serving = {}

Does(step) == stage = step /\ stage' = After[step]

\* systemd or the session starts the daemon.
Start ==
    /\ Does("down")
    /\ UNCHANGED <<watcherVars, busVars, schema, wired, serving>>

ReadConfig ==
    /\ Does("config")
    /\ LoadConfig
    /\ UNCHANGED <<busVars, schema, wired, serving>>

\* CREATE TABLE or INDEX IF NOT EXISTS, and the INSERT of the version.
Create(object) ==
    /\ Does(object)
    /\ schema' = schema \cup {object}
    /\ UNCHANGED <<watcherVars, busVars, wired, serving>>

\* SELECT version: a database that has one is taken to be complete.
SelectVersion ==
    /\ stage = "select"
    /\ stage' = IF "version" \in schema THEN "manager" ELSE After["select"]
    /\ UNCHANGED <<watcherVars, busVars, schema, wired, serving>>

WireManager ==
    /\ Does("manager")
    /\ wired' = TRUE
    /\ UNCHANGED <<watcherVars, busVars, schema, serving>>

\* Without a socket the daemon goes on.
Offer(service) ==
    /\ Does(service)
    /\ \/ serving' = serving \cup {service}
       \/ MayFail /\ service = "socket" /\ serving' = serving
    /\ UNCHANGED <<watcherVars, busVars, schema, wired>>

Watch ==
    /\ Does("watch")
    /\ WatchConfig \/ (MayFail /\ UNCHANGED watcherVars)
    /\ UNCHANGED <<busVars, schema, wired, serving>>

StartReloader ==
    /\ Does("reloader")
    /\ SpawnReloader
    /\ UNCHANGED <<busVars, schema, wired, serving>>

Unwatch ==
    /\ Does("unwatch")
    /\ DropWatcher
    /\ UNCHANGED <<busVars, schema, wired, serving>>

FollowBus ==
    /\ Does("consumer")
    /\ StartConsumer
    /\ UNCHANGED <<watcherVars, schema, wired, serving>>

StartUp ==
    \/ Start \/ ReadConfig
    \/ \E object \in Objects : Create(object)
    \/ SelectVersion \/ WireManager
    \/ \E service \in {"dbus", "socket"} : Offer(service)
    \/ Watch \/ StartReloader \/ Unwatch \/ FollowBus

\* The process is killed, or main returns the error of a step.
Die ==
    /\ MayFail
    /\ stage # "down"
    /\ stage' = "down"
    /\ WatcherDies
    /\ ConsumerDies
    /\ wired' = FALSE
    /\ serving' = {}
    /\ schema' = schema

ReloadStep == ReloadTasks /\ UNCHANGED <<busVars, stage, schema, wired, serving>>
ConsumerStep == Consume /\ UNCHANGED <<watcherVars, stage, schema, wired, serving>>

Environment ==
    \/ /\ \E text \in Text, n \in 1..MaxEvents : Change(text, n)
       /\ UNCHANGED <<busVars, stage, schema, wired, serving>>
    \/ TheBus /\ UNCHANGED <<watcherVars, stage, schema, wired, serving>>

Next == StartUp \/ Die \/ ReloadStep \/ ConsumerStep \/ Environment

Spec == Init /\ [][Next]_vars

\* The process is started and scheduled; the bus does not for ever drop
\* the consumer before it has read the registration.
Fairness ==
    /\ WF_vars(StartUp)
    /\ WF_vars(HandleEvent /\ UNCHANGED <<busVars, stage, schema, wired, serving>>)
    /\ WF_vars(ThreadEnds /\ UNCHANGED <<busVars, stage, schema, wired, serving>>)
    /\ WF_vars((Reload \/ ReloaderEnds)
               /\ UNCHANGED <<busVars, stage, schema, wired, serving>>)
    /\ WF_vars(ConsumerStep)
    /\ SF_vars(Register /\ UNCHANGED <<watcherVars, stage, schema, wired, serving>>)

LiveSpec == Spec /\ Fairness

-----------------------------------------------------------------------------
(* Properties *)

TypeOK ==
    /\ WatcherTypeOK
    /\ ConsumerTypeOK
    /\ stage \in Stages
    /\ schema \subseteq Objects
    /\ wired \in BOOLEAN
    /\ serving \subseteq {"dbus", "socket"}

\* Wherever earlier starts were cut off, a daemon that can be called has its
\* tables and its manager: a version row is not left in a database without them,
\* and notify never "fails closed" for want of set_manager.
ServesOnlyWhenReady == serving # {} => Tables \subseteq schema /\ wired

\* As long as the process lives the configuration never goes back to an older
\* text of the file, although three parties read the file and hand it on.
ConfigNeverGoesBack ==
    [][stage' # "down" => config'.version >= config.version]_vars

\* A change that the watcher has sent on comes into force, even if the watcher
\* is gone by then, unless the channel overflows or the process dies.
ReloadsArrive ==
    \A v \in 1..MaxChanges :
        (\E i \in DOMAIN chan : chan[i].version = v)
            ~> (config.version >= v \/ lagged \/ stage = "down")

\* "Errors log and retry": with the bus up, a running daemon comes to follow it,
\* whatever broke the connection before.
ConsumerReconnects ==
    bus /\ stage = "ready" ~> peer = "registered" \/ ~bus \/ stage = "down"

\* "Emits the new Config whenever the file changes": a running daemon that is up
\* to date comes to be so again, when the file has been changed for the last time.
UpToDate == config.conf = Load(file.text)
HotReload ==
    [](stage = "ready" /\ UpToDate => <>[](UpToDate \/ stage # "ready"))
=============================================================================
