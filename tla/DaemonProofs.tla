----------------------------- MODULE DaemonProofs -----------------------------
(***************************************************************************)
(* Theorems about the process, for every file, every channel, every set of *)
(* topics, and deaths at any point.                                        *)
(***************************************************************************)
EXTENDS Daemon, TLAPS

-----------------------------------------------------------------------------
(* Start-up *)

\* What each step of main may rely on.
Started ==
    /\ stage \in Stages
    /\ schema \subseteq Objects /\ wired \in BOOLEAN /\ serving \subseteq {"dbus", "socket"}
    /\ "version" \in schema => Tables \subseteq schema
    /\ stage \notin {"down", "config", "schema_version"} => "schema_version" \in schema
    /\ stage \in {"index_timestamp", "index_app", "version"} => "notifications" \in schema
    /\ stage \in {"index_app", "version"} => "index_timestamp" \in schema
    /\ stage = "version" => "index_app" \in schema
    /\ stage \in {"manager", "dbus", "socket", "watch", "reloader", "unwatch",
                  "consumer", "ready"} => Tables \subseteq schema
    /\ stage \in {"dbus", "socket", "watch", "reloader", "unwatch",
                  "consumer", "ready"} => wired
    /\ serving # {} => stage \in {"socket", "watch", "reloader", "unwatch",
                                  "consumer", "ready"}

\* A step of main moves to the next one and changes what it says.
LEMMA StartUpStep ==
    ASSUME Started, StartUp
    PROVE  Started'
<1> USE DEF Started, Stages, After, Does, Tables, Objects
<1>1. CASE Start \/ ReadConfig \/ SelectVersion \/ Watch \/ StartReloader \/ Unwatch
           \/ FollowBus
  BY <1>1 DEF Start, ReadConfig, SelectVersion, Watch, StartReloader, Unwatch, FollowBus
<1>2. ASSUME NEW object \in Objects, Create(object)  PROVE Started'
  BY <1>2 DEF Create
<1>3. CASE WireManager
  BY <1>3 DEF WireManager
<1>4. ASSUME NEW service \in {"dbus", "socket"}, Offer(service)  PROVE Started'
  <2>1. CASE service = "dbus"
    BY <1>4, <2>1 DEF Offer
  <2>2. CASE service = "socket"
    BY <1>4, <2>2 DEF Offer
  <2>3. QED  BY <1>4, <2>1, <2>2
<1>5. QED  BY <1>1, <1>2, <1>3, <1>4 DEF StartUp

\* Every step of main finds what it relies on.
LEMMA DaemonStarted == Spec => []Started
<1>1. Init => Started
  BY DEF Init, Started, Stages, After
<1>2. Started /\ [Next]_vars => Started'
  <2> SUFFICES ASSUME Started, [Next]_vars  PROVE Started'
    OBVIOUS
  <2>1. CASE Die
    BY <2>1 DEF Die, Started, Stages, After
  <2>2. CASE UNCHANGED <<stage, schema, wired, serving>>
    BY <2>2 DEF Started
  <2>3. QED  BY <2>1, <2>2, StartUpStep
             DEF Next, ReloadStep, ConsumerStep, Environment, vars
<1>3. QED  BY <1>1, <1>2, PTL DEF Spec

\* Nobody is served by a daemon without its tables or its manager, wherever
\* this start and those before it were cut off.
THEOREM DaemonServesOnlyWhenReady == Spec => []ServesOnlyWhenReady
<1>1. Started => ServesOnlyWhenReady
  BY DEF Started, ServesOnlyWhenReady
<1>2. QED  BY <1>1, DaemonStarted, PTL

-----------------------------------------------------------------------------
(* The configuration *)

\* What travels from the file to the configuration keeps its order: nothing is
\* older than the configuration or newer than the file, the channel ascends, and
\* it is empty until the watcher is there.
InOrder ==
    /\ WatcherTypeOK
    /\ stage \in Stages
    /\ config.version <= file.version
    /\ \A i \in DOMAIN chan :
          /\ config.version <= chan[i].version
          /\ chan[i].version <= file.version
          /\ \A j \in DOMAIN chan : i <= j => chan[i].version <= chan[j].version
    /\ stage \in {"down", "config"} => chan = <<>> /\ watcher = "off"

\* A configuration that is sent is of the version on disk.
LEMMA LoadedType == ASSUME WatcherTypeOK
                    PROVE  Loaded \in Versions /\ Loaded.version = file.version
BY DEF WatcherTypeOK, Loaded, Load, Versions, Config

\* An empty channel is one.
LEMMA EmptyChan == <<>> \in Seq(Versions) /\ Len(<<>>) <= Capacity
BY WatcherBounds

\* Sending keeps the order.
LEMMA HandleEventOrder ==
    ASSUME InOrder, HandleEvent, UNCHANGED stage
    PROVE  InOrder' /\ config' = config
<1> DEFINE base == IF Len(chan) = Capacity THEN Tail(chan) ELSE chan
           new == Sent(chan, Loaded)
<1>1. chan \in Seq(Versions) /\ Len(chan) <= Capacity /\ Capacity \in Nat \ {0}
  BY WatcherBounds DEF InOrder, WatcherTypeOK
<1>2. Loaded \in Versions /\ Loaded.version = file.version
  BY LoadedType DEF InOrder
<1>3. /\ base \in Seq(Versions) /\ Len(base) < Capacity
      /\ \A i \in DOMAIN base :
            /\ config.version <= base[i].version
            /\ base[i].version <= file.version
            /\ \A j \in DOMAIN base : i <= j => base[i].version <= base[j].version
  <2>1. CASE Len(chan) = Capacity
    BY <1>1, <2>1 DEF InOrder
  <2>2. CASE Len(chan) # Capacity
    BY <1>1, <2>2 DEF InOrder
  <2>3. QED  BY <2>1, <2>2
<1>4. new = Append(base, Loaded)
  BY DEF Sent
<1>5. new \in Seq(Versions) /\ Len(new) = Len(base) + 1
      /\ (\A i \in DOMAIN base : new[i] = base[i]) /\ new[Len(base) + 1] = Loaded
  BY <1>2, <1>3, <1>4
<1>6. file.version \in Nat /\ config.version \in Nat /\ config.version <= file.version
  BY DEF InOrder, WatcherTypeOK, Versions
<1>7. /\ Len(new) <= Capacity
      /\ \A i \in DOMAIN new :
            /\ config.version <= new[i].version
            /\ new[i].version <= file.version
            /\ \A j \in DOMAIN new : i <= j => new[i].version <= new[j].version
  <2> HIDE DEF base, new
  <2>1. DOMAIN base = 1..Len(base) /\ DOMAIN new = 1..(Len(base) + 1) /\ Len(base) \in Nat
    BY <1>3, <1>5
  <2>2. \A i \in DOMAIN new : i \in DOMAIN base \/ i = Len(base) + 1
    BY <2>1
  <2>3. Len(new) <= Capacity
    BY <1>1, <1>3, <1>5, <2>1
  <2>4. QED  BY <1>2, <1>3, <1>5, <1>6, <2>1, <2>2, <2>3
<1>8. fs_events' \in Nat
  BY DEF HandleEvent, InOrder, WatcherTypeOK
<1>9. lagged' \in BOOLEAN
  BY Zenon DEF HandleEvent
<1>10. QED  BY <1>5, <1>7, <1>8, <1>9 DEF HandleEvent, InOrder, WatcherTypeOK

\* So does receiving, which moves the configuration forward.
LEMMA ReloadOrder ==
    ASSUME InOrder, Reload, UNCHANGED stage
    PROVE  InOrder' /\ config'.version >= config.version
<1>1. chan \in Seq(Versions) /\ chan # <<>> /\ Len(chan) <= Capacity /\ Capacity \in Nat
  BY WatcherBounds DEF InOrder, WatcherTypeOK, Reload, Receivable
<1>2. config' = chan[1] /\ chan' = Tail(chan) /\ 1 \in DOMAIN chan
  BY <1>1 DEF Reload
<1>3. config' \in Versions /\ chan' \in Seq(Versions) /\ Len(chan') = Len(chan) - 1
      /\ \A i \in DOMAIN chan' : i + 1 \in DOMAIN chan /\ chan'[i] = chan[i + 1]
  BY <1>1, <1>2
<1>4. /\ config'.version <= file.version
      /\ \A i \in DOMAIN chan' :
            /\ config'.version <= chan'[i].version
            /\ chan'[i].version <= file.version
            /\ \A j \in DOMAIN chan' : i <= j => chan'[i].version <= chan'[j].version
  BY <1>1, <1>2, <1>3 DEF InOrder
<1>5. config'.version \in Nat /\ config.version \in Nat
      /\ config.version <= config'.version
  BY <1>2, <1>3 DEF InOrder, WatcherTypeOK, Versions
<1>6. QED  BY <1>1, <1>3, <1>4, <1>5 DEF Reload, InOrder, WatcherTypeOK

\* The goal of a step: the order is kept, and while the process lives the
\* configuration does not go back.
Forward == InOrder' /\ (stage' # "down" => config'.version >= config.version)

\* The start-up reads the newest version and finds the channel empty.
LEMMA StartUpOrder ==
    ASSUME InOrder, StartUp
    PROVE  Forward
<1> DEFINE Quiet == \/ Start \/ SelectVersion \/ WireManager \/ FollowBus
                    \/ \E object \in Objects : Create(object)
                    \/ \E service \in {"dbus", "socket"} : Offer(service)
<1>1. file.version \in Nat /\ config.version \in Nat
  BY DEF InOrder, WatcherTypeOK, Versions
<1>2. CASE Quiet
  <2>1. UNCHANGED <<file, fs_events, watcher, chan, lagged, reloader, config>>
    BY <1>2 DEF Start, SelectVersion, WireManager, FollowBus, Create, Offer, watcherVars
  <2>2. /\ stage' \in Stages
        /\ stage' \in {"down", "config"} => stage \in {"down", "config"}
    BY <1>2 DEF Start, SelectVersion, WireManager, FollowBus, Create, Offer, Objects,
       Does, Stages, After
  <2>3. QED  BY <1>1, <2>1, <2>2 DEF InOrder, Forward, WatcherTypeOK
<1>3. CASE ReadConfig
  <2>1. Loaded \in Versions /\ Loaded.version = file.version
    BY LoadedType DEF InOrder
  <2>2. config' = Loaded /\ chan = <<>>
        /\ UNCHANGED <<file, fs_events, watcher, chan, lagged, reloader>>
        /\ stage' = "schema_version"
    BY <1>3 DEF ReadConfig, LoadConfig, Does, After, InOrder
  <2>3. QED  BY <1>1, <2>1, <2>2 DEF InOrder, Forward, WatcherTypeOK, Stages, After
<1>4. CASE Watch \/ StartReloader \/ Unwatch
  BY <1>1, <1>4 DEF Watch, StartReloader, Unwatch, WatchConfig, SpawnReloader, DropWatcher,
     watcherVars, InOrder, Forward, WatcherTypeOK, Does, Stages, After
<1>5. QED  BY <1>2, <1>3, <1>4 DEF StartUp

\* Every step keeps the order.
LEMMA NextOrder ==
    ASSUME InOrder, [Next]_vars
    PROVE  Forward
<1>1. file.version \in Nat /\ config.version \in Nat
  BY DEF InOrder, WatcherTypeOK, Versions
<1>2. CASE StartUp
  BY <1>2, StartUpOrder
<1>3. CASE Die
  <2>1. NoConfig \in Versions /\ NoConfig.version = 0
    BY DEF NoConfig, Versions, Config
  <2>2. /\ stage' = "down" /\ config' = NoConfig /\ file' = file /\ fs_events' = 0
        /\ watcher' = "off" /\ chan' = <<>> /\ lagged' = FALSE /\ reloader' = "none"
    BY <1>3 DEF Die, WatcherDies
  <2>3. WatcherTypeOK'
    BY <2>1, <2>2, EmptyChan DEF InOrder, WatcherTypeOK
  <2>4. QED  BY <1>1, <2>1, <2>2, <2>3 DEF InOrder, Forward, Stages, After
<1>4. CASE ReloadStep
  <2>1. CASE HandleEvent
    BY <1>1, <1>4, <2>1, HandleEventOrder DEF ReloadStep, Forward
  <2>2. CASE Reload
    BY <1>4, <2>2, ReloadOrder DEF ReloadStep, Forward
  <2>3. CASE ThreadEnds \/ ReloaderEnds
    BY <1>1, <1>4, <2>3 DEF ReloadStep, ThreadEnds, ReloaderEnds, InOrder, WatcherTypeOK,
       Forward
  <2>4. QED  BY <1>4, <2>1, <2>2, <2>3 DEF ReloadStep, ReloadTasks
<1>5. ASSUME NEW text \in Text, NEW n \in 1..MaxEvents, Change(text, n), UNCHANGED stage
      PROVE  Forward
  <2>1. file' = [version |-> file.version + 1, text |-> text]
        /\ fs_events' \in Nat /\ UNCHANGED <<watcher, chan, lagged, reloader, config>>
    BY <1>5 DEF Change, InOrder, WatcherTypeOK
  <2>2. chan \in Seq(Versions) /\ \A i \in DOMAIN chan : chan[i].version \in Nat
    <3>1. chan \in Seq(Versions) /\ \A i \in DOMAIN chan : chan[i] \in Versions
      BY DEF InOrder, WatcherTypeOK
    <3>2. QED  BY <3>1 DEF Versions
  <2>3. QED  BY <1>1, <1>5, <2>1, <2>2 DEF InOrder, WatcherTypeOK, Forward
<1>6. CASE UNCHANGED <<watcherVars, stage>>
  BY <1>1, <1>6 DEF watcherVars, InOrder, WatcherTypeOK, Forward
<1>7. QED  BY <1>2, <1>3, <1>4, <1>5, <1>6 DEF Next, ConsumerStep, Environment, vars

\* The order is kept in every behaviour.
LEMMA DaemonInOrder == Spec => []InOrder
<1>1. Init => InOrder
  <2> SUFFICES ASSUME Init  PROVE InOrder
    OBVIOUS
  <2>1. NoConfig \in Versions /\ NoConfig.version = 0
    BY DEF NoConfig, Versions, Config
  <2>2. file \in [version : Nat, text : Text] /\ file.version = 0
    BY DEF Init, WatcherInit
  <2>3. WatcherTypeOK
    BY <2>1, <2>2, EmptyChan DEF Init, WatcherInit, WatcherTypeOK
  <2>4. QED  BY <2>1, <2>2, <2>3 DEF Init, WatcherInit, InOrder, Stages, After
<1>2. InOrder /\ [Next]_vars => InOrder'
  BY NextOrder DEF Forward
<1>3. QED  BY <1>1, <1>2, PTL DEF Spec

\* A living process never goes back to an older configuration.
THEOREM DaemonConfigNeverGoesBack == Spec => ConfigNeverGoesBack
<1>1. InOrder /\ [Next]_vars =>
          [stage' # "down" => config'.version >= config.version]_vars
  BY NextOrder DEF Forward
<1>2. QED  BY <1>1, DaemonInOrder, PTL DEF Spec, ConfigNeverGoesBack

-----------------------------------------------------------------------------
(* The event bus *)

\* Every topic whose last message on this connection was readable is up to date,
\* or will be when the messages in the socket are handled: the last of them about
\* it says what the bus says.
Handled(t) ==
    /\ known[t] = pub[t]
    /\ \A i \in DOMAIN stream : ~IsAbout(stream[i], t)
UnderWay(t) ==
    \E i \in DOMAIN stream :
        /\ stream[i] = Happened(t, pub[t])
        /\ \A j \in DOMAIN stream : j > i => ~IsAbout(stream[j], t)
Following ==
    /\ ConsumerTypeOK
    /\ task # "reading" => peer = "closed"
    /\ \A t \in Topic :
          /\ last[t] = "event" => Handled(t) \/ UnderWay(t)
          /\ peer # "registered" => last[t] = "none"

\* What a message is.
LEMMA MessageKinds ==
    ASSUME NEW t \in Topic, NEW s \in State
    PROVE  /\ Happened(t, s) \in Messages /\ Happened(t, s).kind = "event"
           /\ Happened(t, s).topic = t /\ Happened(t, s).state = s
           /\ Malformed(t) \in Messages /\ Malformed(t).kind = "malformed"
           /\ Malformed(t).topic = t
BY DEF Happened, Malformed, Messages

\* A message in the socket that is an event names a topic and a state.
LEMMA EventType ==
    ASSUME NEW m \in Messages, m.kind = "event"
    PROVE  m.topic \in Topic /\ m.state \in State
BY DEF Messages, Happened, Malformed, Unknown, BadLength

\* A change is sent behind everything else.
LEMMA PublishFollows ==
    ASSUME Following, NEW t \in Topic, NEW s \in State, NEW m \in Messages,
           Publish(t, s, m)
    PROVE  Following'
<1>1. /\ stream \in Seq(Messages) /\ m \in Messages /\ m.kind \in {"event", "malformed"}
      /\ m.topic = t /\ (m.kind = "event" => m = Happened(t, s))
  BY MessageKinds DEF Following, ConsumerTypeOK, Publish
<1>2. /\ pub' = [pub EXCEPT ![t] = s] /\ pub' \in [Topic -> State] /\ pub'[t] = s
      /\ \A u \in Topic : u # t => pub'[u] = pub[u]
      /\ UNCHANGED <<bus, task, peer, known>>
  BY DEF Publish, Following, ConsumerTypeOK
<1>3. CASE peer # "registered"
  <2>1. UNCHANGED <<stream, last>>
    BY <1>3 DEF Publish
  <2>2. \A u \in Topic : last[u] = "none"
    BY <1>3 DEF Following
  <2>3. QED  BY <1>2, <1>3, <2>1, <2>2 DEF Following, ConsumerTypeOK
<1>4. CASE peer = "registered"
  <2>1. /\ stream' = Append(stream, m) /\ last' = [last EXCEPT ![t] = m.kind]
        /\ last' \in [Topic -> {"none", "event", "malformed"}]
    BY <1>1, <1>4 DEF Publish, Following, ConsumerTypeOK
  <2>2. /\ stream' \in Seq(Messages) /\ DOMAIN stream' = 1..(Len(stream) + 1)
        /\ DOMAIN stream = 1..Len(stream) /\ Len(stream) \in Nat
        /\ \A i \in DOMAIN stream : stream'[i] = stream[i]
        /\ stream'[Len(stream) + 1] = m
    BY <1>1, <2>1
  <2>3. ConsumerTypeOK'
    BY <1>2, <2>1, <2>2 DEF Following, ConsumerTypeOK
  <2>4. ASSUME NEW u \in Topic, last'[u] = "event"  PROVE (Handled(u) \/ UnderWay(u))'
    <3>1. CASE u = t
      <4>1. m = Happened(u, pub'[u])
        BY <1>1, <1>2, <2>1, <2>4, <3>1 DEF Following, ConsumerTypeOK
      <4>2. UnderWay(u)'
        BY <2>2, <4>1 DEF UnderWay
      <4>3. QED  BY <4>2
    <3>2. CASE u # t
      <4>1. last[u] = "event" /\ pub'[u] = pub[u] /\ known'[u] = known[u]
        BY <1>2, <2>1, <2>4, <3>2 DEF Following, ConsumerTypeOK
      <4>2. ~IsAbout(m, u)
        BY <1>1, <3>2 DEF IsAbout
      <4>3. CASE Handled(u)
        <5>1. Handled(u)'
          BY <2>2, <4>1, <4>2, <4>3 DEF Handled
        <5>2. QED  BY <5>1
      <4>4. CASE UnderWay(u)
        <5>1. UnderWay(u)'
          BY <2>2, <4>1, <4>2, <4>4 DEF UnderWay
        <5>2. QED  BY <5>1
      <4>5. QED  BY <4>1, <4>3, <4>4 DEF Following
    <3>3. QED  BY <3>1, <3>2
  <2>5. QED  BY <1>2, <1>4, <2>3, <2>4 DEF Following
<1>5. QED  BY <1>3, <1>4

\* The other messages concern no topic.
LEMMA SendOtherFollows ==
    ASSUME Following, NEW m \in Messages, SendOther(m)
    PROVE  Following'
<1>1. stream \in Seq(Messages) /\ stream' = Append(stream, m)
      /\ UNCHANGED <<bus, pub, task, peer, known, last>>
  BY DEF SendOther, Following, ConsumerTypeOK
<1>2. /\ stream' \in Seq(Messages) /\ DOMAIN stream' = 1..(Len(stream) + 1)
      /\ DOMAIN stream = 1..Len(stream) /\ Len(stream) \in Nat
      /\ \A i \in DOMAIN stream : stream'[i] = stream[i]
      /\ stream'[Len(stream) + 1] = m
  BY <1>1
<1>3. \A u \in Topic : ~IsAbout(m, u)
  BY DEF SendOther, IsAbout, Unknown, BadLength
<1>4. ASSUME NEW u \in Topic, Handled(u)  PROVE Handled(u)'
  BY <1>1, <1>2, <1>3, <1>4 DEF Handled
<1>5. ASSUME NEW u \in Topic, UnderWay(u)  PROVE UnderWay(u)'
  BY <1>1, <1>2, <1>3, <1>5 DEF UnderWay
<1>6. ConsumerTypeOK'
  BY <1>1, <1>2 DEF Following, ConsumerTypeOK
<1>7. QED  BY <1>1, <1>4, <1>5, <1>6 DEF Following

\* Handling the first message brings its topic nearer to the bus, and leaves the
\* others where they are.
LEMMA ReadMessageFollows ==
    ASSUME Following, NEW i \in DOMAIN stream, ReadMessage(i)
    PROVE  Following'
<1>1. stream \in Seq(Messages) /\ i = 1 /\ stream # <<>> /\ stream[1] \in Messages
  BY DEF ReadMessage, NextMessage, Following, ConsumerTypeOK
<1>2. stream' = SubSeq(stream, 1, 0) \o SubSeq(stream, 2, Len(stream))
      /\ UNCHANGED <<bus, pub, task, peer, last>>
  BY <1>1 DEF ReadMessage
<1>3. /\ stream' \in Seq(Messages) /\ DOMAIN stream' = 1..(Len(stream) - 1)
      /\ DOMAIN stream = 1..Len(stream) /\ Len(stream) \in Nat \ {0}
      /\ \A j \in DOMAIN stream' : stream'[j] = stream[j + 1]
  BY <1>1, <1>2
<1>4. known' = IF stream[1].kind = "event"
               THEN [known EXCEPT ![stream[1].topic] = stream[1].state] ELSE known
  BY <1>1 DEF ReadMessage
<1>5. known' \in [Topic -> State]
  BY <1>1, <1>4, EventType DEF Following, ConsumerTypeOK
<1>6. ConsumerTypeOK'
  BY <1>2, <1>3, <1>5 DEF Following, ConsumerTypeOK
<1>7. ASSUME NEW u \in Topic, Handled(u)  PROVE Handled(u)'
  <2>1. ~IsAbout(stream[1], u)
    BY <1>3, <1>7 DEF Handled
  <2>2. known'[u] = known[u]
    BY <1>1, <1>4, <2>1, EventType DEF IsAbout, Following, ConsumerTypeOK
  <2>3. QED  BY <1>2, <1>3, <1>7, <2>2 DEF Handled
<1>8. ASSUME NEW u \in Topic, UnderWay(u)  PROVE Handled(u)' \/ UnderWay(u)'
  <2>1. PICK k \in DOMAIN stream :
            /\ stream[k] = Happened(u, pub[u])
            /\ \A j \in DOMAIN stream : j > k => ~IsAbout(stream[j], u)
    BY <1>8 DEF UnderWay
  <2>2. pub[u] \in State
    BY DEF Following, ConsumerTypeOK
  <2>3. CASE k = 1
    <3>1. known'[u] = pub[u]
      BY <1>4, <2>1, <2>2, <2>3, MessageKinds DEF Following, ConsumerTypeOK
    <3>2. \A j \in DOMAIN stream' : ~IsAbout(stream'[j], u)
      BY <1>3, <2>1, <2>3
    <3>3. QED  BY <1>2, <3>1, <3>2 DEF Handled
  <2>4. CASE k # 1
    <3>1. k - 1 \in DOMAIN stream' /\ stream'[k - 1] = Happened(u, pub[u])
      BY <1>3, <2>1, <2>4
    <3>2. \A j \in DOMAIN stream' : j > k - 1 => ~IsAbout(stream'[j], u)
      BY <1>3, <2>1
    <3>3. QED  BY <1>2, <3>1, <3>2 DEF UnderWay
  <2>5. QED  BY <2>3, <2>4
<1>9. QED  BY <1>2, <1>6, <1>7, <1>8 DEF Following

\* Steps that start, end or renew a connection leave no message to be told of.
LEMMA ConnectionFollows ==
    ASSUME Following,
           \/ \E up \in BOOLEAN : BusCloses(up)
           \/ BusStarts \/ Register \/ (StartConsumer /\ task = "none")
           \/ Connect \/ ReadFails \/ Wake \/ ConsumerDies
    PROVE  Following'
<1>1. stream \in Seq(Messages) /\ <<>> \in Seq(Messages)
      /\ \A n \in 0..Len(stream) : SubSeq(stream, 1, n) \in Seq(Messages)
  BY DEF Following, ConsumerTypeOK
<1>2. Nothing \in [Topic -> {"none", "event", "malformed"}]
      /\ (\A t \in Topic : Nothing[t] = "none") /\ AllOff \in [Topic -> State]
  BY OffAssumption DEF Nothing, AllOff
<1>3. CASE \E up \in BOOLEAN : BusCloses(up)
  BY <1>1, <1>2, <1>3 DEF BusCloses, Following, ConsumerTypeOK
<1>4. CASE ReadFails \/ ConsumerDies
  BY <1>1, <1>2, <1>4 DEF ReadFails, AfterError, ConsumerDies, Following, ConsumerTypeOK
<1>5. CASE BusStarts
  BY <1>5 DEF BusStarts, Following, ConsumerTypeOK, Handled, UnderWay
<1>6. CASE Register \/ (StartConsumer /\ task = "none") \/ Connect \/ Wake
  <2>1. UNCHANGED <<bus, pub, stream, known, last>>
    BY <1>6 DEF Register, StartConsumer, Connect, Wake
  <2>2. \A t \in Topic : last[t] = "none"
    BY <1>6 DEF Register, StartConsumer, Connect, Wake, Following
  <2>3. QED  BY <1>6, <2>1, <2>2
             DEF Register, StartConsumer, Connect, Wake, Following, ConsumerTypeOK
<1>7. QED  BY <1>3, <1>4, <1>5, <1>6

\* The consumer is started once, by the last step of main.
Consumed == Following /\ (stage # "ready" => task = "none")

\* Every step keeps the daemon following the bus.
LEMMA DaemonConsumed == Spec => []Consumed
<1>1. Init => Consumed
  <2> SUFFICES ASSUME Init  PROVE Consumed
    OBVIOUS
  <2>1. Nothing \in [Topic -> {"none", "event", "malformed"}]
        /\ (\A t \in Topic : Nothing[t] = "none") /\ AllOff \in [Topic -> State]
    BY OffAssumption DEF Nothing, AllOff
  <2>2. <<>> \in Seq(Messages)
    OBVIOUS
  <2>3. ConsumerTypeOK
    BY <2>1, <2>2 DEF Init, BusInit, ConsumerTypeOK
  <2>4. QED  BY <2>1, <2>3 DEF Init, BusInit, Consumed, Following
<1>2. Started /\ Consumed /\ [Next]_vars => Consumed'
  <2> SUFFICES ASSUME Started, Consumed, [Next]_vars  PROVE Consumed'
    OBVIOUS
  <2> DEFINE Others == \/ Start \/ ReadConfig \/ SelectVersion \/ WireManager
                       \/ \E object \in Objects : Create(object)
                       \/ \E service \in {"dbus", "socket"} : Offer(service)
                       \/ Watch \/ StartReloader \/ Unwatch
  <2>1. CASE UNCHANGED busVars /\ (stage' = stage \/ stage # "ready")
    BY <2>1 DEF busVars, Consumed, Following, ConsumerTypeOK, Handled, UnderWay
  <2>2. CASE Others
    <3>1. UNCHANGED busVars /\ stage # "ready"
      BY <2>2 DEF Start, ReadConfig, SelectVersion, WireManager, Create, Offer, Objects,
         Watch, StartReloader, Unwatch, Does
    <3>2. QED  BY <2>1, <3>1
  <2>3. CASE FollowBus
    <3>1. StartConsumer /\ task = "none" /\ stage' = "ready"
      BY <2>3 DEF FollowBus, Consumed, Does, After
    <3>2. QED  BY <3>1, ConnectionFollows DEF Consumed
  <2>4. CASE Die
    <3>1. ConsumerDies /\ task' = "none"
      BY <2>4 DEF Die, ConsumerDies
    <3>2. QED  BY <3>1, ConnectionFollows DEF Consumed
  <2>5. CASE ConsumerStep
    <3>1. stage' = stage /\ task # "none"
      BY <2>5 DEF ConsumerStep, Consume, Connect, ReadMessage, ReadFails, Wake
    <3>2. Following'
      BY <2>5, ConnectionFollows, ReadMessageFollows DEF ConsumerStep, Consume, Consumed
    <3>3. QED  BY <3>1, <3>2 DEF Consumed
  <2>6. CASE TheBus /\ UNCHANGED <<watcherVars, stage, schema, wired, serving>>
    <3>1. stage' = stage /\ task' = task
      BY <2>6 DEF TheBus, Publish, SendOther, BusCloses, BusStarts, Register
    <3>2. CASE \E t \in Topic, s \in State, m \in Messages : Publish(t, s, m)
      BY <3>1, <3>2, PublishFollows DEF Consumed
    <3>3. CASE \E m \in Messages : SendOther(m)
      BY <3>1, <3>3, SendOtherFollows DEF Consumed
    <3>4. CASE \E up \in BOOLEAN : BusCloses(up)
      BY <3>1, <3>4, ConnectionFollows DEF Consumed
    <3>5. CASE BusStarts \/ Register
      BY <3>1, <3>5, ConnectionFollows DEF Consumed
    <3>6. QED  BY <2>6, <3>2, <3>3, <3>4, <3>5 DEF TheBus
  <2>7. QED  BY <2>1, <2>2, <2>3, <2>4, <2>5, <2>6
             DEF Next, StartUp, ReloadStep, Environment, vars
<1>3. QED  BY <1>1, <1>2, DaemonStarted, PTL DEF Spec

\* A registered daemon agrees with the bus about every topic whose last message
\* was readable, once it has handled the messages it was sent.
THEOREM DaemonFollowsBus == Spec => []FollowsBus
<1>1. Consumed => FollowsBus
  <2> SUFFICES ASSUME Consumed, NEW t \in Topic, last[t] = "event",
                      \A i \in DOMAIN stream : ~IsAbout(stream[i], t)
               PROVE  known[t] = pub[t]
    BY DEF FollowsBus
  <2>1. pub[t] \in State
    BY DEF Consumed, Following, ConsumerTypeOK
  <2>2. ~UnderWay(t)
    BY <2>1, MessageKinds DEF UnderWay, IsAbout
  <2>3. QED  BY <2>2 DEF Consumed, Following, Handled
<1>2. QED  BY <1>1, DaemonConsumed, PTL

\* The variables of the process keep their types and the channel its capacity.
THEOREM DaemonTypeOK == Spec => []TypeOK
<1>1. Started /\ InOrder /\ Consumed => TypeOK
  BY DEF Started, InOrder, Consumed, Following, TypeOK
<1>2. QED  BY <1>1, DaemonStarted, DaemonInOrder, DaemonConsumed, PTL
=============================================================================
