------------------------- MODULE NotificationManager -------------------------
(***************************************************************************)
(* The notification manager and the D-Bus methods that drive it.           *)
(*                                                                         *)
(* zbus runs every method call in a task of its own, and a task can be     *)
(* overtaken at each await, so a Notify call is a small process that takes *)
(* these steps (pc):                                                       *)
(*                                                                         *)
(*   unsent -Notify-> limit -RateLimit-> decide -Decide-> store -Store->   *)
(*   act -Act-> done          (limit -> refused, decide -> act)            *)
(*                                                                         *)
(* The locks of handle_notify are not modelled: each is released before    *)
(* the next await that matters, except that the configuration is locked    *)
(* while the DND state is read, which makes Decide one atomic step.        *)
(*                                                                         *)
(* A notification is identified with the Notify call that brought it; text *)
(* and icons are left out.  Its timestamp is the rank in which it was      *)
(* built.  events is the log of everything ever sent on the broadcast      *)
(* channel, over all runs of the process.                                  *)
(***************************************************************************)
EXTENDS DndPolicy, Storage, Sequences, Functions

CONSTANTS
    Close,        \* the CloseNotification calls the daemon receives
    CloseIds,     \* the ids they name
    Requests,     \* the arguments a Notify call may carry
    Configs,      \* the configurations the file may hold
    FocusLists,   \* the suppress lists a focus session may carry
    Instants,     \* wall-clock times at which a decision may fall
    FlushLimit,   \* toasts shown on a fullscreen exit (5 in the code)
    DbMayFail,    \* TRUE: any statement may return an error
    MaxRestarts   \* bound: how often the process is restarted

HistoryConfigs == [enabled : BOOLEAN, max_age : Nat, max_count : Nat]
AllConfigs == [dnd : DndConfigs, apps : [App -> SUBSET OverrideFlags],
               history : HistoryConfigs]
AllRequests == [app : App, urgency : 0..255, expire_timeout : Int,
                category : Categories, replaces_id : Ids]

ASSUME AppAssumption == App # {}
ASSUME RequestsAssumption == Requests \subseteq AllRequests
ASSUME ConfigsAssumption == Configs \subseteq AllConfigs
ASSUME CloseIdsAssumption == CloseIds \subseteq Ids
ASSUME FocusListsAssumption == FocusLists \subseteq SUBSET App
ASSUME FlushLimitAssumption == FlushLimit \in Nat \ {0}
ASSUME DbMayFailAssumption == DbMayFail \in BOOLEAN
ASSUME MaxRestartsAssumption == MaxRestarts \in Nat

VARIABLES
    next_id,      \* NotificationServer.next_id
    pc, note,     \* the Notify calls: where each is, the notification it builds,
    stamp,        \*   its timestamp (0: not built yet),
    verdict,      \*   the decision taken on it ("none": not yet),
    keep,         \*   history.enabled as read with the decision
    closing,      \* the CloseNotification calls
    config,       \* the shared configuration
    dnd_mode,     \* the mode mirrored for the socket server
    dnd_state,    \* fullscreen flag and focus session
    queue,        \* fullscreen_queue
    consumer,     \* the Event Bus task: idle, or within set_fullscreen(false)
    to_send,      \* the batch it took from the queue
    cleaner,      \* the retention task and the limits it read
    db,           \* the notifications table
    events,       \* everything sent on the broadcast channel
    clock,        \* notifications built so far
    inserted,     \* history: what became of each call's insert
    epoch,        \* history: the run of the process, from 1 on,
    run           \*   and the one that allocated each call's id (0: the caller named it)

callVars == <<pc, note, stamp, verdict, keep, inserted>>
busVars == <<dnd_state, consumer, to_send>>
vars == <<next_id, callVars, closing, config, dnd_mode, busVars, queue, cleaner,
          db, events, clock, epoch, run>>

Notes == [id : Ids, app : App, priority : Priorities, category : Categories]

NoNote == [id |-> 0, app |-> CHOOSE a \in App : TRUE, priority |-> "Low",
           category |-> "other"]

Added(c) == [kind |-> "Added", call |-> c]
Closed(id) == [kind |-> "Closed", id |-> id]
Events == [kind : {"Added"}, call : Call] \cup [kind : {"Closed"}, id : Ids]

IdleCleaner == [pc |-> "idle", enabled |-> TRUE, max_age |-> 0, max_count |-> 0]

Init ==
    /\ next_id = 1
    /\ pc = [c \in Call |-> "unsent"]
    /\ note = [c \in Call |-> NoNote]
    /\ stamp = [c \in Call |-> 0]
    /\ verdict = [c \in Call |-> "none"]
    /\ keep = [c \in Call |-> FALSE]
    /\ closing = [k \in Close |-> [pc |-> "unsent", id |-> 0]]
    /\ config \in Configs
    /\ dnd_mode = "Off"
    /\ dnd_state = DefaultDndState
    /\ queue = <<>>
    /\ consumer = "idle"
    /\ to_send = <<>>
    /\ cleaner = IdleCleaner
    /\ db = {}
    /\ events = <<>>
    /\ clock = 0
    /\ inserted = [c \in Call |-> "no"]
    /\ epoch = 1
    /\ run = [c \in Call |-> 0]

-----------------------------------------------------------------------------
(* Notify: server.rs allocates the id, the manager does the rest *)

\* A counter that a call reads and only a later step would advance.
FetchAdd_Stuck(n) == n

\* The next value of an AtomicU32: fetch_add wraps.
FetchAdd(n) == (n + 1) % (MaxU32 + 1)

Notify(c, r) ==
    LET id == IF r.replaces_id > 0 THEN r.replaces_id ELSE next_id IN
    /\ pc[c] = "unsent"
    /\ next_id' = IF r.replaces_id > 0 THEN next_id ELSE FetchAdd(next_id)
    /\ note' = [note EXCEPT ![c] =
           [id |-> id, app |-> r.app, category |-> r.category,
            priority |-> DeterminePriority(r.urgency, r.expire_timeout, r.category)]]
    /\ run' = [run EXCEPT ![c] = IF r.replaces_id > 0 THEN 0 ELSE epoch]
    /\ pc' = [pc EXCEPT ![c] = "limit"]
    /\ UNCHANGED <<stamp, verdict, keep, inserted, closing, config, dnd_mode, busVars,
                   queue, cleaner, db, events, clock, epoch>>

\* The limiter admits or refuses (module RateLimiter says when); an admitted
\* notification is built, with its timestamp.
RateLimit(c) ==
    /\ pc[c] = "limit"
    /\ \/ /\ pc' = [pc EXCEPT ![c] = "refused"]
          /\ UNCHANGED <<stamp, clock>>
       \/ /\ pc' = [pc EXCEPT ![c] = "decide"]
          /\ clock' = clock + 1
          /\ stamp' = [stamp EXCEPT ![c] = clock']
    /\ UNCHANGED <<next_id, note, verdict, keep, inserted, closing, config, dnd_mode,
                   busVars, queue, cleaner, db, events, epoch, run>>

\* Storage skipped for what is deferred, leaving it to the flush.
MustStore_NotDeferred(v, enabled) == enabled /\ v \in {"Allow", "Suppress"}

MustStore(v, enabled) == enabled /\ v # "Drop"

Decide(c, now) ==
    LET v == ShouldSuppress(dnd_state, note[c], config.dnd,
                            config.apps[note[c].app], now) IN
    /\ pc[c] = "decide"
    /\ dnd_mode' = config.dnd.mode
    /\ verdict' = [verdict EXCEPT ![c] = v]
    /\ keep' = [keep EXCEPT ![c] = config.history.enabled]
    /\ pc' = [pc EXCEPT ![c] =
                 IF MustStore(v, config.history.enabled) THEN "store" ELSE "act"]
    /\ UNCHANGED <<next_id, note, stamp, inserted, closing, config, busVars, queue,
                   cleaner, db, events, clock, epoch, run>>

Row(c) == [id |-> note[c].id, call |-> c, stamp |-> stamp[c], dismissed |-> FALSE]

\* An error of the insert is logged and the call goes on.
Store(c) ==
    /\ pc[c] = "store"
    /\ \/ /\ db' = Insert(db, Row(c))
          /\ inserted' = [inserted EXCEPT ![c] = "yes"]
       \/ /\ DbMayFail
          /\ inserted' = [inserted EXCEPT ![c] = "failed"]
          /\ db' = db
    /\ pc' = [pc EXCEPT ![c] = "act"]
    /\ UNCHANGED <<next_id, note, stamp, verdict, keep, closing, config, dnd_mode,
                   busVars, queue, cleaner, events, clock, epoch, run>>

\* Broadcasting whatever was stored.
Shows_Stored(v) == v \in {"Allow", "Suppress"}

Shows(v) == v = "Allow"

\* The call of a deferred notification answered only after the fullscreen exit.
ReadyToAct_AwaitsExit(c) ==
    pc[c] = "act" /\ (verdict[c] = "Queue" => ~dnd_state.fullscreen_active)

ReadyToAct(c) == pc[c] = "act"

Act(c) ==
    /\ ReadyToAct(c)
    /\ events' = IF Shows(verdict[c]) THEN Append(events, Added(c)) ELSE events
    /\ queue' = IF verdict[c] = "Queue" THEN Append(queue, c) ELSE queue
    /\ pc' = [pc EXCEPT ![c] = "done"]
    /\ UNCHANGED <<next_id, note, stamp, verdict, keep, inserted, closing, config,
                   dnd_mode, busVars, cleaner, db, clock, epoch, run>>

-----------------------------------------------------------------------------
(* CloseNotification: dismiss the row, broadcast, emit the D-Bus signal *)

\* An error of the update is ignored.
CloseDismiss(k, id) ==
    /\ closing[k].pc = "unsent"
    /\ \/ db' = Dismiss(db, id)
       \/ DbMayFail /\ db' = db
    /\ closing' = [closing EXCEPT ![k] = [pc |-> "send", id |-> id]]
    /\ UNCHANGED <<next_id, callVars, config, dnd_mode, busVars, queue, cleaner,
                   events, clock, epoch, run>>

CloseBroadcast(k) ==
    /\ closing[k].pc = "send"
    /\ events' = Append(events, Closed(closing[k].id))
    /\ closing' = [closing EXCEPT ![k].pc = "signal"]
    /\ UNCHANGED <<next_id, callVars, config, dnd_mode, busVars, queue, cleaner, db,
                   clock, epoch, run>>

CloseSignal(k) ==
    /\ closing[k].pc = "signal"
    /\ closing' = [closing EXCEPT ![k].pc = "done"]
    /\ UNCHANGED <<next_id, callVars, config, dnd_mode, busVars, queue, cleaner, db,
                   events, clock, epoch, run>>

-----------------------------------------------------------------------------
(* The Event Bus consumer, a single task that handles one event at a time *)

SetFullscreen(active) ==
    /\ consumer = "idle"
    /\ dnd_state' = [dnd_state EXCEPT !.fullscreen_active = active]
    /\ consumer' = IF active THEN "idle" ELSE "flush"
    /\ UNCHANGED <<next_id, callVars, closing, config, dnd_mode, queue, to_send,
                   cleaner, db, events, clock, epoch, run>>

Least(a, b) == IF a <= b THEN a ELSE b

\* The newest notifications of the queue instead of the oldest.
Batch_Newest(q) == SubSeq(q, Len(q) + 1 - Least(FlushLimit, Len(q)), Len(q))

\* The whole queue, without take(5).
Batch_All(q) == q

Batch(q) == SubSeq(q, 1, Least(FlushLimit, Len(q)))

\* What is left of the queue when only the batch is drained.
AfterDrain_Clone(q) == q

\* queue.drain(..).take(5): everything leaves the queue, the batch is kept.
AfterDrain(q) == <<>>

DrainQueue ==
    /\ consumer = "flush"
    /\ to_send' = Batch(queue)
    /\ queue' = AfterDrain(queue)
    /\ consumer' = IF to_send' = <<>> THEN "idle" ELSE "send"
    /\ UNCHANGED <<next_id, callVars, closing, config, dnd_mode, dnd_state, cleaner,
                   db, events, clock, epoch, run>>

FlushSend ==
    /\ consumer = "send"
    /\ events' = Append(events, Added(Head(to_send)))
    /\ to_send' = Tail(to_send)
    /\ consumer' = IF to_send' = <<>> THEN "idle" ELSE "send"
    /\ UNCHANGED <<next_id, callVars, closing, config, dnd_mode, dnd_state, queue,
                   cleaner, db, clock, epoch, run>>

ActivateFocus(apps) ==
    /\ consumer = "idle"
    /\ dnd_state' = [dnd_state EXCEPT !.focus = ActivatedFocus(apps)]
    /\ UNCHANGED <<next_id, callVars, closing, config, dnd_mode, consumer, to_send,
                   queue, cleaner, db, events, clock, epoch, run>>

DeactivateFocus ==
    /\ consumer = "idle"
    /\ dnd_state' = [dnd_state EXCEPT !.focus = InactiveFocus]
    /\ UNCHANGED <<next_id, callVars, closing, config, dnd_mode, consumer, to_send,
                   queue, cleaner, db, events, clock, epoch, run>>

-----------------------------------------------------------------------------
(* Configuration reload, retention, and restart *)

ReloadConfig(new) ==
    /\ config' = new
    /\ UNCHANGED <<next_id, callVars, closing, dnd_mode, busVars, queue, cleaner, db,
                   events, clock, epoch, run>>

\* The limits are read under the lock and used after it is released; with the
\* history disabled, db.cleanup(0, 0) is called.
CleanupStart ==
    /\ cleaner.pc = "idle"
    /\ LET history == config.history IN
       cleaner' = [pc |-> "age", enabled |-> history.enabled,
                   max_age |-> IF history.enabled THEN history.max_age ELSE 0,
                   max_count |-> IF history.enabled THEN history.max_count ELSE 0]
    /\ UNCHANGED <<next_id, callVars, closing, config, dnd_mode, busVars, queue, db,
                   events, clock, epoch, run>>

\* cutoff is the first timestamp young enough to stay.
CleanupAge(cutoff) ==
    /\ cleaner.pc = "age"
    /\ db' = IF cleaner.max_age > 0 THEN DeleteOlder(db, cutoff) ELSE db
    /\ cleaner' = [cleaner EXCEPT !.pc = "count"]
    /\ UNCHANGED <<next_id, callVars, closing, config, dnd_mode, busVars, queue,
                   events, clock, epoch, run>>

CleanupCount ==
    /\ cleaner.pc = "count"
    /\ db' = IF cleaner.max_count > 0 THEN KeepNewest(db, cleaner.max_count) ELSE db
    /\ cleaner' = IdleCleaner
    /\ UNCHANGED <<next_id, callVars, closing, config, dnd_mode, busVars, queue,
                   events, clock, epoch, run>>

\* A statement that fails ends the pass.
CleanupFail ==
    /\ DbMayFail
    /\ cleaner.pc \in {"age", "count"}
    /\ cleaner' = IdleCleaner
    /\ UNCHANGED <<next_id, callVars, closing, config, dnd_mode, busVars, queue, db,
                   events, clock, epoch, run>>

InFlight == {"limit", "decide", "store", "act"}

\* The process dies and is started again: only the table survives, and the
\* calls being served get no answer.
Restart(new) ==
    /\ epoch <= MaxRestarts
    /\ epoch' = epoch + 1
    /\ next_id' = 1
    /\ pc' = [c \in Call |-> IF pc[c] \in InFlight THEN "lost" ELSE pc[c]]
    /\ closing' = [k \in Close |-> IF closing[k].pc \in {"send", "signal"}
                                   THEN [closing[k] EXCEPT !.pc = "lost"] ELSE closing[k]]
    /\ config' = new
    /\ dnd_mode' = "Off"
    /\ dnd_state' = DefaultDndState
    /\ queue' = <<>>
    /\ consumer' = "idle"
    /\ to_send' = <<>>
    /\ cleaner' = IdleCleaner
    /\ UNCHANGED <<note, stamp, verdict, keep, inserted, db, events, clock, run>>

-----------------------------------------------------------------------------

HandleNotify(c) ==
    \/ RateLimit(c)
    \/ \E now \in Instants : Decide(c, now)
    \/ Store(c)
    \/ Act(c)

HandleClose(k) == CloseBroadcast(k) \/ CloseSignal(k)

Flush == DrainQueue \/ FlushSend

Next ==
    \/ \E c \in Call, r \in Requests : Notify(c, r)
    \/ \E c \in Call : HandleNotify(c)
    \/ \E k \in Close, id \in CloseIds : CloseDismiss(k, id)
    \/ \E k \in Close : HandleClose(k)
    \/ \E active \in BOOLEAN : SetFullscreen(active)
    \/ Flush
    \/ \E apps \in FocusLists : ActivateFocus(apps)
    \/ DeactivateFocus
    \/ \E new \in Configs : ReloadConfig(new)
    \/ CleanupStart
    \/ \E cutoff \in 0..(clock + 1) : CleanupAge(cutoff)
    \/ CleanupCount
    \/ CleanupFail
    \/ \E new \in Configs : Restart(new)

Spec == Init /\ [][Next]_vars

\* Tasks are scheduled: every call being served and every flush goes on.
Fairness ==
    /\ \A c \in Call : WF_vars(HandleNotify(c))
    /\ \A k \in Close : WF_vars(HandleClose(k))
    /\ WF_vars(Flush)

LiveSpec == Spec /\ Fairness

-----------------------------------------------------------------------------
(* Properties *)

\* The notification of call c has been announced to the clients.
Shown(c) == Added(c) \in Range(events)

\* The notifications deferred and not announced yet, in the order they were
\* deferred, and as a set.
Waiting == to_send \o queue
Deferred == Range(to_send) \cup Range(queue)

\* Type correctness, with the batch of a flush limited to FlushLimit toasts and
\* the table keyed by id.
TypeOK ==
    /\ next_id \in Ids
    /\ pc \in [Call -> {"unsent", "refused", "done", "lost"} \cup InFlight]
    /\ note \in [Call -> Notes]
    /\ stamp \in [Call -> Nat]
    /\ verdict \in [Call -> Verdicts \cup {"none"}]
    /\ keep \in [Call -> BOOLEAN]
    /\ closing \in [Close -> [pc : {"unsent", "send", "signal", "done", "lost"}, id : Ids]]
    /\ config \in Configs
    /\ dnd_mode \in DndModes
    /\ dnd_state \in DndStates
    /\ queue \in Seq(Call)
    /\ consumer \in {"idle", "flush", "send"}
    /\ to_send \in Seq(Call)
    /\ Len(to_send) <= FlushLimit
    /\ consumer = "send" <=> to_send # <<>>
    /\ cleaner \in [pc : {"idle", "age", "count"}, enabled : BOOLEAN, max_age : Nat,
                    max_count : Nat]
    /\ db \subseteq Rows
    /\ events \in Seq(Events)
    /\ clock \in Nat
    /\ inserted \in [Call -> {"no", "yes", "failed"}]
    /\ epoch \in Nat \ {0}
    /\ run \in [Call -> Nat]

\* What is shown, deferred or stored is what the decision said, however late it
\* is carried out: a dropped notification leaves no trace ("skip storage,
\* broadcast and history"), a suppressed one is never shown, and nothing is
\* stored that was decided with the history off.
VerdictObeyed ==
    /\ \A c \in Call : Shown(c) => verdict[c] \in {"Allow", "Queue"}
    /\ \A c \in Deferred : verdict[c] = "Queue"
    /\ \A r \in db : keep[r.call] /\ verdict[r.call] \in {"Allow", "Suppress", "Queue"}

\* No notification is announced twice, although a deferred one passes from its
\* own call to the queue and from there to a flush that other calls overlap.
ShownOnce ==
    \A i, j \in DOMAIN events :
        events[i] = events[j] /\ events[i].kind = "Added" => i = j

\* The ids allocated in one run of the process are distinct, for concurrent
\* calls too (short of 2^32 calls, after which the counter wraps).
FreshIdsDistinct ==
    \A a, b \in Call :
        a # b /\ run[a] # 0 /\ run[a] = run[b] => note[a].id # note[b].id

\* A notification that a client can see, or will see at a fullscreen exit, has
\* been offered to the table first if the history is on: a Dismiss sent in answer
\* to the broadcast finds its row, and a deferred toast that is lost is in history.
StoredBeforeShown ==
    \A c \in Call :
        keep[c] /\ (Shown(c) \/ c \in Deferred) => inserted[c] # "no"

\* A pending row goes only when a notification with its id replaces it, or when
\* the retention by count removes it and finds max_count newer rows: not by age,
\* by a close, by a flush or by a restart.
PendingRowsKept ==
    [][\A r \in Pending(db) :
          \/ r.id \in IdsOf(db')
          \/ /\ cleaner.pc = "count"
             /\ Cardinality({s \in db : s.stamp > r.stamp}) >= cleaner.max_count]_vars

\* The manager delivers toasts as the abstract specification promises.
Fate(c) ==
    IF Shown(c) THEN "shown"
    ELSE IF c \in Deferred THEN "deferred"
    ELSE IF pc[c] \in {"unsent", "limit", "decide"} THEN "open"
    ELSE IF pc[c] = "refused" THEN "refused"
    ELSE IF verdict[c] = "Drop" THEN "dropped"
    ELSE IF verdict[c] = "Suppress" THEN "silenced"
    ELSE IF pc[c] \in {"store", "act"}
      THEN IF verdict[c] = "Allow" THEN "admitted" ELSE "deferring"
    ELSE "lost"

Toasts == INSTANCE ToastDelivery WITH fate <- [c \in Call |-> Fate(c)], line <- Waiting,
                                     Limit <- FlushLimit

DeliversToasts == Toasts!Spec

\* Every Notify call that reaches the daemon returns or dies with the process.
EveryCallReturns ==
    \A c \in Call : pc[c] = "limit" ~> pc[c] \in {"refused", "done", "lost"}

\* A fullscreen exit releases every notification deferred by then: it is shown
\* or given up, and does not stay behind.
ExitReleasesQueue ==
    \A c \in Call :
        consumer = "flush" /\ c \in Range(queue) ~> c \notin Deferred

\* "Queued notifications waiting for fullscreen exit": without a fullscreen
\* window nothing stays queued.
NothingStranded ==
    (queue # <<>> /\ ~dnd_state.fullscreen_active)
        ~> (queue = <<>> \/ dnd_state.fullscreen_active)
=============================================================================
