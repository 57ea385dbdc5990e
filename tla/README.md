# Verification of the Lunaris notification daemon

TLA+ models of `lunaris-notifyd`, the daemon that owns
`org.freedesktop.Notifications`: it receives notifications over D-Bus, decides
under the Do-Not-Disturb rules what to do with each, keeps a history in SQLite
and feeds the desktop shell over a Unix socket. TLC checks the models on small
instances; TLAPS proves the most important properties for every value of the
constants.

## 1. The system

| Component | State it keeps | Operations | Called by |
|---|---|---|---|
| D-Bus server (`dbus/server.rs`) | `next_id` (atomic u32, from 1 in every process) | `notify`, `close_notification` | any application, each call in a task of its own |
| Notification manager (`manager/notification.rs`) | `dnd_state`, `dnd_mode`, `fullscreen_queue`, the shared `config` | `handle_notify`, `handle_close`, `set_fullscreen`, focus, `cleanup` | D-Bus server, Event Bus consumer, cleanup task |
| Rate limiter (`manager/rate_limiter.rs`) | admission instants, in all and per app | `check` | manager, under a lock |
| DND decision (`dnd/`) | fullscreen flag, focus session | `should_suppress` | manager |
| Storage (`storage/`) | the `notifications` table | insert, dismiss, mark read, queries, retention | manager, socket server |
| Socket server (`socket/`) | list of client writers, the receiving end of the channel | accept loop, one broadcast task, one handler per client (Hello, Dismiss, MarkRead, ClearAll, SetDnd, InvokeAction, queries) | the shell |
| Event Bus consumer (`events/consumer.rs`) | its connection | registers, dispatches fullscreen and focus events one by one, reconnects | the event bus |
| Configuration (`config/`) | file, watcher thread, channel of 8, reload task | load, hot reload | main |
| Validation (`manager/validation.rs`), icon hints (`dbus/icon_hints.rs`) | none | cuts and strips the fields of a call, chooses its icon | manager, D-Bus server |
| Start-up (`main.rs`, `Database::init`) | what the database file holds | the steps of `main` in their order | systemd or the session |
| Grouping (`manager/grouping.rs`) | none | a key that is only logged | manager |

Interactions. `notify` allocates an id and runs the manager's pipeline: limiter,
priority, decision, insert, then broadcast, queue or nothing. The pipeline awaits
locks and SQL, so calls overtake each other anywhere in it. A broadcast goes into
one tokio channel (256 entries) that the socket server's broadcast task drains
into every client. The consumer flips the fullscreen flag and flushes the queue
within one event; it reads the next event only after that. The watcher thread reads the
file again when it changes and sends the result to a task that replaces the
shared configuration. A cleanup task deletes rows at start and daily. The shell pages
through the table with `GetHistory`, each page a statement of its own.

What is hard here:

* **Staleness across awaits.** The decision, the history switch and the limits of
  a cleanup are read under a lock and used after it is released. The fullscreen
  exit that falls between a decision and its execution is the sharpest case.
* **Ordering** of the insert, the broadcast and a client's answer to it.
* **Failure**: SQL errors are logged or ignored and the call goes on; the process
  restarts (`Restart=on-failure`) with only the table left.
* **Bounds**: the limiter's half-open window, the batch of five, the channel of 256, messages
  of 1 MB, a client that does not read.
* **Views**: a shell learns of the table by a snapshot and by events, which the server
  reads, sends and writes in separate steps of three kinds of tasks.
* **Time**: schedules over midnight, expiry of a mode, rows with equal timestamps.
* **Lifetimes**: the watcher, the reload task, the consumer and the broadcast task each end
  by themselves, or do not, while the daemon goes on.
* **Untrusted calls**: names, texts, lists and images of any shape and length.

The properties that make each component correct:

* *Pipeline*: a verdict is carried out as decided, nothing is announced twice, what
  is kept is stored before anybody can learn of it, a deferred notification is
  released by the fullscreen exit, in order, up to the batch limit.
* *Limiter*: no window, wherever placed, exceeds a limit; no refusal without a full window.
* *Decision*: the interplay of its eight first-match rules as inputs change.
* *Storage*: a pending row is not lost but by replacement or retention by count; a client that
  pages through the table gets everything that stays in it, but for ties, in descending
  order, and comes to an end.
* *Intake*: fields fit their limits (but for what is decoded after the cut, which the code overlooks) and
  are cut no more than that, a key keeps its label, an image
  is read only where it has bytes, a weaker icon does not displace a stronger one, and
  the limiter's bound holds for the name that is seen.
* *Socket server*: every connected client gets every event once and in order; what it
  shows agrees with the table once everything has arrived; events, connections and
  answers do not wait for each other for ever.
* *Configuration*: never back to an older text, what was sent on comes into force, and so does the
  last change (which the code violates).
* *Consumer*: the daemon's state is the bus's once the messages about it are handled, and it
  reconnects.
* *Start-up*: nothing is served without tables and manager, wherever earlier starts were cut off.

## 2. The modules

| Module | Models |
|---|---|
| `DndPolicy` | the decision as operators: `DeterminePriority`, `EffectiveMode`, `InSchedule`, `ShouldSuppress`, focus and fullscreen state |
| `DndState` (`MCDndState`) | a machine around the decision: fullscreen, focus, configuration and time change |
| `RateLimiter` | the limiter, with every admission ever made as history |
| `Validation`, `IconHints` | the sanitising of a call's fields and the choice of its icon, as operators |
| `Intake` (`MCIntake`) | the way in of a call: icon, fields, limiter, building |
| `Storage` | the table and the statements that change it, as operators |
| `NotificationManager` (`MCNotificationManager`) | the pipeline, closes, flushes, cleanup, reload, failures and restarts |
| `ToastDelivery` | abstract specification: the fate of every notification and the line of deferred ones |
| `SocketServer` (`MCSocketServer`) | accept loop, channel, broadcast task, handlers, framing limit, and the clients around them |
| `EventFeed` | abstract specification: one log, every member gets it from its place on |
| `History` (`MCHistory`) | a client that pages through the table while it changes |
| `ConfigWatcher` | file, watcher thread, channel, reload task, shared configuration |
| `EventBusConsumer` | the consumer and the bus around it |
| `Daemon` (`MCDaemon`) | the life of the process: the steps of `main`, the schema, and what they start |
| `DndStateProofs`, `RateLimiterProofs`, `IntakeProofs`, `NotificationManagerProofs`, `DeliveryProofs`, `HistoryProofs`, `DaemonProofs`, `SocketServerProofs` | theorems |

`NotificationManager` extends `DndPolicy` and `Storage` and instantiates
`ToastDelivery` under a refinement mapping (`Fate`, `Waiting`). `Intake` extends
`RateLimiter`, `Validation` and `IconHints`; in the manager the limiter's answer is a free choice,
which is what it looks like to the rest: whether there was room depends on instants the
pipeline does not see. `History` extends `Storage`, and `Daemon` extends `ConfigWatcher` and
`EventBusConsumer`; in the manager a reload and a bus event may come at any time,
which covers whatever `Daemon` lets happen.
`SocketServer` instantiates `EventFeed` as `Feed`. It holds its own, coarser manager (store,
announce or not, close, mirror the mode), so that an id is a notification there and
its row stays; replacement, retention and restart are `NotificationManager`'s.

### How the manager's state and actions correspond to the code

A `Notify` call is a small process with a program counter, one step per piece of
`handle_notify` between two awaits that matter:

| Action | Code |
|---|---|
| `Notify` | `notify`: id from `replaces_id` or `fetch_add`, priority from the hints |
| `RateLimit` | steps 1-4 of `handle_notify`: `check`, and the timestamp of an admitted one |
| `Decide` | step 6: one critical section, the configuration is locked throughout |
| `Store` | step 7: `INSERT OR REPLACE`, or an error that is logged |
| `Act` | step 8: send, push to `fullscreen_queue`, or nothing |
| `CloseDismiss`, `CloseBroadcast`, `CloseSignal` | `close_notification` |
| `SetFullscreen`, `DrainQueue`, `FlushSend` | `set_fullscreen`; every send is a step, because calls send in between |
| `ActivateFocus`, `DeactivateFocus` | the consumer's other events |
| `CleanupStart`, `CleanupAge`, `CleanupCount`, `CleanupFail` | `cleanup`: limits read, then one statement per step |
| `ReloadConfig`, `Restart` | the reload task; the death of the process and its next start |

The consumer's actions require `consumer = "idle"` where the single task would
still be busy. Texts, icons and actions are left out; a notification is its call, with
the fields a decision reads. An optional string that is absent or does not parse is the
empty set (the code treats both alike). Timestamps are ranks in the order of building,
so they are distinct; the code's have nanoseconds.
`events` is the log of everything ever sent: what becomes of it is the socket server's
affair. `inserted`, `run` and `epoch` are history variables.

### How the socket server's state and actions correspond to the code

| Action | Code |
|---|---|
| `Send` | `broadcast::Sender::send`: a full channel overwrites the oldest event; without a receiver the event reaches nobody |
| `Receive` | `while let Ok(event) = event_rx.recv()`: `Lagged` ends the loop; an event too big to encode is skipped |
| `LockWriters`, `WriteTo`, `Finish` | the writers lock, one `write_all` per client in turn, the removal of dead writers by index; the lock is held throughout |
| `Connect`, `Accept`, `AcceptFails` | the accept loop, which needs the same lock; an error ends it |
| `Store` | the insert, which may fail and is left out while the history is off (`HistoryEnabled`) |
| `Hello`, `HelloMode`, `WriteResponse` | snapshot of the table, then of the mode, then the Sync, in three steps; an answer too big, or a broken pipe, ends the handler |
| `Dismiss`, `MarkRead`, `SetDnd`, then `SendEvent` | the update, then the event |
| `ClearAll`, `ClearOne`, `SendCleared` | snapshot, one statement per row, `AllCleared` |
| `Query` | `GetHistory` and `GetKnownApps`: the answer holds some of the rows, and may be too big like a Sync |
| `InvokeAction`, `HandlerEnds` | the message without an answer; end of file or a message that does not decode |
| `ClientRead`, `ClientClose` | the shell, which is not in this repository |

The tasks are `task` (the broadcast task: `recv`, `lock`, `write`, `ended`) and
`handler[c]`. `Asks` selects the messages a run lets clients send. A client's `view` is what
the names of the messages suggest: Sync replaces the list, Added adds to it, Closed removes
from it, AllCleared empties it. `inbox[c]` is the socket's buffer. The history variables
`log`, `forwarded`, `start` and `got` (kept when `Recording`) feed `Feed`; `disputed`,
`missed` and `mode_disputed` record the races after which code as written cannot be
expected to agree, so that the agreement can be stated for everything else. A client
misses what it was told of between the snapshot and its Sync: `overtaken` collects that while the
handler holds the snapshot, and `missed` takes it over when the Sync is written. A Sync that is
too big to be written corrects nothing, so the Hello itself does not empty `missed`.
A log entry is an event that can be sent: one over 1 MB is skipped for all.

### How the intake's definitions correspond to the code

| Definition | Code |
|---|---|
| `Truncate`, `Slice`, `Ends` | `truncate`: a text is its characters with their widths; the cut walks back to a boundary |
| `SanitizeActions`, `Pairs` | `take(MAX_ACTIONS)` and the pop of an odd entry; `chunks(2)` in the manager |
| `SummaryOf` | the name for a missing summary |
| `StripMarkup`, `ReadOn`, `TokenAt` | ammonia and `html_escape`: the longest token at a place (a tag, a comment, an element that goes with its content, a reference) is replaced by what it stands for, which may be longer |
| `Decodes`, `ByteRead` | the checks of `try_decode_image_data`, and the index its packing loop computes |
| `Hint`, `Pixels`, `Paths`, `ResolveIcon` | the order of the sources; the older spelling is looked at only if the newer one is absent |
| `Notify`, `Accept`, `Reject`, `TimePasses` | a call, the answer of the limiter on the cut name, the notification built |

Calls are taken one at a time, in the order in which they get the limiter's lock: nothing else is
shared before the decision. `from` is a history variable, the names as sent.

### How the history's actions correspond to the code

| Action | Code |
|---|---|
| `Build`, `InsertNotification` | the timestamp of `handle_notify` and, later, its insert; the clock may stand or go back |
| `DismissNotification`, `CleanupAge`, `CleanupCount` | the other statements on the table |
| `OpenHistory` | a client picks all apps or one that `get_known_apps` listed |
| `NextPage`, `PageFails` | `GetHistory` with the last row's timestamp as `before_timestamp`; an error is an empty page |
| `PageTooLarge` | a page over `MaxMessage`, by the `Size` of its rows: `write_message` fails, the handler returns, and the client stays connected and unanswered |
| `CloseHistory` | the client is done, or gives up waiting |

SQLite orders rows of the same timestamp as it likes: `Newest` is the set of answers it may give,
to a query as to the retention by count. The client pages as `has_more` suggests. `opened`,
`cursors` and `failed` are history variables.

### How the daemon's actions correspond to the code

| Action | Code |
|---|---|
| `ReadConfig`, `Create`, `SelectVersion`, `WireManager`, `Offer`, `Watch`, `StartReloader`, `Unwatch`, `FollowBus` | the steps of `main` and of `Database::init`, one statement each, in the order of `After` |
| `Start`, `Die` | the service unit; a kill, or an error that `main` returns |
| `Change` | somebody rewrites the file; the thread is told if there is one |
| `HandleEvent`, `ThreadEnds` | the watcher's closure, which reads the file as it is by then; the drop of `_watcher` |
| `Reload`, `ReloaderEnds` | `while let Ok(new_config) = rx.recv()`, which leaves on `Lagged` and `Closed` |
| `Connect`, `ReadMessage`, `ReadFails`, `Wake` | `run_once` and the loop around it |
| `Publish`, `SendOther`, `BusCloses`, `BusStarts`, `Register` | the bus, which is not in this repository |

A configuration carries the version of the file it was read from. A file cut short while it is
written is a text that does not parse. After its connection has closed the consumer still reads what
had arrived. The bus sends no state on registration.

## 3. What is checked

| Run | Instance | Shows |
|---|---|---|
| `policy` | 3 apps (two differ in case), days of 4 ticks, 7 configurations, time to 9 | type correctness and the five decision properties |
| `intake` | any first call, plain or with tags and references, then calls under 3 names of which 2 differ behind the cut; limits 2 and 3, window of 2 ticks | `GlobalBound`, `SenderBound`, `RefusalJustified`, `FieldsFit`, `PairsAligned`, `DecodesReadable`, `StrongestIcon` |
| `manager_faults` | 2 calls that may replace each other, 1 close, SQL errors, retention, 1 restart | `TypeOK`, `StoredBeforeShown`, `PendingRowsKept`, `DeliversToasts` |
| `manager_live` | 2 calls, Critical among them, focus, total silence and history off, batch of 1, fairness | `VerdictObeyed`, `ShownOnce`, `FreshIdsDistinct`, `EveryCallReturns`, `ExitReleasesQueue` |
| `history` | 3 notifications of 2 apps, two under one id, 3 timestamps, pages of 1 and 2, of which some are too large to send, errors | `TypeOK`, `MissedOnlyAtTies`, `PagesDescend`, `PagingEnds` |
| `daemon` | 2 changes between a valid and a broken text, channel of 1, 1 topic, 2 messages in the socket, death at any point | `TypeOK`, `ServesOnlyWhenReady`, `FollowsBus`, `ConfigNeverGoesBack`, `ReloadsArrive`, `ConsumerReconnects` |
| `socket_agree` | 2 clients, 2 messages (Hello, Dismiss, SetDnd), the mode rewritten once, channel of 3 | `ShellAgreesWithTable`, `ShellAgreesOnMode` |
| `socket_faults` | 1 client, 3 messages (Hello, Dismiss, MarkRead, ClearAll, queries), the history on or off, failures, channel of 2 | `TypeOK`, `ShellAgreesWithTable` |
| `socket_live` | 4 clients: 2 that have come and gone and are still registered, and 2 that may connect and read; a notification over the size limit, answers over it, channel of 1, fairness | refinement `FeedsClients`, `EventsArrive`, `ConnectionsAccepted`, `HelloAnswered` |
| `queue_stranded` | 1 call, fairness | violated: `NothingStranded` |
| `hot_reload` | as `daemon`, without failures | violated: `HotReload` |
| `caps_overrun` | as `intake` | violated: `CapsHold` |

*Bounds.* `MaxRestarts` caps restarts, `Horizon` the time, and the sets `Call`, `Close`
and `Requests` the rest. Two calls with a batch of one make the flush show one and give up the
other, or one call act while the other is flushed, and all the run checks of that is also proved
for any number of calls and any batch; two calls and one close are
enough for a replacement to race with a close and a cleanup. `MaxU32 = 7` leaves the id
counter room not to wrap, as 2^32 does in practice. One restart suffices for whatever a restart
breaks, since a second one starts from the same kind of state. The days of `policy` are short, but hold windows
within a day, over midnight, and empty. Where calls or clients are interchangeable, the runs use symmetry;
the liveness runs do not.

`MaxRequests` and `MaxMirrors` cap the messages that clients send and the modes the manager
mirrors. Two messages and one notification are enough for a Hello to overlap
a Dismiss or a SetDnd of another client and the notification's storing, announcing
and closing; ClearAll and MarkRead race with them in `socket_faults`, where one client sends three. Two clients must be dead at
once, and one live on, for the removal by index to matter: `socket_live` begins there (`LateInit`), with
two writers whose clients have gone and nothing broadcast since, a state that accepting and leaving
reach. A channel of 1 overflows at the second event; one of 3 does not
when there are that few events, so that `socket_agree` explores the interleavings and the others the overflow.
A buffer of one message makes the broadcast task wait for every client.

In `intake`, `MAX_APP_NAME` and `MAX_ICON_LEN` are 4 bytes, `MAX_SUMMARY` 5, `MAX_BODY` 6, and
characters have 1, 2 or 3: cuts fall before, on and inside a character. A reference of five bytes stands for
six, as `&nGt;` does, another of two for a `<`, and the cut may fall inside either. The call to begin with is
one of `First`: every plain body of up to four characters, bodies and summaries put together from tags, references and
plain characters, lists of up to 7 entries against a limit of
4, images of up to 3 by 3 against a limit of 2 with every length of data from none to enough, and every
combination of hints. `Calls`, which follow it, are few, to give the limiter `Horizon` ticks
of bursts and pauses. In `history`, `Latest` bounds the timestamps: three notifications need three to be
all apart; `Size` and `MaxMessage` let one page of two rows be sent and another not. In `daemon`, `MaxChanges`, `MaxEvents` (per change) and `MaxStream` are bounds; the channel of 1
overflows at the second of the two changes, and one connection after another is possible without
a bound.

*Fairness.* `LiveSpec` assumes weak fairness for every call that is being served
(`HandleNotify`, `HandleClose`) and for the flush, because tokio polls every runnable
task. Nothing is assumed of applications, the bus, the configuration, the cleanup or
failures. `EveryCallReturns` and `ExitReleasesQueue` rest on it. In `SocketServer` it
assumes the same of the broadcast task, of every handler that does not wait for a message
and of the accept loop, and that the clients in `Reader` read: that is an assumption on
the shell, named here because the code cannot provide it. Nothing is assumed of what clients send or
when they connect or leave. In `Daemon` the steps of `main`, the watcher thread, the reload
task and the consumer are scheduled, and the bus does not for ever drop a consumer before it has read its
registration (strong fairness of `Register`, an assumption on the bus). In `History` the client
goes on asking and is answered or cut off (weak fairness of `NextPage` and `PageTooLarge`
together); `PagingEnds` counts either as an end, since the code promises no more.

### Disagreements between code and documentation

* **A deferred notification may be stranded** (`queue_stranded`). The verdict `Queue`
  is taken before the insert is awaited, the push comes after it. When the fullscreen
  exit is handled in between, the flush finds an empty queue, and the notification
  then waits in the queue although nothing is fullscreen, until the next fullscreen exit.
* **Hot reload ends at start-up** (`hot_reload`). `main.rs:78` binds the watcher as `_watcher` in an
  `if let`, so it is dropped when the reload task has been spawned. The thread ends, the channel
  closes, the task leaves its loop, and a change of the file has no effect until the restart.
  "Emits the new Config whenever the file changes."

* **Text may outgrow its limit** (`caps_overrun`). Summary and body are cut first and parsed then, and a
  character reference may stand for more bytes than it has: `&nGt;` has five, U+226B U+20D2 six, so that
  twenty of them, cut to exactly 100 bytes, are a summary of 120. "Strip output is always ≤ input
  length." (`validation.rs:44`), and a test "guarantees" it with references that get shorter.
  `FieldsFit` says what is left: no more than a fifth over.

Seen while modelling, without a run of their own:

* *Disabling the history wipes nothing.* The doc of `cleanup` says the database is wiped; it calls
  `cleanup(0, 0)`, and 0 means "no limit" there. `CleanupStart` models what the code does.
* *The mirrored mode is not the effective one.* The comment at `notification.rs:121` says "Mirror current
  effective mode"; the code assigns `config.dnd.mode`, and overwrites what a client set by SetDnd.
* *A client that does not read stops all others.* The task awaits its socket with the writers locked;
  `EventsArrive` and `ConnectionsAccepted` therefore need all clients to read.
* *AllCleared says more than was cleared.* A notification announced after the snapshot vanishes from
  the shell and stays pending (`disputed` in `SendCleared`).
* *A message over 1 MB* is skipped, and an answer over 1 MB, be it a Sync, a history page of several large
  icons or a list of apps, ends the handler while its writer stays registered: such a client gets events
  but no more answers, and waits for the one it asked for (`TooLarge`, `PageTooLarge`). It will
  get the same page again on every attempt, unless it asks for fewer rows.
* *Stripped is not free of markup.* What is decoded is not parsed again: `&lt;b&gt;` becomes `<b>`.
* *Ids repeat after a restart.* "Unique notification ID (monotonically increasing)", but the counter
  starts at 1 in each process (`Restart`) and the insert replaces the stored row of that id.
  `FreshIdsDistinct` speaks of one process, `PendingRowsKept` names the replacement.
* *One overrun ends the broadcast.* The loop over `recv()` (`socket/server.rs:58`) also leaves on `Lagged`, after which
  the receiver could go on. Clients stay connected, more are accepted, and none gets an event until the
  restart. `EventsArrive` says so ("until the task ends").
* *Missed while away.* The bus sends no state on registration, so a fullscreen exit that happens while
  the consumer is disconnected leaves the daemon in fullscreen, and its queue waiting, until the
  next exit. `FollowsBus` therefore begins with the first change after the registration.
* *A change between `load_config` and `watch_config`* is reported to nobody.
* *Ties at a page's end.* `timestamp < ?` skips rows that share the cursor's timestamp
  (`MissedOnlyAtTies`). A page with `limit` 0 always says `has_more`.
* *A failed history query* is answered like the end of the history.
* *Known apps* are "ever sent" by the doc (`sqlite.rs`), and those with a row by the query.
* *The unread count* (doc of `unread_count`) counts pending rows, read or not.
* *A rendered icon over 1 MB* is cut in the middle of its base64 (`validation.rs:50`).
* *Rules for long names.* Per-app rules match the name cut to 50 bytes, so one that is longer
  never matches.
* *Empty summaries.* One that is only markup becomes empty, although a missing one falls back on the
  name; and the name that stands in is not stripped of markup.
* *Older spellings.* A malformed `image-data` hides a good `image_data`: the next source tried is the path.

## 4. What is proved

All theorems hold for every value of the constants under the named assumptions
of the modules: apps are not empty, `Lower` is a function on them, requests and
configurations are of their types, the flush limit, the width of ids and the channel's capacity are
positive, characters have one to four bytes, the limit of a name is not above that of a summary, an
icon may be four bytes long (a megabyte in the code; with less its first character might not fit, and a
named icon be cut to nothing), a rendered image is not an empty text, and no token stands for a text
longer than itself by more than a fifth. The last holds of HTML: of its named references only
`&nGt;` and `&nLt;` stand for more bytes than they have, six for five, and numeric references never do.

*Manager* (`NotificationManagerProofs`). `ManagerTypeOK` is inductive as it stands. The
three pipeline properties are not: that a decision contradicts nothing visible needs
that nothing is visible of an undecided call. The invariant `Safe` adds

* `Progress`: by the program counter, a call that has not acted is neither shown nor
  deferred, an undecided one has no row, one about to be stored was decided to be kept, and one about
  to act after a keep was offered to the table;
* `DeferredOnce`: queue and batch hold no call twice, share none, and none that was shown.

`QuietStep` disposes at once of every action that decides, shows, defers and stores
nothing; the others have a lemma each, on facts about `Append`, `Tail` and `SubSeq`.
`NextSafe` puts them together, and `ManagerVerdictObeyed`, `ManagerShownOnce` and
`ManagerStoredBeforeShown` follow. `ManagerPendingRowsKept` uses that the table changes by four
statements only (`TableSteps`) and stays finite. `ManagerFreshIdsDistinct` assumes that the counter has
not wrapped (`[]NoWrap`); its invariant `Allocated` keeps the ids of the running process below the counter.

*Refinement* (`DeliveryProofs`). `ManagerDeliversToasts`: the manager implements `ToastDelivery`. Under
the mapping, an action changes the fate of at most one call (`OneFate`), except a drain, which gives up
what exceeds the batch (`DeferredFate`), and a restart, which loses what was under way.
On top of `Safe`, the invariant `Judged` says that a call has a verdict exactly if its
program counter is past the decision. Every other action is a stutter (`QuietFate`).

*Limiter* (`RateLimiterProofs`). The invariant says that the remembered admissions contain every one
of the current window, so that a window ending later than the last admission is covered by the count that
was checked at it; the bounds for windows placed in the past are carried along.

*Intake* (`IntakeProofs`). `IntakeIsLimited` shows that the intake's steps are the limiter's
or leave it alone, so its theorems hold of `IntakeSpec`. `IntakeSenderBound` adds that the app of an
admission is the cut of the name sent (`ByCut`). `IntakePairsAligned` and `IntakeDecodesReadable` are
about operators: what `SanitizeActions` keeps, and, by the monotony of a product, that the
last byte read is the largest (`DecodesIffReadable`).

`IntakeFieldsFit` and `IntakeStrongestIcon` are about texts, whose boundaries, cut and markup are
recursive functions. The library's induction rules take a predicate, which the provers cannot
instantiate; but its `WFMin`, that a set has a least element, takes a set, and gives induction for sets
of numbers (`UpTo`). By it a recursion has a solution (`StepsExist`), boundaries ascend, the walk back
stops at the last one within the limit (`TruncateIs`), so that the cut is the longest prefix that fits
(`TruncateFits`). The parser keeps, of the text so far against the characters taken in, the
bound that each token keeps (`ReadOnIs`), so that what is parsed after the cut exceeds the limit by that fifth at most, and
a text without markup is what it was (`StripIs`, `StrippedCut`). The invariant `Made` says that
what was built is the call in hand, sanitised.

*Decision* (`DndStateProofs`). A step changes one input only (`OneInput`), and the rules are
compared before and after with that input changed. `DndWindowLength` counts the instants of a
window by a bijection with an interval, in the cases within a day, over midnight and empty.

*History* (`HistoryProofs`). The invariant says of a client that is paging that everything that
was there at the beginning, still is, and has not been listed is older than the cursor or shares the
timestamp of one; that all listed is no older than the cursor; and that a row is not built again.

*Daemon* (`DaemonProofs`). `Started` lists for every stage which objects the schema and which
services the process must have: a version row is the last to be written. `InOrder` says that along
configuration, channel and file versions do not descend; while `main` has not read the file there is
no watcher. `Consumed` says that the last message about a topic in the socket carries the
bus's state, and that a socket without one means the daemon has it.

*Socket server* (`SocketServerProofs`). `Wired` says how the tasks hang together: the dead that
the broadcast task has collected are closed connections at increasing positions, an open connection is
registered, one not accepted has received nothing. What is left after the removals is stated by
positions (`Survivors`), so that no removal in the loop has to be followed on its own.

For the agreement, a *topic* is a set of messages about one thing: whether a notification is shown,
whether it is read, the mode. An event on its way to a client will correct it, so only the last word
must be right: the last mention in the channel, or in the task's hand if the channel has
none (`Fed`); the snapshot that a handler holds, if nothing is coming (`Held`); and the last mention
in a client's buffer or, without one, what it shows (`Told`). `Agreed` is all three for a topic and the
messages that are right about it. It is claimed while the channel is alive and nobody has changed the
table, or the mode, without having said so yet (`Erasing`, `Reading`, `Setting`); `RowTruth` and `ModeTruth`
relate what is yet to be said to the table. Steps that neither change the table nor send (`Aside`)
keep `Agreed` for all three topics by one lemma; the others (`Eventful`) are taken one by one. In a `Quiet`
state nothing is coming, and `Told` is what `SocketShellAgreesWithTable` and
`SocketShellAgreesOnMode` claim.

The attempt found an error of the model: `missed` was emptied by the Hello, and a second Hello whose
Sync is too big to be written left a client disagreeing without having missed anything. None of the
runs is large enough to get there.

`SocketFeedsClients`: the server implements `EventFeed`. `Logged` says that the log is what has been
forwarded, then the event in hand, then the channel, whose events `Numbers` assigns to places in the log
past those too large; `Followed`, that an open client has got all that was forwarded, and the event in
hand if its place is before the task's.

*Only model-checked*: liveness (`EventsArrive`, `ConnectionsAccepted`, `HelloAnswered`,
`EveryCallReturns`, `ExitReleasesQueue`, `PagingEnds`, `ReloadsArrive`, `ConsumerReconnects`), which is out
of the prover's reach under fairness; and `FreshIdsDistinct` across a wrap of the counter.
Every other property of a passing run is a theorem.

## 5. What is not modelled, and the plan

Not modelled for good: grouping (its key is only logged), the wire formats and generated code, the
transport of zbus signals, the HTML parser and the PNG encoder (each stands in by what is used of it),
and the creation of the socket file.

Left: manager and socket server on one channel and one table. It would show a close of a queued
notification, two calls that replace the same id, and a restart under connected clients.
