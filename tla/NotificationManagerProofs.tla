---------------------- MODULE NotificationManagerProofs ----------------------
(***************************************************************************)
(* Theorems about the notification manager, for every set of calls, of     *)
(* requests and of configurations, every flush limit, and any number of    *)
(* restarts and database failures.                                         *)
(***************************************************************************)
EXTENDS NotificationManager, FiniteSetTheorems, TLAPS

-----------------------------------------------------------------------------
(* The operators the manager is built from *)

\* The decision is always one of the four verdicts.
LEMMA VerdictType ==
    ASSUME NEW state, NEW n, NEW dnd, NEW override, NEW now
    PROVE  ShouldSuppress(state, n, dnd, override, now) \in Verdicts
BY DEF ShouldSuppress, Privileged, CheckFocusThenFullscreen, CheckFullscreen, Verdicts

\* The priority is one of the four priorities.
LEMMA PriorityType ==
    ASSUME NEW urgency, NEW timeout, NEW category
    PROVE  DeterminePriority(urgency, timeout, category) \in Priorities
BY DEF DeterminePriority, Priorities

\* The id counter stays within its width.
LEMMA FetchAddType ==
    ASSUME NEW n \in Ids
    PROVE  FetchAdd(n) \in Ids
BY MaxU32Assumption DEF Ids, FetchAdd

\* Each statement turns a table into a table.
LEMMA StatementsType ==
    ASSUME NEW t \in SUBSET Rows
    PROVE  /\ \A row \in Rows : Insert(t, row) \in SUBSET Rows
           /\ \A id : Dismiss(t, id) \in SUBSET Rows
           /\ \A cutoff : DeleteOlder(t, cutoff) \in SUBSET Rows
           /\ \A n : KeepNewest(t, n) \in SUBSET Rows
<1>1. ASSUME NEW id, NEW r \in t
      PROVE  (IF r.id = id THEN [r EXCEPT !.dismissed = TRUE] ELSE r) \in Rows
  BY DEF Rows
<1>2. \A id : Dismiss(t, id) \in SUBSET Rows
  BY <1>1 DEF Dismiss
<1>3. QED  BY <1>2 DEF Insert, DeleteOlder, KeepNewest

\* A batch is a sequence of at most FlushLimit calls, taken from the queue.
LEMMA BatchType ==
    ASSUME NEW q \in Seq(Call)
    PROVE  /\ Batch(q) \in Seq(Call)
           /\ Len(Batch(q)) <= FlushLimit
           /\ Len(Batch(q)) <= Len(q)
           /\ \A i \in 1..Len(Batch(q)) : Batch(q)[i] = q[i]
<1>1. Least(FlushLimit, Len(q)) \in 0..Len(q) /\ Least(FlushLimit, Len(q)) <= FlushLimit
  BY FlushLimitAssumption DEF Least
<1>2. QED  BY <1>1 DEF Batch

-----------------------------------------------------------------------------
(* Type correctness *)

\* The manager's variables keep their types, its table its columns and a flush
\* its limit.
THEOREM ManagerTypeOK == Spec => []TypeOK
<1> USE DEF callVars, busVars
<1>1. Init => TypeOK
  <2>1. NoNote \in Notes
    BY AppAssumption, MaxU32Assumption
       DEF NoNote, Notes, Ids, Priorities, Categories, HighCategories, AlarmCategories
  <2>2. DefaultDndState \in DndStates
    BY DEF DefaultDndState, DndStates, InactiveFocus, FocusStates
  <2>3. 0 \in Ids /\ 1 \in Ids
    BY MaxU32Assumption DEF Ids
  <2>4. QED  BY <2>1, <2>2, <2>3, FlushLimitAssumption
                DEF Init, TypeOK, IdleCleaner, DndModes, InFlight
<1>2. TypeOK /\ [Next]_vars => TypeOK'
  <2> SUFFICES ASSUME TypeOK, [Next]_vars PROVE TypeOK'
    OBVIOUS
  <2>1. ASSUME NEW c \in Call, NEW r \in Requests, Notify(c, r) PROVE TypeOK'
    <3>1. r \in AllRequests
      BY RequestsAssumption
    <3>2. r.replaces_id \in Ids /\ r.app \in App /\ r.category \in Categories
      BY <3>1 DEF AllRequests
    <3>3. next_id' \in Ids
      BY <2>1, FetchAddType DEF TypeOK, Notify
    <3>4. note' \in [Call -> Notes]
      BY <2>1, <3>2, PriorityType DEF TypeOK, Notify, Notes
    <3>5. QED  BY <2>1, <3>3, <3>4 DEF TypeOK, Notify, InFlight
  <2>2. ASSUME NEW c \in Call, RateLimit(c) PROVE TypeOK'
    <3>1. pc' \in [Call -> {"unsent", "refused", "done", "lost"} \cup InFlight]
      <4>1. \E new \in {"refused", "decide"} : pc' = [pc EXCEPT ![c] = new]
        BY <2>2 DEF RateLimit
      <4>2. QED  BY <4>1 DEF TypeOK, InFlight
    <3>2. clock' \in Nat /\ stamp' \in [Call -> Nat]
      <4>1. CASE clock' = clock /\ stamp' = stamp
        BY <4>1 DEF TypeOK
      <4>2. CASE clock' = clock + 1 /\ stamp' = [stamp EXCEPT ![c] = clock']
        <5>1. clock' \in Nat
          BY <4>2 DEF TypeOK
        <5>2. QED  BY <4>2, <5>1 DEF TypeOK
      <4>3. QED  BY <2>2, <4>1, <4>2 DEF RateLimit
    <3>3. QED  BY <2>2, <3>1, <3>2 DEF TypeOK, RateLimit
  <2>3. ASSUME NEW c \in Call, NEW now \in Instants, Decide(c, now) PROVE TypeOK'
    <3>1. config \in AllConfigs
      BY ConfigsAssumption DEF TypeOK
    <3>2. config.dnd.mode \in DndModes /\ config.history.enabled \in BOOLEAN
      BY <3>1 DEF AllConfigs, DndConfigs, HistoryConfigs
    <3>3. verdict' \in [Call -> Verdicts \cup {"none"}]
      BY <2>3, VerdictType DEF TypeOK, Decide
    <3>4. pc' \in [Call -> {"unsent", "refused", "done", "lost"} \cup InFlight]
      BY <2>3 DEF TypeOK, Decide, InFlight
    <3>5. QED  BY <2>3, <3>2, <3>3, <3>4 DEF TypeOK, Decide
  <2>4. ASSUME NEW c \in Call, Store(c) PROVE TypeOK'
    <3>1. Row(c) \in Rows
      BY DEF TypeOK, Row, Rows, Notes
    <3>2. db \in SUBSET Rows
      BY DEF TypeOK
    <3>3. db' = Insert(db, Row(c)) \/ db' = db
      BY <2>4 DEF Store
    <3>4. db' \in SUBSET Rows
      BY <3>1, <3>2, <3>3, StatementsType
    <3>5. QED  BY <2>4, <3>4 DEF TypeOK, Store, InFlight
  <2>5. ASSUME NEW c \in Call, Act(c) PROVE TypeOK'
    <3>1. Added(c) \in Events
      BY DEF Added, Events
    <3>2. events' \in Seq(Events) /\ queue' \in Seq(Call)
      BY <2>5, <3>1 DEF TypeOK, Act
    <3>3. QED  BY <2>5, <3>2 DEF TypeOK, Act, InFlight
  <2>6. ASSUME NEW k \in Close, NEW id \in CloseIds, CloseDismiss(k, id) PROVE TypeOK'
    <3>1. id \in Ids
      BY CloseIdsAssumption
    <3>2. db \in SUBSET Rows
      BY DEF TypeOK
    <3>3. db' = Dismiss(db, id) \/ db' = db
      BY <2>6 DEF CloseDismiss
    <3>4. db' \in SUBSET Rows
      BY <3>2, <3>3, StatementsType
    <3>5. QED  BY <2>6, <3>1, <3>4 DEF TypeOK, CloseDismiss
  <2>7. ASSUME NEW k \in Close, CloseBroadcast(k) PROVE TypeOK'
    <3>1. Closed(closing[k].id) \in Events
      BY DEF TypeOK, Closed, Events
    <3>2. events' \in Seq(Events)
      BY <2>7, <3>1 DEF TypeOK, CloseBroadcast
    <3>3. closing' \in [Close -> [pc : {"unsent", "send", "signal", "done", "lost"},
                                  id : Ids]]
      BY <2>7 DEF TypeOK, CloseBroadcast
    <3>4. QED  BY <2>7, <3>2, <3>3 DEF TypeOK, CloseBroadcast
  <2>8. ASSUME NEW k \in Close, CloseSignal(k) PROVE TypeOK'
    BY <2>8 DEF TypeOK, CloseSignal
  <2>9. ASSUME NEW active \in BOOLEAN, SetFullscreen(active) PROVE TypeOK'
    <3>1. dnd_state' \in DndStates
      BY <2>9 DEF TypeOK, SetFullscreen, DndStates
    <3>2. QED  BY <2>9, <3>1 DEF TypeOK, SetFullscreen
  <2>10. CASE DrainQueue
    <3>1. to_send' \in Seq(Call) /\ Len(to_send') <= FlushLimit
      BY <2>10, BatchType DEF TypeOK, DrainQueue
    <3>2. QED  BY <2>10, <3>1 DEF TypeOK, DrainQueue, AfterDrain
  <2>11. CASE FlushSend
    <3>1. to_send # <<>> /\ Head(to_send) \in Call
      BY <2>11 DEF TypeOK, FlushSend
    <3>2. Added(Head(to_send)) \in Events
      BY <3>1 DEF Added, Events
    <3>3. to_send' \in Seq(Call) /\ Len(to_send') <= FlushLimit
      BY <2>11, <3>1, FlushLimitAssumption DEF TypeOK, FlushSend
    <3>4. events' \in Seq(Events)
      BY <2>11, <3>2 DEF TypeOK, FlushSend
    <3>5. consumer' \in {"idle", "send"} /\ (consumer' = "send" <=> to_send' # <<>>)
      BY <2>11 DEF FlushSend
    <3>6. QED  BY <2>11, <3>3, <3>4, <3>5 DEF TypeOK, FlushSend
  <2>12. ASSUME NEW apps \in FocusLists, ActivateFocus(apps) PROVE TypeOK'
    <3>1. {Lower[a] : a \in apps} \subseteq App
      BY LowerAssumption, FocusListsAssumption
    <3>2. dnd_state' \in DndStates
      BY <2>12, <3>1 DEF TypeOK, ActivateFocus, ActivatedFocus, DndStates, FocusStates
    <3>3. QED  BY <2>12, <3>2 DEF TypeOK, ActivateFocus
  <2>13. CASE DeactivateFocus
    <3>1. dnd_state' \in DndStates
      BY <2>13 DEF TypeOK, DeactivateFocus, InactiveFocus, DndStates, FocusStates
    <3>2. QED  BY <2>13, <3>1 DEF TypeOK, DeactivateFocus
  <2>14. ASSUME NEW new \in Configs, ReloadConfig(new) PROVE TypeOK'
    BY <2>14 DEF TypeOK, ReloadConfig
  <2>15. CASE CleanupStart
    <3>1. config \in AllConfigs
      BY ConfigsAssumption DEF TypeOK
    <3>2. /\ config.history.enabled \in BOOLEAN
          /\ config.history.max_age \in Nat /\ config.history.max_count \in Nat
      BY <3>1 DEF AllConfigs, HistoryConfigs
    <3>3. QED  BY <2>15, <3>2 DEF TypeOK, CleanupStart
  <2>16. ASSUME NEW cutoff, CleanupAge(cutoff) PROVE TypeOK'
    <3>1. db' \in SUBSET Rows
      BY <2>16, StatementsType DEF TypeOK, CleanupAge
    <3>2. QED  BY <2>16, <3>1 DEF TypeOK, CleanupAge
  <2>17. CASE CleanupCount
    <3>1. db' \in SUBSET Rows
      BY <2>17, StatementsType DEF TypeOK, CleanupCount
    <3>2. QED  BY <2>17, <3>1 DEF TypeOK, CleanupCount, IdleCleaner
  <2>18. CASE CleanupFail
    BY <2>18 DEF TypeOK, CleanupFail, IdleCleaner
  <2>19. ASSUME NEW new \in Configs, Restart(new) PROVE TypeOK'
    <3>1. DefaultDndState \in DndStates
      BY DEF DefaultDndState, DndStates, InactiveFocus, FocusStates
    <3>2. pc' \in [Call -> {"unsent", "refused", "done", "lost"} \cup InFlight]
      BY <2>19 DEF TypeOK, Restart, InFlight
    <3>3. closing' \in [Close -> [pc : {"unsent", "send", "signal", "done", "lost"},
                                  id : Ids]]
      BY <2>19 DEF TypeOK, Restart
    <3>4. /\ next_id' \in Ids
          /\ config' \in Configs
          /\ dnd_mode' \in DndModes
      BY <2>19, MaxU32Assumption DEF Restart, DndModes, Ids
    <3>5. /\ queue' \in Seq(Call)
          /\ consumer' \in {"idle", "flush", "send"}
          /\ to_send' \in Seq(Call)
          /\ Len(to_send') <= FlushLimit
          /\ consumer' = "send" <=> to_send' # <<>>
      BY <2>19, FlushLimitAssumption DEF Restart
    <3>6. cleaner' \in [pc : {"idle", "age", "count"}, enabled : BOOLEAN,
                        max_age : Nat, max_count : Nat]
      BY <2>19 DEF Restart, IdleCleaner
    <3>7. UNCHANGED <<note, stamp, verdict, keep, inserted, db, events, clock, run>>
      BY <2>19 DEF Restart
    <3>8. dnd_state' \in DndStates
      BY <2>19, <3>1 DEF Restart
    <3>9. epoch' \in Nat \ {0}
      <4>1. epoch \in Nat \ {0} /\ epoch' = epoch + 1
        BY <2>19 DEF TypeOK, Restart
      <4>2. QED  BY <4>1
    <3>10. QED  BY <3>2, <3>3, <3>4, <3>5, <3>6, <3>7, <3>8, <3>9 DEF TypeOK
  <2>20. CASE UNCHANGED vars
    BY <2>20 DEF vars, TypeOK
  <2>21. QED
    BY <2>1, <2>2, <2>3, <2>4, <2>5, <2>6, <2>7, <2>8, <2>9, <2>10, <2>11, <2>12, <2>13,
       <2>14, <2>15, <2>16, <2>17, <2>18, <2>19, <2>20
       DEF Next, HandleNotify, HandleClose, Flush
<1>3. QED  BY <1>1, <1>2, PTL DEF Spec

-----------------------------------------------------------------------------
(* The pipeline invariant.                                                 *)
(*                                                                         *)
(* VerdictObeyed, ShownOnce and StoredBeforeShown relate what is visible   *)
(* to the decision, and none is inductive alone: one needs to know that    *)
(* nothing is visible of a call that has not acted yet, that what is       *)
(* deferred has not been shown, and that no call is deferred twice.        *)

Undecided == {"unsent", "limit", "refused", "decide"}
NotActed == Undecided \cup {"store", "act"}

\* What is known of a call from how far it got.
Progress ==
    \A c \in Call :
        /\ pc[c] \in NotActed => ~Shown(c) /\ c \notin Deferred
        /\ pc[c] \in Undecided => \A r \in db : r.call # c
        /\ pc[c] = "store" => keep[c] /\ verdict[c] \in {"Allow", "Suppress", "Queue"}
        /\ pc[c] = "act" /\ keep[c] /\ verdict[c] # "Drop" => inserted[c] # "no"

\* A call is deferred at most once, and not after it was shown.
DeferredOnce ==
    /\ \A i, j \in DOMAIN queue : queue[i] = queue[j] => i = j
    /\ \A i, j \in DOMAIN to_send : to_send[i] = to_send[j] => i = j
    /\ Range(to_send) \cap Range(queue) = {}
    /\ \A c \in Deferred : ~Shown(c)

Safe == Progress /\ DeferredOnce /\ VerdictObeyed /\ ShownOnce /\ StoredBeforeShown

-----------------------------------------------------------------------------
(* What the operations on the log and on the queue do to their ranges *)

\* Appending adds one element, and repeats none if the element is new.
LEMMA AppendRange ==
    ASSUME NEW S, NEW s \in Seq(S), NEW e \in S
    PROVE  /\ Range(Append(s, e)) = Range(s) \cup {e}
           /\ \A i \in DOMAIN s : Append(s, e)[i] = s[i]
           /\ DOMAIN Append(s, e) = DOMAIN s \cup {Len(s) + 1}
           /\ Append(s, e)[Len(s) + 1] = e
           /\ DOMAIN s = 1..Len(s)
<1>1. /\ DOMAIN s = 1..Len(s)
      /\ DOMAIN Append(s, e) = 1..(Len(s) + 1)
      /\ \A i \in 1..Len(s) : Append(s, e)[i] = s[i]
      /\ Append(s, e)[Len(s) + 1] = e
  OBVIOUS
<1>2. DOMAIN Append(s, e) = DOMAIN s \cup {Len(s) + 1}
  BY <1>1
<1>3. QED  BY <1>1, <1>2 DEF Range

\* A sequence is its head and its tail, and a tail repeats what the sequence did.
LEMMA TailRange ==
    ASSUME NEW S, NEW s \in Seq(S), s # <<>>
    PROVE  /\ Head(s) \in Range(s)
           /\ Range(Tail(s)) \subseteq Range(s)
           /\ (\A i, j \in DOMAIN s : s[i] = s[j] => i = j)
                => /\ Head(s) \notin Range(Tail(s))
                   /\ \A i, j \in DOMAIN Tail(s) : Tail(s)[i] = Tail(s)[j] => i = j
<1>1. /\ DOMAIN s = 1..Len(s) /\ Len(s) >= 1 /\ Len(s) \in Nat
      /\ DOMAIN Tail(s) = 1..(Len(s) - 1)
      /\ Head(s) = s[1]
      /\ \A i \in 1..(Len(s) - 1) : Tail(s)[i] = s[i + 1]
  OBVIOUS
<1>2. \A i \in DOMAIN Tail(s) : i + 1 \in DOMAIN s /\ i + 1 # 1
  BY <1>1
<1>3. Head(s) \in Range(s) /\ Range(Tail(s)) \subseteq Range(s)
  BY <1>1, <1>2 DEF Range
<1>4. ASSUME \A i, j \in DOMAIN s : s[i] = s[j] => i = j
      PROVE  /\ Head(s) \notin Range(Tail(s))
             /\ \A i, j \in DOMAIN Tail(s) : Tail(s)[i] = Tail(s)[j] => i = j
  <2>1. ASSUME NEW i \in DOMAIN Tail(s)  PROVE Tail(s)[i] # Head(s)
    BY <1>1, <1>2, <1>4
  <2>2. ASSUME NEW i \in DOMAIN Tail(s), NEW j \in DOMAIN Tail(s), Tail(s)[i] = Tail(s)[j]
        PROVE  i = j
    <3>1. s[i + 1] = s[j + 1]
      BY <1>1, <2>2
    <3>2. i + 1 = j + 1
      BY <1>2, <1>4, <3>1
    <3>3. QED  BY <1>1, <3>2
  <2>3. QED  BY <2>1, <2>2 DEF Range
<1>5. QED  BY <1>3, <1>4

\* A batch holds calls of the queue and repeats none the queue does not.
LEMMA BatchRange ==
    ASSUME NEW q \in Seq(Call)
    PROVE  /\ Range(Batch(q)) \subseteq Range(q)
           /\ (\A i, j \in DOMAIN q : q[i] = q[j] => i = j)
                => \A i, j \in DOMAIN Batch(q) : Batch(q)[i] = Batch(q)[j] => i = j
<1>1. /\ Batch(q) \in Seq(Call) /\ Len(Batch(q)) <= Len(q)
      /\ \A i \in 1..Len(Batch(q)) : Batch(q)[i] = q[i]
  BY BatchType
<1>2. /\ DOMAIN q = 1..Len(q) /\ DOMAIN Batch(q) = 1..Len(Batch(q))
      /\ Len(q) \in Nat /\ Len(Batch(q)) \in Nat
  BY <1>1
<1>3. DOMAIN Batch(q) \subseteq DOMAIN q
  BY <1>1, <1>2
<1>4. QED  BY <1>1, <1>2, <1>3 DEF Range

-----------------------------------------------------------------------------
(* The pipeline invariant is preserved *)

\* Statements add no notification but the inserted one.
LEMMA StatementsCalls ==
    ASSUME NEW t \in SUBSET Rows
    PROVE  /\ \A id : \A r \in Dismiss(t, id) : \E q \in t : q.call = r.call
           /\ \A cutoff : DeleteOlder(t, cutoff) \subseteq t
           /\ \A n : KeepNewest(t, n) \subseteq t
           /\ \A row : Insert(t, row) \subseteq t \cup {row}
<1>1. ASSUME NEW id, NEW q \in t
      PROVE  (IF q.id = id THEN [q EXCEPT !.dismissed = TRUE] ELSE q).call = q.call
  BY DEF Rows
<1>2. ASSUME NEW id, NEW r \in Dismiss(t, id)  PROVE \E q \in t : q.call = r.call
  BY <1>1 DEF Dismiss
<1>3. \A id : \A r \in Dismiss(t, id) : \E q \in t : q.call = r.call
  BY <1>2
<1>4. QED  BY <1>3 DEF DeleteOlder, KeepNewest, Insert

\* A step that neither decides, shows, defers nor stores preserves the invariant.
LEMMA QuietStep ==
    ASSUME Safe,
           UNCHANGED <<verdict, keep, inserted, events, queue, to_send>>,
           \A c \in Call : \/ pc'[c] = pc[c]
                           \/ pc[c] \in Undecided /\ pc'[c] \in Undecided
                           \/ pc'[c] = "lost",
           \A r \in db' : \E q \in db : q.call = r.call
    PROVE  Safe'
<1>1. \A c \in Call : (Shown(c))' <=> Shown(c)
  BY DEF Shown, Added
<1>2. Deferred' = Deferred
  BY DEF Deferred
<1>3. Progress'
  <2>1. ASSUME NEW c \in Call  PROVE pc'[c] \in NotActed => ~(Shown(c))' /\ c \notin Deferred'
    BY <1>1, <1>2 DEF Safe, Progress, NotActed, Undecided
  <2>2. ASSUME NEW c \in Call  PROVE pc'[c] \in Undecided => \A r \in db' : r.call # c
    BY DEF Safe, Progress, Undecided
  <2>3. ASSUME NEW c \in Call
        PROVE  /\ pc'[c] = "store" => keep'[c] /\ verdict'[c] \in {"Allow", "Suppress", "Queue"}
               /\ pc'[c] = "act" /\ keep'[c] /\ verdict'[c] # "Drop" => inserted'[c] # "no"
    BY DEF Safe, Progress, Undecided
  <2>4. QED  BY <2>1, <2>2, <2>3 DEF Progress
<1>4. DeferredOnce'
  BY <1>1, <1>2 DEF Safe, DeferredOnce, Deferred, Shown, Added
<1>5. VerdictObeyed'
  BY <1>1, <1>2 DEF Safe, VerdictObeyed
<1>6. ShownOnce' /\ StoredBeforeShown'
  BY <1>1, <1>2 DEF Safe, ShownOnce, StoredBeforeShown
<1>7. QED  BY <1>3, <1>4, <1>5, <1>6 DEF Safe

\* A decision: nothing is visible of a call that is being decided, so its new
\* verdict contradicts nothing.
LEMMA DecideSafe ==
    ASSUME TypeOK, Safe, NEW c \in Call, NEW now \in Instants, Decide(c, now)
    PROVE  Safe'
<1> DEFINE v == ShouldSuppress(dnd_state, note[c], config.dnd,
                               config.apps[note[c].app], now)
<1> HIDE DEF v
<1>1. v \in Verdicts
  BY VerdictType DEF v
<1>2. /\ pc[c] = "decide"
      /\ verdict' = [verdict EXCEPT ![c] = v]
      /\ keep' = [keep EXCEPT ![c] = config.history.enabled]
      /\ pc' = [pc EXCEPT ![c] = IF config.history.enabled /\ v # "Drop"
                                 THEN "store" ELSE "act"]
      /\ UNCHANGED <<inserted, events, queue, to_send, db>>
  BY DEF Decide, MustStore, callVars, busVars, v
<1>3. \A d \in Call : (Shown(d))' <=> Shown(d)
  BY <1>2 DEF Shown, Added
<1>4. Deferred' = Deferred
  BY <1>2 DEF Deferred
<1>5. ~Shown(c) /\ c \notin Deferred /\ \A r \in db : r.call # c
  BY <1>2 DEF Safe, Progress, NotActed, Undecided
<1>6. ASSUME NEW d \in Call, d # c
      PROVE  pc'[d] = pc[d] /\ verdict'[d] = verdict[d] /\ keep'[d] = keep[d]
  <2>1. /\ DOMAIN pc = Call /\ DOMAIN verdict = Call /\ DOMAIN keep = Call
    BY DEF TypeOK
  <2>2. pc'[d] = pc[d]
    BY <1>2, <1>6, <2>1, Zenon
  <2>3. verdict'[d] = verdict[d]
    BY <1>2, <1>6, <2>1, Zenon
  <2>4. keep'[d] = keep[d]
    BY <1>2, <1>6, <2>1, Zenon
  <2>5. QED  BY <2>2, <2>3, <2>4
<1>7. /\ verdict'[c] = v
      /\ pc'[c] = "store" => keep'[c] /\ v # "Drop"
      /\ pc'[c] = "act" => ~keep'[c] \/ v = "Drop"
      /\ pc'[c] \in {"store", "act"}
  <2>1. config.history.enabled \in BOOLEAN
    BY ConfigsAssumption DEF TypeOK, AllConfigs, HistoryConfigs
  <2>2. verdict'[c] = v /\ keep'[c] = config.history.enabled
    BY <1>2 DEF TypeOK
  <2>3. pc'[c] = IF config.history.enabled /\ v # "Drop" THEN "store" ELSE "act"
    BY <1>2 DEF TypeOK
  <2>4. QED  BY <2>1, <2>2, <2>3
<1>8. Progress'
  <2>1. ASSUME NEW d \in Call
        PROVE  /\ pc'[d] \in NotActed => ~(Shown(d))' /\ d \notin Deferred'
               /\ pc'[d] \in Undecided => \A r \in db' : r.call # d
    BY <1>2, <1>3, <1>4, <1>5, <1>6, <1>7 DEF Safe, Progress, Undecided, NotActed
  <2>2. ASSUME NEW d \in Call
        PROVE  /\ pc'[d] = "store" => keep'[d] /\ verdict'[d] \in {"Allow", "Suppress", "Queue"}
               /\ pc'[d] = "act" /\ keep'[d] /\ verdict'[d] # "Drop" => inserted'[d] # "no"
    BY <1>1, <1>2, <1>6, <1>7 DEF Safe, Progress, Verdicts
  <2>3. QED  BY <2>1, <2>2 DEF Progress
<1>9. DeferredOnce' /\ ShownOnce'
  BY <1>2, <1>3, <1>4 DEF Safe, DeferredOnce, Deferred, ShownOnce, Shown, Added
<1>10. Deferred \subseteq Call /\ \A r \in db : r.call \in Call
  BY DEF TypeOK, Deferred, Range, Rows
<1>11. VerdictObeyed'
  BY <1>2, <1>3, <1>4, <1>5, <1>6, <1>10 DEF Safe, VerdictObeyed
<1>12. StoredBeforeShown'
  BY <1>2, <1>3, <1>4, <1>5, <1>6 DEF Safe, StoredBeforeShown
<1>13. QED  BY <1>8, <1>9, <1>11, <1>12 DEF Safe

\* The insert adds a row only for a call that was decided to be kept.
LEMMA StoreSafe ==
    ASSUME TypeOK, Safe, NEW c \in Call, Store(c)
    PROVE  Safe'
<1>1. /\ pc[c] = "store"
      /\ pc' = [pc EXCEPT ![c] = "act"]
      /\ UNCHANGED <<verdict, keep, events, queue, to_send>>
  BY DEF Store, busVars
<1>2. \E o \in {"yes", "failed"} : inserted' = [inserted EXCEPT ![c] = o]
  BY DEF Store
<1>3. db' \subseteq db \cup {Row(c)}
  <2>1. db' = Insert(db, Row(c)) \/ db' = db
    BY DEF Store
  <2>2. db \in SUBSET Rows
    BY DEF TypeOK
  <2>3. Insert(db, Row(c)) \subseteq db \cup {Row(c)}
    BY <2>2, StatementsCalls
  <2>4. QED  BY <2>1, <2>3
<1>4. Row(c).call = c
  BY DEF Row
<1>5. \A d \in Call : (Shown(d))' <=> Shown(d)
  BY <1>1 DEF Shown, Added
<1>6. Deferred' = Deferred
  BY <1>1 DEF Deferred
<1>7. inserted'[c] # "no" /\ \A d \in Call : d # c => inserted'[d] = inserted[d]
  BY <1>2 DEF TypeOK
<1>8. pc'[c] = "act" /\ \A d \in Call : d # c => pc'[d] = pc[d]
  BY <1>1 DEF TypeOK
<1>9. Progress'
  <2>1. ASSUME NEW d \in Call
        PROVE  pc'[d] \in NotActed => ~(Shown(d))' /\ d \notin Deferred'
    BY <1>1, <1>5, <1>6, <1>8 DEF Safe, Progress, NotActed
  <2>2. ASSUME NEW d \in Call
        PROVE  pc'[d] \in Undecided => \A r \in db' : r.call # d
    BY <1>3, <1>4, <1>8 DEF Safe, Progress, Undecided
  <2>3. ASSUME NEW d \in Call
        PROVE  /\ pc'[d] = "store" => keep'[d] /\ verdict'[d] \in {"Allow", "Suppress", "Queue"}
               /\ pc'[d] = "act" /\ keep'[d] /\ verdict'[d] # "Drop" => inserted'[d] # "no"
    BY <1>1, <1>7, <1>8 DEF Safe, Progress
  <2>4. QED  BY <2>1, <2>2, <2>3 DEF Progress
<1>10. DeferredOnce' /\ ShownOnce'
  BY <1>1, <1>5, <1>6 DEF Safe, DeferredOnce, Deferred, ShownOnce, Shown, Added
<1>11. keep[c] /\ verdict[c] \in {"Allow", "Suppress", "Queue"}
  BY <1>1 DEF Safe, Progress
<1>12. VerdictObeyed'
  BY <1>1, <1>3, <1>4, <1>5, <1>6, <1>11 DEF Safe, VerdictObeyed
<1>13. StoredBeforeShown'
  BY <1>1, <1>5, <1>6, <1>7 DEF Safe, StoredBeforeShown
<1>14. QED  BY <1>9, <1>10, <1>12, <1>13 DEF Safe

\* Announcements name their call, and are not closings.
LEMMA AddedDistinct ==
    ASSUME NEW c \in Call, NEW d \in Call, NEW id
    PROVE  /\ Added(c) \in Events /\ Added(c).kind = "Added"
           /\ Added(c) = Added(d) => c = d
           /\ Added(c) # Closed(id) /\ Closed(id).kind # "Added"
<1>1. /\ Added(c).kind = "Added" /\ Added(c).call = c /\ Added(d).call = d
      /\ Closed(id).kind = "Closed" /\ Added(c) \in Events
  BY DEF Added, Closed, Events
<1>2. QED  BY <1>1

\* Sending what was not announced before announces nothing twice.
LEMMA SendOnce ==
    ASSUME ShownOnce, events \in Seq(Events), NEW e \in Events,
           e.kind # "Added" \/ e \notin Range(events),
           events' = Append(events, e)
    PROVE  ShownOnce'
<1>1. SUFFICES ASSUME NEW i \in DOMAIN events', NEW j \in DOMAIN events',
                      events'[i] = events'[j], events'[i].kind = "Added"
               PROVE  i = j
  BY DEF ShownOnce
<1>2. /\ \A k \in DOMAIN events : events'[k] = events[k] /\ events[k] \in Range(events)
      /\ DOMAIN events' = DOMAIN events \cup {Len(events) + 1}
      /\ events'[Len(events) + 1] = e
  BY AppendRange DEF Range
<1>3. CASE i \in DOMAIN events /\ j \in DOMAIN events
  BY <1>1, <1>2, <1>3 DEF ShownOnce
<1>4. CASE i \notin DOMAIN events \/ j \notin DOMAIN events
  BY <1>1, <1>2, <1>4
<1>5. QED  BY <1>3, <1>4

\* What a call that acts adds to the announcements and to the queue.
LEMMA ActVisible ==
    ASSUME TypeOK, NEW c \in Call, Act(c)
    PROVE  /\ \A d \in Call : (Shown(d))' <=> Shown(d) \/ (d = c /\ verdict[c] = "Allow")
           /\ Range(queue') = IF verdict[c] = "Queue" THEN Range(queue) \cup {c} ELSE Range(queue)
           /\ \A d \in Call :
                 d \in Deferred' <=> d \in Deferred \/ (d = c /\ verdict[c] = "Queue")
<1>1. /\ events' = IF verdict[c] = "Allow" THEN Append(events, Added(c)) ELSE events
      /\ queue' = IF verdict[c] = "Queue" THEN Append(queue, c) ELSE queue
      /\ UNCHANGED to_send
  BY DEF Act, ReadyToAct, Shows, busVars
<1>3. queue \in Seq(Call) /\ events \in Seq(Events) /\ Added(c) \in Events
  BY AddedDistinct DEF TypeOK
<1>4. \A d \in Call : (Shown(d))' <=> Shown(d) \/ (d = c /\ verdict[c] = "Allow")
  <2>1. CASE verdict[c] = "Allow"
    <3>1. Range(events') = Range(events) \cup {Added(c)}
      BY <1>1, <1>3, <2>1, AppendRange
    <3>2. \A d \in Call : Added(d) = Added(c) => d = c
      BY AddedDistinct
    <3>3. \A d \in Call : Added(d) \in Range(events') <=> Added(d) \in Range(events) \/ d = c
      BY <3>1, <3>2
    <3>4. QED  BY <2>1, <3>3 DEF Shown, Added
  <2>2. CASE verdict[c] # "Allow"
    BY <1>1, <2>2 DEF Shown, Added
  <2>3. QED  BY <2>1, <2>2
<1>5. Range(queue') = IF verdict[c] = "Queue" THEN Range(queue) \cup {c} ELSE Range(queue)
  <2>1. Range(Append(queue, c)) = Range(queue) \cup {c}
    BY <1>3, AppendRange
  <2>2. QED  BY <1>1, <2>1
<1>6. \A d \in Call : d \in Deferred' <=> d \in Deferred \/ (d = c /\ verdict[c] = "Queue")
  BY <1>1, <1>5 DEF Deferred
<1>7. QED  BY <1>4, <1>5, <1>6

\* Acting announces or defers a call that was neither announced nor deferred.
LEMMA ActSafe ==
    ASSUME TypeOK, Safe, NEW c \in Call, Act(c)
    PROVE  Safe'
<1>1. /\ pc[c] = "act"
      /\ pc' = [pc EXCEPT ![c] = "done"]
      /\ events' = IF verdict[c] = "Allow" THEN Append(events, Added(c)) ELSE events
      /\ queue' = IF verdict[c] = "Queue" THEN Append(queue, c) ELSE queue
      /\ UNCHANGED <<verdict, keep, inserted, to_send, db>>
  BY DEF Act, ReadyToAct, Shows, busVars
<1>2. ~Shown(c) /\ c \notin Deferred
  BY <1>1 DEF Safe, Progress, NotActed
<1>3. queue \in Seq(Call) /\ events \in Seq(Events) /\ Added(c) \in Events
  BY AddedDistinct DEF TypeOK
<1>4. \A d \in Call : (Shown(d))' <=> Shown(d) \/ (d = c /\ verdict[c] = "Allow")
  BY ActVisible
<1>5. Range(queue') = IF verdict[c] = "Queue" THEN Range(queue) \cup {c} ELSE Range(queue)
  BY ActVisible
<1>6. \A d \in Call : d \in Deferred' <=> d \in Deferred \/ (d = c /\ verdict[c] = "Queue")
  BY ActVisible
<1>7. pc'[c] = "done" /\ \A d \in Call : d # c => pc'[d] = pc[d]
  BY <1>1 DEF TypeOK
<1>8. Progress'
  <2>1. ASSUME NEW d \in Call
        PROVE  pc'[d] \in NotActed => ~(Shown(d))' /\ d \notin Deferred'
    BY <1>4, <1>6, <1>7 DEF Safe, Progress, NotActed, Undecided
  <2>2. ASSUME NEW d \in Call
        PROVE  pc'[d] \in Undecided => \A r \in db' : r.call # d
    BY <1>1, <1>7 DEF Safe, Progress, Undecided
  <2>3. ASSUME NEW d \in Call
        PROVE  /\ pc'[d] = "store" => keep'[d] /\ verdict'[d] \in {"Allow", "Suppress", "Queue"}
               /\ pc'[d] = "act" /\ keep'[d] /\ verdict'[d] # "Drop" => inserted'[d] # "no"
    BY <1>1, <1>7 DEF Safe, Progress
  <2>4. QED  BY <2>1, <2>2, <2>3 DEF Progress
<1>9. Deferred' \subseteq Call
  BY <1>1, <1>3, <1>5 DEF TypeOK, Deferred, Range
<1>10. DeferredOnce'
  <2>1. \A i, j \in DOMAIN queue' : queue'[i] = queue'[j] => i = j
    <3>1. CASE verdict[c] = "Queue"
      <4>1. /\ \A i \in DOMAIN queue : queue'[i] = queue[i] /\ queue[i] # c
            /\ DOMAIN queue' = DOMAIN queue \cup {Len(queue) + 1}
            /\ queue'[Len(queue) + 1] = c
        BY <1>1, <1>2, <1>3, <3>1, AppendRange DEF Deferred, Range
      <4>2. \A i, j \in DOMAIN queue : queue[i] = queue[j] => i = j
        BY DEF Safe, DeferredOnce
      <4>3. QED  BY <4>1, <4>2
    <3>2. CASE verdict[c] # "Queue"
      BY <1>1, <3>2 DEF Safe, DeferredOnce
    <3>3. QED  BY <3>1, <3>2
  <2>2. Range(to_send') \cap Range(queue') = {}
    BY <1>1, <1>2, <1>5 DEF Safe, DeferredOnce, Deferred
  <2>3. \A d \in Deferred' : ~(Shown(d))'
    BY <1>2, <1>4, <1>6, <1>9 DEF Safe, DeferredOnce
  <2>4. QED  BY <1>1, <2>1, <2>2, <2>3 DEF Safe, DeferredOnce
<1>11. VerdictObeyed'
  BY <1>1, <1>4, <1>6, <1>9 DEF Safe, VerdictObeyed
<1>12. ShownOnce'
  <2>1. CASE verdict[c] = "Allow"
    BY <1>1, <1>2, <1>3, <2>1, SendOnce DEF Safe, Shown
  <2>2. CASE verdict[c] # "Allow"
    BY <1>1, <2>2 DEF Safe, ShownOnce
  <2>3. QED  BY <2>1, <2>2
<1>13. StoredBeforeShown'
  BY <1>1, <1>4, <1>6 DEF Safe, Progress, StoredBeforeShown
<1>14. QED  BY <1>8, <1>10, <1>11, <1>12, <1>13 DEF Safe

\* The broadcast of a closing announces no notification.
LEMMA CloseVisible ==
    ASSUME TypeOK, NEW k \in Close, CloseBroadcast(k)
    PROVE  \A d \in Call : (Shown(d))' <=> Shown(d)
<1> DEFINE e == Closed(closing[k].id)
<1>1. /\ events' = Append(events, e)
      /\ UNCHANGED <<pc, verdict, keep, inserted, queue, to_send, db>>
  BY DEF CloseBroadcast, callVars, busVars
<1>2. events \in Seq(Events) /\ e \in Events
  BY DEF TypeOK, Closed, Events
<1>3. e.kind # "Added" /\ \A d \in Call : Added(d) # e
  <2> HIDE DEF e
  <2>1. e.kind # "Added"
    BY DEF e, Closed
  <2>2. QED  BY <2>1 DEF Added
<1> HIDE DEF e
<1>4. Range(events') = Range(events) \cup {e}
  BY <1>1, <1>2, AppendRange
<1>5. \A d \in Call : (Shown(d))' <=> Shown(d)
  <2>1. ASSUME NEW d \in Call
        PROVE  Added(d) \in Range(events') <=> Added(d) \in Range(events)
    BY <1>3, <1>4
  <2>2. QED  BY <2>1 DEF Shown, Added
<1>6. QED  BY <1>5

\* So it preserves the invariant.
LEMMA CloseBroadcastSafe ==
    ASSUME TypeOK, Safe, NEW k \in Close, CloseBroadcast(k)
    PROVE  Safe'
<1> DEFINE e == Closed(closing[k].id)
<1>1. /\ events' = Append(events, e)
      /\ UNCHANGED <<pc, verdict, keep, inserted, queue, to_send, db>>
  BY DEF CloseBroadcast, callVars, busVars
<1>2. events \in Seq(Events) /\ e \in Events
  BY DEF TypeOK, Closed, Events
<1>3. e.kind # "Added" /\ \A d \in Call : Added(d) # e
  <2> HIDE DEF e
  <2>1. e.kind # "Added"
    BY DEF e, Closed
  <2>2. QED  BY <2>1 DEF Added
<1> HIDE DEF e
<1>5. \A d \in Call : (Shown(d))' <=> Shown(d)
  BY CloseVisible
<1>6. Deferred' = Deferred /\ Deferred \subseteq Call
  BY <1>1 DEF TypeOK, Deferred, Range
<1>7. ShownOnce'
  BY <1>1, <1>2, <1>3, SendOnce DEF Safe
<1>8. Progress'
  BY <1>1, <1>5, <1>6 DEF Safe, Progress
<1>9. DeferredOnce'
  BY <1>1, <1>5, <1>6 DEF Safe, DeferredOnce
<1>10. VerdictObeyed' /\ StoredBeforeShown'
  BY <1>1, <1>5, <1>6 DEF Safe, VerdictObeyed, StoredBeforeShown
<1>11. QED  BY <1>7, <1>8, <1>9, <1>10 DEF Safe

\* Whatever leaves the queue and the batch without being sent.
LEMMA ShrinkSafe ==
    ASSUME TypeOK, Safe,
           UNCHANGED <<verdict, keep, inserted, events, db>>,
           \A c \in Call : pc'[c] = pc[c] \/ pc'[c] = "lost",
           Deferred' \subseteq Deferred,
           Range(to_send') \cap Range(queue') = {},
           \A i, j \in DOMAIN queue' : queue'[i] = queue'[j] => i = j,
           \A i, j \in DOMAIN to_send' : to_send'[i] = to_send'[j] => i = j
    PROVE  Safe'
<1>1. \A c \in Call : (Shown(c))' <=> Shown(c)
  BY DEF Shown, Added
<1>2. Deferred \subseteq Call
  BY DEF TypeOK, Deferred, Range
<1>3. Progress'
  BY <1>1 DEF Safe, Progress, NotActed, Undecided
<1>4. DeferredOnce'
  BY <1>1, <1>2 DEF Safe, DeferredOnce
<1>5. VerdictObeyed' /\ StoredBeforeShown'
  BY <1>1, <1>2 DEF Safe, VerdictObeyed, StoredBeforeShown
<1>6. ShownOnce'
  BY DEF Safe, ShownOnce
<1>7. QED  BY <1>3, <1>4, <1>5, <1>6 DEF Safe

\* Draining moves the batch out of the queue and forgets the rest.
LEMMA DrainQueueSafe ==
    ASSUME TypeOK, Safe, DrainQueue
    PROVE  Safe'
<1>1. /\ to_send' = Batch(queue) /\ queue' = <<>>
      /\ UNCHANGED <<pc, verdict, keep, inserted, events, db>>
  BY DEF DrainQueue, AfterDrain, callVars
<1>2. queue \in Seq(Call)
  BY DEF TypeOK
<1>3. Range(queue') = {} /\ DOMAIN queue' = {}
  BY <1>1 DEF Range
<1>4. Deferred' \subseteq Deferred
  BY <1>1, <1>2, <1>3, BatchRange DEF Deferred
<1>5. \A i, j \in DOMAIN to_send' : to_send'[i] = to_send'[j] => i = j
  BY <1>1, <1>2, BatchRange DEF Safe, DeferredOnce
<1>6. QED  BY <1>1, <1>3, <1>4, <1>5, ShrinkSafe

\* A restart forgets the queue and the batch.
LEMMA RestartSafe ==
    ASSUME TypeOK, Safe, NEW new \in Configs, Restart(new)
    PROVE  Safe'
<1>1. /\ to_send' = <<>> /\ queue' = <<>>
      /\ UNCHANGED <<verdict, keep, inserted, events, db>>
      /\ \A c \in Call : pc'[c] = pc[c] \/ pc'[c] = "lost"
  BY DEF Restart
<1>2. /\ Range(queue') = {} /\ Range(to_send') = {}
      /\ DOMAIN queue' = {} /\ DOMAIN to_send' = {}
  BY <1>1 DEF Range
<1>3. Deferred' \subseteq Deferred
  BY <1>2 DEF Deferred
<1>4. QED  BY <1>1, <1>2, <1>3, ShrinkSafe

\* The flush announces the first of its batch.
LEMMA FlushVisible ==
    ASSUME TypeOK, FlushSend
    PROVE  \A d \in Call : (Shown(d))' <=> Shown(d) \/ d = Head(to_send)
<1> DEFINE c == Head(to_send)
<1>1. /\ events' = Append(events, Added(c))
      /\ to_send' = Tail(to_send)
      /\ UNCHANGED <<pc, verdict, keep, inserted, queue, db>>
  BY DEF FlushSend, callVars
<1>2. to_send # <<>> /\ to_send \in Seq(Call) /\ events \in Seq(Events)
  BY DEF TypeOK, FlushSend
<1>3. c \in Range(to_send) /\ c \in Call
  BY <1>2, TailRange
<1> HIDE DEF c
<1>6. \A d \in Call : (Shown(d))' <=> Shown(d) \/ d = c
  <2>1. Range(events') = Range(events) \cup {Added(c)}
    <3>1. Added(c) \in Events
      BY <1>3, AddedDistinct
    <3>2. QED  BY <1>1, <1>2, <3>1, AppendRange
  <2>2. \A d \in Call : Added(d) = Added(c) => d = c
    BY <1>3, AddedDistinct
  <2>3. \A d \in Call : Added(d) \in Range(events') <=> Added(d) \in Range(events) \/ d = c
    BY <2>1, <2>2
  <2>4. QED  BY <2>3 DEF Shown, Added
<1>7. QED  BY <1>6 DEF c

\* The flush announces a deferred notification, which then is deferred no more.
LEMMA FlushSendSafe ==
    ASSUME TypeOK, Safe, FlushSend
    PROVE  Safe'
<1> DEFINE c == Head(to_send)
<1>1. /\ events' = Append(events, Added(c))
      /\ to_send' = Tail(to_send)
      /\ UNCHANGED <<pc, verdict, keep, inserted, queue, db>>
  BY DEF FlushSend, callVars
<1>2. to_send # <<>> /\ to_send \in Seq(Call) /\ events \in Seq(Events)
  BY DEF TypeOK, FlushSend
<1>3. c \in Range(to_send) /\ c \in Call
  BY <1>2, TailRange
<1> HIDE DEF c
<1>4. /\ c \notin Range(to_send') /\ Range(to_send') \subseteq Range(to_send)
      /\ \A i, j \in DOMAIN to_send' : to_send'[i] = to_send'[j] => i = j
  BY <1>1, <1>2, TailRange DEF Safe, DeferredOnce, c
<1>5. ~Shown(c) /\ verdict[c] = "Queue" /\ c \in Deferred
  BY <1>3 DEF Safe, DeferredOnce, VerdictObeyed, Deferred
<1>6. \A d \in Call : (Shown(d))' <=> Shown(d) \/ d = c
  BY FlushVisible DEF c
<1>7. Deferred' \subseteq Deferred /\ c \notin Deferred' /\ Deferred \subseteq Call
  <2>1. Deferred \subseteq Call
    BY DEF TypeOK, Deferred, Range
  <2>2. Range(queue') = Range(queue) /\ c \notin Range(queue)
    BY <1>1, <1>3 DEF Safe, DeferredOnce
  <2>3. QED  BY <1>4, <2>1, <2>2 DEF Deferred
<1>8. pc[c] \notin NotActed
  BY <1>3, <1>5 DEF Safe, Progress
<1>9. Progress'
  BY <1>1, <1>6, <1>7, <1>8 DEF Safe, Progress, NotActed
<1>10. DeferredOnce'
  <2>1. Range(to_send') \cap Range(queue') = {}
    BY <1>1, <1>4 DEF Safe, DeferredOnce
  <2>2. \A d \in Deferred' : ~(Shown(d))'
    BY <1>6, <1>7 DEF Safe, DeferredOnce
  <2>3. QED  BY <1>1, <1>4, <2>1, <2>2 DEF Safe, DeferredOnce
<1>11. VerdictObeyed' /\ StoredBeforeShown'
  BY <1>1, <1>5, <1>6, <1>7 DEF Safe, VerdictObeyed, StoredBeforeShown
<1>12. ShownOnce'
  BY <1>1, <1>2, <1>3, <1>5, AddedDistinct, SendOnce DEF Safe, Shown
<1>13. QED  BY <1>9, <1>10, <1>11, <1>12 DEF Safe

\* Every step preserves the invariant.
LEMMA NextSafe ==
    ASSUME TypeOK, Safe, [Next]_vars
    PROVE  Safe'
<1> USE DEF callVars, busVars
<1>1. db \in SUBSET Rows
  BY DEF TypeOK
<1>2. ASSUME NEW c \in Call, NEW r \in Requests, Notify(c, r) PROVE Safe'
  <2>1. /\ pc[c] = "unsent" /\ pc' = [pc EXCEPT ![c] = "limit"]
        /\ UNCHANGED <<verdict, keep, inserted, events, queue, to_send, db>>
    BY <1>2 DEF Notify
  <2>2. \A d \in Call : pc'[d] = pc[d] \/ (pc[d] \in Undecided /\ pc'[d] \in Undecided)
    BY <2>1 DEF TypeOK, Undecided
  <2>3. QED  BY <2>1, <2>2, QuietStep
<1>3. ASSUME NEW c \in Call, RateLimit(c) PROVE Safe'
  <2>1. /\ pc[c] = "limit" /\ \E new \in {"refused", "decide"} : pc' = [pc EXCEPT ![c] = new]
        /\ UNCHANGED <<verdict, keep, inserted, events, queue, to_send, db>>
    BY <1>3 DEF RateLimit
  <2>2. \A d \in Call : pc'[d] = pc[d] \/ (pc[d] \in Undecided /\ pc'[d] \in Undecided)
    BY <2>1 DEF TypeOK, Undecided
  <2>3. QED  BY <2>1, <2>2, QuietStep
<1>4. ASSUME NEW c \in Call, HandleNotify(c) PROVE Safe'
  BY <1>3, <1>4, DecideSafe, StoreSafe, ActSafe DEF HandleNotify
<1>5. ASSUME NEW k \in Close, NEW id \in CloseIds, CloseDismiss(k, id) PROVE Safe'
  <2>1. /\ db' = Dismiss(db, id) \/ db' = db
        /\ UNCHANGED <<pc, verdict, keep, inserted, events, queue, to_send>>
    BY <1>5 DEF CloseDismiss
  <2>2. \A r \in db' : \E q \in db : q.call = r.call
    BY <1>1, <2>1, StatementsCalls
  <2>3. QED  BY <2>1, <2>2, QuietStep
<1>6. ASSUME NEW k \in Close, HandleClose(k) PROVE Safe'
  <2>1. CASE CloseBroadcast(k)
    BY <2>1, CloseBroadcastSafe
  <2>2. CASE CloseSignal(k)
    BY <2>2, QuietStep DEF CloseSignal
  <2>3. QED  BY <1>6, <2>1, <2>2 DEF HandleClose
<1>7. ASSUME NEW active \in BOOLEAN, SetFullscreen(active) PROVE Safe'
  BY <1>7, QuietStep DEF SetFullscreen
<1>8. CASE Flush
  BY <1>8, DrainQueueSafe, FlushSendSafe DEF Flush
<1>9. ASSUME NEW apps \in FocusLists, ActivateFocus(apps) PROVE Safe'
  BY <1>9, QuietStep DEF ActivateFocus
<1>10. CASE DeactivateFocus
  BY <1>10, QuietStep DEF DeactivateFocus
<1>11. ASSUME NEW new \in Configs, ReloadConfig(new) PROVE Safe'
  BY <1>11, QuietStep DEF ReloadConfig
<1>12. CASE CleanupStart
  BY <1>12, QuietStep DEF CleanupStart
<1>13. ASSUME NEW cutoff, CleanupAge(cutoff) PROVE Safe'
  <2>1. /\ db' = DeleteOlder(db, cutoff) \/ db' = db
        /\ UNCHANGED <<pc, verdict, keep, inserted, events, queue, to_send>>
    BY <1>13 DEF CleanupAge
  <2>2. db' \subseteq db
    BY <1>1, <2>1, StatementsCalls
  <2>3. QED  BY <2>1, <2>2, QuietStep
<1>14. CASE CleanupCount
  <2>1. /\ db' = KeepNewest(db, cleaner.max_count) \/ db' = db
        /\ UNCHANGED <<pc, verdict, keep, inserted, events, queue, to_send>>
    BY <1>14 DEF CleanupCount
  <2>2. db' \subseteq db
    BY <1>1, <2>1, StatementsCalls
  <2>3. QED  BY <2>1, <2>2, QuietStep
<1>15. CASE CleanupFail
  BY <1>15, QuietStep DEF CleanupFail
<1>16. ASSUME NEW new \in Configs, Restart(new) PROVE Safe'
  BY <1>16, RestartSafe
<1>17. CASE UNCHANGED vars
  BY <1>17, QuietStep DEF vars
<1>18. QED
  BY <1>2, <1>4, <1>5, <1>6, <1>7, <1>8, <1>9, <1>10, <1>11, <1>12, <1>13, <1>14, <1>15,
     <1>16, <1>17 DEF Next

\* The pipeline invariant holds from the start on.
LEMMA ManagerSafe == Spec => []Safe
<1>1. Init => Safe
  <2> SUFFICES ASSUME Init PROVE Safe
    OBVIOUS
  <2>1. /\ events = <<>> /\ queue = <<>> /\ to_send = <<>> /\ db = {}
        /\ \A c \in Call : pc[c] = "unsent"
    BY DEF Init
  <2>2. /\ Range(events) = {} /\ Range(queue) = {} /\ Range(to_send) = {}
        /\ DOMAIN events = {} /\ DOMAIN queue = {} /\ DOMAIN to_send = {}
    BY <2>1 DEF Range
  <2>3. Deferred = {} /\ \A c : ~Shown(c)
    BY <2>2 DEF Deferred, Shown
  <2>4. QED  BY <2>1, <2>2, <2>3 DEF Safe, Progress, DeferredOnce, VerdictObeyed,
                                     ShownOnce, StoredBeforeShown
<1>2. TypeOK /\ Safe /\ [Next]_vars => Safe'
  BY NextSafe
<1>3. QED  BY <1>1, <1>2, ManagerTypeOK, PTL DEF Spec

\* Whatever the interleaving of calls, configuration changes, flushes and
\* restarts, what is shown, deferred or stored is what was decided.
THEOREM ManagerVerdictObeyed == Spec => []VerdictObeyed
<1>1. Safe => VerdictObeyed
  BY DEF Safe
<1>2. QED  BY <1>1, ManagerSafe, PTL

\* No notification is announced twice, however the queue is filled and flushed.
THEOREM ManagerShownOnce == Spec => []ShownOnce
<1>1. Safe => ShownOnce
  BY DEF Safe
<1>2. QED  BY <1>1, ManagerSafe, PTL

\* With the history on, a notification is offered to the table before any client
\* can learn of it.
THEOREM ManagerStoredBeforeShown == Spec => []StoredBeforeShown
<1>1. Safe => StoredBeforeShown
  BY DEF Safe
<1>2. QED  BY <1>1, ManagerSafe, PTL

-----------------------------------------------------------------------------
(* What the table keeps *)

\* Each statement keeps the table finite.
LEMMA StatementsFinite ==
    ASSUME NEW t \in SUBSET Rows, IsFiniteSet(t)
    PROVE  /\ \A row : IsFiniteSet(Insert(t, row))
           /\ \A id : IsFiniteSet(Dismiss(t, id))
           /\ \A cutoff : IsFiniteSet(DeleteOlder(t, cutoff))
           /\ \A n : IsFiniteSet(KeepNewest(t, n))
<1>1. \A u \in SUBSET t : IsFiniteSet(u)
  BY FS_Subset
<1>2. ASSUME NEW row  PROVE IsFiniteSet(Insert(t, row))
  <2>1. IsFiniteSet({r \in t : r.id # row.id})
    BY <1>1
  <2>2. QED  BY <2>1, FS_AddElement DEF Insert
<1>3. ASSUME NEW id  PROVE IsFiniteSet(Dismiss(t, id))
  <2> DEFINE f == [r \in t |-> IF r.id = id THEN [r EXCEPT !.dismissed = TRUE] ELSE r]
  <2>1. f \in Surjection(t, Dismiss(t, id))
    BY DEF Surjection, Dismiss
  <2>2. QED  BY <2>1, FS_Surjection
<1>4. QED  BY <1>1, <1>2, <1>3 DEF DeleteOlder, KeepNewest

\* The table changes only by the four statements, and by the retention by count
\* only in that step of the pass.
LEMMA TableSteps ==
    ASSUME [Next]_vars
    PROVE  \/ db' = db
           \/ \E c \in Call : db' = Insert(db, Row(c))
           \/ \E id : db' = Dismiss(db, id)
           \/ \E cutoff : db' = DeleteOlder(db, cutoff)
           \/ cleaner.pc = "count" /\ db' = KeepNewest(db, cleaner.max_count)
<1> DEFINE Goal == \/ db' = db
                   \/ \E c \in Call : db' = Insert(db, Row(c))
                   \/ \E id : db' = Dismiss(db, id)
                   \/ \E cutoff : db' = DeleteOlder(db, cutoff)
                   \/ cleaner.pc = "count" /\ db' = KeepNewest(db, cleaner.max_count)
<1>1. ASSUME NEW c \in Call, HandleNotify(c)  PROVE Goal
  BY <1>1 DEF HandleNotify, RateLimit, Decide, Store, Act
<1>2. ASSUME NEW k \in Close, HandleClose(k) \/ \E id \in CloseIds : CloseDismiss(k, id)
      PROVE  Goal
  BY <1>2 DEF HandleClose, CloseBroadcast, CloseSignal, CloseDismiss
<1>3. ASSUME \/ \E c \in Call, r \in Requests : Notify(c, r)
             \/ \E active \in BOOLEAN : SetFullscreen(active)
             \/ Flush
             \/ \E apps \in FocusLists : ActivateFocus(apps)
             \/ DeactivateFocus
      PROVE  Goal
  BY <1>3 DEF Notify, SetFullscreen, Flush, DrainQueue, FlushSend, ActivateFocus,
              DeactivateFocus
<1>4. ASSUME \/ \E new \in Configs : ReloadConfig(new) \/ Restart(new)
             \/ CleanupStart
             \/ CleanupFail
             \/ UNCHANGED vars
      PROVE  Goal
  BY <1>4 DEF ReloadConfig, Restart, CleanupStart, CleanupFail, vars
<1>5. ASSUME CleanupCount \/ \E cutoff \in 0..(clock + 1) : CleanupAge(cutoff)
      PROVE  Goal
  BY <1>5 DEF CleanupCount, CleanupAge
<1>6. QED  BY <1>1, <1>2, <1>3, <1>4, <1>5 DEF Next

\* The table stays finite.
LEMMA TableFinite == Spec => []IsFiniteSet(db)
<1>1. Init => IsFiniteSet(db)
  BY FS_EmptySet DEF Init
<1>2. TypeOK /\ IsFiniteSet(db) /\ [Next]_vars => IsFiniteSet(db)'
  <2> SUFFICES ASSUME TypeOK, IsFiniteSet(db), [Next]_vars PROVE IsFiniteSet(db')
    OBVIOUS
  <2>1. db \in SUBSET Rows
    BY DEF TypeOK
  <2>2. /\ \A c \in Call : IsFiniteSet(Insert(db, Row(c)))
        /\ \A id : IsFiniteSet(Dismiss(db, id))
        /\ \A cutoff : IsFiniteSet(DeleteOlder(db, cutoff))
        /\ \A n : IsFiniteSet(KeepNewest(db, n))
    BY <2>1, StatementsFinite
  <2>3. QED  BY <2>2, TableSteps
<1>3. QED  BY <1>1, <1>2, ManagerTypeOK, PTL DEF Spec

\* A pending row outlives everything but a replacement with its own id and a
\* retention by count that finds max_count newer rows.
THEOREM ManagerPendingRowsKept == Spec => PendingRowsKept
<1>1. ASSUME TypeOK, IsFiniteSet(db), [Next]_vars, NEW r \in Pending(db), r.id \notin IdsOf(db')
      PROVE  /\ cleaner.pc = "count"
             /\ Cardinality({s \in db : s.stamp > r.stamp}) >= cleaner.max_count
  <2>1. r \in db /\ ~r.dismissed /\ db \in SUBSET Rows
    BY <1>1 DEF Pending, TypeOK
  <2>2. r \notin db'
    BY <1>1 DEF IdsOf
  <2>3. ASSUME NEW c \in Call  PROVE db' # Insert(db, Row(c))
    BY <1>1, <2>1 DEF Insert, IdsOf
  <2>4. ASSUME NEW id  PROVE db' # Dismiss(db, id)
    <3>1. (IF r.id = id THEN [r EXCEPT !.dismissed = TRUE] ELSE r).id = r.id
      BY <2>1 DEF Rows
    <3>2. QED  BY <1>1, <2>1, <3>1 DEF Dismiss, IdsOf
  <2>5. ASSUME NEW cutoff  PROVE db' # DeleteOlder(db, cutoff)
    BY <2>1, <2>2 DEF DeleteOlder
  <2>6. cleaner.pc = "count" /\ db' = KeepNewest(db, cleaner.max_count)
    BY <1>1, <2>1, <2>2, <2>3, <2>4, <2>5, TableSteps
  <2>7. Cardinality({s \in db : s.stamp > r.stamp}) \in Nat
    BY <1>1, FS_Subset, FS_CardinalityType
  <2>8. cleaner.max_count \in Nat
    BY <1>1 DEF TypeOK
  <2>9. ~(Cardinality({s \in db : s.stamp > r.stamp}) < cleaner.max_count)
    BY <2>1, <2>2, <2>6 DEF KeepNewest
  <2>10. QED  BY <2>6, <2>7, <2>8, <2>9
<1>2. TypeOK /\ IsFiniteSet(db) /\ [Next]_vars =>
        [\A r \in Pending(db) :
          \/ r.id \in IdsOf(db')
          \/ /\ cleaner.pc = "count"
             /\ Cardinality({s \in db : s.stamp > r.stamp}) >= cleaner.max_count]_vars
  BY <1>1
<1>3. QED  BY <1>2, ManagerTypeOK, TableFinite, PTL DEF Spec, PendingRowsKept
-----------------------------------------------------------------------------
(* Ids, as long as the counter does not wrap *)

\* What must be assumed: 2^32 calls are not made in one run of the process.
NoWrap == next_id < MaxU32

\* The ids allocated in this run are behind the counter.
Allocated ==
    \A c \in Call :
        run[c] # 0 => run[c] <= epoch /\ (run[c] = epoch => note[c].id < next_id)

\* An allocation takes the counter's value, which no id has, and moves it on.
LEMMA NotifyFresh ==
    ASSUME TypeOK, NoWrap, Allocated, FreshIdsDistinct,
           NEW c \in Call, NEW r \in Requests, Notify(c, r)
    PROVE  Allocated' /\ FreshIdsDistinct'
<1>1. /\ next_id \in Nat /\ MaxU32 \in Nat /\ epoch \in Nat \ {0} /\ epoch' = epoch
      /\ run \in [Call -> Nat] /\ note \in [Call -> Notes]
      /\ \A d \in Call : note[d].id \in Nat
  BY MaxU32Assumption DEF TypeOK, Ids, Notes, Notify
<1>2. CASE r.replaces_id > 0
  <2>1. /\ next_id' = next_id
        /\ \A d \in Call : run'[d] = IF d = c THEN 0 ELSE run[d]
        /\ \A d \in Call : d # c => note'[d] = note[d]
    BY <1>1, <1>2 DEF Notify
  <2>2. Allocated'
    BY <1>1, <2>1 DEF Allocated
  <2>3. FreshIdsDistinct'
    BY <1>1, <2>1 DEF FreshIdsDistinct
  <2>4. QED  BY <2>2, <2>3
<1>3. CASE ~(r.replaces_id > 0)
  <2>1. next_id' = next_id + 1
    BY <1>1, <1>3 DEF Notify, FetchAdd, NoWrap
  <2>2. /\ \A d \in Call : run'[d] = IF d = c THEN epoch ELSE run[d]
        /\ \A d \in Call : d # c => note'[d] = note[d]
        /\ note'[c].id = next_id
    BY <1>1, <1>3 DEF Notify
  <2>3. Allocated'
    BY <1>1, <2>1, <2>2 DEF Allocated
  <2>4. FreshIdsDistinct'
    <3>1. \A d \in Call : d # c /\ run[d] = epoch => note[d].id < next_id
      BY <1>1 DEF Allocated
    <3>2. QED  BY <1>1, <2>2, <3>1 DEF FreshIdsDistinct
  <2>5. QED  BY <2>3, <2>4
<1>4. QED  BY <1>2, <1>3

\* The ids allocated in one run of the process are distinct, for concurrent calls
\* and any number of restarts, while the counter has not wrapped.
THEOREM ManagerFreshIdsDistinct == Spec /\ []NoWrap => []FreshIdsDistinct
<1>1. Init => Allocated /\ FreshIdsDistinct
  BY DEF Init, Allocated, FreshIdsDistinct
<1>2. TypeOK /\ NoWrap /\ Allocated /\ FreshIdsDistinct /\ [Next]_vars
        => Allocated' /\ FreshIdsDistinct'
  <2> SUFFICES ASSUME TypeOK, NoWrap, Allocated, FreshIdsDistinct, [Next]_vars
               PROVE  Allocated' /\ FreshIdsDistinct'
    OBVIOUS
  <2>1. CASE UNCHANGED <<next_id, note, epoch, run>>
    BY <2>1 DEF Allocated, FreshIdsDistinct
  <2>2. CASE \E new \in Configs : Restart(new)
    <3>1. epoch \in Nat /\ run \in [Call -> Nat] /\ epoch' = epoch + 1
          /\ UNCHANGED <<run, note>>
      BY <2>2 DEF TypeOK, Restart
    <3>2. QED  BY <3>1 DEF Allocated, FreshIdsDistinct
  <2>3. CASE \E c \in Call, r \in Requests : Notify(c, r)
    BY <2>3, NotifyFresh
  <2>4. CASE \E c \in Call : HandleNotify(c)
    BY <2>1, <2>4 DEF HandleNotify, RateLimit, Decide, Store, Act
  <2>5. CASE \/ \E k \in Close, id \in CloseIds : CloseDismiss(k, id)
             \/ \E k \in Close : HandleClose(k)
    BY <2>1, <2>5 DEF CloseDismiss, HandleClose, CloseBroadcast, CloseSignal, callVars
  <2>6. CASE \/ \E active \in BOOLEAN : SetFullscreen(active)
             \/ Flush
             \/ \E apps \in FocusLists : ActivateFocus(apps)
             \/ DeactivateFocus
    BY <2>1, <2>6 DEF SetFullscreen, Flush, DrainQueue, FlushSend, ActivateFocus,
                      DeactivateFocus, callVars
  <2>7. CASE \/ \E new \in Configs : ReloadConfig(new)
             \/ CleanupStart
             \/ \E cutoff \in 0..(clock + 1) : CleanupAge(cutoff)
             \/ CleanupCount
             \/ CleanupFail
    BY <2>1, <2>7 DEF ReloadConfig, CleanupStart, CleanupAge, CleanupCount, CleanupFail,
                      callVars
  <2>8. CASE UNCHANGED vars
    BY <2>1, <2>8 DEF vars, callVars
  <2>9. QED  BY <2>2, <2>3, <2>4, <2>5, <2>6, <2>7, <2>8 DEF Next
<1>3. QED  BY <1>1, <1>2, ManagerTypeOK, PTL DEF Spec
=============================================================================
