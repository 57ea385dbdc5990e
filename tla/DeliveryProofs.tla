--------------------------- MODULE DeliveryProofs ---------------------------
(***************************************************************************)
(* The notification manager implements ToastDelivery, for every set of     *)
(* calls, requests and configurations, every flush limit, and any number   *)
(* of restarts and database failures.                                      *)
(*                                                                         *)
(* A call's fate is a function of what is visible of it, of how far it got *)
(* and of its verdict.  Most steps change none of these (QuietFate); the   *)
(* others change the fate of one call (Judge, Show, Defer, ShowNext) or of *)
(* what leaves the line at once (GiveUp, Crash).  Safe says that what is   *)
(* decided is not visible yet and that nothing is in line twice.           *)
(***************************************************************************)
EXTENDS NotificationManagerProofs

Open == {"unsent", "limit", "decide"}

\* There is a verdict from the decision on, and none before.
Judged ==
    \A c \in Call :
        /\ pc[c] \in Undecided => verdict[c] = "none"
        /\ pc[c] \in {"store", "act"} => verdict[c] \in Verdicts

-----------------------------------------------------------------------------
(* Judged is invariant *)

LEMMA JudgedSteps ==
    ASSUME TypeOK, Judged, [Next]_vars
    PROVE  Judged'
<1> USE DEF callVars, busVars, Undecided
<1>1. ASSUME NEW c \in Call, NEW r \in Requests, Notify(c, r)  PROVE Judged'
  BY <1>1 DEF Notify, Judged, TypeOK
<1>2. ASSUME NEW c \in Call, RateLimit(c)  PROVE Judged'
  BY <1>2 DEF RateLimit, Judged, TypeOK
<1>3. ASSUME NEW c \in Call, NEW now \in Instants, Decide(c, now)  PROVE Judged'
  <2>1. \E v \in Verdicts : verdict' = [verdict EXCEPT ![c] = v]
    BY <1>3, VerdictType DEF Decide
  <2>2. \E p \in {"store", "act"} : pc' = [pc EXCEPT ![c] = p]
    BY <1>3 DEF Decide
  <2>3. QED  BY <2>1, <2>2 DEF Judged, TypeOK
<1>4. ASSUME NEW c \in Call, Store(c) \/ Act(c)  PROVE Judged'
  BY <1>4 DEF Store, Act, ReadyToAct, Judged, TypeOK
<1>5. ASSUME NEW new \in Configs, Restart(new)  PROVE Judged'
  BY <1>5 DEF Restart, Judged, TypeOK, InFlight
<1>6. ASSUME UNCHANGED <<pc, verdict>>  PROVE Judged'
  BY <1>6 DEF Judged
<1>7. ASSUME \/ \E k \in Close, id \in CloseIds : CloseDismiss(k, id)
             \/ \E k \in Close : HandleClose(k)
             \/ \E active \in BOOLEAN : SetFullscreen(active)
             \/ Flush
      PROVE  UNCHANGED <<pc, verdict>>
  BY <1>7 DEF CloseDismiss, HandleClose, CloseBroadcast, CloseSignal, SetFullscreen,
              Flush, DrainQueue, FlushSend
<1>8. ASSUME \/ \E apps \in FocusLists : ActivateFocus(apps)
             \/ DeactivateFocus
             \/ \E new \in Configs : ReloadConfig(new)
             \/ CleanupStart
             \/ \E cutoff \in 0..(clock + 1) : CleanupAge(cutoff)
             \/ CleanupCount
             \/ CleanupFail
             \/ UNCHANGED vars
      PROVE  UNCHANGED <<pc, verdict>>
  BY <1>8 DEF ActivateFocus, DeactivateFocus, ReloadConfig, CleanupStart, CleanupAge,
              CleanupCount, CleanupFail, vars
<1>9. QED  BY <1>1, <1>2, <1>3, <1>4, <1>5, <1>6, <1>7, <1>8 DEF Next, HandleNotify

LEMMA ManagerJudged == Spec => []Judged
<1>1. Init => Judged
  BY DEF Init, Judged, Undecided
<1>2. TypeOK /\ Judged /\ [Next]_vars => Judged'
  BY JudgedSteps
<1>3. QED  BY <1>1, <1>2, ManagerTypeOK, PTL DEF Spec

-----------------------------------------------------------------------------
(* Fates and the line *)

\* A fate depends on what is visible of the call, its progress and its verdict.
LEMMA SameFate ==
    ASSUME NEW c \in Call,
           (Shown(c))' <=> Shown(c),
           c \in Deferred' <=> c \in Deferred,
           \/ pc'[c] = pc[c] /\ verdict'[c] = verdict[c]
           \/ pc[c] \in Open /\ pc'[c] \in Open
           \/ /\ pc[c] \in {"store", "act"} /\ pc'[c] \in {"store", "act"}
              /\ verdict'[c] = verdict[c]
    PROVE  Fate(c)' = Fate(c)
<1>1. CASE pc'[c] = pc[c] /\ verdict'[c] = verdict[c]
  BY <1>1 DEF Fate
<1>2. CASE pc[c] \in Open /\ pc'[c] \in Open
  BY <1>2 DEF Fate, Open
<1>3. CASE /\ pc[c] \in {"store", "act"} /\ pc'[c] \in {"store", "act"}
           /\ verdict'[c] = verdict[c]
  BY <1>3 DEF Fate
<1>4. QED  BY <1>1, <1>2, <1>3

\* Steps that move no notification between the broadcast, the queue and the
\* batch, and no call past a decision, are stutters of the abstract machine.
LEMMA QuietFate ==
    ASSUME UNCHANGED <<queue, to_send>>,
           \A c \in Call : (Shown(c))' <=> Shown(c),
           \A c \in Call :
               \/ pc'[c] = pc[c] /\ verdict'[c] = verdict[c]
               \/ pc[c] \in Open /\ pc'[c] \in Open
               \/ /\ pc[c] \in {"store", "act"} /\ pc'[c] \in {"store", "act"}
                  /\ verdict'[c] = verdict[c]
    PROVE  UNCHANGED Toasts!vars
<1>1. Deferred' = Deferred /\ Waiting' = Waiting
  BY DEF Deferred, Waiting
<1>2. \A c \in Call : Fate(c)' = Fate(c)
  BY <1>1, SameFate
<1>3. QED  BY <1>1, <1>2 DEF Toasts!vars

\* One call's fate changes, the line does not.
LEMMA OneFate ==
    ASSUME NEW c \in Call, NEW new,
           \A d \in Call \ {c} : Fate(d)' = Fate(d),
           Fate(c)' = new
    PROVE  [d \in Call |-> Fate(d)]' = [[d \in Call |-> Fate(d)] EXCEPT ![c] = new]
OBVIOUS

\* A decision about an open call.
LEMMA JudgeStep ==
    ASSUME NEW c \in Call, Fate(c) = "open",
           Fate(c)' \in {"refused", "dropped", "silenced", "admitted", "deferring"},
           \A d \in Call \ {c} : Fate(d)' = Fate(d),
           Waiting' = Waiting
    PROVE  Toasts!Next
<1> DEFINE new == Fate(c)'
<1>1. [d \in Call |-> Fate(d)]' = [[d \in Call |-> Fate(d)] EXCEPT ![c] = new]
  BY OneFate
<1>2. Toasts!Judge(c, new)
  BY <1>1 DEF Toasts!Judge
<1>3. QED  BY <1>2 DEF Toasts!Next

-----------------------------------------------------------------------------
(* The steps of a call *)

LEMMA RateLimitDelivers ==
    ASSUME TypeOK, Safe, NEW c \in Call, RateLimit(c)
    PROVE  Toasts!Next \/ UNCHANGED Toasts!vars
<1>1. /\ pc[c] = "limit"
      /\ \E p \in {"refused", "decide"} : pc' = [pc EXCEPT ![c] = p]
      /\ UNCHANGED <<verdict, events, queue, to_send>>
  BY DEF RateLimit, busVars
<1>2. \A d \in Call : (Shown(d))' <=> Shown(d)
  BY <1>1 DEF Shown, Added
<1>3. Deferred' = Deferred /\ Waiting' = Waiting
  BY <1>1 DEF Deferred, Waiting
<1>4. \A d \in Call \ {c} : pc'[d] = pc[d] /\ verdict'[d] = verdict[d]
  BY <1>1 DEF TypeOK
<1>5. CASE pc'[c] = "decide"
  BY <1>1, <1>2, <1>4, <1>5, QuietFate DEF Open
<1>6. CASE pc'[c] = "refused"
  <2>1. ~Shown(c) /\ c \notin Deferred
    BY <1>1 DEF Safe, Progress, NotActed, Undecided
  <2>2. Fate(c) = "open" /\ Fate(c)' = "refused"
    BY <1>1, <1>2, <1>3, <1>6, <2>1 DEF Fate
  <2>3. \A d \in Call \ {c} : Fate(d)' = Fate(d)
    BY <1>2, <1>3, <1>4, SameFate
  <2>4. QED  BY <1>3, <2>2, <2>3, JudgeStep
<1>7. pc'[c] \in {"refused", "decide"}
  BY <1>1 DEF TypeOK
<1>8. QED  BY <1>5, <1>6, <1>7

LEMMA DecideDelivers ==
    ASSUME TypeOK, Safe, NEW c \in Call, NEW now \in Instants, Decide(c, now)
    PROVE  Toasts!Next
<1>1. /\ pc[c] = "decide"
      /\ \E v \in Verdicts : verdict' = [verdict EXCEPT ![c] = v]
      /\ \E p \in {"store", "act"} : pc' = [pc EXCEPT ![c] = p]
      /\ UNCHANGED <<events, queue, to_send>>
  BY VerdictType DEF Decide, busVars
<1>2. \A d \in Call : (Shown(d))' <=> Shown(d)
  BY <1>1 DEF Shown, Added
<1>3. Deferred' = Deferred /\ Waiting' = Waiting
  BY <1>1 DEF Deferred, Waiting
<1>4. \A d \in Call \ {c} : pc'[d] = pc[d] /\ verdict'[d] = verdict[d]
  BY <1>1 DEF TypeOK
<1>5. ~Shown(c) /\ c \notin Deferred
  BY <1>1 DEF Safe, Progress, NotActed, Undecided
<1>6. verdict'[c] \in Verdicts /\ pc'[c] \in {"store", "act"}
  BY <1>1 DEF TypeOK
<1>7. Fate(c) = "open"
  BY <1>1, <1>5 DEF Fate
<1>8. Fate(c)' \in {"dropped", "silenced", "admitted", "deferring"}
  BY <1>2, <1>3, <1>5, <1>6 DEF Fate, Verdicts
<1>9. \A d \in Call \ {c} : Fate(d)' = Fate(d)
  BY <1>2, <1>3, <1>4, SameFate
<1>10. QED  BY <1>3, <1>7, <1>8, <1>9, JudgeStep

\* An Allow is shown, a Queue takes its place at the end of the line, and
\* nothing is seen of the others.
LEMMA ActDelivers ==
    ASSUME TypeOK, Safe, Judged, NEW c \in Call, Act(c)
    PROVE  Toasts!Next \/ UNCHANGED Toasts!vars
<1>1. /\ pc[c] = "act" /\ pc' = [pc EXCEPT ![c] = "done"]
      /\ queue' = IF verdict[c] = "Queue" THEN Append(queue, c) ELSE queue
      /\ UNCHANGED <<verdict, to_send>>
  BY DEF Act, ReadyToAct, busVars
<1>2. \A d \in Call : (Shown(d))' <=> Shown(d) \/ (d = c /\ verdict[c] = "Allow")
  BY ActVisible
<1>3. \A d \in Call : d \in Deferred' <=> d \in Deferred \/ (d = c /\ verdict[c] = "Queue")
  BY ActVisible
<1>4. verdict[c] \in Verdicts
  BY <1>1 DEF Judged
<1>5. ~Shown(c) /\ c \notin Deferred
  BY <1>1 DEF Safe, Progress, NotActed, Undecided
<1>6. pc'[c] = "done" /\ verdict'[c] = verdict[c]
  BY <1>1 DEF TypeOK
<1>7. \A d \in Call \ {c} : Fate(d)' = Fate(d)
  <2>1. \A d \in Call \ {c} : pc'[d] = pc[d] /\ verdict'[d] = verdict[d]
    BY <1>1 DEF TypeOK
  <2>2. QED  BY <1>2, <1>3, <2>1, SameFate
<1>8. CASE verdict[c] = "Allow"
  <2>1. Fate(c) = "admitted" /\ Fate(c)' = "shown"
    BY <1>1, <1>2, <1>5, <1>8 DEF Fate
  <2>2. Waiting' = Waiting
    BY <1>1, <1>8 DEF Waiting
  <2>3. [d \in Call |-> Fate(d)]' = [[d \in Call |-> Fate(d)] EXCEPT ![c] = "shown"]
    BY <1>7, <2>1, OneFate
  <2>4. Toasts!Show(c)
    BY <2>1, <2>2, <2>3 DEF Toasts!Show
  <2>5. QED  BY <2>4 DEF Toasts!Next
<1>9. CASE verdict[c] = "Queue"
  <2>1. Fate(c) = "deferring"
    BY <1>1, <1>5, <1>9 DEF Fate
  <2>2. Fate(c)' = "deferred"
    BY <1>2, <1>3, <1>5, <1>9 DEF Fate
  <2>3. Waiting' = Append(Waiting, c)
    <3>1. to_send \in Seq(Call) /\ queue \in Seq(Call)
      BY DEF TypeOK
    <3>2. to_send \o Append(queue, c) = Append(to_send \o queue, c)
      BY <3>1
    <3>3. QED  BY <1>1, <1>9, <3>2 DEF Waiting
  <2>4. [d \in Call |-> Fate(d)]' = [[d \in Call |-> Fate(d)] EXCEPT ![c] = "deferred"]
    BY <1>7, <2>2, OneFate
  <2>5. Toasts!Defer(c)
    BY <2>1, <2>3, <2>4 DEF Toasts!Defer
  <2>6. QED  BY <2>5 DEF Toasts!Next
<1>10. CASE verdict[c] \in {"Drop", "Suppress"}
  <2>1. Fate(c)' = Fate(c)
    BY <1>1, <1>2, <1>3, <1>5, <1>6, <1>10 DEF Fate
  <2>2. Waiting' = Waiting
    BY <1>1, <1>10 DEF Waiting
  <2>3. QED  BY <1>7, <2>1, <2>2 DEF Toasts!vars
<1>11. QED  BY <1>4, <1>8, <1>9, <1>10 DEF Verdicts

-----------------------------------------------------------------------------
(* The steps that take notifications out of the line *)

LEMMA FlushSendDelivers ==
    ASSUME TypeOK, Safe, FlushSend
    PROVE  Toasts!ShowNext
<1>0. Head(to_send) \in Call
  <2>1. to_send \in Seq(Call) /\ to_send # <<>>
    BY DEF FlushSend, TypeOK
  <2>2. QED  BY <2>1
<1> SUFFICES ASSUME NEW c \in Call, c = Head(to_send)
             PROVE  Toasts!ShowNext
  BY <1>0
<1>1. /\ to_send' = Tail(to_send) /\ UNCHANGED <<queue, pc, verdict>>
      /\ to_send # <<>> /\ to_send \in Seq(Call) /\ queue \in Seq(Call)
  BY DEF FlushSend, callVars, TypeOK
<1>2. c \in Range(to_send) /\ c \notin Range(to_send')
  BY <1>1, TailRange DEF Safe, DeferredOnce
<1>3. Waiting # <<>> /\ Head(Waiting) = c /\ Waiting' = Tail(Waiting)
  BY <1>1 DEF Waiting
<1>4. \A d \in Call : (Shown(d))' <=> Shown(d) \/ d = c
  BY FlushVisible
<1>5. ASSUME NEW d \in Call \ {c}  PROVE d \in Deferred' <=> d \in Deferred
  <2>1. d \in Range(to_send) <=> d \in Range(Tail(to_send))
    <3>1. /\ DOMAIN to_send = 1..Len(to_send) /\ Len(to_send) \in Nat \ {0}
          /\ DOMAIN Tail(to_send) = 1..(Len(to_send) - 1)
          /\ \A i \in 1..(Len(to_send) - 1) : Tail(to_send)[i] = to_send[i + 1]
          /\ d # to_send[1]
      BY <1>1
    <3>2. ASSUME NEW i \in 1..Len(to_send), to_send[i] = d
          PROVE  \E j \in 1..(Len(to_send) - 1) : Tail(to_send)[j] = d
      <4>1. i - 1 \in 1..(Len(to_send) - 1) /\ (i - 1) + 1 = i
        BY <3>1, <3>2
      <4>2. QED  BY <3>1, <3>2, <4>1
    <3>3. ASSUME NEW i \in 1..(Len(to_send) - 1), Tail(to_send)[i] = d
          PROVE  \E j \in 1..Len(to_send) : to_send[j] = d
      <4>1. i + 1 \in 1..Len(to_send)
        BY <3>1
      <4>2. QED  BY <3>1, <3>3, <4>1
    <3>4. QED  BY <3>1, <3>2, <3>3 DEF Range
  <2>2. QED  BY <1>1, <2>1 DEF Deferred
<1>6. \A d \in Call \ {c} : Fate(d)' = Fate(d)
  BY <1>1, <1>4, <1>5, SameFate
<1>7. Fate(c)' = "shown"
  BY <1>2, <1>4 DEF Fate
<1>8. [d \in Call |-> Fate(d)]' = [[d \in Call |-> Fate(d)] EXCEPT ![c] = "shown"]
  BY <1>6, <1>7, OneFate
<1>9. QED  BY <1>3, <1>8 DEF Toasts!ShowNext

\* A call that is deferred has acted, and its verdict was Queue.
LEMMA DeferredFate ==
    ASSUME TypeOK, Safe, NEW c \in Call, c \in Deferred
    PROVE  ~Shown(c) /\ pc[c] \in {"done", "lost"} /\ verdict[c] = "Queue"
<1>1. ~Shown(c) /\ verdict[c] = "Queue"
  BY DEF Safe, DeferredOnce, VerdictObeyed
<1>2. pc[c] \in {"done", "lost"}
  BY DEF Safe, Progress, NotActed, Undecided, TypeOK, InFlight
<1>3. QED  BY <1>1, <1>2

\* The queue is the line, the batch its first FlushLimit, and the rest is lost.
LEMMA DrainQueueDelivers ==
    ASSUME TypeOK, Safe, DrainQueue
    PROVE  Toasts!Next \/ UNCHANGED Toasts!vars
<1>1. /\ to_send' = Batch(queue) /\ queue' = <<>> /\ UNCHANGED <<pc, verdict, events>>
      /\ to_send = <<>> /\ queue \in Seq(Call)
  BY DEF DrainQueue, AfterDrain, callVars, TypeOK
<1>2. Batch(queue) \in Seq(Call)
  BY <1>1, BatchType
<1>3. Waiting = queue /\ Waiting' = Batch(queue)
  BY <1>1, <1>2 DEF Waiting
<1>4. \A c \in Call : (Shown(c))' <=> Shown(c)
  BY <1>1 DEF Shown, Added
<1>5. Deferred = Range(queue) /\ Deferred' = Range(Batch(queue))
  BY <1>1 DEF Deferred, Range
<1>6. CASE Len(queue) <= FlushLimit
  <2>1. Batch(queue) = queue
    BY <1>1, <1>6, FlushLimitAssumption DEF Batch, Least
  <2>2. Deferred' = Deferred
    BY <1>5, <2>1
  <2>3. \A c \in Call : Fate(c)' = Fate(c)
    BY <1>1, <1>4, <2>2, SameFate
  <2>4. QED  BY <1>3, <2>1, <2>3 DEF Toasts!vars
<1>7. CASE Len(queue) > FlushLimit
  <2>1. /\ Batch(queue) = SubSeq(queue, 1, FlushLimit)
        /\ DOMAIN queue = 1..Len(queue)
        /\ DOMAIN Batch(queue) = 1..FlushLimit
        /\ \A i \in 1..FlushLimit : Batch(queue)[i] = queue[i]
        /\ FlushLimit \in Nat /\ Len(queue) \in Nat
    BY <1>1, <1>7, FlushLimitAssumption DEF Batch, Least
  <2>2. \A i, j \in DOMAIN queue : queue[i] = queue[j] => i = j
    BY DEF Safe, DeferredOnce
  <2>3. ASSUME NEW c \in Call
        PROVE  Fate(c)' = IF \E i \in (FlushLimit + 1)..Len(queue) : queue[i] = c
                          THEN "lost" ELSE Fate(c)
    <3>1. CASE \E i \in (FlushLimit + 1)..Len(queue) : queue[i] = c
      <4>1. PICK i \in (FlushLimit + 1)..Len(queue) : queue[i] = c
        BY <3>1
      <4>2. i \in DOMAIN queue /\ i \notin 1..FlushLimit
        BY <2>1, <4>1
      <4>3. c \in Deferred
        BY <1>5, <4>1, <4>2 DEF Range
      <4>4. \A j \in 1..FlushLimit : j \in DOMAIN queue
        BY <1>7, <2>1
      <4>5. c \notin Deferred'
        BY <1>5, <2>1, <2>2, <4>1, <4>2, <4>4 DEF Range
      <4>6. /\ ~(Shown(c))' /\ pc'[c] \in {"done", "lost"} /\ verdict'[c] = "Queue"
        BY <1>1, <1>4, <4>3, DeferredFate
      <4>7. Fate(c)' = "lost"
        BY <4>5, <4>6 DEF Fate
      <4>8. QED  BY <3>1, <4>7
    <3>2. CASE ~\E i \in (FlushLimit + 1)..Len(queue) : queue[i] = c
      <4>1. \A i \in 1..Len(queue) : queue[i] = c => i \in 1..FlushLimit
        BY <2>1, <3>2
      <4>2. 1..FlushLimit \subseteq 1..Len(queue)
        BY <1>7, <2>1
      <4>3. c \in Range(queue) <=> c \in Range(Batch(queue))
        BY <2>1, <4>1, <4>2 DEF Range
      <4>4. Fate(c)' = Fate(c)
        BY <1>1, <1>4, <1>5, <4>3, SameFate
      <4>5. QED  BY <3>2, <4>4
    <3>3. QED  BY <3>1, <3>2
  <2>4. [c \in Call |-> Fate(c)]' =
            [c \in Call |-> IF \E i \in (FlushLimit + 1)..Len(queue) : queue[i] = c
                            THEN "lost" ELSE [d \in Call |-> Fate(d)][c]]
    BY <2>3
  <2>5. Toasts!GiveUp
    BY <1>3, <1>7, <2>1, <2>4 DEF Toasts!GiveUp
  <2>6. QED  BY <2>5 DEF Toasts!Next
<1>8. QED  BY <1>1, <1>6, <1>7, FlushLimitAssumption

\* What was not settled is lost; a call that never reached the daemon is not.
LEMMA RestartDelivers ==
    ASSUME TypeOK, Safe, Judged, NEW new \in Configs, Restart(new)
    PROVE  Toasts!Next
<1> DEFINE arrived == {c \in Call : pc[c] \in {"limit", "decide"}}
<1>1. /\ pc' = [c \in Call |-> IF pc[c] \in InFlight THEN "lost" ELSE pc[c]]
      /\ to_send' = <<>> /\ queue' = <<>> /\ UNCHANGED <<verdict, events>>
  BY DEF Restart
<1>2. Waiting' = <<>> /\ Deferred' = {}
  BY <1>1 DEF Waiting, Deferred, Range
<1>3. \A c \in Call : (Shown(c))' <=> Shown(c)
  BY <1>1 DEF Shown, Added
<1>4. ASSUME NEW c \in arrived  PROVE Fate(c) = "open"
  <2>1. ~Shown(c) /\ c \notin Deferred
    BY DEF Safe, Progress, NotActed, Undecided
  <2>2. QED  BY <2>1 DEF Fate
<1>5. ASSUME NEW c \in Call
      PROVE  Fate(c)' = IF c \in arrived \/ Fate(c) \in {"admitted", "deferring", "deferred"}
                        THEN "lost" ELSE Fate(c)
  <2>1. CASE Shown(c)
    <3>1. pc[c] \notin {"limit", "decide"}
      BY <2>1 DEF Safe, Progress, NotActed, Undecided
    <3>2. QED  BY <1>3, <2>1, <3>1 DEF Fate
  <2>2. CASE c \in Deferred
    <3>1. ~Shown(c) /\ pc[c] \in {"done", "lost"} /\ verdict[c] = "Queue"
      BY <2>2, DeferredFate
    <3>2. Fate(c) = "deferred"
      BY <2>2, <3>1 DEF Fate
    <3>3. pc'[c] \in {"done", "lost"}
      BY <1>1, <3>1 DEF InFlight
    <3>4. Fate(c)' = "lost"
      BY <1>1, <1>2, <1>3, <3>1, <3>3 DEF Fate
    <3>5. QED  BY <3>2, <3>4
  <2>3. CASE ~Shown(c) /\ c \notin Deferred /\ pc[c] \in {"limit", "decide"}
    <3>1. verdict[c] = "none" /\ pc'[c] = "lost"
      BY <1>1, <2>3 DEF Judged, Undecided, InFlight
    <3>2. QED  BY <1>1, <1>2, <1>3, <2>3, <3>1 DEF Fate
  <2>4. CASE ~Shown(c) /\ c \notin Deferred /\ pc[c] \in {"store", "act"}
    <3>1. verdict[c] \in Verdicts /\ pc'[c] = "lost"
      BY <1>1, <2>4 DEF Judged, InFlight
    <3>2. QED  BY <1>1, <1>2, <1>3, <2>4, <3>1 DEF Fate, Verdicts
  <2>5. CASE ~Shown(c) /\ c \notin Deferred /\ pc[c] \in {"unsent", "refused", "done", "lost"}
    <3>1. pc'[c] = pc[c]
      BY <1>1, <2>5 DEF InFlight
    <3>2. QED  BY <1>1, <1>2, <1>3, <2>5, <3>1 DEF Fate
  <2>6. QED  BY <2>1, <2>2, <2>3, <2>4, <2>5 DEF TypeOK, InFlight
<1> HIDE DEF arrived
<1>6. arrived \subseteq Call
  BY DEF arrived
<1>7. [c \in Call |-> Fate(c)]' =
          [c \in Call |-> IF c \in arrived \/ [d \in Call |-> Fate(d)][c]
                                                \in {"admitted", "deferring", "deferred"}
                          THEN "lost" ELSE [d \in Call |-> Fate(d)][c]]
  BY <1>5
<1>8. \A c \in arrived : [d \in Call |-> Fate(d)][c] = "open"
  BY <1>4, <1>6
<1>9. Toasts!Crash(arrived)
  BY <1>2, <1>7, <1>8 DEF Toasts!Crash
<1>10. QED  BY <1>6, <1>9 DEF Toasts!Next

-----------------------------------------------------------------------------
(* The refinement *)

LEMMA InitDelivers == Init => Toasts!Init
<1> SUFFICES ASSUME Init PROVE Toasts!Init
  OBVIOUS
<1>1. /\ events = <<>> /\ queue = <<>> /\ to_send = <<>>
      /\ \A c \in Call : pc[c] = "unsent"
  BY DEF Init
<1>2. Waiting = <<>> /\ Range(events) = {} /\ Deferred = {}
  BY <1>1 DEF Waiting, Deferred, Range
<1>3. \A c \in Call : Fate(c) = "open"
  BY <1>1, <1>2 DEF Fate, Shown
<1>4. QED  BY <1>2, <1>3 DEF Toasts!Init

LEMMA NextDelivers ==
    ASSUME TypeOK, Safe, Judged, [Next]_vars
    PROVE  Toasts!Next \/ UNCHANGED Toasts!vars
<1> USE DEF callVars, busVars
<1>1. ASSUME NEW c \in Call, NEW r \in Requests, Notify(c, r)
      PROVE  UNCHANGED Toasts!vars
  <2>1. /\ pc[c] = "unsent" /\ pc' = [pc EXCEPT ![c] = "limit"]
        /\ UNCHANGED <<verdict, events, queue, to_send>>
    BY <1>1 DEF Notify
  <2>2. \A d \in Call : (Shown(d))' <=> Shown(d)
    BY <2>1 DEF Shown, Added
  <2>3. \A d \in Call : \/ pc'[d] = pc[d] /\ verdict'[d] = verdict[d]
                        \/ pc[d] \in Open /\ pc'[d] \in Open
    BY <2>1 DEF TypeOK, Open
  <2>4. QED  BY <2>1, <2>2, <2>3, QuietFate
<1>2. ASSUME NEW c \in Call, Store(c)
      PROVE  UNCHANGED Toasts!vars
  <2>1. /\ pc[c] = "store" /\ pc' = [pc EXCEPT ![c] = "act"]
        /\ UNCHANGED <<verdict, events, queue, to_send>>
    BY <1>2 DEF Store
  <2>2. \A d \in Call : (Shown(d))' <=> Shown(d)
    BY <2>1 DEF Shown, Added
  <2>3. \A d \in Call : /\ verdict'[d] = verdict[d]
                        /\ \/ pc'[d] = pc[d]
                           \/ pc[d] \in {"store", "act"} /\ pc'[d] \in {"store", "act"}
    BY <2>1 DEF TypeOK
  <2>4. QED  BY <2>1, <2>2, <2>3, QuietFate
<1>3. ASSUME NEW c \in Call, HandleNotify(c)
      PROVE  Toasts!Next \/ UNCHANGED Toasts!vars
  BY <1>2, <1>3, RateLimitDelivers, DecideDelivers, ActDelivers DEF HandleNotify
<1>4. ASSUME NEW k \in Close, HandleClose(k)
      PROVE  UNCHANGED Toasts!vars
  <2>1. UNCHANGED <<pc, verdict, queue, to_send>>
    BY <1>4 DEF HandleClose, CloseBroadcast, CloseSignal
  <2>2. \A d \in Call : (Shown(d))' <=> Shown(d)
    <3>1. CASE CloseBroadcast(k)
      BY <3>1, CloseVisible
    <3>2. CASE CloseSignal(k)
      BY <3>2 DEF CloseSignal, Shown, Added
    <3>3. QED  BY <1>4, <3>1, <3>2 DEF HandleClose
  <2>3. QED  BY <2>1, <2>2, QuietFate
<1>5. CASE Flush
  <2>1. CASE DrainQueue
    BY <2>1, DrainQueueDelivers
  <2>2. CASE FlushSend
    BY <2>2, FlushSendDelivers DEF Toasts!Next
  <2>3. QED  BY <1>5, <2>1, <2>2 DEF Flush
<1>6. ASSUME NEW new \in Configs, Restart(new)
      PROVE  Toasts!Next
  BY <1>6, RestartDelivers
<1>7. ASSUME UNCHANGED <<pc, verdict, events, queue, to_send>>
      PROVE  UNCHANGED Toasts!vars
  <2>1. \A d \in Call : (Shown(d))' <=> Shown(d)
    BY <1>7 DEF Shown, Added
  <2>2. QED  BY <1>7, <2>1, QuietFate
<1>8. ASSUME \/ \E k \in Close, id \in CloseIds : CloseDismiss(k, id)
             \/ \E active \in BOOLEAN : SetFullscreen(active)
             \/ \E apps \in FocusLists : ActivateFocus(apps)
             \/ DeactivateFocus
             \/ \E new \in Configs : ReloadConfig(new)
      PROVE  UNCHANGED <<pc, verdict, events, queue, to_send>>
  BY <1>8 DEF CloseDismiss, SetFullscreen, ActivateFocus, DeactivateFocus, ReloadConfig
<1>9. ASSUME \/ CleanupStart
             \/ \E cutoff \in 0..(clock + 1) : CleanupAge(cutoff)
             \/ CleanupCount
             \/ CleanupFail
             \/ UNCHANGED vars
      PROVE  UNCHANGED <<pc, verdict, events, queue, to_send>>
  BY <1>9 DEF CleanupStart, CleanupAge, CleanupCount, CleanupFail, vars
<1>10. QED
  BY <1>1, <1>3, <1>4, <1>5, <1>6, <1>7, <1>8, <1>9 DEF Next

\* Whatever the calls, the faults and the restarts, the manager implements
\* ToastDelivery: every fate is settled once, deferred notifications are shown
\* in the order they were deferred, and only those beyond FlushLimit are given
\* up by a flush.
THEOREM ManagerDeliversToasts == Spec => DeliversToasts
<1>1. TypeOK /\ Safe /\ Judged /\ [Next]_vars => [Toasts!Next]_(Toasts!vars)
  BY NextDelivers
<1>2. QED  BY <1>1, InitDelivers, ManagerTypeOK, ManagerSafe, ManagerJudged, PTL
           DEF Spec, DeliversToasts, Toasts!Spec
=============================================================================
