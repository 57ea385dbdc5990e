-------------------------- MODULE SocketServerProofs --------------------------
(***************************************************************************)
(* Theorems about the socket server, for any number of clients and         *)
(* notifications, any capacity of channel and buffers, and any interleaving *)
(* of the broadcast task, the handlers, the manager and the clients.       *)
(***************************************************************************)
EXTENDS SocketServer, FiniteSetTheorems, WellFoundedInduction, TLAPS

Message == Event \cup Response

-----------------------------------------------------------------------------
(* The invariants *)

\* The handler of c and what it holds.
HandlerEvent == {e \in Event : e.kind \in {"Closed", "Read", "DndChanged"}}
HandlerWired(c) ==
    /\ handler[c].pc \in {"idle", "ended", "mode", "clear"} => handler[c].msg = NoMsg
    /\ handler[c].pc = "respond" => handler[c].msg \in Response
    /\ handler[c].pc = "send" => handler[c].msg \in HandlerEvent

\* A connection that has not been accepted has received nothing, and an open one is
\* registered.
ConnWired(c) ==
    /\ conn[c] \in {"away", "waiting"} =>
           /\ \A i \in DOMAIN writers : writers[i] # c
           /\ handler[c] = EndedHandler /\ inbox[c] = <<>> /\ view[c] = EmptyView
           /\ got[c] = <<>>
    /\ conn[c] = "open" => \E i \in DOMAIN writers : writers[i] = c

\* The dead are found in increasing order, so that each gains on its index.
Increasing(d, n) ==
    \A i \in DOMAIN d :
        /\ d[i] \in i..n
        /\ \A j \in DOMAIN d : i < j => d[j] - d[i] >= j - i

\* What the broadcast task takes for dead are connections that are closed.
DeadWired ==
    /\ task.next <= Len(writers) + 1
    /\ Increasing(task.dead, task.next - 1)
    /\ \A i \in DOMAIN task.dead : conn[writers[task.dead[i]]] = "closed"

TaskWired ==
    /\ task.pc \in {"lock", "write"} => task.event \in Event /\ ~TooLarge(task.event)
    /\ task.pc # "write" => task.next = 1 /\ task.dead = <<>>
    /\ task.next >= 1
    /\ overrun => channel # <<>>

Wired ==
    /\ \A c \in Client : HandlerWired(c) /\ ConnWired(c)
    /\ DeadWired
    /\ TaskWired

\* Only while this holds can everybody still be told of what is sent.
Live == task.pc # "ended" /\ ~overrun

\* A topic is a set of messages, those that say something about one thing; right are
\* those of them that say how it is now.
Mentions(s, topic) == \E i \in DOMAIN s : s[i] \in topic
EndsWell(s, topic, right) ==
    \A i \in DOMAIN s :
        s[i] \in topic /\ (\A j \in DOMAIN s : j > i => s[j] \notin topic) => s[i] \in right

\* An event about the topic is on its way to the buffer of c.
Coming(c, topic) ==
    \/ Mentions(channel, topic)
    \/ task.pc = "lock" /\ task.event \in topic
    \/ /\ task.pc = "write" /\ task.event \in topic
       /\ \E i \in DOMAIN writers : i >= task.next /\ writers[i] = c

\* The last that has been sent is right, ...
Fed(topic, right) ==
    /\ EndsWell(channel, topic, right)
    /\ /\ ~Mentions(channel, topic)
       /\ task.pc \in {"lock", "write"}
       /\ task.event \in topic
       => task.event \in right

\* ... so is the snapshot that the handler of c holds, when nothing else is coming, ...
Snapshot(c) == IF handler[c].pc = "mode" THEN Sync(handler[c].rows, handler[c].seen, dnd_mode)
               ELSE handler[c].msg
Held(c, topic, right) == HoldsRows(c) /\ ~Coming(c, topic) => Snapshot(c) \in right

\* ... and what c has received or, with nothing in its buffer, what it shows.
AsSync(v) == Sync(v.shown, v.read, v.mode)
Told(c, topic, right) ==
    ~Coming(c, topic) =>
        /\ EndsWell(inbox[c], topic, right)
        /\ view[c].synced /\ ~Mentions(inbox[c], topic) => AsSync(view[c]) \in right

\* The topics: whether n is shown, whether it is marked as read, and the mode.
RowTopic(n) == {m \in Message : \/ m.kind \in {"Sync", "AllCleared"}
                                \/ m.kind \in {"Added", "Closed"} /\ m.note = n}
ReadTopic(n) == {m \in Message : \/ m.kind = "Sync"
                                 \/ m.kind \in {"Added", "Read"} /\ m.note = n}
ModeTopic == {m \in Message : m.kind \in {"Sync", "DndChanged"}}

Shows(m, n) == m.kind = "Added" \/ (m.kind = "Sync" /\ n \in m.rows)
Marks(m, n) == m.kind = "Read" \/ (m.kind = "Sync" /\ n \in m.seen)

RowRightOf(n, pending, sent) == {m \in RowTopic(n) : /\ Shows(m, n) => pending
                                                     /\ pending /\ sent => Shows(m, n)}
ReadRightOf(n, gone, seen) == {m \in ReadTopic(n) : ~gone => (Marks(m, n) <=> seen)}
ModeRightOf(mode) == {m \in ModeTopic : m.mode = mode}

RowRight(n) == RowRightOf(n, n \in Pending, arrival[n] = "sent")
ReadRight(n) == ReadRightOf(n, n \in dismissed, n \in read)
ModeRight == ModeRightOf(dnd_mode)

\* Senders that have changed the table, or the mode, and not yet said so.
Holds(c, kind, n) == handler[c].pc = "send" /\ handler[c].msg = NoteEvent(kind, n)
Closing(n) == closing[n] = "send" \/ \E c \in Client : Holds(c, "Closed", n)
Erasing(n) == Closing(n) \/ \E c \in Client : handler[c].pc = "clear"
Reading(n) == \E c \in Client : Holds(c, "Read", n)
Setting == \E c \in Client : handler[c].msg.kind = "DndChanged"

\* How the table and the events about n hang together.
RowTruth(n) ==
    n \notin disputed =>
        /\ n \in stored <=> arrival[n] # "new"
        /\ arrival[n] \in {"new", "stored"} => n \notin dismissed /\ n \notin read
        /\ Closing(n) => n \in dismissed
        /\ Reading(n) => n \in read
ModeTruth ==
    ~mode_disputed =>
        \A c \in Client : handler[c].msg.kind = "DndChanged" => handler[c].msg.mode = dnd_mode

\* What is being said about the topic is right, for all who can be right about it.
AgreedOn(c, n, topic, right) ==
    /\ n \notin overtaken[c] => Held(c, topic, right)
    /\ n \notin missed[c] => Told(c, topic, right)
Agreed(n, topic, right) ==
    /\ Fed(topic, right)
    /\ \A c \in Client : conn[c] = "open" => AgreedOn(c, n, topic, right)

RowAgreed(n) ==
    Live /\ n \notin disputed \cup Big /\ ~Erasing(n) => Agreed(n, RowTopic(n), RowRight(n))
ReadAgreed(n) ==
    Live /\ n \notin disputed \cup Big /\ ~Reading(n) => Agreed(n, ReadTopic(n), ReadRight(n))

\* No client misses the mode.
NoNote == CHOOSE n : n \notin Note
ModeAgreed ==
    Live /\ ~mode_disputed /\ ~Setting => Agreed(NoNote, ModeTopic, ModeRight)

\* Of the log, forwarded events are behind, then comes the one in hand, then what
\* the channel holds: f numbers the events of a channel that are not too large, first
\* being the number of those before.
Numbers(f, ch, events, first) ==
    /\ f[0] = first /\ f[Len(ch)] = Len(events)
    /\ \A i \in DOMAIN ch :
          IF TooLarge(ch[i]) THEN f[i] = f[i - 1]
          ELSE f[i] = f[i - 1] + 1 /\ events[f[i]] = ch[i]
InHand == IF task.pc \in {"lock", "write"} THEN 1 ELSE 0
Logged ==
    IF ~Recording
    THEN log = <<>> /\ forwarded = 0 /\ \A c \in Client : got[c] = <<>> /\ start[c] = 0
    ELSE /\ InHand = 1 => forwarded < Len(log) /\ log[forwarded + 1] = task.event
         /\ Live => \E f \in [0..Len(channel) -> 0..Len(log)] :
                        Numbers(f, channel, log, forwarded + InHand)

\* Every open client has got all that has been forwarded to it.
Followed ==
    Recording =>
        \A c \in Client : conn[c] = "open" =>
            \A i \in DOMAIN writers : writers[i] = c =>
                start[c] + Len(got[c]) =
                    forwarded + (IF task.pc = "write" /\ i < task.next THEN 1 ELSE 0)

-----------------------------------------------------------------------------
(* The writers that survive *)

\* Every set of naturals that is not empty has a least element.
LEMMA LeastNatural ==
    ASSUME NEW S \in SUBSET Nat, S # {}
    PROVE  \E x \in S : \A y \in S : x <= y
<1>1. PICK x \in S : \A y \in S : ~(<<y, x>> \in OpToRel(<, Nat))
  BY WFMin, NatLessThanWellFounded
<1>2. \A y \in S : ~(y < x)
  BY <1>1 DEF OpToRel
<1>3. QED  BY <1>2

\* Of an increasing sequence, the places that satisfy an upper bound are a first part.
LEMMA FirstPart ==
    ASSUME NEW m \in Nat, NEW S \in SUBSET (1..m),
           \A i, j \in 1..m : i < j /\ j \in S => i \in S
    PROVE  \E j \in 0..m : S = 1..j
<1> DEFINE Out == {i \in 1..(m + 1) : i \notin S}
<1>1. Out \in SUBSET Nat /\ m + 1 \in Out
  OBVIOUS
<1>2. PICK x \in Out : \A y \in Out : x <= y
  <2> HIDE DEF Out
  <2> QED  BY <1>1, LeastNatural
<1>3. x \in 1..(m + 1) /\ x \notin S
  OBVIOUS
<1>4. ASSUME NEW i \in 1..m  PROVE i \in S <=> i \in 1..(x - 1)
  <2>1. CASE i < x
    <3>1. i \in S
      BY <1>2, <2>1
    <3>2. QED  BY <1>3, <2>1, <3>1
  <2>2. CASE i = x
    BY <1>3, <2>2
  <2>3. CASE i > x
    BY <1>3, <2>3
  <2>4. QED  BY <1>3, <2>1, <2>2, <2>3
<1>5. S = 1..(x - 1)
  <2>1. \A i : i \in 1..(x - 1) => i \in 1..m
    BY <1>3
  <2>2. QED  BY <1>4, <2>1
<1>6. QED  BY <1>3, <1>5

LEMMA CountBefore ==
    ASSUME NEW m \in Nat, NEW g \in [1..m -> Int], NEW k \in Int,
           \A i, j \in 1..m : i < j => g[i] <= g[j]
    PROVE  \E j \in 0..m :
              /\ Cardinality({i \in 1..m : g[i] < k}) = j
              /\ \A i \in 1..m : g[i] < k <=> i <= j
<1> DEFINE S == {i \in 1..m : g[i] < k}
<1>1. \A i, j \in 1..m : i < j /\ j \in S => i \in S
  OBVIOUS
<1>2. PICK j \in 0..m : S = 1..j
  BY <1>1, FirstPart
<1>3. Cardinality(1..j) = j
  BY FS_Interval
<1>4. Cardinality(S) = j
  BY <1>2, <1>3
<1>5. \A i \in 1..m : g[i] < k <=> i <= j
  <2>1. \A i \in 1..m : i \in S <=> i <= j
    BY <1>2
  <2>2. QED  BY <2>1
<1>6. QED  BY <1>4, <1>5

\* One that comes last keeps them increasing.
LEMMA LastIncreasing ==
    ASSUME NEW m \in Nat, NEW n \in Nat \ {0}, NEW d \in [1..m -> Nat],
           NEW e \in [1..(m + 1) -> Nat], Increasing(d, n - 1),
           e[m + 1] = n, \A i \in 1..m : e[i] = d[i]
    PROVE  Increasing(e, n)
<1>1. ASSUME NEW i \in 1..m, NEW j \in 1..m, i < j  PROVE d[j] - d[i] >= j - i
  BY <1>1 DEF Increasing
<1>2. ASSUME NEW i \in 1..m  PROVE d[i] \in i..(n - 1)
  BY <1>2 DEF Increasing
<1>3. ASSUME NEW i \in 1..m  PROVE n - d[i] >= m + 1 - i
  <2>1. m \in 1..m
    OBVIOUS
  <2>2. d[m] \in Int /\ d[m] <= n - 1 /\ d[i] \in Int /\ d[i] <= n - 1
    BY <1>2, <2>1
  <2>3. CASE i = m
    BY <2>2, <2>3
  <2>4. CASE i < m
    <3>1. d[m] - d[i] >= m - i
      BY <1>1, <2>1, <2>4
    <3>2. QED  BY <2>2, <3>1
  <2>5. QED  BY <2>3, <2>4
<1>4. m + 1 <= n
  <2>1. CASE m = 0
    BY <2>1
  <2>2. CASE m > 0
    <3>1. d[m] \in m..(n - 1)
      BY <1>2, <2>2
    <3>2. QED  BY <3>1
  <2>3. QED  BY <2>1, <2>2
<1>5. ASSUME NEW i \in 1..(m + 1)  PROVE e[i] \in i..n
  <2>1. CASE i = m + 1
    BY <1>4, <2>1
  <2>2. CASE i \in 1..m
    <3>1. d[i] \in i..(n - 1) /\ e[i] = d[i]
      BY <1>2, <2>2
    <3>2. QED  BY <3>1
  <2>3. QED  BY <2>1, <2>2
<1>6. ASSUME NEW i \in 1..m, NEW j \in 1..(m + 1), i < j  PROVE e[j] - e[i] >= j - i
  <2>1. CASE j = m + 1
    <3>1. n - d[i] >= m + 1 - i
      BY <1>3
    <3>2. QED  BY <2>1, <3>1
  <2>2. CASE j \in 1..m
    BY <1>1, <1>6, <2>2
  <2>3. QED  BY <2>1, <2>2
<1>7. \A i, j \in 1..(m + 1) : i < j => i \in 1..m
  OBVIOUS
<1>8. QED  BY <1>5, <1>6, <1>7 DEF Increasing

LEMMA SeqLength ==
    ASSUME NEW S, NEW s \in Seq(S), NEW l, Len(s) = l
    PROVE  s \in [1..l -> S]
OBVIOUS

LEMMA AppendIncreasing ==
    ASSUME NEW d \in Seq(Nat), NEW n \in Nat \ {0}, Increasing(d, n - 1)
    PROVE  Increasing(Append(d, n), n)
<1>1. /\ Len(d) \in Nat /\ d \in [1..Len(d) -> Nat]
      /\ Append(d, n)[Len(d) + 1] = n
      /\ \A i \in 1..Len(d) : Append(d, n)[i] = d[i]
  OBVIOUS
<1>2. Append(d, n) \in Seq(Nat) /\ Len(Append(d, n)) = Len(d) + 1
  OBVIOUS
<1>3. Append(d, n) \in [1..(Len(d) + 1) -> Nat]
  BY <1>2, SeqLength
<1>4. QED  BY <1>1, <1>3, LastIncreasing

\* Where the k-th survivor was.
Place(d, k) == k + Cardinality({i \in DOMAIN d : d[i] - i < k})

LEMMA PlaceIs ==
    ASSUME NEW m \in Nat, NEW d \in [1..m -> Nat], NEW n \in Nat, Increasing(d, n), NEW k \in Int
    PROVE  \E j \in 0..m :
              /\ Place(d, k) = k + j
              /\ \A i \in DOMAIN d : d[i] - i < k <=> i <= j
<1> DEFINE g == [i \in 1..m |-> d[i] - i]
<1>1. g \in [1..m -> Int]
  OBVIOUS
<1>2. \A i, j \in 1..m : i < j => g[i] <= g[j]
  <2> SUFFICES ASSUME NEW i \in 1..m, NEW j \in 1..m, i < j
               PROVE  g[i] <= g[j]
    OBVIOUS
  <2>1. d[j] - d[i] >= j - i /\ d[i] \in Nat /\ d[j] \in Nat
    <3>1. i \in DOMAIN d /\ j \in DOMAIN d
      OBVIOUS
    <3>2. QED  BY <3>1 DEF Increasing
  <2>2. QED  BY <2>1
<1>3. {i \in DOMAIN d : d[i] - i < k} = {i \in 1..m : g[i] < k}
  OBVIOUS
<1>4. PICK j \in 0..m :
          /\ Cardinality({i \in 1..m : g[i] < k}) = j
          /\ \A i \in 1..m : g[i] < k <=> i <= j
  <2> HIDE DEF g
  <2> QED  BY <1>1, <1>2, CountBefore
<1>5. QED  BY <1>3, <1>4 DEF Place

LEMMA FewDead ==
    ASSUME NEW m \in Nat, NEW d \in [1..m -> Nat], NEW n \in Nat, Increasing(d, n)
    PROVE  m <= n
<1>1. CASE d = <<>>
  BY <1>1
<1>2. CASE d # <<>>
  <2>1. m \in DOMAIN d
    BY <1>2
  <2>2. QED  BY <2>1 DEF Increasing
<1>3. QED  BY <1>1, <1>2

\* A place is not one of a dead, ...
LEMMA PlaceAlive ==
    ASSUME NEW m \in Nat, NEW d \in [1..m -> Nat], NEW n \in Nat, Increasing(d, n),
           NEW k \in 1..(n - m)
    PROVE  Place(d, k) \in k..n /\ \A i \in DOMAIN d : Place(d, k) # d[i]
<1>0. k \in Int
  OBVIOUS
<1>1. PICK j \in 0..m : /\ Place(d, k) = k + j
                       /\ \A i \in DOMAIN d : d[i] - i < k <=> i <= j
  BY <1>0, PlaceIs
<1>2. m <= n
  BY FewDead
<1>3. ASSUME NEW i \in DOMAIN d, d[i] = k + j  PROVE FALSE
  <2>1. CASE i <= j
    BY <1>1, <1>3, <2>1
  <2>2. CASE i > j
    <3>1. i \in Nat /\ j \in Nat /\ d[i] - i >= k
      BY <1>1, <2>2
    <3>2. QED  BY <1>3, <2>2, <3>1
  <2>3. QED  BY <2>1, <2>2
<1>4. QED  BY <1>1, <1>2, <1>3

\* ... places are in order, ...
LEMMA PlacesAscend ==
    ASSUME NEW m \in Nat, NEW d \in [1..m -> Nat], NEW n \in Nat, Increasing(d, n),
           NEW k \in Int, NEW l \in Int, k < l
    PROVE  Place(d, k) < Place(d, l)
<1>1. PICK j \in 0..m : /\ Place(d, k) = k + j
                             /\ \A i \in DOMAIN d : d[i] - i < k <=> i <= j
  BY PlaceIs
<1>2. PICK h \in 0..m : /\ Place(d, l) = l + h
                             /\ \A i \in DOMAIN d : d[i] - i < l <=> i <= h
  BY PlaceIs
<1>3. j <= h
  <2>1. CASE j = 0
    BY <2>1
  <2>2. CASE j > 0
    <3>1. j \in DOMAIN d /\ d[j] \in Nat
      BY <2>2
    <3>2. d[j] - j < k
      BY <1>1, <3>1
    <3>3. d[j] - j < l
      BY <3>1, <3>2
    <3>4. QED  BY <1>2, <3>1, <3>3
  <2>3. QED  BY <2>1, <2>2
<1>4. QED  BY <1>1, <1>2, <1>3

\* ... and there is one for every other position.
LEMMA EveryPlace ==
    ASSUME NEW m \in Nat, NEW d \in [1..m -> Nat], NEW n \in Nat, Increasing(d, n),
           NEW p \in 1..n, \A i \in DOMAIN d : p # d[i]
    PROVE  \E k \in 1..(n - m) : Place(d, k) = p
<1> DEFINE S == {i \in 1..m : d[i] < p}
<1>1. \A i, j \in 1..m : i < j /\ j \in S => i \in S
  <2> SUFFICES ASSUME NEW i \in 1..m, NEW j \in 1..m, i < j, d[j] < p
               PROVE  d[i] < p
    OBVIOUS
  <2>1. d[j] - d[i] >= j - i /\ d[i] \in Nat /\ d[j] \in Nat
    BY DEF Increasing
  <2>2. QED  BY <2>1
<1>2. PICK j \in 0..m : S = 1..j
  <2> HIDE DEF S
  <2>1. S \in SUBSET (1..m)
    BY DEF S
  <2>2. QED  BY <1>1, <2>1, FirstPart
<1>3. \A i \in DOMAIN d : d[i] < p <=> i <= j
  <2>1. \A i \in 1..m : i \in S <=> i <= j
    BY <1>2
  <2>2. QED  BY <2>1
<1>4. p - j >= 1
  <2>1. CASE j = 0
    BY <2>1
  <2>2. CASE j > 0
    <3>1. j \in DOMAIN d
      BY <2>2
    <3>2. d[j] < p /\ d[j] \in j..n
      BY <1>3, <3>1 DEF Increasing
    <3>3. QED  BY <3>1, <3>2
  <2>3. QED  BY <2>1, <2>2
<1>5. p - j <= n - m
  <2>1. CASE j = m
    BY <2>1
  <2>2. CASE j < m
    <3>1. j + 1 \in DOMAIN d /\ m \in DOMAIN d
      BY <2>2
    <3>2. d[j + 1] > p /\ d[j + 1] \in Nat
      BY <1>3, <3>1
    <3>3. d[m] \in Nat /\ d[m] <= n
      BY <3>1 DEF Increasing
    <3>4. d[m] - d[j + 1] >= m - (j + 1)
      <4>1. CASE j + 1 = m
        BY <3>2, <4>1
      <4>2. CASE j + 1 < m
        BY <3>1, <4>2 DEF Increasing
      <4>3. QED  BY <2>2, <4>1, <4>2
    <3>5. QED  BY <2>2, <3>2, <3>3, <3>4
  <2>3. QED  BY <2>1, <2>2
<1>6. \A i \in DOMAIN d : d[i] - i < p - j <=> i <= j
  <2> SUFFICES ASSUME NEW i \in DOMAIN d
               PROVE  d[i] - i < p - j <=> i <= j
    OBVIOUS
  <2>1. d[i] \in Nat /\ i \in Nat
    OBVIOUS
  <2>2. CASE i <= j
    <3>1. j \in DOMAIN d /\ d[j] \in Nat /\ d[j] < p
      BY <1>3, <2>1, <2>2
    <3>2. d[j] - d[i] >= j - i
      BY <2>1, <2>2, <3>1 DEF Increasing
    <3>3. QED  BY <2>1, <2>2, <3>1, <3>2
  <2>3. CASE i > j
    <3>1. j + 1 \in DOMAIN d /\ d[j + 1] \in Nat
      BY <2>1, <2>3
    <3>2. d[j + 1] > p
      BY <1>3, <3>1
    <3>3. d[i] - d[j + 1] >= i - (j + 1)
      <4>1. CASE i = j + 1
        BY <2>1, <3>1, <4>1
      <4>2. CASE i > j + 1
        BY <2>1, <3>1, <4>2 DEF Increasing
      <4>3. QED  BY <2>1, <2>3, <4>1, <4>2
    <3>4. QED  BY <2>1, <2>3, <3>1, <3>2, <3>3
  <2>4. QED  BY <2>1, <2>2, <2>3
<1>7. PICK h \in 0..m : /\ Place(d, p - j) = (p - j) + h
                             /\ \A i \in DOMAIN d : d[i] - i < p - j <=> i <= h
  <2>1. p - j \in Int
    OBVIOUS
  <2>2. QED  BY <2>1, PlaceIs
<1>8. h = j
  <2>1. \A i \in DOMAIN d : i <= j <=> i <= h
    BY <1>6, <1>7
  <2>2. CASE h < j
    <3>1. j \in DOMAIN d
      BY <2>2
    <3>2. QED  BY <2>1, <2>2, <3>1
  <2>3. CASE h > j
    <3>1. h \in DOMAIN d
      BY <2>3
    <3>2. QED  BY <2>1, <2>3, <3>1
  <2>4. QED  BY <2>2, <2>3
<1>9. QED  BY <1>4, <1>5, <1>7, <1>8

\* Survivors are the writers that are not dead, in their order.
LEMMA SurvivorsAre ==
    ASSUME NEW d \in Seq(Nat), writers \in Seq(Client), Increasing(d, Len(writers))
    PROVE  /\ Survivors(d) \in Seq(Client)
           /\ IsInjective(writers) => IsInjective(Survivors(d))
           /\ \A k \in DOMAIN Survivors(d) : \E p \in DOMAIN writers : Survivors(d)[k] = writers[p]
           /\ \A p \in DOMAIN writers : (\A i \in DOMAIN d : p # d[i]) =>
                  \E k \in DOMAIN Survivors(d) : Survivors(d)[k] = writers[p]
<1> DEFINE n == Len(writers)
           m == Len(d)
           ws == Survivors(d)
<1>1. /\ n \in Nat /\ m \in Nat /\ d \in [1..m -> Nat] /\ Increasing(d, n)
      /\ DOMAIN writers = 1..n
  OBVIOUS
<1>2. m <= n
  BY <1>1, FewDead
<1>3. ws = [k \in 1..(n - m) |-> writers[Place(d, k)]]
  BY DEF Survivors, Place
<1>4. \A k \in 1..(n - m) : Place(d, k) \in 1..n
  <2>1. ASSUME NEW k \in 1..(n - m)  PROVE Place(d, k) \in k..n
    BY <1>1, PlaceAlive
  <2>2. QED  BY <2>1
<1>5. ws \in Seq(Client)
  <2>1. \A k \in 1..(n - m) : writers[Place(d, k)] \in Client
    BY <1>1, <1>4
  <2>2. n - m \in Nat
    BY <1>1, <1>2
  <2>3. QED  BY <1>3, <2>1, <2>2
<1>6. DOMAIN ws = 1..(n - m)
  BY <1>3
<1>7. ASSUME IsInjective(writers)  PROVE IsInjective(ws)
  <2> SUFFICES ASSUME NEW k \in 1..(n - m), NEW l \in 1..(n - m), ws[k] = ws[l]  PROVE k = l
    BY <1>6 DEF IsInjective
  <2>1. Place(d, k) = Place(d, l)
    BY <1>1, <1>3, <1>4, <1>7 DEF IsInjective
  <2>2. Place(d, k) \in Int /\ k \in Int /\ l \in Int
    BY <1>4
  <2>3. k < l => Place(d, k) < Place(d, l)
    BY <1>1, <2>2, PlacesAscend
  <2>4. l < k => Place(d, l) < Place(d, k)
    BY <1>1, <2>2, PlacesAscend
  <2>5. QED  BY <2>1, <2>2, <2>3, <2>4
<1>8. \A k \in DOMAIN ws : \E p \in DOMAIN writers : ws[k] = writers[p]
  BY <1>1, <1>3, <1>4, <1>6
<1>9. ASSUME NEW p \in DOMAIN writers, \A i \in DOMAIN d : p # d[i]
      PROVE  \E k \in DOMAIN ws : ws[k] = writers[p]
  <2>1. PICK k \in 1..(n - m) : Place(d, k) = p
    <3>1. p \in 1..n /\ \A i \in DOMAIN d : p # d[i]
      BY <1>1, <1>9
    <3>2. m \in Nat /\ n \in Nat /\ d \in [1..m -> Nat] /\ Increasing(d, n)
      BY <1>1
    <3> HIDE DEF n, m
    <3>3. \E k \in 1..(n - m) : Place(d, k) = p
      BY <3>1, <3>2, EveryPlace, SMTT(30)
    <3>4. QED  BY <3>3
  <2>2. QED  BY <1>3, <1>6, <2>1
<1>10. QED  BY <1>5, <1>7, <1>8, <1>9

-----------------------------------------------------------------------------
(* Types *)

\* What kinds there are, and what messages of each kind are made of.
LEMMA EventKinds ==
    /\ \A e \in Event :
          /\ e.kind \in {"Added", "Closed", "Read", "ActionInvoked", "AllCleared", "DndChanged"}
          /\ e.kind \in {"Added", "Closed", "Read", "ActionInvoked"} =>
                 e.note \in Note /\ e = NoteEvent(e.kind, e.note)
          /\ e.kind = "AllCleared" => e = AllCleared
          /\ e.kind = "DndChanged" => e.mode \in DndModes /\ e = DndChanged(e.mode)
    /\ \A n \in Note : \A k \in {"Added", "Closed", "Read", "ActionInvoked"} :
          NoteEvent(k, n) \in Event /\ NoteEvent(k, n).kind = k /\ NoteEvent(k, n).note = n
    /\ AllCleared \in Event /\ AllCleared.kind = "AllCleared"
    /\ \A m \in DndModes :
          DndChanged(m) \in Event /\ DndChanged(m).kind = "DndChanged" /\ DndChanged(m).mode = m
  BY DEF Event, NoteEvent, AllCleared, DndChanged

LEMMA ResponseKinds ==
    /\ \A m \in Response :
          /\ m.kind \in {"Sync", "Reply"}
          /\ m.kind = "Sync" => /\ m.rows \in SUBSET Note /\ m.seen \in SUBSET Note
                                /\ m.mode \in DndModes
                                /\ m = Sync(m.rows, m.seen, m.mode)
    /\ \A rows \in SUBSET Note : Reply(rows) \in Response /\ Reply(rows).kind = "Reply"
    /\ \A rows, seen \in SUBSET Note : \A m \in DndModes : Sync(rows, seen, m) \in Response
    /\ \A rows, seen, m :
          LET sync == Sync(rows, seen, m) IN
              sync.kind = "Sync" /\ sync.rows = rows /\ sync.seen = seen /\ sync.mode = m
    /\ \A m \in Event : m \notin Response /\ m # NoMsg
    /\ NoMsg \notin Response /\ NoMsg.kind = "none"
<1>1. \A m \in Response :
          /\ m.kind \in {"Sync", "Reply"}
          /\ m.kind = "Sync" => /\ m.rows \in SUBSET Note /\ m.seen \in SUBSET Note
                                /\ m.mode \in DndModes
                                /\ m = Sync(m.rows, m.seen, m.mode)
  BY DEF Response, Sync, Reply
<1>2. \A rows, seen \in SUBSET Note : \A m \in DndModes : Sync(rows, seen, m) \in Response
  BY DEF Response, Sync
<1>3. \A rows, seen, m :
          LET sync == Sync(rows, seen, m) IN
              sync.kind = "Sync" /\ sync.rows = rows /\ sync.seen = seen /\ sync.mode = m
  BY DEF Sync
<1>4. \A rows \in SUBSET Note : Reply(rows) \in Response /\ Reply(rows).kind = "Reply"
  BY DEF Response, Reply
<1>5. NoMsg.kind = "none"
  BY DEF NoMsg
<1>6. QED  BY <1>1, <1>2, <1>3, <1>4, <1>5, EventKinds

\* The parts of the type invariant.
Handler == [pc : {"idle", "mode", "respond", "send", "clear", "ended"}, rows : SUBSET Note,
            seen : SUBSET Note, msg : Event \cup Response \cup {NoMsg}]
View == [synced : BOOLEAN, shown : SUBSET Note, read : SUBSET Note, mode : DndModes]

TableType ==
    /\ stored \subseteq Note /\ read \subseteq stored /\ dismissed \subseteq stored
    /\ disputed \subseteq Note
ManagerType ==
    /\ arrival \in [Note -> {"new", "stored", "sent", "silent"}]
    /\ closing \in [Note -> {"no", "send", "done"}]
    /\ mirrors \in 0..MaxMirrors
ChannelType ==
    /\ channel \in Seq(Event) /\ Len(channel) <= Capacity
    /\ overrun \in BOOLEAN /\ log \in Seq(Event)
TaskType ==
    /\ task \in [pc : {"recv", "lock", "write", "ended"}, event : Event \cup {NoMsg},
                 next : Nat, dead : Seq(Nat)]
    /\ forwarded \in Nat
WritersType == writers \in Seq(Client) /\ IsInjective(writers) /\ listening \in BOOLEAN
ConnType ==
    /\ conn \in [Client -> {"away", "waiting", "open", "closed"}]
    /\ view \in [Client -> View]
    /\ start \in [Client -> Nat]
InboxType ==
    /\ inbox \in [Client -> Seq(Message)]
    /\ \A c \in Client : Len(inbox[c]) <= InboxSize
    /\ got \in [Client -> Seq(Event)]
HandlerType == handler \in [Client -> Handler] /\ requests \in 0..MaxRequests
ModeType == dnd_mode \in DndModes /\ mode_disputed \in BOOLEAN
SyncType == overtaken \in [Client -> SUBSET Note] /\ missed \in [Client -> SUBSET Note]

Types ==
    /\ TableType /\ ManagerType /\ ChannelType /\ TaskType /\ WritersType
    /\ ConnType /\ InboxType /\ HandlerType /\ ModeType /\ SyncType

LEMMA TypeParts == (TypeOK <=> Types) /\ (TypeOK' <=> Types')
BY DEF Types, TypeOK, TableType, ManagerType, ChannelType, TaskType, WritersType, ConnType, InboxType,
       HandlerType, ModeType, SyncType, Message, Handler, View

\* What a send leaves is a channel.
LEMMA SendType ==
    ASSUME ChannelType, overrun => channel # <<>>, NEW e \in Event, Send(e)
    PROVE  ChannelType' /\ (overrun' => channel' # <<>>)
<1>1. CASE task.pc = "ended"
  BY <1>1 DEF Send, ChannelType, channelVars
<1>2. CASE task.pc # "ended"
  <2> DEFINE kept == IF Len(channel) < Capacity THEN channel ELSE Tail(channel)
  <2>1. kept \in Seq(Event) /\ Len(kept) < Capacity
    BY BoundsAssumption DEF ChannelType
  <2>2. channel' = Append(kept, e) /\ overrun' \in BOOLEAN
        /\ log' = (IF Recording /\ ~TooLarge(e) THEN Append(log, e) ELSE log)
    BY <1>2 DEF Send, ChannelType
  <2>3. channel' \in Seq(Event) /\ Len(channel') = Len(kept) + 1 /\ log' \in Seq(Event)
    <3> HIDE DEF kept
    <3> QED  BY <2>1, <2>2 DEF ChannelType
  <2>4. QED  BY <2>1, <2>2, <2>3, BoundsAssumption DEF ChannelType
<1>3. QED  BY <1>1, <1>2

\* The statements of the table keep it one.
LEMMA UpdateType ==
    ASSUME TableType, NEW n \in Note, UpdateDismissed(n) \/ UpdateRead(n)
    PROVE  TableType'
BY DEF TableType, UpdateDismissed, UpdateRead, Noted, Dispute

LEMMA ManagerTypes ==
    ASSUME Types, Wired, Manager
    PROVE  Types' /\ Wired'
<1> USE DEF managerFrame, serverVars, clientVars, syncHistory
<1>1. TaskType' /\ WritersType' /\ ConnType' /\ InboxType' /\ HandlerType' /\ SyncType'
  BY DEF Types, Manager, TaskType, WritersType, ConnType, InboxType, HandlerType, SyncType
<1>2. TableType' /\ ManagerType' /\ ModeType' /\ ChannelType' /\ (overrun' => channel' # <<>>)
  <2>0. /\ TableType /\ ManagerType /\ ModeType /\ ChannelType
        /\ overrun => channel # <<>>
    BY DEF Types, Wired, TaskWired
  <2>1. ASSUME NEW n \in Note, Store(n)
        PROVE  TableType' /\ ManagerType' /\ ModeType' /\ ChannelType' /\ (overrun' => channel' # <<>>)
    BY <2>0, <2>1 DEF Store, Dispute, TableType, ManagerType, ModeType, ChannelType, channelVars
  <2>2. ASSUME NEW n \in Note, Announce(n)
        PROVE  TableType' /\ ManagerType' /\ ModeType' /\ ChannelType' /\ (overrun' => channel' # <<>>)
    <3>1. ChannelType' /\ (overrun' => channel' # <<>>)
      BY <2>0, <2>2, SendType, EventKinds DEF Announce, ChannelType, channelVars
    <3>2. QED  BY <2>0, <2>2, <3>1 DEF Announce, TableType, ManagerType, ModeType, tableVars
  <2>3. ASSUME NEW n \in Note, CloseDismiss(n)
        PROVE  TableType' /\ ManagerType' /\ ModeType' /\ ChannelType' /\ (overrun' => channel' # <<>>)
    BY <2>0, <2>3, UpdateType DEF CloseDismiss, ManagerType, ModeType, ChannelType, channelVars
  <2>4. ASSUME NEW n \in Note, CloseBroadcast(n)
        PROVE  TableType' /\ ManagerType' /\ ModeType' /\ ChannelType' /\ (overrun' => channel' # <<>>)
    <3>1. ChannelType' /\ (overrun' => channel' # <<>>)
      BY <2>0, <2>4, SendType, EventKinds DEF CloseBroadcast
    <3>2. QED  BY <2>0, <2>4, <3>1 DEF CloseBroadcast, TableType, ManagerType, ModeType, tableVars
  <2>5. ASSUME NEW m \in ConfigModes, Mirror(m)
        PROVE  TableType' /\ ManagerType' /\ ModeType' /\ ChannelType' /\ (overrun' => channel' # <<>>)
    BY <2>0, <2>5, ConfigModesAssumption, BoundsAssumption
    DEF Mirror, TableType, ManagerType, ModeType, ChannelType, tableVars, channelVars
  <2>6. QED  BY <2>1, <2>2, <2>3, <2>4, <2>5 DEF Manager
<1>3. Wired'
  BY <1>2 DEF Manager, Wired, HandlerWired, ConnWired, DeadWired, TaskWired
<1>4. QED  BY <1>1, <1>2, <1>3 DEF Types

LEMMA BroadcastTypes ==
    ASSUME Types, Wired, Broadcast
    PROVE  Types' /\ Wired'
<1> USE DEF broadcastFrame
<1>1. TableType' /\ ManagerType' /\ ConnType' /\ HandlerType'
  BY DEF Types, Broadcast, TableType, ManagerType, ConnType, HandlerType, tableVars, managerVars
<1>2. \A c \in Client : HandlerWired(c)'
  BY DEF Broadcast, Wired, HandlerWired
<1>3. CASE Receive
  <2>1. CASE overrun
    <3>1. task' = [pc |-> "ended", event |-> NoMsg, next |-> 1, dead |-> <<>>]
          /\ channel' = <<>> /\ overrun' = FALSE
      BY <1>3, <2>1 DEF Receive, ReceivingTask
    <3>2. ChannelType' /\ TaskType'
      <4>1. <<>> \in Seq(Event) /\ <<>> \in Seq(Nat) /\ Len(<<>>) = 0
        OBVIOUS
      <4>2. ChannelType'
        <5>1. log' = log
          BY DEF Broadcast
        <5>2. channel' \in Seq(Event) /\ Len(channel') <= Capacity
          BY <3>1, <4>1, BoundsAssumption
        <5>3. QED  BY <3>1, <5>1, <5>2 DEF Types, ChannelType
      <4>3. TaskType'
        BY <1>3, <3>1, <4>1 DEF Types, Receive, TaskType
      <4>4. QED  BY <4>2, <4>3
    <3>3. TaskWired' /\ DeadWired'
      BY <1>3, <3>1 DEF Types, Receive, WritersType, TaskWired, DeadWired, Increasing
    <3>4. QED  BY <1>1, <1>2, <1>3, <3>2, <3>3
      DEF Types, Broadcast, Receive, WritersType, InboxType, ModeType, SyncType, Wired, ConnWired,
          syncHistory
  <2>2. CASE ~overrun
    <3>1. /\ task' \in {task, [task EXCEPT !.pc = "lock", !.event = Head(channel)]}
          /\ TooLarge(Head(channel)) => task' = task
          /\ task.pc = "recv" /\ channel # <<>> /\ channel' = Tail(channel) /\ overrun' = FALSE
      BY <1>3, <2>2 DEF Receive
    <3>2. Head(channel) \in Event
      BY <3>1 DEF Types, ChannelType
    <3>3. ChannelType' /\ TaskType'
      <4>1. ChannelType'
        <5>1. log' = log
          BY DEF Broadcast
        <5>2. channel' \in Seq(Event) /\ Len(channel') <= Capacity
          BY <3>1, BoundsAssumption DEF Types, ChannelType
        <5>3. QED  BY <3>1, <5>1, <5>2 DEF Types, ChannelType
      <4>2. TaskType'
        BY <1>3, <3>1, <3>2 DEF Types, Receive, TaskType
      <4>3. QED  BY <4>1, <4>2
    <3>4. TaskWired' /\ DeadWired'
      BY <1>3, <3>1, <3>2
      DEF Types, Broadcast, Receive, TaskType, WritersType, Wired, TaskWired, DeadWired, Increasing
    <3>5. QED  BY <1>1, <1>2, <1>3, <3>3, <3>4
      DEF Types, Broadcast, Receive, WritersType, InboxType, ModeType, SyncType, Wired, ConnWired,
          syncHistory
  <2>3. QED  BY <2>1, <2>2
<1>4. CASE LockWriters
  <2>1. task' = [task EXCEPT !.pc = "write"] /\ task.pc = "lock"
    BY <1>4 DEF LockWriters
  <2>2. ChannelType' /\ TaskType' /\ TaskWired' /\ DeadWired'
    BY <1>4, <2>1
    DEF Types, Broadcast, LockWriters, ChannelType, TaskType, WritersType, Wired, TaskWired,
        DeadWired, Increasing
  <2>3. QED  BY <1>1, <1>2, <1>4, <2>2
    DEF Types, Broadcast, LockWriters, WritersType, InboxType, ModeType, SyncType, Wired, ConnWired,
        syncHistory
<1>5. ASSUME NEW c \in Client, WriteTo(c)  PROVE Types' /\ Wired'
  <2>0. /\ task.pc = "write" /\ task.next \in DOMAIN writers /\ c = writers[task.next]
        /\ UNCHANGED <<channel, overrun, forwarded, writers, missed>>
        /\ task \in [pc : {"recv", "lock", "write", "ended"}, event : Event \cup {NoMsg},
                     next : Nat, dead : Seq(Nat)]
        /\ task.event \in Event /\ ~TooLarge(task.event)
    BY <1>5 DEF WriteTo, Types, TaskType, WritersType, Wired, TaskWired
  <2>1. ChannelType' /\ WritersType' /\ (overrun' => channel' # <<>>)
    BY <1>5, <2>0 DEF Types, Broadcast, ChannelType, WritersType, Wired, TaskWired
  <2>2. CASE WriteFails(c)
    <3>1. /\ conn[c] = "closed"
          /\ task' = [task EXCEPT !.next = @ + 1, !.dead = Append(task.dead, task.next)]
          /\ UNCHANGED <<inbox, got, overtaken, mode_disputed>>
      BY <2>2 DEF WriteFails
    <3>2. TaskType' /\ TaskWired'
      <4>1. Append(task.dead, task.next) \in Seq(Nat) /\ task.next + 1 \in Nat
        BY <2>0
      <4>2. task' = [pc |-> "write", event |-> task.event, next |-> task.next + 1,
                     dead |-> Append(task.dead, task.next)]
        BY <2>0, <3>1
      <4>3. QED  BY <2>0, <2>1, <4>1, <4>2 DEF Types, TaskType, TaskWired
    <3>3. DeadWired'
      <4> DEFINE d == task.dead
      <4>1. /\ d \in Seq(Nat) /\ task.next \in Nat \ {0} /\ Increasing(d, task.next - 1)
            /\ task.next <= Len(writers)
        BY <2>0 DEF Wired, DeadWired, Types, WritersType
      <4>2. /\ task'.dead = Append(d, task.next) /\ task'.next = task.next + 1
        BY <2>0, <3>1
      <4>3. Increasing(Append(d, task.next), task.next)
        BY <4>1, AppendIncreasing
      <4>4. conn' = conn /\ writers' = writers
        BY <1>5, <2>0 DEF Broadcast
      <4>5. \A i \in DOMAIN d : conn[writers[d[i]]] = "closed"
        BY <2>0 DEF Wired, DeadWired
      <4>6. conn[writers[task.next]] = "closed"
        BY <2>0, <3>1
      <4>7. \A i \in DOMAIN Append(d, task.next) :
                conn[writers[Append(d, task.next)[i]]] = "closed"
        <5>1. \A i \in DOMAIN Append(d, task.next) :
                  \/ i \in DOMAIN d /\ Append(d, task.next)[i] = d[i]
                  \/ Append(d, task.next)[i] = task.next
          BY <4>1
        <5> HIDE DEF d
        <5>2. QED  BY <4>5, <4>6, <5>1, Zenon
      <4> HIDE DEF d
      <4>8. QED  BY <4>1, <4>2, <4>3, <4>4, <4>7 DEF DeadWired
    <3>4. QED  BY <1>1, <1>2, <1>5, <2>0, <2>1, <3>1, <3>2, <3>3
      DEF Types, Broadcast, InboxType, ModeType, SyncType, Wired, ConnWired
  <2>3. CASE ~WriteFails(c)
    <3>1. /\ HasRoom(c)
          /\ task' = [task EXCEPT !.next = @ + 1]
          /\ inbox' = [inbox EXCEPT ![c] = Append(@, task.event)]
          /\ got' = IF Recording THEN [got EXCEPT ![c] = Append(@, task.event)] ELSE got
          /\ overtaken' = [overtaken EXCEPT ![c] =
                              IF HoldsRows(c) THEN @ \cup ToldOf(task.event) ELSE @]
          /\ mode_disputed' = (mode_disputed \/
                               (HoldsMode(c) /\ task.event.kind = "DndChanged"))
      BY <1>5, <2>3 DEF WriteTo
    <3>2. TaskType' /\ TaskWired' /\ DeadWired'
      <4>1. task' = [pc |-> "write", event |-> task.event, next |-> task.next + 1,
                     dead |-> task.dead]
        BY <2>0, <3>1
      <4>2. TaskType' /\ TaskWired'
        BY <2>0, <2>1, <4>1 DEF Types, TaskType, TaskWired
      <4>3. DeadWired'
        BY <1>5, <2>0, <4>1
        DEF Types, Broadcast, WritersType, Wired, DeadWired, Increasing
      <4>4. QED  BY <4>2, <4>3
    <3>3. InboxType' /\ ModeType' /\ SyncType'
      <4>1. /\ inbox \in [Client -> Seq(Message)] /\ got \in [Client -> Seq(Event)]
            /\ \A d \in Client : Len(inbox[d]) <= InboxSize
            /\ task.event \in Message
        BY <2>0 DEF Types, InboxType, Message
      <4>2. InboxType'
        <5>1. inbox' \in [Client -> Seq(Message)]
          BY <3>1, <4>1
        <5>2. got' \in [Client -> Seq(Event)]
          BY <2>0, <3>1, <4>1
        <5>3. ASSUME NEW d \in Client  PROVE Len(inbox'[d]) <= InboxSize
          <6>1. CASE d = c
            BY <3>1, <4>1, <6>1, BoundsAssumption DEF HasRoom
          <6>2. CASE d # c
            BY <3>1, <4>1, <6>2
          <6>3. QED  BY <6>1, <6>2
        <5>4. QED  BY <5>1, <5>2, <5>3 DEF InboxType
      <4>3. ToldOf(task.event) \subseteq Note
        BY <2>0, EventKinds DEF ToldOf
      <4>4. ModeType' /\ SyncType'
        BY <1>5, <2>0, <3>1, <4>3 DEF Types, Broadcast, ModeType, SyncType
      <4>5. QED  BY <4>2, <4>4
    <3>4. \A d \in Client : ConnWired(d)'
      BY <1>5, <2>0, <3>1 DEF Types, Broadcast, Wired, ConnWired, HasRoom, InboxType
    <3>5. QED  BY <1>1, <1>2, <2>1, <3>2, <3>3, <3>4 DEF Types, Wired
  <2>4. QED  BY <2>2, <2>3
<1>6. CASE Finish
  <2>0. /\ task.pc = "write" /\ task.next > Len(writers)
        /\ writers' = Survivors(task.dead) /\ task' = ReceivingTask
        /\ forwarded' = (IF Recording THEN forwarded + 1 ELSE forwarded)
        /\ UNCHANGED <<channel, overrun, inbox, got, overtaken, missed, mode_disputed>>
        /\ UNCHANGED <<conn, view, handler, listening, dnd_mode, log>>
    BY <1>6 DEF Finish, Broadcast, syncHistory
  <2> DEFINE d == task.dead
             ws == Survivors(d)
  <2>1. /\ d \in Seq(Nat) /\ Increasing(d, Len(writers))
        /\ writers \in Seq(Client) /\ IsInjective(writers)
    <3>1. task.next - 1 = Len(writers)
      BY <2>0 DEF Types, TaskType, WritersType, Wired, DeadWired
    <3>2. QED  BY <3>1 DEF Types, TaskType, WritersType, Wired, DeadWired
  <2>2. /\ ws \in Seq(Client) /\ IsInjective(ws)
        /\ \A k \in DOMAIN ws : \E p \in DOMAIN writers : ws[k] = writers[p]
        /\ \A p \in DOMAIN writers : (\A i \in DOMAIN d : p # d[i]) =>
                  \E k \in DOMAIN ws : ws[k] = writers[p]
    BY <2>1, SurvivorsAre
  <2> HIDE DEF ws
  <2>3. TaskType' /\ TaskWired' /\ DeadWired' /\ WritersType' /\ ChannelType'
    <3>1. <<>> \in Seq(Nat) /\ DOMAIN <<>> = {} /\ ws \in Seq(Client)
      BY <2>2
    <3>2. task' = [pc |-> "recv", event |-> NoMsg, next |-> 1, dead |-> <<>>] /\ writers' = ws
      BY <2>0 DEF ReceivingTask, ws
    <3>3. TaskType' /\ TaskWired' /\ WritersType' /\ ChannelType'
      BY <2>0, <2>2, <3>1, <3>2
      DEF Types, TaskType, WritersType, ChannelType, Wired, TaskWired
    <3>4. DeadWired'
      BY <3>1, <3>2 DEF DeadWired, Increasing
    <3>5. QED  BY <3>3, <3>4
  <2>4. ASSUME NEW c \in Client  PROVE ConnWired(c)'
    <3>1. ConnWired(c) /\ writers' = ws
      BY <2>0 DEF Wired, ws
    <3>2. CASE conn[c] \in {"away", "waiting"}
      BY <2>0, <2>2, <3>1, <3>2 DEF ConnWired
    <3>3. CASE conn[c] = "open"
      <4>1. PICK p \in DOMAIN writers : writers[p] = c
        BY <3>1, <3>3 DEF ConnWired
      <4>2. \A i \in DOMAIN d : p # d[i]
        BY <3>3, <4>1 DEF Wired, DeadWired
      <4>3. QED  BY <2>0, <2>2, <3>1, <3>3, <4>1, <4>2 DEF ConnWired
    <3>4. QED  BY <2>0, <3>2, <3>3 DEF ConnWired
  <2>5. QED  BY <1>1, <1>2, <2>0, <2>3, <2>4
    DEF Types, InboxType, ModeType, SyncType, Wired, TaskWired
<1>7. QED  BY <1>3, <1>4, <1>5, <1>6 DEF Broadcast

\* What the actions of connections leave alone.
LEMMA ConnectionFrame ==
    ASSUME Types, Wired, UNCHANGED connectionFrame
    PROVE  /\ TableType' /\ ManagerType' /\ ChannelType' /\ TaskType' /\ ModeType' /\ SyncType'
           /\ got' = got /\ requests' = requests /\ task' = task
           /\ TaskWired'
BY DEF Types, TableType, ManagerType, ChannelType, TaskType, ModeType, SyncType, connectionFrame,
       tableVars, managerVars, channelVars, history, syncHistory, Wired, TaskWired

\* The dead stay dead: a connection once closed is never opened again.
LEMMA DeadStays ==
    ASSUME Types, Wired, task' = task, writers' = writers,
           \A c \in Client : conn[c] = "closed" => conn'[c] = "closed"
    PROVE  DeadWired'
<1>1. /\ task.dead \in Seq(Nat) /\ task.next \in Nat /\ writers \in Seq(Client)
      /\ task.next <= Len(writers) + 1 /\ Increasing(task.dead, task.next - 1)
  BY DEF Types, TaskType, WritersType, Wired, DeadWired
<1>2. ASSUME NEW i \in DOMAIN task.dead  PROVE conn'[writers[task.dead[i]]] = "closed"
  <2>1. task.dead[i] \in i..(task.next - 1) /\ i \in Nat \ {0}
    BY <1>1, <1>2 DEF Increasing
  <2>2. task.dead[i] \in 1..Len(writers)
    BY <1>1, <2>1
  <2>3. writers[task.dead[i]] \in Client
    BY <1>1, <2>2
  <2>4. conn[writers[task.dead[i]]] = "closed"
    BY <1>2 DEF Wired, DeadWired
  <2>5. QED  BY <2>3, <2>4
<1>3. Increasing(task.dead, task.next - 1)'
  BY <1>1 DEF Increasing
<1>4. QED  BY <1>1, <1>2, <1>3 DEF DeadWired

LEMMA ConnectionTypes ==
    ASSUME Types, Wired, NEW c \in Client,
           Connect(c) \/ Accept(c) \/ ClientRead(c) \/ ClientClose(c)
    PROVE  Types' /\ Wired'
<1>0. UNCHANGED connectionFrame
  BY DEF Connect, Accept, ClientRead, ClientClose
<1>1. /\ TableType' /\ ManagerType' /\ ChannelType' /\ TaskType' /\ ModeType' /\ SyncType'
      /\ got' = got /\ requests' = requests /\ task' = task
      /\ TaskWired'
  BY <1>0, ConnectionFrame
<1>3. CASE Connect(c)
  <2>0. /\ conn[c] = "away" /\ conn' = [conn EXCEPT ![c] = "waiting"]
        /\ UNCHANGED <<writers, listening, inbox, view, start, handler>>
    BY <1>3 DEF Connect, serverVars
  <2>1. WritersType' /\ InboxType' /\ HandlerType'
    BY <1>1, <2>0 DEF Types, WritersType, InboxType, HandlerType
  <2>2. ConnType'
    BY <2>0 DEF Types, ConnType
  <2>3. DeadWired'
    BY <1>1, <2>0, DeadStays DEF Types, ConnType
  <2>4. \A d \in Client : HandlerWired(d)'
    BY <2>0 DEF Wired, HandlerWired
  <2>5. \A d \in Client : ConnWired(d)'
    BY <1>1, <2>0 DEF Types, ConnType, Wired, ConnWired
  <2>6. QED  BY <1>1, <2>1, <2>2, <2>3, <2>4, <2>5 DEF Types, Wired
<1>4. CASE Accept(c)
  <2>0. /\ conn[c] = "waiting" /\ task.pc # "write"
        /\ conn' = [conn EXCEPT ![c] = "open"]
        /\ writers' = Append(writers, c)
        /\ handler' = [handler EXCEPT ![c] = IdleHandler]
        /\ start' = [start EXCEPT ![c] = forwarded]
        /\ UNCHANGED <<listening, inbox, view>>
        /\ writers \in Seq(Client)
    BY <1>4 DEF Accept, Types, WritersType
  <2>1. WritersType'
    <3>1. \A i \in DOMAIN writers : writers[i] # c
      BY <2>0 DEF Wired, ConnWired
    <3>2. QED  BY <2>0, <3>1 DEF Types, WritersType, IsInjective
  <2>2. ConnType' /\ InboxType' /\ HandlerType'
    <3>1. IdleHandler \in Handler
      BY DEF IdleHandler, Handler, NoMsg
    <3>2. QED  BY <1>1, <2>0, <3>1
      DEF Types, ConnType, InboxType, HandlerType, TaskType
  <2>3. DeadWired'
    BY <1>1, <2>0 DEF Types, WritersType, Wired, DeadWired, TaskWired, Increasing
  <2>4. ASSUME NEW d \in Client  PROVE HandlerWired(d)' /\ ConnWired(d)'
    <3>1. HandlerWired(d) /\ ConnWired(d)
      BY DEF Wired
    <3>2. /\ DOMAIN writers' = 1..(Len(writers) + 1) /\ DOMAIN writers = 1..Len(writers)
          /\ Len(writers) \in Nat
          /\ writers'[Len(writers) + 1] = c
          /\ \A i \in DOMAIN writers : writers'[i] = writers[i]
      BY <2>0
    <3>3. CASE d = c
      <4>1. handler'[c] = IdleHandler /\ conn'[c] = "open"
        BY <2>0 DEF Types, ConnType, HandlerType
      <4>2. HandlerWired(c)'
        BY <4>1 DEF HandlerWired, IdleHandler
      <4>3. Len(writers) + 1 \in DOMAIN writers'
        BY <3>2
      <4>4. ConnWired(c)'
        BY <3>2, <4>1, <4>3 DEF ConnWired
      <4>5. QED  BY <3>3, <4>2, <4>4
    <3>4. CASE d # c
      BY <1>1, <2>0, <3>1, <3>2, <3>4 DEF HandlerWired, ConnWired, Types, ConnType, HandlerType
    <3>5. QED  BY <3>3, <3>4
  <2>5. QED  BY <1>1, <2>1, <2>2, <2>3, <2>4 DEF Types, Wired
<1>5. CASE ClientRead(c)
  <2>0. /\ conn[c] = "open" /\ inbox[c] # <<>>
        /\ inbox' = [inbox EXCEPT ![c] = Tail(@)]
        /\ UNCHANGED <<writers, listening, conn, start, handler>>
        /\ view' = [view EXCEPT ![c] =
             [synced |-> view[c].synced \/ Head(inbox[c]).kind = "Sync",
              shown |-> Shown(view[c], Head(inbox[c])), read |-> ShownRead(view[c], Head(inbox[c])),
              mode |-> IF Head(inbox[c]).kind \in {"Sync", "DndChanged"} THEN Head(inbox[c]).mode
                       ELSE view[c].mode]]
    BY <1>5 DEF ClientRead, serverVars
  <2>1. Head(inbox[c]) \in Message /\ view[c] \in View
    BY <2>0 DEF Types, ConnType, InboxType
  <2>2. InboxType'
    <3>1. Tail(inbox[c]) \in Seq(Message) /\ Len(Tail(inbox[c])) = Len(inbox[c]) - 1
          /\ Len(inbox[c]) \in Nat
      BY <2>0 DEF Types, InboxType
    <3>2. QED  BY <1>1, <2>0, <3>1, BoundsAssumption DEF Types, InboxType
  <2>3. ConnType'
    <3> DEFINE m == Head(inbox[c])
               v == view[c]
    <3>1. m.kind = "Sync" => m.rows \in SUBSET Note /\ m.seen \in SUBSET Note /\ m.mode \in DndModes
      BY <2>1, EventKinds, ResponseKinds DEF Message
    <3>2. m.kind = "DndChanged" => m.mode \in DndModes
      BY <2>1, EventKinds, ResponseKinds DEF Message
    <3>3. m.kind \in {"Added", "Closed", "Read"} => m.note \in Note
      BY <2>1, EventKinds, ResponseKinds DEF Message
    <3> HIDE DEF m, v
    <3>4. v.synced \in BOOLEAN /\ v.shown \in SUBSET Note /\ v.read \in SUBSET Note
          /\ v.mode \in DndModes
      BY <2>1 DEF v, View
    <3>5. Shown(v, m) \in SUBSET Note /\ ShownRead(v, m) \in SUBSET Note
      BY <3>1, <3>3, <3>4 DEF Shown, ShownRead
    <3>6. (IF m.kind \in {"Sync", "DndChanged"} THEN m.mode ELSE v.mode) \in DndModes
      BY <3>1, <3>2, <3>4
    <3>7. (v.synced \/ m.kind = "Sync") \in BOOLEAN
      OBVIOUS
    <3>8. view' \in [Client -> View]
      BY <2>0, <3>5, <3>6, <3>7 DEF m, v, View, Types, ConnType
    <3>9. QED  BY <2>0, <3>8 DEF Types, ConnType
  <2>4. WritersType' /\ HandlerType'
    BY <1>1, <2>0 DEF Types, WritersType, HandlerType
  <2>5. DeadWired' /\ \A d \in Client : HandlerWired(d)' /\ ConnWired(d)'
    BY <1>1, <2>0
    DEF Types, ConnType, InboxType, Wired, HandlerWired, ConnWired, DeadWired
  <2>6. QED  BY <1>1, <2>2, <2>3, <2>4, <2>5 DEF Types, Wired
<1>6. CASE ClientClose(c)
  <2>0. /\ conn[c] = "open" /\ conn' = [conn EXCEPT ![c] = "closed"]
        /\ inbox' = [inbox EXCEPT ![c] = <<>>]
        /\ view' = [view EXCEPT ![c] = EmptyView]
        /\ UNCHANGED <<writers, listening, start, handler>>
    BY <1>6 DEF ClientClose, serverVars
  <2>1. WritersType' /\ ConnType' /\ InboxType' /\ HandlerType'
    <3>1. EmptyView \in View /\ <<>> \in Seq(Message) /\ Len(<<>>) = 0
      BY DEF EmptyView, View, DndModes
    <3>2. WritersType' /\ HandlerType'
      BY <1>1, <2>0 DEF Types, WritersType, HandlerType
    <3>3. ConnType'
      BY <2>0, <3>1 DEF Types, ConnType
    <3>4. InboxType'
      BY <1>1, <2>0, <3>1, BoundsAssumption DEF Types, InboxType
    <3>5. QED  BY <3>2, <3>3, <3>4
  <2>2. DeadWired'
    BY <1>1, <2>0, DeadStays DEF Types, ConnType
  <2>3. \A d \in Client : HandlerWired(d)' /\ ConnWired(d)'
    <3>1. \A d \in Client : HandlerWired(d)'
      BY <2>0 DEF Wired, HandlerWired
    <3>2. conn'[c] = "closed" /\ \A d \in Client \ {c} :
              conn'[d] = conn[d] /\ inbox'[d] = inbox[d] /\ view'[d] = view[d]
      BY <2>0 DEF Types, ConnType, InboxType
    <3>3. ASSUME NEW d \in Client  PROVE ConnWired(d)'
      <4>1. CASE d = c
        BY <3>2, <4>1 DEF ConnWired
      <4>2. CASE d # c
        BY <1>1, <2>0, <3>2, <4>2 DEF Wired, ConnWired
      <4>3. QED  BY <4>1, <4>2
    <3>4. QED  BY <3>1, <3>3
  <2>4. QED  BY <1>1, <2>1, <2>2, <2>3 DEF Types, Wired
<1>7. QED  BY <1>3, <1>4, <1>5, <1>6

LEMMA AcceptFailsTypes ==
    ASSUME Types, Wired, AcceptFails
    PROVE  Types' /\ Wired'
<1>1. /\ TableType' /\ ManagerType' /\ ChannelType' /\ TaskType' /\ ModeType' /\ SyncType'
      /\ got' = got /\ requests' = requests /\ task' = task
      /\ TaskWired'
  BY ConnectionFrame DEF AcceptFails
<1>2. UNCHANGED <<writers, conn, inbox, view, start, handler>> /\ listening' = FALSE
  BY DEF AcceptFails
<1>3. WritersType' /\ ConnType' /\ InboxType' /\ HandlerType'
  BY <1>1, <1>2 DEF Types, WritersType, ConnType, InboxType, HandlerType
<1>4. DeadWired'
  BY <1>1, <1>2, DeadStays
<1>5. \A c \in Client : HandlerWired(c)' /\ ConnWired(c)'
  BY <1>1, <1>2 DEF Wired, HandlerWired, ConnWired
<1>6. QED  BY <1>1, <1>3, <1>4, <1>5 DEF Types, Wired

\* What the steps of handlers leave alone.
LEMMA SessionFrame ==
    ASSUME Types, UNCHANGED sessionFrame
    PROVE  /\ ManagerType' /\ TaskType' /\ WritersType' /\ ConnType' /\ got' = got
           /\ UNCHANGED <<arrival, closing, task, forwarded, writers, listening, conn, view, start>>
BY DEF Types, ManagerType, TaskType, WritersType, ConnType, sessionFrame, managerVars, serverVars

\* A handler that moves on keeps the wiring.
LEMMA HandlerMoves ==
    ASSUME Types, Wired, NEW c \in Client, UNCHANGED sessionFrame,
           conn[c] \in {"open", "closed"},
           NEW h \in Handler, handler' = [handler EXCEPT ![c] = h],
           h.pc \in {"idle", "ended", "mode", "clear"} => h.msg = NoMsg,
           h.pc = "respond" => h.msg \in Response,
           h.pc = "send" => h.msg \in HandlerEvent,
           \A d \in Client : inbox'[d] = inbox[d] \/ (d = c /\ conn[c] = "open"),
           overrun' => channel' # <<>>
    PROVE  Wired' /\ handler' \in [Client -> Handler]
<1>0. UNCHANGED <<task, writers, conn, view>> /\ got' = got
  BY SessionFrame
<1>1. handler' \in [Client -> Handler] /\ handler'[c] = h
      /\ \A d \in Client \ {c} : handler'[d] = handler[d]
  BY DEF Types, HandlerType
<1>2. \A d \in Client : HandlerWired(d)'
  BY <1>1 DEF Wired, HandlerWired
<1>3. \A d \in Client : ConnWired(d)'
  BY <1>0, <1>1 DEF Wired, ConnWired
<1>4. DeadWired' /\ TaskWired'
  BY <1>0 DEF Wired, DeadWired, TaskWired
<1>5. QED  BY <1>1, <1>2, <1>3, <1>4 DEF Wired

\* A handler that runs belongs to a connection that has been accepted.
LEMMA Accepted ==
    ASSUME Types, Wired, NEW c \in Client, handler[c].pc # "ended"
    PROVE  conn[c] \in {"open", "closed"}
BY DEF Types, ConnType, Wired, ConnWired, EndedHandler, IdleHandler

LEMMA HandlerIs ==
    /\ IdleHandler \in Handler /\ EndedHandler \in Handler
    /\ IdleHandler.pc = "idle" /\ IdleHandler.msg = NoMsg
    /\ EndedHandler.pc = "ended" /\ EndedHandler.msg = NoMsg
    /\ \A e \in Event : ToSend(e) \in Handler /\ ToSend(e).pc = "send" /\ ToSend(e).msg = e
BY DEF IdleHandler, EndedHandler, ToSend, Handler

LEMMA HandleTypes ==
    ASSUME Types, Wired, NEW c \in Client, Handle(c)
    PROVE  Types' /\ Wired'
<1>0. /\ UNCHANGED sessionFrame
      /\ ManagerType' /\ TaskType' /\ WritersType' /\ ConnType' /\ got' = got
  BY SessionFrame DEF Handle
<1>1. handler \in [Client -> Handler] /\ handler[c] \in Handler
      /\ requests \in 0..MaxRequests
  BY DEF Types, HandlerType
<1>2. CASE HelloMode(c)
  <2> DEFINE m == Sync(handler[c].rows, handler[c].seen, dnd_mode)
             h == [IdleHandler EXCEPT !.pc = "respond", !.msg = m]
  <2>1. /\ handler[c].pc = "mode" /\ handler' = [handler EXCEPT ![c] = h]
        /\ UNCHANGED <<tableVars, channelVars, inbox, dnd_mode, requests, history>>
    BY <1>2 DEF HelloMode
  <2>2. m \in Response
    BY <1>1, ResponseKinds DEF Handler, Types, ModeType
  <2>3. h \in Handler /\ h.pc = "respond" /\ h.msg = m
    BY <2>2 DEF IdleHandler, Handler
  <2> HIDE DEF h, m
  <2>4. conn[c] \in {"open", "closed"}
    BY <2>1, Accepted
  <2>5. Wired' /\ handler' \in [Client -> Handler]
    BY <1>0, <2>1, <2>2, <2>3, <2>4, HandlerMoves DEF Wired, TaskWired, channelVars
  <2>6. QED  BY <1>0, <1>1, <2>1, <2>5
    DEF Types, TableType, ChannelType, InboxType, HandlerType, ModeType, SyncType, tableVars,
        channelVars, history, syncHistory
<1>3. CASE WriteResponse(c)
  <2>1. /\ handler[c].pc = "respond" /\ handler[c].msg \in Response
        /\ conn[c] \in {"open", "closed"}
    BY <1>3, Accepted DEF WriteResponse, Wired, HandlerWired
  <2>2. /\ handler' \in {[handler EXCEPT ![c] = EndedHandler], [handler EXCEPT ![c] = IdleHandler]}
        /\ \/ inbox' = inbox
           \/ HasRoom(c) /\ inbox' = [inbox EXCEPT ![c] = Append(@, handler[c].msg)]
        /\ overtaken' = [overtaken EXCEPT ![c] = {}]
        /\ missed' \in {missed, [missed EXCEPT ![c] = overtaken[c]]}
        /\ UNCHANGED <<tableVars, channelVars, dnd_mode, requests, disputed, mode_disputed>>
    BY <1>3 DEF WriteResponse, Types, SyncType
  <2>3. InboxType' /\ SyncType'
    <3>1. inbox \in [Client -> Seq(Message)] /\ \A d \in Client : Len(inbox[d]) <= InboxSize
          /\ handler[c].msg \in Message
      BY <2>1 DEF Types, InboxType, Message
    <3>2. InboxType'
      <4>1. CASE inbox' = inbox
        BY <1>0, <4>1 DEF Types, InboxType
      <4>2. CASE HasRoom(c) /\ inbox' = [inbox EXCEPT ![c] = Append(@, handler[c].msg)]
        <5>1. inbox' \in [Client -> Seq(Message)]
          BY <3>1, <4>2
        <5>2. \A d \in Client : Len(inbox'[d]) <= InboxSize
          BY <3>1, <4>2, BoundsAssumption DEF HasRoom
        <5>3. QED  BY <1>0, <5>1, <5>2 DEF Types, InboxType
      <4>3. QED  BY <2>2, <4>1, <4>2
    <3>3. SyncType'
      BY <2>2 DEF Types, SyncType
    <3>4. QED  BY <3>2, <3>3
  <2>4. Wired' /\ handler' \in [Client -> Handler]
    <3>1. \A d \in Client : inbox'[d] = inbox[d] \/ (d = c /\ conn[c] = "open")
      BY <2>2 DEF HasRoom, Types, InboxType
    <3>2. UNCHANGED <<channel, overrun>>
      BY <2>2 DEF channelVars
    <3>3. CASE handler' = [handler EXCEPT ![c] = EndedHandler]
      BY <1>0, <2>1, <3>1, <3>2, <3>3, HandlerIs, HandlerMoves DEF Wired, TaskWired
    <3>4. CASE handler' = [handler EXCEPT ![c] = IdleHandler]
      BY <1>0, <2>1, <3>1, <3>2, <3>4, HandlerIs, HandlerMoves DEF Wired, TaskWired
    <3>5. QED  BY <2>2, <3>3, <3>4
  <2>5. QED  BY <1>0, <1>1, <2>2, <2>3, <2>4
    DEF Types, TableType, ChannelType, HandlerType, ModeType, tableVars, channelVars
<1>4. CASE SendEvent(c)
  <2>1. /\ handler[c].pc = "send" /\ handler[c].msg \in Event
        /\ Send(handler[c].msg) /\ handler' = [handler EXCEPT ![c] = IdleHandler]
        /\ UNCHANGED <<tableVars, inbox, dnd_mode, requests, history>>
        /\ conn[c] \in {"open", "closed"}
    BY <1>4, Accepted DEF SendEvent, Wired, HandlerWired, HandlerEvent
  <2>2. ChannelType' /\ (overrun' => channel' # <<>>)
    BY <2>1, SendType DEF Types, Wired, TaskWired
  <2>3. Wired' /\ handler' \in [Client -> Handler]
    BY <1>0, <2>1, <2>2, HandlerIs, HandlerMoves
  <2>4. QED  BY <1>0, <1>1, <2>1, <2>2, <2>3
    DEF Types, TableType, InboxType, HandlerType, ModeType, SyncType, tableVars, history, syncHistory
<1>5. CASE SendCleared(c)
  <2>1. /\ handler[c].pc = "clear"
        /\ Send(AllCleared) /\ handler' = [handler EXCEPT ![c] = IdleHandler]
        /\ disputed' = disputed \cup {n \in Pending : arrival[n] # "stored"}
        /\ UNCHANGED <<tableVars, inbox, dnd_mode, requests, syncHistory, mode_disputed>>
        /\ conn[c] \in {"open", "closed"}
    BY <1>5, Accepted DEF SendCleared
  <2>2. ChannelType' /\ (overrun' => channel' # <<>>)
    BY <2>1, SendType, EventKinds DEF Types, Wired, TaskWired
  <2>3. Wired' /\ handler' \in [Client -> Handler]
    BY <1>0, <2>1, <2>2, HandlerIs, HandlerMoves
  <2>4. QED  BY <1>0, <1>1, <2>1, <2>2, <2>3
    DEF Types, TableType, InboxType, HandlerType, ModeType, SyncType, tableVars, syncHistory, Pending
<1>6. ASSUME NEW n \in Note, ClearOne(c, n)  PROVE Types' /\ Wired'
  <2> DEFINE h == [handler[c] EXCEPT !.rows = handler[c].rows \ {n}]
  <2>1. /\ handler[c].pc = "clear" /\ UpdateDismissed(n)
        /\ handler' = [handler EXCEPT ![c] = h]
        /\ UNCHANGED <<channelVars, inbox, dnd_mode, requests, syncHistory, mode_disputed>>
        /\ conn[c] \in {"open", "closed"}
    BY <1>6, Accepted DEF ClearOne
  <2>2. h \in Handler /\ h.pc = "clear" /\ h.msg = NoMsg
    BY <1>1, <2>1 DEF Handler, Wired, HandlerWired
  <2> HIDE DEF h
  <2>3. Wired' /\ handler' \in [Client -> Handler]
    BY <1>0, <2>1, <2>2, HandlerMoves DEF Wired, TaskWired, channelVars
  <2>4. TableType'
    BY <2>1, UpdateType DEF Types
  <2>5. QED  BY <1>0, <1>1, <2>1, <2>3, <2>4
    DEF Types, ChannelType, InboxType, HandlerType, ModeType, SyncType, channelVars, syncHistory
<1>7. QED  BY <1>2, <1>3, <1>4, <1>5, <1>6 DEF Handle

LEMMA RequestTypes ==
    ASSUME Types, Wired, NEW c \in Client, Request(c)
    PROVE  Types' /\ Wired'
<1>0. /\ UNCHANGED sessionFrame
      /\ ManagerType' /\ TaskType' /\ WritersType' /\ ConnType' /\ got' = got
  BY SessionFrame DEF Request
<1>1. /\ TableType /\ ChannelType /\ InboxType /\ ModeType /\ SyncType
      /\ handler \in [Client -> Handler] /\ requests \in 0..MaxRequests
      /\ overrun => channel # <<>>
  BY DEF Types, HandlerType, Wired, TaskWired
<1>2. \A kind : Reads(c, kind) => /\ requests' \in 0..MaxRequests
                                  /\ handler[c].pc = "idle"
                                  /\ conn[c] \in {"open", "closed"}
  BY <1>1, BoundsAssumption DEF Reads
<1>3. CASE Hello(c)
  <2> DEFINE full == [IdleHandler EXCEPT !.pc = "mode", !.rows = Pending, !.seen = read \cap Pending]
             empty == [IdleHandler EXCEPT !.pc = "mode"]
  <2>1. /\ Reads(c, "Hello")
        /\ handler' \in {[handler EXCEPT ![c] = full], [handler EXCEPT ![c] = empty]}
        /\ overtaken' \in {[overtaken EXCEPT ![c] = {}], [overtaken EXCEPT ![c] = Note]}
        /\ UNCHANGED <<tableVars, channelVars, inbox, dnd_mode, disputed, missed, mode_disputed>>
    BY <1>3 DEF Hello
  <2>2. /\ full \in Handler /\ full.pc = "mode" /\ full.msg = NoMsg
        /\ empty \in Handler /\ empty.pc = "mode" /\ empty.msg = NoMsg
    BY <1>1 DEF IdleHandler, Handler, Pending, TableType
  <2> HIDE DEF full, empty
  <2>3. Wired' /\ handler' \in [Client -> Handler]
    <3>1. CASE handler' = [handler EXCEPT ![c] = full]
      BY <1>0, <1>1, <1>2, <2>1, <2>2, <3>1, HandlerMoves DEF channelVars
    <3>2. CASE handler' = [handler EXCEPT ![c] = empty]
      BY <1>0, <1>1, <1>2, <2>1, <2>2, <3>2, HandlerMoves DEF channelVars
    <3>3. QED  BY <2>1, <3>1, <3>2
  <2>4. SyncType'
    BY <1>1, <2>1 DEF SyncType
  <2>5. QED  BY <1>0, <1>1, <1>2, <2>1, <2>3, <2>4
    DEF Types, TableType, ChannelType, InboxType, HandlerType, ModeType, tableVars, channelVars
<1>4. CASE Query(c)
  <2>0. PICK rows \in SUBSET stored :
           handler' = [handler EXCEPT ![c] = [IdleHandler EXCEPT !.pc = "respond",
                                                                 !.msg = Reply(rows)]]
    BY <1>4 DEF Query
  <2> DEFINE h == [IdleHandler EXCEPT !.pc = "respond", !.msg = Reply(rows)]
  <2>1. /\ Reads(c, "Query") /\ handler' = [handler EXCEPT ![c] = h]
        /\ UNCHANGED <<tableVars, channelVars, inbox, dnd_mode, history>>
    BY <1>4, <2>0 DEF Query
  <2>2. h \in Handler /\ h.pc = "respond" /\ h.msg \in Response
    <3>1. rows \in SUBSET Note
      BY <1>1 DEF TableType
    <3>2. QED  BY <3>1, ResponseKinds DEF IdleHandler, Handler
  <2> HIDE DEF h
  <2>3. Wired' /\ handler' \in [Client -> Handler]
    BY <1>0, <1>1, <1>2, <2>1, <2>2, HandlerMoves DEF channelVars
  <2>4. QED  BY <1>0, <1>1, <1>2, <2>1, <2>3
    DEF Types, TableType, ChannelType, InboxType, HandlerType, ModeType, SyncType, tableVars,
        channelVars, history, syncHistory
<1>5. CASE ClearAll(c)
  <2>1. PICK rows \in {Pending} \cup (IF MayFail THEN {{}} ELSE {}) :
           handler' = [handler EXCEPT ![c] = [IdleHandler EXCEPT !.pc = "clear", !.rows = rows]]
    BY <1>5 DEF ClearAll
  <2> DEFINE h == [IdleHandler EXCEPT !.pc = "clear", !.rows = rows]
  <2>2. /\ Reads(c, "ClearAll") /\ handler' = [handler EXCEPT ![c] = h]
        /\ UNCHANGED <<tableVars, channelVars, inbox, dnd_mode, history>>
    BY <1>5, <2>1 DEF ClearAll
  <2>3. h \in Handler /\ h.pc = "clear" /\ h.msg = NoMsg
    <3>1. rows \in SUBSET Note
      BY <1>1, <2>1 DEF Pending, TableType
    <3>2. QED  BY <3>1 DEF IdleHandler, Handler
  <2> HIDE DEF h
  <2>4. Wired' /\ handler' \in [Client -> Handler]
    BY <1>0, <1>1, <1>2, <2>2, <2>3, HandlerMoves DEF channelVars
  <2>5. QED  BY <1>0, <1>1, <1>2, <2>2, <2>4
    DEF Types, TableType, ChannelType, InboxType, HandlerType, ModeType, SyncType, tableVars,
        channelVars, history, syncHistory
<1>6. CASE HandlerEnds(c)
  <2>1. /\ handler[c].pc = "idle" /\ handler' = [handler EXCEPT ![c] = EndedHandler]
        /\ UNCHANGED <<tableVars, channelVars, inbox, dnd_mode, requests, history>>
        /\ conn[c] \in {"open", "closed"}
    BY <1>6, Accepted DEF HandlerEnds
  <2>2. Wired' /\ handler' \in [Client -> Handler]
    BY <1>0, <1>1, <2>1, HandlerIs, HandlerMoves DEF channelVars
  <2>3. QED  BY <1>0, <1>1, <2>1, <2>2
    DEF Types, TableType, ChannelType, InboxType, HandlerType, ModeType, SyncType, tableVars,
        channelVars, history, syncHistory
<1>7. ASSUME NEW n \in Note, Dismiss(c, n) \/ MarkRead(c, n)
      PROVE  Types' /\ Wired'
  <2>1. PICK e \in HandlerEvent : handler' = [handler EXCEPT ![c] = ToSend(e)]
    BY <1>7, EventKinds DEF Dismiss, MarkRead, HandlerEvent
  <2>2. /\ \E kind : Reads(c, kind)
        /\ UpdateDismissed(n) \/ UpdateRead(n)
        /\ UNCHANGED <<channelVars, inbox, dnd_mode, syncHistory, mode_disputed>>
    BY <1>7 DEF Dismiss, MarkRead
  <2>3. TableType'
    BY <1>1, <2>2, UpdateType
  <2>4. Wired' /\ handler' \in [Client -> Handler]
    BY <1>0, <1>1, <1>2, <2>1, <2>2, HandlerIs, HandlerMoves DEF channelVars, HandlerEvent
  <2>5. QED  BY <1>0, <1>1, <1>2, <2>2, <2>3, <2>4
    DEF Types, ChannelType, InboxType, HandlerType, ModeType, SyncType, channelVars, syncHistory
<1>8. ASSUME NEW n \in Note, InvokeAction(c, n)  PROVE Types' /\ Wired'
  <2>1. /\ Reads(c, "InvokeAction") /\ Send(NoteEvent("ActionInvoked", n))
        /\ UNCHANGED <<tableVars, inbox, handler, dnd_mode, history>>
    BY <1>8 DEF InvokeAction
  <2>2. ChannelType' /\ (overrun' => channel' # <<>>)
    BY <1>1, <2>1, SendType, EventKinds
  <2>3. Wired'
    <3>1. UNCHANGED <<task, writers, conn, view, handler, inbox, got>>
      BY <1>0, <2>1, SessionFrame
    <3>2. QED  BY <2>2, <3>1 DEF Wired, HandlerWired, ConnWired, DeadWired, TaskWired
  <2>4. QED  BY <1>0, <1>1, <1>2, <2>1, <2>2, <2>3
    DEF Types, TableType, InboxType, HandlerType, ModeType, SyncType, tableVars, history, syncHistory
<1>9. ASSUME NEW w \in WireModes, SetDnd(c, w)  PROVE Types' /\ Wired'
  <2>1. FromWire(w) \in DndModes
    BY DEF FromWire, DndModes
  <2>2. /\ Reads(c, "SetDnd") /\ dnd_mode' = FromWire(w)
        /\ handler' = [handler EXCEPT ![c] = ToSend(DndChanged(FromWire(w)))]
        /\ mode_disputed' \in BOOLEAN
        /\ UNCHANGED <<tableVars, channelVars, inbox, disputed, syncHistory>>
    BY <1>9 DEF SetDnd
  <2>3. Wired' /\ handler' \in [Client -> Handler]
    <3> DEFINE e == DndChanged(FromWire(w))
               h == ToSend(e)
    <3>1. e \in HandlerEvent
      BY <2>1, EventKinds DEF HandlerEvent
    <3>2. h \in Handler /\ h.pc = "send" /\ h.msg \in HandlerEvent
      <4> HIDE DEF e
      <4> QED  BY <3>1, HandlerIs DEF HandlerEvent
    <3>3. handler' = [handler EXCEPT ![c] = h] /\ inbox' = inbox /\ conn[c] \in {"open", "closed"}
          /\ UNCHANGED sessionFrame /\ (overrun' => channel' # <<>>)
      BY <1>0, <1>1, <1>2, <2>2 DEF channelVars
    <3> HIDE DEF h
    <3>4. QED  BY <3>2, <3>3, HandlerMoves
  <2>4. QED  BY <1>0, <1>1, <1>2, <2>1, <2>2, <2>3
    DEF Types, TableType, ChannelType, InboxType, HandlerType, ModeType, SyncType, tableVars,
        channelVars, syncHistory
<1>10. QED  BY <1>3, <1>4, <1>5, <1>6, <1>7, <1>8, <1>9 DEF Request

LEMMA InitWired == Init => Types /\ Wired
<1> SUFFICES ASSUME Init  PROVE Types /\ Wired
  OBVIOUS
<1>1. /\ <<>> \in Seq(Event) /\ <<>> \in Seq(Message) /\ <<>> \in Seq(Nat) /\ <<>> \in Seq(Client)
      /\ Len(<<>>) = 0 /\ DOMAIN <<>> = {}
  OBVIOUS
<1>2. EmptyView \in View
  BY DEF EmptyView, View, DndModes
<1>3. task = [pc |-> "recv", event |-> NoMsg, next |-> 1, dead |-> <<>>]
  BY DEF Init, ReceivingTask
<1>4. TaskType /\ TaskWired /\ DeadWired
  BY <1>1, <1>3 DEF Init, TaskType, TaskWired, DeadWired, Increasing
<1>5. Types
  <2>1. TableType /\ ManagerType /\ ModeType /\ SyncType
    <3>1. 0 \in 0..MaxMirrors
      BY BoundsAssumption
    <3>2. TableType /\ ManagerType
      BY <3>1 DEF Init, TableType, ManagerType
    <3>3. ModeType /\ SyncType
      BY DEF Init, ModeType, SyncType, DndModes
    <3>4. QED  BY <3>2, <3>3
  <2>2. ChannelType /\ WritersType
    <3>1. channel \in Seq(Event) /\ Len(channel) <= Capacity /\ log \in Seq(Event)
          /\ writers \in Seq(Client) /\ DOMAIN writers = {}
      BY <1>1, BoundsAssumption DEF Init
    <3>2. QED  BY <3>1 DEF Init, ChannelType, WritersType, IsInjective
  <2>3. ConnType /\ InboxType /\ HandlerType
    <3>1. inbox \in [Client -> Seq(Message)] /\ got \in [Client -> Seq(Event)]
          /\ \A c \in Client : Len(inbox[c]) <= InboxSize
      BY <1>1, BoundsAssumption DEF Init
    <3>2. QED  BY <1>2, <3>1, HandlerIs, BoundsAssumption DEF Init, ConnType, InboxType, HandlerType
  <2>4. QED  BY <1>4, <2>1, <2>2, <2>3 DEF Types
<1>6. \A c \in Client : HandlerWired(c) /\ ConnWired(c)
  BY <1>1, HandlerIs DEF Init, HandlerWired, ConnWired
<1>7. QED  BY <1>4, <1>5, <1>6 DEF Wired

LEMMA NextWired == Types /\ Wired /\ [Next]_vars => Types' /\ Wired'
<1> SUFFICES ASSUME Types, Wired, [Next]_vars  PROVE Types' /\ Wired'
  OBVIOUS
<1>1. CASE Manager
  BY <1>1, ManagerTypes
<1>2. CASE Broadcast
  BY <1>2, BroadcastTypes
<1>3. CASE AcceptFails
  BY <1>3, AcceptFailsTypes
<1>4. ASSUME NEW c \in Client, Connect(c) \/ Accept(c) \/ ClientRead(c) \/ ClientClose(c)
      PROVE  Types' /\ Wired'
  BY <1>4, ConnectionTypes
<1>5. ASSUME NEW c \in Client, Request(c) \/ Handle(c)  PROVE Types' /\ Wired'
  BY <1>5, RequestTypes, HandleTypes
<1>6. CASE UNCHANGED vars
  <2> USE DEF vars, tableVars, managerVars, channelVars, serverVars, clientVars, history, syncHistory
  <2>1. Types'
    BY <1>6
    DEF Types, TableType, ManagerType, ChannelType, TaskType, WritersType, ConnType, InboxType,
        HandlerType, ModeType, SyncType
  <2>2. Wired'
    BY <1>6 DEF Wired, HandlerWired, ConnWired, DeadWired, TaskWired
  <2>3. QED  BY <2>1, <2>2
<1>7. QED  BY <1>1, <1>2, <1>3, <1>4, <1>5, <1>6 DEF Next

LEMMA SpecWired == Spec => [](Types /\ Wired)
BY InitWired, NextWired, PTL DEF Spec

\* The variables keep their types, for any number of clients: the channel and the
\* buffers keep their limits, and no connection is registered twice.
THEOREM SocketTypeOK == Spec => []TypeOK
<1>1. Types => TypeOK
  BY TypeParts
<1>2. QED  BY <1>1, SpecWired, PTL

-----------------------------------------------------------------------------
(* Topics *)

\* What a client shows once it has read m.
After(v, m) ==
    [synced |-> v.synced \/ m.kind = "Sync",
     shown |-> Shown(v, m), read |-> ShownRead(v, m),
     mode |-> IF m.kind \in {"Sync", "DndChanged"} THEN m.mode ELSE v.mode]

\* What a topic has to be: no event of it is skipped, every Sync belongs to it, and
\* what is shown is right once something right has been read, until something else
\* of the topic is.
IsTopic(topic, right) ==
    /\ right \subseteq topic /\ topic \subseteq Message
    /\ \A e \in Event : e \in topic => ~TooLarge(e)
    /\ \A m \in Message : m.kind = "Sync" => m \in topic
    /\ \A m \in Message : m.kind = "Reply" => m \notin topic
    /\ \A v \in View, m \in Message :
          m \in right \/ (m \notin topic /\ AsSync(v) \in right) => AsSync(After(v, m)) \in right

LEMMA AppendFacts ==
    ASSUME NEW S, NEW s \in Seq(S), NEW x \in S
    PROVE  /\ Append(s, x) \in Seq(S) /\ Len(s) \in Nat
           /\ DOMAIN s = 1..Len(s) /\ DOMAIN Append(s, x) = 1..(Len(s) + 1)
           /\ Append(s, x)[Len(s) + 1] = x
           /\ \A i \in 1..Len(s) : Append(s, x)[i] = s[i]
OBVIOUS

LEMMA TailFacts ==
    ASSUME NEW S, NEW s \in Seq(S), s # <<>>
    PROVE  /\ Tail(s) \in Seq(S) /\ Len(s) \in Nat \ {0}
           /\ DOMAIN s = 1..Len(s) /\ DOMAIN Tail(s) = 1..(Len(s) - 1)
           /\ Head(s) = s[1] /\ Head(s) \in S
           /\ \A i \in 1..(Len(s) - 1) : Tail(s)[i] = s[i + 1]
OBVIOUS

\* Something right at the end makes it end well; what is not of the topic does not
\* matter.
LEMMA AppendEndsWell ==
    ASSUME NEW topic, NEW right \in SUBSET topic, NEW S, NEW s \in Seq(S), NEW x \in S
    PROVE  /\ x \in right => EndsWell(Append(s, x), topic, right)
           /\ x \notin topic /\ EndsWell(s, topic, right) => EndsWell(Append(s, x), topic, right)
           /\ Mentions(Append(s, x), topic) <=> Mentions(s, topic) \/ x \in topic
<1> DEFINE t == Append(s, x)
           m == Len(s)
<1>1. /\ m \in Nat /\ DOMAIN s = 1..m /\ DOMAIN t = 1..(m + 1)
      /\ t[m + 1] = x /\ \A i \in 1..m : t[i] = s[i]
  BY AppendFacts
<1> HIDE DEF t, m
<1>2. Mentions(t, topic) <=> Mentions(s, topic) \/ x \in topic
  BY <1>1 DEF Mentions
<1>3. ASSUME x \in right, NEW i \in DOMAIN t, t[i] \in topic,
             \A j \in DOMAIN t : j > i => t[j] \notin topic
      PROVE  t[i] \in right
  BY <1>1, <1>3
<1>4. ASSUME x \notin topic, EndsWell(s, topic, right), NEW i \in DOMAIN t, t[i] \in topic,
             \A j \in DOMAIN t : j > i => t[j] \notin topic
      PROVE  t[i] \in right
  <2>1. i \in DOMAIN s /\ s[i] \in topic /\ \A j \in DOMAIN s : j > i => s[j] \notin topic
    BY <1>1, <1>4
  <2>2. QED  BY <1>1, <1>4, <2>1 DEF EndsWell
<1>5. QED  BY <1>2, <1>3, <1>4 DEF EndsWell, t

LEMMA TailEndsWell ==
    ASSUME NEW topic, NEW right, NEW S, NEW s \in Seq(S), s # <<>>, EndsWell(s, topic, right)
    PROVE  /\ EndsWell(Tail(s), topic, right)
           /\ Mentions(s, topic) <=> Head(s) \in topic \/ Mentions(Tail(s), topic)
           /\ Head(s) \in topic /\ ~Mentions(Tail(s), topic) => Head(s) \in right
<1> DEFINE t == Tail(s)
           m == Len(s)
<1>1. /\ m \in Nat \ {0} /\ DOMAIN s = 1..m /\ DOMAIN t = 1..(m - 1)
      /\ Head(s) = s[1] /\ \A i \in 1..(m - 1) : t[i] = s[i + 1]
  BY TailFacts
<1> HIDE DEF t, m
<1>2. /\ \A i \in DOMAIN s : i # 1 => i - 1 \in DOMAIN t /\ s[i] = t[i - 1]
      /\ \A i \in DOMAIN t : i + 1 \in DOMAIN s /\ s[i + 1] = t[i]
      /\ 1 \in DOMAIN s
  <2>1. \A i \in 2..m : (i - 1) + 1 = i /\ i - 1 \in 1..(m - 1)
    BY <1>1
  <2>2. QED  BY <1>1, <2>1
<1>3. Mentions(s, topic) <=> Head(s) \in topic \/ Mentions(t, topic)
  <2>1. ASSUME Mentions(s, topic)  PROVE Head(s) \in topic \/ Mentions(t, topic)
    <3>1. PICK i \in DOMAIN s : s[i] \in topic
      BY <2>1 DEF Mentions
    <3>2. QED  BY <1>1, <1>2, <3>1 DEF Mentions
  <2>2. ASSUME Head(s) \in topic \/ Mentions(t, topic)  PROVE Mentions(s, topic)
    <3>1. CASE Head(s) \in topic
      BY <1>1, <1>2, <3>1 DEF Mentions
    <3>2. CASE Mentions(t, topic)
      BY <1>2, <3>2 DEF Mentions
    <3>3. QED  BY <2>2, <3>1, <3>2
  <2>3. QED  BY <2>1, <2>2
<1>4. ASSUME NEW i \in DOMAIN t, t[i] \in topic, \A j \in DOMAIN t : j > i => t[j] \notin topic
      PROVE  t[i] \in right
  <2>1. i + 1 \in DOMAIN s /\ s[i + 1] = t[i]
    BY <1>1
  <2>2. \A j \in DOMAIN s : j > i + 1 => s[j] \notin topic
    <3>1. ASSUME NEW j \in DOMAIN s, j > i + 1  PROVE s[j] \notin topic
      <4>1. j # 1 /\ j - 1 > i /\ i \in Nat
        BY <1>1, <3>1
      <4>2. QED  BY <1>2, <1>4, <4>1
    <3>2. QED  BY <3>1
  <2>3. QED  BY <1>4, <2>1, <2>2 DEF EndsWell
<1>5. ASSUME Head(s) \in topic, ~Mentions(t, topic)  PROVE Head(s) \in right
  <2>1. 1 \in DOMAIN s /\ s[1] \in topic
    BY <1>1, <1>5
  <2>2. \A j \in DOMAIN s : j > 1 => s[j] \notin topic
    <3>1. ASSUME NEW j \in DOMAIN s, j > 1  PROVE s[j] \notin topic
      <4>1. j - 1 \in DOMAIN t /\ s[j] = t[j - 1]
        BY <1>1, <1>2, <3>1
      <4>2. QED  BY <1>5, <4>1 DEF Mentions
    <3>2. QED  BY <3>1
  <2>3. QED  BY <1>1, <2>1, <2>2 DEF EndsWell
<1>6. QED  BY <1>3, <1>4, <1>5 DEF EndsWell, t

LEMMA EmptyEndsWell ==
    \A topic, right : EndsWell(<<>>, topic, right) /\ ~Mentions(<<>>, topic)
BY DEF EndsWell, Mentions

LEMMA AfterView ==
    ASSUME NEW v \in View, NEW m \in Message
    PROVE  /\ After(v, m) \in View
           /\ LET w == After(v, m) IN
                  /\ w.synced = (v.synced \/ m.kind = "Sync")
                  /\ w.shown = Shown(v, m) /\ w.read = ShownRead(v, m)
                  /\ w.mode = IF m.kind \in {"Sync", "DndChanged"} THEN m.mode ELSE v.mode
<1>1. m.kind = "Sync" => m.rows \in SUBSET Note /\ m.seen \in SUBSET Note /\ m.mode \in DndModes
  BY EventKinds, ResponseKinds DEF Message
<1>2. m.kind = "DndChanged" => m.mode \in DndModes
  BY EventKinds, ResponseKinds DEF Message
<1>3. m.kind \in {"Added", "Closed", "Read"} => m.note \in Note
  BY EventKinds, ResponseKinds DEF Message
<1>4. v.synced \in BOOLEAN /\ v.shown \in SUBSET Note /\ v.read \in SUBSET Note
      /\ v.mode \in DndModes
  BY DEF View
<1>5. Shown(v, m) \in SUBSET Note /\ ShownRead(v, m) \in SUBSET Note
  BY <1>1, <1>3, <1>4 DEF Shown, ShownRead
<1>6. (IF m.kind \in {"Sync", "DndChanged"} THEN m.mode ELSE v.mode) \in DndModes
  BY <1>1, <1>2, <1>4
<1>7. (v.synced \/ m.kind = "Sync") \in BOOLEAN
  OBVIOUS
<1>8. QED  BY <1>5, <1>6, <1>7 DEF After, View

\* What a client shows, as a message.
LEMMA AsSyncIs ==
    \A w \in View : /\ AsSync(w) \in Message /\ AsSync(w).kind = "Sync"
                    /\ AsSync(w).rows = w.shown /\ AsSync(w).seen = w.read
                    /\ AsSync(w).mode = w.mode
BY ResponseKinds DEF AsSync, View, Message

LEMMA MessageKinds ==
    \A m \in Message :
        /\ m.kind \in {"Added", "Closed", "Read", "ActionInvoked", "AllCleared", "DndChanged",
                       "Sync", "Reply"}
        /\ m \in Event => m.kind \notin {"Sync", "Reply"}
BY EventKinds, ResponseKinds DEF Message

LEMMA RowIsTopic ==
    ASSUME NEW n \in Note \ Big, NEW pending, NEW sent
    PROVE  IsTopic(RowTopic(n), RowRightOf(n, pending, sent))
<1>1. RowRightOf(n, pending, sent) \subseteq RowTopic(n) /\ RowTopic(n) \subseteq Message
  BY DEF RowRightOf, RowTopic
<1>2. \A e \in Event : e \in RowTopic(n) => ~TooLarge(e)
  BY EventKinds, MessageKinds DEF RowTopic, TooLarge, Message
<1>3. /\ \A m \in Message : m.kind = "Sync" => m \in RowTopic(n)
      /\ \A m \in Message : m.kind = "Reply" => m \notin RowTopic(n)
  BY ResponseKinds DEF RowTopic
<1>4. ASSUME NEW v \in View, NEW m \in Message,
             m \in RowRightOf(n, pending, sent) \/ (m \notin RowTopic(n) /\ AsSync(v) \in RowRightOf(n, pending, sent))
      PROVE  AsSync(After(v, m)) \in RowRightOf(n, pending, sent)
  <2> DEFINE w == AsSync(After(v, m))
  <2>1. /\ w \in RowTopic(n) /\ w.kind = "Sync" /\ (Shows(w, n) <=> n \in Shown(v, m))
        /\ AsSync(v) \in RowTopic(n) /\ (Shows(AsSync(v), n) <=> n \in v.shown)
    <3>1. After(v, m) \in View /\ After(v, m).shown = Shown(v, m)
      BY AfterView
    <3>2. QED  BY <1>3, <3>1, AsSyncIs DEF Shows
  <2>2. CASE m \in RowRightOf(n, pending, sent)
    <3>1. m \in RowTopic(n)
      BY <1>1, <2>2
    <3>2. n \in Shown(v, m) <=> Shows(m, n)
      BY <3>1 DEF RowTopic, Shown, Shows
    <3>3. QED  BY <2>1, <2>2, <3>2 DEF RowRightOf
  <2>3. CASE m \notin RowTopic(n) /\ AsSync(v) \in RowRightOf(n, pending, sent)
    <3>1. n \in Shown(v, m) <=> n \in v.shown
      BY <2>3 DEF RowTopic, Shown
    <3>2. QED  BY <2>1, <2>3, <3>1 DEF RowRightOf
  <2>4. QED  BY <1>4, <2>2, <2>3
<1>5. QED  BY <1>1, <1>2, <1>3, <1>4 DEF IsTopic

LEMMA ReadIsTopic ==
    ASSUME NEW n \in Note \ Big, NEW gone, NEW seen
    PROVE  IsTopic(ReadTopic(n), ReadRightOf(n, gone, seen))
<1>1. ReadRightOf(n, gone, seen) \subseteq ReadTopic(n) /\ ReadTopic(n) \subseteq Message
  BY DEF ReadRightOf, ReadTopic
<1>2. \A e \in Event : e \in ReadTopic(n) => ~TooLarge(e)
  BY EventKinds, MessageKinds DEF ReadTopic, TooLarge, Message
<1>3. /\ \A m \in Message : m.kind = "Sync" => m \in ReadTopic(n)
      /\ \A m \in Message : m.kind = "Reply" => m \notin ReadTopic(n)
  BY ResponseKinds DEF ReadTopic
<1>4. ASSUME NEW v \in View, NEW m \in Message,
             m \in ReadRightOf(n, gone, seen) \/ (m \notin ReadTopic(n) /\ AsSync(v) \in ReadRightOf(n, gone, seen))
      PROVE  AsSync(After(v, m)) \in ReadRightOf(n, gone, seen)
  <2> DEFINE w == AsSync(After(v, m))
  <2>1. /\ w \in ReadTopic(n) /\ w.kind = "Sync" /\ (Marks(w, n) <=> n \in ShownRead(v, m))
        /\ AsSync(v) \in ReadTopic(n) /\ (Marks(AsSync(v), n) <=> n \in v.read)
    <3>1. After(v, m) \in View /\ After(v, m).read = ShownRead(v, m)
      BY AfterView
    <3>2. QED  BY <1>3, <3>1, AsSyncIs DEF Marks
  <2>2. CASE m \in ReadRightOf(n, gone, seen)
    <3>1. m \in ReadTopic(n)
      BY <1>1, <2>2
    <3>2. n \in ShownRead(v, m) <=> Marks(m, n)
      BY <3>1 DEF ReadTopic, ShownRead, Marks
    <3>3. QED  BY <2>1, <2>2, <3>2 DEF ReadRightOf
  <2>3. CASE m \notin ReadTopic(n) /\ AsSync(v) \in ReadRightOf(n, gone, seen)
    <3>1. n \in ShownRead(v, m) <=> n \in v.read
      BY <2>3 DEF ReadTopic, ShownRead
    <3>2. QED  BY <2>1, <2>3, <3>1 DEF ReadRightOf
  <2>4. QED  BY <1>4, <2>2, <2>3
<1>5. QED  BY <1>1, <1>2, <1>3, <1>4 DEF IsTopic

LEMMA ModeIsTopic ==
    ASSUME NEW mode
    PROVE  IsTopic(ModeTopic, ModeRightOf(mode))
<1>1. ModeRightOf(mode) \subseteq ModeTopic /\ ModeTopic \subseteq Message
  BY DEF ModeRightOf, ModeTopic
<1>2. \A e \in Event : e \in ModeTopic => ~TooLarge(e)
  BY MessageKinds DEF ModeTopic, TooLarge, Message
<1>3. /\ \A m \in Message : m.kind = "Sync" => m \in ModeTopic
      /\ \A m \in Message : m.kind = "Reply" => m \notin ModeTopic
  BY ResponseKinds DEF ModeTopic
<1>4. ASSUME NEW v \in View, NEW m \in Message,
             m \in ModeRightOf(mode) \/ (m \notin ModeTopic /\ AsSync(v) \in ModeRightOf(mode))
      PROVE  AsSync(After(v, m)) \in ModeRightOf(mode)
  <2>1. After(v, m) \in View
        /\ After(v, m).mode = IF m.kind \in {"Sync", "DndChanged"} THEN m.mode ELSE v.mode
    BY AfterView
  <2>2. QED  BY <1>3, <1>4, <2>1, AsSyncIs DEF ModeRightOf, ModeTopic
<1>5. QED  BY <1>1, <1>2, <1>3, <1>4 DEF IsTopic

-----------------------------------------------------------------------------
(* What a step leaves right *)

LEMMA LiveBefore == [Next]_vars /\ Live' => Live
<1> SUFFICES ASSUME [Next]_vars, Live'  PROVE Live
  OBVIOUS
<1>1. \A e : Send(e) /\ task' = task => Live
  BY DEF Send, Live, channelVars
<1>2. CASE Manager
  <2>1. task' = task
    BY <1>2 DEF Manager, managerFrame
  <2>2. UNCHANGED channelVars => Live
    BY <2>1 DEF Live, channelVars
  <2>3. ASSUME NEW n \in Note, Store(n) \/ CloseDismiss(n)  PROVE UNCHANGED channelVars
    BY <2>3 DEF Store, CloseDismiss
  <2>4. ASSUME NEW n \in Note, Announce(n) \/ CloseBroadcast(n)
        PROVE  UNCHANGED channelVars \/ \E e : Send(e)
    BY <2>4 DEF Announce, CloseBroadcast
  <2>5. ASSUME NEW m \in ConfigModes, Mirror(m)  PROVE UNCHANGED channelVars
    BY <2>5 DEF Mirror
  <2>6. QED  BY <1>1, <1>2, <2>1, <2>2, <2>3, <2>4, <2>5 DEF Manager
<1>3. CASE Broadcast
  <2>1. CASE Receive
    BY <2>1 DEF Receive, Live, ReceivingTask
  <2>2. CASE LockWriters \/ Finish \/ \E c \in Client : WriteTo(c)
    BY <2>2 DEF LockWriters, Finish, WriteTo, Live
  <2>3. QED  BY <1>3, <2>1, <2>2 DEF Broadcast
<1>4. CASE AcceptFails \/ \E c \in Client : Connect(c) \/ Accept(c) \/ ClientRead(c) \/ ClientClose(c)
  BY <1>4 DEF AcceptFails, Connect, Accept, ClientRead, ClientClose, connectionFrame, channelVars, Live
<1>5. ASSUME NEW c \in Client, Request(c)  PROVE Live
  <2>1. task' = task /\ (UNCHANGED channelVars \/ \E e : Send(e))
    BY <1>5 DEF Request, Hello, Query, ClearAll, HandlerEnds, Dismiss, MarkRead, InvokeAction, SetDnd,
       sessionFrame
  <2>2. QED  BY <1>1, <2>1 DEF Live, channelVars
<1>6. ASSUME NEW c \in Client, Handle(c)  PROVE Live
  BY <1>1, <1>6 DEF Handle, HelloMode, WriteResponse, SendEvent, SendCleared, ClearOne, Live,
     sessionFrame, channelVars
<1>7. CASE UNCHANGED vars
  BY <1>7 DEF vars, Live, channelVars
<1>8. QED  BY <1>2, <1>3, <1>4, <1>5, <1>6, <1>7 DEF Next

\* With everybody still to be told, what is sent is appended.
LEMMA SendAppends ==
    ASSUME Types, NEW e \in Event, Send(e), task' = task, Live'
    PROVE  channel \in Seq(Event) /\ channel' = Append(channel, e)
<1>1. task.pc # "ended" /\ ~overrun'
  BY DEF Live
<1>2. channel \in Seq(Event) /\ Len(channel) <= Capacity
  BY DEF Types, ChannelType
<1>3. Len(channel) < Capacity
  <2>1. overrun' = (overrun \/ Len(channel) = Capacity)
    BY <1>1 DEF Send
  <2>2. Len(channel) # Capacity
    BY <1>1, <2>1
  <2>3. Len(channel) \in Nat
    BY <1>2
  <2>4. QED  BY <1>2, <2>2, <2>3, BoundsAssumption
<1>4. QED  BY <1>1, <1>2, <1>3 DEF Send

\* As long as a client is sent nothing and learns of nothing, what is said about a
\* topic stays right.
LEMMA StaysOn ==
    ASSUME NEW n, NEW topic, NEW right, NEW c \in Client,
           AgreedOn(c, n, topic, right),
           Coming(c, topic) => Coming(c, topic)',
           HoldsRows(c)' /\ n \notin overtaken'[c] =>
               \/ Snapshot(c)' \in right
               \/ /\ HoldsRows(c) /\ n \notin overtaken[c]
                  /\ Snapshot(c) \in right => Snapshot(c)' \in right,
           n \notin missed'[c] => n \notin missed[c],
           inbox'[c] = inbox[c], view'[c] = view[c]
    PROVE  AgreedOn(c, n, topic, right)'
BY DEF AgreedOn, Held, Told

\* A message is sent that says how it is now: it is coming to everybody.
LEMMA Settles ==
    ASSUME Types, NEW n, NEW topic, NEW right, IsTopic(topic, right),
           NEW e \in Event, e \in right, Send(e), task' = task, Live'
    PROVE  Agreed(n, topic, right)'
<1>1. channel \in Seq(Event) /\ channel' = Append(channel, e)
  BY SendAppends
<1>2. EndsWell(channel', topic, right) /\ Mentions(channel', topic)
  BY <1>1, AppendEndsWell DEF IsTopic
<1>3. QED  BY <1>2 DEF Agreed, Fed, AgreedOn, Held, Told, Coming

\* A step of the manager or of a handler that does not write: it may send something
\* that is not of the topic.
HeldStays(n, right) ==
    \A c \in Client : conn[c] = "open" /\ HoldsRows(c)' /\ n \notin overtaken'[c] =>
        \/ Snapshot(c)' \in right
        \/ /\ HoldsRows(c) /\ n \notin overtaken[c]
           /\ Snapshot(c) \in right => Snapshot(c)' \in right

LEMMA Apart ==
    ASSUME Types, NEW n, NEW topic, NEW right, IsTopic(topic, right), Agreed(n, topic, right), Live',
           UNCHANGED <<task, writers, conn, view, inbox, missed>>, HeldStays(n, right),
           UNCHANGED channel \/ \E e \in Event \ topic : Send(e)
    PROVE  Agreed(n, topic, right)'
<1>1. /\ EndsWell(channel', topic, right)
      /\ Mentions(channel', topic) <=> Mentions(channel, topic)
  <2>1. CASE UNCHANGED channel
    BY <2>1 DEF Agreed, Fed
  <2>2. ASSUME NEW e \in Event \ topic, Send(e)
        PROVE  /\ EndsWell(channel', topic, right)
               /\ Mentions(channel', topic) <=> Mentions(channel, topic)
    <3>1. channel \in Seq(Event) /\ channel' = Append(channel, e)
      BY <2>2, SendAppends
    <3>2. QED  BY <3>1, AppendEndsWell DEF IsTopic, Agreed, Fed
  <2>3. QED  BY <2>1, <2>2
<1>2. Fed(topic, right)'
  BY <1>1 DEF Agreed, Fed
<1>3. ASSUME NEW c \in Client, conn'[c] = "open"  PROVE AgreedOn(c, n, topic, right)'
  <2>1. Coming(c, topic) => Coming(c, topic)'
    BY <1>1 DEF Coming
  <2>2. AgreedOn(c, n, topic, right) /\ conn[c] = "open"
    BY <1>3 DEF Agreed
  <2>3. QED  BY <2>1, <2>2, StaysOn DEF HeldStays
<1>4. QED  BY <1>2, <1>3 DEF Agreed

\* Steps of connections.
LEMMA ConnectionAgreed ==
    ASSUME Types, Wired, NEW n, NEW topic, NEW right, IsTopic(topic, right), Agreed(n, topic, right),
           NEW c \in Client, Connect(c) \/ Accept(c) \/ ClientRead(c) \/ ClientClose(c)
    PROVE  Agreed(n, topic, right)'
<1>0. UNCHANGED <<channel, task, overtaken, missed, dnd_mode>>
  BY DEF Connect, Accept, ClientRead, ClientClose, connectionFrame, channelVars, history, syncHistory
<1>1. Fed(topic, right)'
  BY <1>0 DEF Agreed, Fed
<1>2. /\ conn \in [Client -> {"away", "waiting", "open", "closed"}]
      /\ inbox \in [Client -> Seq(Message)] /\ view \in [Client -> View]
      /\ handler \in [Client -> Handler]
  BY DEF Types, ConnType, InboxType, HandlerType
<1>3. ASSUME NEW d \in Client, conn'[d] = "open", conn[d] = "open",
             inbox'[d] = inbox[d], view'[d] = view[d], handler'[d] = handler[d],
             Coming(d, topic) => Coming(d, topic)'
      PROVE  AgreedOn(d, n, topic, right)'
  <2>1. AgreedOn(d, n, topic, right)
    BY <1>3 DEF Agreed
  <2>2. HoldsRows(d)' = HoldsRows(d) /\ Snapshot(d)' = Snapshot(d)
    BY <1>0, <1>3 DEF HoldsRows, HoldsMode, Snapshot
  <2>3. QED  BY <1>0, <1>3, <2>1, <2>2, StaysOn
<1>4. CASE UNCHANGED writers
  <2>1. \A d \in Client : Coming(d, topic)' = Coming(d, topic)
    BY <1>0, <1>4 DEF Coming
  <2>2. CASE Connect(c)
    BY <1>1, <1>2, <1>3, <2>1, <2>2 DEF Connect, Agreed
  <2>3. CASE ClientClose(c)
    BY <1>1, <1>2, <1>3, <2>1, <2>3 DEF ClientClose, Agreed
  <2>4. CASE ClientRead(c)
    <3> DEFINE v == view[c]
               m == Head(inbox[c])
    <3>1. /\ conn[c] = "open" /\ inbox[c] # <<>> /\ conn' = conn /\ handler' = handler
          /\ inbox' = [inbox EXCEPT ![c] = Tail(@)] /\ view' = [view EXCEPT ![c] = After(v, m)]
      BY <2>4 DEF ClientRead, After
    <3>2. v \in View /\ m \in Message
      BY <1>2, <3>1
    <3>3. inbox'[c] = Tail(inbox[c]) /\ view'[c] = After(v, m)
          /\ \A d \in Client : d # c => inbox'[d] = inbox[d] /\ view'[d] = view[d]
      BY <1>2, <3>1
    <3>4. After(v, m).synced = (v.synced \/ m.kind = "Sync")
      BY <3>2, AfterView
    <3>5. AgreedOn(c, n, topic, right)
      BY <3>1 DEF Agreed
    <3>6. Told(c, topic, right) => Told(c, topic, right)'
      <4> SUFFICES ASSUME Told(c, topic, right), ~Coming(c, topic)
                   PROVE  /\ EndsWell(inbox'[c], topic, right)
                          /\ view'[c].synced /\ ~Mentions(inbox'[c], topic) =>
                                 AsSync(view'[c]) \in right
        BY <2>1 DEF Told
      <4>1. /\ EndsWell(inbox[c], topic, right)
            /\ view[c].synced /\ ~Mentions(inbox[c], topic) => AsSync(view[c]) \in right
        BY DEF Told
      <4>2. inbox[c] \in Seq(Message)
        BY <1>2
      <4>3. /\ EndsWell(Tail(inbox[c]), topic, right)
            /\ Mentions(inbox[c], topic) <=> m \in topic \/ Mentions(Tail(inbox[c]), topic)
            /\ m \in topic /\ ~Mentions(Tail(inbox[c]), topic) => m \in right
        BY <3>1, <4>1, <4>2, TailEndsWell
      <4>4. ASSUME After(v, m).synced, ~Mentions(Tail(inbox[c]), topic)
            PROVE  AsSync(After(v, m)) \in right
        <5>1. CASE m \in topic
          BY <3>2, <4>3, <4>4, <5>1 DEF IsTopic
        <5>2. CASE m \notin topic
          <6>1. m.kind # "Sync"
            BY <3>2, <5>2 DEF IsTopic
          <6>2. AsSync(v) \in right
            BY <3>4, <4>1, <4>3, <4>4, <5>2, <6>1
          <6>3. QED  BY <3>2, <5>2, <6>2 DEF IsTopic
        <5>3. QED  BY <5>1, <5>2
      <4>5. QED  BY <3>3, <4>3, <4>4
    <3>7. AgreedOn(c, n, topic, right)'
      <4>1. Held(c, topic, right)' = Held(c, topic, right)
        BY <1>0, <2>1, <3>1 DEF Held, HoldsRows, HoldsMode, Snapshot
      <4>2. QED  BY <1>0, <3>5, <3>6, <4>1 DEF AgreedOn
    <3>8. QED  BY <1>1, <1>3, <2>1, <3>1, <3>3, <3>7 DEF Agreed
  <2>5. CASE Accept(c)
    BY <1>4, <2>5 DEF Accept, Types, WritersType
  <2>6. QED  BY <2>2, <2>3, <2>4, <2>5
<1>5. CASE Accept(c)
  <2>1. /\ conn[c] = "waiting" /\ task.pc # "write" /\ UNCHANGED <<inbox, view>>
        /\ conn' = [conn EXCEPT ![c] = "open"]
        /\ handler' = [handler EXCEPT ![c] = IdleHandler]
    BY <1>5 DEF Accept
  <2>2. \A d \in Client : Coming(d, topic)' = Coming(d, topic)
    BY <1>0, <2>1 DEF Coming
  <2>3. ASSUME NEW d \in Client, d # c, conn'[d] = "open"  PROVE AgreedOn(d, n, topic, right)'
    BY <1>2, <1>3, <2>1, <2>2, <2>3
  <2>4. AgreedOn(c, n, topic, right)'
    <3>1. inbox[c] = <<>> /\ view[c] = EmptyView
      BY <2>1 DEF Wired, ConnWired
    <3>2. handler'[c].pc = "idle" /\ handler'[c].msg.kind = "none" /\ inbox'[c] = <<>>
          /\ ~view'[c].synced
      BY <1>2, <2>1, <3>1 DEF IdleHandler, NoMsg, EmptyView
    <3>3. QED  BY <3>2, EmptyEndsWell DEF AgreedOn, Held, Told, HoldsRows, HoldsMode
  <2>5. QED  BY <1>1, <2>3, <2>4 DEF Agreed
<1>6. QED  BY <1>4, <1>5 DEF Connect, ClientRead, ClientClose, serverVars

\* Steps of the broadcast task.
LEMMA BroadcastAgreed ==
    ASSUME Types, Wired, Live, Live', Broadcast,
           NEW n, NEW topic, NEW right, IsTopic(topic, right), Agreed(n, topic, right),
           \A c \in Client :
               WriteTo(c) /\ conn[c] = "open" /\ HoldsRows(c) /\ n \notin overtaken'[c]
               /\ task.event \in topic => Snapshot(c) \in right
    PROVE  Agreed(n, topic, right)'
<1>0. UNCHANGED <<conn, view, handler, dnd_mode>>
  BY DEF Broadcast, broadcastFrame
<1>1. \A c \in Client : HoldsRows(c)' = HoldsRows(c) /\ Snapshot(c)' = Snapshot(c)
  BY <1>0 DEF HoldsRows, HoldsMode, Snapshot
<1>2. ASSUME Fed(topic, right)', UNCHANGED <<inbox, overtaken, missed>>,
             \A c \in Client : conn[c] = "open" /\ Coming(c, topic) => Coming(c, topic)'
      PROVE  Agreed(n, topic, right)'
  <2>1. ASSUME NEW c \in Client, conn'[c] = "open"  PROVE AgreedOn(c, n, topic, right)'
    <3>1. AgreedOn(c, n, topic, right) /\ conn[c] = "open"
      BY <1>0, <2>1 DEF Agreed
    <3>2. QED  BY <1>0, <1>1, <1>2, <3>1, StaysOn
  <2>2. QED  BY <1>2, <2>1 DEF Agreed
<1>3. Fed(topic, right) /\ channel \in Seq(Event)
      /\ task \in [pc : {"recv", "lock", "write", "ended"}, event : Event \cup {NoMsg},
                   next : Nat, dead : Seq(Nat)]
  BY DEF Agreed, Types, ChannelType, TaskType
<1>4. CASE Receive
  <2>1. /\ task.pc = "recv" /\ channel # <<>> /\ channel' = Tail(channel)
        /\ task' = IF TooLarge(Head(channel)) THEN task
                   ELSE [task EXCEPT !.pc = "lock", !.event = Head(channel)]
        /\ UNCHANGED <<inbox, overtaken, missed>>
    BY <1>4 DEF Receive, Live, syncHistory
  <2>2. /\ EndsWell(Tail(channel), topic, right)
        /\ Mentions(channel, topic) <=> Head(channel) \in topic \/ Mentions(Tail(channel), topic)
        /\ Head(channel) \in topic /\ ~Mentions(Tail(channel), topic) => Head(channel) \in right
    BY <1>3, <2>1, TailEndsWell DEF Fed
  <2>3. Head(channel) \in Event
    BY <1>3, <2>1
  <2>4. CASE TooLarge(Head(channel))
    <3>1. Head(channel) \notin topic /\ task' = task
      BY <2>1, <2>3, <2>4 DEF IsTopic
    <3>2. Fed(topic, right)' /\ \A c \in Client : Coming(c, topic) => Coming(c, topic)'
      BY <2>1, <2>2, <3>1 DEF Fed, Coming
    <3>3. QED  BY <1>2, <2>1, <3>2
  <2>5. CASE ~TooLarge(Head(channel))
    <3>1. task'.pc = "lock" /\ task'.event = Head(channel)
      BY <1>3, <2>1, <2>5
    <3>2. Fed(topic, right)' /\ \A c \in Client : Coming(c, topic) => Coming(c, topic)'
      BY <2>1, <2>2, <3>1 DEF Fed, Coming
    <3>3. QED  BY <1>2, <2>1, <3>2
  <2>6. QED  BY <2>4, <2>5
<1>5. CASE LockWriters
  <2>1. /\ task.pc = "lock" /\ task'.pc = "write" /\ task'.event = task.event /\ task'.next = 1
        /\ UNCHANGED <<channel, writers, inbox, overtaken, missed>>
    BY <1>3, <1>5 DEF LockWriters, syncHistory, Wired, TaskWired
  <2>2. Fed(topic, right)'
    BY <1>3, <2>1 DEF Fed
  <2>3. ASSUME NEW c \in Client, conn[c] = "open", Coming(c, topic)  PROVE Coming(c, topic)'
    <3>1. PICK i \in DOMAIN writers : writers[i] = c
      BY <2>3 DEF Wired, ConnWired
    <3>2. i >= 1
      BY DEF Types, WritersType
    <3>3. QED  BY <2>1, <2>3, <3>1, <3>2 DEF Coming
  <2>4. QED  BY <1>2, <2>1, <2>2, <2>3
<1>6. CASE Finish
  <2>1. /\ task.pc = "write" /\ task.next > Len(writers) /\ task'.pc = "recv"
        /\ UNCHANGED <<channel, inbox, overtaken, missed>>
    BY <1>6 DEF Finish, ReceivingTask, syncHistory
  <2>2. Fed(topic, right)'
    BY <1>3, <2>1 DEF Fed
  <2>3. ASSUME NEW c \in Client, Coming(c, topic)  PROVE Coming(c, topic)'
    <3>1. \A i \in DOMAIN writers : ~(i >= task.next)
      BY <1>3, <2>1 DEF Types, WritersType
    <3>2. QED  BY <2>1, <2>3, <3>1 DEF Coming
  <2>4. QED  BY <1>2, <2>1, <2>2, <2>3
<1>7. ASSUME NEW c \in Client, WriteTo(c)  PROVE Agreed(n, topic, right)'
  <2>1. /\ task.pc = "write" /\ task.next \in DOMAIN writers /\ writers[task.next] = c
        /\ UNCHANGED <<channel, writers, missed>>
        /\ task'.pc = "write" /\ task'.event = task.event /\ task'.next = task.next + 1
        /\ task.event \in Event
    <3>1. task.pc = "write" /\ c = writers[task.next] /\ task.next <= Len(writers)
          /\ UNCHANGED <<channel, writers, missed>>
      BY <1>7 DEF WriteTo
    <3>2. task.event \in Event /\ task.next >= 1 /\ task.next \in Nat
      BY <1>3, <3>1 DEF Wired, TaskWired
    <3>3. task.next \in DOMAIN writers
      BY <3>1, <3>2 DEF Types, WritersType
    <3>4. \/ task' = [task EXCEPT !.next = @ + 1]
          \/ task' = [task EXCEPT !.next = @ + 1, !.dead = Append(task.dead, task.next)]
      BY <1>7 DEF WriteTo, WriteFails
    <3>5. QED  BY <1>3, <3>1, <3>2, <3>3, <3>4
  <2>2. Fed(topic, right)'
    BY <1>3, <2>1 DEF Fed
  <2>3. ASSUME NEW d \in Client, d # c, Coming(d, topic)  PROVE Coming(d, topic)'
    <3>1. \A i \in DOMAIN writers : i >= task.next /\ writers[i] = d => i >= task.next + 1
      BY <1>3, <2>1, <2>3 DEF Types, WritersType
    <3>2. QED  BY <2>1, <2>3, <3>1 DEF Coming
  <2>4. CASE WriteFails(c)
    <3>1. conn[c] = "closed" /\ UNCHANGED <<inbox, overtaken>>
      BY <2>4 DEF WriteFails
    <3>2. ASSUME NEW d \in Client, conn'[d] = "open"  PROVE AgreedOn(d, n, topic, right)'
      <4>1. d # c /\ AgreedOn(d, n, topic, right)
        BY <1>0, <3>1, <3>2 DEF Agreed
      <4>2. QED  BY <1>0, <1>1, <2>1, <2>3, <3>1, <4>1, StaysOn
    <3>3. QED  BY <2>2, <3>2 DEF Agreed
  <2>5. CASE ~WriteFails(c)
    <3>1. /\ conn[c] = "open"
          /\ inbox' = [inbox EXCEPT ![c] = Append(@, task.event)]
          /\ overtaken' = [overtaken EXCEPT ![c] =
                              IF HoldsRows(c) THEN @ \cup ToldOf(task.event) ELSE @]
      BY <1>7, <2>5 DEF WriteTo, HasRoom
    <3>2. /\ inbox \in [Client -> Seq(Message)] /\ overtaken \in [Client -> SUBSET Note]
          /\ task.event \in Message
      BY <2>1 DEF Types, InboxType, SyncType, Message
    <3>3. ASSUME NEW d \in Client, d # c, conn'[d] = "open"  PROVE AgreedOn(d, n, topic, right)'
      <4>1. inbox'[d] = inbox[d] /\ overtaken'[d] = overtaken[d] /\ missed'[d] = missed[d]
        BY <2>1, <3>1, <3>2, <3>3
      <4>2. AgreedOn(d, n, topic, right)
        BY <1>0, <3>3 DEF Agreed
      <4>3. QED  BY <1>0, <1>1, <2>3, <3>3, <4>1, <4>2, StaysOn
    <3>4. AgreedOn(c, n, topic, right)'
      <4>1. AgreedOn(c, n, topic, right) /\ inbox[c] \in Seq(Message)
            /\ inbox'[c] = Append(inbox[c], task.event)
            /\ (n \in overtaken[c] => n \in overtaken'[c])
        BY <3>1, <3>2 DEF Agreed
      <4>2. Coming(c, topic) <=> Mentions(channel, topic) \/ task.event \in topic
        BY <1>3, <2>1 DEF Coming
      <4>3. Mentions(channel, topic) => Coming(c, topic)'
        BY <2>1 DEF Coming
      <4>4. CASE Mentions(channel, topic)
        BY <4>3, <4>4 DEF AgreedOn, Held, Told
      <4>5. CASE ~Mentions(channel, topic) /\ task.event \notin topic
        <5>1. ~Coming(c, topic)
          BY <4>2, <4>5
        <5>2. /\ EndsWell(inbox[c], topic, right) =>
                    EndsWell(Append(inbox[c], task.event), topic, right)
              /\ Mentions(Append(inbox[c], task.event), topic) <=> Mentions(inbox[c], topic)
          BY <3>2, <4>1, <4>5, AppendEndsWell DEF IsTopic
        <5>3. QED  BY <1>0, <1>1, <2>1, <4>1, <5>1, <5>2 DEF AgreedOn, Held, Told
      <4>6. CASE ~Mentions(channel, topic) /\ task.event \in topic
        <5>1. task.event \in right
          BY <1>3, <2>1, <4>6 DEF Fed
        <5>2. /\ EndsWell(Append(inbox[c], task.event), topic, right)
              /\ Mentions(Append(inbox[c], task.event), topic)
          <6>1. right \in SUBSET topic
            BY DEF IsTopic
          <6>2. QED  BY <3>2, <4>1, <4>6, <5>1, <6>1, AppendEndsWell
        <5>3. Told(c, topic, right)'
          BY <4>1, <5>2 DEF Told
        <5>4. HoldsRows(c) /\ n \notin overtaken'[c] => Snapshot(c) \in right
          BY <1>7, <3>1, <4>6
        <5>5. n \notin overtaken'[c] => Held(c, topic, right)'
          BY <1>1, <5>4 DEF Held
        <5>6. QED  BY <5>3, <5>5 DEF AgreedOn
      <4>7. QED  BY <4>4, <4>5, <4>6
    <3>5. QED  BY <2>2, <3>3, <3>4 DEF Agreed
  <2>6. QED  BY <2>4, <2>5
<1>8. QED  BY <1>4, <1>5, <1>6, <1>7 DEF Broadcast

\* The answer of a handler: if a Sync, it carries the snapshot.
LEMMA WriteResponseAgreed ==
    ASSUME Types, Wired, NEW n, NEW topic, NEW right, IsTopic(topic, right), Agreed(n, topic, right),
           NEW c \in Client, WriteResponse(c), UNCHANGED sessionFrame
    PROVE  Agreed(n, topic, right)'
<1>0. UNCHANGED <<channel, task, writers, conn, view, dnd_mode>>
  BY SessionFrame DEF WriteResponse, channelVars
<1>1. Fed(topic, right)' /\ \A d \in Client : Coming(d, topic)' = Coming(d, topic)
  BY <1>0 DEF Agreed, Fed, Coming
<1>2. /\ handler \in [Client -> Handler] /\ inbox \in [Client -> Seq(Message)]
      /\ overtaken \in [Client -> SUBSET Note] /\ missed \in [Client -> SUBSET Note]
      /\ handler[c].pc = "respond" /\ handler[c].msg \in Response
  BY DEF Types, HandlerType, InboxType, SyncType, WriteResponse, Wired, HandlerWired
<1>3. /\ handler' \in {[handler EXCEPT ![c] = EndedHandler], [handler EXCEPT ![c] = IdleHandler]}
      /\ overtaken' = [overtaken EXCEPT ![c] = {}]
  BY DEF WriteResponse
<1>4. ASSUME NEW d \in Client, d # c, conn'[d] = "open"  PROVE AgreedOn(d, n, topic, right)'
  <2>1. /\ handler'[d] = handler[d] /\ inbox'[d] = inbox[d] /\ overtaken'[d] = overtaken[d]
        /\ missed'[d] = missed[d]
    BY <1>2, <1>3, <1>4 DEF WriteResponse
  <2>2. HoldsRows(d)' = HoldsRows(d) /\ Snapshot(d)' = Snapshot(d)
    BY <1>0, <2>1 DEF HoldsRows, HoldsMode, Snapshot
  <2>3. AgreedOn(d, n, topic, right)
    BY <1>0, <1>4 DEF Agreed
  <2>4. QED  BY <1>0, <1>1, <2>1, <2>2, <2>3, StaysOn
<1>5. ASSUME conn'[c] = "open"  PROVE AgreedOn(c, n, topic, right)'
  <2>1. AgreedOn(c, n, topic, right) /\ inbox[c] \in Seq(Message)
    BY <1>0, <1>2, <1>5 DEF Agreed
  <2>2. ~HoldsRows(c)'
    <3>1. handler'[c] \in {EndedHandler, IdleHandler}
      BY <1>2, <1>3
    <3>2. QED  BY <3>1, HandlerIs, ResponseKinds DEF HoldsRows, HoldsMode
  <2>3. CASE UNCHANGED <<inbox, missed>>
    BY <1>0, <1>1, <2>1, <2>2, <2>3, StaysOn
  <2>4. CASE /\ inbox' = [inbox EXCEPT ![c] = Append(@, handler[c].msg)]
             /\ missed' = [missed EXCEPT ![c] = IF HoldsMode(c) THEN overtaken[c] ELSE @]
    <3> DEFINE m == handler[c].msg
    <3>1. /\ inbox'[c] = Append(inbox[c], m)
          /\ missed'[c] = IF HoldsMode(c) THEN overtaken[c] ELSE missed[c]
          /\ m \in Message
      BY <1>2, <2>4 DEF Message
    <3>2. CASE HoldsMode(c)
      <4>1. Snapshot(c) = m /\ m \in topic /\ HoldsRows(c)
        BY <1>2, <3>1, <3>2 DEF Snapshot, HoldsRows, HoldsMode, IsTopic
      <4>2. n \notin missed'[c] /\ ~Coming(c, topic) => m \in right
        BY <2>1, <3>1, <3>2, <4>1 DEF AgreedOn, Held
      <4>3. m \in right => EndsWell(inbox'[c], topic, right)
        BY <2>1, <3>1, AppendEndsWell DEF IsTopic
      <4>4. Mentions(inbox'[c], topic)
        <5>1. right \in SUBSET topic
          BY DEF IsTopic
        <5> HIDE DEF m
        <5>2. Mentions(Append(inbox[c], m), topic) <=> Mentions(inbox[c], topic) \/ m \in topic
          BY <2>1, <3>1, <5>1, AppendEndsWell
        <5>3. QED  BY <3>1, <4>1, <5>2
      <4>5. QED  BY <1>1, <2>2, <4>2, <4>3, <4>4 DEF AgreedOn, Held, Told
    <3>3. CASE ~HoldsMode(c)
      <4>1. m.kind = "Reply" /\ m \in Message
        BY <1>2, <3>3, ResponseKinds DEF HoldsMode, Message
      <4>2. m \notin topic
        BY <4>1 DEF IsTopic
      <4>3. /\ EndsWell(inbox[c], topic, right) => EndsWell(inbox'[c], topic, right)
            /\ Mentions(inbox'[c], topic) <=> Mentions(inbox[c], topic)
        <5>1. right \in SUBSET topic
          BY DEF IsTopic
        <5> HIDE DEF m
        <5>2. m \notin topic /\ EndsWell(inbox[c], topic, right) =>
                 EndsWell(Append(inbox[c], m), topic, right)
          BY <2>1, <3>1, <5>1, AppendEndsWell
        <5>3. Mentions(Append(inbox[c], m), topic) <=> Mentions(inbox[c], topic) \/ m \in topic
          BY <2>1, <3>1, <5>1, AppendEndsWell
        <5>4. QED  BY <3>1, <4>2, <5>2, <5>3
      <4>4. QED  BY <1>0, <1>1, <2>1, <2>2, <3>1, <3>3, <4>3 DEF AgreedOn, Held, Told
    <3>4. QED  BY <3>2, <3>3
  <2>5. QED  BY <2>3, <2>4 DEF WriteResponse
<1>6. QED  BY <1>1, <1>4, <1>5 DEF Agreed

LEMMA Widens ==
    ASSUME NEW n, NEW topic, NEW right, NEW wider, right \subseteq wider, Agreed(n, topic, right)'
    PROVE  Agreed(n, topic, wider)'
BY DEF Agreed, AgreedOn, Fed, Held, Told, EndsWell

\* Steps that neither change the table, or the mode, nor send.
Aside ==
    \/ Broadcast \/ AcceptFails \/ UNCHANGED vars
    \/ \E c \in Client :
          \/ Connect(c) \/ Accept(c) \/ ClientRead(c) \/ ClientClose(c)
          \/ /\ \/ Hello(c) \/ Query(c) \/ ClearAll(c) \/ HandlerEnds(c)
                \/ HelloMode(c) \/ WriteResponse(c)
             /\ UNCHANGED sessionFrame

\* Steps that do.
Eventful ==
    \/ Manager
    \/ \E c \in Client :
          /\ \/ \E k \in Note : Dismiss(c, k) \/ MarkRead(c, k) \/ InvokeAction(c, k) \/ ClearOne(c, k)
             \/ \E w \in WireModes : SetDnd(c, w)
             \/ SendEvent(c) \/ SendCleared(c)
          /\ UNCHANGED sessionFrame

LEMMA NextParts == [Next]_vars => Aside \/ Eventful
BY DEF Next, Aside, Eventful, Request, Handle

\* The snapshots of Hello say how the table and the mode are.
HelloRight(n, right) ==
    /\ Sync(Pending, read \cap Pending, dnd_mode) \in right
    /\ n \in Note \/ Sync({}, {}, dnd_mode) \in right

LEMMA AsideAgreed ==
    ASSUME Types, Wired, Live, Live', Aside,
           NEW n, NEW topic, NEW right, IsTopic(topic, right), Agreed(n, topic, right),
           HelloRight(n, right),
           \A c \in Client :
               WriteTo(c) /\ conn[c] = "open" /\ HoldsRows(c) /\ n \notin overtaken'[c]
               /\ task.event \in topic => Snapshot(c) \in right
    PROVE  Agreed(n, topic, right)'
<1>1. CASE Broadcast
  BY <1>1, BroadcastAgreed
<1>2. CASE UNCHANGED <<channel, task, writers, conn, view, inbox, handler, overtaken, missed, dnd_mode>>
  BY <1>2 DEF Agreed, AgreedOn, Fed, Held, Told, Coming, HoldsRows, HoldsMode, Snapshot
<1>3. CASE AcceptFails \/ UNCHANGED vars
  BY <1>2, <1>3 DEF AcceptFails, connectionFrame, vars, channelVars, serverVars, clientVars, history,
     syncHistory
<1>4. ASSUME NEW c \in Client, Connect(c) \/ Accept(c) \/ ClientRead(c) \/ ClientClose(c)
      PROVE  Agreed(n, topic, right)'
  BY <1>4, ConnectionAgreed
<1>5. ASSUME NEW c \in Client, WriteResponse(c), UNCHANGED sessionFrame
      PROVE  Agreed(n, topic, right)'
  BY <1>5, WriteResponseAgreed
<1>6. ASSUME NEW c \in Client, UNCHANGED sessionFrame,
             Hello(c) \/ Query(c) \/ ClearAll(c) \/ HandlerEnds(c) \/ HelloMode(c)
      PROVE  Agreed(n, topic, right)'
  <2>1. UNCHANGED <<task, writers, conn, view, inbox, missed, channel, dnd_mode>>
    BY <1>6, SessionFrame DEF Hello, Query, ClearAll, HandlerEnds, HelloMode, channelVars, history,
       syncHistory
  <2>2. /\ handler \in [Client -> Handler] /\ overtaken \in [Client -> SUBSET Note]
        /\ handler[c].rows \in SUBSET Note /\ handler[c].seen \in SUBSET Note
    BY DEF Types, HandlerType, SyncType, Handler
  <2>3. ASSUME NEW d \in Client, d # c
        PROVE  handler'[d] = handler[d] /\ overtaken'[d] = overtaken[d]
    BY <1>6, <2>2, <2>3 DEF Hello, Query, ClearAll, HandlerEnds, HelloMode, history, syncHistory
  <2>4. ASSUME HoldsRows(c)', n \notin overtaken'[c]
        PROVE  Snapshot(c)' \in right \/ (HoldsRows(c) /\ n \notin overtaken[c] /\ Snapshot(c)' = Snapshot(c))
    <3>1. CASE Query(c) \/ ClearAll(c) \/ HandlerEnds(c)
      <4>1. handler'[c].pc # "mode" /\ handler'[c].msg.kind # "Sync"
        <5>1. CASE Query(c)
          <6>1. PICK rows \in SUBSET stored :
                   handler' = [handler EXCEPT ![c] = [IdleHandler EXCEPT
                                  !.pc = "respond", !.msg = Reply(rows)]]
            BY <5>1 DEF Query
          <6>2. rows \in SUBSET Note
            BY DEF Types, TableType
          <6>3. QED  BY <2>2, <6>1, <6>2, ResponseKinds DEF IdleHandler
        <5>2. CASE ClearAll(c)
          <6>1. PICK rows : handler' = [handler EXCEPT ![c] =
                                           [IdleHandler EXCEPT !.pc = "clear", !.rows = rows]]
            BY <5>2 DEF ClearAll
          <6>2. handler'[c].pc = "clear" /\ handler'[c].msg = NoMsg
            BY <2>2, <6>1 DEF IdleHandler
          <6>3. QED  BY <6>2, ResponseKinds
        <5>3. CASE HandlerEnds(c)
          <6>1. handler'[c] = EndedHandler
            BY <2>2, <5>3 DEF HandlerEnds
          <6>2. QED  BY <6>1, HandlerIs, ResponseKinds
        <5>4. QED  BY <3>1, <5>1, <5>2, <5>3
      <4>2. QED  BY <2>4, <4>1 DEF HoldsRows, HoldsMode
    <3>2. CASE HelloMode(c)
      <4>1. handler'[c] = [IdleHandler EXCEPT !.pc = "respond",
                             !.msg = Sync(handler[c].rows, handler[c].seen, dnd_mode)]
            /\ handler[c].pc = "mode" /\ overtaken' = overtaken
        BY <2>2, <3>2 DEF HelloMode, history, syncHistory
      <4>2. handler'[c].pc = "respond"
            /\ handler'[c].msg = Sync(handler[c].rows, handler[c].seen, dnd_mode)
        BY <4>1 DEF IdleHandler
      <4>3. QED  BY <2>1, <2>4, <4>1, <4>2 DEF HoldsRows, Snapshot
    <3>3. CASE Hello(c)
      <4>1. CASE handler' = [handler EXCEPT ![c] =
                   [IdleHandler EXCEPT !.pc = "mode", !.rows = Pending, !.seen = read \cap Pending]]
        <5>1. handler'[c].pc = "mode" /\ handler'[c].rows = Pending
              /\ handler'[c].seen = read \cap Pending
          BY <2>2, <4>1 DEF IdleHandler
        <5>2. QED  BY <2>1, <5>1 DEF Snapshot, HelloRight
      <4>2. CASE /\ handler' = [handler EXCEPT ![c] = [IdleHandler EXCEPT !.pc = "mode"]]
                 /\ overtaken' = [overtaken EXCEPT ![c] = Note]
        <5>1. handler'[c].pc = "mode" /\ handler'[c].rows = {} /\ handler'[c].seen = {}
              /\ overtaken'[c] = Note
          BY <2>2, <4>2 DEF IdleHandler
        <5>2. QED  BY <2>1, <2>4, <5>1 DEF Snapshot, HelloRight
      <4>3. QED  BY <3>3, <4>1, <4>2 DEF Hello
    <3>4. QED  BY <1>6, <3>1, <3>2, <3>3
  <2>5. HeldStays(n, right)
    <3>1. ASSUME NEW d \in Client, HoldsRows(d)', n \notin overtaken'[d]
          PROVE  Snapshot(d)' \in right \/ (HoldsRows(d) /\ n \notin overtaken[d] /\ Snapshot(d)' = Snapshot(d))
      <4>1. CASE d = c
        BY <2>4, <3>1, <4>1
      <4>2. CASE d # c
        BY <2>1, <2>3, <3>1, <4>2 DEF HoldsRows, HoldsMode, Snapshot
      <4>3. QED  BY <4>1, <4>2
    <3>2. QED  BY <3>1 DEF HeldStays
  <2>6. QED  BY <2>1, <2>5, Apart
<1>7. QED  BY <1>1, <1>3, <1>4, <1>5, <1>6 DEF Aside

LEMMA AsideKeeps ==
    ASSUME Types, Wired, Aside
    PROVE  /\ UNCHANGED <<stored, read, dismissed, arrival, closing, disputed, dnd_mode>>
           /\ mode_disputed => mode_disputed'
           /\ \A c \in Client : handler[c].pc \in {"send", "clear"} => handler'[c] = handler[c]
           /\ \A c \in Client : handler'[c].pc = "send" => handler'[c] = handler[c]
<1> DEFINE Goal ==
           /\ UNCHANGED <<stored, read, dismissed, arrival, closing, disputed, dnd_mode>>
           /\ mode_disputed => mode_disputed'
           /\ \A c \in Client : handler[c].pc \in {"send", "clear"} => handler'[c] = handler[c]
           /\ \A c \in Client : handler'[c].pc = "send" => handler'[c] = handler[c]
<1>1. CASE Broadcast
  <2>1. mode_disputed => mode_disputed'
    BY <1>1 DEF Broadcast, Receive, LockWriters, Finish, WriteTo, WriteFails
  <2>2. QED  BY <1>1, <2>1 DEF Broadcast, broadcastFrame, tableVars, managerVars
<1>2. CASE AcceptFails \/ UNCHANGED vars
  BY <1>2 DEF AcceptFails, connectionFrame, vars, tableVars, managerVars, history
<1>3. ASSUME NEW c \in Client, Connect(c) \/ Accept(c) \/ ClientRead(c) \/ ClientClose(c)
      PROVE  Goal
  <2>1. UNCHANGED connectionFrame
    BY <1>3 DEF Connect, Accept, ClientRead, ClientClose
  <2>2. handler' = handler \/ (handler' = [handler EXCEPT ![c] = IdleHandler] /\ handler[c] = EndedHandler)
    BY <1>3 DEF Connect, Accept, ClientRead, ClientClose, Wired, ConnWired
  <2>3. QED  BY <2>1, <2>2, HandlerIs
    DEF connectionFrame, tableVars, managerVars, history, Types, HandlerType
<1>4. ASSUME NEW c \in Client, UNCHANGED sessionFrame,
             \/ Hello(c) \/ Query(c) \/ ClearAll(c) \/ HandlerEnds(c) \/ HelloMode(c) \/ WriteResponse(c)
      PROVE  Goal
  <2>1. UNCHANGED <<arrival, closing>>
    BY <1>4, SessionFrame
  <2>2. UNCHANGED <<stored, read, dismissed, disputed, dnd_mode, mode_disputed>>
    BY <1>4 DEF Hello, Query, ClearAll, HandlerEnds, HelloMode, WriteResponse, tableVars, history
  <2>3. handler[c].pc \in {"idle", "mode", "respond"}
    BY <1>4 DEF Hello, Query, ClearAll, HandlerEnds, HelloMode, WriteResponse, Reads
  <2>4. /\ \A d \in Client : d # c => handler'[d] = handler[d]
        /\ handler'[c].pc # "send"
    <3>1. handler \in [Client -> Handler]
      BY DEF Types, HandlerType
    <3>2. CASE HandlerEnds(c) \/ WriteResponse(c)
      BY <3>1, <3>2, HandlerIs DEF HandlerEnds, WriteResponse
    <3>3. CASE Hello(c)
      <4>1. CASE handler' = [handler EXCEPT ![c] =
                   [IdleHandler EXCEPT !.pc = "mode", !.rows = Pending, !.seen = read \cap Pending]]
        BY <3>1, <4>1 DEF IdleHandler
      <4>2. CASE handler' = [handler EXCEPT ![c] = [IdleHandler EXCEPT !.pc = "mode"]]
        BY <3>1, <4>2 DEF IdleHandler
      <4>3. QED  BY <3>3, <4>1, <4>2 DEF Hello
    <3>4. CASE Query(c)
      BY <3>1, <3>4 DEF Query, IdleHandler
    <3>5. CASE HelloMode(c)
      BY <3>1, <3>5 DEF HelloMode, IdleHandler
    <3>6. CASE ClearAll(c)
      <4>1. PICK rows : handler' = [handler EXCEPT ![c] =
                                       [IdleHandler EXCEPT !.pc = "clear", !.rows = rows]]
        BY <3>6 DEF ClearAll
      <4>2. QED  BY <3>1, <4>1 DEF IdleHandler
    <3>7. QED  BY <1>4, <3>2, <3>3, <3>4, <3>5, <3>6
  <2>5. QED  BY <2>1, <2>2, <2>3, <2>4
<1>5. QED  BY <1>1, <1>2, <1>3, <1>4 DEF Aside

\* Where nobody's snapshot tells the mode, a change of the mode does not matter.
Blind(right) ==
    \A rows, seen \in SUBSET Note, m1, m2 \in DndModes :
        Sync(rows, seen, m1) \in right => Sync(rows, seen, m2) \in right

LEMMA EventfulKeeps ==
    ASSUME Types, Wired, Eventful
    PROVE  /\ UNCHANGED <<task, writers, conn, view, inbox, overtaken, missed>>
           /\ disputed \subseteq disputed'
           /\ \A c \in Client : HoldsRows(c)' => handler'[c] = handler[c]
<1>1. \A n \in Note : UpdateDismissed(n) \/ UpdateRead(n) => disputed \subseteq disputed'
  BY DEF UpdateDismissed, UpdateRead, Noted, Dispute
<1>2. CASE Manager
  <2>1. UNCHANGED managerFrame /\ disputed \subseteq disputed'
    BY <1>1, <1>2 DEF Manager, Store, Announce, CloseDismiss, CloseBroadcast, Mirror, Dispute
  <2>2. QED  BY <2>1 DEF managerFrame, serverVars, clientVars, syncHistory
<1>3. ASSUME NEW c \in Client, UNCHANGED sessionFrame,
             \/ \E k \in Note : Dismiss(c, k) \/ MarkRead(c, k) \/ InvokeAction(c, k) \/ ClearOne(c, k)
             \/ \E w \in WireModes : SetDnd(c, w)
             \/ SendEvent(c) \/ SendCleared(c)
      PROVE  /\ UNCHANGED <<task, writers, conn, view, inbox, overtaken, missed>>
             /\ disputed \subseteq disputed'
             /\ \A d \in Client : HoldsRows(d)' => handler'[d] = handler[d]
  <2>1. UNCHANGED <<task, writers, conn, view>>
    BY <1>3, SessionFrame
  <2>2. UNCHANGED <<inbox, overtaken, missed>> /\ disputed \subseteq disputed'
    BY <1>1, <1>3 DEF Dismiss, MarkRead, InvokeAction, ClearOne, SetDnd, SendEvent, SendCleared,
       history, syncHistory
  <2>3. handler \in [Client -> Handler]
    BY DEF Types, HandlerType
  <2>4. handler' = handler \/ ((\A d \in Client : d # c => handler'[d] = handler[d]) /\ ~HoldsRows(c)')
    <3>1. ASSUME NEW k \in Note, Dismiss(c, k) \/ MarkRead(c, k)  PROVE <2>4
      <4>1. PICK e \in HandlerEvent : handler' = [handler EXCEPT ![c] = ToSend(e)]
        BY <3>1, EventKinds DEF Dismiss, MarkRead, HandlerEvent
      <4>2. handler'[c].pc = "send" /\ handler'[c].msg = e
        BY <2>3, <4>1, HandlerIs DEF HandlerEvent
      <4>3. QED  BY <2>3, <4>1, <4>2 DEF HoldsRows, HoldsMode, HandlerEvent
    <3>2. ASSUME NEW k \in Note, InvokeAction(c, k)  PROVE handler' = handler
      BY <3>2 DEF InvokeAction
    <3>3. ASSUME NEW k \in Note, ClearOne(c, k)  PROVE <2>4
      <4>1. handler[c].pc = "clear" /\ handler[c].msg = NoMsg
            /\ handler' = [handler EXCEPT ![c].rows = @ \ {k}]
        BY <3>3 DEF ClearOne, Wired, HandlerWired
      <4>2. handler'[c].pc = "clear" /\ handler'[c].msg = NoMsg
            /\ \A d \in Client : d # c => handler'[d] = handler[d]
        BY <2>3, <4>1 DEF Handler
      <4>3. QED  BY <4>2, ResponseKinds DEF HoldsRows, HoldsMode
    <3>4. ASSUME NEW w \in WireModes, SetDnd(c, w)  PROVE <2>4
      <4>1. PICK e \in HandlerEvent : handler' = [handler EXCEPT ![c] = ToSend(e)]
        <5>1. FromWire(w) \in DndModes
          BY DEF FromWire, DndModes
        <5>2. QED  BY <3>4, <5>1, EventKinds DEF SetDnd, HandlerEvent
      <4>2. handler'[c].pc = "send" /\ handler'[c].msg = e
        BY <2>3, <4>1, HandlerIs DEF HandlerEvent
      <4>3. QED  BY <2>3, <4>1, <4>2 DEF HoldsRows, HoldsMode, HandlerEvent
    <3>5. ASSUME SendEvent(c) \/ SendCleared(c)  PROVE <2>4
      <4>1. handler' = [handler EXCEPT ![c] = IdleHandler]
        BY <3>5 DEF SendEvent, SendCleared
      <4>2. handler'[c] = IdleHandler /\ \A d \in Client : d # c => handler'[d] = handler[d]
        BY <2>3, <4>1
      <4>3. QED  BY <4>2, HandlerIs, ResponseKinds DEF HoldsRows, HoldsMode
    <3>6. QED  BY <1>3, <3>1, <3>2, <3>3, <3>4, <3>5
  <2>5. QED  BY <2>1, <2>2, <2>4
<1>4. QED  BY <1>2, <1>3 DEF Eventful

\* Either something right is sent, or nothing is that matters.
LEMMA EventfulAgreed ==
    ASSUME Types, Wired, ModeType', Eventful, Live',
           NEW n, NEW topic, NEW right, NEW wider, IsTopic(topic, right), IsTopic(topic, wider),
           \/ \E e \in Event : e \in wider /\ Send(e)
           \/ /\ Agreed(n, topic, right) /\ right \subseteq wider
              /\ UNCHANGED dnd_mode \/ Blind(right)
              /\ UNCHANGED channel \/ \E e \in Event \ topic : Send(e)
    PROVE  Agreed(n, topic, wider)'
<1>1. /\ UNCHANGED <<task, writers, conn, view, inbox, overtaken, missed>>
      /\ \A c \in Client : HoldsRows(c)' => handler'[c] = handler[c]
  BY EventfulKeeps
<1>2. CASE \E e \in Event : e \in wider /\ Send(e)
  BY <1>1, <1>2, Settles
<1>3. CASE /\ Agreed(n, topic, right) /\ right \subseteq wider
           /\ UNCHANGED dnd_mode \/ Blind(right)
           /\ UNCHANGED channel \/ \E e \in Event \ topic : Send(e)
  <2>1. ASSUME NEW c \in Client, HoldsRows(c)'
        PROVE  HoldsRows(c) /\ (Snapshot(c) \in right => Snapshot(c)' \in right)
    <3>1. handler'[c] = handler[c]
      BY <1>1, <2>1
    <3>2. HoldsRows(c)
      BY <2>1, <3>1 DEF HoldsRows, HoldsMode
    <3>3. CASE UNCHANGED dnd_mode
      BY <3>1, <3>2, <3>3 DEF Snapshot
    <3>4. CASE Blind(right)
      <4>1. handler[c].rows \in SUBSET Note /\ handler[c].seen \in SUBSET Note
            /\ dnd_mode \in DndModes /\ dnd_mode' \in DndModes
        BY DEF Types, HandlerType, Handler, ModeType
      <4>2. QED  BY <3>1, <3>2, <3>4, <4>1 DEF Snapshot, Blind
    <3>5. QED  BY <1>3, <3>2, <3>3, <3>4
  <2>2. HeldStays(n, right)
    BY <1>1, <2>1 DEF HeldStays
  <2>3. Agreed(n, topic, right)'
    BY <1>1, <1>3, <2>2, Apart
  <2>4. QED  BY <1>3, <2>3, Widens
<1>4. QED  BY <1>2, <1>3

-----------------------------------------------------------------------------
(* What is shown of a notification, and whether it is marked as read *)

RowGoes(n) ==
    Live' /\ n \notin disputed' \cup Big /\ ~Erasing(n)' =>
        \/ \E e \in Event : e \in RowRight(n)' /\ Send(e)
        \/ /\ ~Erasing(n) /\ RowRight(n) \subseteq RowRight(n)'
           /\ UNCHANGED channel \/ \E e \in Event \ RowTopic(n) : Send(e)
ReadGoes(n) ==
    Live' /\ n \notin disputed' \cup Big /\ ~Reading(n)' =>
        \/ \E e \in Event : e \in ReadRight(n)' /\ Send(e)
        \/ /\ ~Reading(n) /\ ReadRight(n) \subseteq ReadRight(n)'
           /\ UNCHANGED channel \/ \E e \in Event \ ReadTopic(n) : Send(e)
Goes(n) == RowTruth(n)' /\ RowGoes(n) /\ ReadGoes(n)

\* Which events belong to which topic, and which of them are right.
LEMMA EventTopics ==
    /\ \A n \in Note : \A e \in Event :
          /\ e \in RowTopic(n) <=> \/ e.kind = "AllCleared"
                                   \/ e.kind \in {"Added", "Closed"} /\ e.note = n
          /\ e \in ReadTopic(n) <=> e.kind \in {"Added", "Read"} /\ e.note = n
    /\ \A e \in Event : e \in ModeTopic <=> e.kind = "DndChanged"
    /\ \A n \in Note : \A pending, sent :
          /\ NoteEvent("Added", n) \in RowRightOf(n, pending, sent) <=> pending
          /\ NoteEvent("Closed", n) \in RowRightOf(n, pending, sent) <=> ~(pending /\ sent)
          /\ AllCleared \in RowRightOf(n, pending, sent) <=> ~(pending /\ sent)
    /\ \A n \in Note : \A gone, seen :
          /\ NoteEvent("Added", n) \in ReadRightOf(n, gone, seen) <=> (~gone => ~seen)
          /\ NoteEvent("Read", n) \in ReadRightOf(n, gone, seen) <=> (~gone => seen)
<1>1. /\ \A n \in Note : \A e \in Event :
            /\ e \in RowTopic(n) <=> \/ e.kind = "AllCleared"
                                     \/ e.kind \in {"Added", "Closed"} /\ e.note = n
            /\ e \in ReadTopic(n) <=> e.kind \in {"Added", "Read"} /\ e.note = n
      /\ \A e \in Event : e \in ModeTopic <=> e.kind = "DndChanged"
  BY EventKinds DEF RowTopic, ReadTopic, ModeTopic, Message
<1>2. ASSUME NEW n \in Note, NEW pending, NEW sent
      PROVE  /\ NoteEvent("Added", n) \in RowRightOf(n, pending, sent) <=> pending
             /\ NoteEvent("Closed", n) \in RowRightOf(n, pending, sent) <=> ~(pending /\ sent)
             /\ AllCleared \in RowRightOf(n, pending, sent) <=> ~(pending /\ sent)
  <2>1. \A k \in {"Added", "Closed"} : NoteEvent(k, n) \in RowTopic(n)
    BY <1>1, EventKinds
  <2>2. AllCleared \in RowTopic(n)
    BY <1>1, EventKinds
  <2>3. /\ Shows(NoteEvent("Added", n), n) /\ ~Shows(NoteEvent("Closed", n), n)
        /\ ~Shows(AllCleared, n)
    BY EventKinds DEF Shows
  <2>4. QED  BY <2>1, <2>2, <2>3 DEF RowRightOf
<1>3. ASSUME NEW n \in Note, NEW gone, NEW seen
      PROVE  /\ NoteEvent("Added", n) \in ReadRightOf(n, gone, seen) <=> (~gone => ~seen)
             /\ NoteEvent("Read", n) \in ReadRightOf(n, gone, seen) <=> (~gone => seen)
  <2>1. \A k \in {"Added", "Read"} : NoteEvent(k, n) \in ReadTopic(n)
    BY <1>1, EventKinds
  <2>2. Marks(NoteEvent("Read", n), n) /\ ~Marks(NoteEvent("Added", n), n)
    BY EventKinds DEF Marks
  <2>3. QED  BY <2>1, <2>2 DEF ReadRightOf
<1>4. QED  BY <1>1, <1>2, <1>3

\* A statement that succeeds in time changes the row of its notification only.
LEMMA UpdateTruth ==
    ASSUME TableType, ManagerType, NEW n \in Note, RowTruth(n), n \notin disputed', NEW k \in Note
    PROVE  /\ UpdateDismissed(k) =>
                 /\ n \notin disputed /\ stored' = stored /\ read' = read
                 /\ k # n => (n \in dismissed' <=> n \in dismissed)
                 /\ k = n => arrival[n] \in {"sent", "silent"} /\ n \in dismissed'
           /\ UpdateRead(k) =>
                 /\ n \notin disputed /\ stored' = stored /\ dismissed' = dismissed
                 /\ k # n => (n \in read' <=> n \in read)
                 /\ k = n => arrival[n] \in {"sent", "silent"} /\ n \in read'
<1>1. n \in disputed => ~UpdateDismissed(k) /\ ~UpdateRead(k)
  BY DEF UpdateDismissed, UpdateRead, Noted, Dispute
<1>2. CASE n \notin disputed
  <2>1. n \in stored <=> arrival[n] # "new"
    BY <1>2 DEF RowTruth
  <2>2. arrival[n] \in {"new", "stored", "sent", "silent"}
    BY DEF ManagerType
  <2>3. QED  BY <1>2, <2>1, <2>2 DEF UpdateDismissed, UpdateRead, Noted, Dispute
<1>3. QED  BY <1>1, <1>2

\* The manager's steps.
LEMMA ManagerGoes ==
    ASSUME Types, Wired, Manager, NEW n \in Note, RowTruth(n)
    PROVE  Goes(n)
<1>0. /\ TableType /\ ManagerType
      /\ UNCHANGED <<handler, task>>
  BY DEF Types, Manager, managerFrame
<1>1. \A k : (\E c \in Client : Holds(c, k, n))' <=> (\E c \in Client : Holds(c, k, n))
  BY <1>0 DEF Holds
<1>2. (\E c \in Client : handler[c].pc = "clear")' <=> \E c \in Client : handler[c].pc = "clear"
  BY <1>0
<1>3. Reading(n)' <=> Reading(n)
  BY <1>1 DEF Reading
<1>4. ASSUME closing'[n] = closing[n]
      PROVE  (Closing(n)' <=> Closing(n)) /\ (Erasing(n)' <=> Erasing(n))
  BY <1>1, <1>2, <1>4 DEF Closing, Erasing
<1>5. ASSUME NEW k \in Note, Store(k)  PROVE Goes(n)
  <2>1. /\ arrival[k] = "new" /\ arrival' = [arrival EXCEPT ![k] = "stored"]
        /\ UNCHANGED <<read, dismissed, closing, channel>>
        /\ disputed \subseteq disputed'
        /\ k \in disputed' \/ stored' = stored \cup {k}
        /\ stored' = stored \/ stored' = stored \cup {k}
    BY <1>5 DEF Store, Dispute, channelVars
  <2>2. /\ Closing(n)' <=> Closing(n)
        /\ Erasing(n)' <=> Erasing(n)
    BY <1>4, <2>1
  <2>3. n \notin disputed' /\ k = n => n \in stored' /\ arrival'[n] = "stored"
    BY <1>0, <2>1 DEF ManagerType
  <2>4. k # n => arrival'[n] = arrival[n] /\ (n \in stored' <=> n \in stored)
    BY <1>0, <2>1 DEF ManagerType
  <2>5. RowTruth(n)'
    BY <1>3, <2>1, <2>2, <2>3, <2>4 DEF RowTruth
  <2>6. n \notin disputed' => RowRight(n) \subseteq RowRight(n)'
    <3>1. CASE k = n
      BY <2>1, <2>3, <3>1 DEF RowTruth, RowRight, RowRightOf, Pending
    <3>2. CASE k # n
      BY <2>1, <2>4, <3>2 DEF RowRight, RowRightOf, Pending
    <3>3. QED  BY <3>1, <3>2
  <2>7. ReadRight(n)' = ReadRight(n)
    BY <2>1 DEF ReadRight
  <2>8. QED  BY <1>3, <2>1, <2>2, <2>5, <2>6, <2>7 DEF Goes, RowGoes, ReadGoes
<1>6. ASSUME NEW k \in Note, Announce(k)  PROVE Goes(n)
  <2>1. /\ arrival[k] = "stored" /\ UNCHANGED <<stored, read, dismissed, closing, disputed>>
        /\ \/ arrival' = [arrival EXCEPT ![k] = "sent"] /\ Send(NoteEvent("Added", k))
           \/ arrival' = [arrival EXCEPT ![k] = "silent"] /\ UNCHANGED channel
    BY <1>6 DEF Announce, channelVars, tableVars
  <2>2. /\ Closing(n)' <=> Closing(n)
        /\ Erasing(n)' <=> Erasing(n)
    BY <1>4, <2>1
  <2>3. k = n => arrival'[n] \in {"sent", "silent"}
    BY <1>0, <2>1 DEF ManagerType
  <2>4. k # n => arrival'[n] = arrival[n]
    BY <1>0, <2>1 DEF ManagerType
  <2>5. RowTruth(n)'
    BY <1>3, <2>1, <2>2, <2>3, <2>4 DEF RowTruth
  <2>6. ReadRight(n)' = ReadRight(n)
    BY <2>1 DEF ReadRight
  <2>7. CASE k # n
    <3>1. RowRight(n)' = RowRight(n)
      BY <2>1, <2>4, <2>7 DEF RowRight, Pending
    <3>2. NoteEvent("Added", k) \in Event \ RowTopic(n) /\ NoteEvent("Added", k) \in Event \ ReadTopic(n)
      BY <2>7, EventKinds, EventTopics
    <3>3. QED  BY <1>3, <2>1, <2>2, <2>5, <2>6, <3>1, <3>2 DEF Goes, RowGoes, ReadGoes
  <2>8. CASE k = n /\ arrival' = [arrival EXCEPT ![k] = "silent"] /\ UNCHANGED channel
    <3>1. arrival'[n] = "silent"
      BY <1>0, <2>8 DEF ManagerType
    <3>2. RowRight(n) \subseteq RowRight(n)'
      BY <2>1, <3>1 DEF RowRight, RowRightOf, Pending
    <3>3. QED  BY <1>3, <2>2, <2>5, <2>6, <2>8, <3>2 DEF Goes, RowGoes, ReadGoes
  <2>9. CASE k = n /\ Send(NoteEvent("Added", k))
    <3> DEFINE e == NoteEvent("Added", n)
    <3>1. e \in Event
      BY EventKinds
    <3>2. n \notin disputed' => (n \in Pending)' /\ n \notin read'
      BY <2>1, <2>9 DEF RowTruth, Pending
    <3>3. n \notin disputed' => e \in RowRight(n)' /\ e \in ReadRight(n)'
      BY <3>2, EventTopics DEF RowRight, ReadRight
    <3>4. QED  BY <2>5, <2>9, <3>1, <3>3 DEF Goes, RowGoes, ReadGoes
  <2>10. QED  BY <2>1, <2>7, <2>8, <2>9
<1>7. ASSUME NEW k \in Note, CloseDismiss(k)  PROVE Goes(n)
  <2>1. /\ UpdateDismissed(k) /\ closing' = [closing EXCEPT ![k] = "send"]
        /\ UNCHANGED <<arrival, channel>> /\ disputed \subseteq disputed'
    BY <1>7 DEF CloseDismiss, channelVars, UpdateDismissed, Noted, Dispute
  <2> SUFFICES ASSUME n \notin disputed'  PROVE Goes(n)
    BY DEF Goes, RowTruth, RowGoes, ReadGoes
  <2>2. /\ n \notin disputed /\ stored' = stored /\ read' = read
        /\ k # n => (n \in dismissed' <=> n \in dismissed)
        /\ k = n => arrival[n] \in {"sent", "silent"} /\ n \in dismissed'
    BY <1>0, <2>1, UpdateTruth
  <2>3. CASE k # n
    <3>1. closing'[n] = closing[n]
      BY <1>0, <2>1, <2>3 DEF ManagerType
    <3>2. RowRight(n)' = RowRight(n) /\ ReadRight(n)' = ReadRight(n)
      BY <2>1, <2>2, <2>3 DEF RowRight, ReadRight, Pending
    <3>3. QED  BY <1>3, <1>4, <2>1, <2>2, <2>3, <3>1, <3>2 DEF Goes, RowTruth, RowGoes, ReadGoes
  <2>4. CASE k = n
    <3>1. Erasing(n)'
      <4>1. closing'[n] = "send"
        BY <1>0, <2>1, <2>4 DEF ManagerType
      <4>2. QED  BY <4>1 DEF Erasing, Closing
    <3>2. ReadRight(n) \subseteq ReadRight(n)'
      BY <2>2, <2>4 DEF ReadRight, ReadRightOf
    <3>3. QED  BY <1>3, <2>1, <2>2, <2>4, <3>1, <3>2 DEF Goes, RowTruth, RowGoes, ReadGoes
  <2>5. QED  BY <2>3, <2>4
<1>8. ASSUME NEW k \in Note, CloseBroadcast(k)  PROVE Goes(n)
  <2>1. /\ closing[k] = "send" /\ Send(NoteEvent("Closed", k))
        /\ closing' = [closing EXCEPT ![k] = "done"]
        /\ UNCHANGED <<stored, read, dismissed, arrival, disputed>>
    BY <1>8 DEF CloseBroadcast, tableVars
  <2>2. NoteEvent("Closed", k) \in Event \ ReadTopic(n)
    BY EventKinds, EventTopics
  <2>3. RowRight(n)' = RowRight(n) /\ ReadRight(n)' = ReadRight(n)
    BY <2>1 DEF RowRight, ReadRight, Pending
  <2>4. CASE k # n
    <3>1. closing'[n] = closing[n]
      BY <1>0, <2>1, <2>4 DEF ManagerType
    <3>2. NoteEvent("Closed", k) \in Event \ RowTopic(n)
      BY <2>4, EventKinds, EventTopics
    <3>3. QED  BY <1>3, <1>4, <2>1, <2>2, <2>3, <3>1, <3>2 DEF Goes, RowTruth, RowGoes, ReadGoes
  <2>5. CASE k = n
    <3>1. Closing(n) /\ (Closing(n)' => Closing(n))
      BY <2>1, <2>5 DEF Closing
    <3>2. RowTruth(n)'
      BY <1>3, <2>1, <3>1 DEF RowTruth
    <3>3. n \notin disputed' => NoteEvent("Closed", n) \in RowRight(n)'
      <4>1. n \notin disputed' => ~(n \in Pending)'
        BY <2>1, <3>1 DEF RowTruth, Pending
      <4>2. NoteEvent("Closed", n) \in RowTopic(n) /\ ~Shows(NoteEvent("Closed", n), n)
        BY EventKinds, EventTopics DEF Shows
      <4>3. QED  BY <4>1, <4>2 DEF RowRight, RowRightOf
    <3>4. NoteEvent("Closed", n) \in Event
      BY EventKinds
    <3>5. QED  BY <1>3, <2>1, <2>2, <2>3, <2>5, <3>2, <3>3, <3>4 DEF Goes, RowGoes, ReadGoes
  <2>6. QED  BY <2>4, <2>5
<1>9. ASSUME NEW m \in ConfigModes, Mirror(m)  PROVE Goes(n)
  <2>1. UNCHANGED <<stored, read, dismissed, arrival, closing, disputed, channel>>
    BY <1>9 DEF Mirror, tableVars, channelVars
  <2>2. RowRight(n)' = RowRight(n) /\ ReadRight(n)' = ReadRight(n)
    BY <2>1 DEF RowRight, ReadRight, Pending
  <2>3. QED  BY <1>3, <1>4, <2>1, <2>2 DEF Goes, RowTruth, RowGoes, ReadGoes
<1>10. QED  BY <1>5, <1>6, <1>7, <1>8, <1>9 DEF Manager

\* The handlers' steps.
LEMMA HandlerGoes ==
    ASSUME Types, Wired, NEW c \in Client, UNCHANGED sessionFrame,
           \/ \E k \in Note : Dismiss(c, k) \/ MarkRead(c, k) \/ InvokeAction(c, k) \/ ClearOne(c, k)
           \/ \E w \in WireModes : SetDnd(c, w)
           \/ SendEvent(c) \/ SendCleared(c),
           NEW n \in Note, RowTruth(n)
    PROVE  Goes(n)
<1>0. /\ TableType /\ ManagerType /\ handler \in [Client -> Handler]
      /\ UNCHANGED <<arrival, closing>>
  BY SessionFrame DEF Types, HandlerType
<1>1. ASSUME NEW h, handler' = [handler EXCEPT ![c] = h]
      PROVE  handler'[c] = h /\ \A d \in Client : d # c => handler'[d] = handler[d]
  BY <1>0, <1>1
<1>2. ASSUME UNCHANGED handler
      PROVE  (Closing(n)' <=> Closing(n)) /\ (Erasing(n)' <=> Erasing(n)) /\ (Reading(n)' <=> Reading(n))
  BY <1>0, <1>2 DEF Closing, Erasing, Reading, Holds
\* A handler that takes up an event, or has sent it.
<1>3. ASSUME \A d \in Client : d # c => handler'[d] = handler[d],
             \A kind \in {"Closed", "Read"} : ~Holds(c, kind, n) /\ ~Holds(c, kind, n)',
             handler[c].pc # "clear", handler'[c].pc # "clear"
      PROVE  (Closing(n)' <=> Closing(n)) /\ (Erasing(n)' <=> Erasing(n)) /\ (Reading(n)' <=> Reading(n))
  <2>1. \A d \in Client : \A kind \in {"Closed", "Read"} : Holds(d, kind, n)' <=> Holds(d, kind, n)
    BY <1>3 DEF Holds
  <2>2. \A d \in Client : handler'[d].pc = "clear" <=> handler[d].pc = "clear"
    BY <1>3
  <2>3. QED  BY <1>0, <2>1, <2>2 DEF Closing, Erasing, Reading
<1>4. \A e \in HandlerEvent : ToSend(e).pc = "send" /\ ToSend(e).msg = e
  BY HandlerIs DEF HandlerEvent
<1>5. \A kind, k : kind \in {"Closed", "Read"} /\ k \in Note =>
          /\ NoteEvent(kind, k) \in HandlerEvent
          /\ \A other : \A m : NoteEvent(kind, k) = NoteEvent(other, m) => other = kind /\ m = k
  BY EventKinds DEF HandlerEvent, NoteEvent
<1>6. ASSUME NEW k \in Note, Dismiss(c, k)  PROVE Goes(n)
  <2>1. /\ handler[c].pc = "idle" /\ UpdateDismissed(k) /\ UNCHANGED channel
        /\ handler' = [handler EXCEPT ![c] = ToSend(NoteEvent("Closed", k))]
        /\ disputed \subseteq disputed'
    BY <1>6 DEF Dismiss, Reads, channelVars, UpdateDismissed, Noted, Dispute
  <2>2. /\ handler'[c].pc = "send" /\ handler'[c].msg = NoteEvent("Closed", k)
        /\ \A d \in Client : d # c => handler'[d] = handler[d]
    BY <1>1, <1>4, <1>5, <2>1
  <2> SUFFICES ASSUME n \notin disputed'  PROVE Goes(n)
    BY DEF Goes, RowTruth, RowGoes, ReadGoes
  <2>3. /\ n \notin disputed /\ stored' = stored /\ read' = read
        /\ k # n => (n \in dismissed' <=> n \in dismissed)
        /\ k = n => arrival[n] \in {"sent", "silent"} /\ n \in dismissed'
    BY <1>0, <2>1, UpdateTruth
  <2>4. CASE k # n
    <3>1. \A kind \in {"Closed", "Read"} : ~Holds(c, kind, n) /\ ~Holds(c, kind, n)'
      BY <1>5, <2>1, <2>2, <2>4 DEF Holds
    <3>2. (Closing(n)' <=> Closing(n)) /\ (Erasing(n)' <=> Erasing(n)) /\ (Reading(n)' <=> Reading(n))
      BY <1>3, <2>1, <2>2, <3>1
    <3>3. RowRight(n)' = RowRight(n) /\ ReadRight(n)' = ReadRight(n)
      BY <1>0, <2>3, <2>4 DEF RowRight, ReadRight, Pending
    <3>4. QED  BY <1>0, <2>1, <2>3, <2>4, <3>2, <3>3 DEF Goes, RowTruth, RowGoes, ReadGoes
  <2>5. CASE k = n
    <3>1. Erasing(n)'
      BY <2>2, <2>5 DEF Erasing, Closing, Holds
    <3>2. Reading(n)' <=> Reading(n)
      <4>1. ~Holds(c, "Read", n) /\ ~Holds(c, "Read", n)'
        BY <1>5, <2>1, <2>2 DEF Holds
      <4>2. \A d \in Client : Holds(d, "Read", n)' <=> Holds(d, "Read", n)
        BY <2>2, <4>1 DEF Holds
      <4>3. QED  BY <4>2 DEF Reading
    <3>3. ReadRight(n) \subseteq ReadRight(n)'
      BY <2>3, <2>5 DEF ReadRight, ReadRightOf
    <3>4. QED  BY <1>0, <2>1, <2>3, <2>5, <3>1, <3>2, <3>3 DEF Goes, RowTruth, RowGoes, ReadGoes
  <2>6. QED  BY <2>4, <2>5
<1>7. ASSUME NEW k \in Note, MarkRead(c, k)  PROVE Goes(n)
  <2>1. /\ handler[c].pc = "idle" /\ UpdateRead(k) /\ UNCHANGED channel
        /\ handler' = [handler EXCEPT ![c] = ToSend(NoteEvent("Read", k))]
        /\ disputed \subseteq disputed'
    BY <1>7 DEF MarkRead, Reads, channelVars, UpdateRead, Noted, Dispute
  <2>2. /\ handler'[c].pc = "send" /\ handler'[c].msg = NoteEvent("Read", k)
        /\ \A d \in Client : d # c => handler'[d] = handler[d]
    BY <1>1, <1>4, <1>5, <2>1
  <2> SUFFICES ASSUME n \notin disputed'  PROVE Goes(n)
    BY DEF Goes, RowTruth, RowGoes, ReadGoes
  <2>3. /\ n \notin disputed /\ stored' = stored /\ dismissed' = dismissed
        /\ k # n => (n \in read' <=> n \in read)
        /\ k = n => arrival[n] \in {"sent", "silent"} /\ n \in read'
    BY <1>0, <2>1, UpdateTruth
  <2>4. RowRight(n)' = RowRight(n)
    BY <1>0, <2>3 DEF RowRight, Pending
  <2>5. CASE k # n
    <3>1. \A kind \in {"Closed", "Read"} : ~Holds(c, kind, n) /\ ~Holds(c, kind, n)'
      BY <1>5, <2>1, <2>2, <2>5 DEF Holds
    <3>2. (Closing(n)' <=> Closing(n)) /\ (Erasing(n)' <=> Erasing(n)) /\ (Reading(n)' <=> Reading(n))
      BY <1>3, <2>1, <2>2, <3>1
    <3>3. ReadRight(n)' = ReadRight(n)
      BY <2>3, <2>5 DEF ReadRight
    <3>4. QED  BY <1>0, <2>1, <2>3, <2>4, <2>5, <3>2, <3>3 DEF Goes, RowTruth, RowGoes, ReadGoes
  <2>6. CASE k = n
    <3>1. Reading(n)'
      BY <2>2, <2>6 DEF Reading, Holds
    <3>2. (Closing(n)' <=> Closing(n)) /\ (Erasing(n)' <=> Erasing(n))
      <4>1. ~Holds(c, "Closed", n) /\ ~Holds(c, "Closed", n)'
        BY <1>5, <2>1, <2>2 DEF Holds
      <4>2. \A d \in Client : /\ Holds(d, "Closed", n)' <=> Holds(d, "Closed", n)
                              /\ handler'[d].pc = "clear" <=> handler[d].pc = "clear"
        BY <2>1, <2>2, <4>1 DEF Holds
      <4>3. QED  BY <1>0, <4>2 DEF Closing, Erasing
    <3>3. QED  BY <1>0, <2>1, <2>3, <2>4, <2>6, <3>1, <3>2 DEF Goes, RowTruth, RowGoes, ReadGoes
  <2>7. QED  BY <2>5, <2>6
<1>8. ASSUME NEW k \in Note, InvokeAction(c, k)  PROVE Goes(n)
  <2>1. /\ Send(NoteEvent("ActionInvoked", k)) /\ UNCHANGED handler
        /\ UNCHANGED <<stored, read, dismissed, disputed>>
    BY <1>8 DEF InvokeAction, tableVars, history
  <2>2. NoteEvent("ActionInvoked", k) \in (Event \ RowTopic(n)) \cap (Event \ ReadTopic(n))
    BY EventKinds, EventTopics
  <2>3. RowRight(n)' = RowRight(n) /\ ReadRight(n)' = ReadRight(n)
    BY <1>0, <2>1 DEF RowRight, ReadRight, Pending
  <2>4. QED  BY <1>0, <1>2, <2>1, <2>2, <2>3 DEF Goes, RowTruth, RowGoes, ReadGoes
<1>9. ASSUME NEW k \in Note, ClearOne(c, k)  PROVE Goes(n)
  <2>1. /\ handler[c].pc = "clear" /\ UpdateDismissed(k) /\ UNCHANGED channel
        /\ handler' = [handler EXCEPT ![c].rows = @ \ {k}]
        /\ disputed \subseteq disputed'
    BY <1>9 DEF ClearOne, channelVars, UpdateDismissed, Noted, Dispute
  <2>2. handler'[c].pc = "clear" /\ \A d \in Client : d # c => handler'[d] = handler[d]
    BY <1>0, <2>1 DEF Handler
  <2> SUFFICES ASSUME n \notin disputed'  PROVE Goes(n)
    BY DEF Goes, RowTruth, RowGoes, ReadGoes
  <2>3. /\ n \notin disputed /\ stored' = stored /\ read' = read
        /\ k # n => (n \in dismissed' <=> n \in dismissed)
        /\ k = n => arrival[n] \in {"sent", "silent"} /\ n \in dismissed'
    BY <1>0, <2>1, UpdateTruth
  <2>4. \A d \in Client : \A kind \in {"Closed", "Read"} : Holds(d, kind, n)' <=> Holds(d, kind, n)
    BY <2>1, <2>2 DEF Holds
  <2>5. (Closing(n)' <=> Closing(n)) /\ (Reading(n)' <=> Reading(n)) /\ Erasing(n)'
    BY <1>0, <2>2, <2>4 DEF Closing, Reading, Erasing
  <2>6. ReadRight(n) \subseteq ReadRight(n)'
    BY <2>3 DEF ReadRight, ReadRightOf
  <2>7. QED  BY <1>0, <2>1, <2>3, <2>5, <2>6 DEF Goes, RowTruth, RowGoes, ReadGoes
<1>10. ASSUME NEW w \in WireModes, SetDnd(c, w)  PROVE Goes(n)
  <2>1. /\ handler[c].pc = "idle" /\ UNCHANGED channel
        /\ UNCHANGED <<stored, read, dismissed, disputed>>
        /\ handler' = [handler EXCEPT ![c] = ToSend(DndChanged(FromWire(w)))]
    BY <1>10 DEF SetDnd, Reads, channelVars, tableVars
  <2>2. DndChanged(FromWire(w)) \in HandlerEvent /\ DndChanged(FromWire(w)).kind = "DndChanged"
    <3>1. FromWire(w) \in DndModes
      BY DEF FromWire, DndModes
    <3>2. QED  BY <3>1, EventKinds DEF HandlerEvent
  <2>3. /\ handler'[c].pc = "send" /\ handler'[c].msg.kind = "DndChanged"
        /\ \A d \in Client : d # c => handler'[d] = handler[d]
    BY <1>1, <1>4, <2>1, <2>2
  <2>4. \A kind \in {"Closed", "Read"} : ~Holds(c, kind, n) /\ ~Holds(c, kind, n)'
    BY <2>1, <2>3, EventKinds DEF Holds
  <2>5. (Closing(n)' <=> Closing(n)) /\ (Erasing(n)' <=> Erasing(n)) /\ (Reading(n)' <=> Reading(n))
    BY <1>3, <2>1, <2>3, <2>4
  <2>6. RowRight(n)' = RowRight(n) /\ ReadRight(n)' = ReadRight(n)
    BY <1>0, <2>1 DEF RowRight, ReadRight, Pending
  <2>7. QED  BY <1>0, <2>1, <2>5, <2>6 DEF Goes, RowTruth, RowGoes, ReadGoes
<1>11. CASE SendEvent(c)
  <2> DEFINE e == handler[c].msg
  <2>1. /\ handler[c].pc = "send" /\ Send(e) /\ handler' = [handler EXCEPT ![c] = IdleHandler]
        /\ UNCHANGED <<stored, read, dismissed, disputed>>
        /\ e \in Event /\ e.kind \in {"Closed", "Read", "DndChanged"}
    BY <1>11 DEF SendEvent, tableVars, history, Wired, HandlerWired, HandlerEvent
  <2>2. handler'[c].pc = "idle" /\ \A d \in Client : d # c => handler'[d] = handler[d]
    BY <1>1, <2>1, HandlerIs
  <2>3. RowRight(n)' = RowRight(n) /\ ReadRight(n)' = ReadRight(n)
    BY <1>0, <2>1 DEF RowRight, ReadRight, Pending
  <2>4. /\ \A d \in Client : \A kind \in {"Closed", "Read"} : Holds(d, kind, n)' => Holds(d, kind, n)
        /\ \A d \in Client : handler'[d].pc = "clear" <=> handler[d].pc = "clear"
    BY <2>1, <2>2 DEF Holds
  <2>5. RowTruth(n)'
    BY <1>0, <2>1, <2>4 DEF RowTruth, Closing, Reading
  <2>6. CASE e = NoteEvent("Closed", n)
    <3>1. n \notin disputed' => n \in dismissed
      BY <2>1, <2>6 DEF RowTruth, Closing, Holds
    <3>2. e \in RowTopic(n) /\ ~Shows(e, n) /\ e \in Event \ ReadTopic(n)
      BY <2>1, <2>6, EventKinds, EventTopics DEF Shows
    <3>3. n \notin disputed' => e \in RowRight(n)
      BY <3>1, <3>2 DEF RowRight, RowRightOf, Pending
    <3>4. Reading(n)' <=> Reading(n)
      <4>1. ~Holds(c, "Read", n)
        BY <1>5, <2>6 DEF Holds
      <4>2. \A d \in Client : Holds(d, "Read", n)' <=> Holds(d, "Read", n)
        BY <2>2, <2>4, <4>1 DEF Holds
      <4>3. QED  BY <4>2 DEF Reading
    <3> HIDE DEF e
    <3>5. QED  BY <2>1, <2>3, <2>5, <3>2, <3>3, <3>4 DEF Goes, RowGoes, ReadGoes
  <2>7. CASE e = NoteEvent("Read", n)
    <3>1. n \notin disputed' => n \in read
      BY <2>1, <2>7 DEF RowTruth, Reading, Holds
    <3>2. e \in ReadTopic(n) /\ Marks(e, n) /\ e \in Event \ RowTopic(n)
      BY <2>1, <2>7, EventKinds, EventTopics DEF Marks
    <3>3. n \notin disputed' => e \in ReadRight(n)
      BY <3>1, <3>2 DEF ReadRight, ReadRightOf
    <3>4. Erasing(n)' <=> Erasing(n)
      <4>1. ~Holds(c, "Closed", n)
        BY <1>5, <2>7 DEF Holds
      <4>2. \A d \in Client : Holds(d, "Closed", n)' <=> Holds(d, "Closed", n)
        BY <2>2, <2>4, <4>1 DEF Holds
      <4>3. QED  BY <1>0, <2>4, <4>2 DEF Erasing, Closing
    <3> HIDE DEF e
    <3>5. QED  BY <2>1, <2>3, <2>5, <3>2, <3>3, <3>4 DEF Goes, RowGoes, ReadGoes
  <2>8. CASE e # NoteEvent("Closed", n) /\ e # NoteEvent("Read", n)
    <3>1. \A kind \in {"Closed", "Read"} : ~Holds(c, kind, n) /\ ~Holds(c, kind, n)'
      BY <2>2, <2>8 DEF Holds
    <3>2. (Closing(n)' <=> Closing(n)) /\ (Erasing(n)' <=> Erasing(n)) /\ (Reading(n)' <=> Reading(n))
      BY <1>3, <2>1, <2>2, <3>1
    <3>3. e \in Event \ RowTopic(n) /\ e \in Event \ ReadTopic(n)
      BY <2>1, <2>8, EventKinds, EventTopics
    <3> HIDE DEF e
    <3>4. QED  BY <2>1, <2>3, <2>5, <3>2, <3>3 DEF Goes, RowGoes, ReadGoes
  <2>9. QED  BY <2>6, <2>7, <2>8
<1>12. CASE SendCleared(c)
  <2>1. /\ handler[c].pc = "clear" /\ Send(AllCleared)
        /\ handler' = [handler EXCEPT ![c] = IdleHandler]
        /\ UNCHANGED <<stored, read, dismissed>>
        /\ disputed' = disputed \cup {k \in Pending : arrival[k] # "stored"}
    BY <1>12 DEF SendCleared, tableVars
  <2>2. handler'[c].pc = "idle" /\ \A d \in Client : d # c => handler'[d] = handler[d]
    BY <1>1, <2>1, HandlerIs
  <2>3. \A d \in Client : \A kind \in {"Closed", "Read"} : Holds(d, kind, n)' <=> Holds(d, kind, n)
    BY <2>1, <2>2 DEF Holds
  <2>4. (Closing(n)' <=> Closing(n)) /\ (Reading(n)' <=> Reading(n))
    BY <1>0, <2>3 DEF Closing, Reading
  <2>5. RowTruth(n)'
    BY <1>0, <2>1, <2>4 DEF RowTruth
  <2>6. AllCleared \in Event /\ AllCleared \in RowTopic(n) /\ ~Shows(AllCleared, n)
        /\ AllCleared \notin ReadTopic(n)
    BY EventKinds, EventTopics DEF Shows
  <2>7. n \notin disputed' => AllCleared \in RowRight(n)'
    BY <1>0, <2>1, <2>6 DEF RowRight, RowRightOf, Pending
  <2>8. ReadRight(n)' = ReadRight(n)
    BY <2>1 DEF ReadRight
  <2>9. QED  BY <2>1, <2>4, <2>5, <2>6, <2>7, <2>8 DEF Goes, RowGoes, ReadGoes
<1>13. QED  BY <1>6, <1>7, <1>8, <1>9, <1>10, <1>11, <1>12

LEMMA BlindTopics ==
    ASSUME NEW n \in Note, NEW p, NEW q
    PROVE  Blind(RowRightOf(n, p, q)) /\ Blind(ReadRightOf(n, p, q))
<1> SUFFICES ASSUME NEW rows \in SUBSET Note, NEW seen \in SUBSET Note, NEW m1 \in DndModes, NEW m2 \in DndModes
             PROVE  /\ Sync(rows, seen, m1) \in RowRightOf(n, p, q) =>
                           Sync(rows, seen, m2) \in RowRightOf(n, p, q)
                    /\ Sync(rows, seen, m1) \in ReadRightOf(n, p, q) =>
                           Sync(rows, seen, m2) \in ReadRightOf(n, p, q)
  BY DEF Blind
<1>1. \A m \in DndModes : LET sync == Sync(rows, seen, m) IN
          /\ sync \in RowTopic(n) /\ sync \in ReadTopic(n)
          /\ Shows(sync, n) <=> n \in rows
          /\ Marks(sync, n) <=> n \in seen
  BY ResponseKinds DEF RowTopic, ReadTopic, Shows, Marks, Message
<1>2. QED  BY <1>1 DEF RowRightOf, ReadRightOf

LEMMA HelloIsRight ==
    ASSUME Types, NEW n \in Note
    PROVE  HelloRight(n, RowRight(n)) /\ HelloRight(n, ReadRight(n))
<1> DEFINE sync == Sync(Pending, read \cap Pending, dnd_mode)
<1>1. Pending \in SUBSET Note /\ read \cap Pending \in SUBSET Note /\ dnd_mode \in DndModes
  BY DEF Types, TableType, ModeType, Pending
<1>2. /\ sync \in RowTopic(n) /\ sync \in ReadTopic(n)
      /\ Shows(sync, n) <=> n \in Pending
      /\ Marks(sync, n) <=> n \in read /\ n \in Pending
  BY <1>1, ResponseKinds DEF RowTopic, ReadTopic, Shows, Marks, Message
<1>3. n \notin dismissed => (n \in read /\ n \in Pending <=> n \in read)
  BY DEF Pending, Types, TableType
<1> HIDE DEF sync
<1>4. QED  BY <1>2, <1>3 DEF HelloRight, RowRight, RowRightOf, ReadRight, ReadRightOf, sync

\* The task tells the handler of c, in overtaken, of what concerns n.
LEMMA TellsHolder ==
    ASSUME Types, Wired, NEW n \in Note, NEW c \in Client, WriteTo(c), conn[c] = "open", HoldsRows(c),
           task.event \in RowTopic(n) \/ task.event \in ReadTopic(n)
    PROVE  n \in overtaken'[c]
<1>1. task.event \in Event
  BY DEF WriteTo, Wired, TaskWired
<1>2. n \in ToldOf(task.event)
  BY <1>1, EventTopics, MessageKinds DEF ToldOf
<1>3. overtaken'[c] = overtaken[c] \cup ToldOf(task.event)
  BY DEF WriteTo, WriteFails, Types, SyncType
<1>4. QED  BY <1>2, <1>3

NoteInv(n) == RowTruth(n) /\ RowAgreed(n) /\ ReadAgreed(n)

LEMMA NoteStep ==
    ASSUME Types, Wired, Types', Wired', [Next]_vars, NEW n \in Note, NoteInv(n)
    PROVE  NoteInv(n)'
<1>1. n \notin Big => /\ IsTopic(RowTopic(n), RowRight(n)) /\ IsTopic(RowTopic(n), RowRight(n)')
                      /\ IsTopic(ReadTopic(n), ReadRight(n)) /\ IsTopic(ReadTopic(n), ReadRight(n)')
                      /\ Blind(RowRight(n)) /\ Blind(ReadRight(n))
  BY RowIsTopic, ReadIsTopic, BlindTopics DEF RowRight, ReadRight
<1>2. ModeType'
  BY DEF Types
<1>3. ASSUME NEW right, right = RowRight(n)', Agreed(n, RowTopic(n), right)'
      PROVE  Agreed(n, RowTopic(n), RowRight(n))'
  BY <1>3 DEF Agreed, AgreedOn, Fed, Held, Told
<1>4. ASSUME NEW right, right = ReadRight(n)', Agreed(n, ReadTopic(n), right)'
      PROVE  Agreed(n, ReadTopic(n), ReadRight(n))'
  BY <1>4 DEF Agreed, AgreedOn, Fed, Held, Told
<1>5. CASE Eventful
  <2>1. Goes(n) /\ disputed \subseteq disputed'
    BY <1>5, ManagerGoes, HandlerGoes, EventfulKeeps DEF Eventful, NoteInv
  <2>2. ASSUME Live', n \notin disputed' \cup Big, ~Erasing(n)'
        PROVE  Agreed(n, RowTopic(n), RowRight(n))'
    <3>1. PICK right, wider : right = RowRight(n) /\ wider = RowRight(n)'
      OBVIOUS
    <3>2. \/ \E e \in Event : e \in wider /\ Send(e)
          \/ /\ ~Erasing(n) /\ right \subseteq wider
             /\ UNCHANGED channel \/ \E e \in Event \ RowTopic(n) : Send(e)
      BY <2>1, <2>2, <3>1 DEF Goes, RowGoes
    <3>3. ~Erasing(n) => Agreed(n, RowTopic(n), right)
      BY <2>1, <2>2, <3>1, LiveBefore DEF NoteInv, RowAgreed
    <3>4. IsTopic(RowTopic(n), right) /\ IsTopic(RowTopic(n), wider) /\ Blind(right)
      BY <1>1, <2>2, <3>1
    <3>5. Agreed(n, RowTopic(n), wider)'
      BY <1>2, <1>5, <2>2, <3>2, <3>3, <3>4, EventfulAgreed
    <3>6. QED  BY <1>3, <3>1, <3>5
  <2>3. ASSUME Live', n \notin disputed' \cup Big, ~Reading(n)'
        PROVE  Agreed(n, ReadTopic(n), ReadRight(n))'
    <3>1. PICK right, wider : right = ReadRight(n) /\ wider = ReadRight(n)'
      OBVIOUS
    <3>2. \/ \E e \in Event : e \in wider /\ Send(e)
          \/ /\ ~Reading(n) /\ right \subseteq wider
             /\ UNCHANGED channel \/ \E e \in Event \ ReadTopic(n) : Send(e)
      BY <2>1, <2>3, <3>1 DEF Goes, ReadGoes
    <3>3. ~Reading(n) => Agreed(n, ReadTopic(n), right)
      BY <2>1, <2>3, <3>1, LiveBefore DEF NoteInv, ReadAgreed
    <3>4. IsTopic(ReadTopic(n), right) /\ IsTopic(ReadTopic(n), wider) /\ Blind(right)
      BY <1>1, <2>3, <3>1
    <3>5. Agreed(n, ReadTopic(n), wider)'
      BY <1>2, <1>5, <2>3, <3>2, <3>3, <3>4, EventfulAgreed
    <3>6. QED  BY <1>4, <3>1, <3>5
  <2>4. QED  BY <2>1, <2>2, <2>3 DEF NoteInv, Goes, RowAgreed, ReadAgreed
<1>6. CASE Aside
  <2>1. /\ UNCHANGED <<stored, read, dismissed, arrival, closing, disputed>>
        /\ \A c \in Client : handler[c].pc \in {"send", "clear"} => handler'[c] = handler[c]
        /\ \A c \in Client : handler'[c].pc = "send" => handler'[c] = handler[c]
    BY <1>6, AsideKeeps
  <2>2. /\ RowRight(n)' = RowRight(n) /\ ReadRight(n)' = ReadRight(n)
    BY <2>1 DEF RowRight, ReadRight, Pending
  <2>3. \A c \in Client : \A kind : Holds(c, kind, n)' <=> Holds(c, kind, n)
    BY <2>1 DEF Holds
  <2>4. /\ Closing(n)' <=> Closing(n)
        /\ Reading(n)' <=> Reading(n)
        /\ Erasing(n) => Erasing(n)'
    BY <2>1, <2>3 DEF Closing, Reading, Erasing
  <2>5. RowTruth(n)'
    BY <2>1, <2>4 DEF NoteInv, RowTruth
  <2>6. \A c \in Client :
            WriteTo(c) /\ conn[c] = "open" /\ HoldsRows(c) /\ n \notin overtaken'[c] =>
                task.event \notin RowTopic(n) /\ task.event \notin ReadTopic(n)
    BY TellsHolder
  <2>7. HelloRight(n, RowRight(n)) /\ HelloRight(n, ReadRight(n))
    BY HelloIsRight
  <2>8. ASSUME Live', n \notin disputed' \cup Big, ~Erasing(n)'
        PROVE  Agreed(n, RowTopic(n), RowRight(n))'
    <3>1. PICK right : right = RowRight(n)
      OBVIOUS
    <3>2. Live /\ Agreed(n, RowTopic(n), right)
      BY <2>1, <2>4, <2>8, <3>1, LiveBefore DEF NoteInv, RowAgreed
    <3>3. IsTopic(RowTopic(n), right) /\ HelloRight(n, right)
      BY <1>1, <2>7, <2>8, <3>1
    <3>4. Agreed(n, RowTopic(n), right)'
      BY <1>6, <2>6, <2>8, <3>2, <3>3, AsideAgreed
    <3>5. QED  BY <1>3, <2>2, <3>1, <3>4
  <2>9. ASSUME Live', n \notin disputed' \cup Big, ~Reading(n)'
        PROVE  Agreed(n, ReadTopic(n), ReadRight(n))'
    <3>1. PICK right : right = ReadRight(n)
      OBVIOUS
    <3>2. Live /\ Agreed(n, ReadTopic(n), right)
      BY <2>1, <2>4, <2>9, <3>1, LiveBefore DEF NoteInv, ReadAgreed
    <3>3. IsTopic(ReadTopic(n), right) /\ HelloRight(n, right)
      BY <1>1, <2>7, <2>9, <3>1
    <3>4. Agreed(n, ReadTopic(n), right)'
      BY <1>6, <2>6, <2>9, <3>2, <3>3, AsideAgreed
    <3>5. QED  BY <1>4, <2>2, <3>1, <3>4
  <2>10. QED  BY <2>5, <2>8, <2>9 DEF NoteInv, RowAgreed, ReadAgreed
<1>7. QED  BY <1>5, <1>6, NextParts

\* Nothing has been sent, and nobody is connected.
LEMMA InitAgreed ==
    ASSUME Init, NEW n, NEW topic, NEW right
    PROVE  Agreed(n, topic, right)
BY EmptyEndsWell DEF Init, Agreed, Fed, ReceivingTask

LEMMA InitNote ==
    ASSUME Init, NEW n \in Note
    PROVE  NoteInv(n)
<1>1. \A c \in Client : handler[c].pc = "ended"
  BY HandlerIs DEF Init
<1>2. RowTruth(n)
  BY <1>1 DEF Init, RowTruth, Closing, Reading, Holds
<1>3. QED  BY <1>2, InitAgreed DEF NoteInv, RowAgreed, ReadAgreed

\* When nothing is on its way, everybody has been told.
LEMMA QuietTold ==
    ASSUME Wired, Quiet
    PROVE  /\ Live
           /\ \A n \in Note : ~Erasing(n) /\ ~Reading(n)
           /\ \A n, topic, right : \A c \in Client :
                 Agreed(n, topic, right) /\ conn[c] = "open" /\ n \notin missed[c] /\ view[c].synced
                 => AsSync(view[c]) \in right
<1>1. Live
  BY DEF Quiet, Live, Wired, TaskWired
<1>2. \A n \in Note : ~Erasing(n) /\ ~Reading(n)
  BY DEF Quiet, Erasing, Closing, Reading, Holds
<1>3. ASSUME NEW n, NEW topic, NEW right, NEW c \in Client,
             Agreed(n, topic, right), conn[c] = "open", n \notin missed[c], view[c].synced
      PROVE  AsSync(view[c]) \in right
  <2>1. ~Coming(c, topic)
    BY EmptyEndsWell DEF Quiet, Coming
  <2>2. inbox[c] = <<>>
    BY DEF Quiet
  <2>3. Told(c, topic, right)
    BY <1>3 DEF Agreed, AgreedOn
  <2>4. QED  BY <1>3, <2>1, <2>2, <2>3, EmptyEndsWell DEF Told
<1>4. QED  BY <1>1, <1>2, <1>3

\* However requests, closes, announcements and snapshots overlap, a client shows,
\* once everything has arrived, the notifications that are pending and have been
\* announced, and which of them are read: for any number of clients and
\* notifications, and whatever the channel and the buffers hold.
THEOREM SocketShellAgreesWithTable == Spec => []ShellAgreesWithTable
<1> DEFINE Inv == Types /\ Wired /\ \A n \in Note : NoteInv(n)
<1>1. Init => Inv
  BY InitWired, InitNote
<1>2. Inv /\ [Next]_vars => Inv'
  BY NextWired, NoteStep
<1>3. Inv => ShellAgreesWithTable
  <2> SUFFICES ASSUME Inv, Quiet, NEW c \in Client, NEW n \in Note \ (disputed \cup Big),
                      conn[c] = "open", view[c].synced, n \notin missed[c]
               PROVE  /\ n \in view[c].shown =>
                             n \in Pending /\ (n \in view[c].read <=> n \in read)
                      /\ n \in Pending /\ arrival[n] = "sent" => n \in view[c].shown
    BY DEF ShellAgreesWithTable
  <2>1. Agreed(n, RowTopic(n), RowRight(n)) /\ Agreed(n, ReadTopic(n), ReadRight(n))
    BY QuietTold DEF NoteInv, RowAgreed, ReadAgreed
  <2>2. AsSync(view[c]) \in RowRight(n) /\ AsSync(view[c]) \in ReadRight(n)
    BY <2>1, QuietTold
  <2>3. /\ Shows(AsSync(view[c]), n) <=> n \in view[c].shown
        /\ Marks(AsSync(view[c]), n) <=> n \in view[c].read
    BY AsSyncIs DEF Types, ConnType, Shows, Marks
  <2>4. QED  BY <2>2, <2>3 DEF RowRight, RowRightOf, ReadRight, ReadRightOf, Pending
<1>4. QED  BY <1>1, <1>2, <1>3, PTL DEF Spec

-----------------------------------------------------------------------------
(* The mode *)

ModeGoes ==
    Live' /\ ~mode_disputed' /\ ~Setting' =>
        \/ \E e \in Event : e \in ModeRight' /\ Send(e)
        \/ /\ ~mode_disputed /\ ~Setting /\ UNCHANGED dnd_mode
           /\ UNCHANGED channel \/ \E e \in Event \ ModeTopic : Send(e)

LEMMA EventfulMode ==
    ASSUME Types, Wired, Eventful, ModeTruth
    PROVE  ModeTruth' /\ ModeGoes
<1>0. handler \in [Client -> Handler]
  BY DEF Types, HandlerType
\* Whoever holds a change of the mode still does, and nobody else.
<1>1. ASSUME \A d \in Client :
                 handler'[d].msg # handler[d].msg =>
                     handler[d].msg.kind # "DndChanged" /\ handler'[d].msg.kind # "DndChanged",
             UNCHANGED <<dnd_mode, mode_disputed>>,
             UNCHANGED channel \/ \E e \in Event \ ModeTopic : Send(e)
      PROVE  ModeTruth' /\ ModeGoes
  <2>1. Setting' <=> Setting
    BY <1>1 DEF Setting
  <2>2. ModeTruth'
    BY <1>1 DEF ModeTruth
  <2>3. QED  BY <1>1, <2>1, <2>2 DEF ModeGoes
<1>2. \A k \in Note : \A kind \in {"Added", "Closed", "Read", "ActionInvoked"} :
          /\ NoteEvent(kind, k) \in Event \ ModeTopic
          /\ NoteEvent(kind, k).kind # "DndChanged"
  BY EventKinds, EventTopics
<1>3. CASE Manager
  <2>1. UNCHANGED handler
    BY <1>3 DEF Manager, managerFrame
  <2>2. ASSUME NEW k \in Note, Store(k) \/ Announce(k) \/ CloseDismiss(k) \/ CloseBroadcast(k)
        PROVE  ModeTruth' /\ ModeGoes
    <3>1. /\ UNCHANGED <<dnd_mode, mode_disputed>>
          /\ UNCHANGED channel \/ \E e \in Event \ ModeTopic : Send(e)
      BY <1>2, <2>2 DEF Store, Announce, CloseDismiss, CloseBroadcast, channelVars
    <3>2. QED  BY <1>1, <2>1, <3>1
  <2>3. ASSUME NEW m \in ConfigModes, Mirror(m)  PROVE ModeTruth' /\ ModeGoes
    BY <2>3 DEF Mirror, ModeTruth, ModeGoes
  <2>4. QED  BY <1>3, <2>2, <2>3 DEF Manager
<1>4. ASSUME NEW c \in Client, UNCHANGED sessionFrame,
             \/ \E k \in Note : Dismiss(c, k) \/ MarkRead(c, k) \/ InvokeAction(c, k) \/ ClearOne(c, k)
             \/ \E w \in WireModes : SetDnd(c, w)
             \/ SendEvent(c) \/ SendCleared(c)
      PROVE  ModeTruth' /\ ModeGoes
  <2>1. ASSUME NEW h, handler' = [handler EXCEPT ![c] = h]
        PROVE  handler'[c] = h /\ \A d \in Client : d # c => handler'[d] = handler[d]
    BY <1>0, <2>1
  <2>2. handler[c].pc \in {"idle", "clear"} => handler[c].msg.kind # "DndChanged"
    BY ResponseKinds DEF Wired, HandlerWired
  <2>3. ASSUME NEW k \in Note, Dismiss(c, k) \/ MarkRead(c, k)  PROVE ModeTruth' /\ ModeGoes
    <3>1. PICK e \in HandlerEvent : handler' = [handler EXCEPT ![c] = ToSend(e)] /\ e.kind # "DndChanged"
      BY <2>3, EventKinds DEF Dismiss, MarkRead, HandlerEvent
    <3>2. handler'[c].msg = e /\ \A d \in Client : d # c => handler'[d] = handler[d]
      BY <2>1, <3>1, HandlerIs DEF HandlerEvent
    <3>3. handler[c].pc = "idle" /\ UNCHANGED <<dnd_mode, mode_disputed, channel>>
      BY <2>3 DEF Dismiss, MarkRead, Reads, channelVars
    <3>4. QED  BY <1>1, <2>2, <3>1, <3>2, <3>3
  <2>4. ASSUME NEW k \in Note, InvokeAction(c, k)  PROVE ModeTruth' /\ ModeGoes
    <3>1. UNCHANGED <<handler, dnd_mode, mode_disputed>> /\ Send(NoteEvent("ActionInvoked", k))
      BY <2>4 DEF InvokeAction, history
    <3>2. QED  BY <1>1, <1>2, <3>1
  <2>5. ASSUME NEW k \in Note, ClearOne(c, k)  PROVE ModeTruth' /\ ModeGoes
    <3>1. UNCHANGED <<dnd_mode, mode_disputed, channel>>
          /\ handler' = [handler EXCEPT ![c].rows = @ \ {k}]
      BY <2>5 DEF ClearOne, channelVars
    <3>2. \A d \in Client : handler'[d].msg = handler[d].msg
      BY <1>0, <3>1 DEF Handler
    <3>3. QED  BY <1>1, <3>1, <3>2
  <2>6. ASSUME NEW w \in WireModes, SetDnd(c, w)  PROVE ModeTruth' /\ ModeGoes
    <3> DEFINE e == DndChanged(FromWire(w))
    <3>1. e \in Event /\ e.kind = "DndChanged" /\ e.mode = FromWire(w)
      <4>1. FromWire(w) \in DndModes
        BY DEF FromWire, DndModes
      <4>2. QED  BY <4>1, EventKinds
    <3>2. /\ handler' = [handler EXCEPT ![c] = ToSend(e)] /\ dnd_mode' = e.mode
          /\ mode_disputed' = \E d \in Client : handler[d].msg.kind = "DndChanged"
      BY <2>6, <3>1 DEF SetDnd
    <3> HIDE DEF e
    <3>3. handler'[c].msg = e /\ \A d \in Client : d # c => handler'[d] = handler[d]
      BY <2>1, <3>1, <3>2, HandlerIs
    <3>4. Setting'
      BY <3>1, <3>3 DEF Setting
    <3>5. ModeTruth'
      BY <3>2, <3>3 DEF ModeTruth
    <3>6. QED  BY <3>4, <3>5 DEF ModeGoes
  <2>7. CASE SendEvent(c)
    <3> DEFINE e == handler[c].msg
    <3>1. /\ Send(e) /\ handler' = [handler EXCEPT ![c] = IdleHandler]
          /\ e \in Event /\ UNCHANGED <<dnd_mode, mode_disputed>>
      BY <2>7 DEF SendEvent, history, Wired, HandlerWired, HandlerEvent
    <3>2. /\ handler'[c].msg.kind = "none"
          /\ \A d \in Client : d # c => handler'[d] = handler[d]
      BY <2>1, <3>1, HandlerIs, ResponseKinds
    <3>3. CASE e.kind = "DndChanged"
      <4>1. ModeTruth'
        BY <3>1, <3>2 DEF ModeTruth
      <4>2. ~mode_disputed => e \in ModeRight
        BY <3>1, <3>3, EventTopics DEF ModeTruth, ModeRight, ModeRightOf
      <4>3. ModeRight' = ModeRight
        BY <3>1 DEF ModeRight
      <4> HIDE DEF e
      <4>4. QED  BY <3>1, <4>1, <4>2, <4>3 DEF ModeGoes
    <3>4. CASE e.kind # "DndChanged"
      <4>1. e \in Event \ ModeTopic
        BY <3>1, <3>4, EventTopics
      <4>2. \A d \in Client : handler'[d].msg # handler[d].msg =>
                handler[d].msg.kind # "DndChanged" /\ handler'[d].msg.kind # "DndChanged"
        BY <3>2, <3>4
      <4> HIDE DEF e
      <4>3. QED  BY <1>1, <3>1, <4>1, <4>2
    <3>5. QED  BY <3>3, <3>4
  <2>8. CASE SendCleared(c)
    <3>1. /\ Send(AllCleared) /\ handler' = [handler EXCEPT ![c] = IdleHandler]
          /\ handler[c].pc = "clear" /\ UNCHANGED <<dnd_mode, mode_disputed>>
      BY <2>8 DEF SendCleared
    <3>2. /\ handler'[c].msg.kind = "none"
          /\ \A d \in Client : d # c => handler'[d] = handler[d]
      <4>1. IdleHandler.msg.kind = "none"
        BY HandlerIs, ResponseKinds
      <4>2. handler'[c] = IdleHandler /\ \A d \in Client : d # c => handler'[d] = handler[d]
        BY <2>1, <3>1
      <4>3. QED  BY <4>1, <4>2
    <3>3. AllCleared \in Event \ ModeTopic
      BY EventKinds, EventTopics
    <3>4. QED  BY <1>1, <2>2, <3>1, <3>2, <3>3
  <2>9. QED  BY <1>4, <2>3, <2>4, <2>5, <2>6, <2>7, <2>8
<1>5. QED  BY <1>3, <1>4 DEF Eventful

LEMMA ModeStep ==
    ASSUME Types, Wired, Types', Wired', [Next]_vars, ModeTruth, ModeAgreed
    PROVE  ModeTruth' /\ ModeAgreed'
<1>1. IsTopic(ModeTopic, ModeRight) /\ IsTopic(ModeTopic, ModeRight') /\ ModeType'
  BY ModeIsTopic DEF ModeRight, Types
<1>2. ASSUME NEW right, right = ModeRight', Agreed(NoNote, ModeTopic, right)'
      PROVE  Agreed(NoNote, ModeTopic, ModeRight)'
  BY <1>2 DEF Agreed, AgreedOn, Fed, Held, Told
<1>3. CASE Eventful
  <2>1. ModeTruth' /\ ModeGoes
    BY <1>3, EventfulMode
  <2>2. ASSUME Live', ~mode_disputed', ~Setting'
        PROVE  Agreed(NoNote, ModeTopic, ModeRight)'
    <3>1. PICK right, wider, n : right = ModeRight /\ wider = ModeRight' /\ n = NoNote
      OBVIOUS
    <3>2. \/ \E e \in Event : e \in wider /\ Send(e)
          \/ /\ ~mode_disputed /\ ~Setting /\ UNCHANGED dnd_mode
             /\ UNCHANGED channel \/ \E e \in Event \ ModeTopic : Send(e)
      BY <2>1, <2>2, <3>1 DEF ModeGoes
    <3>3. ~mode_disputed /\ ~Setting => Agreed(n, ModeTopic, right)
      BY <2>2, <3>1, LiveBefore DEF ModeAgreed
    <3>4. UNCHANGED dnd_mode => right \subseteq wider
      BY <3>1 DEF ModeRight
    <3>5. IsTopic(ModeTopic, right) /\ IsTopic(ModeTopic, wider)
      BY <1>1, <3>1
    <3>6. Agreed(n, ModeTopic, wider)'
      BY <1>1, <1>3, <2>2, <3>2, <3>3, <3>4, <3>5, EventfulAgreed
    <3>7. QED  BY <1>2, <3>1, <3>6
  <2>3. QED  BY <2>1, <2>2 DEF ModeAgreed
<1>4. CASE Aside
  <2>1. /\ UNCHANGED dnd_mode /\ (mode_disputed => mode_disputed')
        /\ \A c \in Client : handler[c].pc \in {"send", "clear"} => handler'[c] = handler[c]
        /\ \A c \in Client : handler'[c].pc = "send" => handler'[c] = handler[c]
    BY <1>4, AsideKeeps
  <2>2. \A c \in Client : /\ handler[c].msg.kind = "DndChanged" => handler[c].pc = "send"
                          /\ handler'[c].msg.kind = "DndChanged" => handler'[c].pc = "send"
    <3>1. \A m \in Response \cup {NoMsg} : m.kind # "DndChanged"
      BY ResponseKinds
    <3>2. QED  BY <3>1 DEF Wired, HandlerWired, Types, HandlerType, Handler
  <2>3. (Setting => Setting') /\ ModeTruth'
    BY <2>1, <2>2 DEF Setting, ModeTruth
  <2>4. ASSUME Live', ~mode_disputed', ~Setting'
        PROVE  Agreed(NoNote, ModeTopic, ModeRight)'
    <3>1. PICK right, n : right = ModeRight /\ n = NoNote
      OBVIOUS
    <3>2. Live /\ Agreed(n, ModeTopic, right)
      BY <2>1, <2>3, <2>4, <3>1, LiveBefore DEF ModeAgreed
    <3>3. ASSUME NEW rows \in SUBSET Note, NEW seen \in SUBSET Note
          PROVE  Sync(rows, seen, dnd_mode) \in right
      <4>1. Sync(rows, seen, dnd_mode) \in Message
        BY ResponseKinds DEF Types, ModeType, Message
      <4>2. QED  BY <3>1, <4>1, ResponseKinds DEF ModeRight, ModeRightOf, ModeTopic
    <3>4. HelloRight(n, right)
      <4>1. Pending \in SUBSET Note /\ read \cap Pending \in SUBSET Note /\ {} \in SUBSET Note
        BY DEF Types, TableType, Pending
      <4>2. QED  BY <3>3, <4>1 DEF HelloRight
    <3>5. ASSUME NEW c \in Client, WriteTo(c), conn[c] = "open", HoldsRows(c), task.event \in ModeTopic
          PROVE  Snapshot(c) \in right
      <4>1. mode_disputed' = (mode_disputed \/ (HoldsMode(c) /\ task.event.kind = "DndChanged"))
        BY <3>5 DEF WriteTo, WriteFails
      <4>2. task.event.kind = "DndChanged"
        BY <3>5, EventTopics DEF WriteTo, Wired, TaskWired
      <4>3. handler[c].pc = "mode"
        BY <2>4, <3>5, <4>1, <4>2 DEF HoldsRows
      <4>4. handler[c].rows \in SUBSET Note /\ handler[c].seen \in SUBSET Note
        BY DEF Types, HandlerType, Handler
      <4>5. QED  BY <3>3, <4>3, <4>4 DEF Snapshot
    <3>6. IsTopic(ModeTopic, right)
      BY <1>1, <3>1
    <3>7. Agreed(n, ModeTopic, right)'
      BY <1>4, <2>4, <3>2, <3>4, <3>5, <3>6, AsideAgreed
    <3>8. ModeRight' = ModeRight
      BY <2>1 DEF ModeRight
    <3>9. QED  BY <1>2, <3>1, <3>7, <3>8
  <2>5. QED  BY <2>3, <2>4 DEF ModeAgreed
<1>5. QED  BY <1>3, <1>4, NextParts

\* There is something that is no notification.
LEMMA NoNoteIs == NoNote \notin Note
<1>1. {n \in Note : n \notin n} \notin Note
  OBVIOUS
<1>2. \E n : n \notin Note
  BY <1>1
<1>3. QED  BY <1>2 DEF NoNote

\* Once everything has arrived, the clients show the shared mode, unless it was
\* changed behind the events: for any number of clients.
THEOREM SocketShellAgreesOnMode == Spec => []ShellAgreesOnMode
<1> DEFINE Inv == Types /\ Wired /\ ModeTruth /\ ModeAgreed
<1>1. Init => Inv
  <2>1. ASSUME Init  PROVE ModeTruth
    <3>1. \A c \in Client : handler[c].msg.kind = "none"
      BY <2>1, HandlerIs, ResponseKinds DEF Init
    <3>2. QED  BY <3>1 DEF ModeTruth
  <2>2. QED  BY <2>1, InitWired, InitAgreed DEF ModeAgreed
<1>2. Inv /\ [Next]_vars => Inv'
  BY NextWired, ModeStep
<1>3. Inv => ShellAgreesOnMode
  <2> SUFFICES ASSUME Inv, Quiet, ~mode_disputed, NEW c \in Client,
                      conn[c] = "open", view[c].synced
               PROVE  view[c].mode = dnd_mode
    BY DEF ShellAgreesOnMode
  <2>1. ~Setting
    BY ResponseKinds DEF Quiet, Setting, Wired, HandlerWired
  <2>2. Agreed(NoNote, ModeTopic, ModeRight)
    BY <2>1, QuietTold DEF ModeAgreed
  <2>3. NoNote \notin missed[c]
    BY NoNoteIs DEF Types, SyncType
  <2>4. AsSync(view[c]) \in ModeRight
    BY <2>2, <2>3, QuietTold
  <2>5. QED  BY <2>4, AsSyncIs DEF Types, ConnType, ModeRight, ModeRightOf
<1>4. QED  BY <1>1, <1>2, <1>3, PTL DEF Spec

-----------------------------------------------------------------------------
(* The feed of events.  Invariants: Types, Wired, Logged and Followed.     *)

\* The numbering goes on with what is sent, ...
LEMMA NumberLast ==
    ASSUME NEW ch \in Seq(Event), NEW events \in Seq(Event), NEW e \in Event, NEW first,
           NEW f \in [0..Len(ch) -> 0..Len(events)], Numbers(f, ch, events, first),
           NEW sent, sent = Append(ch, e),
           NEW later \in Seq(Event),
           Len(later) = IF TooLarge(e) THEN Len(events) ELSE Len(events) + 1,
           \A i \in 1..Len(events) : later[i] = events[i],
           ~TooLarge(e) => later[Len(later)] = e
    PROVE  \E g \in [0..Len(sent) -> 0..Len(later)] : Numbers(g, sent, later, first)
<1>0. PICK last \in Nat : Len(later) = last
  OBVIOUS
<1> DEFINE g == [i \in 0..Len(sent) |-> IF i <= Len(ch) THEN f[i] ELSE last]
<1>1. /\ Len(ch) \in Nat /\ Len(sent) = Len(ch) + 1 /\ DOMAIN sent = 1..(Len(ch) + 1)
      /\ DOMAIN ch = 1..Len(ch)
      /\ \A i \in DOMAIN ch : sent[i] = ch[i]
      /\ sent[Len(ch) + 1] = e
  OBVIOUS
<1>2. /\ Len(events) \in Nat /\ Len(events) <= last
      /\ last = IF TooLarge(e) THEN Len(events) ELSE Len(events) + 1
      /\ ~TooLarge(e) => later[last] = e
  BY <1>0
<1>3. \A i \in 0..Len(ch) : f[i] \in 0..Len(events)
  OBVIOUS
<1>4. g \in [0..Len(sent) -> 0..Len(later)]
  <2>1. ASSUME NEW i \in 0..Len(sent)  PROVE (IF i <= Len(ch) THEN f[i] ELSE last) \in 0..last
    <3>1. CASE i <= Len(ch)
      <4>1. i \in 0..Len(ch)
        BY <1>1, <3>1
      <4>2. f[i] \in 0..Len(events)
        BY <1>3, <4>1
      <4>3. QED  BY <1>2, <3>1, <4>2
    <3>2. CASE ~(i <= Len(ch))
      BY <3>2
    <3>3. QED  BY <3>1, <3>2
  <2>2. QED  BY <1>0, <2>1
<1>5. /\ \A i \in 0..Len(ch) : g[i] = f[i]
      /\ g[Len(ch) + 1] = last
  BY <1>1
<1> HIDE DEF g
<1>6. g[0] = first
  BY <1>1, <1>5 DEF Numbers
<1>7. g[Len(sent)] = Len(later)
  BY <1>0, <1>1, <1>5
<1>8. ASSUME NEW i \in DOMAIN sent
      PROVE  IF TooLarge(sent[i]) THEN g[i] = g[i - 1]
             ELSE g[i] = g[i - 1] + 1 /\ later[g[i]] = sent[i]
  <2>1. CASE i \in DOMAIN ch
    <3>1. /\ i \in 0..Len(ch) /\ i - 1 \in 0..Len(ch) /\ sent[i] = ch[i]
          /\ g[i] = f[i] /\ g[i - 1] = f[i - 1]
      BY <1>1, <1>5, <2>1
    <3>2. IF TooLarge(ch[i]) THEN f[i] = f[i - 1]
          ELSE f[i] = f[i - 1] + 1 /\ events[f[i]] = ch[i]
      BY <2>1 DEF Numbers
    <3>3. CASE TooLarge(ch[i])
      BY <3>1, <3>2, <3>3
    <3>4. CASE ~TooLarge(ch[i])
      <4>1. f[i] = f[i - 1] + 1 /\ events[f[i]] = ch[i]
        BY <3>2, <3>4
      <4>2. f[i] \in 1..Len(events)
        BY <1>3, <3>1, <4>1
      <4>3. later[f[i]] = events[f[i]]
        BY <4>2
      <4>4. QED  BY <3>1, <3>4, <4>1, <4>3
    <3>5. QED  BY <3>3, <3>4
  <2>2. CASE i = Len(ch) + 1
    <3>1. sent[i] = e /\ g[i] = last /\ i - 1 = Len(ch)
      BY <1>1, <1>5, <2>2
    <3>2. g[i - 1] = Len(events)
      <4>1. g[Len(ch)] = f[Len(ch)]
        BY <1>1, <1>5
      <4>2. f[Len(ch)] = Len(events)
        BY DEF Numbers
      <4>3. QED  BY <3>1, <4>1, <4>2
    <3>3. CASE TooLarge(e)
      BY <1>2, <3>1, <3>2, <3>3
    <3>4. CASE ~TooLarge(e)
      BY <1>2, <3>1, <3>2, <3>4
    <3>5. QED  BY <3>3, <3>4
  <2>3. QED  BY <1>1, <2>1, <2>2
<1>9. Numbers(g, sent, later, first)
  BY <1>6, <1>7, <1>8 DEF Numbers
<1>10. QED  BY <1>4, <1>9

\* ... and without what has been received.
LEMMA NumberRest ==
    ASSUME NEW ch \in Seq(Event), ch # <<>>, NEW events \in Seq(Event), NEW first \in Nat,
           NEW f \in [0..Len(ch) -> 0..Len(events)], Numbers(f, ch, events, first)
    PROVE  /\ \E g \in [0..Len(Tail(ch)) -> 0..Len(events)] :
                  Numbers(g, Tail(ch), events,
                          IF TooLarge(Head(ch)) THEN first ELSE first + 1)
           /\ ~TooLarge(Head(ch)) => first < Len(events) /\ events[first + 1] = Head(ch)
<1> DEFINE t == Tail(ch)
           g == [i \in 0..Len(t) |-> f[i + 1]]
<1>1. /\ Len(ch) \in Nat \ {0} /\ Len(t) = Len(ch) - 1 /\ DOMAIN t = 1..(Len(ch) - 1)
      /\ DOMAIN ch = 1..Len(ch) /\ Head(ch) = ch[1]
      /\ \A i \in 1..(Len(ch) - 1) : t[i] = ch[i + 1]
  OBVIOUS
<1> HIDE DEF t
<1>2. f[1] \in 0..Len(events) /\ f[0] = first /\ Len(events) \in Nat
  BY <1>1 DEF Numbers
<1>3. IF TooLarge(ch[1]) THEN f[1] = f[1 - 1]
      ELSE f[1] = f[1 - 1] + 1 /\ events[f[1]] = ch[1]
  BY <1>1 DEF Numbers
<1>4. f[1] = IF TooLarge(Head(ch)) THEN first ELSE first + 1
  BY <1>1, <1>2, <1>3
<1>5. ~TooLarge(Head(ch)) => first < Len(events) /\ events[first + 1] = Head(ch)
  BY <1>1, <1>2, <1>3
<1>6. \A i \in 0..Len(t) : g[i] = f[i + 1] /\ i + 1 \in 0..Len(ch)
  BY <1>1
<1>7. g \in [0..Len(t) -> 0..Len(events)]
  BY <1>6
<1> HIDE DEF g
<1>8. Numbers(g, t, events, f[1])
  <2>1. g[0] = f[1]
    BY <1>1, <1>6
  <2>2. g[Len(t)] = Len(events)
    <3>1. Len(t) \in 0..Len(t) /\ Len(t) + 1 = Len(ch)
      BY <1>1
    <3>2. g[Len(t)] = f[Len(ch)]
      BY <1>6, <3>1
    <3>3. QED  BY <3>2 DEF Numbers
  <2>3. ASSUME NEW i \in DOMAIN t
        PROVE  IF TooLarge(t[i]) THEN g[i] = g[i - 1]
               ELSE g[i] = g[i - 1] + 1 /\ events[g[i]] = t[i]
    <3>1. /\ i + 1 \in DOMAIN ch /\ t[i] = ch[i + 1] /\ i \in 0..Len(t) /\ i - 1 \in 0..Len(t)
          /\ (i + 1) - 1 = i /\ (i - 1) + 1 = i
      BY <1>1
    <3>2. g[i] = f[i + 1] /\ g[i - 1] = f[i]
      BY <1>6, <3>1
    <3>3. IF TooLarge(ch[i + 1]) THEN f[i + 1] = f[(i + 1) - 1]
          ELSE f[i + 1] = f[(i + 1) - 1] + 1 /\ events[f[i + 1]] = ch[i + 1]
      BY <3>1 DEF Numbers
    <3>4. QED  BY <3>1, <3>2, <3>3
  <2>4. QED  BY <2>1, <2>2, <2>3 DEF Numbers
<1>9. QED  BY <1>4, <1>5, <1>7, <1>8 DEF t

\* What the refinement looks at.
feedVars == <<channel, overrun, log, forwarded, task, writers, conn, start, got>>
Members == {c \in Client : conn[c] = "open"}
FeedRests == UNCHANGED <<log, forwarded, Members, start, got>>

\* Who neither sends nor receives keeps the numbering.
LEMMA LoggedStays ==
    ASSUME Logged, UNCHANGED <<channel, log, forwarded>>, InHand' = InHand,
           InHand = 1 => task'.event = task.event, Live' => Live,
           ~Recording => got' = got /\ \A c \in Client : start'[c] = 0
    PROVE  Logged'
<1>1. CASE Recording
  <2>1. Live => \E f \in [0..Len(channel) -> 0..Len(log)] :
                    Numbers(f, channel, log, forwarded + InHand)
    BY <1>1 DEF Logged
  <2>2. Live' => \E f \in [0..Len(channel') -> 0..Len(log')] :
                     Numbers(f, channel', log', forwarded' + InHand')
    BY <2>1
  <2>3. InHand = 1 => forwarded < Len(log) /\ log[forwarded + 1] = task.event
    BY <1>1 DEF Logged
  <2>4. QED  BY <1>1, <2>2, <2>3 DEF Logged
<1>2. CASE ~Recording
  <2>1. log = <<>> /\ forwarded = 0 /\ \A c \in Client : got[c] = <<>>
    BY <1>2 DEF Logged
  <2>2. QED  BY <1>2, <2>1 DEF Logged
<1>3. QED  BY <1>1, <1>2

LEMMA FeedAside ==
    ASSUME Logged, Followed, UNCHANGED feedVars
    PROVE  Logged' /\ Followed' /\ FeedRests
<1>1. Logged'
  <2>1. InHand' = InHand /\ (Live' <=> Live)
    BY DEF feedVars, InHand, Live
  <2>2. ~Recording => \A c \in Client : start[c] = 0
    BY DEF Logged
  <2>3. QED  BY <2>1, <2>2, LoggedStays DEF feedVars
<1>2. Followed'
  BY DEF feedVars, Followed
<1>3. FeedRests
  BY DEF feedVars, FeedRests, Members
<1>4. QED  BY <1>1, <1>2, <1>3

\* A send is a publication, unless the event is too large to forward or nobody
\* receives any more.
LEMMA FeedSend ==
    ASSUME Types, Wired, Logged, Followed, NEW e \in Event, Send(e),
           UNCHANGED <<forwarded, task, writers, conn, start, got>>
    PROVE  Logged' /\ Followed' /\ (Feed!Next \/ FeedRests)
<1>1. Followed'
  BY DEF Followed
<1>2. CASE task.pc = "ended"
  <2>1. UNCHANGED feedVars
    BY <1>2 DEF Send, channelVars, feedVars
  <2>2. QED  BY <2>1, FeedAside
<1>3. CASE task.pc # "ended"
  <2>1. log' = IF Recording /\ ~TooLarge(e) THEN Append(log, e) ELSE log
    BY <1>3 DEF Send
  <2>2. log \in Seq(Event) /\ forwarded \in Nat
    BY DEF Types, ChannelType, TaskType
  <2>3. Feed!Next \/ FeedRests
    <3>1. CASE Recording /\ ~TooLarge(e)
      <4>1. Feed!Publish(e)
        BY <2>1, <3>1 DEF Feed!Publish
      <4>2. QED  BY <4>1 DEF Feed!Next
    <3>2. CASE ~(Recording /\ ~TooLarge(e))
      BY <2>1, <3>2 DEF FeedRests, Members
    <3>3. QED  BY <3>1, <3>2
  <2>4. ASSUME ~Recording  PROVE Logged'
    BY <2>1, <2>4 DEF Logged
  <2>5. ASSUME Recording  PROVE Logged'
    <3>1. /\ log' \in Seq(Event)
          /\ Len(log') = IF TooLarge(e) THEN Len(log) ELSE Len(log) + 1
          /\ \A i \in 1..Len(log) : log'[i] = log[i]
          /\ ~TooLarge(e) => log'[Len(log')] = e
      <4>1. CASE TooLarge(e)
        BY <2>1, <2>2, <4>1
      <4>2. CASE ~TooLarge(e)
        BY <2>1, <2>2, <2>5, <4>2
      <4>3. QED  BY <4>1, <4>2
    <3>2. InHand' = InHand
      BY DEF InHand
    <3>3. InHand = 1 => forwarded < Len(log') /\ log'[forwarded + 1] = task.event
      <4>1. InHand = 1 => forwarded < Len(log) /\ log[forwarded + 1] = task.event
        BY <2>5 DEF Logged
      <4>2. Len(log) \in Nat /\ Len(log') \in Nat /\ Len(log) <= Len(log')
        BY <2>2, <3>1
      <4>3. QED  BY <2>2, <3>1, <4>1, <4>2
    <3>4. ASSUME Live'
          PROVE  \E g \in [0..Len(channel') -> 0..Len(log')] :
                    Numbers(g, channel', log', forwarded + InHand)
      <4>1. Live
        BY <1>3, <3>4 DEF Live, Send
      <4>2. channel \in Seq(Event) /\ channel' = Append(channel, e)
        BY <3>4, SendAppends
      <4>3. PICK f \in [0..Len(channel) -> 0..Len(log)] :
                Numbers(f, channel, log, forwarded + InHand)
        BY <2>5, <4>1 DEF Logged
      <4>4. QED  BY <2>2, <3>1, <4>2, <4>3, NumberLast
    <3>5. Live' => \E g \in [0..Len(channel') -> 0..Len(log')] :
                    Numbers(g, channel', log', forwarded' + InHand')
      BY <3>2, <3>4
    <3>6. QED  BY <2>5, <3>2, <3>3, <3>5 DEF Logged
  <2>6. QED  BY <1>1, <2>3, <2>4, <2>5
<1>4. QED  BY <1>2, <1>3

\* What is received is next in the log.
LEMMA FeedReceive ==
    ASSUME Types, Wired, Logged, Followed, Receive, UNCHANGED broadcastFrame
    PROVE  Logged' /\ Followed' /\ FeedRests
<1>0. /\ task.pc = "recv" /\ channel # <<>>
      /\ UNCHANGED <<forwarded, writers, got, log, conn, start>>
      /\ log \in Seq(Event) /\ channel \in Seq(Event) /\ forwarded \in Nat
  BY DEF Receive, broadcastFrame, Types, ChannelType, TaskType
<1>1. FeedRests
  BY <1>0 DEF FeedRests, Members
<1>2. InHand = 0
  BY <1>0 DEF InHand
<1>3. task'.pc # "write"
  BY <1>0 DEF Receive, ReceivingTask, Types, TaskType
<1>4. Followed'
  BY <1>0, <1>3 DEF Followed
<1>5. ASSUME ~Recording  PROVE Logged'
  <2>1. log = <<>> /\ forwarded = 0 /\ \A c \in Client : got[c] = <<>> /\ start[c] = 0
    BY <1>5 DEF Logged
  <2>2. QED  BY <1>0, <1>5, <2>1 DEF Logged
<1>6. ASSUME Recording, overrun  PROVE Logged'
  <2>1. task'.pc = "ended"
    BY <1>6 DEF Receive, ReceivingTask
  <2>2. InHand' = 0 /\ ~Live'
    BY <2>1 DEF InHand, Live
  <2>3. QED  BY <1>6, <2>2 DEF Logged
<1>7. ASSUME Recording, ~overrun  PROVE Logged'
  <2>1. /\ channel' = Tail(channel)
        /\ task' = IF TooLarge(Head(channel)) THEN task
                   ELSE [task EXCEPT !.pc = "lock", !.event = Head(channel)]
    BY <1>7 DEF Receive
  <2>2. PICK f \in [0..Len(channel) -> 0..Len(log)] : Numbers(f, channel, log, forwarded)
    <3>1. Live
      BY <1>0, <1>7 DEF Live
    <3>2. \E f \in [0..Len(channel) -> 0..Len(log)] : Numbers(f, channel, log, forwarded + InHand)
      BY <1>7, <3>1 DEF Logged
    <3>3. forwarded + InHand = forwarded
      BY <1>0, <1>2
    <3>4. QED  BY <3>2, <3>3
  <2> DEFINE next == IF TooLarge(Head(channel)) THEN forwarded ELSE forwarded + 1
  <2>3. /\ \E g \in [0..Len(Tail(channel)) -> 0..Len(log)] : Numbers(g, Tail(channel), log, next)
        /\ ~TooLarge(Head(channel)) => forwarded < Len(log) /\ log[forwarded + 1] = Head(channel)
    BY <1>0, <2>2, NumberRest
  <2>4. next = forwarded + InHand'
    BY <1>0, <2>1 DEF InHand, Types, TaskType
  <2>5. InHand' = 1 => forwarded < Len(log) /\ log[forwarded + 1] = task'.event
    BY <1>0, <2>1, <2>3 DEF InHand, Types, TaskType
  <2> HIDE DEF next
  <2>6. \E g \in [0..Len(channel') -> 0..Len(log')] :
            Numbers(g, channel', log', forwarded' + InHand')
    BY <1>0, <2>1, <2>3, <2>4
  <2>7. QED  BY <1>0, <1>7, <2>5, <2>6 DEF Logged
<1>8. QED  BY <1>1, <1>4, <1>5, <1>6, <1>7

\* With the writers locked nobody has got the event yet.
LEMMA FeedLock ==
    ASSUME Types, Wired, Logged, Followed, LockWriters, UNCHANGED broadcastFrame
    PROVE  Logged' /\ Followed' /\ FeedRests
<1>0. /\ task.pc = "lock" /\ task' = [task EXCEPT !.pc = "write"] /\ task.next = 1
      /\ UNCHANGED <<channel, overrun, forwarded, writers, got, log, conn, start>>
      /\ writers \in Seq(Client)
  BY DEF LockWriters, broadcastFrame, Types, WritersType, Wired, TaskWired
<1>1. FeedRests
  BY <1>0 DEF FeedRests, Members
<1>2. task'.pc = "write" /\ task'.next = 1 /\ task'.event = task.event
  BY <1>0 DEF Types, TaskType
<1>3. Followed'
  <2>1. \A i \in DOMAIN writers : ~(i < 1)
    BY <1>0
  <2>2. QED  BY <1>0, <1>2, <2>1 DEF Followed
<1>4. Logged'
  <2>1. InHand' = InHand /\ (Live' <=> Live)
    BY <1>0, <1>2 DEF InHand, Live
  <2>2. ~Recording => \A c \in Client : start[c] = 0
    BY DEF Logged
  <2>3. QED  BY <1>0, <1>2, <2>1, <2>2, LoggedStays
<1>5. QED  BY <1>1, <1>3, <1>4

\* A write is a delivery, unless its connection is closed.
LEMMA FeedWrite ==
    ASSUME Types, Wired, Logged, Followed, NEW c \in Client, WriteTo(c), UNCHANGED broadcastFrame
    PROVE  Logged' /\ Followed' /\ (Feed!Next \/ FeedRests)
<1>0. /\ task.pc = "write" /\ task.next \in DOMAIN writers /\ c = writers[task.next]
      /\ UNCHANGED <<channel, overrun, forwarded, writers, log, conn, start>>
      /\ task.next \in Nat /\ forwarded \in Nat /\ IsInjective(writers)
      /\ writers \in Seq(Client)
  BY DEF WriteTo, broadcastFrame, Types, WritersType, TaskType, Wired, TaskWired
<1>1. /\ task'.pc = "write" /\ task'.next = task.next + 1 /\ task'.event = task.event
      /\ got' = got \/ (Recording /\ conn[c] = "open" /\
                        got' = [got EXCEPT ![c] = Append(@, task.event)])
      /\ conn[c] = "open" /\ Recording => got' = [got EXCEPT ![c] = Append(@, task.event)]
      /\ conn[c] = "closed" \/ ~Recording => got' = got
      /\ conn[c] \in {"open", "closed"}
  <2>1. CASE WriteFails(c)
    BY <1>0, <2>1 DEF WriteFails, Types, TaskType
  <2>2. CASE ~WriteFails(c)
    BY <1>0, <2>2 DEF WriteTo, HasRoom, Types, TaskType
  <2>3. QED  BY <2>1, <2>2
<1>2. Logged'
  <2>1. InHand' = InHand /\ (Live' <=> Live)
    BY <1>0, <1>1 DEF InHand, Live
  <2>2. ~Recording => \A d \in Client : start[d] = 0
    BY DEF Logged
  <2>3. QED  BY <1>0, <1>1, <2>1, <2>2, LoggedStays
<1>3. CASE ~(Recording /\ conn[c] = "open")
  <2>1. got' = got
    BY <1>1, <1>3
  <2>2. FeedRests
    BY <1>0, <2>1 DEF FeedRests, Members
  <2>3. Followed'
    <3> SUFFICES ASSUME Recording, NEW d \in Client, conn[d] = "open",
                        NEW i \in DOMAIN writers, writers[i] = d
                 PROVE  start[d] + Len(got[d]) = forwarded + (IF i < task.next + 1 THEN 1 ELSE 0)
      BY <1>0, <1>1, <2>1 DEF Followed
    <3>1. i # task.next
      BY <1>0, <1>3
    <3>2. i \in Int /\ (i < task.next + 1 <=> i < task.next)
      BY <1>0, <3>1
    <3>3. start[d] + Len(got[d]) = forwarded + (IF i < task.next THEN 1 ELSE 0)
      BY <1>0 DEF Followed
    <3>4. QED  BY <3>2, <3>3
  <2>4. QED  BY <1>2, <2>2, <2>3
<1>4. CASE Recording /\ conn[c] = "open"
  <2>1. got' = [got EXCEPT ![c] = Append(@, task.event)] /\ got \in [Client -> Seq(Event)]
        /\ start \in [Client -> Nat]
    BY <1>1, <1>4 DEF Types, InboxType, ConnType
  <2>2. forwarded < Len(log) /\ log[forwarded + 1] = task.event
    BY <1>0, <1>4 DEF Logged, InHand
  <2>3. ASSUME NEW d \in Client, conn[d] = "open", NEW i \in DOMAIN writers, writers[i] = d
        PROVE  start[d] + Len(got[d]) = forwarded + (IF i < task.next THEN 1 ELSE 0)
    BY <1>0, <1>4, <2>3 DEF Followed
  <2>4. start[c] + Len(got[c]) = forwarded
    <3>1. ~(task.next < task.next)
      BY <1>0
    <3>2. QED  BY <1>0, <1>4, <2>3, <3>1
  <2>5. Feed!Deliver(c)
    BY <1>0, <1>4, <2>1, <2>2, <2>4 DEF Feed!Deliver, Feed!Place
  <2>6. Followed'
    <3> SUFFICES ASSUME NEW d \in Client, conn[d] = "open",
                        NEW i \in DOMAIN writers, writers[i] = d
                 PROVE  start[d] + Len(got'[d]) = forwarded + (IF i < task.next + 1 THEN 1 ELSE 0)
      BY <1>0, <1>1 DEF Followed
    <3>1. CASE d = c
      <4>1. i = task.next
        BY <1>0, <3>1 DEF IsInjective
      <4>2. Len(got'[c]) = Len(got[c]) + 1 /\ start[c] \in Nat /\ Len(got[c]) \in Nat
        <5>1. got'[c] = Append(got[c], task.event) /\ got[c] \in Seq(Event) /\ start[c] \in Nat
          BY <2>1
        <5>2. QED  BY <5>1
      <4>3. start[c] + Len(got'[c]) = forwarded + 1
        BY <2>4, <4>2
      <4>4. i < task.next + 1
        BY <1>0, <4>1
      <4>5. QED  BY <3>1, <4>3, <4>4
    <3>2. CASE d # c
      <4>1. i # task.next /\ got'[d] = got[d]
        BY <1>0, <2>1, <3>2
      <4>2. i \in Int /\ (i < task.next + 1 <=> i < task.next)
        BY <1>0, <4>1
      <4>3. QED  BY <2>3, <4>1, <4>2
    <3>3. QED  BY <3>1, <3>2
  <2>7. QED  BY <1>2, <2>5, <2>6 DEF Feed!Next
<1>5. QED  BY <1>3, <1>4

\* An event has been forwarded when everybody has got it.
LEMMA FeedFinish ==
    ASSUME Types, Wired, Logged, Followed, Finish, UNCHANGED broadcastFrame
    PROVE  Logged' /\ Followed' /\ (Feed!Next \/ FeedRests)
<1>0. /\ task.pc = "write" /\ task.next > Len(writers)
      /\ writers' = Survivors(task.dead) /\ task' = ReceivingTask
      /\ forwarded' = IF Recording THEN forwarded + 1 ELSE forwarded
      /\ UNCHANGED <<channel, overrun, got, log, conn, start>>
      /\ writers \in Seq(Client) /\ forwarded \in Nat /\ task.next \in Nat
  BY DEF Finish, broadcastFrame, Types, TaskType, WritersType
<1>1. InHand = 1 /\ InHand' = 0 /\ task'.pc = "recv"
  BY <1>0 DEF InHand, ReceivingTask
<1>2. CASE ~Recording
  <2>1. FeedRests /\ forwarded' = forwarded
    BY <1>0, <1>2 DEF FeedRests, Members
  <2>2. Logged'
    <3>1. log = <<>> /\ forwarded = 0 /\ \A c \in Client : got[c] = <<>> /\ start[c] = 0
      BY <1>2 DEF Logged
    <3>2. QED  BY <1>0, <1>2, <2>1, <3>1 DEF Logged
  <2>3. Followed'
    BY <1>2 DEF Followed
  <2>4. QED  BY <2>1, <2>2, <2>3
<1>3. CASE Recording
  <2>1. forwarded < Len(log) /\ forwarded' = forwarded + 1
    BY <1>0, <1>1, <1>3 DEF Logged
  <2>2. ASSUME NEW c \in Client, conn[c] = "open", NEW i \in DOMAIN writers, writers[i] = c
        PROVE  start[c] + Len(got[c]) = forwarded + 1
    <3>1. i < task.next
      BY <1>0
    <3>2. QED  BY <1>0, <1>3, <2>2, <3>1 DEF Followed
  <2>3. Feed!Advance
    <3>1. ASSUME NEW c \in Client, conn[c] = "open"  PROVE start[c] + Len(got[c]) = forwarded + 1
      <4>1. \E i \in DOMAIN writers : writers[i] = c
        BY <3>1 DEF Wired, ConnWired
      <4>2. QED  BY <2>2, <3>1, <4>1
    <3>2. QED  BY <1>0, <2>1, <3>1 DEF Feed!Advance, Feed!Place
  <2>4. Logged'
    <3>1. Live => \E f \in [0..Len(channel) -> 0..Len(log)] :
                      Numbers(f, channel, log, forwarded + InHand)
      BY <1>3 DEF Logged
    <3>2. forwarded + InHand = forwarded' + InHand'
      BY <1>0, <1>1, <2>1
    <3>3. Live' => Live
      BY <1>0 DEF Live
    <3>4. Live' => \E f \in [0..Len(channel') -> 0..Len(log')] :
                      Numbers(f, channel', log', forwarded' + InHand')
      BY <1>0, <3>1, <3>2, <3>3
    <3>5. QED  BY <1>1, <1>3, <3>4 DEF Logged
  <2>5. Followed'
    <3>1. task.dead \in Seq(Nat) /\ Increasing(task.dead, Len(writers))
      <4>1. task.next - 1 = Len(writers)
        BY <1>0 DEF Wired, DeadWired
      <4>2. QED  BY <4>1 DEF Types, TaskType, Wired, DeadWired
    <3>2. \A i \in DOMAIN writers' : \E p \in DOMAIN writers : writers'[i] = writers[p]
      BY <1>0, <3>1, SurvivorsAre
    <3>3. ASSUME NEW c \in Client, conn[c] = "open", NEW i \in DOMAIN writers', writers'[i] = c
          PROVE  start[c] + Len(got[c]) = forwarded + 1
      <4>1. PICK p \in DOMAIN writers : writers[p] = c
        BY <3>2, <3>3
      <4>2. QED  BY <2>2, <3>3, <4>1
    <3>4. forwarded + 1 + 0 = forwarded + 1
      BY <1>0
    <3>5. QED  BY <1>0, <1>1, <2>1, <3>3, <3>4 DEF Followed
  <2>6. QED  BY <2>3, <2>4, <2>5 DEF Feed!Next
<1>4. QED  BY <1>2, <1>3

\* A client joins between two events, and leaves at any time.
LEMMA FeedConnection ==
    ASSUME Types, Wired, Logged, Followed, NEW c \in Client,
           Connect(c) \/ Accept(c) \/ ClientRead(c) \/ ClientClose(c)
    PROVE  Logged' /\ Followed' /\ (Feed!Next \/ FeedRests)
<1>0. /\ UNCHANGED <<channel, overrun, forwarded, task, got, log>>
      /\ conn \in [Client -> {"away", "waiting", "open", "closed"}]
      /\ start \in [Client -> Nat] /\ writers \in Seq(Client) /\ forwarded \in Nat
  BY DEF Connect, Accept, ClientRead, ClientClose, connectionFrame, channelVars, Types, ConnType,
         WritersType, TaskType
<1>1. ASSUME ~Recording => \A d \in Client : start'[d] = 0  PROVE Logged'
  <2>1. InHand' = InHand /\ (Live' <=> Live)
    BY <1>0 DEF InHand, Live
  <2>2. QED  BY <1>0, <1>1, <2>1, LoggedStays
<1>2. ~Recording => forwarded = 0 /\ \A d \in Client : start[d] = 0
  BY DEF Logged
<1>3. CASE Connect(c)
  <2>1. conn[c] = "away" /\ conn' = [conn EXCEPT ![c] = "waiting"] /\ UNCHANGED <<start, writers>>
    BY <1>3 DEF Connect, serverVars
  <2>2. \A d \in Client : conn'[d] = "open" <=> conn[d] = "open"
    BY <1>0, <2>1
  <2>3. FeedRests
    BY <1>0, <2>1, <2>2 DEF FeedRests, Members
  <2>4. Followed'
    BY <1>0, <2>1, <2>2 DEF Followed
  <2>5. QED  BY <1>1, <1>2, <2>1, <2>3, <2>4
<1>4. CASE Accept(c)
  <2>1. /\ conn[c] = "waiting" /\ task.pc # "write"
        /\ conn' = [conn EXCEPT ![c] = "open"]
        /\ writers' = Append(writers, c)
        /\ start' = [start EXCEPT ![c] = forwarded]
        /\ got[c] = <<>>
    BY <1>4 DEF Accept, Wired, ConnWired
  <2>2. Feed!Join(c)
    <3>1. {d \in Client : conn'[d] = "open"} = {d \in Client : conn[d] = "open"} \cup {c}
      BY <1>0, <2>1
    <3>2. c \notin {d \in Client : conn[d] = "open"}
      BY <2>1
    <3>3. QED  BY <1>0, <2>1, <3>1, <3>2 DEF Feed!Join
  <2>3. Followed'
    <3> SUFFICES ASSUME Recording, NEW d \in Client, conn'[d] = "open",
                        NEW i \in DOMAIN writers', writers'[i] = d
                 PROVE  start'[d] + Len(got[d]) = forwarded + 0
      BY <1>0, <2>1 DEF Followed
    <3>1. CASE d = c
      <4>1. start'[c] = forwarded /\ Len(got[c]) = 0
        BY <1>0, <2>1
      <4>2. QED  BY <1>0, <3>1, <4>1
    <3>2. CASE d # c
      <4>1. conn[d] = "open" /\ start'[d] = start[d]
        BY <1>0, <2>1, <3>2
      <4>2. i \in DOMAIN writers /\ writers[i] = d
        BY <1>0, <2>1, <3>2
      <4>3. QED  BY <2>1, <4>1, <4>2 DEF Followed
    <3>3. QED  BY <3>1, <3>2
  <2>4. Logged'
    BY <1>0, <1>1, <1>2, <2>1
  <2>5. QED  BY <2>2, <2>3, <2>4 DEF Feed!Next
<1>5. CASE ClientRead(c)
  <2>1. UNCHANGED feedVars
    BY <1>0, <1>5 DEF ClientRead, serverVars, feedVars
  <2>2. QED  BY <2>1, FeedAside
<1>6. CASE ClientClose(c)
  <2>1. conn[c] = "open" /\ conn' = [conn EXCEPT ![c] = "closed"] /\ UNCHANGED <<start, writers>>
    BY <1>6 DEF ClientClose, serverVars
  <2>2. Feed!Leave(c)
    <3>1. {d \in Client : conn'[d] = "open"} = {d \in Client : conn[d] = "open"} \ {c}
      BY <1>0, <2>1
    <3>2. QED  BY <1>0, <2>1, <3>1 DEF Feed!Leave
  <2>3. \A d \in Client : conn'[d] = "open" => conn[d] = "open"
    BY <1>0, <2>1
  <2>4. Followed'
    BY <1>0, <2>1, <2>3 DEF Followed
  <2>5. QED  BY <1>1, <1>2, <2>1, <2>2, <2>4 DEF Feed!Next
<1>7. QED  BY <1>3, <1>4, <1>5, <1>6

\* The manager and the handlers touch the feed by sending only.
LEMMA FeedSenders ==
    ASSUME Types, Wired, Manager \/ \E c \in Client : Request(c) \/ Handle(c)
    PROVE  /\ UNCHANGED <<forwarded, task, writers, conn, start, got>>
           /\ (\E e \in Event : Send(e)) \/ UNCHANGED channelVars
<1>1. CASE Manager
  <2>1. UNCHANGED <<forwarded, task, writers, conn, start, got>>
    BY <1>1 DEF Manager, managerFrame, serverVars, clientVars
  <2>2. ASSUME NEW n \in Note, Announce(n) \/ CloseBroadcast(n)
        PROVE  (\E e \in Event : Send(e)) \/ UNCHANGED channelVars
    <3>1. NoteEvent("Added", n) \in Event /\ NoteEvent("Closed", n) \in Event
      BY EventKinds
    <3>2. QED  BY <2>2, <3>1 DEF Announce, CloseBroadcast
  <2>3. ASSUME NEW n \in Note, Store(n) \/ CloseDismiss(n)  PROVE UNCHANGED channelVars
    BY <2>3 DEF Store, CloseDismiss
  <2>4. ASSUME NEW m \in ConfigModes, Mirror(m)  PROVE UNCHANGED channelVars
    BY <2>4 DEF Mirror
  <2>5. QED  BY <1>1, <2>1, <2>2, <2>3, <2>4 DEF Manager
<1>2. ASSUME NEW c \in Client, Request(c)
      PROVE  /\ UNCHANGED <<forwarded, task, writers, conn, start, got>>
             /\ (\E e \in Event : Send(e)) \/ UNCHANGED channelVars
  <2>1. UNCHANGED <<forwarded, task, writers, conn, start, got>>
    BY <1>2 DEF Request, sessionFrame, serverVars
  <2>2. CASE Hello(c) \/ Query(c) \/ ClearAll(c) \/ HandlerEnds(c)
    BY <2>1, <2>2 DEF Hello, Query, ClearAll, HandlerEnds
  <2>3. ASSUME NEW n \in Note, Dismiss(c, n) \/ MarkRead(c, n)  PROVE UNCHANGED channelVars
    BY <2>3 DEF Dismiss, MarkRead
  <2>4. ASSUME NEW n \in Note, InvokeAction(c, n)  PROVE \E e \in Event : Send(e)
    BY <2>4, EventKinds DEF InvokeAction
  <2>5. ASSUME NEW w \in WireModes, SetDnd(c, w)  PROVE UNCHANGED channelVars
    BY <2>5 DEF SetDnd
  <2>6. QED  BY <1>2, <2>1, <2>2, <2>3, <2>4, <2>5 DEF Request
<1>3. ASSUME NEW c \in Client, Handle(c)
      PROVE  /\ UNCHANGED <<forwarded, task, writers, conn, start, got>>
             /\ (\E e \in Event : Send(e)) \/ UNCHANGED channelVars
  <2>1. UNCHANGED <<forwarded, task, writers, conn, start, got>>
    BY <1>3 DEF Handle, sessionFrame, serverVars
  <2>2. CASE HelloMode(c) \/ WriteResponse(c)
    BY <2>1, <2>2 DEF HelloMode, WriteResponse
  <2>3. CASE SendEvent(c)
    <3>1. handler[c].msg \in Event
      BY <2>3 DEF SendEvent, Wired, HandlerWired, HandlerEvent
    <3>2. QED  BY <2>1, <2>3, <3>1 DEF SendEvent
  <2>4. CASE SendCleared(c)
    BY <2>1, <2>4, EventKinds DEF SendCleared
  <2>5. ASSUME NEW n \in Note, ClearOne(c, n)  PROVE UNCHANGED channelVars
    BY <2>5 DEF ClearOne
  <2>6. QED  BY <1>3, <2>1, <2>2, <2>3, <2>4, <2>5 DEF Handle
<1>4. QED  BY <1>1, <1>2, <1>3

LEMMA FeedNext ==
    Types /\ Wired /\ Logged /\ Followed /\ [Next]_vars
        => Logged' /\ Followed' /\ [Feed!Next]_(Feed!vars)
<1> SUFFICES ASSUME Types, Wired, Logged, Followed, [Next]_vars
             PROVE  Logged' /\ Followed' /\ (Feed!Next \/ FeedRests)
  BY DEF FeedRests, Members, Feed!vars
<1>1. CASE Manager \/ \E c \in Client : Request(c) \/ Handle(c)
  <2>1. /\ UNCHANGED <<forwarded, task, writers, conn, start, got>>
        /\ (\E e \in Event : Send(e)) \/ UNCHANGED channelVars
    BY <1>1, FeedSenders
  <2>2. ASSUME NEW e \in Event, Send(e)  PROVE Logged' /\ Followed' /\ (Feed!Next \/ FeedRests)
    BY <2>1, <2>2, FeedSend
  <2>3. CASE UNCHANGED channelVars
    <3>1. UNCHANGED feedVars
      BY <2>1, <2>3 DEF channelVars, feedVars
    <3>2. QED  BY <3>1, FeedAside
  <2>4. QED  BY <2>1, <2>2, <2>3
<1>2. CASE Broadcast
  <2>1. UNCHANGED broadcastFrame
    BY <1>2 DEF Broadcast
  <2>2. ASSUME NEW c \in Client, WriteTo(c)
        PROVE  Logged' /\ Followed' /\ (Feed!Next \/ FeedRests)
    BY <2>1, <2>2, FeedWrite
  <2>3. QED  BY <1>2, <2>1, <2>2, FeedReceive, FeedLock, FeedFinish DEF Broadcast
<1>3. CASE AcceptFails \/ UNCHANGED vars
  <2>1. UNCHANGED feedVars
    BY <1>3 DEF AcceptFails, connectionFrame, channelVars, vars, serverVars, clientVars, feedVars
  <2>2. QED  BY <2>1, FeedAside
<1>4. ASSUME NEW c \in Client, Connect(c) \/ Accept(c) \/ ClientRead(c) \/ ClientClose(c)
      PROVE  Logged' /\ Followed' /\ (Feed!Next \/ FeedRests)
  BY <1>4, FeedConnection
<1>5. QED  BY <1>1, <1>2, <1>3, <1>4 DEF Next

\* The server keeps the promise of EventFeed: each client gets every event that is
\* sent from when it has joined on, once and in order, whoever disconnects while it is
\* written, and no event is done with before all have got it.
THEOREM SocketFeedsClients == Spec => FeedsClients
<1> DEFINE Inv == Types /\ Wired /\ Logged /\ Followed
<1>1. Init => Inv /\ Feed!Init
  <2> SUFFICES ASSUME Init  PROVE Inv /\ Feed!Init
    OBVIOUS
  <2>1. Types /\ Wired
    BY InitWired
  <2>2. /\ log = <<>> /\ forwarded = 0 /\ channel = <<>> /\ task.pc = "recv" /\ writers = <<>>
        /\ start = [c \in Client |-> 0] /\ got = [c \in Client |-> <<>>]
        /\ conn = [c \in Client |-> "away"]
    BY DEF Init, ReceivingTask
  <2>3. Logged
    <3>1. InHand = 0
      BY <2>2 DEF InHand
    <3>2. CASE Recording
      <4> DEFINE f == [i \in 0..0 |-> 0]
      <4>1. Len(channel) = 0 /\ Len(log) = 0 /\ DOMAIN channel = {}
        BY <2>2
      <4>2. f \in [0..Len(channel) -> 0..Len(log)] /\ f[0] = 0
        BY <4>1
      <4>3. forwarded + InHand = 0
        BY <2>2, <3>1
      <4> HIDE DEF f
      <4>4. Numbers(f, channel, log, forwarded + InHand)
        BY <4>1, <4>2, <4>3 DEF Numbers
      <4>5. QED  BY <3>1, <3>2, <4>2, <4>4 DEF Logged
    <3>3. CASE ~Recording
      BY <2>2, <3>3 DEF Logged
    <3>4. QED  BY <3>2, <3>3
  <2>4. Followed
    BY <2>2 DEF Followed
  <2>5. Feed!Init
    BY <2>2 DEF Feed!Init
  <2>6. QED  BY <2>1, <2>3, <2>4, <2>5
<1>2. Inv /\ [Next]_vars => Inv' /\ [Feed!Next]_(Feed!vars)
  BY NextWired, FeedNext
<1>3. QED  BY <1>1, <1>2, PTL DEF Spec, FeedsClients, Feed!Spec
=============================================================================
