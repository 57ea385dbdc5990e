---------------------------- MODULE IntakeProofs -----------------------------
(***************************************************************************)
(* Theorems about the way in, for all names, texts, lists of actions and   *)
(* images.  The intake is the limiter with calls around it, so what        *)
(* RateLimiterProofs says of the limiter holds here (IntakeIsLimited).     *)
(***************************************************************************)
EXTENDS Intake, RateLimiterProofs, SequenceTheorems, WellFoundedInduction

\* The call in hand is one a client may make, and of its actions the notification
\* has the pairs.
InHand ==
    /\ call \in Calls \cup First
    /\ \A n \in built : n.actions = Pairs(SanitizeActions(call.actions))

\* An admission is recorded under what is left of the name.
ByCut ==
    /\ at \in Seq(Nat) /\ by \in Seq(App) /\ from \in Seq(Text)
    /\ Len(by) = Len(at) /\ Len(from) = Len(at)
    /\ \A n \in 1..Len(from) : by[n] = Truncate(from[n], MAX_APP_NAME)
    /\ now \in Nat

\* Who is charged is a sender the limiter knows.
LEMMA SenderKnown ==
    ASSUME InHand
    PROVE  Sender = Truncate(call.app_name, MAX_APP_NAME) /\ Sender \in App
BY AppAssumption DEF InHand, Sender, Sanitized, SanitizeInput

\* Every step but the arrival of a call is a step of the limiter.
LEMMA IntakeStep ==
    ASSUME InHand, [IntakeNext]_intakeVars
    PROVE  [Next]_vars
<1>1. CASE Accept
  BY <1>1, SenderKnown DEF Accept, Next
<1>2. CASE Reject
  BY <1>2, SenderKnown DEF Reject, Next
<1>3. CASE TimePasses
  BY <1>3 DEF TimePasses, Next
<1>4. ASSUME NEW c \in Calls, Notify(c) PROVE UNCHANGED vars
  BY <1>4 DEF Notify
<1>5. CASE UNCHANGED intakeVars
  BY <1>5 DEF intakeVars
<1>6. QED  BY <1>1, <1>2, <1>3, <1>4, <1>5 DEF IntakeNext

\* The call in hand changes only by arriving, and then nothing has been built of it.
LEMMA InHandInv ==
    ASSUME InHand, [IntakeNext]_intakeVars
    PROVE  InHand'
<1>1. CASE Accept
  <2>1. call' = call /\ built' = {[Sanitized EXCEPT !.actions = Pairs(@)]}
    BY <1>1 DEF Accept
  <2>2. [Sanitized EXCEPT !.actions = Pairs(@)].actions
          = Pairs(SanitizeActions(call.actions))
    BY DEF Sanitized, SanitizeInput
  <2>3. QED  BY <2>1, <2>2 DEF InHand
<1>2. CASE Reject \/ TimePasses \/ UNCHANGED intakeVars
  BY <1>2 DEF InHand, Reject, TimePasses, intakeVars
<1>3. ASSUME NEW c \in Calls, Notify(c) PROVE InHand'
  BY <1>3 DEF InHand, Notify, Nothing
<1>4. QED  BY <1>1, <1>2, <1>3 DEF IntakeNext

\* The history of names grows with that of admissions.
LEMMA ByCutInv ==
    ASSUME InHand, ByCut, [IntakeNext]_intakeVars
    PROVE  ByCut'
<1>1. CASE Accept
  <2>1. /\ at' = Append(at, now) /\ by' = Append(by, Sender)
        /\ from' = Append(from, call.app_name) /\ now' = now
    BY <1>1 DEF Accept, Admit
  <2>2. /\ Sender \in App /\ Sender = Truncate(call.app_name, MAX_APP_NAME)
        /\ call.app_name \in Text
    BY SenderKnown, CallsAssumption DEF InHand
  <2>3. at' \in Seq(Nat) /\ by' \in Seq(App) /\ from' \in Seq(Text)
    BY <2>1, <2>2 DEF ByCut
  <2>4. Len(by') = Len(at') /\ Len(from') = Len(at') /\ Len(from') = Len(from) + 1
    BY <2>1 DEF ByCut
  <2>5. ASSUME NEW n \in 1..Len(from') PROVE by'[n] = Truncate(from'[n], MAX_APP_NAME)
    <3>1. CASE n \in 1..Len(from)
      BY <3>1, <2>1 DEF ByCut
    <3>2. CASE n = Len(from) + 1
      <4>1. by'[n] = Sender /\ from'[n] = call.app_name
        BY <3>2, <2>1 DEF ByCut
      <4>2. QED  BY <4>1, <2>2
    <3>3. Len(from) \in Nat
      BY DEF ByCut
    <3>4. QED  BY <3>1, <3>2, <3>3, <2>4
  <2>6. QED  BY <2>1, <2>3, <2>4, <2>5 DEF ByCut
<1>2. CASE Reject
  BY <1>2 DEF ByCut, Reject, Refuse
<1>3. CASE TimePasses
  BY <1>3 DEF ByCut, TimePasses, Tick
<1>4. ASSUME NEW c \in Calls, Notify(c) PROVE ByCut'
  BY <1>4 DEF ByCut, Notify, vars
<1>5. CASE UNCHANGED intakeVars
  BY <1>5 DEF ByCut, intakeVars, vars
<1>6. QED  BY <1>1, <1>2, <1>3, <1>4, <1>5 DEF IntakeNext

\* Both hold in every reachable state.
LEMMA IntakeInvariant == IntakeSpec => [](InHand /\ ByCut)
<1>1. IntakeInit => InHand /\ ByCut
  BY DEF IntakeInit, Init, InHand, ByCut, Nothing
<1>2. InHand /\ ByCut /\ [IntakeNext]_intakeVars => (InHand /\ ByCut)'
  BY InHandInv, ByCutInv
<1>3. QED  BY <1>1, <1>2, PTL DEF IntakeSpec

\* The intake implements the limiter: its bounds and its fairness to senders hold
\* whatever calls arrive.
THEOREM IntakeIsLimited == IntakeSpec => Spec
<1>1. IntakeInit => Init
  BY DEF IntakeInit
<1>2. InHand /\ [IntakeNext]_intakeVars => [Next]_vars
  BY IntakeStep
<1>3. QED  BY <1>1, <1>2, IntakeInvariant, PTL DEF IntakeSpec, Spec

\* No choice of names gets more notifications to the shell under one name than the
\* limit of one app.
THEOREM IntakeSenderBound == IntakeSpec => []SenderBound
<1>1. InHand /\ ByCut /\ PerAppBound => SenderBound
  <2> SUFFICES ASSUME ByCut, PerAppBound PROVE SenderBound
    OBVIOUS
  <2> DEFINE shown == [n \in 1..Len(from) |-> Truncate(from[n], MAX_APP_NAME)]
  <2>1. ASSUME NEW t \in 0..now, NEW app \in App
        PROVE  {n \in Window(t) : shown[n] = app} = {n \in Window(t) : by[n] = app}
    BY DEF ByCut, Window
  <2>2. \A t \in 0..now, app \in App :
           Cardinality({n \in Window(t) : shown[n] = app}) <= PER_APP_LIMIT
    BY <2>1 DEF PerAppBound
  <2>3. QED  BY <2>2 DEF SenderBound
<1>2. QED  BY <1>1, IntakeInvariant, IntakeIsLimited, LimiterPerAppBound, PTL

-----------------------------------------------------------------------------

\* What is taken of a list of actions: its first entries, an even number of them,
\* and no entry less than that.
LEMMA TakenActions ==
    ASSUME NEW raw \in Seq(Text)
    PROVE  LET actions == SanitizeActions(raw) IN
           /\ actions \in Seq(Text)
           /\ Len(actions) <= MAX_ACTIONS /\ Len(actions) <= Len(raw)
           /\ \A i \in 1..Len(actions) : actions[i] = raw[i]
           /\ Len(raw) < Len(actions) + 2 \/ MAX_ACTIONS < Len(actions) + 2
           /\ Len(actions) % 2 = 0
<1> DEFINE m == IF Len(raw) < MAX_ACTIONS THEN Len(raw) ELSE MAX_ACTIONS
           taken == SubSeq(raw, 1, m)
<1>1. m \in Nat /\ m <= Len(raw) /\ m <= MAX_ACTIONS /\ (m = Len(raw) \/ m = MAX_ACTIONS)
  BY MaximaAssumption
<1> HIDE DEF m
<1>2. taken \in Seq(Text) /\ Len(taken) = m /\ \A i \in 1..m : taken[i] = raw[i]
  BY <1>1
<1> HIDE DEF taken
<1>3. SanitizeActions(raw) = IF m % 2 # 0 THEN SubSeq(taken, 1, m - 1) ELSE taken
  BY <1>2 DEF SanitizeActions, m, taken
<1>4. CASE m % 2 # 0
  <2>1. m - 1 \in Nat /\ (m - 1) % 2 = 0
    BY <1>1, <1>4
  <2>2. SubSeq(taken, 1, m - 1) \in Seq(Text) /\ Len(SubSeq(taken, 1, m - 1)) = m - 1
        /\ \A i \in 1..(m - 1) : SubSeq(taken, 1, m - 1)[i] = taken[i]
    BY <1>1, <1>2, <2>1
  <2>3. SanitizeActions(raw) = SubSeq(taken, 1, m - 1)
    BY <1>3, <1>4
  <2>4. \A i \in 1..(m - 1) : SubSeq(taken, 1, m - 1)[i] = raw[i]
    BY <1>1, <1>2, <2>2
  <2>5. Len(raw) \in Nat /\ MAX_ACTIONS \in Nat
    BY MaximaAssumption
  <2>6. QED  BY <1>1, <2>1, <2>2, <2>3, <2>4, <2>5
<1>5. CASE m % 2 = 0
  BY <1>1, <1>2, <1>3, <1>5
<1>6. QED  BY <1>4, <1>5

\* Whatever list a client sends, a key keeps its own label.
THEOREM IntakePairsAligned == IntakeSpec => []PairsAligned
<1>1. InHand => PairsAligned
  <2> SUFFICES ASSUME InHand, NEW n \in built
               PROVE  /\ \A i \in 1..Len(n.actions) :
                            n.actions[i] = <<call.actions[2*i - 1], call.actions[2*i]>>
                      /\ 2 * Len(n.actions) <= MAX_ACTIONS
                      /\ \A i \in 1..Len(call.actions) :
                            2*i <= Len(call.actions) /\ 2*i <= MAX_ACTIONS
                               => i <= Len(n.actions)
    BY DEF PairsAligned
  <2> DEFINE actions == SanitizeActions(call.actions)
             half == Len(actions) \div 2
  <2>1. call.actions \in Seq(Text)
    BY CallsAssumption DEF InHand
  <2>2. /\ actions \in Seq(Text)
        /\ Len(actions) <= MAX_ACTIONS /\ Len(actions) <= Len(call.actions)
        /\ \A i \in 1..Len(actions) : actions[i] = call.actions[i]
        /\ Len(call.actions) < Len(actions) + 2 \/ MAX_ACTIONS < Len(actions) + 2
        /\ Len(actions) % 2 = 0
    BY <2>1, TakenActions
  <2>3. n.actions = Pairs(actions)
    BY DEF InHand
  <2> HIDE DEF actions
  <2>4. half \in Nat /\ Len(actions) = 2 * half
    BY <2>2
  <2> HIDE DEF half
  <2>5. Pairs(actions) = [i \in 1..half |-> <<actions[2*i - 1], actions[2*i]>>]
    BY DEF Pairs, half
  <2>6. Len(n.actions) = half
    BY <2>3, <2>4, <2>5
  <2>7. ASSUME NEW i \in 1..half
        PROVE  n.actions[i] = <<call.actions[2*i - 1], call.actions[2*i]>>
    <3>1. 2*i - 1 \in 1..Len(actions) /\ 2*i \in 1..Len(actions)
      BY <2>4
    <3>2. QED  BY <3>1, <2>2, <2>3, <2>5
  <2>8. \A i \in 1..Len(call.actions) :
           2*i <= Len(call.actions) /\ 2*i <= MAX_ACTIONS => i <= half
    BY <2>1, <2>2, <2>4, MaximaAssumption
  <2>9. 2 * half <= MAX_ACTIONS
    BY <2>2, <2>4
  <2>10. QED  BY <2>6, <2>7, <2>8, <2>9
<1>2. QED  BY <1>1, IntakeInvariant, PTL

-----------------------------------------------------------------------------

\* Rows and columns before the last end before it does.
LEMMA ProductGrows ==
    ASSUME NEW a \in Nat, NEW b \in Nat, NEW c \in Nat, a <= b
    PROVE  a * c <= b * c
<1>1. PICK d \in Nat : b = a + d
  BY b - a \in Nat
<1>2. b * c = a * c + d * c
  BY <1>1
<1>3. a * c \in Nat /\ d * c \in Nat
  OBVIOUS
<1>4. QED  BY <1>2, <1>3

\* An image that is decoded is read within its data, and one that could be is not
\* refused, for all sizes, strides and lengths.
LEMMA DecodesIffReadable ==
    ASSUME NEW image \in ImageType, WellFormed(image)
    PROVE  Decodes(image) <=> Readable(image)
<1> DEFINE w == image.width
           h == image.height
           s == image.rowstride
           c == image.channels
           last == w * c            \* length of a row
           above == (h - 1) * s     \* where the last one starts
<1>1. /\ w \in Nat \ {0} /\ h \in Nat \ {0} /\ s \in Int /\ c \in {3, 4} /\ s >= last
      /\ image.data \in Nat /\ (c = 4) = image.has_alpha /\ image.has_alpha \in BOOLEAN
  BY DEF ImageType, WellFormed
<1>2. last \in Nat /\ (w - 1) * c = last - c
  <2>1. CASE c = 3
    BY <1>1, <2>1
  <2>2. CASE c = 4
    BY <1>1, <2>2
  <2>3. QED  BY <1>1, <2>1, <2>2
<1>3. BytesOfPixel(image) = 0..(c - 1)
  <2>1. CASE c = 3
    BY <1>1, <2>1 DEF BytesOfPixel
  <2>2. CASE c = 4
    BY <1>1, <2>2 DEF BytesOfPixel
  <2>3. QED  BY <1>1, <2>1, <2>2
<1>4. s \in Nat /\ above \in Nat /\ h - 1 \in Nat /\ w - 1 \in Nat /\ c \in Nat
  <2>1. s \in Nat /\ h - 1 \in Nat /\ w - 1 \in Nat /\ c \in Nat
    BY <1>1, <1>2
  <2>2. above \in Nat
    BY <2>1
  <2>3. QED  BY <2>1, <2>2
<1>5. Needed(image) = above + last
  BY <1>1 DEF Needed
<1>6. ASSUME Decodes(image), NEW row \in 0..(h - 1), NEW col \in 0..(w - 1), NEW k \in 0..(c - 1)
      PROVE  ByteRead(image, row, col, k) \in 0..(image.data - 1)
  <2> DEFINE r == row * s
             p == col * c
  <2>1. row \in Nat /\ row <= h - 1 /\ col \in Nat /\ col <= w - 1 /\ k \in Nat /\ k <= c - 1
    BY <1>4
  <2>2. r <= above
    <3> HIDE DEF w, h, s, c
    <3>1. QED  BY <1>4, <2>1, ProductGrows
  <2>3. p <= last - c
    <3>1. p <= (w - 1) * c
      <4> HIDE DEF w, h, s, c
      <4>1. QED  BY <1>4, <2>1, ProductGrows
    <3>2. QED  BY <3>1, <1>2
  <2>4. r \in Nat /\ p \in Nat
    BY <1>4, <2>1
  <2>5. image.data >= above + last
    BY <1>5, <1>6 DEF Decodes
  <2>6. ByteRead(image, row, col, k) = r + p + k
    BY DEF ByteRead
  <2> HIDE DEF r, p, above, last, c
  <2>7. QED  BY <1>1, <1>2, <1>4, <2>1, <2>2, <2>3, <2>4, <2>5, <2>6
<1>7. ASSUME Readable(image) PROVE image.data >= Needed(image)
  <2>1. h - 1 \in 0..(h - 1) /\ w - 1 \in 0..(w - 1) /\ c - 1 \in 0..(c - 1)
    BY <1>1
  <2>2. ByteRead(image, h - 1, w - 1, c - 1) \in 0..(image.data - 1)
    BY <1>3, <1>7, <2>1 DEF Readable
  <2>3. ByteRead(image, h - 1, w - 1, c - 1) = above + (w - 1) * c + (c - 1)
    BY DEF ByteRead
  <2>4. ByteRead(image, h - 1, w - 1, c - 1) = above + (last - c) + (c - 1)
    BY <1>2, <2>3
  <2> HIDE DEF above, last, c
  <2>5. QED  BY <1>1, <1>2, <1>4, <1>5, <2>2, <2>4
<1>8. QED  BY <1>1, <1>3, <1>6, <1>7 DEF Decodes, Readable

\* Every image a client sends is decoded exactly if it can be.
THEOREM IntakeDecodesReadable == IntakeSpec => []DecodesReadable
<1>1. InHand => DecodesReadable
  BY DecodesIffReadable, CallsAssumption DEF InHand, DecodesReadable
<1>2. QED  BY <1>1, IntakeInvariant, PTL

-----------------------------------------------------------------------------
(* Texts.  Their lengths, cuts and markup are recursive functions; what a *)
(* set of numbers up to n contains is proved by induction for sets.       *)

\* Induction: a set with 0 that goes on, step by step, has all numbers up to n.
LEMMA UpTo ==
    ASSUME NEW n \in Nat, NEW S, 0 \in S, \A k \in 1..n : k - 1 \in S => k \in S
    PROVE  \A k \in 0..n : k \in S
<1> DEFINE Out == {k \in 0..n : k \notin S}
<1>1. SUFFICES ASSUME Out # {}  PROVE FALSE
  OBVIOUS
<1>2. Out \in SUBSET Nat
  OBVIOUS
<1>3. PICK x \in Out : \A y \in Out : ~(<<y, x>> \in OpToRel(<, Nat))
  BY <1>1, <1>2, WFMin, NatLessThanWellFounded
<1>4. \A y \in Out : ~(y < x)
  BY <1>2, <1>3 DEF OpToRel
<1>5. x \in 0..n /\ x \notin S
  OBVIOUS
<1>6. x \in 1..n /\ x - 1 \in 0..n
  BY <1>5
<1>7. x - 1 \in S
  BY <1>4, <1>6
<1>8. QED  BY <1>5, <1>6, <1>7

\* A recursion step by step: step[<<k, v>>] follows v.
Steps(f, n, first, step) ==
    f[0] = first /\ \A k \in 1..n : f[k] = step[<<k, f[k - 1]>>]

\* A recursion gives a value to every number up to n.
LEMMA StepsExist ==
    ASSUME NEW n \in Nat, NEW D, NEW first \in D, NEW step \in [(1..n) \X D -> D]
    PROVE  \E f \in [0..n -> D] : Steps(f, n, first, step)
<1> DEFINE S == {m \in 0..n : \E f \in [0..m -> D] : Steps(f, m, first, step)}
<1>1. 0 \in S
  <2>1. [k \in 0..0 |-> first] \in [0..0 -> D] /\ Steps([k \in 0..0 |-> first], 0, first, step)
    BY DEF Steps
  <2>2. QED  BY <2>1
<1>2. ASSUME NEW m \in 1..n, m - 1 \in S  PROVE m \in S
  <2>1. m \in 0..n /\ m \in Nat /\ m > 0
    OBVIOUS
  <2>2. PICK f \in [0..(m - 1) -> D] : Steps(f, m - 1, first, step)
    BY <1>2
  <2> DEFINE v == step[<<m, f[m - 1]>>]
             g == [k \in 0..m |-> IF k = m THEN v ELSE f[k]]
  <2>3. v \in D
    OBVIOUS
  <2>4. \A k \in 0..m : k # m => k \in 0..(m - 1)
    OBVIOUS
  <2>5. g \in [0..m -> D] /\ g[m] = v /\ \A k \in 0..(m - 1) : g[k] = f[k]
    <3> HIDE DEF v
    <3>1. QED  BY <2>1, <2>3, <2>4
  <2>6. v = step[<<m, f[m - 1]>>]
    OBVIOUS
  <2> HIDE DEF g, v, S
  <2>7. g[0] = first
    BY <2>1, <2>2, <2>5 DEF Steps
  <2>8. ASSUME NEW k \in 1..m  PROVE g[k] = step[<<k, g[k - 1]>>]
    <3>1. k - 1 \in 0..(m - 1) /\ g[k - 1] = f[k - 1]
      BY <2>1, <2>5
    <3>2. CASE k = m
      BY <2>5, <2>6, <3>1, <3>2
    <3>3. CASE k # m
      <4>1. k \in 1..(m - 1) /\ k \in 0..(m - 1)
        BY <2>1, <3>3
      <4>2. QED  BY <2>2, <2>5, <3>1, <4>1 DEF Steps
    <3>4. QED  BY <3>2, <3>3
  <2>9. Steps(g, m, first, step)
    BY <2>7, <2>8 DEF Steps
  <2>10. QED  BY <2>1, <2>5, <2>9 DEF S
<1>3. n \in 0..n
  OBVIOUS
<1>4. n \in S
  <2> HIDE DEF S
  <2>1. QED  BY <1>1, <1>2, <1>3, UpTo
<1>5. QED  BY <1>4

\* A boundary is the one before it and the width of the character between them.
LEMMA EndsAre ==
    ASSUME NEW s \in Text
    PROVE  /\ Ends(s) \in [0..Len(s) -> Nat] /\ Ends(s)[0] = 0
           /\ \A k \in 1..Len(s) : Ends(s)[k] = Ends(s)[k - 1] + Width[s[k]]
<1> DEFINE n == Len(s)
           step == [x \in (1..n) \X Nat |-> x[2] + Width[s[x[1]]]]
           F(g) == g = [k \in 0..n |-> IF k = 0 THEN 0 ELSE g[k - 1] + Width[s[k]]]
           ff == CHOOSE g : F(g)
<1>1. n \in Nat /\ \A k \in 1..n : Width[s[k]] \in Nat
  BY WidthAssumption DEF Text
<1>2. step \in [(1..n) \X Nat -> Nat]
  BY <1>1
<1>3. \A k \in 1..n, v \in Nat : step[<<k, v>>] = v + Width[s[k]]
  OBVIOUS
<1>4. PICK f \in [0..n -> Nat] : Steps(f, n, 0, step)
  <2> HIDE DEF n, step
  <2>1. QED  BY <1>1, <1>2, StepsExist
<1>5. F(f)
  <2> HIDE DEF step, n
  <2>1. ASSUME NEW k \in 1..n  PROVE f[k] = f[k - 1] + Width[s[k]]
    <3>1. f[k] = step[<<k, f[k - 1]>>] /\ f[k - 1] \in Nat
      BY <1>1, <1>4 DEF Steps
    <3>2. QED  BY <1>3, <3>1
  <2>2. f[0] = 0
    BY <1>4 DEF Steps
  <2>3. QED  BY <1>1, <1>4, <2>1, <2>2
<1>6. F(ff)
  <2> HIDE DEF F
  <2>1. QED  BY <1>5, Zenon
<1>7. Ends(s) = [k \in 0..n |-> ff[k]]
  BY DEF Ends
<1> HIDE DEF ff
<1>8. ff[0] = 0 /\ \A k \in 1..n : ff[k] = ff[k - 1] + Width[s[k]]
  <2>1. 0 \in 0..n /\ \A k \in 1..n : k \in 0..n /\ k # 0
    BY <1>1
  <2> HIDE DEF n
  <2>2. \A k \in 0..n : ff[k] = IF k = 0 THEN 0 ELSE ff[k - 1] + Width[s[k]]
    BY <1>6, Zenon
  <2>3. QED  BY <2>1, <2>2
<1>9. \A k \in 0..n : ff[k] \in Nat
  <2> DEFINE S == {k \in 0..n : ff[k] \in Nat}
  <2>1. 0 \in S
    BY <1>1, <1>8
  <2>2. ASSUME NEW k \in 1..n, k - 1 \in S  PROVE k \in S
    <3>1. ff[k - 1] \in Nat
      BY <2>2
    <3>2. ff[k] = ff[k - 1] + Width[s[k]] /\ Width[s[k]] \in Nat
      BY <1>1, <1>8
    <3> HIDE DEF n
    <3>3. k \in 0..n /\ ff[k] \in Nat
      BY <1>1, <3>1, <3>2
    <3>4. QED  BY <3>3
  <2>3. \A k \in 0..n : k \in S
    <3> HIDE DEF S, n
    <3>1. QED  BY <1>1, <2>1, <2>2, UpTo
  <2>4. QED  BY <2>3
<1>10. QED
  <2>1. \A k \in 0..n : Ends(s)[k] = ff[k]
    BY <1>7
  <2>2. Ends(s) \in [0..n -> Nat]
    BY <1>7, <1>9
  <2>3. 0 \in 0..n /\ \A k \in 1..n : k \in 0..n /\ k - 1 \in 0..n
    BY <1>1
  <2> HIDE DEF n
  <2>4. Ends(s)[0] = 0 /\ \A k \in 1..n : Ends(s)[k] = Ends(s)[k - 1] + Width[s[k]]
    BY <1>8, <2>1, <2>3
  <2>5. QED  BY <2>2, <2>4 DEF n

\* Boundaries ascend.
LEMMA EndsAscend ==
    ASSUME NEW s \in Text, NEW i \in 0..Len(s), NEW j \in 0..Len(s), i < j
    PROVE  Ends(s)[i] < Ends(s)[j]
<1> DEFINE e == Ends(s)
           n == Len(s)
           S == {k \in 0..n : i < k => e[i] < e[k]}
<1>1. n \in Nat /\ e \in [0..n -> Nat] /\ \A k \in 1..n : e[k] = e[k - 1] + Width[s[k]]
  BY EndsAre DEF Text
<1>2. \A k \in 1..n : Width[s[k]] \in 1..4
  BY WidthAssumption DEF Text
<1>3. ASSUME NEW k \in 1..n, k - 1 \in S  PROVE k \in S
  <2>1. SUFFICES ASSUME i < k  PROVE e[i] < e[k]
    <3>1. k \in 0..n
      BY <1>1
    <3>2. QED  BY <2>1, <3>1
  <2>2. e[k] = e[k - 1] + Width[s[k]] /\ Width[s[k]] \in 1..4
        /\ e[k - 1] \in Nat /\ e[i] \in Nat /\ e[k] \in Nat
    <3> HIDE DEF e, n
    <3>1. k - 1 \in 0..n /\ k \in 0..n
      BY <1>1
    <3>2. i \in 0..n
      BY DEF n
    <3>3. QED  BY <1>1, <1>2, <3>1, <3>2
  <2>3. e[i] <= e[k - 1]
    <3>1. CASE i = k - 1
      <4> HIDE DEF e
      <4>1. QED  BY <2>2, <3>1
    <3>2. CASE i < k - 1
      <4>1. e[i] < e[k - 1]
        BY <1>3, <3>2
      <4> HIDE DEF e
      <4>2. QED  BY <2>2, <4>1
    <3>3. QED  BY <1>1, <2>1, <3>1, <3>2
  <2>4. \A a \in Nat, b \in Nat, c \in Nat, w \in 1..4 : c = b + w /\ a <= b => a < c
    OBVIOUS
  <2> HIDE DEF e, n
  <2>5. QED  BY <2>2, <2>3, <2>4
<1>4. 0 \in S
  BY <1>1
<1>5. j \in S
  <2>1. j \in 0..n
    OBVIOUS
  <2> HIDE DEF S, n
  <2>2. QED  BY <1>1, <1>3, <1>4, <2>1, UpTo
<1>6. QED  BY <1>5

\* A text cut at a character has its boundaries.
LEMMA PrefixEnds ==
    ASSUME NEW s \in Text, NEW t \in Text, Len(t) <= Len(s),
           \A i \in 1..Len(t) : t[i] = s[i]
    PROVE  Bytes(t) = Ends(s)[Len(t)]
<1> DEFINE e == Ends(s)
           g == Ends(t)
           n == Len(s)
           m == Len(t)
           S == {k \in 0..m : g[k] = e[k]}
<1>1. n \in Nat /\ e[0] = 0 /\ \A k \in 1..n : e[k] = e[k - 1] + Width[s[k]]
  BY EndsAre DEF Text
<1>2. m \in Nat /\ g[0] = 0 /\ \A k \in 1..m : g[k] = g[k - 1] + Width[t[k]]
  BY EndsAre DEF Text
<1>3. m <= n /\ \A k \in 1..m : t[k] = s[k]
  OBVIOUS
<1> HIDE DEF e, g, n, m
<1>4. 0 \in S
  BY <1>1, <1>2
<1>5. ASSUME NEW k \in 1..m, k - 1 \in S  PROVE k \in S
  <2>1. k \in 0..m /\ k \in 1..n
    BY <1>1, <1>2, <1>3
  <2>2. g[k - 1] = e[k - 1]
    BY <1>5
  <2>3. QED  BY <1>1, <1>2, <1>3, <2>1, <2>2
<1>6. m \in S
  <2>1. m \in 0..m
    BY <1>2
  <2> HIDE DEF S
  <2>2. QED  BY <1>2, <1>4, <1>5, <2>1, UpTo
<1>7. QED  BY <1>6 DEF Bytes, e, g, m

\* What is cut at a character is a text, of the characters before it.
LEMMA Prefix ==
    ASSUME NEW s \in Text, NEW k \in 0..Len(s)
    PROVE  /\ SubSeq(s, 1, k) \in Text /\ Len(SubSeq(s, 1, k)) = k
           /\ \A i \in 1..k : SubSeq(s, 1, k)[i] = s[i]
           /\ Bytes(SubSeq(s, 1, k)) = Ends(s)[k]
           /\ SubSeq(s, 1, Len(s)) = s
<1>1. /\ SubSeq(s, 1, k) \in Text /\ Len(SubSeq(s, 1, k)) = k
      /\ \A i \in 1..k : SubSeq(s, 1, k)[i] = s[i]
      /\ SubSeq(s, 1, Len(s)) = s
  BY DEF Text
<1>2. Bytes(SubSeq(s, 1, k)) = Ends(s)[k]
  <2>1. PICK t : t = SubSeq(s, 1, k)
    OBVIOUS
  <2>2. t \in Text /\ Len(t) = k /\ \A i \in 1..Len(t) : t[i] = s[i]
    BY <1>1, <2>1
  <2>3. k <= Len(s)
    BY DEF Text
  <2>4. Bytes(t) = Ends(s)[k]
    BY <2>2, <2>3, PrefixEnds
  <2>5. QED  BY <2>1, <2>4
<1>3. QED  BY <1>1, <1>2

\* A cut is as much of the text as fits: it is made at the last boundary within the
\* limit.
LEMMA TruncateIs ==
    ASSUME NEW s \in Text, NEW max \in Nat
    PROVE  \E k \in 0..Len(s) :
               /\ Truncate(s, max) = SubSeq(s, 1, k)
               /\ Ends(s)[k] <= max
               /\ k < Len(s) => Ends(s)[k + 1] > max
<1> DEFINE n == Len(s)
           ends == Ends(s)
           Inside(e) == e > 0 /\ \A k \in 0..n : ends[k] # e
           step == [x \in (1..max) \X Nat |-> IF Inside(x[1]) THEN x[2] ELSE x[1]]
           F(g) == g = [e \in 0..max |-> IF Inside(e) THEN g[e - 1] ELSE e]
           end == CHOOSE g : F(g)
<1>1. n \in Nat /\ ends \in [0..n -> Nat] /\ ends[0] = 0
  BY EndsAre DEF Text
<1>2. Truncate(s, max) = IF ends[n] <= max THEN s ELSE Slice(s, ends, end[max])
  BY DEF Truncate
<1>3. CASE ends[n] <= max
  <2>1. SubSeq(s, 1, n) = s /\ n \in 0..n /\ ~(n < n)
    BY <1>1 DEF Text
  <2>2. QED  BY <1>2, <1>3, <2>1
<1>4. CASE ~(ends[n] <= max)
  <2>1. F(end)
    <3>1. step \in [(1..max) \X Nat -> Nat]
      OBVIOUS
    <3>2. \A e \in 1..max, v \in Nat : step[<<e, v>>] = IF Inside(e) THEN v ELSE e
      <4> HIDE DEF Inside
      <4>1. QED  OBVIOUS
    <3>3. PICK f \in [0..max -> Nat] : Steps(f, max, 0, step)
      <4> HIDE DEF step
      <4>1. QED  BY <3>1, StepsExist
    <3>4. F(f)
      <4>1. ASSUME NEW e \in 1..max  PROVE f[e] = IF Inside(e) THEN f[e - 1] ELSE e
        <5> HIDE DEF step, Inside
        <5>1. f[e] = step[<<e, f[e - 1]>>] /\ f[e - 1] \in Nat
          BY <3>3 DEF Steps
        <5>2. QED  BY <3>2, <5>1
      <4>2. f[0] = 0 /\ ~Inside(0)
        BY <3>3 DEF Steps
      <4> HIDE DEF step, Inside
      <4>3. QED  BY <3>3, <4>1, <4>2
    <3> HIDE DEF F
    <3>5. QED  BY <3>4, Zenon
  <2> HIDE DEF end
  <2>2. end[0] = 0 /\ \A e \in 1..max : end[e] = IF Inside(e) THEN end[e - 1] ELSE e
    <3>1. ~Inside(0)
      OBVIOUS
    <3> HIDE DEF Inside
    <3>2. QED  BY <2>1, <3>1
  <2> DEFINE Last(e, b) == /\ b \in Nat /\ b <= e
                           /\ \E k \in 0..n : ends[k] = b
                           /\ \A j \in 0..n : ends[j] <= e => ends[j] <= b
             S == {e \in 0..max : Last(e, end[e])}
  <2>3. 0 \in S
    <3>1. Last(0, 0)
      BY <1>1
    <3> HIDE DEF Last
    <3>2. QED  BY <2>2, <3>1
  <2>4. ASSUME NEW e \in 1..max, e - 1 \in S  PROVE e \in S
    <3>1. e \in 0..max /\ Last(e - 1, end[e - 1])
      BY <2>4
    <3>2. CASE Inside(e)
      <4>1. end[e] = end[e - 1]
        BY <2>2, <3>2
      <4>2. ASSUME NEW b, Last(e - 1, b)  PROVE Last(e, b)
        BY <1>1, <3>2, <4>2
      <4> HIDE DEF Last
      <4>3. QED  BY <3>1, <4>1, <4>2
    <3>3. CASE ~Inside(e)
      <4>1. end[e] = e
        BY <2>2, <3>3
      <4>2. Last(e, e)
        BY <1>1, <3>3
      <4> HIDE DEF Last
      <4>3. QED  BY <3>1, <4>1, <4>2
    <3>4. QED  BY <3>2, <3>3
  <2>5. Last(max, end[max])
    <3>1. max \in 0..max
      OBVIOUS
    <3> HIDE DEF Last
    <3>2. max \in S
      <4> HIDE DEF S
      <4>1. QED  BY <2>3, <2>4, <3>1, UpTo
    <3>3. QED  BY <3>2
  <2> DEFINE b == end[max]
             k == CHOOSE k \in 0..n : ends[k] = b
  <2>6. k \in 0..n /\ ends[k] = b
    BY <2>5
  <2>7. Truncate(s, max) = SubSeq(s, 1, k)
    BY <1>2, <1>4 DEF Slice
  <2> HIDE DEF k
  <2>8. ends[k] <= max
    BY <2>5, <2>6
  <2>9. ASSUME k < n  PROVE ends[k + 1] > max
    <3>1. k + 1 \in 0..n /\ k \in 0..n
      BY <1>1, <2>6, <2>9
    <3>2. ends[k] < ends[k + 1]
      BY <3>1, EndsAscend
    <3>3. ~(ends[k + 1] <= max)
      BY <1>1, <2>5, <2>6, <3>1, <3>2
    <3>4. QED  BY <1>1, <3>1, <3>3
  <2>10. QED  BY <2>6, <2>7, <2>8, <2>9
<1>5. QED  BY <1>3, <1>4

\* So it is the longest prefix within the limit.
LEMMA TruncateFits ==
    ASSUME NEW s \in Text, NEW max \in Nat
    PROVE  /\ Truncate(s, max) \in Text
           /\ LongestPrefix(Truncate(s, max), s, max)
           /\ s # <<>> /\ max >= 4 => Truncate(s, max) # <<>>
<1>1. PICK k \in 0..Len(s) : /\ Truncate(s, max) = SubSeq(s, 1, k)
                             /\ Ends(s)[k] <= max
                             /\ k < Len(s) => Ends(s)[k + 1] > max
  BY TruncateIs
<1>2. PICK cut : cut = SubSeq(s, 1, k)
  OBVIOUS
<1>3. cut \in Text /\ Len(cut) = k /\ Bytes(cut) = Ends(s)[k] /\ SubSeq(s, 1, Len(s)) = s
  BY <1>2, Prefix
<1>4. Len(s) \in Nat /\ k \in Nat
  BY DEF Text
<1>5. ASSUME cut # s  PROVE Bytes(SubSeq(s, 1, k + 1)) > max
  <2>1. k < Len(s)
    <3>1. k # Len(s)
      BY <1>2, <1>3, <1>5, Zenon
    <3>2. k \in 0..Len(s)
      OBVIOUS
    <3>3. QED  BY <1>4, <3>1, <3>2
  <2>2. k + 1 \in 0..Len(s)
    BY <1>4, <2>1
  <2>3. QED  BY <1>1, <2>1, <2>2, Prefix
<1>6. LongestPrefix(cut, s, max)
  <2>1. k <= Len(s)
    OBVIOUS
  <2>2. QED  BY <1>1, <1>2, <1>3, <1>5, <2>1 DEF LongestPrefix
<1>7. ASSUME s # <<>>, max >= 4  PROVE cut # <<>>
  <2>1. Len(s) > 0 /\ 1 \in 1..Len(s)
    BY <1>7 DEF Text
  <2>2. Ends(s)[1] = Ends(s)[1 - 1] + Width[s[1]] /\ Ends(s)[0] = 0
    BY <2>1, EndsAre
  <2>3. Width[s[1]] \in 1..4
    BY <2>1, WidthAssumption DEF Text
  <2>4. Ends(s)[1] <= max
    BY <1>7, <2>2, <2>3
  <2>5. k # 0
    BY <1>1, <2>1, <2>2, <2>3, <2>4, <1>7
  <2>6. QED  BY <1>3, <2>5
<1>8. QED  BY <1>1, <1>2, <1>3, <1>6, <1>7

\* A text has a length.
LEMMA BytesNat ==
    ASSUME NEW s \in Text
    PROVE  Bytes(s) \in Nat
<1>1. Ends(s) \in [0..Len(s) -> Nat] /\ Len(s) \in 0..Len(s)
  BY EndsAre DEF Text
<1>2. QED  BY <1>1 DEF Bytes

\* A prefix is made of the first characters.
LEMMA PrefixOf ==
    ASSUME NEW s \in Text, NEW cut \in Text, NEW max, LongestPrefix(cut, s, max)
    PROVE  \A i \in 1..Len(cut) : i \in 1..Len(s) /\ cut[i] = s[i]
<1>1. Len(cut) \in 0..Len(s) /\ cut = SubSeq(s, 1, Len(cut))
  BY DEF Text, LongestPrefix
<1>2. \A i \in 1..Len(cut) : SubSeq(s, 1, Len(cut))[i] = s[i]
  BY <1>1, Prefix
<1>3. QED  BY <1>1, <1>2

\* Within a text, a part of it is as long as it is on its own.
LEMMA PartEnds ==
    ASSUME NEW s \in Text, NEW t \in Text, NEW a \in Nat, a + Len(t) <= Len(s),
           \A i \in 1..Len(t) : s[a + i] = t[i]
    PROVE  Ends(s)[a + Len(t)] = Ends(s)[a] + Bytes(t)
<1> DEFINE e == Ends(s)
           g == Ends(t)
           n == Len(s)
           m == Len(t)
           S == {k \in 0..m : e[a + k] = e[a] + g[k]}
<1>1. n \in Nat /\ e \in [0..n -> Nat] /\ \A k \in 1..n : e[k] = e[k - 1] + Width[s[k]]
  BY EndsAre DEF Text
<1>2. /\ m \in Nat /\ g \in [0..m -> Nat] /\ g[0] = 0
      /\ \A k \in 1..m : g[k] = g[k - 1] + Width[t[k]]
  BY EndsAre DEF Text
<1>3. a + m <= n /\ \A k \in 1..m : s[a + k] = t[k]
  OBVIOUS
<1>4. \A k \in 1..m : Width[t[k]] \in Nat
  <2>1. \A k \in 1..m : t[k] \in Char
    BY DEF Text
  <2> HIDE DEF m
  <2>2. QED  BY <2>1, WidthAssumption
<1> HIDE DEF e, g, n, m
<1>5. 0 \in S
  <2>1. a \in 0..n /\ 0 \in 0..m /\ a + 0 = a
    BY <1>1, <1>2, <1>3
  <2>2. e[a] \in Nat
    BY <1>1, <2>1
  <2>3. QED  BY <1>2, <2>1, <2>2
<1>6. ASSUME NEW k \in 1..m, k - 1 \in S  PROVE k \in S
  <2>1. /\ k \in 0..m /\ k - 1 \in 0..m /\ a + k \in 1..n /\ a \in 0..n
        /\ (a + k) - 1 = a + (k - 1)
    BY <1>1, <1>2, <1>3
  <2>2. e[a + k] = e[a + (k - 1)] + Width[t[k]]
    BY <1>1, <1>3, <2>1
  <2>3. e[a + (k - 1)] = e[a] + g[k - 1] /\ g[k] = g[k - 1] + Width[t[k]]
    BY <1>2, <1>6
  <2>4. e[a] \in Nat /\ g[k - 1] \in Nat /\ Width[t[k]] \in Nat
    BY <1>1, <1>2, <1>4, <2>1
  <2>5. QED  BY <2>1, <2>2, <2>3, <2>4
<1>7. m \in S
  <2>1. m \in 0..m
    BY <1>2
  <2> HIDE DEF S
  <2>2. QED  BY <1>2, <1>5, <1>6, <2>1, UpTo
<1>8. QED  BY <1>7 DEF Bytes, e, g, m

\* One text after another is as long as both.
LEMMA BytesConcat ==
    ASSUME NEW s \in Text, NEW t \in Text
    PROVE  s \o t \in Text /\ Bytes(s \o t) = Bytes(s) + Bytes(t)
<1>1. PICK u : u = s \o t
  OBVIOUS
<1>2. /\ u \in Text /\ Len(s) \in Nat /\ Len(t) \in Nat /\ Len(u) = Len(s) + Len(t)
      /\ \A i \in 1..Len(s) : s[i] = u[i]
      /\ \A i \in 1..Len(t) : u[Len(s) + i] = t[i]
  BY <1>1 DEF Text
<1>3. Bytes(s) = Ends(u)[Len(s)]
  BY <1>2, PrefixEnds
<1>4. Ends(u)[Len(s) + Len(t)] = Ends(u)[Len(s)] + Bytes(t)
  BY <1>2, PartEnds
<1>5. Bytes(u) = Ends(u)[Len(s) + Len(t)]
  BY <1>2 DEF Bytes
<1>6. QED  BY <1>1, <1>2, <1>3, <1>4, <1>5

\* A character more is its width more.
LEMMA BytesAppend ==
    ASSUME NEW t \in Text, NEW c \in Char
    PROVE  Append(t, c) \in Text /\ Bytes(Append(t, c)) = Bytes(t) + Width[c]
<1>1. PICK u : u = Append(t, c)
  OBVIOUS
<1>2. /\ u \in Text /\ Len(t) \in Nat /\ Len(u) = Len(t) + 1 /\ u[Len(t) + 1] = c
      /\ \A i \in 1..Len(t) : t[i] = u[i]
  BY <1>1 DEF Text
<1>3. Len(u) \in 1..Len(u) /\ Len(u) - 1 = Len(t) /\ Len(t) <= Len(u)
  BY <1>2
<1>4. Ends(u)[Len(u)] = Ends(u)[Len(u) - 1] + Width[u[Len(u)]]
  BY <1>2, <1>3, EndsAre
<1>5. Bytes(t) = Ends(u)[Len(t)]
  BY <1>2, <1>3, PrefixEnds
<1>6. Bytes(u) = Ends(u)[Len(u)] /\ u[Len(u)] = c
  BY <1>2 DEF Bytes
<1>7. QED  BY <1>1, <1>2, <1>3, <1>4, <1>5, <1>6

\* A token that is read is one, and ends within the text.
LEMMA TokenAtIs ==
    ASSUME NEW s \in Text, NEW k \in 1..Len(s)
    PROVE  /\ TokenAt(s, k) \in 0..(Len(s) - k + 1)
           /\ TokenAt(s, k) # 0 => SubSeq(s, k, k + TokenAt(s, k) - 1) \in Token
<1> DEFINE m == Len(s) - k + 1
           lengths == {n \in 1..m : SubSeq(s, k, k + n - 1) \in Token}
           Short == {m - n : n \in lengths}
<1>1. Len(s) \in Nat /\ m \in Nat
  BY DEF Text
<1>2. TokenAt(s, k) = IF lengths = {} THEN 0
                      ELSE CHOOSE n \in lengths : \A i \in lengths : i <= n
  BY DEF TokenAt
<1>3. CASE lengths = {}
  BY <1>1, <1>2, <1>3
<1>4. CASE lengths # {}
  <2>1. Short \in SUBSET Nat /\ Short # {}
    <3>1. \A n \in lengths : m - n \in Nat
      BY <1>1
    <3> HIDE DEF lengths, m
    <3>2. QED  BY <1>4, <3>1
  <2>2. PICK x \in Short : \A y \in Short : ~(<<y, x>> \in OpToRel(<, Nat))
    <3> HIDE DEF Short
    <3>1. QED  BY <2>1, WFMin, NatLessThanWellFounded
  <2>3. \A y \in Short : ~(y < x)
    BY <2>1, <2>2 DEF OpToRel
  <2>4. PICK n \in lengths : x = m - n
    OBVIOUS
  <2>5. \A i \in lengths : i <= n
    <3>1. SUFFICES ASSUME NEW i \in lengths  PROVE i <= n
      OBVIOUS
    <3>2. m - i \in Short /\ i \in Nat /\ n \in Nat
      BY <1>1
    <3>3. ~(m - i < m - n)
      BY <2>3, <2>4, <3>2
    <3> HIDE DEF m, lengths
    <3>4. QED  BY <1>1, <3>2, <3>3
  <2>6. TokenAt(s, k) \in lengths
    <3> HIDE DEF lengths
    <3>1. QED  BY <1>2, <1>4, <2>5
  <2>7. QED  BY <1>1, <2>6
<1>5. QED  BY <1>3, <1>4

\* What the parser has read up to the k-th character, and what is left of the token
\* it is in: the text made of it is longer than it by a fifth at most.
Read == [text : Text, rest : Nat]
Kept(s, k, read) ==
    /\ read.rest <= Len(s) - k
    /\ AtMostAFifthLonger(Bytes(read.text), Ends(s)[k + read.rest])

LEMMA ReadOnIs ==
    ASSUME NEW s \in Text, NEW k \in 1..Len(s), NEW read \in Read
    PROVE  /\ ReadOn(s, k, read) \in Read
           /\ Kept(s, k - 1, read) => Kept(s, k, ReadOn(s, k, read))
<1> DEFINE n == TokenAt(s, k)
           token == SubSeq(s, k, k + n - 1)
           e == Ends(s)
<1>1. /\ Len(s) \in Nat /\ k \in Nat /\ k >= 1 /\ k <= Len(s)
      /\ read.text \in Text /\ read.rest \in Nat /\ s[k] \in Char
  BY DEF Text, Read
<1>2. e \in [0..Len(s) -> Nat] /\ e[k] = e[k - 1] + Width[s[k]] /\ Width[s[k]] \in Nat
  <2>1. e \in [0..Len(s) -> Nat] /\ e[k] = e[k - 1] + Width[s[k]]
    BY EndsAre
  <2>2. Width[s[k]] \in Nat
    <3>1. Width[s[k]] \in 1..4
      BY <1>1, WidthAssumption
    <3>2. QED  BY <3>1
  <2>3. QED  BY <2>1, <2>2
<1>3. Bytes(read.text) \in Nat /\ k - 1 \in 0..Len(s) /\ e[k - 1] \in Nat /\ e[k] \in Nat
  BY <1>1, <1>2, BytesNat
<1>4. n \in 0..(Len(s) - k + 1) /\ (n # 0 => token \in Token)
  BY TokenAtIs
<1> HIDE DEF n, e
<1>5. CASE read.rest > 0
  <2>1. ReadOn(s, k, read) = [read EXCEPT !.rest = @ - 1]
    BY <1>5 DEF ReadOn
  <2>2. /\ ReadOn(s, k, read).text = read.text /\ ReadOn(s, k, read).rest = read.rest - 1
        /\ ReadOn(s, k, read) \in Read
    BY <1>1, <1>5, <2>1 DEF Read
  <2>3. k + (read.rest - 1) = (k - 1) + read.rest
    BY <1>1
  <2>4. read.rest <= Len(s) - (k - 1) => read.rest - 1 <= Len(s) - k
    BY <1>1
  <2>5. QED  BY <2>2, <2>3, <2>4 DEF Kept
<1>6. CASE read.rest = 0 /\ n = 0
  <2>1. ReadOn(s, k, read) = [text |-> Append(read.text, s[k]), rest |-> 0]
    BY <1>6 DEF ReadOn, n
  <2>2. Append(read.text, s[k]) \in Text
        /\ Bytes(Append(read.text, s[k])) = Bytes(read.text) + Width[s[k]]
    BY <1>1, BytesAppend
  <2>3. ReadOn(s, k, read) \in Read
    BY <2>1, <2>2 DEF Read
  <2>4. ASSUME Kept(s, k - 1, read)  PROVE Kept(s, k, ReadOn(s, k, read))
    <3>1. (k - 1) + read.rest = k - 1 /\ k + 0 = k /\ 0 <= Len(s) - k
      BY <1>1, <1>6
    <3>2. 5 * Bytes(read.text) <= 6 * e[k - 1]
      BY <2>4, <3>1 DEF Kept, AtMostAFifthLonger, e
    <3>3. 5 * (Bytes(read.text) + Width[s[k]]) <= 6 * e[k]
      <4>1. \A b, w, p, q \in Nat : 5 * b <= 6 * p /\ q = p + w => 5 * (b + w) <= 6 * q
        OBVIOUS
      <4>2. QED  BY <1>2, <1>3, <3>2, <4>1
    <3>4. QED  BY <2>1, <2>2, <3>1, <3>3 DEF Kept, AtMostAFifthLonger, e
  <2>5. QED  BY <2>3, <2>4
<1>7. CASE read.rest = 0 /\ n # 0
  <2>1. ReadOn(s, k, read) = [text |-> read.text \o Meaning[token], rest |-> n - 1]
    BY <1>7 DEF ReadOn, n
  <2>2. /\ token \in Token /\ token \in Text /\ Meaning[token] \in Text
        /\ 5 * Bytes(Meaning[token]) <= 6 * Bytes(token)
    BY <1>4, <1>7, TokenAssumption DEF AtMostAFifthLonger
  <2>3. n \in Nat /\ n - 1 \in Nat /\ n - 1 <= Len(s) - k /\ k + (n - 1) = (k - 1) + n
        /\ (k - 1) + n <= Len(s) /\ k - 1 \in Nat /\ k + (n - 1) \in 0..Len(s)
    BY <1>1, <1>4, <1>7
  <2>4. e[(k - 1) + n] = e[k - 1] + Bytes(token)
    <3>1. Len(token) = n /\ \A i \in 1..n : s[(k - 1) + i] = token[i]
      <4>1. /\ k \in Int /\ k + n - 1 \in Int /\ k <= k + n - 1 /\ (k + n - 1) - k + 1 = n
            /\ \A i \in k..(k + n - 1) : s[i] \in Char
            /\ \A i \in 1..n : k + i - 1 = (k - 1) + i
        BY <1>1, <1>7, <2>3 DEF Text
      <4>2. Len(token) = n /\ \A i \in 1..n : token[i] = s[k + i - 1]
        BY <4>1, SubSeqProperties
      <4>3. QED  BY <4>1, <4>2
    <3> HIDE DEF token
    <3>2. QED  BY <2>2, <2>3, <3>1, PartEnds DEF e
  <2> HIDE DEF token
  <2>5. /\ read.text \o Meaning[token] \in Text
        /\ Bytes(read.text \o Meaning[token]) = Bytes(read.text) + Bytes(Meaning[token])
        /\ Bytes(token) \in Nat /\ Bytes(Meaning[token]) \in Nat
    BY <1>1, <2>2, BytesConcat, BytesNat
  <2>6. ReadOn(s, k, read) \in Read
    BY <2>1, <2>3, <2>5 DEF Read
  <2>7. ASSUME Kept(s, k - 1, read)  PROVE Kept(s, k, ReadOn(s, k, read))
    <3>1. (k - 1) + read.rest = k - 1
      BY <1>1, <1>7
    <3>2. 5 * Bytes(read.text) <= 6 * e[k - 1]
      BY <2>7, <3>1 DEF Kept, AtMostAFifthLonger, e
    <3>3. 5 * (Bytes(read.text) + Bytes(Meaning[token])) <= 6 * e[k + (n - 1)]
      <4>1. e[k + (n - 1)] = e[k - 1] + Bytes(token)
        BY <2>3, <2>4
      <4>2. \A b, m, p, q \in Nat : 5 * b <= 6 * p /\ 5 * m <= 6 * q
                                     => 5 * (b + m) <= 6 * (p + q)
        OBVIOUS
      <4>3. QED  BY <1>3, <2>2, <2>5, <3>2, <4>1, <4>2
    <3>4. QED  BY <2>1, <2>3, <2>5, <3>3 DEF Kept, AtMostAFifthLonger, e
  <2>8. QED  BY <2>6, <2>7
<1>8. QED  BY <1>1, <1>5, <1>6, <1>7

\* What is made of a text is a text, longer by a fifth at most, and the same without
\* markup.
LEMMA StripIs ==
    ASSUME NEW s \in Text
    PROVE  /\ StripMarkup(s) \in Text
           /\ AtMostAFifthLonger(Bytes(StripMarkup(s)), Bytes(s))
           /\ Plain(s) => StripMarkup(s) = s
<1> DEFINE n == Len(s)
           first == [text |-> <<>>, rest |-> 0]
           step == [x \in (1..n) \X Read |-> ReadOn(s, x[1], x[2])]
           F(g) == g = [k \in 0..n |-> IF k = 0 THEN first ELSE ReadOn(s, k, g[k - 1])]
           read == CHOOSE g : F(g)
<1>1. n \in Nat /\ <<>> \in Text /\ first \in Read
  BY DEF Text, Read
<1>2. PICK f \in [0..n -> Read] : Steps(f, n, first, step)
  <2>1. step \in [(1..n) \X Read -> Read]
    BY ReadOnIs
  <2> HIDE DEF step, n, first
  <2>2. QED  BY <1>1, <2>1, StepsExist
<1>3. F(f)
  <2>1. \A k \in 1..n, v \in Read : step[<<k, v>>] = ReadOn(s, k, v)
    OBVIOUS
  <2> HIDE DEF step, n, first
  <2>2. ASSUME NEW k \in 1..n  PROVE f[k] = ReadOn(s, k, f[k - 1])
    <3>1. k - 1 \in 0..n
      BY <1>1
    <3>2. f[k] = step[<<k, f[k - 1]>>] /\ f[k - 1] \in Read
      BY <1>2, <3>1 DEF Steps
    <3>3. QED  BY <2>1, <3>2
  <2>3. f[0] = first /\ f = [k \in 0..n |-> f[k]]
    BY <1>2 DEF Steps
  <2>4. \A k \in 0..n : k # 0 => k \in 1..n
    BY <1>1
  <2>5. \A k \in 0..n : f[k] = IF k = 0 THEN first ELSE ReadOn(s, k, f[k - 1])
    BY <2>2, <2>3, <2>4
  <2>6. QED  BY <2>3, <2>5, Zenon
<1>4. F(read)
  <2> HIDE DEF F
  <2>1. QED  BY <1>3, Zenon
<1>5. StripMarkup(s) = IF Plain(s) THEN s ELSE read[n].text
  BY DEF StripMarkup, Plain
<1> HIDE DEF read
<1>6. read[0] = first /\ \A k \in 1..n : read[k] = ReadOn(s, k, read[k - 1])
  <2>1. 0 \in 0..n /\ \A k \in 1..n : k \in 0..n /\ k # 0
    BY <1>1
  <2> HIDE DEF n, first
  <2>2. \A k \in 0..n : read[k] = IF k = 0 THEN first ELSE ReadOn(s, k, read[k - 1])
    BY <1>4, Zenon
  <2>3. QED  BY <2>1, <2>2
<1> DEFINE S == {k \in 0..n : read[k] \in Read /\ Kept(s, k, read[k])}
<1>7. 0 \in S
  <2>1. Bytes(<<>>) = 0
    <3>1. Ends(<<>>)[0] = 0 /\ Len(<<>>) = 0
      BY <1>1, EndsAre
    <3>2. QED  BY <3>1 DEF Bytes
  <2>2. Ends(s)[0] = 0
    BY EndsAre
  <2>3. Kept(s, 0, first)
    BY <1>1, <2>1, <2>2 DEF Kept, AtMostAFifthLonger
  <2>4. QED  BY <1>1, <1>6, <2>3
<1>8. ASSUME NEW k \in 1..n, k - 1 \in S  PROVE k \in S
  <2>1. k \in 0..n /\ read[k - 1] \in Read /\ Kept(s, k - 1, read[k - 1])
    BY <1>1, <1>8
  <2>2. ReadOn(s, k, read[k - 1]) \in Read /\ Kept(s, k, ReadOn(s, k, read[k - 1]))
    BY <2>1, ReadOnIs
  <2>3. QED  BY <1>6, <2>1, <2>2
<1>9. read[n] \in Read /\ Kept(s, n, read[n])
  <2>1. n \in 0..n
    BY <1>1
  <2>2. n \in S
    <3> HIDE DEF S, n
    <3>1. QED  BY <1>1, <1>7, <1>8, <2>1, UpTo
  <2>3. QED  BY <2>2
<1>10. CASE Plain(s)
  <2>1. Bytes(s) \in Nat
    BY BytesNat
  <2>2. QED  BY <1>5, <1>10, <2>1 DEF AtMostAFifthLonger
<1>11. CASE ~Plain(s)
  <2>1. read[n].text \in Text /\ read[n].rest = 0
    BY <1>1, <1>9 DEF Read, Kept
  <2>2. AtMostAFifthLonger(Bytes(read[n].text), Bytes(s))
    <3>1. n + 0 = n
      BY <1>1
    <3>2. QED  BY <1>9, <2>1, <3>1 DEF Kept, Bytes
  <2>3. QED  BY <1>5, <1>11, <2>1, <2>2
<1>12. QED  BY <1>10, <1>11

-----------------------------------------------------------------------------
(* What was built is what is left of the call in hand. *)

Made == \A n \in built : n = [Sanitized EXCEPT !.actions = Pairs(@)]

\* Nothing else is ever built.
LEMMA IntakeMade == IntakeSpec => []Made
<1>1. IntakeInit => Made
  BY DEF IntakeInit, Made, Nothing
<1>2. Made /\ [IntakeNext]_intakeVars => Made'
  <2> SUFFICES ASSUME Made, [IntakeNext]_intakeVars  PROVE Made'
    OBVIOUS
  <2>1. CASE Accept
    <3>1. call' = call /\ built' = {[Sanitized EXCEPT !.actions = Pairs(@)]}
      BY <2>1 DEF Accept
    <3>2. Sanitized' = Sanitized
      BY <3>1 DEF Sanitized
    <3>3. QED  BY <3>1, <3>2 DEF Made
  <2>2. CASE Reject \/ TimePasses \/ UNCHANGED intakeVars
    <3>1. call' = call /\ built' = built
      BY <2>2 DEF Reject, TimePasses, intakeVars
    <3>2. Sanitized' = Sanitized
      BY <3>1 DEF Sanitized
    <3>3. QED  BY <3>1, <3>2 DEF Made
  <2>3. ASSUME NEW c \in Calls, Notify(c)  PROVE Made'
    BY <2>3 DEF Notify, Nothing, Made
  <2>4. QED  BY <2>1, <2>2, <2>3 DEF IntakeNext
<1>3. QED  BY <1>1, <1>2, PTL DEF IntakeSpec

\* The fields of what was built.
LEMMA FieldsMade ==
    ASSUME Made, NEW n \in built
    PROVE  /\ n.app_name = Truncate(call.app_name, MAX_APP_NAME)
           /\ n.summary = SummaryOf(call.app_name, call.summary)
           /\ n.body = StripMarkup(Truncate(call.body, MAX_BODY))
           /\ n.app_icon = Truncate(ResolveIcon(call.hints, call.app_icon), MAX_ICON_LEN)
BY DEF Made, Sanitized, SanitizeInput

\* An icon comes from what a client sent: pixels that decode, a path, or the name.
LEMMA IconIs ==
    ASSUME InHand
    PROVE  LET hints == call.hints
               icon == ResolveIcon(hints, call.app_icon) IN
           /\ icon \in Text
           /\ icon = <<>> => call.app_icon = <<>>
           /\ \/ \E key \in {"image-data", "image_data"} :
                     Usable(key, "image") /\ icon = DataUri(hints[key].image)
              \/ /\ ~Usable("image-data", "image")
                 /\ "image-data" \notin DOMAIN hints => ~Usable("image_data", "image")
                 /\ Usable("image-path", "text") => icon = hints["image-path"].text
                 /\ "image-path" \notin DOMAIN hints /\ Usable("image_path", "text") =>
                       icon = hints["image_path"].text
<1> DEFINE hints == call.hints
           icon == ResolveIcon(hints, call.app_icon)
           None == /\ ~Usable("image-data", "image")
                   /\ "image-data" \notin DOMAIN hints => ~Usable("image_data", "image")
<1>1. /\ call.app_icon \in Text
      /\ \A key \in DOMAIN hints :
            /\ hints[key].kind = "text" => hints[key].text \in Text
            /\ hints[key].kind = "image" => DataUri(hints[key].image) \in Text \ {<<>>}
  BY CallsAssumption DEF InHand
<1>2. CASE Pixels(hints) # {}
  <2>1. PICK v \in Pixels(hints) : icon = DataUri(v.image)
    BY <1>2 DEF ResolveIcon
  <2>2. PICK key \in {"image-data", "image_data"} :
            key \in DOMAIN hints /\ v = hints[key] /\ v.kind = "image" /\ Decodes(v.image)
    BY <2>1 DEF Pixels, Hint
  <2>3. Usable(key, "image")
    BY <2>2 DEF Usable
  <2>4. icon \in Text \ {<<>>}
    BY <1>1, <2>1, <2>2
  <2>5. QED  BY <2>1, <2>2, <2>3, <2>4
<1>3. ASSUME Pixels(hints) = {}  PROVE None
  <2>1. ~Usable("image-data", "image")
    <3>1. SUFFICES ASSUME Usable("image-data", "image")
                   PROVE  hints["image-data"] \in Pixels(hints)
      BY <1>3
    <3>2. QED  BY <3>1 DEF Usable, Pixels, Hint
  <2>2. ASSUME "image-data" \notin DOMAIN hints, Usable("image_data", "image")  PROVE FALSE
    <3>1. hints["image_data"] \in Pixels(hints)
      BY <2>2 DEF Usable, Pixels, Hint
    <3>2. QED  BY <1>3, <3>1
  <2>3. QED  BY <2>1, <2>2
<1>4. CASE Pixels(hints) = {} /\ Paths(hints) # {}
  <2>1. PICK v \in Paths(hints) : icon = v.text
    BY <1>4 DEF ResolveIcon
  <2>2. PICK key \in {"image-path", "image_path"} :
            /\ key \in DOMAIN hints /\ v = hints[key] /\ v.kind = "text" /\ v.text # <<>>
            /\ "image-path" \in DOMAIN hints => key = "image-path"
    BY <2>1 DEF Paths, Hint
  <2>3. Usable("image-path", "text") => icon = hints["image-path"].text
    BY <2>1, <2>2 DEF Usable
  <2>4. "image-path" \notin DOMAIN hints => icon = hints["image_path"].text
    BY <2>1, <2>2
  <2>5. icon \in Text \ {<<>>}
    BY <1>1, <2>1, <2>2
  <2>6. QED  BY <1>3, <1>4, <2>3, <2>4, <2>5
<1>5. CASE Pixels(hints) = {} /\ Paths(hints) = {}
  <2>1. icon = call.app_icon
    BY <1>5 DEF ResolveIcon
  <2>2. ~Usable("image-path", "text")
    <3>1. SUFFICES ASSUME Usable("image-path", "text")  PROVE hints["image-path"] \in Paths(hints)
      BY <1>5
    <3>2. QED  BY <3>1 DEF Usable, Paths, Hint
  <2>3. ASSUME "image-path" \notin DOMAIN hints, Usable("image_path", "text")  PROVE FALSE
    <3>1. hints["image_path"] \in Paths(hints)
      BY <2>3 DEF Usable, Paths, Hint
    <3>2. QED  BY <1>5, <3>1
  <2>4. QED  BY <1>1, <1>3, <1>5, <2>1, <2>2, <2>3
<1>6. QED  BY <1>2, <1>4, <1>5

\* What is cut to a limit and then parsed exceeds it by a fifth at most.
LEMMA StrippedCut ==
    ASSUME NEW s \in Text, NEW max \in Nat
    PROVE  LET new == StripMarkup(Truncate(s, max)) IN
           /\ AtMostAFifthLonger(Bytes(new), max)
           /\ Plain(s) => LongestPrefix(new, s, max)
<1>1. PICK cut : cut = Truncate(s, max)
  OBVIOUS
<1>2. cut \in Text /\ LongestPrefix(cut, s, max)
  BY <1>1, TruncateFits
<1>3. Bytes(cut) <= max /\ Bytes(cut) \in Nat
  BY <1>2, BytesNat DEF LongestPrefix
<1>4. StripMarkup(cut) \in Text /\ AtMostAFifthLonger(Bytes(StripMarkup(cut)), Bytes(cut))
  BY <1>2, StripIs
<1>5. Bytes(StripMarkup(cut)) \in Nat
  BY <1>4, BytesNat
<1>6. AtMostAFifthLonger(Bytes(StripMarkup(cut)), max)
  BY <1>3, <1>4, <1>5 DEF AtMostAFifthLonger
<1>7. ASSUME Plain(s)  PROVE StripMarkup(cut) = cut
  <2>1. \A i \in 1..Len(cut) : i \in 1..Len(s) /\ cut[i] = s[i]
    BY <1>2, PrefixOf
  <2>2. QED  BY <1>2, <1>7, <2>1, StripIs DEF Plain
<1>8. QED  BY <1>1, <1>2, <1>6, <1>7

\* What is left of a name, and of a body or summary without markup, is as much of it as
\* fits; an icon, and the name that stands in for a summary, fit their limits; and a body
\* or summary with markup exceeds its limit by a fifth at most: for all texts, whatever
\* the widths of their characters, and whatever its markup stands for.
THEOREM IntakeFieldsFit == IntakeSpec => []FieldsFit
<1>1. InHand /\ Made => FieldsFit
  <2> SUFFICES ASSUME InHand, Made, NEW n \in built
               PROVE  /\ LongestPrefix(n.app_name, call.app_name, MAX_APP_NAME)
                      /\ Plain(call.body) => LongestPrefix(n.body, call.body, MAX_BODY)
                      /\ Plain(call.summary) /\ call.summary # <<>> =>
                            LongestPrefix(n.summary, call.summary, MAX_SUMMARY)
                      /\ call.summary = <<>> => Bytes(n.summary) <= MAX_SUMMARY
                      /\ AtMostAFifthLonger(Bytes(n.body), MAX_BODY)
                      /\ AtMostAFifthLonger(Bytes(n.summary), MAX_SUMMARY)
                      /\ Bytes(n.app_icon) <= MAX_ICON_LEN
    BY DEF FieldsFit
  <2>1. call.app_name \in Text /\ call.summary \in Text /\ call.body \in Text
    BY CallsAssumption DEF InHand
  <2>2. LongestPrefix(n.app_name, call.app_name, MAX_APP_NAME)
    BY <2>1, FieldsMade, TruncateFits, MaximaAssumption
  <2>3. /\ AtMostAFifthLonger(Bytes(n.body), MAX_BODY)
        /\ Plain(call.body) => LongestPrefix(n.body, call.body, MAX_BODY)
    BY <2>1, FieldsMade, StrippedCut, MaximaAssumption
  <2>4. Bytes(n.app_icon) <= MAX_ICON_LEN
    BY IconIs, FieldsMade, TruncateFits, MaximaAssumption DEF LongestPrefix
  <2>5. CASE call.summary = <<>>
    <3>1. n.summary = Truncate(call.app_name, MAX_APP_NAME)
      BY <2>5, FieldsMade DEF SummaryOf
    <3>2. n.summary \in Text /\ Bytes(n.summary) <= MAX_APP_NAME
      BY <2>1, <3>1, TruncateFits, MaximaAssumption DEF LongestPrefix
    <3>3. Bytes(n.summary) \in Nat
      BY <3>2, BytesNat
    <3>4. Bytes(n.summary) <= MAX_SUMMARY /\ AtMostAFifthLonger(Bytes(n.summary), MAX_SUMMARY)
      BY <3>2, <3>3, MaximaAssumption, NameFitsSummary DEF AtMostAFifthLonger
    <3>5. QED  BY <2>2, <2>3, <2>4, <2>5, <3>4
  <2>6. CASE call.summary # <<>>
    <3>1. n.summary = StripMarkup(Truncate(call.summary, MAX_SUMMARY))
      BY <2>6, FieldsMade DEF SummaryOf
    <3>2. /\ AtMostAFifthLonger(Bytes(n.summary), MAX_SUMMARY)
          /\ Plain(call.summary) => LongestPrefix(n.summary, call.summary, MAX_SUMMARY)
      BY <2>1, <3>1, StrippedCut, MaximaAssumption
    <3>3. QED  BY <2>2, <2>3, <2>4, <2>6, <3>2
  <2>7. QED  BY <2>5, <2>6
<1>2. QED  BY <1>1, IntakeInvariant, IntakeMade, PTL

\* A usable source of an icon, under its older name where the newer is not sent, is lost
\* only to a stronger one, and no icon comes of it only if none was sent: for all sets of
\* hints.
THEOREM IntakeStrongestIcon == IntakeSpec => []StrongestIcon
<1>1. InHand /\ Made => StrongestIcon
  <2> SUFFICES ASSUME InHand, Made, NEW n \in built
               PROVE  /\ Usable("image-data", "image") => FromPixels(n.app_icon)
                      /\ "image-data" \notin DOMAIN call.hints /\ Usable("image_data", "image") =>
                            FromPixels(n.app_icon)
                      /\ Usable("image-path", "text") => FromPath("image-path", n.app_icon)
                      /\ "image-path" \notin DOMAIN call.hints /\ Usable("image_path", "text") =>
                            FromPath("image_path", n.app_icon)
                      /\ n.app_icon = <<>> => call.app_icon = <<>>
    BY DEF StrongestIcon
  <2>1. PICK icon : icon = ResolveIcon(call.hints, call.app_icon)
    OBVIOUS
  <2>2. n.app_icon = Truncate(icon, MAX_ICON_LEN)
    BY <2>1, FieldsMade
  <2>3. icon \in Text /\ (icon = <<>> => call.app_icon = <<>>)
    BY <2>1, IconIs
  <2>4. n.app_icon = <<>> => call.app_icon = <<>>
    <3>1. icon # <<>> => Truncate(icon, MAX_ICON_LEN) # <<>>
      BY <2>3, TruncateFits, IconOfACharacter, MaximaAssumption
    <3>2. QED  BY <2>2, <2>3, <3>1
  <2>5. CASE \E key \in {"image-data", "image_data"} :
                 Usable(key, "image") /\ icon = DataUri(call.hints[key].image)
    <3>1. FromPixels(n.app_icon)
      BY <2>2, <2>5 DEF FromPixels
    <3>2. QED  BY <2>4, <3>1 DEF FromPath
  <2>6. CASE /\ ~Usable("image-data", "image")
             /\ "image-data" \notin DOMAIN call.hints => ~Usable("image_data", "image")
             /\ Usable("image-path", "text") => icon = call.hints["image-path"].text
             /\ "image-path" \notin DOMAIN call.hints /\ Usable("image_path", "text") =>
                   icon = call.hints["image_path"].text
    BY <2>2, <2>4, <2>6 DEF FromPath
  <2>7. QED  BY <2>1, <2>5, <2>6, IconIs
<1>2. QED  BY <1>1, IntakeInvariant, IntakeMade, PTL
=============================================================================
