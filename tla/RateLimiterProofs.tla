-------------------------- MODULE RateLimiterProofs --------------------------
(***************************************************************************)
(* The bounds of the rate limiter for all limits, windows and sets of      *)
(* apps.  The argument: the limiter remembers at least the admissions of   *)
(* the window that ends now (Coverage), so what it counts when it admits   *)
(* bounds that window; a window that ended earlier no longer changes.      *)
(***************************************************************************)
EXTENDS RateLimiter, FiniteSetTheorems, TLAPS

\* Admissions are in the past.
Past == \A n \in 1..Len(at) : at[n] <= now

\* An admission still in the window is remembered, in both places.
Coverage == \A n \in 1..Len(at) : Live(n) => n \in global /\ n \in per_app[by[n]]

IInv == TypeOK /\ Past /\ Coverage /\ GlobalBound /\ PerAppBound

-----------------------------------------------------------------------------

\* Adding one element to a set with room keeps its cardinality within the
\* limit, for any subset of the result.
LEMMA RoomForOne ==
    ASSUME NEW S, IsFiniteSet(S), NEW limit \in Nat, Cardinality(S) < limit,
           NEW x, NEW T, T \subseteq S \cup {x}
    PROVE  IsFiniteSet(T) /\ Cardinality(T) <= limit
<1>1. IsFiniteSet(S \cup {x}) /\ Cardinality(S \cup {x}) <= Cardinality(S) + 1
  <2>1. Cardinality(S) \in Nat
    BY FS_CardinalityType
  <2>2. QED  BY <2>1, FS_AddElement
<1>2. IsFiniteSet(T) /\ Cardinality(T) <= Cardinality(S \cup {x})
  BY <1>1, FS_Subset
<1>3. Cardinality(S) \in Nat /\ Cardinality(T) \in Nat /\ Cardinality(S \cup {x}) \in Nat
  BY <1>1, <1>2, FS_CardinalityType
<1>4. QED  BY <1>1, <1>2, <1>3

\* What the limiter remembers is finite.
LEMMA MemoryFinite ==
    ASSUME TypeOK
    PROVE  /\ IsFiniteSet(Prune(global))
           /\ \A a \in App : IsFiniteSet(Prune(per_app[a]))
           /\ \A t \in Nat : IsFiniteSet(Window(t))
<1>1. IsFiniteSet(1..Len(at))
  BY FS_Interval DEF TypeOK
<1>2. /\ Prune(global) \subseteq 1..Len(at)
      /\ \A a \in App : Prune(per_app[a]) \subseteq 1..Len(at)
      /\ \A t \in Nat : Window(t) \subseteq 1..Len(at)
  BY DEF TypeOK, Prune, Window
<1>3. QED  BY <1>1, <1>2, FS_Subset

-----------------------------------------------------------------------------

LEMMA InitIInv == Init => IInv
<1> SUFFICES ASSUME Init PROVE IInv
  OBVIOUS
<1>1. TypeOK /\ Past /\ Coverage
  BY DEF Init, TypeOK, Past, Coverage
<1>2. \A t : Window(t) = {}
  BY DEF Init, Window
<1>3. GlobalBound
  BY <1>2, FS_EmptySet, LimitsAssumption DEF GlobalBound
<1>4. PerAppBound
  <2>1. \A t, a : {n \in Window(t) : by[n] = a} = {}
    BY <1>2
  <2>2. QED  BY <2>1, FS_EmptySet, LimitsAssumption DEF PerAppBound
<1>5. QED  BY <1>1, <1>3, <1>4 DEF IInv

\* An admission changes no window that ended before now, and the one that ends
\* now by the admission itself.
LEMMA AdmitIInv ==
    ASSUME IInv, NEW app \in App, Admit(app)
    PROVE  IInv'
<1> DEFINE new == Len(at) + 1
<1> USE LimitsAssumption
<1>0. TypeOK /\ Past /\ Coverage /\ GlobalBound /\ PerAppBound
  BY DEF IInv
<1>1. /\ now \in Nat /\ now' = now
      /\ Len(at) \in Nat /\ at \in Seq(Nat) /\ by \in Seq(App) /\ Len(by) = Len(at)
  BY <1>0 DEF TypeOK, Admit
<1>2. /\ at' \in Seq(Nat) /\ by' \in Seq(App) /\ Len(at') = new /\ Len(by') = new
      /\ at'[new] = now /\ by'[new] = app
      /\ \A n \in 1..Len(at) : at'[n] = at[n] /\ by'[n] = by[n]
  BY <1>1 DEF Admit
<1>3. TypeOK'
  <2>1. global' \subseteq 1..new
    <3>1. global' = Prune(global) \cup {new}
      BY DEF Admit
    <3>2. Prune(global) \subseteq 1..Len(at)
      BY <1>0 DEF TypeOK, Prune
    <3>3. QED  BY <3>1, <3>2, <1>1
  <2>2. per_app' \in [App -> SUBSET (1..new)]
    BY <1>0, <1>1 DEF TypeOK, Admit, Prune
  <2>3. ASSUME NEW a \in App, NEW n \in per_app'[a] PROVE by'[n] = a
    BY <1>0, <1>1, <1>2 DEF TypeOK, Admit, Prune, Charged
  <2>4. QED  BY <1>1, <1>2, <2>1, <2>2, <2>3 DEF TypeOK
<1>4. Past'
  BY <1>0, <1>1, <1>2 DEF Past
<1>5. Coverage'
  <2> SUFFICES ASSUME NEW n \in 1..new, Live(n)'
               PROVE  n \in global' /\ n \in per_app'[by'[n]]
    BY <1>2 DEF Coverage
  <2>1. CASE n = new
    BY <2>1, <1>2 DEF Admit, Charged
  <2>2. CASE n \in 1..Len(at)
    <3>1. Live(n)
      BY <2>2, <1>1, <1>2 DEF Live
    <3>2. n \in Prune(global) /\ n \in Prune(per_app[by[n]])
      BY <3>1, <2>2, <1>0 DEF Coverage, Prune
    <3>3. by[n] \in App
      BY <2>2, <1>1
    <3>4. QED  BY <3>2, <3>3, <2>2, <1>2 DEF Admit
  <2>3. QED  BY <2>1, <2>2, <1>1
<1> DEFINE W(t) == {n \in 1..new : t - WINDOW < at'[n] /\ at'[n] <= t}
<1>a. ASSUME NEW t \in 0..now PROVE Window(t)' = W(t)
  BY <1>2 DEF Window
<1>b. ASSUME NEW n \in 1..new PROVE n = new \/ n \in 1..Len(at)
  BY <1>1
<1>6. ASSUME NEW t \in 0..now, t # now PROVE W(t) = Window(t)
  BY <1>6, <1>1, <1>2, <1>b DEF Window
<1>7. ASSUME NEW n \in W(now) PROVE n \in Prune(global) \cup {new}
  <2>1. CASE n \in 1..Len(at)
    BY <2>1, <1>0, <1>2 DEF Coverage, Prune, Live
  <2>2. QED  BY <2>1, <1>b
<1>8. GlobalBound'
  <2>1. W(now) \subseteq Prune(global) \cup {new}
    BY <1>7
  <2>2. Cardinality(W(now)) <= GLOBAL_LIMIT
    BY <2>1, <1>0, RoomForOne, MemoryFinite DEF Admit, HasRoom
  <2>3. \A t \in 0..now : Cardinality(W(t)) <= GLOBAL_LIMIT
    BY <2>2, <1>6, <1>0 DEF GlobalBound
  <2>4. QED  BY <2>3, <1>1, <1>a DEF GlobalBound
<1>9. PerAppBound'
  <2> SUFFICES ASSUME NEW t \in 0..now, NEW a \in App
               PROVE  Cardinality({n \in W(t) : by'[n] = a}) <= PER_APP_LIMIT
    BY <1>1, <1>a DEF PerAppBound
  <2>1. CASE t # now \/ a # app
    <3>1. ASSUME NEW n \in W(t), by'[n] = a PROVE n \in Window(t) /\ by[n] = a
      BY <2>1, <3>1, <1>1, <1>2, <1>b DEF Window
    <3>2. ASSUME NEW n \in Window(t), by[n] = a PROVE n \in W(t) /\ by'[n] = a
      BY <3>2, <1>1, <1>2 DEF Window
    <3>3. {n \in W(t) : by'[n] = a} = {n \in Window(t) : by[n] = a}
      BY <3>1, <3>2
    <3>4. QED  BY <3>3, <1>0 DEF PerAppBound
  <2>2. CASE t = now /\ a = app
    <3>1. ASSUME NEW n \in W(t), by'[n] = a
          PROVE  n \in Prune(per_app[app]) \cup {new}
      <4>1. CASE n \in 1..Len(at)
        BY <4>1, <3>1, <2>2, <1>0, <1>1, <1>2 DEF Coverage, Prune, Live
      <4>2. QED  BY <4>1, <1>b
    <3>2. {n \in W(t) : by'[n] = a} \subseteq Prune(per_app[app]) \cup {new}
      BY <3>1
    <3>3. QED  BY <3>2, <1>0, RoomForOne, MemoryFinite DEF Admit, HasRoom
  <2>3. QED  BY <2>1, <2>2
<1>10. QED  BY <1>3, <1>4, <1>5, <1>8, <1>9 DEF IInv

\* A refusal only prunes.
LEMMA RefuseIInv ==
    ASSUME IInv, NEW app \in App, Refuse(app)
    PROVE  IInv'
<1>0. TypeOK /\ Past /\ Coverage /\ GlobalBound /\ PerAppBound
  BY DEF IInv
<1>1. TypeOK'
  BY <1>0 DEF TypeOK, Refuse, Prune
<1>2. Past'
  BY <1>0 DEF Past, Refuse
<1>3. Coverage'
  BY <1>0 DEF TypeOK, Coverage, Refuse, Prune, Live
<1>4. GlobalBound' /\ PerAppBound'
  BY <1>0 DEF GlobalBound, PerAppBound, Window, Refuse
<1>5. QED  BY <1>1, <1>2, <1>3, <1>4 DEF IInv

\* The window that ends one tick later holds no new admission.
LEMMA TickIInv ==
    ASSUME IInv, Tick
    PROVE  IInv'
<1> USE LimitsAssumption
<1>0. TypeOK /\ Past /\ Coverage /\ GlobalBound /\ PerAppBound
  BY DEF IInv
<1>1. /\ now \in Nat /\ now' = now + 1 /\ at' = at /\ by' = by
      /\ global' = global /\ per_app' = per_app
      /\ Len(at) \in Nat /\ at \in Seq(Nat)
  BY <1>0 DEF TypeOK, Tick
<1>2. TypeOK'
  BY <1>0, <1>1 DEF TypeOK
<1>3. Past'
  BY <1>0, <1>1 DEF Past
<1>4. Coverage'
  BY <1>0, <1>1 DEF Coverage, Live
<1>5. ASSUME NEW t \in 0..now' PROVE Window(t)' = Window(t)
  BY <1>1 DEF Window
<1>6. Window(now') \subseteq Window(now)
  BY <1>0, <1>1 DEF Past, Window
<1>7. GlobalBound'
  <2>1. Cardinality(Window(now)) <= GLOBAL_LIMIT
    BY <1>0, <1>1 DEF GlobalBound
  <2>2. Cardinality(Window(now')) <= GLOBAL_LIMIT
    <3>1. IsFiniteSet(Window(now))
      BY <1>0, <1>1, MemoryFinite
    <3>2. IsFiniteSet(Window(now')) /\ Cardinality(Window(now')) <= Cardinality(Window(now))
      BY <3>1, <1>6, FS_Subset
    <3>3. Cardinality(Window(now)) \in Nat /\ Cardinality(Window(now')) \in Nat
      BY <3>1, <3>2, FS_CardinalityType
    <3>4. QED  BY <2>1, <3>2, <3>3
  <2>3. QED  BY <2>2, <1>0, <1>1, <1>5 DEF GlobalBound
<1>8. PerAppBound'
  <2> SUFFICES ASSUME NEW t \in 0..now', NEW a \in App
               PROVE  Cardinality({n \in Window(t) : by[n] = a}) <= PER_APP_LIMIT
    BY <1>1, <1>5 DEF PerAppBound
  <2>1. CASE t \in 0..now
    BY <2>1, <1>0 DEF PerAppBound
  <2>2. CASE t = now'
    <3> DEFINE Mine(u) == {n \in Window(u) : by[n] = a}
    <3>1. IsFiniteSet(Window(now))
      BY <1>0, <1>1, MemoryFinite
    <3>2. IsFiniteSet(Mine(now))
      BY <3>1, FS_Subset
    <3>3. Mine(now') \subseteq Mine(now)
      BY <1>6
    <3>4. IsFiniteSet(Mine(now')) /\ Cardinality(Mine(now')) <= Cardinality(Mine(now))
      BY <3>2, <3>3, FS_Subset
    <3>5. Cardinality(Mine(now)) \in Nat /\ Cardinality(Mine(now')) \in Nat
      BY <3>2, <3>4, FS_CardinalityType
    <3>6. Cardinality(Mine(now)) <= PER_APP_LIMIT
      BY <1>0, <1>1 DEF PerAppBound
    <3>7. QED  BY <3>4, <3>5, <3>6, <2>2
  <2>3. QED  BY <2>1, <2>2, <1>1
<1>9. QED  BY <1>2, <1>3, <1>4, <1>7, <1>8 DEF IInv

\* The inductive invariant of the limiter.
THEOREM LimiterInvariant == Spec => []IInv
<1>1. Init => IInv
  BY InitIInv
<1>2. IInv /\ [Next]_vars => IInv'
  <2> SUFFICES ASSUME IInv, [Next]_vars PROVE IInv'
    OBVIOUS
  <2>1. ASSUME NEW app \in App, Admit(app) PROVE IInv'
    BY <2>1, AdmitIInv
  <2>2. ASSUME NEW app \in App, Refuse(app) PROVE IInv'
    BY <2>2, RefuseIInv
  <2>3. CASE Tick
    BY <2>3, TickIInv
  <2>4. CASE UNCHANGED vars
    BY <2>4 DEF vars, IInv, TypeOK, Past, Coverage, Live, GlobalBound, PerAppBound, Window
  <2>5. QED  BY <2>1, <2>2, <2>3, <2>4 DEF Next
<1>3. QED  BY <1>1, <1>2, PTL DEF Spec

\* Type correctness of the limiter.
THEOREM LimiterTypeOK == Spec => []TypeOK
<1>1. IInv => TypeOK
  BY DEF IInv
<1>2. QED  BY <1>1, LimiterInvariant, PTL

\* No window of the configured length, wherever it is placed, holds more than
\* GLOBAL_LIMIT admissions.
THEOREM LimiterGlobalBound == Spec => []GlobalBound
<1>1. IInv => GlobalBound
  BY DEF IInv
<1>2. QED  BY <1>1, LimiterInvariant, PTL

\* Nor more than PER_APP_LIMIT admissions of one app.
THEOREM LimiterPerAppBound == Spec => []PerAppBound
<1>1. IInv => PerAppBound
  BY DEF IInv
<1>2. QED  BY <1>1, LimiterInvariant, PTL

\* A call is refused only when the window ending now is full: what the limiter
\* counts is no more than that window holds.
THEOREM LimiterRefusalJustified == Spec => RefusalJustified
<1> DEFINE Mine(a) == {n \in Window(now) : by[n] = a}
<1> DEFINE Full(a) == Cardinality(Window(now)) >= GLOBAL_LIMIT
                        \/ Cardinality(Mine(a)) >= PER_APP_LIMIT
<1>1. ASSUME IInv, NEW app \in App, Refuse(app) PROVE Full(app)
  <2>0. TypeOK /\ Past
    BY <1>1 DEF IInv
  <2>1. IsFiniteSet(Window(now))
    BY <2>0, MemoryFinite DEF TypeOK
  <2>2. Prune(global) \subseteq Window(now)
    BY <2>0, LimitsAssumption DEF TypeOK, Past, Prune, Live, Window
  <2>3. Prune(per_app[app]) \subseteq Mine(app)
    BY <2>0, LimitsAssumption DEF TypeOK, Past, Prune, Live, Window
  <2>4. Mine(app) \subseteq Window(now)
    OBVIOUS
  <2>5. IsFiniteSet(Mine(app))
    BY <2>1, <2>4, FS_Subset
  <2>6. /\ Cardinality(Prune(global)) <= Cardinality(Window(now))
        /\ Cardinality(Prune(per_app[app])) <= Cardinality(Mine(app))
    BY <2>1, <2>2, <2>3, <2>5, FS_Subset
  <2>7. /\ Cardinality(Prune(global)) \in Nat /\ Cardinality(Window(now)) \in Nat
        /\ Cardinality(Prune(per_app[app])) \in Nat /\ Cardinality(Mine(app)) \in Nat
    BY <2>0, <2>1, <2>5, MemoryFinite, FS_CardinalityType
  <2>8. \/ ~(Cardinality(Prune(global)) < GLOBAL_LIMIT)
        \/ ~(Cardinality(Prune(per_app[app])) < PER_APP_LIMIT)
    BY <1>1 DEF Refuse, HasRoom
  <2>9. QED  BY <2>6, <2>7, <2>8, LimitsAssumption
<1>2. IInv => [\A app \in App : Refuse(app) =>
                 \/ Cardinality(Window(now)) >= GLOBAL_LIMIT
                 \/ Cardinality({n \in Window(now) : by[n] = app}) >= PER_APP_LIMIT]_vars
  BY <1>1
<1>3. QED  BY <1>2, LimiterInvariant, PTL DEF RefusalJustified
=============================================================================
