--------------------------- MODULE DndStateProofs ---------------------------
(***************************************************************************)
(* Theorems about the Do-Not-Disturb decision, for every set of apps and   *)
(* every configuration and focus list over it.                             *)
(***************************************************************************)
EXTENDS DndState, FiniteSetTheorems, TLAPS

\* The DND machine keeps its types.
THEOREM DndTypeOK == Spec => []TypeOK
<1>1. Init => TypeOK
  BY HorizonAssumption DEF Init, TypeOK, DefaultDndState, DndStates, InactiveFocus, FocusStates
<1>2. TypeOK /\ [Next]_vars => TypeOK'
  <2> SUFFICES ASSUME TypeOK, [Next]_vars PROVE TypeOK'
    OBVIOUS
  <2>1. ASSUME NEW active \in BOOLEAN, SetFullscreen(active) PROVE TypeOK'
    BY <2>1 DEF TypeOK, SetFullscreen, DndStates
  <2>2. ASSUME NEW apps \in FocusLists, ActivateFocus(apps) PROVE TypeOK'
    <3>1. {Lower[a] : a \in apps} \subseteq {Lower[a] : a \in App}
      BY FocusListsAssumption
    <3>2. {Lower[a] : a \in App} \subseteq App
      BY LowerAssumption
    <3>3. ActivatedFocus(apps) \in FocusStates
      BY <3>1, <3>2 DEF ActivatedFocus, FocusStates
    <3>4. QED  BY <2>2, <3>1, <3>3 DEF TypeOK, ActivateFocus, ActivatedFocus, DndStates
  <2>3. CASE DeactivateFocus
    BY <2>3 DEF TypeOK, DeactivateFocus, InactiveFocus, DndStates, FocusStates
  <2>4. ASSUME NEW new \in Configs, ReloadConfig(new) PROVE TypeOK'
    BY <2>4 DEF TypeOK, ReloadConfig
  <2>5. CASE Tick
    BY <2>5, HorizonAssumption DEF TypeOK, Tick
  <2>6. CASE UNCHANGED vars
    BY <2>6 DEF TypeOK, vars
  <2>7. QED  BY <2>1, <2>2, <2>3, <2>4, <2>5, <2>6 DEF Next
<1>3. QED  BY <1>1, <1>2, PTL DEF Spec

\* A step changes the fullscreen flag or the focus session, not both, and with
\* neither the configuration nor the time.
LEMMA OneInput ==
    ASSUME TypeOK, [Next]_vars
    PROVE  /\ \/ dnd_state'.fullscreen_active = dnd_state.fullscreen_active
              \/ /\ dnd_state'.focus = dnd_state.focus
                 /\ UNCHANGED <<config, now>>
           /\ \/ dnd_state'.focus = dnd_state.focus
              \/ /\ dnd_state'.fullscreen_active = dnd_state.fullscreen_active
                 /\ UNCHANGED <<config, now>>
<1>1. ASSUME NEW active \in BOOLEAN, SetFullscreen(active)
      PROVE  dnd_state'.focus = dnd_state.focus /\ UNCHANGED <<config, now>>
  BY <1>1 DEF TypeOK, SetFullscreen, DndStates
<1>2. ASSUME NEW apps \in FocusLists, ActivateFocus(apps)
      PROVE  /\ dnd_state'.fullscreen_active = dnd_state.fullscreen_active
             /\ UNCHANGED <<config, now>>
  BY <1>2 DEF TypeOK, ActivateFocus, DndStates
<1>3. ASSUME DeactivateFocus
      PROVE  /\ dnd_state'.fullscreen_active = dnd_state.fullscreen_active
             /\ UNCHANGED <<config, now>>
  BY <1>3 DEF TypeOK, DeactivateFocus, DndStates
<1>4. ASSUME \/ \E new \in Configs : ReloadConfig(new)
             \/ Tick
             \/ UNCHANGED vars
      PROVE  dnd_state' = dnd_state
  BY <1>4 DEF ReloadConfig, Tick, vars
<1>5. QED  BY <1>1, <1>2, <1>3, <1>4 DEF Next

\* Entering and leaving fullscreen moves notifications only between "show" and
\* "defer".
THEOREM DndFullscreenOnlyDefers == Spec => FullscreenOnlyDefers
<1>1. ASSUME TypeOK, [Next]_vars,
             dnd_state'.fullscreen_active # dnd_state.fullscreen_active,
             NEW n \in Notifications, Verdict(n)' # Verdict(n)
      PROVE  {Verdict(n), Verdict(n)'} = {"Allow", "Queue"}
  <2>1. dnd_state'.focus = dnd_state.focus /\ config' = config /\ now' = now
    BY <1>1, OneInput
  <2> DEFINE mode == EffectiveMode(config.dnd, now)
             override == config.apps[n.app]
  <2>2. EffectiveMode(config'.dnd, now') = mode /\ config'.apps[n.app] = override
    BY <2>1
  <2> HIDE DEF mode, override
  <2>3. CheckFullscreen(dnd_state, config.dnd) \in {"Allow", "Queue"}
        /\ CheckFullscreen(dnd_state', config'.dnd) \in {"Allow", "Queue"}
    BY DEF CheckFullscreen
  <2>4. IsSuppressed(dnd_state'.focus, n.app) = IsSuppressed(dnd_state.focus, n.app)
    BY <2>1
  <2>5. Verdict(n) \in {"Allow", "Queue"} /\ Verdict(n)' \in {"Allow", "Queue"}
    BY <1>1, <2>1, <2>2, <2>3, <2>4
       DEF Verdict, ShouldSuppress, CheckFocusThenFullscreen, Privileged, AllowedByMode,
           mode, override
  <2>6. QED  BY <1>1, <2>5
<1>2. TypeOK /\ [Next]_vars =>
        [dnd_state'.fullscreen_active # dnd_state.fullscreen_active =>
          \A n \in Notifications :
              Verdict(n)' # Verdict(n) => {Verdict(n), Verdict(n)'} = {"Allow", "Queue"}]_vars
  BY <1>1
<1>3. QED  BY <1>2, DndTypeOK, PTL DEF Spec, FullscreenOnlyDefers

\* A focus session that starts silences what would have been shown or deferred,
\* Critical excepted, and changes nothing else.
THEOREM DndFocusOnlyDemotes == Spec => FocusOnlyDemotes
<1>1. ASSUME TypeOK, [Next]_vars,
             dnd_state'.focus.active, ~dnd_state.focus.active,
             NEW n \in Notifications, Verdict(n)' # Verdict(n)
      PROVE  /\ Verdict(n)' = "Suppress"
             /\ Verdict(n) \in {"Allow", "Queue"}
             /\ n.priority # "Critical"
  <2>1. /\ dnd_state'.fullscreen_active = dnd_state.fullscreen_active
        /\ config' = config /\ now' = now
    BY <1>1, OneInput
  <2> DEFINE mode == EffectiveMode(config.dnd, now)
             override == config.apps[n.app]
  <2>2. EffectiveMode(config'.dnd, now') = mode /\ config'.apps[n.app] = override
    BY <2>1
  <2> HIDE DEF mode, override
  <2>3. /\ CheckFullscreen(dnd_state', config'.dnd) = CheckFullscreen(dnd_state, config.dnd)
        /\ CheckFullscreen(dnd_state, config.dnd) \in {"Allow", "Queue"}
    BY <2>1 DEF CheckFullscreen
  <2>4. ~IsSuppressed(dnd_state.focus, n.app)
    BY <1>1 DEF IsSuppressed
  <2>5. QED
    BY <1>1, <2>1, <2>2, <2>3, <2>4
       DEF Verdict, ShouldSuppress, CheckFocusThenFullscreen, Privileged, AllowedByMode,
           mode, override
<1>2. TypeOK /\ [Next]_vars =>
        [dnd_state'.focus.active /\ ~dnd_state.focus.active =>
          \A n \in Notifications :
              Verdict(n)' # Verdict(n) =>
                  /\ Verdict(n)' = "Suppress"
                  /\ Verdict(n) \in {"Allow", "Queue"}
                  /\ n.priority # "Critical"]_vars
  BY <1>1
<1>3. QED  BY <1>2, DndTypeOK, PTL DEF Spec, FocusOnlyDemotes

\* Time does not run backwards, so a mode that has expired stays off until the
\* configuration changes.
THEOREM DndExpiryIsFinal == Spec => ExpiryIsFinal
<1>1. ASSUME TypeOK, [Next]_vars, IsExpired(config.dnd, now), config' = config
      PROVE  EffectiveMode(config'.dnd, now') = "Off"
  <2>1. now \in Int /\ now' \in Int /\ now <= now'
    BY <1>1, HorizonAssumption
       DEF TypeOK, Next, SetFullscreen, ActivateFocus, DeactivateFocus, ReloadConfig, Tick, vars
  <2>2. config.dnd.expires_at \in SUBSET Int
    BY <1>1, ConfigsAssumption DEF TypeOK, DndConfigs
  <2>3. IsExpired(config'.dnd, now')
    BY <1>1, <2>1, <2>2 DEF IsExpired
  <2>4. QED  BY <2>3 DEF EffectiveMode
<1>2. TypeOK /\ [Next]_vars =>
        [IsExpired(config.dnd, now) /\ config' = config =>
          EffectiveMode(config.dnd, now)' = "Off"]_vars
  BY <1>1
<1>3. QED  BY <1>2, DndTypeOK, PTL DEF Spec, ExpiryIsFinal

\* Whatever the state, an app that is allow-listed or has a bypass of its own, and is
\* not silenced by name, is never silenced by a mode or by focus.
THEOREM DndBypass == Spec => []BypassNeverSilenced
<1>1. ASSUME NEW n \in Notifications,
             n.app \in config.dnd.always_allow \/ "bypass_dnd" \in config.apps[n.app],
             n.app \notin config.dnd.always_suppress,
             config.apps[n.app] \cap {"blocked", "suppress"} = {}
      PROVE  Verdict(n) \in {"Allow", "Queue"}
  BY <1>1 DEF Verdict, ShouldSuppress, CheckFocusThenFullscreen, CheckFullscreen, Privileged
<1>2. BypassNeverSilenced
  BY <1>1 DEF BypassNeverSilenced
<1>3. QED  BY <1>2, PTL

-----------------------------------------------------------------------------
(* The length of a window *)

\* What the remainder is within a day of zero.
LEMMA WithinADay ==
    ASSUME NEW n \in Nat \ {0}
    PROVE  /\ \A x \in 0..(n - 1) : x % n = x
           /\ \A x \in 1..(n - 1) : (-x) % n = n - x
OBVIOUS

\* A window is in force from its start up to its end, over midnight too.
LEMMA WindowLengthOf ==
    ASSUME NEW start \in TimesOfDay, NEW end \in TimesOfDay
    PROVE  Cardinality({t \in TimesOfDay : InWindow(start, end, t)})
               = (end - start) % DayLength
<1> DEFINE window == {t \in TimesOfDay : InWindow(start, end, t)}
<1>1. DayLength \in Nat \ {0} /\ start \in Nat /\ end \in Nat
      /\ start < DayLength /\ end < DayLength
  BY DayLengthAssumption DEF TimesOfDay
<1>2. CASE start <= end
  <2>1. window = start..(end - 1)
    BY <1>1, <1>2 DEF InWindow, TimesOfDay
  <2>2. Cardinality(start..(end - 1)) = end - start
    <3>1. start \in Int /\ end - 1 \in Int
      BY <1>1
    <3>2. Cardinality(start..(end - 1)) =
              IF start > end - 1 THEN 0 ELSE (end - 1) - start + 1
      BY <3>1, FS_Interval
    <3>3. QED  BY <1>1, <1>2, <3>2
  <2>3. (end - start) % DayLength = end - start
    <3>1. end - start \in 0..(DayLength - 1)
      BY <1>1, <1>2
    <3>2. QED  BY <1>1, <3>1, WithinADay
  <2>4. QED  BY <2>1, <2>2, <2>3
<1>3. CASE start > end
  <2>1. window = (0..(end - 1)) \cup (start..(DayLength - 1))
    BY <1>1, <1>3 DEF InWindow, TimesOfDay
  <2>2. /\ IsFiniteSet(0..(end - 1)) /\ Cardinality(0..(end - 1)) = end
        /\ IsFiniteSet(start..(DayLength - 1))
        /\ Cardinality(start..(DayLength - 1)) = DayLength - start
    <3>1. 0 \in Int /\ end - 1 \in Int /\ start \in Int /\ DayLength - 1 \in Int
      BY <1>1
    <3>2. /\ IsFiniteSet(0..(end - 1))
          /\ Cardinality(0..(end - 1)) = IF 0 > end - 1 THEN 0 ELSE (end - 1) - 0 + 1
      BY <3>1, FS_Interval
    <3>3. /\ IsFiniteSet(start..(DayLength - 1))
          /\ Cardinality(start..(DayLength - 1)) =
                 IF start > DayLength - 1 THEN 0 ELSE (DayLength - 1) - start + 1
      BY <3>1, FS_Interval
    <3>4. QED  BY <1>1, <3>2, <3>3
  <2>3. (0..(end - 1)) \cap (start..(DayLength - 1)) = {}
    BY <1>1, <1>3
  <2>4. Cardinality((0..(end - 1)) \cup (start..(DayLength - 1))) = end + (DayLength - start)
    <3> DEFINE evening == start..(DayLength - 1)
               morning == 0..(end - 1)
    <3> HIDE DEF evening, morning
    <3>1. IsFiniteSet(morning) /\ IsFiniteSet(evening) /\ morning \cap evening = {}
      BY <2>2, <2>3 DEF morning, evening
    <3>2. Cardinality(morning \cup evening) =
              Cardinality(morning) + Cardinality(evening) - Cardinality(morning \cap evening)
      BY <3>1, FS_Union
    <3>3. Cardinality(morning \cap evening) = 0
      BY <3>1, FS_EmptySet
    <3>4. Cardinality(morning) = end /\ Cardinality(evening) = DayLength - start
      BY <2>2 DEF morning, evening
    <3>5. Cardinality(morning \cup evening) = end + (DayLength - start)
      BY <1>1, <3>2, <3>3, <3>4
    <3>6. QED  BY <3>5 DEF morning, evening
  <2>5. (end - start) % DayLength = end + (DayLength - start)
    <3>1. start - end \in 1..(DayLength - 1)
      BY <1>1, <1>3
    <3>2. (-(start - end)) % DayLength = DayLength - (start - end)
      BY <1>1, <3>1, WithinADay
    <3>3. -(start - end) = end - start /\ DayLength - (start - end) = end + (DayLength - start)
      BY <1>1
    <3>4. QED  BY <3>2, <3>3
  <2>6. QED  BY <2>1, <2>4, <2>5
<1>4. QED  BY <1>1, <1>2, <1>3

\* For every configuration, a window is in force for as long as from its start to
\* its end, midnight or not.
THEOREM DndWindowLength == Spec => []WindowLength
<1>1. TypeOK => WindowLength
  <2> SUFFICES ASSUME TypeOK,
                      NEW start \in config.dnd.schedule.start,
                      NEW end \in config.dnd.schedule.end
               PROVE  Cardinality({t \in TimesOfDay : InWindow(start, end, t)})
                          = (end - start) % DayLength
    BY DEF WindowLength
  <2>1. config.dnd \in DndConfigs
    BY ConfigsAssumption DEF TypeOK
  <2>2. start \in TimesOfDay /\ end \in TimesOfDay
    BY <2>1 DEF DndConfigs
  <2>3. QED  BY <2>2, WindowLengthOf
<1>2. QED  BY <1>1, DndTypeOK, PTL
=============================================================================
