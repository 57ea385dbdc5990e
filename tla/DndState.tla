------------------------------ MODULE DndState ------------------------------
(***************************************************************************)
(* How the verdict on a notification changes as the inputs of the decision *)
(* change under it: fullscreen windows and focus sessions come and go, the *)
(* configuration is reloaded, time passes.                                 *)
(***************************************************************************)
EXTENDS DndPolicy, FiniteSets

CONSTANTS
    Configs,     \* the configurations [dnd, apps] the file may hold
    FocusLists,  \* the suppress lists a focus session may carry
    Horizon      \* bound: time is explored up to this instant

ASSUME ConfigsAssumption ==
    Configs \subseteq [dnd : DndConfigs, apps : [App -> SUBSET OverrideFlags]]
ASSUME FocusListsAssumption == FocusLists \subseteq SUBSET App
ASSUME HorizonAssumption == Horizon \in Nat

VARIABLES config, dnd_state, now

vars == <<config, dnd_state, now>>

Notifications == [app : App, priority : Priorities, category : Categories]

\* The verdict on n in the current state.
Verdict(n) == ShouldSuppress(dnd_state, n, config.dnd, config.apps[n.app], now)

Init ==
    /\ config \in Configs
    /\ dnd_state = DefaultDndState
    /\ now = 0

SetFullscreen(active) ==
    /\ dnd_state' = [dnd_state EXCEPT !.fullscreen_active = active]
    /\ UNCHANGED <<config, now>>

ActivateFocus(apps) ==
    /\ dnd_state' = [dnd_state EXCEPT !.focus = ActivatedFocus(apps)]
    /\ UNCHANGED <<config, now>>

DeactivateFocus ==
    /\ dnd_state' = [dnd_state EXCEPT !.focus = InactiveFocus]
    /\ UNCHANGED <<config, now>>

ReloadConfig(new) ==
    /\ config' = new
    /\ UNCHANGED <<dnd_state, now>>

Tick ==
    /\ now < Horizon
    /\ now' = now + 1
    /\ UNCHANGED <<config, dnd_state>>

Next ==
    \/ \E active \in BOOLEAN : SetFullscreen(active)
    \/ \E apps \in FocusLists : ActivateFocus(apps)
    \/ DeactivateFocus
    \/ \E new \in Configs : ReloadConfig(new)
    \/ Tick

Spec == Init /\ [][Next]_vars

-----------------------------------------------------------------------------
(* Properties *)

\* Type correctness; the names a focus session silences are in lower case, as
\* the case-insensitive match of is_suppressed needs.
TypeOK ==
    /\ config \in Configs
    /\ dnd_state \in DndStates
    /\ dnd_state.focus.suppressed_apps \subseteq {Lower[a] : a \in App}
    /\ now \in 0..Horizon

\* Entering or leaving fullscreen only moves notifications between "show" and
\* "defer": whatever the other rules silence or drop stays silenced or dropped,
\* so a fullscreen exit releases exactly what the entry held back.
FullscreenOnlyDefers ==
    [][dnd_state'.fullscreen_active # dnd_state.fullscreen_active =>
          \A n \in Notifications :
              Verdict(n)' # Verdict(n) => {Verdict(n), Verdict(n)'} = {"Allow", "Queue"}]_vars

\* Starting a focus session only demotes what would have been shown or deferred,
\* to "store silently"; it never touches a Critical notification, and never
\* brings back or drops one ("demoted to Suppress (stored but no toast)").
FocusOnlyDemotes ==
    [][dnd_state'.focus.active /\ ~dnd_state.focus.active =>
          \A n \in Notifications :
              Verdict(n)' # Verdict(n) =>
                  /\ Verdict(n)' = "Suppress"
                  /\ Verdict(n) \in {"Allow", "Queue"}
                  /\ n.priority # "Critical"]_vars

\* A mode that has expired stays off while only time passes, whatever the
\* schedule says later.
ExpiryIsFinal ==
    [][IsExpired(config.dnd, now) /\ config' = config =>
          EffectiveMode(config.dnd, now)' = "Off"]_vars

\* A daily window from start to end is in force for exactly (end - start) mod a
\* day, whether it lies within a day, spans midnight, or is empty.
WindowLength ==
    \A start \in config.dnd.schedule.start, end \in config.dnd.schedule.end :
        Cardinality({t \in TimesOfDay : InWindow(start, end, t)})
            = (end - start) % DayLength

\* "bypasses ALL DND/focus regardless of mode": an app on the allow list, or with a
\* bypass of its own, is shown or (in fullscreen) deferred, unless it is blocked or
\* silenced by name.
BypassNeverSilenced ==
    \A n \in Notifications :
        /\ n.app \in config.dnd.always_allow \/ "bypass_dnd" \in config.apps[n.app]
        /\ n.app \notin config.dnd.always_suppress
        /\ config.apps[n.app] \cap {"blocked", "suppress"} = {}
        => Verdict(n) \in {"Allow", "Queue"}
=============================================================================
