------------------------------ MODULE DndPolicy ------------------------------
(***************************************************************************)
(* The decision the daemon takes on every notification: its priority, the  *)
(* Do-Not-Disturb mode in force, and whether to show, defer, silence or    *)
(* drop it.  Everything here is a pure function of the notification, the   *)
(* configuration, the runtime DND state and the time.                      *)
(*                                                                         *)
(* Data abstractions:                                                      *)
(*  - an optional value that is absent or does not parse is the empty set, *)
(*    and a present one a singleton (expires_at, schedule.start and .end): *)
(*    the code treats "absent" and "unparsable" alike in all three;        *)
(*  - a per-app override is the set of the flags it switches on, "blocked" *)
(*    standing for enabled = Some(false);                                  *)
(*  - a category stands for all strings the code treats like it;           *)
(*  - time counts the ticks since a Monday 00:00, DayLength ticks a day.   *)
(***************************************************************************)
EXTENDS Integers

CONSTANTS
    App,         \* application names
    Lower,       \* to_lowercase on application names, [App -> App]
    DayLength    \* ticks per day (1440 minutes in the code)

ASSUME LowerAssumption == Lower \in [App -> App]
ASSUME DayLengthAssumption == DayLength \in Nat \ {0}

Verdicts == {"Allow", "Suppress", "Queue", "Drop"}
DndModes == {"Off", "Priority", "Alarms", "Total", "Scheduled"}
EffectiveModes == DndModes \ {"Scheduled"}
Priorities == {"Low", "Normal", "High", "Critical"}
OverrideFlags == {"blocked", "suppress", "bypass_dnd"}

\* What parse_time accepts.
TimesOfDay == 0..(DayLength - 1)

DndConfigs == [mode : DndModes, expires_at : SUBSET Int,
               schedule : [start : SUBSET TimesOfDay, end : SUBSET TimesOfDay,
                           days : SUBSET Nat, mode : EffectiveModes \ {"Off"}],
               always_suppress : SUBSET App, always_allow : SUBSET App,
               suppress_fullscreen : BOOLEAN]

HighCategories == {"im", "email", "presence.online", "device.error", "network.error"}
AlarmCategories == {"alarm", "x-alarm", "reminder", "x-reminder"}
Categories == HighCategories \cup AlarmCategories \cup {"other"}

(***************************************************************************)
(* Priority of a notification from its D-Bus hints.                        *)
(***************************************************************************)
DeterminePriority(urgency, expire_timeout, category) ==
    IF urgency >= 2 \/ expire_timeout = 0 THEN "Critical"
    ELSE IF urgency = 0 THEN "Low"
    ELSE IF category \in HighCategories THEN "High" ELSE "Normal"

(***************************************************************************)
(* The weekly schedule and the expiry of the configured mode.              *)
(***************************************************************************)
Weekday(now) == (now \div DayLength) % 7
TimeOfDay(now) == now % DayLength

\* A window that takes the overnight branch for start = end as well.
InWindow_EqualWraps(start, end, t) ==
    IF start < end THEN start <= t /\ t < end
                   ELSE start <= t \/ t < end

InWindow(start, end, t) ==
    IF start <= end THEN start <= t /\ t < end
                    ELSE start <= t \/ t < end

InSchedule(schedule, now) ==
    /\ schedule.days = {} \/ Weekday(now) \in schedule.days
    /\ \E start \in schedule.start, end \in schedule.end :
           InWindow(start, end, TimeOfDay(now))

\* An expiry test that compares the wrong way round.
IsExpired_Inverted(dnd, now) == \E ts \in dnd.expires_at : ts >= now

IsExpired(dnd, now) == \E ts \in dnd.expires_at : ts <= now

EffectiveMode(dnd, now) ==
    IF IsExpired(dnd, now) THEN "Off"
    ELSE IF dnd.mode # "Scheduled" THEN dnd.mode
    ELSE IF InSchedule(dnd.schedule, now) THEN dnd.schedule.mode ELSE "Off"

(***************************************************************************)
(* Focus Mode: a project is focused and a list of apps is silenced.  The   *)
(* list is kept in lower case and matched case-insensitively, unlike the   *)
(* allow and suppress lists of the configuration, which match exactly.     *)
(***************************************************************************)
FocusStates == [active : BOOLEAN, suppressed_apps : SUBSET App]

\* Activation that keeps the case of the names it is given.
ActivatedFocus_KeepsCase(apps) == [active |-> TRUE, suppressed_apps |-> apps]

ActivatedFocus(apps) == [active |-> TRUE, suppressed_apps |-> {Lower[a] : a \in apps}]
InactiveFocus == [active |-> FALSE, suppressed_apps |-> {}]

IsSuppressed(focus, app) == focus.active /\ Lower[app] \in focus.suppressed_apps

(***************************************************************************)
(* The runtime DND state, and the verdict: the first rule that matches.    *)
(***************************************************************************)
DndStates == [fullscreen_active : BOOLEAN, focus : FocusStates]
DefaultDndState == [fullscreen_active |-> FALSE, focus |-> InactiveFocus]

\* A fullscreen check that silences instead of deferring.
CheckFullscreen_Hides(state, dnd) ==
    IF dnd.suppress_fullscreen /\ state.fullscreen_active THEN "Suppress" ELSE "Allow"

CheckFullscreen(state, dnd) ==
    IF dnd.suppress_fullscreen /\ state.fullscreen_active THEN "Queue" ELSE "Allow"

AllowedByMode(n, mode) ==
    \/ mode = "Off"
    \/ mode = "Priority" /\ n.priority = "Critical"
    \/ mode = "Alarms" /\ n.category \in AlarmCategories

\* The allow list and the per-app bypass, read as one condition.
Privileged_Both(n, dnd, override) ==
    n.app \in dnd.always_allow /\ "bypass_dnd" \in override

\* Rules 4 and 5: the app bypasses modes and focus.
Privileged(n, dnd, override) ==
    n.app \in dnd.always_allow \/ "bypass_dnd" \in override

\* Rules 7 and 8 applied to every priority.
CheckFocusThenFullscreen_AnyPriority(state, n, dnd) ==
    IF IsSuppressed(state.focus, n.app) THEN "Suppress" ELSE CheckFullscreen(state, dnd)

\* Rules 7 and 8: focus, then fullscreen, neither of which holds back Critical.
CheckFocusThenFullscreen(state, n, dnd) ==
    IF n.priority = "Critical" THEN "Allow"
    ELSE IF IsSuppressed(state.focus, n.app) THEN "Suppress"
    ELSE CheckFullscreen(state, dnd)

ShouldSuppress(state, n, dnd, override, now) ==
    LET mode == EffectiveMode(dnd, now) IN
    IF "blocked" \in override THEN "Drop"
    ELSE IF "suppress" \in override \/ n.app \in dnd.always_suppress THEN "Suppress"
    ELSE IF Privileged(n, dnd, override) THEN CheckFullscreen(state, dnd)
    ELSE IF ~AllowedByMode(n, mode)
      THEN IF mode = "Total" THEN "Drop" ELSE "Suppress"
    ELSE CheckFocusThenFullscreen(state, n, dnd)
=============================================================================
