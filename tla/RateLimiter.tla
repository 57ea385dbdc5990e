----------------------------- MODULE RateLimiter -----------------------------
(***************************************************************************)
(* The sliding-window limiter every Notify call passes.  It is behind a    *)
(* lock, so a check is one step.  The vectors of admission instants are    *)
(* the sets of the admissions they hold, numbered in order: at and by      *)
(* record when and for whom each was made, and outlive the pruning.  An    *)
(* app without an entry in the map is one with no admissions.              *)
(***************************************************************************)
EXTENDS Integers, Sequences, FiniteSets

CONSTANTS
    App,            \* application names
    PER_APP_LIMIT,  \* admissions per app and window (10 in the code)
    GLOBAL_LIMIT,   \* admissions per window (50 in the code)
    WINDOW,         \* length of the window in ticks (one second in the code)
    Horizon         \* bound: the clock is explored up to this instant

ASSUME LimitsAssumption ==
    PER_APP_LIMIT \in Nat /\ GLOBAL_LIMIT \in Nat /\ WINDOW \in Nat \ {0}
ASSUME HorizonAssumption == Horizon \in Nat

VARIABLES now, per_app, global, at, by

vars == <<now, per_app, global, at, by>>

\* A window one tick shorter than WINDOW.
Live_TooShort(n) == at[n] > now - WINDOW + 1

\* A window that keeps the instant exactly WINDOW ago.
Live_TooLong(n) == at[n] >= now - WINDOW

\* retain(|t| *t > now - WINDOW)
Live(n) == at[n] > now - WINDOW

Prune(admissions) == {n \in admissions : Live(n)}

HasRoom(app) ==
    /\ Cardinality(Prune(global)) < GLOBAL_LIMIT
    /\ Cardinality(Prune(per_app[app])) < PER_APP_LIMIT

\* Whether the times of a record an admission of app.
Charged(a, app) == a = app

Init ==
    /\ now = 0
    /\ per_app = [a \in App |-> {}]
    /\ global = {}
    /\ at = <<>>
    /\ by = <<>>

\* check(app) = true
Admit(app) ==
    LET new == Len(at) + 1 IN
    /\ HasRoom(app)
    /\ at' = Append(at, now)
    /\ by' = Append(by, app)
    /\ global' = Prune(global) \cup {new}
    /\ per_app' = [a \in App |->
                     Prune(per_app[a]) \cup IF Charged(a, app) THEN {new} ELSE {}]
    /\ now' = now

\* check(app) = false: nothing is recorded, but the pruning is done.
Refuse(app) ==
    /\ ~HasRoom(app)
    /\ global' = Prune(global)
    /\ per_app' = [a \in App |-> Prune(per_app[a])]
    /\ UNCHANGED <<now, at, by>>

Tick ==
    /\ now < Horizon
    /\ now' = now + 1
    /\ UNCHANGED <<per_app, global, at, by>>

Next ==
    \/ \E app \in App : Admit(app) \/ Refuse(app)
    \/ Tick

Spec == Init /\ [][Next]_vars

-----------------------------------------------------------------------------
(* Properties *)

\* Type correctness; what the limiter remembers are admissions it made, under
\* the app it made them for.
TypeOK ==
    /\ now \in Nat
    /\ at \in Seq(Nat)
    /\ by \in Seq(App)
    /\ Len(by) = Len(at)
    /\ global \subseteq 1..Len(at)
    /\ per_app \in [App -> SUBSET (1..Len(at))]
    /\ \A a \in App : \A n \in per_app[a] : by[n] = a

\* The admissions in the window that ends at t.
Window(t) == {n \in 1..Len(at) : t - WINDOW < at[n] /\ at[n] <= t}

\* Whatever the bursts and pauses, no window of length WINDOW, wherever it is
\* placed, holds more than GLOBAL_LIMIT admissions ("max 50 per second").
GlobalBound == \A t \in 0..now : Cardinality(Window(t)) <= GLOBAL_LIMIT

\* Nor more than PER_APP_LIMIT admissions of one app ("max 10 per second").
PerAppBound ==
    \A t \in 0..now, a \in App :
        Cardinality({n \in Window(t) : by[n] = a}) <= PER_APP_LIMIT

\* A call is refused only if the window ending now is full, for its app or in
\* all: refused calls are not held against an app, so it recovers by itself.
RefusalJustified ==
    [][\A app \in App : Refuse(app) =>
          \/ Cardinality(Window(now)) >= GLOBAL_LIMIT
          \/ Cardinality({n \in Window(now) : by[n] = app}) >= PER_APP_LIMIT]_vars
=============================================================================
