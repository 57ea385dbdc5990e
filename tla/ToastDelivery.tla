---------------------------- MODULE ToastDelivery ----------------------------
(***************************************************************************)
(* What the manager promises about every notification: its fate.  A        *)
(* notification is refused, dropped, silenced, or admitted to be shown at  *)
(* once or deferred.  Deferred ones form a line: they leave it by being    *)
(* shown, always the first in line, or by being given up, and the ones at  *)
(* the end of the line are given up first.  A fate once settled is final.  *)
(* A restart gives up every notification whose fate is not settled.        *)
(***************************************************************************)
EXTENDS Integers, Sequences

CONSTANTS
    Call,    \* the notifications, by the call that brings them
    Limit    \* how many of the line are never given up, but for a restart

VARIABLES fate, line

vars == <<fate, line>>

Settled == {"refused", "dropped", "silenced", "shown", "lost"}
Fates == Settled \cup {"open", "admitted", "deferring", "deferred"}

InLine(c) == \E i \in DOMAIN line : line[i] = c

TypeOK ==
    /\ fate \in [Call -> Fates]
    /\ line \in Seq(Call)
    /\ \A c \in Call : InLine(c) <=> fate[c] = "deferred"

Init ==
    /\ fate = [c \in Call |-> "open"]
    /\ line = <<>>

Judge(c, outcome) ==
    /\ fate[c] = "open"
    /\ fate' = [fate EXCEPT ![c] = outcome]
    /\ line' = line

Show(c) ==
    /\ fate[c] = "admitted"
    /\ fate' = [fate EXCEPT ![c] = "shown"]
    /\ line' = line

Defer(c) ==
    /\ fate[c] = "deferring"
    /\ fate' = [fate EXCEPT ![c] = "deferred"]
    /\ line' = Append(line, c)

ShowNext ==
    /\ line # <<>>
    /\ fate' = [fate EXCEPT ![Head(line)] = "shown"]
    /\ line' = Tail(line)

\* All but the first Limit in line are given up.
GiveUp ==
    /\ Len(line) > Limit
    /\ line' = SubSeq(line, 1, Limit)
    /\ fate' = [c \in Call |->
                  IF \E i \in (Limit + 1)..Len(line) : line[i] = c THEN "lost" ELSE fate[c]]

Crash(arrived) ==
    /\ line' = <<>>
    /\ \A c \in arrived : fate[c] = "open"
    /\ fate' = [c \in Call |->
                  IF c \in arrived \/ fate[c] \in {"admitted", "deferring", "deferred"}
                  THEN "lost" ELSE fate[c]]

Next ==
    \/ \E c \in Call, outcome \in {"refused", "dropped", "silenced", "admitted",
                                   "deferring"} : Judge(c, outcome)
    \/ \E c \in Call : Show(c) \/ Defer(c)
    \/ ShowNext
    \/ GiveUp
    \/ \E arrived \in SUBSET Call : Crash(arrived)

Spec == Init /\ [][Next]_vars
=============================================================================
