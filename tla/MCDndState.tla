----------------------------- MODULE MCDndState -----------------------------
(* Three apps, two of which differ in case only, days of four ticks, and a   *)
(* handful of configurations that reach every rule of the decision.          *)
EXTENDS DndState

MCApp == {"Chat", "chat", "clock"}
MCLower == [a \in MCApp |-> IF a = "Chat" THEN "chat" ELSE a]
MCFocusLists == {{"Chat"}, {"clock", "chat"}, {}}

Nightly(start, end, days, mode) ==
    [start |-> start, end |-> end, days |-> days, mode |-> mode]
NoRules == [a \in MCApp |-> {}]

Dnd(mode, expires, schedule, suppress, allow, fullscreen) ==
    [mode |-> mode, expires_at |-> expires, schedule |-> schedule,
     always_suppress |-> suppress, always_allow |-> allow,
     suppress_fullscreen |-> fullscreen]

Night == Nightly({3}, {1}, {}, "Priority")

MCConfigs == {
    [dnd |-> Dnd("Off", {}, Night, {}, {}, TRUE), apps |-> NoRules],
    [dnd |-> Dnd("Off", {}, Nightly({2}, {2}, {}, "Total"), {}, {}, FALSE), apps |-> NoRules],
    [dnd |-> Dnd("Priority", {5}, Night, {"chat"}, {"clock"}, TRUE), apps |-> NoRules],
    [dnd |-> Dnd("Alarms", {}, Nightly({1}, {3}, {}, "Alarms"), {}, {"Chat"}, TRUE),
     apps |-> [NoRules EXCEPT !["clock"] = {"bypass_dnd"}]],
    [dnd |-> Dnd("Total", {}, Nightly({}, {3}, {}, "Alarms"), {}, {"Chat", "clock"}, TRUE),
     apps |-> [NoRules EXCEPT !["chat"] = {"suppress"}, !["clock"] = {"blocked"}]],
    [dnd |-> Dnd("Scheduled", {}, Nightly({3}, {1}, {0}, "Total"), {}, {"clock"}, TRUE),
     apps |-> NoRules],
    [dnd |-> Dnd("Scheduled", {6}, Nightly({1}, {0}, {0, 1}, "Priority"), {}, {}, TRUE),
     apps |-> [NoRules EXCEPT !["chat"] = {"suppress", "bypass_dnd"}]]}
=============================================================================
