------------------------ MODULE MCNotificationManager ------------------------
EXTENDS NotificationManager, TLC

MCApp == {"mail", "game"}
MCLower == [a \in MCApp |-> a]

Request(app, urgency, replaces) ==
    [app |-> app, urgency |-> urgency, expire_timeout |-> -1,
     category |-> "other", replaces_id |-> replaces]

Always == [start |-> {0}, end |-> {1}, days |-> {}, mode |-> "Priority"]

Config(mode, allow, fullscreen, enabled, max_age, max_count) ==
    [dnd |-> [mode |-> mode, expires_at |-> {}, schedule |-> Always,
              always_suppress |-> {}, always_allow |-> allow,
              suppress_fullscreen |-> fullscreen],
     apps |-> [a \in MCApp |-> {}],
     history |-> [enabled |-> enabled, max_age |-> max_age, max_count |-> max_count]]

\* Everything is shown or, in fullscreen, deferred; rows are kept for ever.
Keeping == Config("Off", {}, TRUE, TRUE, 0, 0)
\* The same with retention by age and by count.
Open == Config("Off", {}, TRUE, TRUE, 1, 1)
\* Only the mail client gets through; what else comes is dropped.
Closed_ == Config("Total", {"mail"}, TRUE, TRUE, 0, 1)
\* Critical gets through, and nothing is kept.
Forgetful == Config("Priority", {}, TRUE, FALSE, 1, 1)
Fresh == {Request("mail", 1, 0)}
WithCritical == {Request("mail", 1, 0), Request("game", 2, 0)}
Replacing == {Request("mail", 1, 0), Request("mail", 1, 1)}

KeepingOnly == {Keeping}
OpenOnly == {Open}
ClosedAndForgetful == {Closed_, Forgetful}

NoFocus == {}
FocusOnMail == {{"mail"}}

CallSymmetry == Permutations(Call)
=============================================================================
