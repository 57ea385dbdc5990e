------------------------------- MODULE Intake --------------------------------
(***************************************************************************)
(* The way in of a Notify call, up to the decision: its icon is resolved,  *)
(* its fields are sanitised, the limiter is asked, and the notification is *)
(* built.  Clients choose the names they send; the limiter knows them by   *)
(* what is left of a name after the cut.                                   *)
(*                                                                         *)
(* Between the calls' locks nothing is shared but the limiter, so they are *)
(* taken one at a time, in the order in which they get its lock.           *)
(***************************************************************************)
EXTENDS RateLimiter, Validation, IconHints

CONSTANTS
    Calls,   \* the Notify calls clients may make
    First    \* bound: the call to begin with is one of these, and may be any

ASSUME CallsAssumption ==
    \A c \in Calls \cup First :
        /\ c.app_name \in Text /\ c.summary \in Text /\ c.body \in Text
        /\ c.app_icon \in Text /\ c.actions \in Seq(Text)
        /\ \A key \in DOMAIN c.hints :
              /\ c.hints[key].kind = "text" => c.hints[key].text \in Text
              /\ c.hints[key].kind = "image" =>
                     /\ c.hints[key].image \in ImageType
                     /\ DataUri(c.hints[key].image) \in Text \ {<<>>}
ASSUME AppAssumption ==
    \A c \in Calls \cup First : Truncate(c.app_name, MAX_APP_NAME) \in App
ASSUME NameFitsSummary == MAX_APP_NAME <= MAX_SUMMARY
\* Room for any character, so that a name is not cut to nothing (the code has 1 MB).
ASSUME IconOfACharacter == MAX_ICON_LEN >= 4

VARIABLES
    call,    \* the call in hand,
    pc,      \*   before or after the limiter's answer,
    built,   \*   and the notification made of it, if any
    from     \* history: the name in the call of each admission

intakeVars == <<vars, call, pc, built, from>>

Nothing == {}

IntakeInit ==
    /\ Init
    /\ call \in First
    /\ pc = "in"
    /\ built = Nothing
    /\ from = <<>>

Notify(c) ==
    /\ pc = "out"
    /\ call' = c
    /\ pc' = "in"
    /\ built' = Nothing
    /\ UNCHANGED <<vars, from>>

Sanitized ==
    SanitizeInput(call.app_name, call.summary, call.body,
                  ResolveIcon(call.hints, call.app_icon), call.actions)

\* The limiter asked before the name is cut.
Sender_AsSent == call.app_name

\* What the limiter is asked about.
Sender == Sanitized.app_name

Accept ==
    /\ pc = "in"
    /\ Admit(Sender)
    /\ built' = {[Sanitized EXCEPT !.actions = Pairs(@)]}
    /\ from' = Append(from, call.app_name)
    /\ pc' = "out"
    /\ call' = call

\* notify answers 0.
Reject ==
    /\ pc = "in"
    /\ Refuse(Sender)
    /\ pc' = "out"
    /\ UNCHANGED <<call, built, from>>

TimePasses ==
    /\ pc = "out"
    /\ Tick
    /\ UNCHANGED <<call, pc, built, from>>

IntakeNext == Accept \/ Reject \/ TimePasses \/ \E c \in Calls : Notify(c)

IntakeSpec == IntakeInit /\ [][IntakeNext]_intakeVars

-----------------------------------------------------------------------------
(* Properties *)

\* However a client varies the part of its name that is cut off, what reaches the
\* shell under one name keeps the limit of one app.
SenderBound ==
    LET shown == [n \in 1..Len(from) |-> Truncate(from[n], MAX_APP_NAME)] IN
    \A t \in 0..now, app \in App :
        Cardinality({n \in Window(t) : shown[n] = app}) <= PER_APP_LIMIT

\* "Truncates oversized fields", "at char boundary": what is left of a name, and of a
\* text without markup, is as much of it as fits; the summary that stands in for a
\* missing one fits, too; and what is made of markup grows by the longest references
\* at most, however it is cut.
LongestPrefix(cut, s, max) ==
    /\ Len(cut) <= Len(s) /\ cut = SubSeq(s, 1, Len(cut))
    /\ Bytes(cut) <= max
    /\ cut # s => Bytes(SubSeq(s, 1, Len(cut) + 1)) > max
Plain(s) == \A i \in 1..Len(s) : s[i] \notin Markup
FieldsFit ==
    \A n \in built :
        /\ LongestPrefix(n.app_name, call.app_name, MAX_APP_NAME)
        /\ Plain(call.body) => LongestPrefix(n.body, call.body, MAX_BODY)
        /\ Plain(call.summary) /\ call.summary # <<>> =>
              LongestPrefix(n.summary, call.summary, MAX_SUMMARY)
        /\ call.summary = <<>> => Bytes(n.summary) <= MAX_SUMMARY
        /\ AtMostAFifthLonger(Bytes(n.body), MAX_BODY)
        /\ AtMostAFifthLonger(Bytes(n.summary), MAX_SUMMARY)
        /\ Bytes(n.app_icon) <= MAX_ICON_LEN

\* "Strip output is always <= input length", so that to truncate and then strip
\* "cannot overflow the per-field byte cap".
CapsHold ==
    \A n \in built : Bytes(n.summary) <= MAX_SUMMARY /\ Bytes(n.body) <= MAX_BODY

\* A key keeps its own label, however many entries were sent: the pairs are the
\* first of those the client meant, and no complete one is lost but to the limit.
PairsAligned ==
    \A n \in built :
        /\ \A i \in 1..Len(n.actions) :
              n.actions[i] = <<call.actions[2*i - 1], call.actions[2*i]>>
        /\ 2 * Len(n.actions) <= MAX_ACTIONS
        /\ \A i \in 1..Len(call.actions) :
              2*i <= Len(call.actions) /\ 2*i <= MAX_ACTIONS => i <= Len(n.actions)

\* An image is decoded exactly if every byte the packing loop reads was sent:
\* short data is refused, and a last row without padding is not.
Readable(image) ==
    \A row \in 0..(image.height - 1), col \in 0..(image.width - 1) :
        \A k \in BytesOfPixel(image) : ByteRead(image, row, col, k) \in 0..(image.data - 1)
DecodesReadable ==
    \A key \in DOMAIN call.hints :
        LET image == call.hints[key].image IN
        call.hints[key].kind = "image" /\ WellFormed(image) =>
            (Decodes(image) <=> Readable(image))

\* "image-data > image-path > app_icon", and "on any decode error the next priority
\* source is tried": a usable source, under its older name where the newer is not sent,
\* is lost only to a stronger one, and no icon comes of it only if none was sent.
Usable(key, kind) ==
    /\ key \in DOMAIN call.hints /\ call.hints[key].kind = kind
    /\ IF kind = "image" THEN Decodes(call.hints[key].image) ELSE call.hints[key].text # <<>>
FromPixels(icon) ==
    \E key \in {"image-data", "image_data"} :
        Usable(key, "image") /\ icon = Truncate(DataUri(call.hints[key].image), MAX_ICON_LEN)
FromPath(key, icon) ==
    icon = Truncate(call.hints[key].text, MAX_ICON_LEN) \/ FromPixels(icon)
StrongestIcon ==
    \A n \in built :
        /\ Usable("image-data", "image") => FromPixels(n.app_icon)
        /\ "image-data" \notin DOMAIN call.hints /\ Usable("image_data", "image") =>
              FromPixels(n.app_icon)
        /\ Usable("image-path", "text") => FromPath("image-path", n.app_icon)
        /\ "image-path" \notin DOMAIN call.hints /\ Usable("image_path", "text") =>
              FromPath("image_path", n.app_icon)
        /\ n.app_icon = <<>> => call.app_icon = <<>>
=============================================================================
