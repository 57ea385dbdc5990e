------------------------------ MODULE Validation -----------------------------
(***************************************************************************)
(* The sanitising of a Notify call's fields.  A text is the sequence of    *)
(* its characters, each of one to four bytes; the limits are in bytes.     *)
(***************************************************************************)
EXTENDS Integers, Sequences

CONSTANTS
    Char,           \* characters
    Width,          \* their length in UTF-8
    Markup,         \* '<' and '&'
    Token,          \* what the HTML parser reads as one: tags, comments, elements that
                    \*   go with their content, character references
    Meaning,        \* the text each stands for: of a reference what it names, else none
    MAX_APP_NAME,   \* 50 bytes in the code
    MAX_SUMMARY,    \* 100
    MAX_BODY,       \* 64 KB
    MAX_ICON_LEN,   \* 1 MB
    MAX_ACTIONS     \* entries: 6, that is three pairs

ASSUME WidthAssumption == Width \in [Char -> 1..4]
ASSUME MaximaAssumption ==
    /\ MAX_APP_NAME \in Nat /\ MAX_SUMMARY \in Nat
    /\ MAX_BODY \in Nat /\ MAX_ICON_LEN \in Nat
    /\ MAX_ACTIONS \in Nat

Text == Seq(Char)

\* Where the characters end, in bytes: the char boundaries.
Ends(s) ==
    LET f[k \in 0..Len(s)] == IF k = 0 THEN 0 ELSE f[k - 1] + Width[s[k]]
    IN  [k \in 0..Len(s) |-> f[k]]
Bytes(s) == Ends(s)[Len(s)]

\* Of the references of HTML none names a text longer than itself by more than a fifth,
\* as "&nGt;" does: five bytes that stand for two characters of three.
AtMostAFifthLonger(new, old) == 5 * new <= 6 * old
ASSUME TokenAssumption ==
    /\ Token \subseteq Text \ {<<>>} /\ Meaning \in [Token -> Text]
    /\ \A t \in Token : AtMostAFifthLonger(Bytes(Meaning[t]), Bytes(t))

\* s[..b], which panics anywhere but at a boundary.
Slice(s, ends, b) == SubSeq(s, 1, CHOOSE k \in 0..Len(s) : ends[k] = b)

\* A cut that moves forward to the next boundary.
Truncate_Ahead(s, max) ==
    LET ends == Ends(s)
        end[e \in 0..ends[Len(s)]] ==
            IF \A k \in 0..Len(s) : ends[k] # e THEN end[e + 1] ELSE e
    IN  IF ends[Len(s)] <= max THEN s ELSE Slice(s, ends, end[max])

\* One that moves back.
Truncate(s, max) ==
    LET ends == Ends(s)
        end[e \in 0..max] ==
            IF e > 0 /\ \A k \in 0..Len(s) : ends[k] # e THEN end[e - 1] ELSE e
    IN  IF ends[Len(s)] <= max THEN s ELSE Slice(s, ends, end[max])

\* Of the tokens that begin with the k-th character, the length of the longest.
TokenAt(s, k) ==
    LET lengths == {n \in 1..(Len(s) - k + 1) : SubSeq(s, k, k + n - 1) \in Token}
    IN  IF lengths = {} THEN 0 ELSE CHOOSE n \in lengths : \A m \in lengths : m <= n

\* The parser at the k-th character: the text so far, and how many more characters
\* belong to the last token.
ReadOn(s, k, read) ==
    LET n == TokenAt(s, k) IN
    IF read.rest > 0 THEN [read EXCEPT !.rest = @ - 1]
    ELSE IF n = 0 THEN [text |-> Append(read.text, s[k]), rest |-> 0]
    ELSE [text |-> read.text \o Meaning[SubSeq(s, k, k + n - 1)], rest |-> n - 1]

\* ammonia, which drops the markup and decodes references, escapes what is left;
\* html_escape undoes that.  A text without '<' and '&' is not parsed.
StripMarkup(s) ==
    LET read[k \in 0..Len(s)] ==
            IF k = 0 THEN [text |-> <<>>, rest |-> 0] ELSE ReadOn(s, k, read[k - 1])
    IN  IF \A i \in 1..Len(s) : s[i] \notin Markup THEN s ELSE read[Len(s)].text

\* An odd list made even at its front.
SanitizeActions_DropFirst(raw) ==
    LET taken == SubSeq(raw, 1, IF Len(raw) < MAX_ACTIONS THEN Len(raw) ELSE MAX_ACTIONS)
    IN  IF Len(taken) % 2 # 0 THEN Tail(taken) ELSE taken

\* take(MAX_ACTIONS), then pop of an odd one
SanitizeActions(raw) ==
    LET taken == SubSeq(raw, 1, IF Len(raw) < MAX_ACTIONS THEN Len(raw) ELSE MAX_ACTIONS)
    IN  IF Len(taken) % 2 # 0 THEN SubSeq(taken, 1, Len(taken) - 1) ELSE taken

\* chunks(2), a last odd one left out
Pairs(actions) == [i \in 1..(Len(actions) \div 2) |-> <<actions[2*i - 1], actions[2*i]>>]

\* Without a summary, the name of the app, which is not stripped.
SummaryOf(app_name, summary) ==
    IF summary = <<>> THEN Truncate(app_name, MAX_APP_NAME)
    ELSE StripMarkup(Truncate(summary, MAX_SUMMARY))

SanitizeInput(app_name, summary, body, app_icon, actions) ==
    [app_name |-> Truncate(app_name, MAX_APP_NAME),
     summary  |-> SummaryOf(app_name, summary),
     body     |-> StripMarkup(Truncate(body, MAX_BODY)),
     app_icon |-> Truncate(app_icon, MAX_ICON_LEN),
     actions  |-> SanitizeActions(actions)]
=============================================================================
