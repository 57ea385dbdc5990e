------------------------------- MODULE MCIntake ------------------------------
(* Characters of one, two and three bytes and two of markup.  The first call *)
(* has any body, plain or marked up, any list of actions, any image, or any  *)
(* set of hints; among the later ones are two whose names differ only behind *)
(* the cut.                                                                  *)
EXTENDS Intake, TLC

MCWidth == [c \in Char |-> IF c = "e" THEN 2 ELSE IF c = "k" THEN 3 ELSE 1]
\* A tag, "&lt", and a reference like "&nGt;".
Tag == <<"<">>
Lt == <<"&", "a">>
Greater == <<"&", "a", "a", "a", "a">>
MCToken == {Tag, Lt, Greater}
MCMeaning == (Tag :> <<>>) @@ (Lt :> Tag) @@ (Greater :> <<"k", "k">>)

MCDataUri(image) == <<"a", "a", "a", "a", "a">>

NoHints == [key \in {} |-> Other]
Call(name) == [app_name |-> name, summary |-> <<>>, body |-> <<"<", "a", "e", "k", "a">>,
                app_icon |-> <<"a">>, actions |-> <<>>, hints |-> NoHints]

MCCalls == {Call(<<"a", "k", "a">>), Call(<<"a", "k", "e">>), Call(<<"e">>)}

AnyText == {[Call(<<"e">>) EXCEPT !.body = body, !.summary = summary] :
            body \in UNION {[1..n -> {"a", "e", "k"}] : n \in 0..4},
            summary \in {<<>>, <<"<", "k", "k">>}}
Pieces == {<<>>, Tag, Lt, Greater, <<"a">>, <<"k">>}
MarkedUp == {[Call(<<"e">>) EXCEPT !.body = p \o q \o r, !.summary = q \o r] :
             p \in Pieces, q \in Pieces, r \in Pieces}
AnyActions == {[Call(<<"e">>) EXCEPT !.actions = [i \in 1..n |-> [j \in 1..i |-> "a"]]] :
               n \in 0..7}

Sent(keys, image) == [Call(<<"e">>) EXCEPT !.hints = [key \in keys |-> AnImage(image)]]
Rgb(w, h, stride, data) ==
    [width |-> w, height |-> h, rowstride |-> stride, has_alpha |-> FALSE,
     bits_per_sample |-> 8, channels |-> 3, data |-> data]
Rgba(w, h, stride, data) ==
    [Rgb(w, h, stride, data) EXCEPT !.has_alpha = TRUE, !.channels = 4]
AnyImage ==
    {Sent({"image-data"}, image) : image \in
        {Rgb(w, h, s, d) : w \in 0..3, h \in 0..3, s \in {3, 4, 6, 7}, d \in 0..18}
        \cup {Rgba(w, h, s, d) : w \in 1..2, h \in 1..2, s \in {4, 6, 8, 9}, d \in 0..18}}

Good == Rgb(1, 1, 3, 3)
Odd == {[Good EXCEPT !.data = 2], [Good EXCEPT !.has_alpha = TRUE],
        [Good EXCEPT !.bits_per_sample = 16], [Good EXCEPT !.channels = 2]}
AnyHints ==
    {[Call(<<"e">>) EXCEPT !.hints = hints] : hints \in
        UNION {[keys -> {AText(<<>>), AText(<<"k">>), AnImage(Good), Other}] :
               keys \in SUBSET {"image-data", "image_data", "image-path", "image_path"}}}
    \cup {[Call(<<"e">>) EXCEPT !.hints = ("image-data" :> AnImage(image)
                                            @@ "image-path" :> AText(<<"k">>))] : image \in Odd}

MCFirst == AnyText \cup MarkedUp \cup AnyActions \cup AnyImage \cup AnyHints
\* The three names, and what is left of the first two.
MCApp == {<<"a", "k", "a">>, <<"a", "k", "e">>, <<"e">>, <<"a", "k">>}
=============================================================================
