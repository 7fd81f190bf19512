----------------------------- MODULE MCSolution -----------------------------
(***************************************************************************)
(* Solution for TLC: four families of source files around one that is      *)
(* sound, each varying what another part of the import looks at.           *)
(***************************************************************************)
EXTENDS Solution

A == <<"As", "Ks">>
B == <<"Qd", "Jd">>
C == <<"8c", "7c">>

Line(kind, value) == [kind |-> kind, value |-> value]
Entry(weights, raw, weight) == [weights |-> weights, raw |-> raw, weight |-> weight]
Ranges == [ip |-> <<"x", "y">>, oop |-> <<"z">>]
Input(lane, tokens) == [lane |-> lane, tokens |-> tokens]
Unnamed == [lane \in Lanes |-> None]

Base ==
    [hash |-> "h1",
     config |-> [hash |-> "h1", story |-> None, ranges |-> Ranges, minimum |-> 2, target |-> 1],
     input |-> <<Input("ip", <<"y", "x">>), Input("oop", <<"z">>)>>,
     log |-> <<Line("iter", 2), Line("total", 1)>>,
     allIn |-> <<FALSE, FALSE, TRUE>>, order |-> None,
     keys |-> <<A, B>>,
     byCombo |-> (A :> Entry(<<1, 2, 0>>, None, 2)) @@ (B :> Entry(<<0, 0, 1>>, None, 2)),
     range |-> (Reversed(A) :> [raw |-> None, weight |-> 2]),
     featured |-> None, selectable |-> None,
     story |-> None, shown |-> Unnamed, dealer |-> None, first |-> "oop"]

Vectors(n) == {w \in [1 .. n -> 0 .. 3] : SumFunction(w) > 0}

\* Weights: two and three actions, one of them all-in or none.
Weights ==
    {[Base EXCEPT !.byCombo[A].weights = w, !.allIn = allIn] :
        w \in [1 .. 3 -> 0 .. 3], allIn \in {<<FALSE, FALSE, TRUE>>, <<FALSE, FALSE, FALSE>>}}
    \cup {[Base EXCEPT !.byCombo = (A :> Entry(w, None, 2)) @@ (B :> Entry(x, None, 2)), !.allIn = <<FALSE, TRUE>>] :
        w \in Vectors(2), x \in {<<0, 1>>, <<1, 2>>}}

\* Spellings and reach: which hands are there, offered, featured and active.
Hands ==
    {[Base EXCEPT !.keys = keys, !.featured = featured, !.selectable = selectable, !.order = order,
                  !.range = (Reversed(A) :> [raw |-> reach[3], weight |-> reach[4]]),
                  !.byCombo = (A :> Entry(<<1, 2, 0>>, reach[1], reach[2])) @@ @
                              @@ (Reversed(A) :> Entry(<<2, 2, 1>>, 2, None))] :
        keys \in {<<A, B>>, <<B, A, Reversed(A)>>, <<B>>},
        featured \in {None, A, Reversed(A)},
        selectable \in {None, <<Reversed(A), A>>, <<B, B>>, <<C>>},
        order \in {None, <<1, 2, 3>>, <<3, 2, 1>>},
        reach \in {None, 0, 2} \X {None, 1, 2} \X {None, 1} \X {0, 2}}

BTN == Name("BTN")
Names == {{}, {BTN}, {[BTN EXCEPT !.lower = TRUE]}, {[BTN EXCEPT !.padded = TRUE]}, {Name("BB")},
          {BTN, [BTN EXCEPT !.padded = TRUE]}, {BTN, Name("BB")}}
Stories == {None} \cup [Lanes -> Names]
Shown(lane) == {None, [Name(lane) EXCEPT !.lower = TRUE], BTN, [Name("BB") EXCEPT !.lower = TRUE]}

\* Seats: what the story tells and what the envelope shows.
Seats ==
    {[Base EXCEPT !.story = story, !.config.story = story, !.shown = [ip |-> ip, oop |-> oop], !.dealer = dealer] :
        story \in Stories, ip \in Shown("ip"), oop \in Shown("oop"), dealer \in {None, "ip", "oop"}}

\* Evidence: logs, and files that do not belong together.
Logs == BoundedSeq({Line("iter", 1), Line("iter", 2), Line("total", 1), Line("total", 2), Line("text", 0)}, 4)
Evidence ==
    {[Base EXCEPT !.log = log] : log \in Logs}
    \cup {[Base EXCEPT !.hash = hash, !.config.hash = configured, !.story = story, !.input = input] :
        hash \in {None, "h1", "h2"}, configured \in {None, "h1"}, story \in {None, [ip |-> {BTN}, oop |-> {Name("BB")}]},
        input \in BoundedSeq({Input("ip", <<"x", "y">>), Input("ip", <<"x">>), Input("oop", <<"z">>)}, 3)}

AllItems == Weights \cup Hands \cup Seats \cup Evidence

\* Early rows seat the dealer as the first actor; most name the lanes IP and OOP,
\* some name a seat, which agrees with the story or does not.
EarlyRows ==
    {[Envelope(Base) EXCEPT !.story = story, !.positions = [ip |-> ip, oop |-> oop], !.dealer = "oop"] :
        story \in Stories, ip \in {Name("ip"), BTN, [BTN EXCEPT !.lower = TRUE]}, oop \in {Name("oop"), Name("BB")}}

Hand(combo, allocations) == [combo |-> combo, allocations |-> allocations]
Allocations == {<<6, 0, 0>>, <<0, 0, 6>>, <<2, 4, 0>>, <<1, 2, 3>>}
AllSubmissions ==
    {<<Hand(combo, f)>> : combo \in {A, Reversed(A), B, C}, f \in Allocations \cup {<<2, 2, 1>>, <<3, 3>>}}
    \cup {<<Hand(a, f), Hand(b, g)>> : a \in {A, Reversed(A)}, b \in {A, Reversed(B)}, f, g \in Allocations}
    \cup {<<Hand(A, <<6, 0, 0>>), Hand(B, <<6, 0, 0>>), Hand(Reversed(A), <<6, 0, 0>>)>>}
=============================================================================
