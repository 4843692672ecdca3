------------------------------- MODULE MCPgn -------------------------------
(***************************************************************************)
(* Instances of Pgn for TLC: files of two games, written with annotations  *)
(* in every place, and cut or damaged in every place.                      *)
(***************************************************************************)
EXTENDS Pgn

\* From the initial position a comes first, from the one that is set up b.
AllLines ==
  {[from |-> "initial", moves |-> line] : line \in {<<>>, <<"a">>, <<"a", "b">>}}
    \union {[from |-> "set up", moves |-> line] : line \in {<<"b">>, <<"b", "a">>}}

\* Signs of every kind inside comments and variations of every kind, main-line
\* moves and results among them; and what may stand between moves only.
Comments ==
  {<<>>, <<"{", "(", "a", "{", ";", "}">>, <<";", "{", ")", "}", "newline">>,
   <<"(", "b", "{", ")", "}", "*", ")">>,
   <<"(", "(", "1-0", ")", ";", ")", "newline", "a", "[FEN]", ")">>}
Numeric == <<"$1", "e.p.", "!", "1.">>

Games ==
  {[tags |-> <<"[FEN]", "[Event]">>, from |-> "set up", moves |-> <<"b", "a">>,
    words |-> <<"b", "a!?">>, end |-> <<"1/2-1/2">>, result |-> "draw"],
   [tags |-> <<"[Result]">>, from |-> "initial", moves |-> <<"a">>,
    words |-> <<"1.a">>, end |-> <<>>, result |-> "draw"],
   [tags |-> <<"[Event]">>, from |-> "initial", moves |-> <<>>,
    words |-> <<>>, end |-> <<"*">>, result |-> "inProgress"],
   [tags |-> <<"[Event]">>, from |-> "initial", moves |-> <<"a", "b">>,
    words |-> <<"1.", "a", "b">>, end |-> <<"1-0">>, result |-> "whiteWin"]}

ItemsOf(g) == g.tags \o g.words \o g.end
Essence(g) == [from |-> g.from, moves |-> g.moves, result |-> g.result]

\* The items of two games, an annotation before the i-th of them and another
\* before the j-th; a unit is an item and what is before it.
UnitsOf(items, i, one, j, other) ==
  [k \in 1 .. Len(items) |->
     (IF k = i /\ (one # Numeric \/ items[k] \notin TagItems) THEN one ELSE <<>>)
       \o (IF k = j THEN other ELSE <<>>) \o <<items[k]>>]

RECURSIVE Written(_)
Written(units) ==
  IF units = <<>> THEN <<>> ELSE Head(units) \o Written(Tail(units))

\* A game without a result ends where the next item follows.
Whole(g, h, i, one, j, other) ==
  LET units == UnitsOf(ItemsOf(g) \o ItemsOf(h) \o <<"newline">>, i, one, j, other)
      upto == [k \in 1 .. Len(units) |-> Len(Written(SubSeq(units, 1, k)))]
      Later(x) == IF x.end = <<>> THEN 1 ELSE 0
  IN [text |-> Written(units), games |-> <<Essence(g), Essence(h)>>,
      ends |-> <<upto[Len(ItemsOf(g)) + Later(g)], upto[Len(units) - 1 + Later(h)]>>,
      gaps |-> {upto[k] : k \in 1 .. Len(units) - 1}]

AllTexts ==
  {Whole(g, h, i, one, i + 3, other) :
     g \in Games, h \in Games, i \in {1, 2, 4, 6},
     one \in Comments \union {Numeric}, other \in Comments}

AllGarbage == {")", "(", "}", "$256", "c"}
=============================================================================
