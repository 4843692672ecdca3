-------------------------------- MODULE Pgn --------------------------------
(***************************************************************************)
(* The reader of game files (src/src/pgn.cpp): load and loadText set it at *)
(* the beginning of a text and read the first game, next() reads one more. *)
(*                                                                         *)
(* A text is a sequence of items: the characters the reader acts on, and   *)
(* whole tags, numeric annotations and words.  White space and the form of *)
(* a tag are left out; an item that was cut off or does not parse is       *)
(* "bad".  A position is where a game starts and the moves made since, and *)
(* `Lines' says which are legal.                                           *)
(***************************************************************************)
EXTENDS Integers, Sequences, FiniteSets
LOCAL INSTANCE FiniteSetsExt

CONSTANTS
  Texts,          \* well-formed texts, each with the games it stands for
  Garbage,        \* items that no reader can accept between two others
  Lines,          \* positions that legal moves lead to
  MaxHalfMoves    \* maxHalfMoves

VARIABLES
  file,           \* the file: a text, or what is left of it
  stream, cursor, \* what was loaded, and the next item to read
  errorValue,
  game,           \* the metadata and moves of the last game
  board,          \* the caller's board
  returned,       \* what the last call returned
  read            \* ghost: the games read since the file was loaded

vars == <<file, stream, cursor, errorValue, game, board, returned, read>>

Unknown == "invalid"
Start == [from |-> "initial", moves |-> <<>>]
NoGame == [from |-> "initial", moves |-> <<>>, result |-> Unknown]

\* parseResult; "*" is the marker of an unfinished game.
ResultOf(item) ==
  CASE item = "1-0" -> "whiteWin" [] item = "1/2-1/2" -> "draw"
    [] item = "*" -> "inProgress" [] OTHER -> Unknown

TagItems == {"[Event]", "[Result]", "[FEN]", "[bad FEN]", "[bad"}
\* A word without its move number and the marks behind it.
Bare(item) ==
  CASE item = "1.a" -> "a" [] item = "a!?" -> "a" [] item \in {"1.", "!"} -> ""
    [] OTHER -> item
-----------------------------------------------------------------------------
(***************************************************************************)
(* Scanning.  Each operator takes the cursor and yields the new one; a     *)
(* scan that fails is not ok.                                              *)
(***************************************************************************)
At(i, ok) == [cursor |-> i, ok |-> ok]
Ends(text, i, item) == {j \in i + 1 .. Len(text) : text[j] = item}

\* Mutant: the first parenthesis that closes ends every variation.
DepthAfterClosing(depth) == 0
Closed(depth) == depth - 1

RECURSIVE Skip(_, _, _)
Skip(text, i, depth) ==
  IF i > Len(text) THEN At(i, depth = 0)
  ELSE CASE text[i] = "newline" -> Skip(text, i + 1, depth)
         [] text[i] = "{" -> IF Ends(text, i, "}") = {} THEN At(i, FALSE)
                             ELSE Skip(text, Min(Ends(text, i, "}")) + 1, depth)
         [] text[i] = ";" -> Skip(text, Min(Ends(text, i, "newline") \union {Len(text)}) + 1,
                                  depth)
         [] text[i] = "(" -> Skip(text, i + 1, depth + 1)
         [] text[i] = ")" -> IF depth = 0 THEN At(i, FALSE)
                             ELSE Skip(text, i + 1, Closed(depth))
         [] OTHER -> IF depth = 0 THEN At(i, TRUE) ELSE Skip(text, i + 1, depth)

SkipIgnored(text, i) == Skip(text, i, 0)

\* processTag(); other tags than these two say nothing about the moves.
Tagged(found, item) ==
  CASE item = "[FEN]" -> [found EXCEPT !.from = "set up"]
    [] item = "[bad FEN]" -> [found EXCEPT !.from = "nowhere"]
    [] item = "[Result]" -> [found EXCEPT !.result = "draw"]
    [] OTHER -> found

\* What one call of next() leaves behind: ok is what it returns.
Left(i, found, ok, error) == [cursor |-> i, game |-> found, ok |-> ok, error |-> error]

RECURSIVE ReadMoves(_, _, _, _)
ReadMoves(text, i, found, sawTags) ==
  LET skipped == SkipIgnored(text, i)
      here == skipped.cursor
      word == Bare(text[here])
      Made == [found EXCEPT !.moves = Append(@, word)]
  IN IF i <= Len(text) /\ ~skipped.ok THEN Left(here, found, FALSE, TRUE)
     ELSE IF here > Len(text) \/ text[here] \in TagItems
     THEN Left(here, found, sawTags \/ found.moves # <<>>, FALSE)
     ELSE IF text[here] \in {"$1", "e.p."} \/ word = ""
     THEN ReadMoves(text, here + 1, found, sawTags)
     ELSE IF ResultOf(text[here]) # Unknown
     THEN Left(here + 1, [found EXCEPT !.result = ResultOf(text[here])], TRUE, FALSE)
     ELSE IF Len(found.moves) >= MaxHalfMoves \/ [from |-> found.from, moves |-> Made.moves] \notin Lines
     THEN Left(here + 1, found, FALSE, TRUE)
     ELSE ReadMoves(text, here + 1, Made, sawTags)

RECURSIVE ReadTags(_, _, _, _)
ReadTags(text, i, found, sawTags) ==
  IF i > Len(text) \/ text[i] \notin TagItems
  THEN IF found.from = "nowhere" THEN Left(i, found, FALSE, TRUE)
       ELSE ReadMoves(text, i, found, sawTags)
  ELSE LET skipped == SkipIgnored(text, i + 1)
       IN IF text[i] = "[bad" \/ ~skipped.ok THEN Left(i, found, FALSE, TRUE)
          ELSE ReadTags(text, skipped.cursor, Tagged(found, text[i]), TRUE)
-----------------------------------------------------------------------------
(***************************************************************************)
(* The calls.                                                              *)
(***************************************************************************)
\* Mutant: the last game's starting position is kept.
ResetMetadataButFen == [NoGame EXCEPT !.from = game.from]
ResetMetadata == NoGame

\* Reading goes on from item i of the text.
NextFrom(text, i) ==
  LET skipped == SkipIgnored(text, i)
  IN IF ~skipped.ok \/ skipped.cursor > Len(text)
     THEN Left(skipped.cursor, game, FALSE, ~skipped.ok)
     ELSE ReadTags(text, skipped.cursor, ResetMetadata, FALSE)

Answer(left) ==
  /\ cursor' = left.cursor /\ errorValue' = left.error
  /\ game' = left.game /\ returned' = left.ok
  /\ board' = IF left.ok THEN [from |-> left.game.from, moves |-> left.game.moves]
              ELSE board

\* A file that is there, from its beginning, whatever was read before.
Load ==
  /\ stream' = file.text
  /\ Answer(NextFrom(file.text, 1))
  /\ read' = IF returned' THEN <<game'>> ELSE <<>>
  /\ UNCHANGED file

\* A file that cannot be opened.
LoadMissing ==
  /\ stream' = <<>> /\ cursor' = 1 /\ errorValue' = TRUE
  /\ game' = ResetMetadata /\ returned' = FALSE /\ read' = <<>>
  /\ UNCHANGED <<file, board>>

NextGame ==
  /\ IF errorValue
     THEN returned' = FALSE /\ UNCHANGED <<cursor, errorValue, game, board>>
     ELSE Answer(NextFrom(stream, cursor))
  /\ read' = IF returned' THEN Append(read, game') ELSE read
  /\ UNCHANGED <<file, stream>>

\* A text may be cut off after any item or within a tag, or damaged between two.
Held(whole, text, state, n) ==
  [text |-> text, games |-> whole.games, state |-> state,
   complete |-> Cardinality({k \in DOMAIN whole.ends : whole.ends[k] <= n})]

FilesFrom(whole) ==
  LET all == whole.text
  IN {Held(whole, all, "whole", Len(all))}
       \union {Held(whole, SubSeq(all, 1, n), "cut", n) : n \in 1 .. Len(all) - 1}
       \union {Held(whole, SubSeq(all, 1, n) \o <<"[bad">>, "cut", n) :
                 n \in {n \in 0 .. Len(all) - 1 : all[n + 1] \in TagItems}}
       \union {Held(whole, SubSeq(all, 1, n) \o <<item>> \o SubSeq(all, n + 1, Len(all)),
                    "damaged", n) : n \in whole.gaps, item \in Garbage}
       \union {Held(whole, [all EXCEPT ![n] = "[bad FEN]"], "damaged", n - 1) :
                 n \in {n \in whole.gaps : all[n] = "[FEN]"}}

Init ==
  /\ \E whole \in Texts : file \in FilesFrom(whole)
  /\ stream = <<>> /\ cursor = 1 /\ errorValue = FALSE
  /\ game = NoGame /\ board = Start /\ returned = FALSE /\ read = <<>>

Next == Load \/ LoadMissing \/ NextGame

Spec == Init /\ [][Next]_vars
-----------------------------------------------------------------------------
(***************************************************************************)
(* Properties.                                                             *)
(***************************************************************************)
\* What was read of a game that the file breaks off in.
BrokenOff(part, whole) ==
  /\ Len(part.moves) <= Len(whole.moves)
  /\ part.moves = SubSeq(whole.moves, 1, Len(part.moves))
  /\ part.moves # <<>> => part.from = whole.from

\* "Only the main line is replayed": comments, variations and annotations,
\* however they nest, add nothing to a game and take nothing from it, and the
\* caller's board is never that of a game that was not read to its end.
GamesReadTrue ==
  /\ Len(read) <= Len(file.games)
  /\ \A i \in 1 .. Len(read) :
       \/ read[i] = file.games[i]
       \/ file.state = "cut" /\ i > file.complete /\ BrokenOff(read[i], file.games[i])
  /\ read # <<>> =>
       board = [from |-> read[Len(read)].from, moves |-> read[Len(read)].moves]

\* "next() distinguishes ordinary EOF from malformed input through hasError()":
\* when it gives up, every game before the break was read, an intact file gave
\* no error, and damage did.
NothingLost ==
  stream # <<>> /\ ~returned =>
    /\ Len(read) >= file.complete
    /\ file.state = "whole" => ~errorValue
    /\ file.state = "damaged" => errorValue
=============================================================================
