----------------------------- MODULE Learning -----------------------------
(***************************************************************************)
(* Learning from finished games (src/src/learning.cpp): positions are      *)
(* collected while learning is on, triggerLearning computes new weights    *)
(* from them, publishes them on disk and then plays with them.             *)
(*                                                                         *)
(* Every call stops the search first, so that nothing else runs during it. *)
(* Which weights come out of the positions is left open.  Any step on the  *)
(* disk may fail, and the process may die between and within them; one     *)
(* process learns in the directory.                                        *)
(***************************************************************************)
EXTENDS Naturals, Sequences

CONSTANTS
  Weights, Default,   \* what configure() accepts; defaultEvaluatorParameters
  NoFile, Torn,       \* no file; a file written in part
  Garbled             \* a line of history.txt glued to one that was cut short

VARIABLES
  brain, temporary,   \* brain.dat and brain.dat.tmp
  history,            \* the lines of history.txt
  live,               \* evalParams, and what the evaluator is configured with
  cached,             \* the weights that values in the table were computed with
  learningOn, positions,
  candidate, pc       \* updatedParameters, and the next step of the call

disk == <<brain, temporary, history>>
memory == <<live, cached, learningOn, positions>>
vars == <<disk, memory, candidate, pc>>
-----------------------------------------------------------------------------
SetLearning(value) ==
  /\ pc = "idle"
  /\ positions' = IF value /\ ~learningOn THEN 0 ELSE positions
  /\ learningOn' = value
  /\ UNCHANGED <<disk, live, cached, candidate, pc>>

\* A search ends: its values stay in the table, and unless it threw the last
\* position of its variation is collected.
Search ==
  /\ pc = "idle"
  /\ cached' = cached \union {live}
  /\ positions' \in IF learningOn THEN {positions, positions + 1} ELSE {positions}
  /\ UNCHANGED <<disk, live, learningOn, candidate, pc>>

\* triggerLearning with a result, up to the validated candidate.
Trigger ==
  /\ pc = "idle" /\ learningOn /\ positions # 0
  /\ candidate' \in Weights
  /\ pc' = "open"
  /\ UNCHANGED <<disk, memory>>

\* Any exception leads to the handler, which removes the temporary file.
Fail == pc' = "discard"

Open ==
  /\ pc = "open"
  /\ \/ temporary' = Torn /\ pc' = "write"
     \/ Fail /\ UNCHANGED temporary
  /\ UNCHANGED <<brain, history, memory, candidate>>

Write ==
  /\ pc = "write"
  /\ \/ temporary' = candidate /\ pc' = "record"
     \/ Fail /\ UNCHANGED temporary
  /\ UNCHANGED <<brain, history, memory, candidate>>

\* history.txt when a line is appended to it, wholly or in part.
CutShort == history # <<>> /\ history[Len(history)] = Torn
Lines(line) ==
  IF CutShort
  THEN [history EXCEPT ![Len(history)] = IF line = Torn THEN Torn ELSE Garbled]
  ELSE Append(history, line)
WrittenInPart == {history, Lines(Torn), Lines(candidate)}

Record ==
  /\ pc = "record"
  /\ \/ history' = Lines(candidate) /\ pc' = "rename"
     \/ history' \in WrittenInPart /\ Fail
  /\ UNCHANGED <<brain, temporary, memory, candidate>>

Rename ==
  /\ pc = "rename"
  /\ \/ brain' = temporary /\ temporary' = NoFile /\ pc' = "install"
     \/ Fail /\ UNCHANGED <<brain, temporary>>
  /\ UNCHANGED <<history, memory, candidate>>

\* The exception leaves the call; whether the file could be removed is ignored.
Discard ==
  /\ pc = "discard"
  /\ temporary' \in {NoFile, temporary}
  /\ pc' = "idle"
  /\ UNCHANGED <<brain, history, memory, candidate>>

\* configure(), evalParams, table.reset(), learningPositions.clear().
Install ==
  /\ pc = "install"
  /\ live' = candidate /\ cached' = {} /\ positions' = 0
  /\ pc' = "idle"
  /\ UNCHANGED <<disk, learningOn, candidate>>

\* The process dies, and a new one starts with the default weights: nothing
\* reads brain.dat.
Crash ==
  /\ history' \in IF pc = "record" THEN WrittenInPart ELSE {history}
  /\ live' = Default /\ cached' = {} /\ learningOn' = FALSE /\ positions' = 0
  /\ pc' = "idle"
  /\ UNCHANGED <<brain, temporary, candidate>>

Init ==
  /\ brain \in Weights \union {NoFile} /\ temporary = NoFile /\ history = <<>>
  /\ live = Default /\ cached = {} /\ learningOn = FALSE /\ positions = 0
  /\ candidate = Default /\ pc = "idle"

Next ==
  \/ \E value \in BOOLEAN : SetLearning(value)
  \/ Search \/ Trigger
  \/ Open \/ Write \/ Record \/ Rename \/ Discard \/ Install
  \/ Crash

Spec == Init /\ [][Next]_vars
-----------------------------------------------------------------------------
(***************************************************************************)
(* Properties.                                                             *)
(***************************************************************************)
\* "Keep the original brain file until the complete native-double payload and
\* text history have been written": brain.dat is never a part of a file.
BrainWhole == brain \in Weights \union {NoFile}

\* "Live weights and cached evaluations change only after that succeeds": the
\* engine plays with the weights it started with or with those of brain.dat,
\* and no value in the table was computed with others.
LivePublished == pc # "install" => live \in {Default, brain}
CacheFollowsLive == cached \subseteq {live}

\* Weights reach brain.dat only after their line, or a line that an earlier
\* failure spoiled, is the last of history.txt.
PublishedAfterRecord ==
  [][brain' # brain =>
       history # <<>> /\ history[Len(history)] \in {brain', Garbled}]_vars
=============================================================================
