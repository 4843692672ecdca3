---------------------------- MODULE FileProofs ----------------------------
(***************************************************************************)
(* What learning leaves on disk and in memory, however many calls fail or  *)
(* processes die: of the opening book, for every set of engines that share *)
(* it and of games they learn, and of the evaluator's weights.             *)
(***************************************************************************)
EXTENDS BookFile, Naturals, Sequences, TLAPS

-----------------------------------------------------------------------------
(***************************************************************************)
(* The opening book.                                                       *)
(***************************************************************************)
Files == [owner : Engines \union {Nobody}, content : Contents \union {Absent, Broken}]

BooksTyped ==
  /\ file \in Contents \union {Absent, Broken}
  /\ published \subseteq Contents \union {Absent, Broken}
  /\ temporary \in Files
  /\ temporary.content = Absent <=> temporary = NoTemporary
  /\ books \in [Engines -> BookStates]
  /\ \A e \in Engines : books[e].pc = "idle" => ~books[e].leaving

\* The temporary file is of the one engine that writes or renames it, and holds
\* the whole of what it saves before the rename.
OwnTemporary ==
  \A e \in Engines :
    /\ books[e].pc \in {"write", "rename"} => temporary.owner = e
    /\ books[e].pc = "rename" => temporary.content = books[e].saving

\* Entries without a mark have been on disk, also during a call.
CleanAlways ==
  \A e \in Engines :
    books[e].named /\ ~books[e].dirty => books[e].entries \in published

\* Once any engine has entries that build on a file, there is a book; an
\* engine's entries, and what it saves of them, hold that file's games.  What an
\* open() has built anew does not.
BuildsOnBase ==
  \A e \in Engines :
    books[e].base # Absent =>
      /\ Whole(file)
      /\ books[e].base \subseteq books[e].entries
      /\ books[e].pc \in {"create", "write", "rename"} /\ ~books[e].rebuilds
           => books[e].base \subseteq books[e].saving

BookInv ==
  /\ BooksTyped /\ OwnTemporary /\ CleanAlways /\ BuildsOnBase
  /\ file \in published
  /\ BookAlwaysWhole

-----------------------------------------------------------------------------
\* A step of one engine leaves the others' books alone.
LEMMA OneBook ==
  ASSUME books \in [Engines -> BookStates], NEW e \in Engines,
         NEW book \in BookStates, Become(e, book)
  PROVE  /\ books' \in [Engines -> BookStates]
         /\ books'[e] = book
         /\ \A f \in Engines \ {e} : books'[f] = books[f]
BY DEF Become

\* A call of an engine that touches no file.
LEMMA CallKeepsInv ==
  ASSUME BookInv, NEW e \in Engines, NEW book \in BookStates, Become(e, book),
         UNCHANGED <<file, temporary, published>>,
         book.pc \notin {"write", "rename"},
         book.pc = "idle" => ~book.leaving,
         book.named /\ ~book.dirty => book.entries \in published,
         book.base # Absent =>
           /\ Whole(file)
           /\ book.base \subseteq book.entries
           /\ book.pc = "create" /\ ~book.rebuilds => book.base \subseteq book.saving
  PROVE  BookInv'
<1> USE DEF BookInv
<1>1. /\ books' \in [Engines -> BookStates]
      /\ books'[e] = book
      /\ \A f \in Engines : f = e \/ books'[f] = books[f]
  BY OneBook DEF BooksTyped
<1>2. BooksTyped'
  BY <1>1 DEF BooksTyped
<1>3. OwnTemporary'
  BY <1>1 DEF OwnTemporary
<1>4. CleanAlways'
  BY <1>1 DEF CleanAlways
<1>5. BuildsOnBase'
  <2> SUFFICES ASSUME NEW f \in Engines, books'[f].base # Absent
               PROVE  /\ Whole(file)
                      /\ books'[f].base \subseteq books'[f].entries
                      /\ books'[f].pc \in {"create", "write", "rename"}
                         /\ ~books'[f].rebuilds
                           => books'[f].base \subseteq books'[f].saving
    BY DEF BuildsOnBase, Whole
  <2> QED
    BY <1>1 DEF BuildsOnBase
<1> QED
  BY <1>2, <1>3, <1>4, <1>5 DEF BookAlwaysWhole

LEMMA BookInvInit == Init => BookInv
<1> SUFFICES ASSUME Init PROVE BookInv
  OBVIOUS
<1>1. NewBook \in BookStates
  BY DEF NewBook, BookStates, Contents
<1>2. books \in [Engines -> BookStates] /\ \A e \in Engines : books[e] = NewBook
  BY <1>1 DEF Init
<1>3. BooksTyped
  BY <1>2 DEF BooksTyped, Init, Files, NoTemporary, Contents, NewBook
<1>4. OwnTemporary /\ CleanAlways /\ BuildsOnBase
  BY <1>2 DEF OwnTemporary, CleanAlways, BuildsOnBase, NewBook
<1> QED
  BY <1>3, <1>4 DEF BookInv, BookAlwaysWhole, Init

\* Loading takes the file's games, building keeps those there are.
LEMMA OpenKeepsInv ==
  ASSUME BookInv, NEW e \in Engines, Open(e)
  PROVE  BookInv'
<1> USE DEF BookInv
<1>1. CASE Whole(file) /\ Become(e, Loaded(books[e]))
  <2> DEFINE book == Loaded(books[e])
  <2>1. file \in Contents
    BY <1>1 DEF BooksTyped, Whole
  <2>2. book \in BookStates /\ book.pc = "idle" /\ ~book.leaving
        /\ book.entries = file /\ book.base = file
    BY <1>1, <2>1 DEF Open, Idle, Loaded, BooksTyped, BookStates
  <2> HIDE DEF book
  <2> QED
    BY <1>1, <2>2, CallKeepsInv DEF Open, book
<1>2. CASE Become(e, Rebuilding(books[e]))
  <2> DEFINE book == Rebuilding(books[e])
  <2>1. /\ book \in BookStates /\ book.pc = "create" /\ book.rebuilds
        /\ book.named = books[e].named /\ book.dirty = books[e].dirty
        /\ book.entries = books[e].entries /\ book.base = books[e].base
    BY DEF Rebuilding, Saving, BooksTyped, BookStates, Contents
  <2> HIDE DEF book
  <2> QED
    BY <1>2, <2>1, CallKeepsInv DEF Open, CleanAlways, BuildsOnBase, book
<1>3. CASE UNCHANGED books
  BY <1>3 DEF Open, BooksTyped, OwnTemporary, CleanAlways, BuildsOnBase, BookAlwaysWhole,
              Whole
<1> QED
  BY <1>1, <1>2, <1>3 DEF Open

LEMMA DigestKeepsInv ==
  ASSUME BookInv, NEW e \in Engines, Digest(e)
  PROVE  BookInv'
<1> DEFINE book == [books[e] EXCEPT !.entries = {}, !.dirty = TRUE, !.base = Absent]
<1>1. book \in BookStates /\ book.pc = "idle" /\ ~book.leaving /\ book.dirty
      /\ book.base = Absent
  BY DEF BookInv, Digest, Idle, BooksTyped, BookStates, Contents
<1>2. Become(e, book) /\ UNCHANGED <<file, temporary, published>>
  BY DEF Digest
<1> HIDE DEF book
<1> QED
  BY <1>1, <1>2, CallKeepsInv

\* A save starts from an idle book's entries.
LEMMA SavingStarts ==
  ASSUME NEW book \in BookStates, book.pc = "idle", NEW content \in Contents
  PROVE  /\ Saving(book, content) \in BookStates
         /\ Saving(book, content) = [book EXCEPT !.pc = "create", !.saving = content]
         /\ Saving(book, content).pc = "create"
         /\ Saving(book, content).saving = content
         /\ Saving(book, content).entries = book.entries
         /\ Saving(book, content).base = book.base
         /\ Saving(book, content).named = book.named
         /\ Saving(book, content).dirty = book.dirty
BY DEF Saving, BookStates

LEMMA LearnKeepsInv ==
  ASSUME BookInv, NEW e \in Engines, Learn(e)
  PROVE  BookInv'
<1> USE DEF BookInv
<1>1. books[e] \in BookStates /\ books[e].pc = "idle" /\ ~books[e].leaving
  BY DEF Learn, Idle, BooksTyped
<1>2. PICK games \in {{}} \union {{g} : g \in Games} :
        Become(e, IF (Learned(books[e], games).dirty \/ games # {})
                     /\ Learned(books[e], games).named
                  THEN Saving(Learned(books[e], games), Learned(books[e], games).entries)
                  ELSE Learned(books[e], games))
  BY DEF Learn
<1> DEFINE book == Learned(books[e], games)
<1>3. /\ book \in BookStates /\ book.pc = "idle" /\ ~book.leaving
      /\ book.entries = books[e].entries \union games /\ book.base = books[e].base
      /\ book.named = books[e].named
      /\ book.dirty = (books[e].dirty \/ games # {})
  BY <1>1 DEF Learned, BookStates, Contents
<1>4. book.named /\ ~book.dirty => book.entries \in published
  BY <1>3 DEF CleanAlways
<1>5. book.base # Absent => Whole(file) /\ book.base \subseteq book.entries
  BY <1>3 DEF BuildsOnBase
<1>6. UNCHANGED <<file, temporary, published>>
  BY DEF Learn
<1> HIDE DEF book
<1>7. CASE (book.dirty \/ games # {}) /\ book.named
  <2> DEFINE b == Saving(book, book.entries)
  <2>1. Become(e, b)
    BY <1>2, <1>7 DEF book
  <2>2. /\ b \in BookStates /\ b.pc = "create" /\ b.saving = book.entries
        /\ b.entries = book.entries /\ b.base = book.base
        /\ b.named = book.named /\ b.dirty = book.dirty
    BY <1>3, SavingStarts DEF BookStates
  <2> HIDE DEF b
  <2> QED
    BY <1>4, <1>5, <1>6, <2>1, <2>2, CallKeepsInv
<1>8. CASE ~((book.dirty \/ games # {}) /\ book.named)
  <2>1. Become(e, book)
    BY <1>2, <1>8 DEF book
  <2> QED
    BY <1>3, <1>4, <1>5, <1>6, <2>1, CallKeepsInv
<1> QED
  BY <1>7, <1>8

LEMMA SaveKeepsInv ==
  ASSUME BookInv, NEW e \in Engines, Save(e)
  PROVE  BookInv'
<1> USE DEF BookInv
<1> DEFINE b == Saving(books[e], books[e].entries)
<1>1. books[e] \in BookStates /\ books[e].pc = "idle"
  BY DEF Save, Idle, BooksTyped
<1>2. /\ b \in BookStates /\ b.pc = "create" /\ b.saving = books[e].entries
      /\ b.entries = books[e].entries /\ b.base = books[e].base
      /\ b.named = books[e].named /\ b.dirty = books[e].dirty
  BY <1>1, SavingStarts DEF BookStates
<1>3. Become(e, b) /\ UNCHANGED <<file, temporary, published>>
  BY DEF Save
<1> HIDE DEF b
<1> QED
  BY <1>2, <1>3, CallKeepsInv DEF CleanAlways, BuildsOnBase

LEMMA DestroyKeepsInv ==
  ASSUME BookInv, NEW e \in Engines, Destroy(e)
  PROVE  BookInv'
<1> USE DEF BookInv
<1>1. books[e] \in BookStates /\ books[e].pc = "idle"
  BY DEF Destroy, Idle, BooksTyped
<1>2. UNCHANGED <<file, temporary, published>>
  BY DEF Destroy
<1>3. CASE books[e].dirty /\ books[e].named
  <2> DEFINE b == [Saving(books[e], books[e].entries) EXCEPT !.leaving = TRUE]
  <2>1. Become(e, b)
    BY <1>3 DEF Destroy
  <2>2. /\ b \in BookStates /\ b.pc = "create" /\ b.saving = books[e].entries
        /\ b.entries = books[e].entries /\ b.base = books[e].base
        /\ b.dirty
    BY <1>1, <1>3 DEF Saving, BookStates
  <2> HIDE DEF b
  <2> QED
    BY <1>2, <2>1, <2>2, CallKeepsInv DEF BuildsOnBase
<1>4. CASE ~(books[e].dirty /\ books[e].named)
  <2> DEFINE b == [books[e] EXCEPT !.pc = "gone"]
  <2>1. Become(e, b)
    BY <1>4 DEF Destroy
  <2>2. /\ b \in BookStates /\ b.pc = "gone"
        /\ b.entries = books[e].entries /\ b.base = books[e].base
        /\ b.named = books[e].named /\ b.dirty = books[e].dirty
    BY <1>1 DEF BookStates
  <2> HIDE DEF b
  <2> QED
    BY <1>2, <2>1, <2>2, CallKeepsInv DEF CleanAlways, BuildsOnBase
<1> QED
  BY <1>3, <1>4

-----------------------------------------------------------------------------
\* What returning from a save changes.
LEMMA ReturnedBook ==
  ASSUME NEW book \in BookStates
  PROVE  /\ Returned(book) \in BookStates
         /\ Returned(book).pc \in {"idle", "gone"}
         /\ Returned(book).pc = "idle" => ~Returned(book).leaving
         /\ Returned(book).entries = book.entries
         /\ Returned(book).base = book.base
         /\ Returned(book).named = book.named
         /\ Returned(book).dirty = book.dirty
BY DEF Returned, BookStates, Contents

\* Only the engine that owns the temporary file writes or renames it.
LEMMA OneWriter ==
  ASSUME BookInv, NEW e \in Engines, NEW f \in Engines, f # e,
         books[e].pc \in {"write", "rename"}
  PROVE  books[f].pc \notin {"write", "rename"}
BY DEF BookInv, OwnTemporary

\* A save that fails at any step leaves the book as it was; nobody else is
\* affected by what becomes of the temporary file.
LEMMA FailKeepsInv ==
  ASSUME BookInv, NEW e \in Engines, Fail(e), UNCHANGED <<file, published>>,
         \/ UNCHANGED temporary
         \/ temporary' = NoTemporary /\ books[e].pc \in {"write", "rename"}
  PROVE  BookInv'
<1> USE DEF BookInv
<1> DEFINE book == Returned(books[e])
<1>1. books[e] \in BookStates
  BY DEF BooksTyped
<1>2. /\ book \in BookStates /\ book.pc \in {"idle", "gone"}
      /\ book.pc = "idle" => ~book.leaving
      /\ book.entries = books[e].entries /\ book.base = books[e].base
      /\ book.named = books[e].named /\ book.dirty = books[e].dirty
  BY <1>1, ReturnedBook
<1>3. Become(e, book)
  BY DEF Fail
<1> HIDE DEF book
<1>4. /\ books' \in [Engines -> BookStates]
      /\ books'[e] = book
      /\ \A f \in Engines : f = e \/ books'[f] = books[f]
  BY <1>2, <1>3, OneBook DEF BooksTyped
<1>5. BooksTyped'
  BY <1>2, <1>4 DEF BooksTyped, NoTemporary, Files
<1>6. OwnTemporary'
  BY <1>2, <1>4, OneWriter DEF OwnTemporary
<1>7. CleanAlways'
  BY <1>2, <1>4 DEF CleanAlways
<1>8. BuildsOnBase'
  BY <1>2, <1>4 DEF BuildsOnBase, Whole
<1> QED
  BY <1>5, <1>6, <1>7, <1>8 DEF BookAlwaysWhole

\* Creating and writing the temporary file moves one engine on.
LEMMA WritingKeepsInv ==
  ASSUME BookInv, NEW e \in Engines, NEW step \in {"write", "rename"},
         Become(e, [books[e] EXCEPT !.pc = step]),
         UNCHANGED <<file, published>>,
         books[e].pc \in {"create", "write"},
         NEW content \in Contents \union {Broken},
         temporary' = [owner |-> e, content |-> content],
         step = "rename" => content = books[e].saving,
         \A f \in Engines \ {e} : books[f].pc \notin {"write", "rename"}
  PROVE  BookInv'
<1> USE DEF BookInv
<1> DEFINE book == [books[e] EXCEPT !.pc = step]
<1>1. books[e] \in BookStates
  BY DEF BooksTyped
<1>2. /\ book \in BookStates /\ book.pc = step
      /\ book.entries = books[e].entries /\ book.base = books[e].base
      /\ book.named = books[e].named /\ book.dirty = books[e].dirty
      /\ book.saving = books[e].saving /\ book.rebuilds = books[e].rebuilds
  BY <1>1 DEF BookStates
<1> HIDE DEF book
<1>3. /\ books' \in [Engines -> BookStates]
      /\ books'[e] = book
      /\ \A f \in Engines : f = e \/ books'[f] = books[f]
  BY <1>2, OneBook DEF BooksTyped, book
<1>4. content # Absent
  BY FilesAssumption DEF Contents
<1>5. BooksTyped'
  <2>1. temporary' \in Files /\ temporary'.content # Absent
    BY <1>4 DEF Files
  <2>2. temporary' # NoTemporary
    BY <1>4 DEF NoTemporary
  <2> QED
    BY <1>2, <1>3, <2>1, <2>2 DEF BooksTyped
<1>6. OwnTemporary'
  BY <1>2, <1>3 DEF OwnTemporary
<1>7. CleanAlways'
  BY <1>2, <1>3 DEF CleanAlways
<1>8. BuildsOnBase'
  BY <1>2, <1>3 DEF BuildsOnBase, Whole
<1> QED
  BY <1>5, <1>6, <1>7, <1>8 DEF BookAlwaysWhole

LEMMA CreateKeepsInv ==
  ASSUME BookInv, NEW e \in Engines, Create(e)
  PROVE  BookInv'
<1>1. CASE Fail(e) /\ UNCHANGED temporary
  BY <1>1, FailKeepsInv DEF Create
<1>2. CASE /\ MayCreate
           /\ temporary' = [owner |-> e, content |-> Broken]
           /\ Become(e, [books[e] EXCEPT !.pc = "write"])
  <2>1. \A f \in Engines : books[f].pc \notin {"write", "rename"}
    BY <1>2, FilesAssumption DEF BookInv, OwnTemporary, MayCreate, NoTemporary
  <2> QED
    BY <1>2, <2>1, WritingKeepsInv DEF Create
<1> QED
  BY <1>1, <1>2 DEF Create

LEMMA WriteKeepsInv ==
  ASSUME BookInv, NEW e \in Engines, Write(e)
  PROVE  BookInv'
<1>1. CASE Fail(e) /\ Discarded
  BY <1>1, FailKeepsInv DEF Write, Discarded
<1>2. CASE Written(e)
  <2>1. \A f \in Engines \ {e} : books[f].pc \notin {"write", "rename"}
    BY OneWriter DEF Write
  <2>2. books[e].saving \in Contents
    BY DEF BookInv, BooksTyped, BookStates
  <2> QED
    BY <1>2, <2>1, <2>2, WritingKeepsInv DEF Write, Written
<1> QED
  BY <1>1, <1>2 DEF Write

\* What is renamed is a whole book, and the engine that renames it builds on it.
LEMMA RenameKeepsInv ==
  ASSUME BookInv, NEW e \in Engines, Rename(e)
  PROVE  BookInv'
<1> USE DEF BookInv
<1>1. CASE Fail(e) /\ Discarded /\ UNCHANGED <<file, published>>
  BY <1>1, FailKeepsInv DEF Rename, Discarded
<1>2. CASE /\ file' = temporary.content
           /\ published' = published \union {temporary.content}
           /\ temporary' = NoTemporary
           /\ Become(e, Published(books[e]))
  <2> DEFINE book == Published(books[e])
             saved == books[e].saving
             named == [books[e] EXCEPT !.entries = saved, !.named = TRUE,
                                       !.dirty = FALSE, !.base = saved]
  <2>1. books[e] \in BookStates /\ saved \in Contents
    BY DEF BooksTyped, BookStates
  <2>2. saved = temporary.content
    BY DEF Rename, OwnTemporary
  <2>3. saved \notin {Absent, Broken}
    BY <2>1, FilesAssumption DEF Contents
  <2>4. named \in BookStates /\ named.entries = saved /\ named.base = saved
    BY <2>1 DEF BookStates
  <2>5. book = Returned(named)
    BY DEF Published
  <2>6. /\ book \in BookStates /\ book.pc \in {"idle", "gone"}
        /\ book.pc = "idle" => ~book.leaving
        /\ book.entries = saved /\ book.base = saved
    BY <2>4, <2>5, ReturnedBook
  <2> HIDE DEF book, named
  <2>7. /\ books' \in [Engines -> BookStates]
        /\ books'[e] = book
        /\ \A f \in Engines : f = e \/ books'[f] = books[f]
    BY <1>2, <2>6, OneBook DEF BooksTyped, book
  <2>8. temporary' = NoTemporary
    BY <1>2
  <2> HIDE DEF saved
  <2>9. BooksTyped'
    BY <1>2, <2>1, <2>2, <2>6, <2>7, <2>8 DEF BooksTyped, NoTemporary, Files
  <2>10. OwnTemporary'
    BY <2>6, <2>7, OneWriter DEF OwnTemporary, Rename
  <2>11. CleanAlways'
    BY <1>2, <2>2, <2>6, <2>7 DEF CleanAlways
  <2>12. BuildsOnBase'
    BY <1>2, <2>2, <2>3, <2>6, <2>7 DEF BuildsOnBase, Whole
  <2> QED
    BY <1>2, <2>2, <2>3, <2>9, <2>10, <2>11, <2>12 DEF BookAlwaysWhole
<1> QED
  BY <1>1, <1>2 DEF Rename

LEMMA ProcessKeepsInv ==
  ASSUME BookInv, NEW e \in Engines, Crash(e) \/ Restart(e)
  PROVE  BookInv'
<1>1. ASSUME NEW book \in {NewBook, [NewBook EXCEPT !.pc = "gone"]}, Become(e, book),
             UNCHANGED <<file, temporary, published>>
      PROVE  BookInv'
  <2>1. \E step \in {"idle", "gone"} :
          book = [entries |-> {}, named |-> FALSE, dirty |-> FALSE, pc |-> step,
                  saving |-> {}, rebuilds |-> FALSE, leaving |-> FALSE,
                  base |-> Absent]
    <3>1. CASE book = NewBook
      BY <3>1 DEF NewBook
    <3>2. CASE book = [NewBook EXCEPT !.pc = "gone"]
      BY <3>2 DEF NewBook
    <3> QED
      BY <3>1, <3>2
  <2>2. /\ book \in BookStates /\ book.pc \in {"idle", "gone"} /\ ~book.leaving
        /\ ~book.named /\ book.base = Absent
    BY <2>1 DEF BookStates, Contents
  <2> QED
    BY <1>1, <2>2, CallKeepsInv
<1> QED
  BY <1>1 DEF Crash, Restart

LEMMA BookInvHolds == Spec => []BookInv
<1>1. BookInv /\ [Next]_vars => BookInv'
  <2> SUFFICES ASSUME BookInv, [Next]_vars PROVE BookInv'
    OBVIOUS
  <2>1. CASE UNCHANGED vars
    BY <2>1 DEF vars, BookInv, BooksTyped, OwnTemporary, CleanAlways, BuildsOnBase,
                BookAlwaysWhole, Whole
  <2>2. CASE Next
    BY <2>2, OpenKeepsInv, DigestKeepsInv, LearnKeepsInv, SaveKeepsInv, DestroyKeepsInv,
       CreateKeepsInv, WriteKeepsInv, RenameKeepsInv, ProcessKeepsInv DEF Next
  <2> QED
    BY <2>1, <2>2
<1> QED
  BY <1>1, BookInvInit, PTL DEF Spec

\* The files and the engines' books have their types.
THEOREM BooksTypesKept == Spec => []TypeOK
<1>1. BookInv => TypeOK
  BY DEF BookInv, BooksTyped, TypeOK, Files, Whole
<1> QED
  BY <1>1, BookInvHolds, PTL

\* "Publish a complete sibling file by rename, preserving the last good book":
\* for any number of engines, and whoever fails or dies, book.bin is whole or
\* as it was before the first of them wrote it.
THEOREM BookWhole == Spec => []BookAlwaysWhole
<1>1. BookInv => BookAlwaysWhole
  BY DEF BookInv
<1> QED
  BY <1>1, BookInvHolds, PTL

\* Entries that no save is due for are those of a file that was published.
THEOREM CleanIsPublished == Spec => []CleanMeansPublished
<1>1. BookInv => CleanMeansPublished
  BY DEF BookInv, CleanAlways, CleanMeansPublished
<1> QED
  BY <1>1, BookInvHolds, PTL

\* Only an engine that has not seen the book on disk, or whose open() could not
\* open it and builds a new one, takes a game out of it: whatever the others
\* learned and however often their saves failed in between.
THEOREM SavesKeepGames == Spec => SavesAddGames
<1>1. BookInv /\ [Next]_vars => [NothingForgotten]_vars
  <2> SUFFICES ASSUME BookInv, Next, Whole(file), ~(Whole(file') /\ file \subseteq file')
               PROVE  \E e \in Engines :
                        /\ books[e].pc = "rename"
                        /\ books[e].rebuilds \/ books[e].base # file
    BY DEF NothingForgotten
  <2>1. file' # file
    OBVIOUS
  <2>2. PICK e \in Engines : Rename(e)
    BY <2>1 DEF Next, Open, Digest, Learn, Save, Destroy, Create, Write, Crash, Restart
  <2>3. file' = temporary.content /\ books[e].pc = "rename"
    BY <2>1, <2>2 DEF Rename
  <2>4. file' = books[e].saving /\ books[e].saving \in Contents
    BY <2>3 DEF BookInv, OwnTemporary, BooksTyped, BookStates
  <2>5. Whole(file') /\ ~(file \subseteq books[e].saving)
    BY <2>4, FilesAssumption DEF Whole, Contents
  <2>6. ASSUME books[e].base = file, ~books[e].rebuilds
        PROVE  FALSE
    BY <2>3, <2>5, <2>6 DEF BookInv, BuildsOnBase, Whole
  <2> QED
    BY <2>3, <2>6
<1> QED
  BY <1>1, BookInvHolds, PTL DEF Spec, SavesAddGames

-----------------------------------------------------------------------------
(***************************************************************************)
(* The evaluator's weights.                                                *)
(***************************************************************************)
CONSTANTS Weights, Default, NoFile, Torn, Garbled

VARIABLES brain, brainTemporary, history, live, cached, learningOn, positions, candidate, pc

Brain == INSTANCE Learning WITH temporary <- brainTemporary

\* The temporary file holds the whole candidate from its last write to the
\* rename, the line of the candidate is the last one before the rename, and
\* brain.dat is the candidate after it.
CallSteps ==
  /\ pc \in {"record", "rename"} => brainTemporary = candidate
  /\ pc = "rename" =>
       history # <<>> /\ history[Len(history)] \in {candidate, Garbled}
  /\ pc = "install" => brain = candidate

BrainTyped == candidate \in Weights /\ history \in Seq(Weights \union {Torn, Garbled})

BrainInv ==
  /\ BrainTyped /\ CallSteps
  /\ Brain!BrainWhole /\ Brain!LivePublished /\ Brain!CacheFollowsLive

WeightsAssumption == Default \in Weights

-----------------------------------------------------------------------------
\* Appending a line, or gluing it to one that was cut short, leaves it last.
LEMMA LineIsLast ==
  ASSUME history \in Seq(Weights \union {Torn, Garbled}), NEW line \in Weights \union {Torn}
  PROVE  /\ Brain!Lines(line) \in Seq(Weights \union {Torn, Garbled})
         /\ Brain!Lines(line) # <<>>
         /\ Brain!Lines(line)[Len(Brain!Lines(line))] \in {line, Garbled}
<1> DEFINE S == Weights \union {Torn, Garbled}
<1>1. CASE Brain!CutShort
  <2> DEFINE n == Len(history)
             glued == IF line = Torn THEN Torn ELSE Garbled
             t == [history EXCEPT ![n] = glued]
  <2>1. n \in 1 .. Len(history) /\ glued \in S /\ glued \in {line, Garbled}
    BY <1>1 DEF Brain!CutShort
  <2>2. t \in Seq(S) /\ Len(t) = n /\ t[n] = glued
    BY <2>1
  <2>3. Brain!Lines(line) = t
    BY <1>1 DEF Brain!Lines
  <2> QED
    BY <2>1, <2>2, <2>3
<1>2. CASE ~Brain!CutShort
  <2>1. Brain!Lines(line) = Append(history, line)
    BY <1>2 DEF Brain!Lines
  <2> QED
    BY <2>1
<1> QED
  BY <1>1, <1>2

LEMMA PartsAreLines ==
  ASSUME BrainTyped
  PROVE  Brain!WrittenInPart \subseteq Seq(Weights \union {Torn, Garbled})
BY LineIsLast DEF Brain!WrittenInPart, BrainTyped

LEMMA BrainInvHolds ==
  ASSUME WeightsAssumption
  PROVE  Brain!Spec => []BrainInv
<1> USE DEF BrainTyped, CallSteps,
            Brain!BrainWhole, Brain!LivePublished, Brain!CacheFollowsLive
<1>1. Brain!Init => BrainInv
  BY WeightsAssumption DEF Brain!Init, BrainInv, WeightsAssumption
<1>2. BrainInv /\ [Brain!Next]_(Brain!vars) => BrainInv'
  <2> SUFFICES ASSUME BrainInv, [Brain!Next]_(Brain!vars) PROVE BrainInv'
    OBVIOUS
  <2> USE DEF BrainInv, Brain!disk, Brain!memory
  <2>1. ASSUME NEW value \in BOOLEAN, Brain!SetLearning(value) PROVE BrainInv'
    BY <2>1 DEF Brain!SetLearning
  <2>2. CASE Brain!Search
    BY <2>2 DEF Brain!Search
  <2>3. CASE Brain!Trigger
    BY <2>3 DEF Brain!Trigger
  <2>4. CASE Brain!Open
    BY <2>4 DEF Brain!Open, Brain!Fail
  <2>5. CASE Brain!Write
    BY <2>5 DEF Brain!Write, Brain!Fail
  <2>6. CASE Brain!Record
    <3>1. CASE history' = Brain!Lines(candidate) /\ pc' = "rename"
      <4>1. /\ history' \in Seq(Weights \union {Torn, Garbled})
            /\ history' # <<>> /\ history'[Len(history')] \in {candidate', Garbled}
        BY <2>6, <3>1, LineIsLast DEF Brain!Record
      <4> QED
        BY <2>6, <3>1, <4>1 DEF Brain!Record
    <3>2. CASE history' \in Brain!WrittenInPart /\ Brain!Fail
      <4>1. history' \in Seq(Weights \union {Torn, Garbled})
        BY <3>2, PartsAreLines
      <4> QED
        BY <2>6, <3>2, <4>1 DEF Brain!Record, Brain!Fail
    <3> QED
      BY <2>6, <3>1, <3>2 DEF Brain!Record
  <2>7. CASE Brain!Rename
    BY <2>7 DEF Brain!Rename, Brain!Fail
  <2>8. CASE Brain!Discard
    BY <2>8 DEF Brain!Discard
  <2>9. CASE Brain!Install
    BY <2>9 DEF Brain!Install
  <2>10. CASE Brain!Crash
    <3>1. history' \in Seq(Weights \union {Torn, Garbled})
      BY <2>10, PartsAreLines DEF Brain!Crash
    <3> QED
      BY <2>10, <3>1 DEF Brain!Crash
  <2>11. CASE UNCHANGED Brain!vars
    BY <2>11 DEF Brain!vars
  <2> QED
    BY <2>1, <2>2, <2>3, <2>4, <2>5, <2>6, <2>7, <2>8, <2>9, <2>10, <2>11 DEF Brain!Next
<1> QED
  BY <1>1, <1>2, PTL DEF Brain!Spec

\* "Keep the original brain file until the complete native-double payload and
\* text history have been written": whatever fails, brain.dat is whole.
THEOREM BrainAlwaysWhole ==
  ASSUME WeightsAssumption
  PROVE  Brain!Spec => []Brain!BrainWhole
<1>1. BrainInv => Brain!BrainWhole
  BY DEF BrainInv
<1> QED
  BY <1>1, BrainInvHolds, PTL

\* "Live weights and cached evaluations change only after that succeeds".
THEOREM PlayedWeightsPublished ==
  ASSUME WeightsAssumption
  PROVE  Brain!Spec => [](Brain!LivePublished /\ Brain!CacheFollowsLive)
<1>1. BrainInv => Brain!LivePublished /\ Brain!CacheFollowsLive
  BY DEF BrainInv
<1> QED
  BY <1>1, BrainInvHolds, PTL

\* No weights are published that history.txt was not given first.
THEOREM RecordPrecedesPublication ==
  ASSUME WeightsAssumption
  PROVE  Brain!Spec => Brain!PublishedAfterRecord
<1> DEFINE Recorded ==
      brain' # brain => history # <<>> /\ history[Len(history)] \in {brain', Garbled}
<1>1. BrainInv /\ [Brain!Next]_(Brain!vars) => [Recorded]_(Brain!vars)
  <2> SUFFICES ASSUME BrainInv, Brain!Next, brain' # brain
               PROVE  Recorded
    BY DEF Brain!vars, Brain!disk
  <2>1. Brain!Rename
    BY DEF Brain!Next, Brain!SetLearning, Brain!Search, Brain!Trigger, Brain!Open,
           Brain!Write, Brain!Record, Brain!Discard, Brain!Install, Brain!Crash, Brain!disk
  <2> QED
    BY <2>1 DEF BrainInv, CallSteps, Brain!Rename
<1> QED
  BY <1>1, BrainInvHolds, PTL DEF Brain!Spec, Brain!PublishedAfterRecord
=============================================================================
