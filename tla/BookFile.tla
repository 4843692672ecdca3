------------------------------ MODULE BookFile ------------------------------
(***************************************************************************)
(* The opening book on disk (src/src/book.cpp): engines that share one     *)
(* book.bin open it, learn from games and save it by writing a sibling     *)
(* .tmp file and renaming it, while any of them may die at any step.       *)
(*                                                                         *)
(* An entry's counters are left out: a book is the set of games it has     *)
(* learned, on top of what the PGN file gives.  Opening a file and reading *)
(* it is one step, as a rename does not change a file that is open.  A     *)
(* symbolic link in the book's place is one of the reasons not to save; a  *)
(* file that is there may not open (permissions, descriptors), and one     *)
(* that is to be removed may stay.                                         *)
(***************************************************************************)
EXTENDS FiniteSets

CONSTANTS
  Engines,
  Games,
  Digests,   \* may an engine rebuild its book from the PGN file?
  Nobody,
  Absent,    \* there is no such file
  Broken     \* the file is not a whole book

ASSUME FilesAssumption ==
  /\ Nobody \notin Engines
  /\ Digests \in BOOLEAN
  /\ Absent # Broken
  /\ \A book \in SUBSET Games : book \notin {Absent, Broken}

VARIABLES
  file,       \* book.bin: a whole book, Absent or Broken
  temporary,  \* book.bin.tmp
  books,      \* per engine: its Book, where it is in a call, and (a ghost) the
              \* file its entries build on
  published   \* every book that book.bin has held

vars == <<file, temporary, books, published>>

Contents == SUBSET Games
Whole(content) == content \notin {Absent, Broken}
NoTemporary == [owner |-> Nobody, content |-> Absent]

\* A Book(): no entries, no file name.
NewBook == [entries |-> {}, named |-> FALSE, dirty |-> FALSE, pc |-> "idle",
            saving |-> {}, rebuilds |-> FALSE, leaving |-> FALSE, base |-> Absent]

Idle(e) == books[e].pc = "idle"
Become(e, book) == books' = [books EXCEPT ![e] = book]

\* save() is called; its content is fixed now, as nobody else has the Book.
Saving(book, content) == [book EXCEPT !.pc = "create", !.saving = content]

\* open() saves a replacement it has built from the PGN file.
Rebuilding(book) == [Saving(book, {}) EXCEPT !.rebuilds = TRUE]

\* A call ends; a destroyed Book is gone.
Returned(book) ==
  [book EXCEPT !.pc = IF book.leaving THEN "gone" ELSE "idle",
               !.saving = {}, !.rebuilds = FALSE]
-----------------------------------------------------------------------------
\* Mutant: a book that already has entries keeps them.
LoadedOnce(book) ==
  [book EXCEPT !.entries = IF book.named THEN @ ELSE file,
               !.named = TRUE, !.dirty = FALSE, !.base = file]
Loaded(book) ==
  [book EXCEPT !.entries = file, !.named = TRUE, !.dirty = FALSE, !.base = file]

\* open(): load the file; a file that does not open, be it missing or not, is
\* built anew from the PGN file and saved.
Open(e) ==
  /\ Idle(e)
  /\ \/ Whole(file) /\ Become(e, Loaded(books[e]))
     \/ Become(e, Rebuilding(books[e]))
     \/ UNCHANGED books   \* a broken file or a failed read, or no PGN file
  /\ UNCHANGED <<file, temporary, published>>

\* digest(): a failure keeps the entries.
Digest(e) ==
  /\ Digests /\ Idle(e)
  /\ Become(e, [books[e] EXCEPT !.entries = {}, !.dirty = TRUE, !.base = Absent])
  /\ UNCHANGED <<file, temporary, published>>

\* learning(): save what was learned, and what an earlier save left unsaved.
\* Mutant: a save is tried once, and then forgotten.
LearnedOnce(book, games) == [book EXCEPT !.entries = @ \union games, !.dirty = FALSE]
Learned(book, games) ==
  [book EXCEPT !.entries = @ \union games, !.dirty = @ \/ games # {}]

Learn(e) ==
  /\ Idle(e)
  /\ \E games \in {{}} \union {{g} : g \in Games} :
       LET book == Learned(books[e], games)
       IN Become(e, IF (book.dirty \/ games # {}) /\ book.named
                    THEN Saving(book, book.entries) ELSE book)
  /\ UNCHANGED <<file, temporary, published>>

\* close() of a named book, or save() of one rebuilt from the PGN file.
Save(e) ==
  /\ Idle(e)
  /\ books[e].named \/ Digests
  /\ Become(e, Saving(books[e], books[e].entries))
  /\ UNCHANGED <<file, temporary, published>>

Destroy(e) ==
  /\ Idle(e)
  /\ Become(e, IF books[e].dirty /\ books[e].named
               THEN [Saving(books[e], books[e].entries) EXCEPT !.leaving = TRUE]
               ELSE [books[e] EXCEPT !.pc = "gone"])
  /\ UNCHANGED <<file, temporary, published>>
-----------------------------------------------------------------------------
(***************************************************************************)
(* save(), step by step.  Each may fail.                                   *)
(***************************************************************************)
Fail(e) == Become(e, Returned(books[e]))

\* Whether the temporary file could be removed is ignored.
Discarded == temporary' \in {NoTemporary, temporary}

\* The file is opened with noreplace.
MayCreate == temporary = NoTemporary

Create(e) ==
  /\ books[e].pc = "create"
  /\ \/ /\ MayCreate
        /\ temporary' = [owner |-> e, content |-> Broken]
        /\ Become(e, [books[e] EXCEPT !.pc = "write"])
     \/ Fail(e) /\ UNCHANGED temporary
  /\ UNCHANGED <<file, published>>

\* Mutant: a short write goes unnoticed.
WrittenUnchecked(e) ==
  /\ temporary' \in {temporary, [owner |-> e, content |-> books[e].saving]}
  /\ Become(e, [books[e] EXCEPT !.pc = "rename"])

Written(e) ==
  /\ temporary' = [owner |-> e, content |-> books[e].saving]
  /\ Become(e, [books[e] EXCEPT !.pc = "rename"])

Write(e) ==
  /\ books[e].pc = "write"
  /\ Written(e) \/ (Fail(e) /\ Discarded)
  /\ UNCHANGED <<file, published>>

\* The file is published.  An open() takes the new book over.
Published(book) ==
  Returned([book EXCEPT !.entries = book.saving, !.named = TRUE,
                        !.dirty = FALSE, !.base = book.saving])

Rename(e) ==
  /\ books[e].pc = "rename"
  /\ \/ /\ file' = temporary.content
        /\ published' = published \union {temporary.content}
        /\ temporary' = NoTemporary
        /\ Become(e, Published(books[e]))
     \/ Fail(e) /\ Discarded /\ UNCHANGED <<file, published>>

\* The process ends at any point; its temporary file stays.
Crash(e) ==
  /\ books[e].pc # "gone"
  /\ Become(e, [NewBook EXCEPT !.pc = "gone"])
  /\ UNCHANGED <<file, temporary, published>>

Restart(e) ==
  /\ books[e].pc = "gone"
  /\ Become(e, NewBook)
  /\ UNCHANGED <<file, temporary, published>>
-----------------------------------------------------------------------------
Init ==
  /\ file \in {Absent, Broken, {}}
  /\ temporary = NoTemporary
  /\ books = [e \in Engines |-> NewBook]
  /\ published = {file}

Next ==
  \E e \in Engines :
    \/ Open(e) \/ Digest(e) \/ Learn(e) \/ Save(e) \/ Destroy(e)
    \/ Create(e) \/ Write(e) \/ Rename(e)
    \/ Crash(e) \/ Restart(e)

Spec == Init /\ [][Next]_vars
-----------------------------------------------------------------------------
(***************************************************************************)
(* Properties.                                                             *)
(***************************************************************************)
BookStates ==
  [entries : Contents, named : BOOLEAN, dirty : BOOLEAN,
   pc : {"idle", "create", "write", "rename", "gone"},
   saving : Contents, rebuilds : BOOLEAN, leaving : BOOLEAN,
   base : Contents \union {Absent}]

\* The types of the files and books.  A book in use is not being destroyed,
\* and a file that is not there is nobody's.
TypeOK ==
  /\ \A content \in published \union {file, temporary.content} :
       Whole(content) => content \in Contents
  /\ temporary.owner \in Engines \union {Nobody}
  /\ temporary.content = Absent <=> temporary = NoTemporary
  /\ books \in [Engines -> BookStates]
  /\ \A e \in Engines : books[e].pc = "idle" => ~books[e].leaving

\* "Publish a complete sibling file by rename, preserving the last good book":
\* whoever dies or fails, at every moment book.bin is whole, or as it was
\* before any engine wrote it.
BookAlwaysWhole == file = Broken => published = {Broken}

\* Entries that are not marked for saving have been on disk.
CleanMeansPublished ==
  \A e \in Engines :
    books[e].pc = "idle" /\ books[e].named /\ ~books[e].dirty
      => books[e].entries \in published

\* A step takes a game out of the book on disk only when the engine that renames
\* has not seen that book since it was published, or when its open() could not
\* open it and builds a new one: an engine that saves its own entries over the
\* file they build on keeps every game of it, however often its saves failed in
\* between, whatever it learned and whatever temporary files were left.
NothingForgotten ==
  Whole(file) /\ ~(Whole(file') /\ file \subseteq file')
    => \E e \in Engines :
         /\ books[e].pc = "rename"
         /\ books[e].rebuilds \/ books[e].base # file
SavesAddGames == [][NothingForgotten]_vars
=============================================================================
