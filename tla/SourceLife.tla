------------------------------ MODULE SourceLife ------------------------------
(***************************************************************************)
(* The life of the lexical sources: FileLexSource and SZLexSource          *)
(* (src/src/LexSource.hpp) and MemoryMappedLexSource over MappedFile       *)
(* (MemoryMappedLexSource.hpp, MappedFile.hpp), which are opened, attached,*)
(* detached and closed again and again, as benchmarks() of main.cpp does,  *)
(* and what is behind them: FILEs, mappings and strings.  What a source    *)
(* reads, once it has something behind it, is in module LexSource.         *)
(***************************************************************************)
EXTENDS LexSource

CONSTANTS
  FileReaders, MappedReaders, TextReaders,   \* the sources
  Handles, Mappings, Texts,                  \* FILEs, mappings and strings
  Nothing,                                   \* nullptr
  Ascii,                                     \* the ASCII characters there are
  Contents,                                  \* what may be in a file or string
  PageSize

Readers == FileReaders \cup MappedReaders \cup TextReaders
Things == Handles \cup Mappings \cup Texts
Bytes == Ascii \cup HighBytes
Brackets == {"["}   \* what is looked for

ASSUME SourceLifeAssumption ==
  /\ FileReaders \cap MappedReaders = {}
  /\ FileReaders \cap TextReaders = {}
  /\ MappedReaders \cap TextReaders = {}
  /\ Nothing \notin Things
  /\ Brackets \subseteq Ascii
  /\ Contents \subseteq Seq(Bytes)
  /\ PageSize \in Nat \ {0}

VARIABLES
  held,    \* m_pfile, m_start or m_sz of each source
  live,    \* the FILEs that are open, the mappings and strings there are
  mine,    \* those that the program has made itself
  bytes,   \* what is left to be read of each of its own
  ls       \* the sources
vars == <<held, live, mine, bytes, ls>>

KindOf(s) == IF s \in FileReaders THEN "file" ELSE IF s \in MappedReaders THEN "mmap" ELSE "sz"
Holds(s) ==
  IF s \in FileReaders THEN Handles ELSE IF s \in MappedReaders THEN Mappings ELSE Texts

\* A new source is Initial and has nothing behind it.
New(s) == Opened(KindOf(s), << >>)

Init ==
  /\ held = [s \in Readers |-> Nothing]
  /\ live = {}
  /\ mine = {}
  /\ bytes = [o \in Things |-> << >>]
  /\ ls = [s \in Readers |-> New(s)]

Free(o) == \A s \in Readers : held[s] # o

-----------------------------------------------------------------------------
(* The program: it opens FILEs and makes strings of its own, gives each to   *)
(* no more than one source at a time and disposes of none that one has.      *)

Make(o, content) ==
  /\ o \in (Handles \cup Texts) \ live
  /\ live' = live \cup {o}
  /\ mine' = mine \cup {o}
  /\ bytes' = [bytes EXCEPT ![o] = content]
  /\ UNCHANGED <<held, ls>>

Dispose(o) ==
  /\ o \in mine /\ Free(o)
  /\ live' = live \ {o}
  /\ mine' = mine \ {o}
  /\ bytes' = [bytes EXCEPT ![o] = << >>]
  /\ UNCHANGED <<held, ls>>

\* The destructors release nothing: the program has the source closed first.
Renew(s) ==
  /\ held[s] = Nothing
  /\ ls' = [ls EXCEPT ![s] = New(s)]
  /\ UNCHANGED <<held, live, mine, bytes>>

-----------------------------------------------------------------------------
(* open() of a file, or of a mapping, and close().  map_file() refuses an    *)
(* empty file, and closes the descriptor in any case.  A call that fails     *)
(* changes nothing.                                                          *)

Mappable(content) == content # << >>

\* Mutants: that there is a file open is not asked; the source is not reset.
Open_Again(s, o, content) ==
  /\ s \in FileReaders \cup MappedReaders
  /\ o \in Holds(s) \ live
  /\ s \in MappedReaders => Mappable(content)
  /\ held' = [held EXCEPT ![s] = o]
  /\ live' = live \cup {o}
  /\ ls' = [ls EXCEPT ![s] = Opened(KindOf(s), content)]
  /\ UNCHANGED <<mine, bytes>>
Open_KeepsState(s, o, content) ==
  /\ s \in FileReaders \cup MappedReaders
  /\ held[s] = Nothing
  /\ o \in Holds(s) \ live
  /\ s \in MappedReaders => Mappable(content)
  /\ held' = [held EXCEPT ![s] = o]
  /\ live' = live \cup {o}
  /\ ls' = [ls EXCEPT ![s].in = content, ![s].at = 0]
  /\ UNCHANGED <<mine, bytes>>

Open(s, o, content) ==
  /\ s \in FileReaders \cup MappedReaders
  /\ held[s] = Nothing
  /\ o \in Holds(s) \ live
  /\ s \in MappedReaders => Mappable(content)
  /\ held' = [held EXCEPT ![s] = o]
  /\ live' = live \cup {o}
  /\ ls' = [ls EXCEPT ![s] = Opened(KindOf(s), content)]
  /\ UNCHANGED <<mine, bytes>>

\* A FILE that the program has attached is closed like any other.  Neither the
\* state nor the character under the cursor is taken away (what was to be read
\* stays in ls, out of reach).
Close(s) ==
  /\ s \in FileReaders \cup MappedReaders
  /\ held[s] # Nothing
  /\ held' = [held EXCEPT ![s] = Nothing]
  /\ live' = live \ {held[s]}
  /\ mine' = mine \ {held[s]}
  /\ bytes' = [bytes EXCEPT ![held[s]] = << >>]
  /\ UNCHANGED ls

-----------------------------------------------------------------------------
(* attach() and detach().  attach() of a FileLexSource does not say what it  *)
(* returns; the program does not ask.  detach() gives nothing back: it is    *)
(* for what the program has attached.                                        *)

Attach(s, o) ==
  /\ s \in FileReaders \cup TextReaders
  /\ held[s] = Nothing
  /\ o \in mine \cap Holds(s) /\ Free(o)
  /\ held' = [held EXCEPT ![s] = o]
  /\ ls' = [ls EXCEPT ![s] = Opened(KindOf(s), bytes[o])]
  /\ UNCHANGED <<live, mine, bytes>>

\* A FILE stays where the source has read it to.
Unread(s) == IF s \in FileReaders THEN SubSeq(ls[s].in, ls[s].at + 1, Len(ls[s].in)) ELSE ls[s].in

Detach(s) ==
  /\ s \in FileReaders \cup TextReaders
  /\ held[s] \in mine
  /\ held' = [held EXCEPT ![s] = Nothing]
  /\ bytes' = [bytes EXCEPT ![held[s]] = Unread(s)]
  /\ UNCHANGED <<live, mine, ls>>

-----------------------------------------------------------------------------
(* advance() and skipToAny(), which a client calls while there is more: also *)
(* on a source that it has not read from, as skipToEndArray() does.          *)

\* Mutant: whether there is anything to read is not asked.
Read_Unasked(s) == Advance(ls[s])

Read(s) ==
  IF held[s] = Nothing THEN [ls[s] EXCEPT !.state = Closed, !.current = NUL] ELSE Advance(ls[s])

\* A search comes to strpbrk, unless a mapping gives up first.
Strpbrk(s) ==
  /\ s \in MappedReaders \cup TextReaders
  /\ held[s] # Nothing /\ More(ls[s])
  /\ s \in MappedReaders => ls[s].position < Len(ls[s].in)

\* Where in the text it ends: at a bracket or one past the last byte.
EndOfSearch(l) == FirstIn(l.in, IF l.at = 0 THEN 1 ELSE l.at, Brackets)

\* strpbrk starts at the byte before the next one.  If nothing has been read
\* yet that is the byte in front of the text, which may be a bracket, a NUL at
\* which it stops, or any other that it passes over.
Starts(s) == ls[s].state = Ok \/ ls[s].at # 0
InFront(l) ==
  {[l EXCEPT !.current = c] : c \in Brackets} \cup {SkippedTo(l, Len(l.in) + 1).ls}

\* A mapping that fills its last page has no NUL behind it, and a search that
\* finds nothing in it goes on: to a NUL, or to a bracket, which is taken to be
\* the first byte there.
FillsPage(s) == s \in MappedReaders /\ Len(ls[s].in) % PageSize = 0
Stops(s) == ~ FillsPage(s) \/ EndOfSearch(ls[s]) <= Len(ls[s].in)
Behind(l) ==
  {[l EXCEPT !.at = Len(l.in) + 1, !.position = Len(l.in) + 1, !.current = c] : c \in Brackets}

\* What a search may leave; where such a byte cannot be read there is no step.
\* FileLexSource looks at current() before it finds that it is closed.
Search(s) ==
  IF held[s] # Nothing
    THEN {SkipToAny(ls[s], Brackets).ls}
           \cup (IF Strpbrk(s) /\ ~ Starts(s) THEN InFront(ls[s]) ELSE {})
           \cup (IF Strpbrk(s) /\ ~ Stops(s) THEN Behind(ls[s]) ELSE {})
  ELSE IF s \in FileReaders /\ ls[s].current \in Brackets \cup {NUL} THEN {ls[s]}
  ELSE {[ls[s] EXCEPT !.state = Closed]}

Uses(s) ==
  /\ More(ls[s])
  /\ \E l \in {Read(s)} \cup Search(s) : ls' = [ls EXCEPT ![s] = l]
  /\ UNCHANGED <<held, live, mine, bytes>>

-----------------------------------------------------------------------------
Next ==
  \/ \E o \in Things, content \in Contents : Make(o, content)
  \/ \E o \in Things : Dispose(o)
  \/ \E s \in Readers, o \in Things, content \in Contents : Open(s, o, content)
  \/ \E s \in Readers, o \in Things : Attach(s, o)
  \/ \E s \in Readers : Close(s) \/ Detach(s) \/ Uses(s) \/ Renew(s)

Spec == Init /\ [][Next]_vars

-----------------------------------------------------------------------------
HoldTypes ==
  /\ held \in [Readers -> Things \cup {Nothing}]
  /\ live \subseteq Things
  /\ mine \subseteq live
SourceTypes ==
  /\ bytes \in [Things -> Seq(Bytes)]
  /\ ls \in [Readers -> Sources(Ascii)]
  /\ \A s \in Readers : ls[s].kind = KindOf(s)

\* No source reads a FILE that has been closed or a mapping that is gone,
\* whoever has closed it: m_pfile, m_start and m_sz are nullptr or lead to
\* something there is.
HeldIsLive == \A s \in Readers : held[s] = Nothing \/ held[s] \in live \cap Holds(s)

\* Two sources never read the same FILE, so that close() of one does not
\* take it away from the other.
Apart == \A s, t \in Readers : s # t /\ held[s] = held[t] => held[s] = Nothing

\* Every FILE and mapping that is open can still be closed by someone: the
\* program, or the source it is behind.
NothingLost == \A o \in live : o \in mine \/ \E s \in Readers : held[s] = o

\* A source that is Ok has come as far as its first byte at least, and none
\* further than the last, except for what is mapped and fills its last page:
\* a bracket may have been found behind that, where no search goes on.
InText ==
  \A s \in Readers :
    /\ ls[s].state = Ok => ls[s].at >= 1
    /\ \/ ls[s].at <= Len(ls[s].in)
       \/ /\ FillsPage(s)
          /\ ls[s].at = Len(ls[s].in) + 1
          /\ ls[s].position >= Len(ls[s].in)

\* strpbrk reads no byte outside of the string or the pages of the mapping,
\* from the one before the next one to the one it finds or the terminating
\* NUL, as long as the source has been started, that is read from or searched
\* with success, since it was opened, and, if what is mapped fills its last
\* page, there is a bracket left in it: however often the source has been
\* opened, closed and attached before.  In the two other cases it does read one
\* (LexSource.hpp:475, MemoryMappedLexSource.hpp:37).
Readable(s) ==
  LET n == Len(ls[s].in)
  IN  IF s \in TextReaders THEN n + 1 ELSE PageSize * ((n + PageSize - 1) \div PageSize)

SearchInBounds ==
  \A s \in MappedReaders \cup TextReaders :
    Strpbrk(s) =>
      (Starts(s) /\ Stops(s) <=> ls[s].at >= 1 /\ EndOfSearch(ls[s]) <= Readable(s))

\* A source that has been closed or detached, or never opened, yields no
\* character but the one that was under its cursor.
ClosedIsSilent ==
  [][\A s \in Readers : held[s] = Nothing /\ held'[s] = Nothing =>
       /\ ls'[s].current \in {ls[s].current, NUL}
       /\ ls'[s].position <= ls[s].position]_vars

\* The inductive invariant of the proofs: who holds what, which does not depend
\* on what is read, and how far it has been read.
Ownership == HoldTypes /\ HeldIsLive /\ Apart /\ NothingLost
LifeInv == Ownership /\ SourceTypes /\ InText
=============================================================================
