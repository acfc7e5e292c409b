# JSON-CPP in TLA+

A TLA+ model of the JSON processor in `src/src/`: a pull parser that reads a
document of any length through a buffer of a few bytes, can skip over what the
caller does not want, search it for fields, and copy what the caller does want
into a bump allocator, as trees or as single values. The modules are
model-checked with TLC on small instances. Four parts are also proved with TLAPS
for every value of their parameters: the memory pool, the streaming of a value
through the capture buffer, the life of the sources, and the reader under a
client that reads, skips and searches over any bytes whatever.

Run a module with `tlc -config X.cfg M`, and its proofs with `tlapm M.tla`.
`PROJECT.json` lists every run, what it checks, and the source lines each
definition stands for.

## 1. The system

| Component | Source | State | Operations |
|---|---|---|---|
| Memory pools | `MemoryPool.hpp` | `m_heap`, `m_next`, capacity | construct, `alloc`, `unalloc`, `freeAll` |
| Lexical sources | `LexSource.hpp`, `MemoryMappedLexSource.hpp` | `m_current`, `m_state`, `m_position`, the input cursor, the capture buffer, and the FILE, mapping or string behind it | `ensureStarted`, `advance`, `skipToAny` (one per kind of source), `capture`, `clearCapture`, `open`, `attach`, `detach`, `close` |
| File mapping | `MappedFile.hpp` | a pointer and a size | `open`, `close` |
| Lexers and scanners | `JsonUtility.hpp` | none of their own; `JsonLexState` for numbers and literals | `undecorate`, `skipStringPart`, `skipWhiteSpace`, `lexNumber`, `lexLiteral`, `decodeUtf8` |
| Pull parser: reading | `JsonReader.hpp` | `m_state`, `m_valueType`, `m_lexState`, `m_lastError`, `m_objectDepth` | `read` and the accessors |
| Pull parser: skipping and searching | `JsonReader.hpp` | the same, and the level a search for descendants is at, which the caller keeps | `skipSubtree`, `skipToIndex`, `skipToEndArray`, `skipToEndObject`, `skipToField`, `skipToFieldValue` |
| Extraction | `JsonReader.hpp` | the reader, a pool, the elements a query fills in | `parseSubtree`, `extract` |
| In-memory trees | `JsonTree.hpp` | elements and their linked lists, in a pool | `addField`, `addItem`, `allocString`, `operator[]`, `extract`, `toString` |
| Demonstration | `main.cpp` | one reader, one pool | seven functions that query a file, `benchmarks`, `scratch` |

How they interact: everything is a synchronous call. The client calls the
reader; the reader calls the scanners; a scanner advances the source and asks it
to capture; the source reads bytes. `extract` and `parseSubtree` are clients of
the reader's own public functions, of a pool and of the tree. There are no
threads, callbacks or retries, and nothing persists. The program is hard for
other reasons:

* **A call can stop in the middle of anything.** A value that does not fit the
  capture buffer is handed over in parts, so a scan is suspended wherever the
  buffer runs out and resumed by the next `read()`, and what is kept between the
  calls (the automaton, the lookahead, the sticky out-of-memory state) has to be
  exactly enough.
* **Four ways over the same document.** Reading parses; skipping looks only at
  quotes, brackets and commas and counts them; searching compares names while it
  consumes them; extracting does all three in one pass. A client mixes them, so
  each has to leave the cursor and the node where the others expect them.
* **The last byte.** Each kind of source reports the end of the input at a
  different time, and most functions have an exit of their own for it.
* **A pool that refuses.** Any block of a tree may be refused after others have
  been granted and linked, and what is there then has to be told by the return
  value.
* **Errors and recovery.** Some errors leave the reader usable, others put it in
  the error state. After either the client may keep calling.
* **Sources that outlive what they read.** A source does not own what it was
  given with `attach`, its destructor releases nothing, and `close` leaves its
  state as it was.

What makes each component correct, and what is asked of the model:

* pools: live blocks are disjoint and inside the heap; a refused call changes
  nothing; the size check does not wrap.
* sources and capture: no byte is lost, doubled or written past the buffer at a
  chunk boundary; the cursor never stops inside a code point; a source reads
  nothing that has been closed, nothing stays open, and a search stays inside
  the text.
* reader: on a valid document the nodes are reported in order, each once, with
  their text and value, and without an error, however the document is spaced and
  whatever the buffer holds; on any input at all each call that succeeds makes
  progress, and the error state is final.
* skipping and searching: where a skip lands depends on the shape of the document
  only, and a search finds the next field of its name within its bounds, if
  there is one.
* extraction: the caller gets the tree of what it asked for, or is told that the
  pool is too small, and the reader is behind the element in any case.
* trees: an element has in it what the calls that returned true put there.

## 2. The plan

The modules are written from the bottom up, so that each composes those before.

1. `MemoryPool` over the abstract `Allocator`, with proofs. *Done.*
2. `LexSource`, `JsonUtility`: sources and scanners as operators. *Done.*
3. `ValueCapture`: chunked capture as a state machine, with proofs. *Done.*
4. `JsonReader`, `JsonNavigation`, `JsonPull`: the reader and its calls. *Done.*
5. `NodeStream`, `JsonDocuments`, `JsonConformance`: what the reader promises,
   and the reader checked against it. *Done.*
6. `JsonSearch`, `FieldStream`, `SearchConformance`: `skipToField` on its three
   axes, against a place found by name and axis. *Done.*
7. `JsonTree` and `TreeBuilding`; `JsonExtract`, `ElementStream` and
   `QueryConformance`: trees over a pool that may refuse, `parseSubtree` and
   `extract`, against a definition of the tree of a document. *Done.*
8. The value of numbers, through chunks. *Done for the digits before the point,
   their sign and the exponent; left: digits after the point, overflow.*
9. `Demonstration`: the functions of `main.cpp` over all of these. *Done.*
10. `SourceLife`: open, attach, detach and close of each kind of source, with
    proofs. *Done.*
11. `Loops`, and the proofs of the reader from the bottom up: loops, scanners,
    `read()`, the skips, `skipToField`, and `JsonClient`, which calls them all in any
    order on any input. *Done.*
12. Left: that bracket counting stops at the matching end of a well-formed
    container; that a list of `JsonTree` stays walkable over a pool that refuses, for
    which `Link` has to move away from the recursive operators of that module.

## 3. The modules

**`Allocator`, `MemoryPool`, `MemoryPoolProofs`.** Addresses are offsets from
`m_heap`, so `next` is `used()`. `DoesNotFit` is the code's check in `size_t`
arithmetic modulo `SizeMod`. Each operation is one or two actions, by its early
return. `live` is a history variable: the blocks handed out and not cut into
since, because `unalloc` gives back the *last* bytes whoever holds them.
`Allocator` says what a client may count on without saying where blocks are.

**`LexSource`.** A source is a record, `kind` of which selects the implementation
of `skipToAny`; each member function is an operator from record to record. An
ASCII byte is a one-character string; above 0x7f only the length class of a byte
matters, and so the code points above ASCII are `Cp2`, `Cp3` and `Cp4`. That is
exact for well-formed UTF-8, whole or cut short; on malformed UTF-8 the code can
swallow ASCII bytes into a code point, which the model does not follow, so no run
uses it. `at` counts the bytes consumed; `position` is kept apart, as in the
code, because the mapped source's `skipToAny` looks at it. `CaptureCapacity` is
`TCapacity - 1`, at least 4 by the `static_assert`.

**`SourceLife`, `SourceLifeProofs`.** The same sources with what is behind them.
`held[s]` is `m_pfile`, `m_start` or `m_sz`; `live` is what is open, `mine` what
the program made itself, and `bytes` what is left to be read of it (a FILE that
is detached stays where the source has read it to). `open`, `attach`, `detach`
and `close` are an action each, for every source that has them; a call whose
early return leaves everything as it is is a stuttering step. `Uses` is
`advance()` or `skipToAny()`, by a client that asks `more()` first, as the reader
does; the search may be the first thing it asks of a source, since
`skipToEndArray()` and `skipToEndObject()` do not start one. The program keeps to
what `main.cpp` does: it closes a source before it leaves it, gives a FILE to one
source at a time, and detaches only what it attached. It may map any file that
is not empty, also one that fills its last page (`MemoryMappedLexSource.hpp:35`
only thinks that zeros follow).

`Search` is the set of what a search may leave. `strpbrk` starts at the byte
before the next one, which on a source that nothing has been read of is in front
of the text (`Starts`), and in a mapping that fills its last page it may find
neither a bracket nor a NUL there (`Stops`). What such a byte is, is left open:
a bracket, a NUL or any other (`InFront`, `Behind`). A byte that cannot be read
ends the program, which is no step. What a search behind the mapping finds is taken
to be the first byte there.

**`JsonUtility`.** `Undecorate` is one turn of string decoding with all its exits
(escape resolved, no room, closing quote, broken escape); `LowSurrogate` is the
second half of a surrogate pair, including the extra `advance()`. `NumberMove` and
`LiteralMove` are the two hand-written automata as functions from state and
character to state, and `Lex` the shape both share: a character is captured, then
stepped over, and only then does the state change. `NumberSeen` is what a number
comes to by the way: the integer with its sign, whether there is a fraction or
an exponent, and the exponent's digits.

**`Loops`, `LoopProofs`.** A `while` loop of the code is `WhileOk`, a recursive
function with a bound above the length of the input, taken in rounds of eight so
that TLC's stack stays short. `LoopProofs` has the step of the loop as its
constant, so that every loop of the code is an instance of it.

**`JsonReader`** (proofs: `ScannerProofs` for what it is made of,
`JsonReaderProofs`). A reader is a record of the members of the class and of `ok`,
what the last function returned. `Then` is "if it returned true, go on"; `Arrive`
is the code's `if(m_lc.hasError()) { error(m_lc); return false; }` after a move.
One operator stands for each case of `readAnyOpen` and `readValuePart` and one for
each of the `read...` functions and accessors. `Scaled` and `Numbered` are the two
places where a number is put together, whole and after its last part.

**`JsonNavigation`, `JsonNavigationProofs`.** The skip functions. `SkipObjectTurn` and `SkipArrayTurn` are
the bodies of the two loops, given what `skipToAny` found; they are kept apart
because their exits differ.

**`JsonSearch`** (proofs: `JsonNavigationProofs`). `skipToField`: `SearchSiblings` with `scanMatchField` and the
loop of `scanMatchSiblings`, and `SearchOn`, the loop that the other two axes
share, of which `SearchTurn` is the body, by what `skipToAny` found. `NoLevel` is
a null `depth` argument; the level of a search for descendants goes in and out
with the reader, as the code's pointer does. The loops carry the name they look for
with them, so that each is a loop of one step (`SiblingRound`, `SearchRound`) from
another start, which is what the proofs need.

**`JsonTree`, `TreeBuilding`.** A memory is the pool and the blocks it has
granted; a pointer is the number of a block, so a null, an uninitialized and a
valid pointer differ, and `fault` records that one of the first two has been used.
`Link` is the append that `addFieldPooled`, `addField` and `addItem` share,
`AddFieldNamed` what `addField` does once the entry is in the list. `TreeBuilding`
is a client that fills one list, moves it into another, looks things up and
prints; `built` is the tree it believes it has. The variables a query is linked to
are no part of the memory: `Linked` stands for one, `Own` for the element itself,
and what an extraction hands out is where `presult` points afterwards.

**`JsonExtract`.** `Parse` is `parseSubtreeImpl`, with `ParseItems`, `ParseFields`
and `ParseStringParts` for its loops; `ScanMatchFields` is the comparison of a
field with several names at once; `Take` is `extractImpl`, with `TakeItems` and
`TakeFields`. All of them take a reader and a memory and return both, so every
early return leaves in them what the code leaves.

**`JsonPull`.** The reader as a state machine: one action for each public
function, applied to the whole record, with `text` what a client that
concatenates `value()` over a value's parts would have. `JsonConformance` and the
modules over it have each its own client of it.

**`JsonClient`, `JsonClientProofs`.** The client that keeps to nothing, but that
it has a source started before it asks for the end of a container: it reads, skips
and searches for fields in any order, whatever they return, on input that
need not be JSON. `lost` is a history variable: a search has failed and nothing has
been read or found since, so that the node may be that of somewhere else.

**The specifications: `NodeStream`, `FieldStream`, `ElementStream`.** A document
is written from a tree by `JsonDocuments`, with the list of nodes a reader must
report and the byte at which each has been passed: this is a reference that has
no parser in it. `NodeStream` is a place in that list, which `read()` moves by one
and a skip moves according to depths in the list. `FieldStream` adds the moves by
name: anywhere further on, among the fields of one object, or within one
container that several searches share. `ElementStream` adds `parseSubtree` and
`extract`: the tree of a part of the document, the bytes of the pool it takes
(`Room`), and the place behind the part.

**The refinements: `JsonConformance`, `SearchConformance`, `QueryConformance`.**
The place is the number of nodes whose end the reader's cursor has passed; the
trees are read out of the memory, pointers followed (`TreeIn`). `FollowsStream` and
`FollowsElements` are `NodeStream` and `ElementStream` under these mappings; the
second has the moves of `FieldStream` in it, so that one run checks searches and
extractions. Each module also has the client that the promise is made to; what it
refrains from is named (`Inside`, `Countable`, `Lost`, `AtElement`, `Answerable`)
and each has a defect behind it (section 6). The pool is a new one for each call,
as `main.cpp` frees it before each; the variables of a query are declared once, and
hold what the last `extract` left in them for as long as the same query is repeated
(`LeftIn`), as in the loop around `main.cpp:770`.

**`Demonstration`.** The seven functions of `main.cpp` that query a file, one
library call per step, over the machinery of `QueryConformance`: `DemoNext` pairs
each call with what the function makes of its result. Two programs more are not in
`main.cpp`: `free` is the client of `QueryConformance` that calls anything at any
time, and `search` that of `SearchConformance`, which reads and searches.

**`ValueCapture`, `ValueCaptureProofs`.** The `while(undecorate(...))`,
`while(lexNumber(...))` and `while(lexLiteral(...))` loops, one turn at a time:
capture and advance, run out of room, return, be resumed, end. It uses the
operators of `LexSource` and leaves open where the value ends, so that what is
proved covers every scalar. Escapes are outside it: they do lose information at a
chunk boundary (section 6).

## 4. The runs

| Run | Module | Shows | States |
|---|---|---|---|
| `pools` | `MemoryPool` | disjointness and refinement under every mixture of calls | 18 thousand |
| `capture` | `MCValueCapture` | lossless, never overrun, no empty chunk; the scan ends | 15 thousand |
| `reading` | `MCReading` | every node, in order, once, with its text and value, in chunks; reads and skips in any order, out of any container, three kinds of source | 175 thousand |
| `any_input` | `MCAnyInput` | ranges, progress, finality of the error state, of reads, skips and searches on input that need not be JSON | 368 thousand |
| `querying` | `MCQuerying` | searches on the three axes, one after the other and with reads between; trees and extractions in pools of every fit; the functions of `main.cpp` | 80 thousand |
| `trees` | `MCTrees` | trees built by hand while the pool refuses any block | 277 thousand |
| `sources` | `MCSources` | sources opened, attached, read, detached and closed in any order | 492 thousand |
| `escape_at_chunk_end`, `surrogate_pair` | `MCDefects` | two disagreements of section 6 | a few each |
| `missing_field`, `name_in_parts` | `MCQueryDefects` | two more | a few each |
| `printed_tree` | `MCTrees` | a fifth | a few |

**Properties.** `TypeOK`, or `MemoryOK`, once for each state machine.

* `NodeInStep`, `TextInStep`, `ValueInStep`, `NothingIsWrong` and `FollowsStream`
  are the reader against its promise, reads and skips; `FoundIsNode` and
  `FollowsElements` the search, the latter and `FaultsInArraysOnly` extraction.
* `ReadGetsFurther`, `SkipGetsFurther` and `SearchGetsFurther` are the termination of
  `while(read())` and of the loops of `main.cpp` such as
  `while(skipToFieldValue("id", Forward))` (`main.cpp:721`): a call that returns true
  has consumed input or ended a value. They are stated as
  invariants over the result of the next call and not as action properties, because
  a call that changes nothing is a stuttering step, which an action property allows.
  A skip may return true where it stands if a search has failed before it in an
  object: the search leaves the node `Object` and the cursor at the end of the input,
  where `strpbrk` looks at the last byte once more. `SkipGetsFurtherUnlessLost` is
  what holds of every client.
* `ReaderInv` says how the node and the lookahead go together between two calls:
  the source is out of room, or has no character though its input has not ended,
  only in the middle of a value (`Midway`), and an object is open at the end of the
  input only where its skip would find no bracket any more, unless a search has
  failed. It is what the proofs of the reader rest on.
* `ErrorIsFinal` is the action property of the error state, for every function
  but `skipToEndObject` and `skipToField`, which do not ask for it (section 6) and are
  among the calls all the same, so that the states after them are explored too.
* `DemoAnswers` says of each function of `main.cpp` what it is to have found when
  it ends, by counting in the document.
* `TreeAsBuilt` relates every element to the calls that returned true, with the
  one exception the code makes; `LookupsAgree` relates `operator[]` and queries for
  two members, one of them nested or missing, to each other and to that tree;
  `FaultsAtNullOnly` is the one place where `toString` writes through a null pointer.
* `NamePrinted`, that an episode's name is printed once and whole, `StringIsJson`,
  that the C string which `toString` returns is the tree as `JsonDocuments` writes
  it, and `MissingIsNoFailure` are what is documented and does not hold (section 6).
* `LifeInv` is the inductive invariant of the sources: who holds what
  (`Ownership`), and that every cursor is in its text (`InText`);
  `SearchInBounds` says exactly when `strpbrk` touches nothing but the text, its NUL
  and the pages it is in, and `ClosedIsSilent` what a source without anything behind
  it may yield.

**Bounds, and why they are enough.**

* `pools`: capacity to 5 and requests to 6, so that requests fit, fit exactly,
  are one too large, and exceed the whole pool; blocks of size 0 occur.
* `capture`: a buffer of 5, so that chunks of one and two code points and of 2 to 5
  bytes occur (room for 4 is required); texts of up to 4 code points of each width,
  and every cut of them, inside a code point too.
* `reading`: a buffer of 5, that is two ASCII characters to a chunk, so that one-,
  two- and three-chunk scalars of every type occur, with escapes, signs, fractions
  and exponents, and with wide code points; trees of three levels with up to two
  children, with and without white space. These are read only. Others have
  strings and names with brackets, quotes and escaped quotes, come from the three
  kinds of source, and are gone through by every order of `read` and the four skips;
  arrays of up to 3 elements and indices to 3, so that the index is inside, the last,
  one past and two past.
* `any_input`: every sequence of up to two of twelve lexemes, whole or broken, alone
  and before a code point cut short; of eight of them, which make the structure, every
  sequence of up to three, and of up to two before a field of the name that is
  sought; a string and a field longer than the buffer, with a code point of two bytes,
  after a number; the name sought on every axis, without a level and with one, so that
  `Descendants` without one is refused; every order of the six functions, after
  failures and in the error state too.
* `querying`, its searches: two names of which one begins the other, each as a field
  and as a value, in three levels; a third that is written with an escape; every
  order of reads and searches; from a file and from a mapping, whose searches are
  the two there are (a string's is that of a mapping without its first check).
* `querying`, the rest: five extractors that take apart objects, arrays and nests of them;
  strings of two parts (a buffer of 8, in which literals fit whole); pools of 2, 7,
  12 and 60 bytes, that is with room for nothing, for one block, for some and for
  all; shows of up to two seasons of up to two episodes.
* `trees`: six pools, so that the one who is refused is every block of the trees
  of two levels and of their printing; two names of which one begins the other.
* `sources`: two readers of FILEs with two FILEs (so that one can close what
  another might have), one mapping, one string; at most two of them in use at a
  time, since no code relates three; contents that are empty, end in what is
  searched for, or lack it; pages of 3 bytes, so that two of the contents fill
  theirs, one with a bracket at its end and one without any.
* `DepthMod` is 4 or 8: `m_objectDepth` wraps in the runs as it would at 2^32,
  which no document of the querying run is deep enough to bring about.
* The sizes of elements and entries are 2 and 3 bytes in the runs; only their
  sums matter.

**What the documents and clients of the passing runs leave out**, each because of
a defect that has a run of its own or is listed in section 6 and under `hazards`:
documents end in white space (the last byte is a case apart for `}` and for the
mapped source); the root is an array or an object (a chunked string at the root
never reports `EndValuePart`); no surrogate pairs, no escape at the end of a first
chunk; `skipToEndObject` and `skipToEndArray` only where no container of the
same kind opens on the way, and not as the first call; nothing is skipped from
within a scalar that came in parts; `skipToIndex` at most 1 where arrays are
nested; a search is not continued after an error; a value is parsed from its first
part, and only a string if it has more than one; `extract` only where `Answerable`
holds. In `any_input`, too, neither of the two is the first call (`JsonPull`): what they make
of a source that nothing has been read of depends on the byte in front of the text,
and is in `sources`.

**Fairness.** Only `ValueCapture` has any. Its actions are the turns of a loop
inside a call, which the code runs to the end, and the client's next `read()`; so
weak fairness of taking a character, of running out of room and of resuming
says that the program is running and that the client wants the value. The end of the value
(`Finish`) needs none: the property is that the scan ends or uses up the input.
`JsonPull` and the modules over it state no fairness, since nothing obliges a
client to call; what it needs for termination is the progress of each call.

Deadlock is checked except in `capture`, which stops when a value is done, in
`trees` and `printed_tree`, whose client stops when it has printed its tree or been
refused a field, and in `querying`, `missing_field` and `name_in_parts`, whose
programs come to their end.

## 5. The proofs

* **`MemoryPoolProofs`**, from the assumptions on the constants (a capacity, a
  largest request, and no wrap of `used() + size`): `PoolTypeCorrect`,
  `PoolBlocksDisjoint`, `PoolImplementsAllocator`. The inductive invariant `PoolInv`
  joins the two: disjointness of a new block needs that every live block ends at
  or below `next`, and that needs the range of `next`. `FitsMeansFits` is where
  the no-wrap assumption is used: without it the check in `alloc` would grant what
  does not fit.
* **`ValueCaptureProofs`**, for every capacity from 4 up, every alphabet and every set of
  well-formed inputs: `CaptureInvariant`, and from it `CaptureTypeCorrect`,
  `ChunksLoseNothing`, `BufferIsNotOverrun` and `ChunksAreNotEmpty`. `Lossless`
  is not inductive alone: that the lookahead's encoding is the bytes just read
  holds only if reading stops between code points (`AtBoundary`) of a well-formed
  input, and that a resumed scan is where it was needs `PartsAreNotEmpty` and the
  range of the state. `AdvanceFromBoundary` says what `advance()` does from a
  boundary, and there is one lemma for each action.
* **`SourceLifeProofs`**, for any number of sources, FILEs, mappings and strings
  and any contents, from the assumption that the kinds of sources are disjoint:
  `OwnershipInvariant`, `SourcesHoldWhatIsThere`, `NoSourceLosesAnything`. That a
  source holds only what is open is not inductive: `close()` of one source would
  take a FILE from another, were it not that no two hold the same (`Apart`), and
  that in turn holds because `attach` is given what is free. `NothingLost` needs
  that `open` of a source that has something is refused. There is one lemma for
  each action.
  With three assumptions more, that what is in a file or a string is a sequence of
  the bytes there are, that the brackets looked for are among the ASCII ones, and
  that a page has a byte, the same module has `LifeInvariant`, `SearchStaysInBounds`
  and `ClosedSaysNothing`. The second of these says of every search that comes to
  `strpbrk` whether the bytes it reads, from the one before the next to the one it
  finds or the terminating NUL, are bytes of the string or of the mapping's pages:
  they are if and only if something has been read or found in the source since it was
  opened, and there is still a bracket to find where the text fills its last page. No
  rule is laid on the program for it, so that both of the code's own cases are in
  the statement (section 6). The first half rests on `InText`, that a source that is
  `Ok` has a byte under its cursor: it survives the source being opened again because
  `open` and `attach` reset it; a state left over from the previous file would not do
  (that is its mutant). The second half is `PagesHoldMore` and `PagesHoldNoMore`, on
  the division of a length by the page size. `InText` has a case for a cursor behind
  the mapping, where a search may have left it; there the check at
  `MemoryMappedLexSource.hpp:31` gives up every other (`OverrunGivesUp`).
* **`LoopProofs`**, for every step and every bound: `LoopStays`, that a loop whose
  step keeps to a set of states ends in it, and `LoopEnds`, that a loop whose measure
  each turn takes down ends before the bound of the model does. A recursive function
  is a `CHOOSE`, so that it exists has to be shown first (`RunExists`); the
  induction is over sets, by a least element.
* **`ScannerProofs`, `JsonReaderProofs`, `JsonNavigationProofs`, `JsonClientProofs`**, for
  every buffer of 4 bytes and up, every modulus of `m_objectDepth`, every set of
  documents (a document is a sequence of bytes without a NUL, and need not be JSON),
  every set of the functions that a client uses, and every index, name,
  axis and level: `TypesHold`, `ReaderInvHolds`, `ReadGoesOn`, `SkipGoesOn`,
  `FieldSearchGoesOn` and `ErrorStays`. Bytes that are not UTF-8 are followed by
  `LexSource` as far as section 3 says: code points cut short, and no overlong forms
  or continuation bytes that are ASCII.

  - *Sources and scanners.* `Within` is the range of a source, and `Onward` that one
    source is as far as another on the same input, or further; each function of
    `LexSource` and each scanner keeps the one and respects the other. The moves of
    the two automata (`NumberMoves`, `LiteralMoves`) stay in `LexStates`
    from any of its states and on any character.
  - *Reading.* `Came` is what a function of `read()` that starts from a node makes of
    a reader, `Led` what one that may stop in the middle of a value does, and
    `ReadIs` that `read()` leads on from every reader there is between two calls
    (`Fit`).
  - *Skipping.* `Past` and `Went` are the same for skips. Their progress is harder than
    that of `read()`: the loop of `skipObjectPart` may leave the cursor where it is
    for a turn, since `skipToAny` looks at the lookahead first and may find the
    bracket again that it found before. What goes down with every turn is
    `ToSearch`, twice the bytes that are left and the count of open brackets.
    Hence the loop is not cut short by the model's bound (`LoopEnds`) and a skip
    that returns true has found something further on (`SkipFromObjectIs`).
  - *Searching.* `SkipToFieldIs` says that `skipToField` leads from any `Fit` reader to
    a `Fit` one that is no further back, and on a field further on when it returns true
    (`FieldSought`). A comparison only moves the cursor on (`CompareIs`), whatever
    escape or cut-off it meets. The loop over siblings takes `ToCome` down, the bytes
    that are left, with every field (`ScanMatchSiblingsIs`). The loop of the other two
    axes starts where the client is, which may be in the middle of a value that did
    not fit: what goes down is `ToHunt`, one more where it starts so (`SearchOnIs`).
    Whether brackets match and what the level is does not matter for that.
  - *The invariant.* `Fit` alone is not inductive for `SkipGetsFurtherUnlessLost`: from
    an object at the end of the input a skip might find a bracket in the lookahead
    and return true where it stands. After reads and skips no reader gets there,
    because an object is only open at the end of the input when the search there finds
    nothing (`Searchable`). A failed search does leave such a reader, so that `IInv`
    asks for `Searchable` as long as the client is not `lost`; a search that succeeds
    is on a field, and a read tests the end of the input before it opens an object, so
    that either restores it. `ReaderInv` says the same, with the types as a run
    states them, and TLC had checked each conjunct in `any_input` before it was
    proved.
  - *A reader that comes back from the end.* That the client may also read after a
    failed search makes `read()` harder: the source may be at the end of its input and
    still be on a character, and what that opens has no more to it
    (`ReadAnyOpenAtEnd`, `RunAtEnd`).

Only model-checked:

* liveness (`ScanEnds`), which needs fairness;
* what the reader makes of a valid document (`NodeInStep`, `TextInStep`,
  `ValueInStep`, `NothingIsWrong`, `FoundIsNode`) and the two refinements
  `FollowsStream` and `FollowsElements`: these compare a scanner with
  a document written from a tree, which is induction over the tree, and the
  documents are defined by recursive operators;
* extraction, the trees and the functions of `main.cpp` (`FaultsInArraysOnly`,
  `MemoryOK`, `TreeAsBuilt`, `LookupsAgree`, `FaultsAtNullOnly`, `DemoAnswers`), over
  recursive operators too;
* where `skipToField` lands in a valid document, by name and axis, which `querying`
  checks: what is proved of it is its progress and that the reader stays sound.

## 6. Where code and documentation disagree

Five have a run that TLC ends with a counterexample, and an entry under
`findings`.

1. `escape_at_chunk_end`: `undecorate` steps over the backslash before it knows
   that the character fits. When a string's first chunk ends there, the rest of
   the escape is read as text.
2. `surrogate_pair`: one `advance()` too many after the pair swallows the next
   character, or the closing quote.
3. `missing_field`: `extract` of two fields, one of which is not there, looks for
   it behind the end of the object and returns false, where the documentation
   says that not finding is no failure.
4. `name_in_parts`: `skipToSeasonIndexAndEpisodeIndex` says "this code can handle
   streaming name fields" (`main.cpp:689`), and prints the first part of one twice.
5. `printed_tree`: `writeToString` copies the NUL of every literal, so that the
   string which `toString` returns, and `main.cpp:854` prints as the JSON output,
   ends behind the first bracket.

Others were met while modelling and have no run. The model follows the code in
each; the clients of the passing runs stay clear of them.

* `readEndObject` returns true before it sets the node when nothing follows the
  brace; on a mapping, skipping to a closing bracket that is the last byte fails.
* `skipToIndex` takes the node left by a nested array for the end of its own, so
  an index above 1 is not reached behind one (`Countable`).
* `skipToEndObject` and `skipToEndArray` stop at the end of a container of the
  same kind that opens on the way (`Inside`), and so does `extract`, which uses
  them behind the last thing wanted (`Answerable`); an extractor with two indices
  gets only the first, since the index is not counted on (`JsonReader.hpp:391`).
* `skipToEndObject` leaves the error state, and so does `skipToField` on the axes
  `Forward` and `Descendants`: it comes to a field, and returns false all the same.
  No other function does.
* `parseSubtree` on a number or literal in parts compares the wrong member with
  `EndValuePart`, reads to the end of the document and yields 0 or false.
* `parseSubtree` of a root array, and `extract` from one, may return false at the
  end of the document although they have got everything (`Consume`).
* `parseSubtree` writes through a null pointer when the pool refuses an array
  item, and `strlen`s one on an object that is cut short (`FaultsInArraysOnly`).
* `addField` links its entry before it has the name, so that a refused name leaves
  a list that cannot be walked (`TreeAsBuilt`); `toString` writes a null through a
  null pointer when there is no room for it (`FaultsAtNullOnly`).
* `readAllIds` never ends if a read fails inside a long id.
* A `JsonElement` "linked" to a value extractor "will be filled with the data you
  asked for" (`src/README.md:181`), and `extract()` on an element is to work "the
  same way you do with a reader" (`src/README.md:183`). On an element it fills
  nothing: it lets `presult` point to the element in the tree (`JsonTree.hpp:373`),
  so the variable stays as it was, and whoever wants the result has to go by the
  extractor. A member that is not there is not reported, either (`LookupsAgree`).
* The type of the variable of a value that is not found "will be `Undefined`"
  (`src/README.md:329`); on a reader it is what the last extraction left in it,
  since no function resets it (`LeftIn` hands it on).
* `skipToEndObject` and `skipToEndArray` do not start the source, as the other
  skips and searches do (`JsonReader.hpp:1950-1966`): as the first call on a string or a
  mapping they have `strpbrk` start at the byte in front of the text
  (`LexSource.hpp:475`, `MemoryMappedLexSource.hpp:37`).
* The comment at `MemoryMappedLexSource.hpp:35` thinks that a mapping is padded with
  zeros. It is, up to the end of its last page; a file that fills that page has
  nothing behind it, and a search without a match in it reads on.
  `SearchInBounds` says that these two are the only ways out of the text.
* `MappedFile`'s destructor is commented as unmapping the file and is empty
  (`MappedFile.hpp:190`); a client has to close, which `Renew` in `SourceLife`
  requires.
* `close()` and `detach()` leave the source's state `Ok` and its last character
  (`ClosedIsSilent` allows that one); `FileLexSource::attach` ends without a
  return statement; `detach()` of a file that the source opened itself loses the
  FILE, which the client of `SourceLife` does not do.

## 7. What is not modelled

* `reset()` of the reader, which no code calls and which does not rewind the
  source.
* The digits after a decimal point (`real` is a `double`), the overflow of
  `integer`, which is undefined where the code looks for it, and `decodeUtf8` on
  names that are not ASCII.
* `benchmarks()`, `scratch()` and `main()` as a sequence: they call the functions
  of `Demonstration` one after the other, on sources they open and close as in
  `SourceLife`, and print timings.
* The Arduino stream source, whose reads are outside the repository; the calls to
  the operating system in `MappedFile`, of which only success and failure count.
* Board support, the vendored SD library, build files and sample data.

`PROJECT.json` lists, under `hazards`, what is hard to test and which properties
cover it, or why none does.
