------------------------------- MODULE JsonTree -------------------------------
(***************************************************************************)
(* In-memory trees: JsonElement of src/src/JsonTree.hpp, its linked lists  *)
(* of fields and items, and the pool everything is allocated from.         *)
(*                                                                         *)
(* A memory is a record: capacity and used of the pool, the blocks it has  *)
(* granted in order, last, what the last alloc returned, and fault, which  *)
(* is set when the code dereferences a null or an uninitialized pointer.   *)
(* A pointer is the number of a block.  An element is a type and its data: *)
(* a pointer for a string or the head of a list, a number otherwise (for a *)
(* double, its whole part).                                                *)
(***************************************************************************)
EXTENDS LexSource, SequencesExt

CONSTANTS ElementSize, FieldEntrySize, ArrayEntrySize, PointerSize   \* sizeof

ASSUME JsonTreeAssumption ==
  {ElementSize, FieldEntrySize, ArrayEntrySize, PointerSize} \subseteq Nat \ {0}

Nullptr == 0
Uninitialized == -1

Element(type, data) == [type |-> type, data |-> data]
Undefined == Element("Undefined", 0)
Entry(name, value) == [name |-> name, value |-> value, next |-> Nullptr]
NoEntry == [name |-> Uninitialized, value |-> Uninitialized, next |-> Uninitialized]

EmptyPool(capacity) ==
  [capacity |-> capacity, used |-> 0, blocks |-> << >>, last |-> Nullptr, fault |-> FALSE]

\* Mutant: one byte less than the block needs is enough.
Alloc_OffByOne(m, block, size) ==
  IF m.used + size > m.capacity + 1
    THEN [m EXCEPT !.last = Nullptr]
    ELSE [m EXCEPT !.used = @ + size, !.blocks = Append(@, block), !.last = Len(m.blocks) + 1]

Alloc(m, block, size) ==
  IF m.used + size > m.capacity
    THEN [m EXCEPT !.last = Nullptr]
    ELSE [m EXCEPT !.used = @ + size, !.blocks = Append(@, block), !.last = Len(m.blocks) + 1]

\* unalloc() of what was granted last
Unalloc(m, size) == [m EXCEPT !.used = @ - size, !.blocks = Front(@)]

Faulty(m) == [m EXCEPT !.fault = TRUE]
Deref(m, p) == p \in DOMAIN m.blocks

AllocBytes(m, bytes) == Alloc(m, bytes, Len(bytes))

\* The characters from p to the first NUL; the blocks of a string that was
\* copied in parts are next to each other.
StringAt(m, p) ==
  LET onFrom[q \in p .. Len(m.blocks)] ==
        IF NUL \in ToSet(m.blocks[q])
          THEN SubSeq(m.blocks[q], 1, SelectInSeq(m.blocks[q], LAMBDA c : c = NUL) - 1)
          ELSE m.blocks[q] \o onFrom[q + 1]
  IN  onFrom[p]

-----------------------------------------------------------------------------
(* Lists.                                                                   *)

\* The entries from the head p on, in order.  An entry is granted after the
\* one that links to it.
Chain(m, p) ==
  LET from[q \in DOMAIN m.blocks] ==
        IF m.blocks[q].next \in q + 1 .. Len(m.blocks) THEN <<q>> \o from[m.blocks[q].next]
        ELSE <<q>>
  IN  IF Deref(m, p) THEN from[p] ELSE << >>

\* A walk along the list comes to an end, and not to a link nobody has set.
Walkable(m, p) ==
  IF Deref(m, p) THEN m.blocks[Last(Chain(m, p))].next = Nullptr ELSE p = Nullptr

\* What a function that changes an element has done: ok is its answer.
Did(ok, m, e) == [ok |-> ok, m |-> m, e |-> e]

AllocString(m, e, text) ==
  LET a == AllocBytes(m, Append(text, NUL))
  IN  IF a.last = Nullptr THEN Did(FALSE, a, e) ELSE Did(TRUE, a, Element("String", a.last))

\* Mutant: the list is not walked to its end.
Link_AfterHead(m, e, entry, size) ==
  LET a == Alloc(m, entry, size)
  IN  IF a.last = Nullptr THEN Did(FALSE, a, e)
      ELSE IF e.data = Nullptr THEN Did(TRUE, a, [e EXCEPT !.data = a.last])
      ELSE Did(TRUE, [a EXCEPT !.blocks[e.data].next = a.last], e)

\* A new entry at the end of the list.
Link(m, e, entry, size) ==
  LET a == Alloc(m, entry, size)
      tail == Last(Chain(m, e.data))
  IN  CASE ~Walkable(m, e.data) -> Did(FALSE, Faulty(m), e)
        [] Walkable(m, e.data) /\ a.last = Nullptr -> Did(FALSE, a, e)
        [] Walkable(m, e.data) /\ a.last # Nullptr /\ e.data = Nullptr ->
             Did(TRUE, a, [e EXCEPT !.data = a.last])
        [] Walkable(m, e.data) /\ a.last # Nullptr /\ e.data # Nullptr ->
             Did(TRUE, [a EXCEPT !.blocks[tail].next = a.last], e)

AddFieldPooled(m, e, name, value) ==
  IF e.type = "Object" THEN Link(m, e, Entry(name, value), FieldEntrySize) ELSE Did(FALSE, m, e)

\* The entry is in the list before there is a name to put into it.
AddFieldNamed(linked, text, value) ==
  LET at == linked.m.last
      a == AllocBytes(linked.m, Append(text, NUL))
  IN  IF a.last = Nullptr THEN Did(FALSE, a, linked.e)
      ELSE Did(TRUE, [a EXCEPT !.blocks[at] = Entry(a.last, value)], linked.e)

AddField(m, e, text, value) ==
  LET linked == Link(m, e, NoEntry, FieldEntrySize)
  IN  CASE e.type # "Object" -> Did(FALSE, m, e)
        [] e.type = "Object" /\ ~linked.ok -> linked
        [] e.type = "Object" /\ linked.ok -> AddFieldNamed(linked, text, value)

AddItem(m, e, value) ==
  IF e.type = "Array" THEN Link(m, e, Entry(Nullptr, value), ArrayEntrySize) ELSE Did(FALSE, m, e)

\* The overloads that take a value copy it into the pool first, and those that
\* take a string copy that before they look at the type.
Copied(m, e, type, value, Add(_, _)) ==
  LET a == Alloc(m, value, ElementSize)
  IN  IF e.type # type \/ a.last = Nullptr THEN Did(FALSE, IF e.type = type THEN a ELSE m, e)
      ELSE Add(a, a.last)

AddFieldValue(m, e, text, value) ==
  Copied(m, e, "Object", value, LAMBDA a, p : AddField(a, e, text, p))
AddItemValue(m, e, value) == Copied(m, e, "Array", value, LAMBDA a, p : AddItem(a, e, p))

AddFieldString(m, e, text, string) ==
  LET s == AllocString(m, Undefined, string)
  IN  IF s.ok THEN AddFieldValue(s.m, e, text, s.e) ELSE Did(FALSE, s.m, e)
AddItemString(m, e, string) ==
  LET s == AllocString(m, Undefined, string)
  IN  IF s.ok THEN AddItemValue(s.m, e, s.e) ELSE Did(FALSE, s.m, e)

-----------------------------------------------------------------------------
(* Looking things up.                                                       *)

Entries(m, e) == IF e.type \in {"Array", "Object"} THEN Chain(m, e.data) ELSE << >>

\* The first entry that holds, or null.
FirstEntry(m, e, holds(_)) == SelectInSeq(Entries(m, e), holds)

HasName(m, p, text) == StringAt(m, m.blocks[p].name) = text

\* operator[] by index and by name
At(m, e, index) ==
  IF e.type # "Array" \/ index >= Len(Entries(m, e)) THEN Nullptr
  ELSE m.blocks[Entries(m, e)[index + 1]].value

Named(m, e, text) ==
  LET k == FirstEntry(m, e, LAMBDA p : HasName(m, p, text))
  IN  IF e.type # "Object" \/ k = 0 THEN Nullptr ELSE m.blocks[Entries(m, e)[k]].value

-----------------------------------------------------------------------------
(* extract() on a tree.  An extractor is a record: kind is "value", or what  *)
(* it takes apart, "Object" or "Array"; slot is the number of the variable   *)
(* it is linked to; keys are the names or indices and children what is to    *)
(* be done with each, empty if pchildren is null.                            *)

ValueExtractor(slot) == [kind |-> "value", slot |-> slot, keys |-> << >>, children |-> << >>]
Extractor(kind, keys, children) ==
  [kind |-> kind, slot |-> 0, keys |-> keys, children |-> children]

\* Mutant: the first item has index one.
Locate_FromOne(m, e, key) ==
  IF e.type = "Object" THEN FirstEntry(m, e, LAMBDA p : HasName(m, p, key))
  ELSE IF key \in 1 .. Len(Entries(m, e)) THEN key ELSE 0

\* Where the key of an extractor is found in the list, or 0.
Locate(m, e, key) ==
  IF e.type = "Object" THEN FirstEntry(m, e, LAMBDA p : HasName(m, p, key))
  ELSE IF key < Len(Entries(m, e)) THEN key + 1 ELSE 0

\* What presult may point to that is not in the pool: an element of the caller's,
\* and the variable that an extractor has been linked to.
Own == -2
Linked == -3

\* self is the address of e.  bound[slot] is what presult of that extractor points
\* to afterwards: the linked variable itself is not written.
RECURSIVE ElementExtract(_, _, _, _, _)
ElementExtract(m, self, e, q, bound) ==
  LET step(acc, i) ==
        LET k == Locate(m, e, q.keys[i])
            value == m.blocks[Entries(m, e)[k]].value
        IN  IF ~acc.ok \/ k = 0 \/ q.children = << >> THEN acc
            ELSE ElementExtract(m, value, m.blocks[value], q.children[i], acc.bound)
  IN  CASE q.kind = "value" -> [ok |-> TRUE, bound |-> [bound EXCEPT ![q.slot] = self]]
        [] q.kind # "value" /\ q.kind = e.type ->
             FoldLeft(step, [ok |-> TRUE, bound |-> bound], [i \in DOMAIN q.keys |-> i])
        [] q.kind # "value" /\ q.kind # e.type -> [ok |-> FALSE, bound |-> bound]

-----------------------------------------------------------------------------
(* toString.  It allocates a block for each piece it writes, and takes it    *)
(* that they are next to each other.  The lengths it uses for the literals   *)
(* count the NUL at their end, which is copied too.                          *)

Literal(text) == Append(text, NUL)
NullLiteral == Literal(<<"n", "u", "l", "l">>)

Numerals == <<"0", "1", "2", "3", "4", "5", "6", "7", "8", "9">>
DigitsOf[n \in Nat] ==
  (IF n < 10 THEN << >> ELSE DigitsOf[n \div 10])
    \o <<Numerals[(n % 10) + 1]>>
Decimal(n) == IF n < 0 THEN <<"-">> \o DigitsOf[-n] ELSE DigitsOf[n]

Escaped(c) ==
  CASE c = "\r" -> Literal(<<"\\", "r">>)
    [] c = "\n" -> Literal(<<"\\", "n">>)
    [] c = "\t" -> Literal(<<"\\", "t">>)
    [] c = "\\" -> Literal(<<"\\", "\\">>) \o <<NUL, NUL>>
    [] c \in {"\"", "'", "\f"} -> Literal(<<"\\", "\"">>)
    [] c = "backspace" -> Literal(<<"\\", "u">>) \o <<"0", "0", "0", "8">>
    [] c \in HighBytes -> Literal(<<"\\", "u">>) \o <<"f", "f", "f", "f">>
    [] OTHER -> <<c>>

StringPieces(text) == <<<<"\"">>>> \o [i \in DOMAIN text |-> Escaped(text[i])] \o <<<<"\"">>>>

ScalarPieces(m, e) ==
  CASE e.type = "Null" -> <<NullLiteral>>
    [] e.type = "Real" -> <<Decimal(e.data) \o <<".", "0", "0", "0", "0", "0", "0">>>>
    [] e.type = "Integer" -> <<Decimal(e.data)>>
    [] e.type = "Boolean" /\ e.data = 1 -> <<Literal(<<"t", "r", "u", "e">>)>>
    [] e.type = "Boolean" /\ e.data = 0 -> <<Literal(<<"f", "a", "l", "s", "e">>)>>
    [] e.type = "String" -> StringPieces(StringAt(m, e.data))

\* The comma is written before every entry but the first.
Listed(pieces) ==
  FlattenSeq([i \in DOMAIN pieces |->
                (IF i = 1 THEN << >> ELSE <<Literal(<<",">>)>>) \o pieces[i]])

RECURSIVE Pieces(_, _)
Pieces(m, e) ==
  LET list == Entries(m, e)
      value(i) == Pieces(m, m.blocks[m.blocks[list[i]].value])
      name(i) == StringPieces(StringAt(m, m.blocks[list[i]].name)) \o <<Literal(<<":">>)>>
  IN  CASE e.type = "Array" ->
             <<Literal(<<"[">>)>> \o Listed([i \in DOMAIN list |-> value(i)]) \o <<Literal(<<"]">>)>>
        [] e.type = "Object" ->
             <<Literal(<<"{">>)>> \o Listed([i \in DOMAIN list |-> name(i) \o value(i)])
               \o <<Literal(<<"}">>)>>
        [] OTHER -> ScalarPieces(m, e)

\* Mutant: whether there is room is not asked for anything.
WritePiece_Unasked(acc, piece) ==
  LET a == AllocBytes(acc.m, piece)
  IN  IF ~acc.ok THEN acc
      ELSE [ok |-> a.last # Nullptr, m |-> IF a.last = Nullptr THEN Faulty(a) ELSE a]

\* Whether there is room for a null is not asked.
WritePiece(acc, piece) ==
  LET a == AllocBytes(acc.m, piece)
  IN  CASE ~acc.ok -> acc
        [] acc.ok /\ a.last # Nullptr -> [ok |-> TRUE, m |-> a]
        [] acc.ok /\ a.last = Nullptr ->
             [ok |-> FALSE, m |-> IF piece = NullLiteral THEN Faulty(a) ELSE a]

WriteToString(m, e) == FoldLeft(WritePiece, [ok |-> TRUE, m |-> m], Pieces(m, e))

\* What is returned points to what will be allocated next.
ElementToString(m, e) ==
  LET written == WriteToString(m, e)
      ended == WritePiece(written, <<NUL>>)
  IN  IF m.capacity = 0 \/ e.type = "Undefined" THEN Did(FALSE, m, Nullptr)
      ELSE Did(ended.ok, ended.m, IF ended.ok THEN Len(m.blocks) + 1 ELSE Nullptr)
=============================================================================
