------------------------------ MODULE JsonExtract ------------------------------
(***************************************************************************)
(* parseSubtree and extract of JsonReader (src/src/JsonReader.hpp): the    *)
(* element under the cursor read into a tree (module JsonTree), or parts   *)
(* of it into variables.  Both run on a reader and a memory and move both. *)
(***************************************************************************)
EXTENDS JsonSearch, JsonTree

-----------------------------------------------------------------------------
(* parseSubtreeImpl.  What it has done: the reader, whose ok is its answer,  *)
(* the memory, and the element, which the caller gets if the answer is true. *)

Parsed(r, m, e) == [r |-> r, m |-> m, e |-> e]
NoRoom(r, m) == Parsed(Raise(r, "OUT_OF_MEMORY"), m, Undefined)
Fails(r, m) == Parsed(No(r), m, Undefined)

NumberOf(flag) == IF flag THEN 1 ELSE 0

\* The element for a scalar that is not a string.
ScalarOf(r, type) ==
  CASE type \in {"Real", "Integer"} -> Element(type, IntegerValue(r))
    [] type = "Boolean" -> Element(type, NumberOf(BooleanValue(r)))
    [] type = "Null" -> Element(type, 0)
    [] OTHER -> Undefined

\* Mutant: what follows a scalar is not read.
PassScalar_Stays(p, skipFinalRead) == Parsed(Yes(p.r), p.m, p.e)

\* What follows a scalar.  Whether the read() succeeds is not asked; extract
\* wants the cursor on the next field instead.
ReadPast(r, skipFinalRead) ==
  IF skipFinalRead
    THEN Then(Then(Arrive(r, SkipWhiteSpace(r.ls)), SkipIfComma),
              LAMBDA a : [a EXCEPT !.node = "Field"])
    ELSE Yes(Read(r))

PassScalar(p, skipFinalRead) ==
  IF p.r.ok
    THEN Parsed(Then(ReadPast(p.r, skipFinalRead), LAMBDA a : [a EXCEPT !.ok = p.e # Undefined]),
                p.m, p.e)
    ELSE p

ParseValue(r, m) ==
  LET s == AllocString(m, Undefined, r.ls.captured)
  IN  CASE ValueType(r) # "String" -> Parsed(Yes(r), m, ScalarOf(r, ValueType(r)))
        [] ValueType(r) = "String" /\ s.ok -> Parsed(Yes(r), s.m, s.e)
        [] ValueType(r) = "String" /\ ~s.ok -> NoRoom(r, s.m)

\* One part of a string is copied; ok says that there is to be another.
PartCopied(r, m) ==
  LET a == AllocBytes(m, r.ls.captured)
  IN  IF a.last = Nullptr THEN [ok |-> FALSE, r |-> Raise(r, "OUT_OF_MEMORY"), m |-> a]
      ELSE [ok |-> TRUE, r |-> r, m |-> a]

NextPart(r, m) ==
  IF r.ok /\ r.node # "EndValuePart" THEN PartCopied(r, m) ELSE [ok |-> FALSE, r |-> r, m |-> m]

PartsCopied(r, m) ==
  WhileOk(LAMBDA acc : NextPart(Read(acc.r), acc.m), PartCopied(r, m), 2 * Left(r.ls))

\* first is the block that the first part is in.
StringEnded(parts, first) ==
  LET ended == AllocBytes(parts.m, <<NUL>>)
  IN  IF HasError(parts.r) \/ parts.r.node # "EndValuePart" THEN Fails(parts.r, parts.m)
      ELSE IF ended.last = Nullptr THEN NoRoom(parts.r, ended)
      ELSE Parsed(Yes(parts.r), ended, Element("String", first))

ParseStringParts(r, m) == StringEnded(PartsCopied(r, m), Len(m.blocks) + 1)

\* The loop for the parts of any other value compares m_valueType with
\* EndValuePart, a node, and does not end before the input does.
ReadToEnd(r) == WhileOk(Read, Yes(r), 2 * Left(r.ls))

Drained(r, m, type) ==
  IF HasError(r) THEN Fails(r, m) ELSE Parsed(Yes(r), m, ScalarOf(r, type))

ParseParts(r, m) ==
  IF r.vtype = "String" THEN ParseStringParts(r, m) ELSE Drained(ReadToEnd(r), m, r.vtype)

RECURSIVE Parse(_, _, _), ParseItems(_), ParseFields(_)

\* The child has been parsed into a block and is added to the list.
ChildAdded(p, child, slot, Add(_)) ==
  LET did == Add([child.m EXCEPT !.blocks[slot] = child.e])
  IN  CASE ~child.r.ok -> Parsed(Raise(child.r, "OUT_OF_MEMORY"), child.m, p.e)
        [] child.r.ok /\ did.ok -> Parsed(child.r, did.m, did.e)
        [] child.r.ok /\ ~did.ok -> Parsed(Raise(child.r, "OUT_OF_MEMORY"), did.m, p.e)

\* The rest of an array.  Whether there was room for the item is not asked.
ParseItems(p) ==
  LET a == Alloc(p.m, Undefined, ElementSize)
      item(slot) == ChildAdded(p, Parse(p.r, a, FALSE), slot, LAMBDA m : AddItem(m, p.e, slot))
  IN  IF ~p.r.ok \/ p.r.node = "EndArray" THEN p
      ELSE IF a.last = Nullptr THEN Parsed(No(p.r), Faulty(a), p.e)
      ELSE ParseItems(item(a.last))

\* Mutant: whether there is room for the value is not asked.
ParseFieldValue_Unasked(p, read, name) ==
  LET a == Alloc(p.m, Undefined, ElementSize)
  IN  CASE ~read.ok -> Parsed(IF HasError(read) THEN read ELSE Raise(read, "FIELD_NO_VALUE"), p.m, p.e)
        [] read.ok /\ a.last = Nullptr -> Parsed(No(read), Faulty(a), p.e)
        [] read.ok /\ a.last # Nullptr ->
             ChildAdded(p, Parse(read, a, FALSE), a.last,
                        LAMBDA m : AddFieldPooled(m, p.e, name, a.last))

\* The value of a field whose name has been copied.
ParseFieldValue(p, read, name) ==
  LET a == Alloc(p.m, Undefined, ElementSize)
  IN  CASE ~read.ok -> Parsed(IF HasError(read) THEN read ELSE Raise(read, "FIELD_NO_VALUE"), p.m, p.e)
        [] read.ok /\ a.last = Nullptr -> NoRoom(read, a)
        [] read.ok /\ a.last # Nullptr ->
             ChildAdded(p, Parse(read, a, FALSE), a.last,
                        LAMBDA m : AddFieldPooled(m, p.e, name, a.last))

\* The rest of an object.  value() is null between the fields of an object
\* that is cut short, which is not asked about either.
ParseFields(p) ==
  LET a == AllocBytes(p.m, Append(p.r.ls.captured, NUL))
  IN  IF ~p.r.ok \/ HasError(p.r) \/ p.r.node = "EndObject" THEN p
      ELSE IF ~HasValue(p.r) THEN Parsed(No(p.r), Faulty(p.m), p.e)
      ELSE IF a.last = Nullptr THEN NoRoom(p.r, a)
      ELSE ParseFields(ParseFieldValue(Parsed(p.r, a, p.e), Read(p.r), a.last))

\* Past the closing bracket.  Only past a brace may there be nothing else.
OrEnd(r, mayEnd) == [r EXCEPT !.ok = @ \/ (mayEnd /\ r.node = "EndDocument")]

PassBracket(p, skipFinalRead) ==
  CASE ~p.r.ok -> p
    [] p.r.ok /\ skipFinalRead -> Parsed(SkipIfComma(p.r), p.m, p.e)
    [] p.r.ok /\ ~skipFinalRead ->
         Parsed(OrEnd(IF p.r.node \in {"EndArray", "EndObject"} THEN Read(p.r) ELSE p.r,
                      p.e.type = "Object"), p.m, p.e)

ParseList(p) == IF p.e.type = "Array" THEN ParseItems(p) ELSE ParseFields(p)

\* A document that has not been started.
ParseFirst(read, m, skipFinalRead) ==
  IF read.ok THEN Parse(read, m, skipFinalRead) ELSE Parsed(Raise(read, "NO_DATA"), m, Undefined)

Parse(r, m, skipFinalRead) ==
  LET refused(e) == Parsed(Raise(r, e), m, Undefined)
  IN  CASE r.node = "EndDocument" -> refused("END_OF_DOCUMENT")
        [] r.node = Unread -> ParseFirst(Read(r), m, skipFinalRead)
        [] r.node \in {"Value", "ValuePart"} ->
             PassScalar(IF r.node = "Value" THEN ParseValue(r, m) ELSE ParseParts(r, m), skipFinalRead)
        [] r.node \in {"Array", "Object"} ->
             PassBracket(ParseList(Parsed(Read(r), m, Element(r.node, Nullptr))), skipFinalRead)
        [] r.node = "Field" -> refused("FIELD_NOT_SUPPORTED")
        [] r.node \in {"EndArray", "EndObject"} -> refused("NO_DATA")
        [] OTHER -> refused("UNKNOWN_STATE")

ParseSubtree(r, m) == Parse(r, m, FALSE)

-----------------------------------------------------------------------------
(* scanMatchFields: the name of the field under the cursor is compared with  *)
(* several at once, and if it is none of them its value is skipped.          *)

\* Which of the names it is, 0 if none.  An error of the source is answered
\* with false, and so with the first of them.
Scanned(r, match) == [r |-> r, match |-> match]
NoneOf(r) == Scanned(r, 0)
Failed(r) == Scanned(r, IF HasSourceError(r.ls) THEN 1 ELSE 0)
Answered(r, match) == IF r.ok THEN Scanned(r, match) ELSE Failed(r)

\* The names that have agreed with the field's so far.
Candidates(ls, names) == [ok |-> TRUE, ls |-> ls, upTo |-> 0, live |-> DOMAIN names, bad |-> FALSE]

Narrowed(scan, u, names) ==
  IF u.ok
    THEN [scan EXCEPT !.ls = u.ls, !.upTo = @ + 1,
                      !.live = {i \in @ : NameAt(names[i], scan.upTo + 1) = u.cp}]
    ELSE [scan EXCEPT !.ok = FALSE, !.ls = u.ls, !.bad = TRUE]

NarrowStep(scan, names) ==
  IF scan.live # {} /\ InString(scan.ls)
    THEN Narrowed(scan, Undecorate(scan.ls, FALSE), names)
    ELSE [scan EXCEPT !.ok = FALSE]

Narrow(ls, names) ==
  WhileOk(LAMBDA scan : NarrowStep(scan, names), Candidates(ls, names), Left(ls))

Whole(scan, names) == {i \in scan.live : Len(names[i]) = scan.upTo}
FirstOf(S) == IF S = {} THEN 0 ELSE CHOOSE i \in S : \A j \in S : i <= j

\* skipCommaOrEndObjectOrEndArray
SkipCommaOrEnd(r) ==
  LET over(unterminated) == Then(StepOver(r, unterminated), LAMBDA a : Arrive(a, SkipWhiteSpace(a.ls)))
  IN  CASE More(r.ls) /\ r.ls.current = "," -> EatBefore(r, "UNTERMINATED_OBJECT_OR_ARRAY")
        [] More(r.ls) /\ r.ls.current = "]" ->
             Then(over("UNTERMINATED_ARRAY"), LAMBDA a : Land(a, "EndArray"))
        [] More(r.ls) /\ r.ls.current = "}" ->
             Then(over("UNTERMINATED_OBJECT"), LAMBDA a : Land(Deeper(a, -1), "EndObject"))
        [] OTHER -> No(r)

\* Over the value of a field that is none of them, to the next field.
SkipFieldValue(r) ==
  NoneOf(Then(Then(r, SkipObjectOrArrayOrValuePart), LAMBDA a :
    Then(SkipCommaOrEnd(a), LAMBDA b :
      IF b.node = "EndObject" THEN b ELSE [b EXCEPT !.node = "Field"])))

\* Over the colon and the white space after it.
PastColon(r) == Then(IfMoreElse(On(r, Advance(r.ls)), "FIELD_NO_VALUE"),
                     LAMBDA a : Arrive(a, SkipWhiteSpace(a.ls)))
PastColonWeakly(r) ==
  LET a == On(r, Advance(r.ls))
  IN  IF More(a.ls) \/ HasSourceError(a.ls) THEN PastColon(r) ELSE Raise(a, "FIELD_NO_VALUE")

NameEnds(r, match) ==
  LET past == PastColon(r)
  IN  CASE ~r.ok -> Failed(r)
        [] r.ok /\ r.ls.current # ":" -> NoneOf(Raise(r, "FIELD_NO_VALUE"))
        [] r.ok /\ r.ls.current = ":" /\ (~past.ok \/ match # 0) ->
             Answered([past EXCEPT !.node = IF past.ok THEN "Field" ELSE @], match)
        [] r.ok /\ r.ls.current = ":" /\ past.ok /\ match = 0 ->
             SkipFieldValue([past EXCEPT !.node = "Field"])

\* The rest of a name that is none of them.
RestOfName(r) ==
  LET answer == SkipStringPart(r.ls)
      r1 == On(r, answer.ls)
  IN  IF answer.ok THEN Arrive(r1, SkipWhiteSpace(answer.ls))
      ELSE IF HasSourceError(answer.ls) THEN SourceFailed(r1) ELSE Raise(r1, "UNTERMINATED_STRING")

NameGoesOn(r) ==
  LET past == PastColonWeakly(r)
  IN  CASE ~r.ok -> Failed(r)
        [] r.ok /\ r.ls.current # ":" -> NoneOf(r)
        [] r.ok /\ r.ls.current = ":" /\ ~past.ok -> Failed(past)
        [] r.ok /\ r.ls.current = ":" /\ past.ok -> SkipFieldValue(past)

NameScanned(r, scan, names) ==
  CASE scan.bad /\ HasSourceError(scan.ls) -> Failed(SourceFailed(r))
    [] scan.bad /\ ~HasSourceError(scan.ls) -> NoneOf(Die(r, "UNTERMINATED_STRING"))
    [] ~scan.bad /\ r.ls.current = "\"" -> NameEnds(Eat(r), FirstOf(Whole(scan, names)))
    [] ~scan.bad /\ r.ls.current # "\"" -> NameGoesOn(RestOfName(r))

ScanMatchFields(r, names) ==
  LET opened == StepOver(r, "UNTERMINATED_STRING")
      scanned(scan) == NameScanned(On(opened, scan.ls), scan, names)
  IN  IF r.ls.current # "\"" THEN NoneOf(Raise(r, "UNEXPECTED_VALUE"))
      ELSE IF opened.ok THEN scanned(Narrow(opened.ls, names))
      ELSE Failed(opened)

-----------------------------------------------------------------------------
(* extractImpl.  What it has done: the reader, the memory, and the variables *)
(* that the extractors are linked to, which nothing sets beforehand.         *)

Taken(r, m, got) == [r |-> r, m |-> m, got |-> got]
Refuses(x) == [x EXCEPT !.r = No(@)]
NoErrorIn(r) == [r EXCEPT !.ok = ~HasError(r)]

ValueTaken(x, p, slot) == Taken(p.r, p.m, IF p.r.ok THEN [x.got EXCEPT ![slot] = p.e] ELSE x.got)

ExtractValue(x, slot, subcall) ==
  IF x.r.node \in {"Object", "Value", "ValuePart", "Array", Unread}
    THEN ValueTaken(x, Parse(x.r, x.m, subcall), slot)
    ELSE Refuses(x)

\* A list has been gone through: the cursor has to be after its end.
ListLeft(x, end) ==
  IF x.r.ok /\ x.r.node = end THEN [x EXCEPT !.r = NoErrorIn(SkipIfComma(@))] ELSE Refuses(x)

RECURSIVE Take(_, _, _), TakeItems(_, _, _, _), TakeFields(_, _, _, _)

\* Where a read() has come to.
TakeRead(x, q, subcall) == IF x.r.ok THEN Take(x, q, subcall) ELSE x

\* Indices and no extractors for them.
ErrorUnless(r) == IF r.ok THEN r ELSE [r EXCEPT !.node = "Error"]
NoChildren(x) ==
  Refuses([x EXCEPT !.r = ErrorUnless(SkipToEndArray(Raise(@, "INVALID_ARGUMENT")))])

\* After an item that was wanted; the index is not counted on.
ItemTaken(x, q, index, left) ==
  IF ~x.r.ok THEN x
  ELSE IF left = 1 THEN [x EXCEPT !.r = SkipToEndArray(@)]
  ELSE TakeItems(x, q, index, left - 1)

TakeItem(x, q, k, index, left) ==
  IF x.r.ok /\ x.r.node = "EndArray" THEN x
  ELSE ItemTaken(TakeRead(x, q.children[k], TRUE), q, index, left)

\* left is how many are still wanted, index that of the item under the cursor.
TakeItems(x, q, index, left) ==
  LET k == SelectInSeq(q.keys, LAMBDA key : key = index)
  IN  IF ~x.r.ok \/ HasError(x.r) \/ x.r.node = "EndArray" THEN x
      ELSE IF k = 0
        THEN TakeItems([x EXCEPT !.r = Then(SkipObjectOrArrayOrValuePart(@), SkipIfComma)],
                       q, index + 1, left)
      ELSE IF q.children = << >> THEN NoChildren(x)
      ELSE TakeItem([x EXCEPT !.r = Read(@)], q, k, index, left)

\* A child that has come to the end of an object of its own leaves the reader
\* there.
EndsInside(x, q) == q.children # << >> /\ x.r.node = "EndObject"

AfterChild(x, q) ==
  IF EndsInside(x, q) THEN [x EXCEPT !.r = [Yes(SkipIfComma(@)) EXCEPT !.node = "Value"]]
  ELSE x

DepthAfter(x, q, depth) == IF EndsInside(x, q) THEN x.r.depth ELSE depth

\* After the value of a field that was wanted.
FieldTaken(x, q, left, depth) ==
  IF ~x.r.ok THEN x
  ELSE IF left = 1 THEN [AfterChild(x, q) EXCEPT !.r = SkipToEndObject(@)]
  ELSE TakeFields(AfterChild(x, q), q, left - 1, DepthAfter(x, q, depth))

TakeField(x, q, k) ==
  IF q.children = << >> THEN [x EXCEPT !.r = Yes(@)]
  ELSE TakeRead([x EXCEPT !.r = Read(@)], q.children[k], TRUE)

FieldScanned(x, match, q, left, depth) ==
  IF match = 0 THEN TakeFields(x, q, left, depth)
  ELSE FieldTaken(TakeField(x, q, match), q, left, depth)

ScanTaken(x, s, q, left, depth) ==
  FieldScanned([x EXCEPT !.r = Yes(s.r)], s.match, q, left, depth)

\* left is how many are still wanted, depth the m_objectDepth of the object.
TakeFields(x, q, left, depth) ==
  LET size == Len(q.keys) * PointerSize
      a == Alloc(x.m, << >>, size)
      inObject == x.r.node # "EndObject" \/ x.r.depth >= depth \/ x.r.ls.current = "\""
  IN  IF ~x.r.ok \/ HasError(x.r) \/ ~inObject THEN x
      ELSE IF a.last = Nullptr THEN [x EXCEPT !.r = Raise(@, "OUT_OF_MEMORY"), !.m = a]
      ELSE ScanTaken([x EXCEPT !.m = Unalloc(a, size)], ScanMatchFields(x.r, q.keys), q, left, depth)

Take(x, q, subcall) ==
  CASE q.kind = "value" -> ExtractValue(x, q.slot, subcall)
    [] q.kind # "value" /\ x.r.node = Unread -> TakeRead([x EXCEPT !.r = Read(@)], q, FALSE)
    [] q.kind = "Array" /\ x.r.node = "Array" ->
         ListLeft(TakeItems([x EXCEPT !.r = Yes(@)], q, 0, Len(q.keys)), "EndArray")
    [] q.kind = "Object" /\ x.r.node = "Object" ->
         ListLeft(TakeFields([x EXCEPT !.r = Yes(@)], q, Len(q.keys), x.r.depth), "EndObject")
    [] OTHER -> Refuses(x)

LeaveExtracted(x) == IF x.r.ok THEN [x EXCEPT !.r = OrEnd(Read(@), TRUE)] ELSE x

Extract(x, q) == LeaveExtracted(Take(x, q, FALSE))
=============================================================================
