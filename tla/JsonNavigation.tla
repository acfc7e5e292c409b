---------------------------- MODULE JsonNavigation ----------------------------
(***************************************************************************)
(* The skip functions of JsonReader (src/src/JsonReader.hpp): moving the   *)
(* cursor over input without reading it.  They look only at quotes,        *)
(* brackets and commas, and count brackets instead of parsing.             *)
(***************************************************************************)
EXTENDS JsonReader

Brackets == {"\"", "{", "}", "[", "]"}

\* advance(), which here has to end on a character.
IfMoreElse(r, unterminated) ==
  CASE More(r.ls) -> Yes(r)
    [] ~More(r.ls) /\ HasSourceError(r.ls) -> SourceFailed(r)
    [] ~More(r.ls) /\ ~HasSourceError(r.ls) -> Die(r, unterminated)

StepOver(r, unterminated) == IfMoreElse(On(r, Advance(r.ls)), unterminated)

-----------------------------------------------------------------------------
(* Strings and other scalars.                                               *)

StringPassed(r, answer) ==
  CASE answer.ok -> Then(Arrive(r, SkipWhiteSpace(answer.ls)), LAMBDA a : Land(a, "Value"))
    [] ~answer.ok /\ HasSourceError(answer.ls) -> SourceFailed(On(r, answer.ls))
    [] ~answer.ok /\ ~HasSourceError(answer.ls) -> Die(On(r, answer.ls), "UNTERMINATED_STRING")

SkipString(reader) ==
  LET r == ClearError(reader)
  IN  IF r.ls.current # "\"" THEN Die(r, "UNTERMINATED_STRING")
      ELSE Then(StepOver(r, "UNTERMINATED_STRING"),
                LAMBDA a : StringPassed(a, SkipStringPart(a.ls)))

SkippedToCloser(r, s) ==
  CASE s.found # NUL -> Land(On(r, s.ls), "Value")
    [] s.found = NUL /\ HasSourceError(s.ls) -> SourceFailed(On(r, s.ls))
    [] s.found = NUL /\ ~HasSourceError(s.ls) -> No([On(r, s.ls) EXCEPT !.node = "EndDocument"])

SkipValuePart(reader) ==
  LET r == ClearError(reader)
  IN  IF ~More(r.ls) THEN No(r)
      ELSE IF r.ls.current = "\"" THEN SkipString(r)
      ELSE SkippedToCloser(r, SkipToAny(r.ls, Closers))

-----------------------------------------------------------------------------
(* Brackets.  Both loops keep a count of their own next to m_objectDepth.   *)

Deeper(r, by) == [r EXCEPT !.depth = (@ + by) % DepthMod]

\* One round of a skip loop ends it, with the function's answer in r, or
\* goes on with r and the new count.  ch is what skipToAny has returned.
Ends(r) == [ok |-> FALSE, r |-> r, count |-> 0]
GoesOn(r, count) == [ok |-> r.ok, r |-> r, count |-> count]

\* Mutant: brackets inside an object are not counted, braces are.
SkipObjectTurn_BracesOnly(ch, r, count) ==
  CASE ch = NUL  -> Ends(SourceFailed(r))
    [] ch = "\"" -> GoesOn(SkipString(r), count)
    [] ch = "{"  -> GoesOn(StepOver(r, "UNTERMINATED_OBJECT"), count)
    [] ch \in {"[", "]"} -> GoesOn(StepOver(r, "UNTERMINATED_ARRAY"), count)
    [] ch = "}" /\ count <= 1 -> Ends(Eat([r EXCEPT !.node = "EndObject"]))
    [] ch = "}" /\ count > 1 -> GoesOn(Yes(On(r, Advance(r.ls))), count - 1)

SkipObjectTurn(ch, r, count) ==
  CASE ch = NUL  -> Ends(SourceFailed(r))
    [] ch = "\"" -> GoesOn(SkipString(r), count)
    [] ch = "{"  -> GoesOn(StepOver(Deeper(r, 1), "UNTERMINATED_OBJECT"), count + 1)
    [] ch = "["  -> GoesOn(StepOver(r, "UNTERMINATED_ARRAY"), count + 1)
    [] ch = "]"  -> GoesOn(StepOver(r, "UNTERMINATED_ARRAY"), count - 1)
    [] ch = "}" /\ count <= 1 ->
         Ends(Eat([Deeper(r, -1) EXCEPT !.node = IF Eof(r.ls) THEN "EndDocument"
                                                 ELSE "EndObject"]))
    [] ch = "}" /\ count > 1 -> GoesOn(Arrive(Deeper(r, -1), Advance(r.ls)), count - 1)

SkipArrayTurn(ch, r, count) ==
  CASE ch = NUL  -> Ends(No(r))
    [] ch = "\"" -> GoesOn(SkipString(r), count)
    [] ch = "{"  -> GoesOn(Then(StepOver(r, "UNTERMINATED_OBJECT"),
                                LAMBDA a : Deeper(a, 1)), count + 1)
    [] ch = "}"  -> GoesOn(Then(StepOver(r, "UNTERMINATED_OBJECT"),
                                LAMBDA a : Deeper(a, -1)), count - 1)
    [] ch = "["  -> GoesOn(StepOver(r, "UNTERMINATED_ARRAY"), count + 1)
    [] ch = "]" /\ count <= 1 ->
         Ends(Then(Eat(r), LAMBDA a : Land(a, IF Eof(a.ls) THEN "EndDocument" ELSE "EndArray")))
    [] ch = "]" /\ count > 1 -> GoesOn(Arrive(r, Advance(r.ls)), count - 1)

SkipObjectRound(acc, s) == SkipObjectTurn(s.found, On(acc.r, s.ls), acc.count)
SkipArrayRound(acc, s) == SkipArrayTurn(s.found, On(acc.r, s.ls), acc.count)

SkipLoop(step(_), reader, count) ==
  WhileOk(step, [ok |-> TRUE, r |-> ClearError(reader), count |-> count],
          2 * Left(reader.ls)).r

SkipObjectPart(r, count) ==
  SkipLoop(LAMBDA acc : SkipObjectRound(acc, SkipToAny(acc.r.ls, Brackets)), r, count)
SkipArrayPart(r, count) ==
  SkipLoop(LAMBDA acc : SkipArrayRound(acc, SkipToAny(acc.r.ls, Brackets)), r, count)

SkipObjectOrArrayOrValuePart(r) ==
  CASE ~More(r.ls) -> No(r)
    [] More(r.ls) /\ r.ls.current = "[" ->
         Then(EatBefore(r, "UNTERMINATED_ARRAY"), LAMBDA a : SkipArrayPart(a, 1))
    [] More(r.ls) /\ r.ls.current = "{" ->
         Then(EatBefore(r, "UNTERMINATED_OBJECT"), LAMBDA a : SkipObjectPart(a, 1))
    [] OTHER -> SkipValuePart(r)

-----------------------------------------------------------------------------
(* The public functions.                                                    *)

\* Mutant: what was skipped is not left.
ThenRead_Stays(r) == r

\* read() to leave what was skipped; false if that, or its node, is an error
UnlessError(r) == IF r.node = "Error" THEN No(r) ELSE r
ThenRead(r) == Then(r, LAMBDA a : UnlessError(Read(a)))

\* What skipSubtree does first in a document not yet read, skipToIndex in a
\* field too.
Enter(r, nodes) == IF r.node \in nodes THEN ThenRead(r) ELSE Yes(r)

OverSubtree(r) ==
  CASE r.node \in {"Value", "Field"} -> SkipObjectOrArrayOrValuePart(r)
    [] r.node = "Array" -> SkipArrayPart(r, 1)
    [] r.node = "Object" -> SkipObjectPart(r, 1)
    [] OTHER -> No(r)

\* The read() after it, if it has found the end it looked for.  Out of an
\* object it is no failure that the document ends.
EndNotFound(from, r) ==
  \/ from = "Array" /\ r.node # "EndArray"
  \/ from = "Object" /\ r.node # "EndObject"
ObjectMayBeLast(from, r) == IF from = "Object" /\ r.node = "EndDocument" THEN Yes(r) ELSE r
LeaveSubtree(from, r) ==
  ObjectMayBeLast(from, IF EndNotFound(from, r) THEN No(r) ELSE ThenRead(r))

SkipSubtreeAt(r) ==
  IF r.node \in {"EndArray", "EndObject"}
    THEN Yes(r)
    ELSE Then(OverSubtree(r), LAMBDA a : LeaveSubtree(r.node, a))

SkipSubtree(reader) ==
  LET r == ClearError(reader)
      begun == IF r.node = Unread THEN Begin(r) ELSE Yes(r)
  IN  Then(Then(begun, LAMBDA a : Enter(a, {Unread})), LAMBDA b : SkipSubtreeAt(ClearError(b)))

SkipToEndObject(r) ==
  IF r.node = "EndObject" THEN Yes(r) ELSE SkipObjectPart(r, 0)

\* Mutant: the error state is not asked about, as in SkipToEndObject.
SkipToEndArray_Unasked(r) == IF r.node = "EndArray" THEN Yes(r) ELSE SkipArrayPart(r, 0)

SkipToEndArray(r) ==
  CASE r.node = "EndArray" -> Yes(r)
    [] r.node = "Error" -> No(r)
    [] OTHER -> SkipArrayPart(r, 0)

\* One of the elements before the one asked for.
SkipElement(r) ==
  IF r.node = "EndArray" THEN No(r)
  ELSE Then(SkipObjectOrArrayOrValuePart(r), SkipIfComma)

SkipElements(r, count) == Repeat(SkipElement, Yes(r), count)

SkipToIndexAt(r, index) ==
  CASE r.node # "Array" -> No(r)
    [] r.node = "Array" /\ index = 0 -> ThenRead(Yes(r))
    [] r.node = "Array" /\ index > 0 -> Then(SkipElements(r, index), Read)

SkipToIndex(reader, index) ==
  Then(Then(Begin(ClearError(reader)), LAMBDA a : Enter(a, {Unread, "Field"})),
       LAMBDA b : SkipToIndexAt(b, index))
=============================================================================
