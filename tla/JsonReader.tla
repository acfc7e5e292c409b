------------------------------ MODULE JsonReader ------------------------------
(***************************************************************************)
(* JsonReader of src/src/JsonReader.hpp: the pull parser, as far as its    *)
(* cursor goes (read and the skip functions; extract and parseSubtree are  *)
(* clients of these).  A reader is a record:                               *)
(*                                                                         *)
(*   ls     the source m_lc (module LexSource)                             *)
(*   node   m_state                                                        *)
(*   vtype  m_valueType                                                    *)
(*   lex    m_lexState: state, accept, fracPart, eCount and integer        *)
(*   err    m_lastError                                                    *)
(*   depth  m_objectDepth, an unsigned counter that wraps                  *)
(*   ok     what the last function to return returned                      *)
(*                                                                         *)
(* A member function is an operator from the reader before the call to the *)
(* reader after it.  A number is evaluated as far as its integer goes; its *)
(* floating-point value is left out, and no number is long enough to       *)
(* overflow.                                                               *)
(***************************************************************************)
EXTENDS JsonUtility

CONSTANT DepthMod   \* 2^w for the w bits of unsigned long

ASSUME DepthModAssumption == DepthMod \in Nat /\ DepthMod > 1

\* m_state; where the source's own states would clash, the names differ
Unread == "Initial"
Nodes == {Unread, "EndDocument", "Error", "Value", "Field", "Array", "EndArray",
          "Object", "EndObject", "ValuePart", "EndValuePart"}
ValueTypes == {"Undefined", "Null", "String", "Real", "Integer", "Boolean"}
NoError == "NO_ERROR"
Errors ==
  {NoError, "IO_ERROR", "OUT_OF_MEMORY", "UNTERMINATED_OBJECT", "UNTERMINATED_ARRAY",
   "UNTERMINATED_STRING", "UNTERMINATED_OBJECT_OR_ARRAY", "UNEXPECTED_FIELD",
   "FIELD_TOO_LONG", "FIELD_NO_VALUE", "UNEXPECTED_VALUE", "INVALID_VALUE",
   "INVALID_ARGUMENT"}

\* m_lexState: the states of both automata, and counters of 2 and 16 bits
LexStates ==
  [state : 0 .. 13, accept : 0 .. 3, fracPart : 0 .. 3, eCount : 0 .. 2 ^ 16 - 1, integer : Int]

NewReader(ls) ==
  [ls |-> ls, node |-> Unread, vtype |-> "Undefined",
   lex |-> [state |-> 0, accept |-> 0, fracPart |-> 0, eCount |-> 0, integer |-> 0],
   err |-> NoError, depth |-> 0, ok |-> FALSE]

-----------------------------------------------------------------------------
(* Returning, and the two error functions.                                  *)

On(r, ls) == [r EXCEPT !.ls = ls]
Yes(r) == [r EXCEPT !.ok = TRUE]
No(r) == [r EXCEPT !.ok = FALSE]
Land(r, node) == [r EXCEPT !.node = node, !.ok = TRUE]

\* JSON_ERROR(e); return false: the next call may clear it.  The message, which
\* is written over the capture buffer, is left out.
Raise(r, e) == [r EXCEPT !.err = e, !.ok = FALSE]
\* and the same with m_state = Error, which the code calls unrecoverable
Die(r, e) == [r EXCEPT !.err = e, !.node = "Error", !.ok = FALSE]

\* error(m_lc); return false
SourceFailed(r) ==
  CASE r.ls.state = IOError     -> Die(r, "IO_ERROR")
    [] r.ls.state = OutOfMemory -> Raise(r, "OUT_OF_MEMORY")
    [] OTHER                    -> No(r)

ClearError(r) == IF r.node = "Error" THEN r ELSE [r EXCEPT !.err = NoError]
HasError(r) == r.node = "Error" \/ r.err # NoError

\* The step that follows one that returned true.
Then(r, Op(_)) == IF r.ok THEN Op(r) ELSE r

\* The source has become ls; if(m_lc.hasError()) { error(m_lc); return false; }
Arrive(r, ls) == IF HasSourceError(ls) THEN SourceFailed(On(r, ls)) ELSE Yes(On(r, ls))

\* advance(), which here has to end on a character; at the end of the input
\* the function returns false without an error.
IfMore(r) == IF More(r.ls) THEN Yes(r) ELSE SourceFailed(r)
StepOnto(r) == IfMore(On(r, Advance(r.ls)))

\* advance() and skipWhiteSpace(): to the next token, or to the end.
Eat(r) == Arrive(r, SkipWhiteSpace(Advance(r.ls)))

\* Eat for a character that something must follow.
EatBefore(r, e) == Then(Eat(r), LAMBDA a : IF Eof(a.ls) THEN Die(a, e) ELSE a)

Closers == {"]", "}", ","}

\* recoverValue: on to the next comma or closing bracket, wherever it is
Recovering(ls) == Answer(More(ls) /\ ls.current \notin Closers, ls)
Recovered(r) ==
  IF HasSourceError(r.ls) THEN SourceFailed([r EXCEPT !.node = "Error"]) ELSE Land(r, "Value")

RecoverValue(r) ==
  Recovered(On(r, WhileOk(LAMBDA acc : Recovering(Advance(acc.ls)), Answer(TRUE, r.ls),
                          Left(r.ls)).ls))

-----------------------------------------------------------------------------
(* readAnyOpen: the token under the cursor when it opens a value or field.  *)

OpenNode(r, node, unterminated) ==
  Then(StepOnto(r), LAMBDA a :
    Then(Arrive(a, SkipWhiteSpace(a.ls)), LAMBDA b :
      IF Eof(b.ls) THEN Die(b, unterminated) ELSE Land(b, node)))

OpenArray(r) == OpenNode(r, "Array", "UNTERMINATED_ARRAY")

OpenObject(r) ==
  Then(OpenNode(r, "Object", "UNTERMINATED_OBJECT"),
       LAMBDA a : [a EXCEPT !.depth = (@ + 1) % DepthMod])

\* Mutant: a brace does not end a scalar.
Delimited_NoBrace(ls) == ~HasSourceError(ls) /\ (Eof(ls) \/ ls.current \in {"]", ","})

\* A scalar must be followed by the end of something.
Delimited(ls) == ~HasSourceError(ls) /\ (Eof(ls) \/ ls.current \in Closers)

NumberType(st) == IF st.fracPart # 0 THEN "Real" ELSE "Integer"

\* The integer with the exponent applied, cut off towards zero.
Tens[n \in 0 .. 2 ^ 16 - 1] == IF n = 0 THEN 1 ELSE 10 * Tens[n - 1]
Quotient(n, d) == IF n < 0 THEN -((-n) \div d) ELSE n \div d

Scaled(st) ==
  CASE st.fracPart < 2 -> st.integer
    [] st.fracPart = 2 -> st.integer * Tens[st.eCount]
    [] st.fracPart = 3 -> Quotient(st.integer, Tens[st.eCount])

\* The number that has come to its end.
Numbered(r) == [r EXCEPT !.vtype = NumberType(r.lex), !.lex.integer = Scaled(r.lex)]

\* A run of an automaton: over it, and unless it was cut short, over the white
\* space that follows.
Lexed(reader, run, Ending(_)) ==
  LET r == [reader EXCEPT !.ls = run.ls, !.lex = run.st]
  IN  IF run.ls.state = OutOfMemory THEN Land(r, "ValuePart")
      ELSE IF HasSourceError(run.ls) THEN No(RecoverValue(SourceFailed(r)))
      ELSE Ending(On(r, SkipWhiteSpace(run.ls)))

\* An ill-formed number leaves the node alone and the cursor in its middle.
NumberEnd(r) ==
  CASE HasSourceError(r.ls) -> SourceFailed(r)
    [] Delimited(r.ls) /\ r.lex.accept # 0 ->
         Land(Numbered(r), "Value")
    [] ~HasSourceError(r.ls) /\ ~(Delimited(r.ls) /\ r.lex.accept # 0) ->
         Raise(r, "INVALID_VALUE")

OpenNumber(r) ==
  Lexed([r EXCEPT !.vtype = "Integer"],
        LexAll(LexNumber, ClearCapture(r.ls), [r.lex EXCEPT !.state = 0]), NumberEnd)

LiteralType(c) == IF c = "n" THEN "Null" ELSE "Boolean"

LiteralEnd(r) ==
  IF Delimited(r.ls) /\ r.lex.accept # 0
    THEN Land(r, "Value")
    ELSE Raise(RecoverValue(r), "INVALID_VALUE")

OpenLiteral(r) ==
  Lexed([r EXCEPT !.vtype = LiteralType(r.ls.current)],
        LexAll(LexLiteral, ClearCapture(r.ls), [r.lex EXCEPT !.state = 0, !.accept = 0]),
        LiteralEnd)

\* The colon after a string makes it a field.
FieldOrString(r, allowFields) ==
  IF More(r.ls) /\ r.ls.current = ":"
    THEN Then(Eat(r), LAMBDA a : IF allowFields THEN Land(a, "Field")
                                 ELSE Die(a, "UNEXPECTED_FIELD"))
    ELSE Yes(r)

\* Mutant: whether the last number or literal was accepted is not forgotten.
EndString_KeepsAccept(r, allowFields) ==
  CASE r.ls.state = OutOfMemory -> Land([r EXCEPT !.vtype = "String"], "ValuePart")
    [] r.ls.state # OutOfMemory /\ HasSourceError(r.ls) -> SourceFailed(r)
    [] ~HasSourceError(r.ls) /\ r.ls.current # "\"" -> Raise(r, "UNTERMINATED_STRING")
    [] ~HasSourceError(r.ls) /\ r.ls.current = "\"" ->
         Then(Arrive(r, Advance(r.ls)), LAMBDA a :
           Then(Arrive([a EXCEPT !.vtype = "String"], SkipWhiteSpace(a.ls)), LAMBDA b :
             FieldOrString(b, allowFields)))

\* With the cursor where undecorate has stopped.
EndString(r, allowFields) ==
  CASE r.ls.state = OutOfMemory ->
         Land([r EXCEPT !.vtype = "String", !.lex.accept = 0], "ValuePart")
    [] r.ls.state # OutOfMemory /\ HasSourceError(r.ls) -> SourceFailed(r)
    [] ~HasSourceError(r.ls) /\ r.ls.current # "\"" -> Raise(r, "UNTERMINATED_STRING")
    [] ~HasSourceError(r.ls) /\ r.ls.current = "\"" ->
         Then(Arrive(r, Advance(r.ls)), LAMBDA a :
           Then(Arrive([a EXCEPT !.vtype = "String"], SkipWhiteSpace(a.ls)), LAMBDA b :
             FieldOrString(b, allowFields)))

OpenString(r, allowFields) ==
  Then(Arrive([r EXCEPT !.node = "Value"], Advance(ClearCapture(r.ls))), LAMBDA a :
    IF Eof(a.ls) THEN Raise(a, "UNTERMINATED_STRING")
    ELSE EndString(On(a, UndecorateAll(a.ls)), allowFields))

ReadAnyOpen(reader, allowFields) ==
  LET r == [reader EXCEPT !.vtype = "Undefined"]
      c == r.ls.current
  IN  CASE c = "[" -> OpenArray(r)
        [] c = "{" -> OpenObject(r)
        [] c \in {"-"} \cup Digit -> OpenNumber(r)
        [] c \in {"t", "f", "n"} -> OpenLiteral(r)
        [] c = "\"" -> OpenString(r, allowFields)
        [] OTHER -> No(RecoverValue(Raise(r, "INVALID_VALUE")))

-----------------------------------------------------------------------------
(* readValuePart: the next chunk of a value that did not fit.               *)

\* Mutant: the room is not asked about before a character.
StringPart_Unasked(ls) == UndecorateAll(ls)

\* Unlike in OpenString, there is known to be room before each character.
StringPart(ls) ==
  WhileOk(LAMBDA acc : IF HasRoom(acc.ls) THEN Undecorate(acc.ls, TRUE)
                       ELSE [acc EXCEPT !.ok = FALSE],
          [ok |-> TRUE, ls |-> ls, cp |-> NUL], Left(ls)).ls

CloseString(r) ==
  Then(Arrive(r, Advance(r.ls)), LAMBDA a :
    Then(Arrive([a EXCEPT !.lex.accept = 1], SkipWhiteSpace(a.ls)), LAMBDA b :
      IF More(b.ls) /\ b.ls.current = ":" THEN Die(b, "FIELD_TOO_LONG")
      ELSE IF b.ls.captured = << >> THEN Land(b, "EndValuePart")
      ELSE b))

EndStringPart(r) ==
  CASE ~HasRoom(r.ls) -> Yes(r)
    [] HasRoom(r.ls) /\ HasSourceError(r.ls) -> SourceFailed(r)
    [] HasRoom(r.ls) /\ ~HasSourceError(r.ls) /\ r.ls.current # "\"" ->
         Raise(r, "UNTERMINATED_STRING")
    [] HasRoom(r.ls) /\ ~HasSourceError(r.ls) /\ r.ls.current = "\"" -> CloseString(r)

ReadStringPart(r) ==
  IF r.lex.accept = 1
    THEN Land(On(r, ClearCapture(r.ls)), "EndValuePart")
    ELSE EndStringPart(On(r, StringPart(ClearCapture(r.ls))))

\* A number or a literal goes on where its automaton stopped.
EndLexedPart(r) ==
  LET literal == r.vtype \in {"Null", "Boolean"}
  IN  IF HasSourceError(r.ls) /\ literal THEN SourceFailed(r)
      ELSE IF Delimited(r.ls) /\ r.lex.accept # 0
        THEN Land(IF literal THEN r ELSE Numbered(r), "EndValuePart")
      ELSE Raise(RecoverValue(r), "INVALID_VALUE")

ReadNumberPart(r) == Lexed(r, LexAll(LexNumber, ClearCapture(r.ls), r.lex), EndLexedPart)
ReadLiteralPart(r) == Lexed(r, LexAll(LexLiteral, ClearCapture(r.ls), r.lex), EndLexedPart)

ReadValuePart(r) ==
  CASE r.vtype = "String" -> ReadStringPart(r)
    [] r.vtype \in {"Real", "Integer"} -> ReadNumberPart(r)
    [] r.vtype \in {"Null", "Boolean"} -> ReadLiteralPart(r)
    [] OTHER -> No(RecoverValue(Raise(r, "INVALID_VALUE")))

-----------------------------------------------------------------------------
(* The closing brackets and the comma.                                      *)

SkipIfComma(r) ==
  IF More(r.ls) /\ r.ls.current = ","
    THEN EatBefore(r, "UNTERMINATED_OBJECT_OR_ARRAY")
    ELSE Yes(r)

\* When the brace is the last byte there is nothing to advance to, and the
\* function returns before it has set the node.
ReadEndObject(r) ==
  IF More(Advance(r.ls))
    THEN Then(Eat(r), LAMBDA a : Land(a, "EndObject"))
    ELSE LET a == StepOnto(r) IN [a EXCEPT !.ok = ~HasError(a)]

\* Mutants: the node is not set, as in ReadEndObject; the bracket is not passed.
ReadEndArray_KeepsNode(r) == Eat(r)
ReadEndArray_Stays(r) == Land(r, "EndArray")

ReadEndArray(r) == Then(Eat(r), LAMBDA a : Land(a, "EndArray"))

ReadAny(r) ==
  CASE ~More(r.ls) -> No(r)
    [] More(r.ls) /\ r.ls.current = "]" -> ReadEndArray(r)
    [] More(r.ls) /\ r.ls.current = "}" -> ReadEndObject(r)
    [] OTHER -> Then(SkipIfComma(r), LAMBDA a : ReadAnyOpen(a, TRUE))

ReadFieldOrEndObject(r) ==
  CASE r.ls.current = "}" ->
         Then(Eat([r EXCEPT !.depth = (@ - 1) % DepthMod]), LAMBDA a : Land(a, "EndObject"))
    [] r.ls.current = "\"" ->
         Then(ReadAnyOpen(r, TRUE), LAMBDA a : IF a.node = "Field" THEN a
                                               ELSE Raise(a, "FIELD_TOO_LONG"))
    [] OTHER -> No(r)

ReadValueOrEndArray(r) ==
  IF r.ls.current = "]" THEN ReadEndArray(r) ELSE ReadAnyOpen(r, FALSE)

-----------------------------------------------------------------------------
(* ensureStarted as the public functions begin with it.                     *)
Begun(r, started) ==
  CASE started -> Yes(r)
    [] ~started /\ HasSourceError(r.ls) -> SourceFailed(r)
    [] ~started /\ ~HasSourceError(r.ls) -> No([r EXCEPT !.node = "EndDocument"])

Begin(r) == Begun(On(r, EnsureStarted(r.ls)), Started(r.ls, EnsureStarted(r.ls)))

ReadNode(r) ==
  CASE r.node = Unread ->
         Then(Arrive([r EXCEPT !.depth = 0], SkipWhiteSpace(r.ls)),
              LAMBDA a : ReadAnyOpen(a, FALSE))
    [] r.node \in {"Value", "EndValuePart", "EndObject", "EndArray"} -> ReadAny(r)
    [] r.node = "ValuePart" -> ReadValuePart(r)
    [] r.node = "Object" -> ReadFieldOrEndObject(r)
    [] r.node = "Field" -> ReadAnyOpen(r, FALSE)
    [] r.node = "Array" -> ReadValueOrEndArray(r)
    [] r.node = "EndDocument" -> No(r)

Read(reader) ==
  Then(Begin(reader),
       LAMBDA r : CASE r.node = "Error" -> No(r)
                    [] r.node \notin {"Error", Unread} /\ ~More(r.ls)
                         /\ r.ls.state # OutOfMemory -> No([r EXCEPT !.node = "EndDocument"])
                    [] OTHER -> ReadNode(ClearError(r)))
-----------------------------------------------------------------------------
(* What the client asks of the node it is at.                               *)

HasValue(r) ==
  \/ r.node \in {"Field", "Value", "ValuePart", "Error"} \/ HasError(r)
  \/ r.node = "EndValuePart" /\ r.vtype \in {"Boolean", "Integer", "Real"}

ValueType(r) == IF HasValue(r) THEN r.vtype ELSE "Undefined"

IntegerValue(r) ==
  IF HasError(r) \/ ~HasValue(r) \/ r.vtype \notin {"Integer", "Real"} THEN 0 ELSE r.lex.integer

BooleanValue(r) == ValueType(r) = "Boolean" /\ r.lex.accept = 2
=============================================================================
