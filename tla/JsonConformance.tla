--------------------------- MODULE JsonConformance ---------------------------
(***************************************************************************)
(* JsonReader against its promise, NodeStream, on valid documents: where   *)
(* the cursor is says which nodes have been passed, the reader's node and  *)
(* text have to be those of the node passed last, and each function has to *)
(* move the cursor as NodeStream moves its place.                          *)
(***************************************************************************)
EXTENDS JsonPull, FiniteSets

Place ==
  LET cursor == Cursor
  IN  Cardinality({i \in DOMAIN doc.nodes : doc.nodes[i].past <= cursor})

Stream == INSTANCE NodeStream WITH place <- Place, found <- r.ok

\* A client that knows where it is: it goes to the end of an array or object
\* that it is in, if it is not on another's end and none of the kind opens on
\* the way, and skips from a node that it has come to at once, not from a scalar
\* that comes or has come in parts.
Inside(kind) ==
  /\ Place > 0 /\ Stream!Around(Place, kind) # {}
  /\ Stream!Kind(Place) # "End" \o kind
  /\ \A j \in Place + 1 .. Stream!EndOf(Stream!Innermost(Place, kind)) : Stream!Kind(j) # kind

\* It counts elements above the first only where none is an array: the end of
\* one that is skipped is taken for the end of all.
Countable(index) ==
  LET i == IF Place = 0 \/ Stream!Kind(Place) = "Field" THEN Place + 1 ELSE Place
  IN  \/ index <= 1
      \/ Stream!Kind(i) # "Array"
      \/ \A j \in Stream!Elements(i) : Stream!Kind(j) # "Array"

ClientNext ==
  \/ ReadCall
  \/ /\ r.node \notin {"ValuePart", "EndValuePart"}
     /\ \/ SkipSubtreeCall
        \/ SkipToIndexCall /\ Countable(call'.index)
        \/ Inside("Array") /\ SkipToEndArrayCall
        \/ Inside("Object") /\ SkipToEndObjectCall

ClientSpec == Init /\ [][ClientNext]_vars

-----------------------------------------------------------------------------
\* A document is read without an error, node by node, and skipped through:
\* each call leaves the cursor where NodeStream says.
FollowsStream == Stream!Spec

\* nodeType() and valueType() are those of the node before the cursor, or of
\* the scalar the cursor is in, whichever calls have brought it there.  That a
\* number is not an integer shows when it has come to its end.
NodeInStep ==
  LET here == doc.nodes[Place]
      next == doc.nodes[Place + 1]
      passed == r.lex.accept = 1 /\ r.vtype = "String"
  IN  CASE r.node = Unread -> Place = 0
        [] r.node = "EndDocument" -> Place = Len(doc.nodes)
        [] r.node = "ValuePart" /\ ~passed ->
             next.node = "Value" /\ \/ next.type = r.vtype
                                    \/ next.type = "Real" /\ r.vtype = "Integer"
        [] r.node \in {"ValuePart", "EndValuePart"} /\ passed -> here.node = "Value"
        [] r.node = "EndValuePart" /\ ~passed -> here.node = "Value" /\ here.type = r.vtype
        [] OTHER -> here.node = r.node /\ (r.node = "Value" => here.type = r.vtype)

\* integerValue() of a number read whole, and of one whose last part has been
\* read, is the number without its fraction, and booleanValue() the literal:
\* the chunks a value has come in do not show in it.
ValueInStep ==
  r.node \in {"Value", "EndValuePart"} =>
    LET here == doc.nodes[Place]
    IN  /\ here.type \in {"Integer", "Real"} => IntegerValue(r) = here.value
        /\ here.type = "Boolean" => BooleanValue(r) = (here.value = 1)

NothingIsWrong == ~HasError(r)

\* value() gives back each scalar and field name as it is in the document,
\* escapes resolved; when it comes in parts, the parts are the beginning of
\* it and then all of it.
TextInStep ==
  CASE r.node \in {"Value", "Field", "EndValuePart"} -> text = doc.nodes[Place].text
    [] r.node = "ValuePart" ->
         \E i \in {Place, Place + 1} \cap DOMAIN doc.nodes :
           /\ doc.nodes[i].node = "Value"
           /\ Len(text) <= Len(doc.nodes[i].text)
           /\ text = SubSeq(doc.nodes[i].text, 1, Len(text))
    [] OTHER -> TRUE
=============================================================================
