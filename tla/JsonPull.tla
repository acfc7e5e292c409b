------------------------------- MODULE JsonPull -------------------------------
(***************************************************************************)
(* A client driving a JsonReader over a document: the public functions of  *)
(* src/src/JsonReader.hpp as actions, and what the client has got from it. *)
(***************************************************************************)
EXTENDS JsonNavigation

CONSTANTS
  Documents,     \* what may be read: records with fields in and nodes
  SourceKinds,   \* the kinds of source it may be read from
  Calls,         \* the functions the client uses
  MaxIndex       \* the highest index it skips to

\* A NUL would end the input of an SZLexSource.
ASSUME JsonPullAssumption ==
  /\ SourceKinds \subseteq Kinds
  /\ MaxIndex \in Nat
  /\ \A d \in Documents : d.in \in Seq(BytesIn(d.in)) /\ NUL \notin BytesIn(d.in)

VARIABLES
  doc,    \* the document
  r,      \* the reader
  call,   \* the last function called and the index it was given, 0 for the
          \* others; r.ok is what it returned
  text    \* the value() of the node, its parts put together
vars == <<doc, r, call, text>>

\* The text the client has once a call has brought the reader to b, if it
\* had so much before: the parts of a value add up.
TextAfter(a, b) ==
  CASE a.node = "ValuePart" /\ b.node \in {"ValuePart", "EndValuePart"} ->
         IF b.ok THEN text \o b.ls.captured ELSE text
    [] a.node # "ValuePart" /\ b.node \in {"Value", "Field", "ValuePart"} -> b.ls.captured
    [] OTHER -> << >>

Returns(name, index, reader) ==
  /\ name \in Calls
  /\ call' = [name |-> name, index |-> index]
  /\ r' = reader
  /\ text' = TextAfter(r, reader)
  /\ UNCHANGED doc

Init ==
  /\ doc \in Documents
  /\ \E kind \in SourceKinds : r = NewReader(Opened(kind, doc.in))
  /\ call = [name |-> "none", index |-> 0]
  /\ text = << >>

ReadCall == Returns("read", 0, Read(r))

SkipSubtreeCall == Returns("skipSubtree", 0, SkipSubtree(r))

SkipToIndexCall ==
  \E index \in 0 .. MaxIndex : Returns("skipToIndex", index, SkipToIndex(r, index))

\* These two do not start the source, and read before the buffer of an "sz"
\* or a "mmap" source that nothing has started.
SkipToEndArrayCall ==
  /\ r.node # Unread
  /\ Returns("skipToEndArray", 0, SkipToEndArray(r))

SkipToEndObjectCall ==
  /\ r.node # Unread
  /\ Returns("skipToEndObject", 0, SkipToEndObject(r))

Next ==
  \/ ReadCall
  \/ SkipSubtreeCall
  \/ SkipToIndexCall
  \/ SkipToEndArrayCall
  \/ SkipToEndObjectCall
-----------------------------------------------------------------------------
(* What holds of any input whatever, valid or not.                          *)

\* The members of the reader and of its source stay in their ranges: the
\* cursor within the input and the value within the capture buffer.
TypeOK ==
  /\ r.node \in Nodes
  /\ r.vtype \in ValueTypes
  /\ r.lex \in LexStates
  /\ r.err \in Errors
  /\ r.depth \in 0 .. DepthMod - 1
  /\ r.ok \in BOOLEAN
  /\ r.ls.in = doc.in
  /\ r.ls.kind \in SourceKinds
  /\ r.ls.at \in 0 .. Len(doc.in)
  /\ r.ls.state \in {Ok, EndOfInput, IOError, OutOfMemory, Initial}
  /\ r.ls.position \in 0 .. Len(doc.in)
  /\ Len(r.ls.captured) <= CaptureCapacity
  /\ call \in [name : Calls \cup {"none"}, index : 0 .. MaxIndex]

\* How far a reader has come: past the last byte once the input has ended.
CursorOf(reader) ==
  LET ls == reader.ls
  IN  ls.at + (IF Eof(ls) \/ (ls.current = NUL /\ ls.state # Initial) THEN 1 ELSE 0)
Cursor == CursorOf(r)

\* A read() that returns true gets further in the input, or tells that the
\* value whose last part it returned before is complete, so that
\* while(read()) ends on every input.
GetsFurther(b) == CursorOf(b) > Cursor
ReadGetsFurtherTo(b) ==
  b.ok => GetsFurther(b) \/ (r.node = "ValuePart" /\ b.node = "EndValuePart")
ReadGetsFurther == ReadGetsFurtherTo(Read(r))

\* So does a skip that returns true, unless it is already where it goes.
SkipGetsFurther ==
  \A b \in {SkipSubtree(r)} \cup {SkipToIndex(r, index) : index \in 0 .. MaxIndex} :
    b.ok /\ r.node \notin {"EndArray", "EndObject"} => GetsFurther(b)
=============================================================================
