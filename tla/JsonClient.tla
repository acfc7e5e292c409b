------------------------------ MODULE JsonClient ------------------------------
(***************************************************************************)
(* A client that calls any of the functions of JsonReader that move its    *)
(* cursor (src/src/JsonReader.hpp), skipToField included, in any order and *)
(* whatever they return, over input that need not be JSON.                 *)
(*                                                                         *)
(* lost is a history variable: a search has failed, and nothing has been   *)
(* read or found since.  The code keeps no such record; it leaves where    *)
(* the cursor is, and the node of before, to the caller.                   *)
(***************************************************************************)
EXTENDS JsonPull, JsonSearch

CONSTANTS
  Sought,   \* the names it looks for
  Levels    \* what it passes as *pdepth, and NoLevel for none

ASSUME JsonClientAssumption ==
  /\ \A name \in Sought : name \in Seq(STRING)
  /\ Levels \subseteq {NoLevel} \cup 0 .. DepthMod - 1

VARIABLE lost
freeVars == <<vars, lost>>

SkipToFieldCall ==
  \E name \in Sought, axis \in Axes, level \in Levels :
    Returns(axis, 0, SkipToField(r, name, axis, level).r)

FreeInit == Init /\ lost = FALSE

FreeNext ==
  /\ Next \/ SkipToFieldCall
  /\ lost' = IF call'.name \in Axes THEN ~r'.ok ELSE lost /\ call'.name # "read"

FreeSpec == FreeInit /\ [][FreeNext]_freeVars

-----------------------------------------------------------------------------
(* What holds of any input whatever, valid or not.                          *)

\* What the proofs need besides: how the node and the lookahead go together.
\* The reader is in the middle of a value when the source may have run out of
\* room, or of input, without the node telling.  And at the end of the input an
\* object is still open only where no bracket is left that its skip might find,
\* unless a search for it has failed.
Midway == r.node = "ValuePart" /\ ~(r.vtype = "String" /\ r.lex.accept = 1)
ReaderInv ==
  /\ TypeOK
  /\ r.ls.position <= r.ls.at
  /\ r.ls.state = EndOfInput => r.ls.at = Len(doc.in)
  /\ r.ls.state = IOError => r.ls.current # NUL
  /\ r.ls.state = Initial => r.node = Unread
  /\ ~Midway => r.ls.state # OutOfMemory /\ (r.ls.state = Ok => r.ls.current # NUL)
  /\ r.node = "Object" /\ Eof(r.ls) /\ ~lost => SkipToAny(r.ls, Brackets).found = NUL

\* A skip that returns true has got further as long as the client minds that
\* a search has failed.
SkipGetsFurtherUnlessLost == ~lost => SkipGetsFurther

\* A search never goes back, and one that returns true has got further: it has
\* found another field, so that a loop of searches ends on every input.
SearchGetsFurther ==
  \A name \in Sought, axis \in Axes, level \in Levels :
    LET b == SkipToField(r, name, axis, level).r
    IN  CursorOf(b) >= Cursor /\ (b.ok => GetsFurther(b) /\ b.node = "Field")

\* The error state, which the code comments as unrecoverable, is: from then
\* on every function that asks for it returns false and leaves the cursor where
\* it was.  skipToEndObject does not ask, nor does skipToField.
ErrorIsFinal ==
  [][r.node = "Error" /\ call'.name \notin Axes \cup {"skipToEndObject"}
       => r'.node = "Error" /\ ~r'.ok /\ HasError(r') /\ Cursor' = Cursor]_freeVars
=============================================================================
