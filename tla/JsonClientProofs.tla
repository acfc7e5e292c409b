---------------------------- MODULE JsonClientProofs ----------------------------
(***************************************************************************)
(* What holds of a client that reads, skips and searches through any       *)
(* document: the invariant of the reader between two calls, and the steps  *)
(* it allows.                                                              *)
(***************************************************************************)
EXTENDS JsonClient, JsonNavigationProofs

CallsMade == [name : Calls \cup {"none"}, index : 0 .. MaxIndex]

\* The inductive invariant.  What ReaderInv says of the reader's members is
\* Fit(r), with their types as the lemmas about the functions want them.
IInv ==
  /\ doc \in Documents
  /\ Fit(r)
  /\ ~lost => Searchable(r)
  /\ r.ls.in = doc.in
  /\ r.ls.kind \in SourceKinds
  /\ call \in CallsMade
  /\ lost \in BOOLEAN

\* CursorOf of the model is how far the lemmas measure a source to be.
LEMMA CursorIsCur == \A b : CursorOf(b) = Cur(b.ls)
  BY DEF CursorOf, Cur

\* A reader attached to a source just opened on a document is fit.
LEMMA NewReaderIsFit ==
  ASSUME NEW kind \in Kinds, NEW in, IsText(in), NEW b, b = NewReader(Opened(kind, in))
  PROVE  Fit(b) /\ Searchable(b) /\ b.ls.in = in /\ b.ls.kind = kind
<1>1. PICK l : l = Opened(kind, in)
  OBVIOUS
<1>2. /\ l.kind = kind /\ l.in = in /\ l.at = 0 /\ l.state = Initial /\ l.current = NUL
      /\ l.position = 0 /\ l.captured = << >>
  BY <1>1 DEF Opened
<1>3. Within(l)
  <2>1. NUL \in Symbols(in) /\ Initial \in States /\ << >> \in Seq(Symbols(in))
    BY DEF Symbols, States
  <2>2. l \in SourcesOf(l.in)
    BY <1>1, <1>2, <2>1 DEF Opened, SourcesOf
  <2>3. Len(in) \in Nat /\ Len(l.captured) = 0
    BY <1>2 DEF IsText
  <2> QED BY <1>2, <2>2, <2>3, CaptureCapacityAssumption
          DEF Within, Initial, EndOfInput, IOError
<1>4. PICK st : st = [state |-> 0, accept |-> 0, fracPart |-> 0, eCount |-> 0, integer |-> 0]
  OBVIOUS
<1>5. st \in LexStates
  <2>1. 0 \in 0 .. 2 ^ 16 - 1
    OBVIOUS
  <2> QED BY <1>4, <2>1 DEF LexStates
<1>6. b = [ls |-> l, node |-> Unread, vtype |-> "Undefined", lex |-> st, err |-> NoError,
           depth |-> 0, ok |-> FALSE]
  BY <1>1, <1>4, Zenon DEF NewReader
<1>7. Unread \in Nodes /\ "Undefined" \in ValueTypes /\ NoError \in Errors
      /\ 0 \in 0 .. DepthMod - 1
  BY DepthModAssumption DEF Nodes, ValueTypes, Errors
<1>8. Reader(b)
  <2>1. l \in SourcesOf(l.in)
    BY <1>3 DEF Within
  <2> QED BY <1>3, <1>5, <1>6, <1>7, <2>1 DEF Reader, ReadersOf
<1> QED BY <1>2, <1>6, <1>8
        DEF Searchable, Fit, Settled, Eof, Initial, OutOfMemory, Ok, EndOfInput, Unread

\* The inductive invariant holds at first.
LEMMA InitIsSound == FreeInit => IInv
<1> SUFFICES ASSUME FreeInit PROVE IInv
  OBVIOUS
<1>1. PICK kind \in SourceKinds : r = NewReader(Opened(kind, doc.in))
  BY DEF FreeInit, Init
<1>2. doc \in Documents /\ IsText(doc.in) /\ kind \in Kinds
  BY JsonPullAssumption DEF FreeInit, Init, IsText
<1>3. Fit(r) /\ Searchable(r) /\ r.ls.in = doc.in /\ r.ls.kind = kind
  BY <1>1, <1>2, NewReaderIsFit
<1>4. call \in CallsMade
  BY JsonPullAssumption DEF FreeInit, Init, CallsMade
<1> QED BY <1>2, <1>3, <1>4 DEF IInv, FreeInit

\* What a step has to show of the reader that the call returns.
LEMMA ReturnIsSound ==
  ASSUME IInv, NEW name, NEW index \in 0 .. MaxIndex, NEW b, Returns(name, index, b),
         Fit(b), b.ls.in = r.ls.in, b.ls.kind = r.ls.kind,
         lost' \in BOOLEAN, ~lost' => Searchable(b)
  PROVE  IInv'
<1>1. call' \in CallsMade
  BY DEF Returns, CallsMade
<1>2. r' = b /\ doc' = doc
  BY DEF Returns
<1> QED BY <1>1, <1>2 DEF IInv, CallsMade

\* A step of read or a skip that leaves the reader no worse to search.
LEMMA StayIsSound ==
  ASSUME IInv, NEW name, NEW index \in 0 .. MaxIndex, NEW b, Returns(name, index, b),
         Stays(r, b), lost' \in BOOLEAN, lost => lost' \/ Searchable(b)
  PROVE  IInv'
<1>1. /\ Fit(b) /\ b.ls.in = r.ls.in /\ b.ls.kind = r.ls.kind
      /\ ~lost' => Searchable(b)
  BY DEF Stays, IInv
<1> QED BY <1>1, ReturnIsSound

\* lost is kept by a skip, forgotten by a read and told by a search.
LEMMA LostIs ==
  ASSUME IInv, FreeNext
  PROVE  /\ lost' \in BOOLEAN
         /\ call'.name \in Axes => (lost' <=> ~r'.ok)
         /\ call'.name \notin Axes \cup {"read"} /\ lost => lost'
<1>1. PICK x : x = call'.name
  OBVIOUS
<1>2. PICK y \in BOOLEAN : y <=> r'.ok
  OBVIOUS
<1>3. lost' = IF x \in Axes THEN ~y ELSE lost /\ x # "read"
  BY <1>1, <1>2 DEF FreeNext
<1>4. lost \in BOOLEAN
  BY DEF IInv
<1> QED BY <1>1, <1>2, <1>3, <1>4

\* The functions are none of the axes.
LEMMA FunctionsAreNoAxes ==
  {"read", "skipSubtree", "skipToIndex", "skipToEndArray", "skipToEndObject"} \cap Axes = {}
  BY DEF Axes

\* Every step keeps it.
LEMMA StepIsSound == IInv /\ [FreeNext]_freeVars => IInv'
<1> SUFFICES ASSUME IInv, [FreeNext]_freeVars PROVE IInv'
  OBVIOUS
<1>1. Fit(r) /\ MaxIndex \in Nat /\ 0 \in 0 .. MaxIndex
  BY JsonPullAssumption DEF IInv
<1>2. CASE FreeNext /\ ReadCall
  <2>1. PICK b : b = Read(r)
    OBVIOUS
  <2>2. Stays(r, b) /\ Searchable(b)
    BY <1>1, <2>1, ReadIs, LedIsWent, WentStays
  <2>3. lost' \in BOOLEAN
    BY <1>2, LostIs
  <2> QED BY <1>1, <1>2, <2>1, <2>2, <2>3, StayIsSound DEF ReadCall
<1>3. CASE FreeNext /\ SkipSubtreeCall
  <2>1. PICK b : b = SkipSubtree(r)
    OBVIOUS
  <2>2. Stays(r, b)
    BY <1>1, <2>1, SkipSubtreeIs, WentStays
  <2>3. Returns("skipSubtree", 0, b) /\ call'.name = "skipSubtree"
    BY <1>3, <2>1 DEF SkipSubtreeCall, Returns
  <2>4. lost' \in BOOLEAN /\ (lost => lost')
    BY <1>3, <2>3, LostIs, FunctionsAreNoAxes
  <2> QED BY <1>1, <2>2, <2>3, <2>4, StayIsSound
<1>4. CASE FreeNext /\ SkipToIndexCall
  <2>1. PICK index \in 0 .. MaxIndex : Returns("skipToIndex", index, SkipToIndex(r, index))
    BY <1>4 DEF SkipToIndexCall
  <2>2. PICK b : b = SkipToIndex(r, index)
    OBVIOUS
  <2>3. index \in Nat
    BY <1>1
  <2>4. Stays(r, b)
    BY <1>1, <2>2, <2>3, SkipToIndexIs, WentStays
  <2>5. Returns("skipToIndex", index, b) /\ call'.name = "skipToIndex"
    BY <2>1, <2>2 DEF Returns
  <2>6. lost' \in BOOLEAN /\ (lost => lost')
    BY <1>4, <2>5, LostIs, FunctionsAreNoAxes
  <2> QED BY <2>4, <2>5, <2>6, StayIsSound
<1>5. CASE FreeNext /\ (SkipToEndArrayCall \/ SkipToEndObjectCall)
  <2>1. PICK b, name :
          /\ b \in {SkipToEndArray(r), SkipToEndObject(r)} /\ r.node # Unread
          /\ name \in {"skipToEndArray", "skipToEndObject"} /\ Returns(name, 0, b)
    BY <1>5 DEF SkipToEndArrayCall, SkipToEndObjectCall
  <2>2. Stays(r, b)
    BY <1>1, <2>1, SkipToEndIs
  <2>3. call'.name = name
    BY <2>1 DEF Returns
  <2>4. lost' \in BOOLEAN /\ (lost => lost')
    BY <1>5, <2>1, <2>3, LostIs, FunctionsAreNoAxes
  <2> QED BY <1>1, <2>1, <2>2, <2>4, StayIsSound
<1>6. CASE FreeNext /\ SkipToFieldCall
  <2>1. PICK name \in Sought, axis \in Axes, level \in Levels :
          Returns(axis, 0, SkipToField(r, name, axis, level).r)
    BY <1>6 DEF SkipToFieldCall
  <2>2. name \in Seq(STRING) /\ level \in Int
    BY JsonClientAssumption, DepthModAssumption DEF NoLevel
  <2>3. PICK b : b = SkipToField(r, name, axis, level).r
    OBVIOUS
  <2>4. FieldSought(r, b)
    BY <1>1, <2>2, <2>3, SkipToFieldIs
  <2>5. Returns(axis, 0, b) /\ r' = b /\ call'.name = axis
    BY <2>1, <2>3 DEF Returns
  <2>6. lost' \in BOOLEAN /\ (lost' <=> ~b.ok)
    BY <1>6, <2>5, LostIs
  <2>7. ~lost' => Searchable(b)
    BY <2>4, <2>6 DEF FieldSought, Searchable
  <2>8. Fit(b) /\ b.ls.in = r.ls.in /\ b.ls.kind = r.ls.kind
    BY <2>4 DEF FieldSought, Onward
  <2> QED BY <1>1, <2>5, <2>6, <2>7, <2>8, ReturnIsSound
<1>7. CASE UNCHANGED freeVars
  BY <1>7 DEF freeVars, vars, IInv, CallsMade
<1> QED BY <1>2, <1>3, <1>4, <1>5, <1>6, <1>7 DEF FreeNext, Next

\* So it always holds.
LEMMA IInvHolds == FreeSpec => []IInv
  BY InitIsSound, StepIsSound, PTL DEF FreeSpec

-----------------------------------------------------------------------------
(* The invariants the runs check.                                            *)

\* It says of the reader all that ReaderInv says.
LEMMA IInvIsReaderInv == IInv => ReaderInv
<1> SUFFICES ASSUME IInv PROVE ReaderInv
  OBVIOUS
<1>1. Reader(r) /\ Within(r.ls)
  BY ReaderFields DEF IInv, Fit
<1>2. TypeOK
  <2>1. /\ r.node \in Nodes /\ r.vtype \in ValueTypes /\ r.lex \in LexStates
        /\ r.err \in Errors /\ r.depth \in 0 .. DepthMod - 1 /\ r.ok \in BOOLEAN
    BY <1>1, ReaderFields
  <2>2. /\ r.ls.at \in 0 .. Len(r.ls.in) /\ r.ls.position \in 0 .. Len(r.ls.in)
        /\ r.ls.state \in States /\ Len(r.ls.captured) <= CaptureCapacity
    BY <1>1, WithinTypes
  <2> QED BY <2>1, <2>2 DEF TypeOK, IInv, CallsMade, States
<1>3. /\ r.ls.position <= r.ls.at
      /\ r.ls.state = EndOfInput => r.ls.at = Len(doc.in)
      /\ r.ls.state = IOError => r.ls.current # NUL
  BY <1>1, WithinTypes DEF IInv
<1>4. r.node = "Object" /\ Eof(r.ls) /\ ~lost => SkipToAny(r.ls, Brackets).found = NUL
  BY DEF IInv, Searchable, Barren
<1> QED BY <1>2, <1>3, <1>4 DEF ReaderInv, IInv, Fit, Midst, Midway, Settled, Eof

\* However a client mixes read(), the skip functions and skipToField(), over whatever bytes,
\* and however short the buffer: the node, the value type, the lexer state, the
\* error and the object depth of the reader stay in their ranges, the cursor
\* within the input and what is captured within the buffer.
THEOREM TypesHold == FreeSpec => []TypeOK
<1>1. IInv => TypeOK
  BY IInvIsReaderInv DEF ReaderInv
<1> QED BY <1>1, IInvHolds, PTL

\* Between two calls the source is out of memory, or without a character in its
\* lookahead while it has not ended, only when the node tells that the reader is
\* in the middle of a value, and it is unstarted only before the first call.
THEOREM ReaderInvHolds == FreeSpec => []ReaderInv
  BY IInvHolds, IInvIsReaderInv, PTL

-----------------------------------------------------------------------------
(* Progress, and the error state.                                            *)

\* A read() that returns true has moved the cursor on, or tells that the value
\* whose last part it returned before is complete: while(read()) ends on every
\* input, for every size of the buffer.
THEOREM ReadGoesOn == FreeSpec => []ReadGetsFurther
<1>1. IInv => ReadGetsFurther
  <2> SUFFICES ASSUME IInv PROVE ReadGetsFurther
    OBVIOUS
  <2>1. PICK b : b = Read(r)
    OBVIOUS
  <2>2. Led(r, b)
    BY <2>1, ReadIs DEF IInv
  <2>3. Within(r.ls) /\ Within(b.ls)
    BY <2>2, FitHere, WithinOnward DEF IInv, Led
  <2>4. b.ok => Ahead(r.ls, b.ls) \/ (r.node = "ValuePart" /\ b.node = "EndValuePart")
    BY <2>2 DEF Led
  <2>5. CursorOf(b) = Cur(b.ls) /\ Cursor = Cur(r.ls) /\ Cur(b.ls) \in Nat /\ Cur(r.ls) \in Nat
    BY <2>3, CursorIsCur, WithinTypes DEF Cursor
  <2>6. ReadGetsFurtherTo(b)
    BY <2>4, <2>5 DEF ReadGetsFurtherTo, GetsFurther, Ahead
  <2> QED BY <2>1, <2>6 DEF ReadGetsFurther
<1> QED BY <1>1, IInvHolds, PTL

\* A skipSubtree() or skipToIndex() that returns true has moved the cursor on,
\* unless the reader was at the end of an array or object already: also where
\* brackets do not match, quotes do not close or the input ends in an object.
THEOREM SkipGoesOn == FreeSpec => []SkipGetsFurtherUnlessLost
<1>1. IInv => SkipGetsFurtherUnlessLost
  <2> SUFFICES ASSUME IInv, ~lost,
                      NEW b \in {SkipSubtree(r)} \cup {SkipToIndex(r, index) : index \in 0 .. MaxIndex},
                      b.ok, r.node \notin {"EndArray", "EndObject"}
               PROVE  GetsFurther(b)
    BY DEF SkipGetsFurtherUnlessLost, SkipGetsFurther
  <2>1. Fit(r) /\ Searchable(r)
    BY DEF IInv
  <2>2. Went(r, b) /\ Ahead(r.ls, b.ls)
    <3>1. CASE b = SkipSubtree(r)
      BY <2>1, <3>1, SkipSubtreeIs
    <3>2. CASE b \in {SkipToIndex(r, index) : index \in 0 .. MaxIndex}
      <4>1. PICK index \in Nat : b = SkipToIndex(r, index)
        BY <3>2, JsonPullAssumption
      <4> QED BY <2>1, <4>1, SkipToIndexIs
    <3> QED BY <3>1, <3>2
  <2>3. Within(r.ls) /\ Within(b.ls)
    BY <2>1, <2>2, FitHere DEF Went
  <2>4. CursorOf(b) = Cur(b.ls) /\ Cursor = Cur(r.ls) /\ Cur(b.ls) \in Nat /\ Cur(r.ls) \in Nat
    BY <2>3, CursorIsCur, WithinTypes DEF Cursor
  <2> QED BY <2>2, <2>4 DEF GetsFurther, Ahead
<1> QED BY <1>1, IInvHolds, PTL

\* A skipToField() is never back behind where it began, and one that returns
\* true is on a field further on: while(skipToField(..)) ends on every input,
\* for every name, axis and level, whatever was called before.
THEOREM FieldSearchGoesOn == FreeSpec => []SearchGetsFurther
<1>1. IInv => SearchGetsFurther
  <2> SUFFICES ASSUME IInv, NEW name \in Sought, NEW axis \in Axes, NEW level \in Levels,
                      NEW b, b = SkipToField(r, name, axis, level).r
               PROVE  CursorOf(b) >= Cursor /\ (b.ok => GetsFurther(b) /\ b.node = "Field")
    BY DEF SearchGetsFurther
  <2>1. name \in Seq(STRING) /\ level \in Int
    BY JsonClientAssumption, DepthModAssumption DEF NoLevel
  <2>2. Fit(r)
    BY DEF IInv
  <2>3. FieldSought(r, b)
    BY <2>1, <2>2, SkipToFieldIs
  <2>4. Within(r.ls) /\ Within(b.ls)
    BY <2>2, <2>3, FitHere DEF FieldSought
  <2>5. CursorOf(b) = Cur(b.ls) /\ Cursor = Cur(r.ls) /\ Cur(b.ls) \in Nat /\ Cur(r.ls) \in Nat
    BY <2>4, CursorIsCur, WithinTypes DEF Cursor
  <2>6. Cur(r.ls) <= Cur(b.ls)
    BY <2>3 DEF FieldSought, Onward
  <2> QED BY <2>3, <2>5, <2>6 DEF FieldSought, GetsFurther, Ahead
<1> QED BY <1>1, IInvHolds, PTL

\* Once a function has set the error state, every call but skipToEndObject()
\* and skipToField() returns false, keeps the error and leaves the cursor where it was.
THEOREM ErrorStays == FreeSpec => ErrorIsFinal
<1>1. ASSUME IInv, [FreeNext]_freeVars
      PROVE  [r.node = "Error" /\ call'.name \notin Axes \cup {"skipToEndObject"}
               => r'.node = "Error" /\ ~r'.ok /\ HasError(r') /\ Cursor' = Cursor]_freeVars
  <2> SUFFICES ASSUME FreeNext, r.node = "Error", call'.name \notin Axes \cup {"skipToEndObject"}
               PROVE  r'.node = "Error" /\ ~r'.ok /\ HasError(r') /\ Cursor' = Cursor
    BY <1>1
  <2>1. Fit(r)
    BY <1>1 DEF IInv
  <2>2. PICK index : r' \in {Read(r), SkipSubtree(r), SkipToIndex(r, index), SkipToEndArray(r)}
    <3>1. ~SkipToEndObjectCall /\ ~SkipToFieldCall
      BY DEF SkipToEndObjectCall, SkipToFieldCall, Returns
    <3>2. CASE SkipToIndexCall
      BY <3>2 DEF SkipToIndexCall, Returns
    <3>3. CASE ReadCall \/ SkipSubtreeCall \/ SkipToEndArrayCall
      BY <3>3 DEF ReadCall, SkipSubtreeCall, SkipToEndArrayCall, Returns
    <3> QED BY <3>1, <3>2, <3>3 DEF FreeNext, Next
  <2>3. PICK b : b = r'
    OBVIOUS
  <2>4. Dead(r, b)
    BY <2>1, <2>2, <2>3, ErrorIsDead
  <2>5. r'.node = "Error" /\ ~r'.ok /\ r'.ls = r.ls
    BY <2>3, <2>4 DEF Dead
  <2>6. Cursor' = Cursor
    BY <2>5 DEF Cursor, CursorOf
  <2> QED BY <2>5, <2>6 DEF HasError
<1> QED BY <1>1, IInvHolds, PTL DEF FreeSpec, ErrorIsFinal
=============================================================================
