----------------------------- MODULE JsonReaderProofs -----------------------------
(***************************************************************************)
(* What the functions read() is made of do to a reader, on any input: its  *)
(* members stay in their ranges, its cursor goes forward, and further when a *)
(* function returns true (Came, Led).                                      *)
(***************************************************************************)
EXTENDS ScannerProofs

-----------------------------------------------------------------------------
(* Readers.                                                                  *)

ReadersOf(in) ==
  [ls : SourcesOf(in), node : Nodes, vtype : ValueTypes, lex : LexStates, err : Errors,
   depth : 0 .. DepthMod - 1, ok : BOOLEAN]

Reader(r) == r \in ReadersOf(r.ls.in) /\ Within(r.ls)

\* Has all of a reader but its source, its node and what a call returns.
Retold(r, b) == Reader(b) /\ b.vtype = r.vtype /\ b.lex = r.lex /\ b.depth = r.depth

\* The fields of a reader have their types.
LEMMA ReaderFields ==
  ASSUME NEW r, Reader(r)
  PROVE  /\ Within(r.ls) /\ r.node \in Nodes /\ r.vtype \in ValueTypes /\ r.lex \in LexStates
         /\ r.err \in Errors /\ r.depth \in 0 .. DepthMod - 1 /\ r.ok \in BOOLEAN
  BY DEF Reader, ReadersOf

\* Moving the reader's source on.
LEMMA OnIs ==
  ASSUME NEW r, Reader(r), NEW l, Within(l), NEW b, b = On(r, l)
  PROVE  Retold(r, b) /\ b.ls = l /\ b.node = r.node /\ b.err = r.err /\ b.ok = r.ok
<1>1. l \in SourcesOf(l.in)
  BY WithinTypes
<1>2. b \in ReadersOf(l.in) /\ b.ls = l /\ b.node = r.node /\ b.err = r.err /\ b.ok = r.ok
      /\ b.vtype = r.vtype /\ b.lex = r.lex /\ b.depth = r.depth
  BY <1>1 DEF On, Reader, ReadersOf
<1> QED BY <1>2 DEF Reader, Retold

\* Answering true.
LEMMA YesIs ==
  ASSUME NEW r, Reader(r), NEW b, b = Yes(r)
  PROVE  Retold(r, b) /\ b.ls = r.ls /\ b.node = r.node /\ b.err = r.err /\ b.ok = TRUE
<1>1. b \in ReadersOf(r.ls.in) /\ b.ls = r.ls /\ b.node = r.node /\ b.err = r.err /\ b.ok = TRUE
      /\ b.vtype = r.vtype /\ b.lex = r.lex /\ b.depth = r.depth
  BY DEF Yes, Reader, ReadersOf
<1> QED BY <1>1 DEF Reader, Retold

\* Answering false.
LEMMA NoIs ==
  ASSUME NEW r, Reader(r), NEW b, b = No(r)
  PROVE  Retold(r, b) /\ b.ls = r.ls /\ b.node = r.node /\ b.err = r.err /\ b.ok = FALSE
<1>1. b \in ReadersOf(r.ls.in) /\ b.ls = r.ls /\ b.node = r.node /\ b.err = r.err /\ b.ok = FALSE
      /\ b.vtype = r.vtype /\ b.lex = r.lex /\ b.depth = r.depth
  BY DEF No, Reader, ReadersOf
<1> QED BY <1>1 DEF Reader, Retold

\* Landing on a node.
LEMMA LandIs ==
  ASSUME NEW r, Reader(r), NEW node \in Nodes
  PROVE  Retold(r, Land(r, node)) /\ Land(r, node).ls = r.ls /\ Land(r, node).node = node
         /\ Land(r, node).ok = TRUE
<1>1. PICK b : b = Land(r, node)
  OBVIOUS
<1>2. b \in ReadersOf(r.ls.in) /\ b.ls = r.ls /\ b.node = node /\ b.ok = TRUE
      /\ b.vtype = r.vtype /\ b.lex = r.lex /\ b.depth = r.depth
  BY <1>1 DEF Land, Reader, ReadersOf
<1> QED BY <1>1, <1>2 DEF Reader, Retold

\* Setting the last error.
LEMMA RaiseIs ==
  ASSUME NEW r, Reader(r), NEW e \in Errors, NEW b, b = Raise(r, e)
  PROVE  Retold(r, b) /\ b.ls = r.ls /\ b.node = r.node /\ b.ok = FALSE
<1>1. b \in ReadersOf(r.ls.in) /\ b.ls = r.ls /\ b.node = r.node /\ b.ok = FALSE
      /\ b.vtype = r.vtype /\ b.lex = r.lex /\ b.depth = r.depth
  BY DEF Raise, Reader, ReadersOf
<1> QED BY <1>1 DEF Reader, Retold

\* Setting the last error and the Error node.
LEMMA DieIs ==
  ASSUME NEW r, Reader(r), NEW e \in Errors, NEW b, b = Die(r, e)
  PROVE  Retold(r, b) /\ b.ls = r.ls /\ b.node = "Error" /\ b.ok = FALSE
<1>1. "Error" \in Nodes
  BY DEF Nodes
<1>2. b \in ReadersOf(r.ls.in) /\ b.ls = r.ls /\ b.node = "Error" /\ b.ok = FALSE
      /\ b.vtype = r.vtype /\ b.lex = r.lex /\ b.depth = r.depth
  BY <1>1 DEF Die, Reader, ReadersOf
<1> QED BY <1>2 DEF Reader, Retold

\* The members a function sets before it goes on.
LEMMA NodeSet ==
  ASSUME NEW r, Reader(r), NEW n \in Nodes, NEW b, b = [r EXCEPT !.node = n]
  PROVE  Reader(b) /\ b.ls = r.ls /\ b.node = n
         /\ b.vtype = r.vtype /\ b.lex = r.lex /\ b.depth = r.depth /\ b.ok = r.ok
<1>1. b \in ReadersOf(r.ls.in) /\ b.ls = r.ls /\ b.node = n
         /\ b.vtype = r.vtype /\ b.lex = r.lex /\ b.depth = r.depth /\ b.ok = r.ok
  BY DEF Reader, ReadersOf
<1> QED BY <1>1 DEF Reader

\* Setting m_valueType.
LEMMA VtypeSet ==
  ASSUME NEW r, Reader(r), NEW v \in ValueTypes, NEW b, b = [r EXCEPT !.vtype = v]
  PROVE  Reader(b) /\ b.ls = r.ls /\ b.vtype = v
         /\ b.node = r.node /\ b.lex = r.lex /\ b.depth = r.depth /\ b.ok = r.ok
<1>1. b \in ReadersOf(r.ls.in) /\ b.ls = r.ls /\ b.vtype = v
         /\ b.node = r.node /\ b.lex = r.lex /\ b.depth = r.depth /\ b.ok = r.ok
  BY DEF Reader, ReadersOf
<1> QED BY <1>1 DEF Reader

\* Setting m_objectDepth.
LEMMA DepthSet ==
  ASSUME NEW r, Reader(r), NEW d \in 0 .. DepthMod - 1, NEW b, b = [r EXCEPT !.depth = d]
  PROVE  Reader(b) /\ b.ls = r.ls /\ b.depth = d
         /\ b.node = r.node /\ b.vtype = r.vtype /\ b.lex = r.lex /\ b.ok = r.ok
<1>1. b \in ReadersOf(r.ls.in) /\ b.ls = r.ls /\ b.depth = d
         /\ b.node = r.node /\ b.vtype = r.vtype /\ b.lex = r.lex /\ b.ok = r.ok
  BY DEF Reader, ReadersOf
<1> QED BY <1>1 DEF Reader

\* Setting m_lexState.
LEMMA LexSet ==
  ASSUME NEW r, Reader(r), NEW x \in LexStates, NEW b, b = [r EXCEPT !.lex = x]
  PROVE  Reader(b) /\ b.ls = r.ls /\ b.lex = x
         /\ b.node = r.node /\ b.vtype = r.vtype /\ b.depth = r.depth /\ b.ok = r.ok
<1>1. b \in ReadersOf(r.ls.in) /\ b.ls = r.ls /\ b.lex = x
         /\ b.node = r.node /\ b.vtype = r.vtype /\ b.depth = r.depth /\ b.ok = r.ok
  BY DEF Reader, ReadersOf
<1> QED BY <1>1 DEF Reader

\* Clearing the last error.
LEMMA ClearErrorIs ==
  ASSUME NEW r, Reader(r), NEW b, b = ClearError(r)
  PROVE  Retold(r, b) /\ b.ls = r.ls /\ b.node = r.node /\ b.ok = r.ok
<1>1. NoError \in Errors
  BY DEF Errors
<1>2. b \in ReadersOf(r.ls.in) /\ b.ls = r.ls /\ b.node = r.node /\ b.ok = r.ok
      /\ b.vtype = r.vtype /\ b.lex = r.lex /\ b.depth = r.depth
  BY <1>1 DEF ClearError, Reader, ReadersOf
<1> QED BY <1>2 DEF Reader, Retold

\* Retelling composes.
LEMMA RetoldOn ==
  ASSUME NEW r, NEW a, Retold(r, a)
  PROVE  Reader(a) /\ \A b : Retold(a, b) => Retold(r, b)
  BY DEF Retold

\* The nodes the code names are nodes.
LEMMA Names ==
  /\ Unread \in Nodes /\ "EndDocument" \in Nodes /\ "Error" \in Nodes /\ "Value" \in Nodes
  /\ "Field" \in Nodes /\ "Array" \in Nodes /\ "EndArray" \in Nodes /\ "Object" \in Nodes
  /\ "EndObject" \in Nodes /\ "ValuePart" \in Nodes /\ "EndValuePart" \in Nodes
  BY DEF Nodes

\* The errors the code names are errors.
LEMMA ErrorNames ==
  /\ "IO_ERROR" \in Errors /\ "OUT_OF_MEMORY" \in Errors /\ "UNTERMINATED_OBJECT" \in Errors
  /\ "UNTERMINATED_ARRAY" \in Errors /\ "UNTERMINATED_STRING" \in Errors
  /\ "UNTERMINATED_OBJECT_OR_ARRAY" \in Errors /\ "UNEXPECTED_FIELD" \in Errors
  /\ "FIELD_TOO_LONG" \in Errors /\ "INVALID_VALUE" \in Errors
  /\ "FIELD_NO_VALUE" \in Errors /\ "UNEXPECTED_VALUE" \in Errors /\ "INVALID_ARGUMENT" \in Errors
  BY DEF Errors

-----------------------------------------------------------------------------
(* The functions that end or go on with one of the source's.                 *)

\* The error state is entered for an error of the input, not for a full buffer.
LEMMA SourceFailedIs ==
  ASSUME NEW r, Reader(r), NEW b, b = SourceFailed(r)
  PROVE  Retold(r, b) /\ b.ls = r.ls /\ b.node \in {r.node, "Error"} /\ b.ok = FALSE
         /\ (r.ls.state = OutOfMemory => b.node = r.node)
         /\ b.node = (IF r.ls.state = IOError THEN "Error" ELSE r.node)
<1>1. CASE r.ls.state = IOError
  <2>1. b = Die(r, "IO_ERROR") /\ r.ls.state # OutOfMemory
    BY <1>1 DEF SourceFailed, IOError, OutOfMemory
  <2>2. "IO_ERROR" \in Errors
    BY ErrorNames
  <2> QED BY <1>1, <2>1, <2>2, DieIs
<1>2. CASE r.ls.state = OutOfMemory
  <2>1. r.ls.state # IOError
    BY <1>2 DEF IOError, OutOfMemory
  <2>2. b = Raise(r, "OUT_OF_MEMORY")
    BY <1>2, <2>1, Zenon DEF SourceFailed
  <2>3. "OUT_OF_MEMORY" \in Errors
    BY ErrorNames
  <2> QED BY <2>1, <2>2, <2>3, RaiseIs
<1>3. CASE r.ls.state # IOError /\ r.ls.state # OutOfMemory
  <2>1. b = No(r)
    BY <1>3, Zenon DEF SourceFailed
  <2> QED BY <1>3, <2>1, NoIs
<1> QED BY <1>1, <1>2, <1>3

\* Coming to where a scanner left the source: an I/O error ends the read, a
\* full buffer is left to the caller.
LEMMA ArriveIs ==
  ASSUME NEW r, Reader(r), NEW l, Within(l), NEW b, b = Arrive(r, l)
  PROVE  Retold(r, b) /\ b.ls = l /\ b.node \in {r.node, "Error"} /\ b.ok = ~HasSourceError(l)
         /\ (b.ok \/ l.state = OutOfMemory => b.node = r.node)
         /\ (~b.ok /\ Settled(l) /\ l.state # Initial => b.node = "Error")
<1>1. PICK o : o = On(r, l)
  OBVIOUS
<1>2. Reader(o) /\ Retold(r, o) /\ o.ls = l /\ o.node = r.node
  BY <1>1, OnIs DEF Retold
<1>3. CASE HasSourceError(l)
  <2>1. b = SourceFailed(o)
    BY <1>1, <1>3 DEF Arrive
  <2>2. Settled(l) /\ l.state # Initial => l.state = IOError
    BY <1>3, WithinTypes DEF Settled, HasSourceError, States, Ok, EndOfInput
  <2>3. /\ Retold(o, b) /\ b.ls = l /\ b.node \in {r.node, "Error"} /\ b.ok = FALSE
        /\ l.state = OutOfMemory => b.node = r.node
        /\ b.node = IF l.state = IOError THEN "Error" ELSE r.node
    BY <1>2, <2>1, SourceFailedIs
  <2>4. Retold(r, b)
    BY <1>2, <2>3 DEF Retold
  <2> QED BY <1>3, <2>2, <2>3, <2>4
<1>4. CASE ~HasSourceError(l)
  <2>1. b = Yes(o)
    BY <1>1, <1>4 DEF Arrive
  <2>2. Retold(o, b) /\ b.ls = l /\ b.node = r.node /\ b.ok = TRUE
    BY <1>2, <2>1, YesIs
  <2>3. Retold(r, b)
    BY <1>2, <2>2 DEF Retold
  <2> QED BY <1>4, <2>2, <2>3
<1> QED BY <1>3, <1>4

\* From x to a y that the lookahead of a source left by advance() goes with.
Stepped(x, y) == Onward(x, y) /\ Calm(y)
\* A step after a move is a step.
LEMMA SteppedOn ==
  ASSUME NEW l, Within(l), NEW m, Onward(l, m), NEW n, Stepped(m, n)
  PROVE  Stepped(l, n) /\ (Ahead(l, m) \/ Ahead(m, n) => Ahead(l, n))
  BY OnwardIsOrder DEF Stepped

\* A source moved onward is still within its document.
LEMMA WithinOnward == \A x, y : Onward(x, y) => Within(y)
  BY DEF Onward

\* A calm source on a character stands on the byte it has read last.
LEMMA CalmHere ==
  ASSUME NEW l, Within(l), Calm(l), l.current # NUL
  PROVE  Cur(l) = l.at
  BY OnACharacter DEF Calm, Paused

\* A reader whose source has been advanced: no less far, and further if it was
\* on a character.
LEMMA StepOntoIs ==
  ASSUME NEW r, Reader(r), NEW b, b = StepOnto(r)
  PROVE  /\ Retold(r, b) /\ b.ls = Advance(r.ls) /\ b.node \in {r.node, "Error"}
         /\ Stepped(r.ls, b.ls) /\ b.ls.captured = r.ls.captured
         /\ Cur(r.ls) = r.ls.at => Ahead(r.ls, b.ls)
         /\ b.ok => b.node = r.node /\ b.ls.state = Ok
<1>1. PICK l : l = Advance(r.ls)
  OBVIOUS
<1>2. Stepped(r.ls, l) /\ l.captured = r.ls.captured /\ (Cur(r.ls) = r.ls.at => Ahead(r.ls, l))
      /\ Within(l)
  BY <1>1, ReaderFields, AdvanceIsOnward DEF Stepped, Onward
<1>3. PICK o : o = On(r, l)
  OBVIOUS
<1>4. Reader(o) /\ Retold(r, o) /\ o.ls = l /\ o.node = r.node
  BY <1>2, <1>3, OnIs DEF Retold
<1>5. b = IF More(l) THEN Yes(o) ELSE SourceFailed(o)
  BY <1>1, <1>3, <1>4 DEF StepOnto, IfMore
<1>6. More(l) => l.state = Ok
  BY <1>2, MoreIsOk DEF Stepped, Calm, Paused
<1>7. Retold(o, Yes(o)) /\ Yes(o).ls = l /\ Yes(o).node = o.node
  BY <1>4, YesIs
<1>8. Retold(o, SourceFailed(o)) /\ SourceFailed(o).ls = l /\ SourceFailed(o).node \in {r.node, "Error"}
      /\ SourceFailed(o).ok = FALSE
  BY <1>4, SourceFailedIs
<1> QED BY <1>1, <1>2, <1>4, <1>5, <1>6, <1>7, <1>8 DEF Retold

\* White space is skipped from where a source is calm.
LEMMA SpaceStepped ==
  ASSUME NEW l, Within(l), Calm(l), NEW n, n = SkipWhiteSpace(l)
  PROVE  Stepped(l, n) /\ n.captured = l.captured
  BY SkipWhiteSpaceKeeps DEF Stepped

\* Advancing past the current character; from a source on its last byte read,
\* that is always ahead.
LEMMA EatIs ==
  ASSUME NEW r, Reader(r), NEW b, b = Eat(r)
  PROVE  /\ Retold(r, b) /\ b.node \in {r.node, "Error"} /\ Stepped(r.ls, b.ls)
         /\ b.ls.captured = r.ls.captured
         /\ Cur(r.ls) = r.ls.at => Ahead(r.ls, b.ls)
         /\ b.ok => b.node = r.node /\ ~HasSourceError(b.ls)
         /\ ~b.ok => b.node = "Error"
<1>1. PICK l : l = Advance(r.ls)
  OBVIOUS
<1>2. Stepped(r.ls, l) /\ l.captured = r.ls.captured /\ (Cur(r.ls) = r.ls.at => Ahead(r.ls, l))
      /\ Within(l) /\ Onward(r.ls, l) /\ Within(r.ls) /\ Calm(l)
  BY <1>1, ReaderFields, AdvanceIsOnward DEF Stepped, Onward
<1>3. PICK n : n = SkipWhiteSpace(l)
  OBVIOUS
<1>4. Stepped(l, n) /\ n.captured = l.captured /\ Within(n)
  BY <1>2, <1>3, SpaceStepped DEF Stepped, Onward
<1>5. Stepped(r.ls, n) /\ (Ahead(r.ls, l) => Ahead(r.ls, n))
  BY <1>2, <1>4, SteppedOn
<1>6. b = Arrive(r, n)
  BY <1>1, <1>3 DEF Eat
<1>7. Retold(r, b) /\ b.ls = n /\ b.node \in {r.node, "Error"} /\ b.ok = ~HasSourceError(n)
      /\ (b.ok => b.node = r.node) /\ (~b.ok => b.node = "Error")
  <2>1. Settled(n) /\ n.state # Initial
    BY <1>4 DEF Stepped, Calm, Paused, Settled
  <2> QED BY <1>4, <1>6, <2>1, ArriveIs
<1> QED BY <1>2, <1>4, <1>5, <1>7

\* Advancing past the current character where something has to follow.
LEMMA EatBeforeIs ==
  ASSUME NEW r, Reader(r), NEW e \in Errors, NEW b, b = EatBefore(r, e)
  PROVE  /\ Retold(r, b) /\ b.node \in {r.node, "Error"} /\ Stepped(r.ls, b.ls)
         /\ Cur(r.ls) = r.ls.at => Ahead(r.ls, b.ls)
         /\ b.ok => b.node = r.node /\ b.ls.state = Ok
<1>1. PICK a : a = Eat(r)
  OBVIOUS
<1>2. /\ Retold(r, a) /\ a.node \in {r.node, "Error"} /\ Stepped(r.ls, a.ls)
      /\ Cur(r.ls) = r.ls.at => Ahead(r.ls, a.ls)
      /\ a.ok => a.node = r.node /\ ~HasSourceError(a.ls)
  BY <1>1, EatIs
<1>3. CASE ~a.ok
  <2>1. b = a
    BY <1>1, <1>3 DEF EatBefore, Then
  <2> QED BY <1>2, <1>3, <2>1
<1>4. CASE a.ok /\ Eof(a.ls)
  <2>1. b = Die(a, e)
    BY <1>1, <1>4 DEF EatBefore, Then
  <2>2. Retold(a, b) /\ b.ls = a.ls /\ b.node = "Error" /\ b.ok = FALSE
    BY <1>2, <2>1, RetoldOn, DieIs
  <2> QED BY <1>2, <2>2, RetoldOn
<1>5. CASE a.ok /\ ~Eof(a.ls)
  <2>1. b = a
    BY <1>1, <1>5 DEF EatBefore, Then
  <2>2. a.ls.state = Ok
    <3>1. a.ls.state \in States /\ a.ls.state # Initial
      BY <1>2, WithinTypes DEF Stepped, Onward, Calm, Paused
    <3> QED BY <1>2, <1>5, <3>1
            DEF States, Eof, HasSourceError, Ok, EndOfInput, IOError, OutOfMemory
  <2> QED BY <1>2, <1>5, <2>1, <2>2
<1> QED BY <1>3, <1>4, <1>5

\* error(): the recovery that follows a malformed value.
LEMMA RecoverValueIs ==
  ASSUME NEW r, Reader(r), NEW b, b = RecoverValue(r)
  PROVE  Retold(r, b) /\ Stepped(r.ls, b.ls) /\ b.node \in {"Value", "Error"}
<1>1. PICK l : l = RecoverySource(r.ls)
  OBVIOUS
<1>2. Stepped(r.ls, l) /\ Within(l)
  BY <1>1, ReaderFields, RecoveryKeeps DEF Stepped, Onward
<1>3. PICK o : o = On(r, l)
  OBVIOUS
<1>4. Reader(o) /\ Retold(r, o) /\ o.ls = l
  BY <1>2, <1>3, OnIs DEF Retold
<1>5. b = Recovered(o)
  BY <1>1, <1>3 DEF RecoverValue, RecoverySource
<1>6. CASE HasSourceError(l)
  <2>1. PICK e : e = [o EXCEPT !.node = "Error"]
    OBVIOUS
  <2>2. Retold(o, e) /\ Reader(e) /\ e.ls = l /\ e.node = "Error"
    <3>1. "Error" \in Nodes
      BY Names
    <3> QED BY <1>4, <2>1, <3>1, NodeSet DEF Retold
  <2>3. b = SourceFailed(e)
    BY <1>4, <1>5, <1>6, <2>1 DEF Recovered
  <2>4. Retold(e, b) /\ b.ls = l /\ b.node = "Error"
    BY <2>2, <2>3, SourceFailedIs
  <2> QED BY <1>2, <1>4, <2>2, <2>4, RetoldOn
<1>7. CASE ~HasSourceError(l)
  <2>1. b = Land(o, "Value")
    BY <1>4, <1>5, <1>7 DEF Recovered
  <2>2. "Value" \in Nodes
    BY Names
  <2>3. Retold(o, b) /\ b.ls = o.ls /\ b.node = "Value"
    BY <1>4, <2>1, <2>2, LandIs
  <2> QED BY <1>2, <1>4, <2>3, RetoldOn
<1> QED BY <1>6, <1>7

-----------------------------------------------------------------------------
(* The token that opens a node.                                              *)

\* In the middle of a value: the node does not tell how the source is.
Midst(r) == r.node = "ValuePart" /\ ~(r.vtype = "String" /\ r.lex.accept = 1)

\* An object is entered only where there is input left.
Opens(r, b) == b.node = "Object" => r.node = "Object" \/ ~Eof(b.ls)

\* What a function that reads a node makes of a reader at a token: it is out of
\* room only in the middle of a value, and further on when it returns true.
Came(r, b) ==
  /\ Reader(b)
  /\ Onward(r.ls, b.ls)
  /\ Paused(b.ls)
  /\ b.ls.state = OutOfMemory => Midst(b)
  /\ b.ok => Ahead(r.ls, b.ls)
  /\ Opens(r, b)

\* A step that succeeds only by getting ahead is a read.
LEMMA CameStepped ==
  ASSUME NEW r, NEW b, Reader(b), Stepped(r.ls, b.ls), b.ok => Ahead(r.ls, b.ls),
         Opens(r, b)
  PROVE  Came(r, b)
  BY DEF Came, Stepped, Calm

\* Entering an array or object: the bracket is consumed, whatever follows it.
LEMMA OpenNodeIs ==
  ASSUME NEW r, Reader(r), Calm(r.ls), r.ls.current # NUL, NEW node \in Nodes, NEW e \in Errors,
         NEW b, b = OpenNode(r, node, e)
  PROVE  /\ Retold(r, b) /\ Stepped(r.ls, b.ls) /\ Ahead(r.ls, b.ls)
         /\ b.node \in {r.node, "Error"} \/ (b.node = node /\ ~Eof(b.ls))
<1>1. PICK a : a = StepOnto(r)
  OBVIOUS
<1>2. Retold(r, a) /\ Reader(a) /\ Stepped(r.ls, a.ls) /\ Ahead(r.ls, a.ls)
      /\ a.node \in {r.node, "Error"}
  BY <1>1, StepOntoIs, CalmHere, ReaderFields, RetoldOn
<1>3. PICK c : c = Arrive(a, SkipWhiteSpace(a.ls))
  OBVIOUS
<1>4. Retold(a, c) /\ Stepped(a.ls, c.ls) /\ c.node \in {a.node, "Error"}
  <2>1. PICK n : n = SkipWhiteSpace(a.ls)
    OBVIOUS
  <2>2. Stepped(a.ls, n) /\ Within(n)
    BY <1>2, <2>1, ReaderFields, SpaceStepped, WithinOnward DEF Stepped
  <2> QED BY <1>2, <1>3, <2>1, <2>2, ArriveIs
<1>5. Retold(r, c) /\ Reader(c) /\ Stepped(r.ls, c.ls) /\ Ahead(r.ls, c.ls)
  <2>1. Retold(r, c) /\ Reader(c)
    BY <1>2, <1>4, RetoldOn
  <2>2. Within(r.ls) /\ Onward(r.ls, a.ls)
    BY <1>2, ReaderFields DEF Stepped
  <2> QED BY <1>2, <1>4, <2>1, <2>2, SteppedOn
<1>6. CASE ~a.ok
  <2>1. b = a
    BY <1>1, <1>6 DEF OpenNode, Then
  <2> QED BY <1>2, <2>1
<1>7. CASE a.ok /\ ~c.ok
  <2>1. b = c
    BY <1>1, <1>3, <1>7 DEF OpenNode, Then
  <2> QED BY <1>2, <1>4, <1>5, <2>1
<1>8. CASE a.ok /\ c.ok /\ Eof(c.ls)
  <2>1. b = Die(c, e)
    BY <1>1, <1>3, <1>8 DEF OpenNode, Then
  <2> QED BY <1>5, <2>1, DieIs, RetoldOn
<1>9. CASE a.ok /\ c.ok /\ ~Eof(c.ls)
  <2>1. b = Land(c, node)
    BY <1>1, <1>3, <1>9 DEF OpenNode, Then
  <2>2. Retold(c, b) /\ b.ls = c.ls /\ b.node = node
    <3>1. Retold(c, Land(c, node)) /\ Land(c, node).ls = c.ls /\ Land(c, node).node = node
      BY <1>5, LandIs
    <3> QED BY <2>1, <3>1
  <2> QED BY <1>5, <1>9, <2>2, RetoldOn
<1> QED BY <1>6, <1>7, <1>8, <1>9

\* `[`.
LEMMA OpenArrayIs ==
  ASSUME NEW r, Reader(r), Calm(r.ls), r.ls.current # NUL, NEW b, b = OpenArray(r)
  PROVE  Came(r, b)
<1>1. "Array" \in Nodes /\ "UNTERMINATED_ARRAY" \in Errors
  BY Names, ErrorNames
<1>2. b = OpenNode(r, "Array", "UNTERMINATED_ARRAY")
  BY DEF OpenArray
<1>3. Retold(r, b) /\ Stepped(r.ls, b.ls) /\ Ahead(r.ls, b.ls)
      /\ b.node \in {r.node, "Error", "Array"}
  BY <1>1, <1>2, OpenNodeIs
<1> QED BY <1>3, RetoldOn, CameStepped DEF Opens

\* The depth counter wraps within its width, up and down.
LEMMA DepthsWrap ==
  \A d \in 0 .. DepthMod - 1 :
    (d + 1) % DepthMod \in 0 .. DepthMod - 1 /\ (d - 1) % DepthMod \in 0 .. DepthMod - 1
  BY DepthModAssumption

\* `{`.
LEMMA OpenObjectIs ==
  ASSUME NEW r, Reader(r), Calm(r.ls), r.ls.current # NUL, NEW b, b = OpenObject(r)
  PROVE  Came(r, b)
<1>1. "Object" \in Nodes /\ "UNTERMINATED_OBJECT" \in Errors
  BY Names, ErrorNames
<1>2. PICK a : a = OpenNode(r, "Object", "UNTERMINATED_OBJECT")
  OBVIOUS
<1>3. Reader(a) /\ Stepped(r.ls, a.ls) /\ Ahead(r.ls, a.ls) /\ Opens(r, a)
  <2>1. /\ Retold(r, a) /\ Stepped(r.ls, a.ls) /\ Ahead(r.ls, a.ls)
        /\ a.node \in {r.node, "Error"} \/ ~Eof(a.ls)
    BY <1>1, <1>2, OpenNodeIs
  <2> QED BY <2>1, RetoldOn DEF Opens
<1>4. PICK d \in 0 .. DepthMod - 1 : d = (a.depth + 1) % DepthMod
  BY <1>3, ReaderFields, DepthsWrap
<1>5. b = a \/ b = [a EXCEPT !.depth = d]
  BY <1>2, <1>4 DEF OpenObject, Then
<1>6. Reader(b) /\ b.ls = a.ls /\ b.node = a.node
  BY <1>3, <1>4, <1>5, DepthSet
<1> QED BY <1>3, <1>6, CameStepped DEF Opens

-----------------------------------------------------------------------------
(* Numbers and literals.                                                     *)

\* 10 to a power that fits the exponent counter is never zero.
LEMMA TensArePositive == \A n \in 0 .. 2 ^ 16 - 1 : Tens[n] \in Nat \ {0}
<1> DEFINE turn == [v \in Nat \ {0} |-> 10 * v]
<1>1. PICK last \in Nat : last = 2 ^ 16 - 1
  OBVIOUS
<1>2. turn \in [Nat \ {0} -> Nat \ {0}] /\ 1 \in Nat \ {0}
  OBVIOUS
<1>3. PICK f \in [0 .. last -> Nat \ {0}] : NumberRunning!Run(turn, f, 1, last)
  <2> HIDE DEF turn
  <2> QED BY <1>2, NumberRunning!RunExists
<1>4. \A n \in 0 .. last : n # 0 => turn[f[n - 1]] = 10 * f[n - 1]
  BY <1>3
<1>5. f = [n \in 0 .. last |-> IF n = 0 THEN 1 ELSE turn[f[n - 1]]]
  BY <1>3 DEF NumberRunning!Run
<1> HIDE DEF turn
<1>6. f = [n \in 0 .. last |-> IF n = 0 THEN 1 ELSE 10 * f[n - 1]]
  BY <1>4, <1>5
<1>7. Tens = CHOOSE t : t = [n \in 0 .. last |-> IF n = 0 THEN 1 ELSE 10 * t[n - 1]]
  BY <1>1 DEF Tens
<1>8. Tens = [n \in 0 .. last |-> IF n = 0 THEN 1 ELSE 10 * Tens[n - 1]]
  BY <1>6, <1>7
<1> SUFFICES ASSUME NEW n \in 0 .. last PROVE Tens[n] \in Nat \ {0}
  BY <1>1
<1>9. Tens[0] \in Nat \ {0}
  BY <1>8
<1>10. ASSUME NEW i \in 1 .. n, Tens[i - 1] \in Nat \ {0} PROVE Tens[i] \in Nat \ {0}
  <2>1. Tens[i] = 10 * Tens[i - 1]
    BY <1>8
  <2> QED BY <1>10, <2>1
<1>11. PICK Positive, t : Positive = Nat \ {0} /\ t = Tens
  OBVIOUS
<1>12. n \in Nat /\ t[0] \in Positive /\ \A i \in 1 .. n : t[i - 1] \in Positive => t[i] \in Positive
  BY <1>9, <1>10, <1>11
<1>13. t[n] \in Positive
  BY <1>12, NumberRunning!KeptToTheEnd
<1> QED BY <1>11, <1>13

\* Scaling a number by its exponent gives a lexer state.
LEMMA ScaledIsLexState ==
  ASSUME NEW st \in LexStates
  PROVE  [st EXCEPT !.integer = Scaled(st)] \in LexStates
<1>1. LexFields(st)
  BY LexStateSet
<1>2. PICK t \in Nat \ {0} : t = Tens[st.eCount]
  BY <1>1, TensArePositive DEF LexFields
<1>3. Quotient(st.integer, t) \in Int /\ st.integer * t \in Int /\ st.integer \in Int
  BY <1>1 DEF LexFields, Quotient
<1>4. Scaled(st) \in {st.integer, st.integer * t, Quotient(st.integer, t)}
  <2>1. CASE st.fracPart < 2
    <3>1. ~ (st.fracPart = 2) /\ ~ (st.fracPart = 3)
      BY <2>1
    <3> QED BY <2>1, <3>1, Zenon DEF Scaled
  <2>2. CASE st.fracPart = 2
    <3>1. ~ (st.fracPart < 2) /\ ~ (st.fracPart = 3)
      BY <2>2
    <3> QED BY <1>2, <2>2, <3>1, Zenon DEF Scaled
  <2>3. CASE st.fracPart = 3
    <3>1. ~ (st.fracPart < 2) /\ ~ (st.fracPart = 2)
      BY <2>3
    <3> QED BY <1>2, <2>3, <3>1, Zenon DEF Scaled
  <2>4. st.fracPart < 2 \/ st.fracPart = 2 \/ st.fracPart = 3
    BY <1>1 DEF LexFields
  <2> QED BY <2>1, <2>2, <2>3, <2>4
<1> QED BY <1>3, <1>4, LexStateSet

\* Resetting parts of the lexer state gives a lexer state.
LEMMA Restarted ==
  ASSUME NEW st \in LexStates
  PROVE  /\ [st EXCEPT !.state = 0] \in LexStates /\ [st EXCEPT !.state = 0].state = 0
         /\ [st EXCEPT !.accept = 0] \in LexStates /\ [st EXCEPT !.accept = 0].accept = 0
         /\ [st EXCEPT !.accept = 1] \in LexStates /\ [st EXCEPT !.accept = 1].accept = 1
         /\ [st EXCEPT !.state = 0, !.accept = 0] \in LexStates
         /\ [st EXCEPT !.state = 0, !.accept = 0].state = 0
<1>1. 0 \in 0 .. 13 /\ 0 \in 0 .. 3 /\ 1 \in 0 .. 3
  OBVIOUS
<1> QED BY <1>1 DEF LexStates

\* Where a value is given up the cursor is taken to its end.
LEMMA GivenUp ==
  ASSUME NEW r, Reader(r), NEW b,
         \/ b = No(RecoverValue(SourceFailed(r)))
         \/ b = Raise(RecoverValue(r), "INVALID_VALUE")
         \/ b = No(RecoverValue(Raise(r, "INVALID_VALUE")))
  PROVE  Retold(r, b) /\ Stepped(r.ls, b.ls) /\ b.ok = FALSE /\ b.node \in {"Value", "Error"}
<1>1. "INVALID_VALUE" \in Errors
  BY ErrorNames
<1>2. ASSUME NEW a, Retold(r, a), a.ls = r.ls
      PROVE  /\ Retold(r, RecoverValue(a)) /\ Stepped(r.ls, RecoverValue(a).ls)
             /\ RecoverValue(a).node \in {"Value", "Error"}
  BY <1>2, RetoldOn, RecoverValueIs
<1>3. ASSUME NEW c, Retold(r, c), Stepped(r.ls, c.ls), c.node \in {"Value", "Error"},
             b = No(c) \/ b = Raise(c, "INVALID_VALUE")
      PROVE  Retold(r, b) /\ Stepped(r.ls, b.ls) /\ b.ok = FALSE /\ b.node \in {"Value", "Error"}
  <2>1. Retold(c, b) /\ b.ls = c.ls /\ b.node = c.node /\ b.ok = FALSE
    <3>1. Reader(c)
      BY <1>3, RetoldOn
    <3>2. CASE b = No(c)
      BY <3>1, <3>2, NoIs
    <3>3. CASE b = Raise(c, "INVALID_VALUE")
      BY <1>1, <3>1, <3>3, RaiseIs
    <3> QED BY <1>3, <3>2, <3>3
  <2> QED BY <1>3, <2>1, RetoldOn
<1>4. CASE b = No(RecoverValue(SourceFailed(r)))
  <2>1. Retold(r, SourceFailed(r)) /\ SourceFailed(r).ls = r.ls
    BY SourceFailedIs
  <2> QED BY <1>2, <1>3, <1>4, <2>1
<1>5. CASE b = Raise(RecoverValue(r), "INVALID_VALUE")
  <2>1. Retold(r, r)
    BY DEF Retold
  <2> QED BY <1>2, <1>3, <1>5, <2>1
<1>6. CASE b = No(RecoverValue(Raise(r, "INVALID_VALUE")))
  <2>1. Retold(r, Raise(r, "INVALID_VALUE")) /\ Raise(r, "INVALID_VALUE").ls = r.ls
    BY <1>1, RaiseIs
  <2> QED BY <1>2, <1>3, <1>6, <2>1
<1> QED BY <1>4, <1>5, <1>6

\* The number that has come to its end.
LEMMA NumberedIs ==
  ASSUME NEW r, Reader(r), NEW b, b = Numbered(r)
  PROVE  Reader(b) /\ b.ls = r.ls /\ b.node = r.node
<1>1. PICK v \in ValueTypes : v = NumberType(r.lex)
  BY DEF NumberType, ValueTypes
<1>2. PICK x \in LexStates : x = [r.lex EXCEPT !.integer = Scaled(r.lex)]
  BY ReaderFields, ScaledIsLexState
<1>3. b = [r EXCEPT !.vtype = v, !.lex = x]
  BY <1>1, <1>2 DEF Numbered
<1>4. b \in ReadersOf(r.ls.in) /\ b.ls = r.ls /\ b.node = r.node
  BY <1>3 DEF Reader, ReadersOf
<1> QED BY <1>4 DEF Reader

\* The end of a number touches the lexer state only.
LEMMA NumberEndIs ==
  ASSUME NEW r, Reader(r), NEW b, b = NumberEnd(r)
  PROVE  Reader(b) /\ b.ls = r.ls /\ b.node \in {r.node, "Error", "Value"}
<1>1. CASE HasSourceError(r.ls)
  <2>1. ~ Delimited(r.ls)
    BY <1>1 DEF Delimited
  <2>2. b = SourceFailed(r)
    BY <1>1, <2>1, Zenon DEF NumberEnd
  <2> QED BY <2>2, SourceFailedIs, RetoldOn
<1>2. CASE ~ HasSourceError(r.ls) /\ Delimited(r.ls) /\ r.lex.accept # 0
  <2>1. PICK m : m = Numbered(r)
    OBVIOUS
  <2>2. b = Land(m, "Value")
    BY <1>2, <2>1, Zenon DEF NumberEnd
  <2>3. "Value" \in Nodes /\ Reader(m) /\ m.ls = r.ls
    BY <2>1, Names, NumberedIs
  <2>4. Retold(m, Land(m, "Value")) /\ Land(m, "Value").ls = m.ls
        /\ Land(m, "Value").node = "Value"
    BY <2>3, LandIs
  <2> QED BY <2>2, <2>3, <2>4, RetoldOn
<1>3. CASE ~ HasSourceError(r.ls) /\ ~ (Delimited(r.ls) /\ r.lex.accept # 0)
  <2>1. b = Raise(r, "INVALID_VALUE")
    BY <1>3, Zenon DEF NumberEnd
  <2>2. "INVALID_VALUE" \in Errors
    BY ErrorNames
  <2> QED BY <2>1, <2>2, RaiseIs, RetoldOn
<1> QED BY <1>1, <1>2, <1>3

\* The end of a literal, with the recovery from one that is none.
LEMMA LiteralEndIs ==
  ASSUME NEW r, Reader(r), Calm(r.ls), NEW b, b = LiteralEnd(r)
  PROVE  Reader(b) /\ Stepped(r.ls, b.ls) /\ b.node \in {"Value", "Error"}
<1>1. CASE b = Land(r, "Value")
  <2>1. "Value" \in Nodes
    BY Names
  <2>2. Retold(r, b) /\ b.ls = r.ls /\ b.node = "Value"
    BY <1>1, <2>1, LandIs
  <2> QED BY <2>2, RetoldOn, ReaderFields, OnwardIsOrder DEF Stepped
<1>2. CASE b = Raise(RecoverValue(r), "INVALID_VALUE")
  BY <1>2, GivenUp, RetoldOn
<1> QED BY <1>1, <1>2 DEF LiteralEnd

\* A run of an automaton taken over into the reader.
RanTo(r, run) == [r EXCEPT !.ls = run.ls, !.lex = run.st]

\* What a run of a lexer leaves the reader with.
LEMMA RanIs ==
  ASSUME NEW r, Reader(r), NEW l, Within(l), Onward(r.ls, l), NEW run \in Runs(l),
         NEW q, q = RanTo(r, run)
  PROVE  /\ Reader(q) /\ q.ls = run.ls /\ q.lex = run.st /\ q.node = r.node /\ q.vtype = r.vtype
         /\ Onward(r.ls, q.ls) /\ (Ahead(l, run.ls) => Ahead(r.ls, q.ls)) /\ Within(q.ls)
<1>1. Onward(l, run.ls) /\ run.st \in LexStates
  BY DEF Runs
<1>2. Within(run.ls) /\ run.ls \in SourcesOf(run.ls.in)
  BY <1>1, WithinOnward, WithinTypes
<1>3. q \in ReadersOf(run.ls.in) /\ q.ls = run.ls /\ q.lex = run.st /\ q.node = r.node
      /\ q.vtype = r.vtype
  BY <1>1, <1>2 DEF RanTo, Reader, ReadersOf
<1>4. Onward(r.ls, run.ls) /\ (Ahead(l, run.ls) => Ahead(r.ls, run.ls))
  BY <1>1, ReaderFields, OnwardIsOrder
<1> QED BY <1>2, <1>3, <1>4 DEF Reader

\* The value that a run opens.
LEMMA RanCame ==
  ASSUME NEW r, Reader(r), r.ls.state = Ok, Calm(r.ls), r.vtype # "String",
         NEW l, l = ClearCapture(r.ls), NEW run \in Runs(l), Ahead(l, run.ls),
         NEW q, q = RanTo(r, run),
         NEW c, c = On(q, SkipWhiteSpace(run.ls)), NEW b,
         \/ run.ls.state = OutOfMemory /\ b = Land(q, "ValuePart")
         \/ HasSourceError(run.ls) /\ b = No(RecoverValue(SourceFailed(q)))
         \/ /\ ~HasSourceError(run.ls)
            /\ Reader(c) /\ Calm(c.ls) =>
                 Reader(b) /\ Stepped(c.ls, b.ls) /\ b.node \in {c.node, "Error", "Value"}
  PROVE  Came(r, b)
<1>1. Within(l) /\ Onward(r.ls, l) /\ Calm(l) /\ Within(r.ls)
  BY ReaderFields, ClearCaptureKeeps, WithinOnward
<1>2. /\ Reader(q) /\ q.ls = run.ls /\ q.node = r.node /\ q.vtype = r.vtype
      /\ Onward(r.ls, q.ls) /\ Ahead(r.ls, q.ls) /\ Within(q.ls)
  BY <1>1, RanIs
<1>3. Paused(run.ls)
  BY <1>1, PausedIs DEF Runs
<1>4. CASE run.ls.state = OutOfMemory /\ b = Land(q, "ValuePart")
  <2>1. "ValuePart" \in Nodes
    BY Names
  <2>2. Retold(q, b) /\ b.ls = q.ls /\ b.node = "ValuePart"
    BY <1>2, <1>4, <2>1, LandIs
  <2>3. Reader(b) /\ b.vtype # "String"
    BY <1>2, <2>2 DEF Retold
  <2> QED BY <1>2, <1>3, <2>2, <2>3 DEF Came, Midst, Opens
<1>5. CASE HasSourceError(run.ls) /\ b = No(RecoverValue(SourceFailed(q)))
  <2>1. Retold(q, b) /\ Stepped(q.ls, b.ls) /\ b.ok = FALSE /\ b.node \in {"Value", "Error"}
    BY <1>2, <1>5, GivenUp
  <2> QED BY <1>1, <1>2, <2>1, RetoldOn, SteppedOn, CameStepped DEF Opens
<1>6. CASE /\ ~HasSourceError(run.ls)
           /\ Reader(c) /\ Calm(c.ls) =>
                Reader(b) /\ Stepped(c.ls, b.ls) /\ b.node \in {c.node, "Error", "Value"}
  <2>1. Calm(run.ls)
    BY <1>3, <1>6 DEF Calm, HasSourceError, OutOfMemory, EndOfInput
  <2>2. PICK n : n = SkipWhiteSpace(run.ls)
    OBVIOUS
  <2>3. Stepped(run.ls, n) /\ Within(n)
    BY <1>2, <2>1, <2>2, SpaceStepped, WithinOnward DEF Stepped
  <2>4. Reader(c) /\ c.ls = n /\ c.node = r.node
    BY <1>2, <2>2, <2>3, OnIs, RetoldOn
  <2>5. Reader(b) /\ Stepped(n, b.ls) /\ b.node \in {r.node, "Error", "Value"}
    BY <1>6, <2>3, <2>4 DEF Stepped
  <2>6. Stepped(q.ls, b.ls)
    BY <1>2, <2>3, <2>5, SteppedOn DEF Stepped
  <2>7. Stepped(r.ls, b.ls) /\ Ahead(r.ls, b.ls)
    BY <1>1, <1>2, <2>6, SteppedOn
  <2> QED BY <2>5, <2>7, CameStepped DEF Opens
<1> QED BY <1>4, <1>5, <1>6

\* A digit or minus sign: a run of the number lexer, which gets on.
LEMMA OpenNumberIs ==
  ASSUME NEW r, Reader(r), r.ls.state = Ok, Calm(r.ls), r.ls.current \in {"-"} \cup Digit,
         NEW b, b = OpenNumber(r)
  PROVE  Came(r, b)
<1>1. PICK s : s = [r EXCEPT !.vtype = "Integer"]
  OBVIOUS
<1>2. Reader(s) /\ s.ls = r.ls /\ s.vtype # "String" /\ s.node = r.node
  <2>1. "Integer" \in ValueTypes
    BY DEF ValueTypes
  <2> QED BY <1>1, <2>1, VtypeSet
<1>3. PICK l : l = ClearCapture(r.ls)
  OBVIOUS
<1>4. Within(l) /\ l.state = Ok /\ l.captured = << >> /\ l.current = r.ls.current
  BY <1>3, ReaderFields, ClearCaptureKeeps, WithinOnward DEF Ok, OutOfMemory
<1>5. PICK st : st = [r.lex EXCEPT !.state = 0]
  OBVIOUS
<1>6. st \in LexStates /\ st.state = 0
  <2>1. PICK x \in LexStates : x = r.lex
    BY ReaderFields
  <2>2. st = [x EXCEPT !.state = 0]
    BY <1>5, <2>1
  <2> QED BY <2>1, <2>2, Restarted
<1>7. PICK run : run = LexAll(LexNumber, l, st)
  OBVIOUS
<1>8. run \in Runs(l) /\ Ahead(l, run.ls)
  BY <1>4, <1>6, <1>7, NumberRun
<1>9. PICK q : q = RanTo(s, run)
  OBVIOUS
<1>10. PICK c : c = On(q, SkipWhiteSpace(run.ls))
  OBVIOUS
<1>11. b = IF run.ls.state = OutOfMemory THEN Land(q, "ValuePart")
           ELSE IF HasSourceError(run.ls) THEN No(RecoverValue(SourceFailed(q)))
           ELSE NumberEnd(c)
  BY <1>1, <1>3, <1>5, <1>7, <1>9, <1>10 DEF OpenNumber, Lexed, RanTo
<1>12. Reader(c) /\ Calm(c.ls) =>
         /\ Reader(NumberEnd(c)) /\ Stepped(c.ls, NumberEnd(c).ls)
         /\ NumberEnd(c).node \in {c.node, "Error", "Value"}
  BY NumberEndIs, ReaderFields, OnwardIsOrder DEF Stepped
<1>13. Came(s, b)
  BY <1>2, <1>3, <1>8, <1>9, <1>10, <1>11, <1>12, RanCame
<1> QED BY <1>2, <1>13 DEF Came, Opens

\* `t`, `f` or `n`: a run of the literal lexer, which gets on.
LEMMA OpenLiteralIs ==
  ASSUME NEW r, Reader(r), r.ls.state = Ok, Calm(r.ls), r.ls.current \in {"t", "f", "n"},
         NEW b, b = OpenLiteral(r)
  PROVE  Came(r, b)
<1>1. PICK s : s = [r EXCEPT !.vtype = LiteralType(r.ls.current)]
  OBVIOUS
<1>2. Reader(s) /\ s.ls = r.ls /\ s.vtype # "String" /\ s.node = r.node
  <2>1. PICK v : v = LiteralType(r.ls.current)
    OBVIOUS
  <2>2. v \in ValueTypes /\ v # "String"
    BY <2>1 DEF LiteralType, ValueTypes
  <2> QED BY <1>1, <2>1, <2>2, VtypeSet
<1>3. PICK l : l = ClearCapture(r.ls)
  OBVIOUS
<1>4. Within(l) /\ l.state = Ok /\ l.captured = << >> /\ l.current = r.ls.current
  BY <1>3, ReaderFields, ClearCaptureKeeps, WithinOnward DEF Ok, OutOfMemory
<1>5. PICK st : st = [r.lex EXCEPT !.state = 0, !.accept = 0]
  OBVIOUS
<1>6. st \in LexStates /\ st.state = 0
  <2>1. PICK x \in LexStates : x = r.lex
    BY ReaderFields
  <2>2. st = [x EXCEPT !.state = 0, !.accept = 0]
    BY <1>5, <2>1
  <2> QED BY <2>1, <2>2, Restarted
<1>7. PICK run : run = LexAll(LexLiteral, l, st)
  OBVIOUS
<1>8. run \in Runs(l) /\ Ahead(l, run.ls)
  BY <1>4, <1>6, <1>7, LiteralRun
<1>9. PICK q : q = RanTo(s, run)
  OBVIOUS
<1>10. PICK c : c = On(q, SkipWhiteSpace(run.ls))
  OBVIOUS
<1>11. b = IF run.ls.state = OutOfMemory THEN Land(q, "ValuePart")
           ELSE IF HasSourceError(run.ls) THEN No(RecoverValue(SourceFailed(q)))
           ELSE LiteralEnd(c)
  BY <1>1, <1>3, <1>5, <1>7, <1>9, <1>10 DEF OpenLiteral, Lexed, RanTo
<1>12. Reader(c) /\ Calm(c.ls) =>
         /\ Reader(LiteralEnd(c)) /\ Stepped(c.ls, LiteralEnd(c).ls)
         /\ LiteralEnd(c).node \in {c.node, "Error", "Value"}
  BY LiteralEndIs
<1>13. Came(s, b)
  BY <1>2, <1>3, <1>8, <1>9, <1>10, <1>11, <1>12, RanCame
<1> QED BY <1>2, <1>13 DEF Came, Opens

-----------------------------------------------------------------------------
(* Strings, and the fields they may be.                                      *)

\* A read after a move is a read.
LEMMA CameOn ==
  ASSUME NEW r, Within(r.ls), NEW a, Onward(r.ls, a.ls), a.node = "Object" => r.node = "Object",
         NEW b, Came(a, b)
  PROVE  Came(r, b)
<1>1. Onward(r.ls, b.ls) /\ (Ahead(a.ls, b.ls) => Ahead(r.ls, b.ls))
  BY OnwardIsOrder DEF Came
<1> QED BY <1>1 DEF Came, Opens

\* A return without a move, of a source that is as advance() left it.
LEMMA CameStill ==
  ASSUME NEW r, NEW b, Retold(r, b), b.ls = r.ls, Calm(r.ls), ~b.ok, b.node = r.node
  PROVE  Came(r, b)
  BY RetoldOn, ReaderFields, OnwardIsOrder, CameStepped DEF Stepped, Opens

\* Telling a field from a string by the colon that follows it.
LEMMA FieldOrStringIs ==
  ASSUME NEW r, Reader(r), Calm(r.ls), NEW fields, NEW b, b = FieldOrString(r, fields)
  PROVE  Reader(b) /\ Stepped(r.ls, b.ls) /\ b.node \in {r.node, "Error", "Field"}
<1>1. CASE More(r.ls) /\ r.ls.current = ":"
  <2>1. PICK a : a = Eat(r)
    OBVIOUS
  <2>2. Reader(a) /\ Stepped(r.ls, a.ls) /\ a.node \in {r.node, "Error"}
    BY <2>1, EatIs, RetoldOn
  <2>3. "Field" \in Nodes /\ "UNEXPECTED_FIELD" \in Errors
    BY Names, ErrorNames
  <2>4. Reader(Land(a, "Field")) /\ Land(a, "Field").ls = a.ls /\ Land(a, "Field").node = "Field"
    BY <2>2, <2>3, LandIs, RetoldOn
  <2>5. Reader(Die(a, "UNEXPECTED_FIELD")) /\ Die(a, "UNEXPECTED_FIELD").ls = a.ls
        /\ Die(a, "UNEXPECTED_FIELD").node = "Error"
    BY <2>2, <2>3, DieIs, RetoldOn
  <2>6. b = a \/ b = Land(a, "Field") \/ b = Die(a, "UNEXPECTED_FIELD")
    BY <1>1, <2>1 DEF FieldOrString, Then
  <2> QED BY <2>2, <2>4, <2>5, <2>6
<1>2. CASE ~ (More(r.ls) /\ r.ls.current = ":")
  <2>1. b = Yes(r)
    BY <1>2 DEF FieldOrString
  <2>2. Reader(b) /\ b.ls = r.ls /\ b.node = r.node
    BY <2>1, YesIs, RetoldOn
  <2> QED BY <2>2, ReaderFields, OnwardIsOrder DEF Stepped
<1> QED BY <1>1, <1>2

\* The end of a string or of its first part. A full buffer is left standing only
\* on a value part of type String, with the lexer not accepting: the one place a
\* later read takes up from.
LEMMA EndStringIs ==
  ASSUME NEW r, Reader(r), Paused(r.ls), NEW fields, NEW b, b = EndString(r, fields)
  PROVE  /\ Reader(b) /\ Onward(r.ls, b.ls) /\ Paused(b.ls)
         /\ b.ls.state = OutOfMemory => Midst(b)
         /\ b.node \in {r.node, "Error", "Field", "ValuePart"}
<1> DEFINE Ended == /\ Reader(b) /\ Onward(r.ls, b.ls) /\ Paused(b.ls)
                    /\ b.ls.state = OutOfMemory => Midst(b)
                    /\ b.node \in {r.node, "Error", "Field", "ValuePart"}
<1>1. Within(r.ls) /\ Onward(r.ls, r.ls)
  BY ReaderFields, OnwardIsOrder
<1>2. ASSUME Reader(b), Stepped(r.ls, b.ls), b.node \in {r.node, "Error", "Field"} PROVE Ended
  BY <1>2 DEF Stepped, Calm
<1>3. r.ls.state = OutOfMemory => HasSourceError(r.ls)
  BY DEF HasSourceError, OutOfMemory, EndOfInput
<1>4. CASE r.ls.state = OutOfMemory
  <2>1. PICK s : s = [r EXCEPT !.vtype = "String", !.lex.accept = 0]
    OBVIOUS
  <2>2. Reader(s) /\ s.ls = r.ls /\ s.lex.accept = 0
    <3>1. PICK x : x = [r.lex EXCEPT !.accept = 0]
      OBVIOUS
    <3>2. x \in LexStates /\ x.accept = 0
      <4>1. PICK y \in LexStates : y = r.lex
        BY ReaderFields
      <4>2. x = [y EXCEPT !.accept = 0]
        BY <3>1, <4>1
      <4> QED BY <4>1, <4>2, Restarted
    <3>3. s = [r EXCEPT !.vtype = "String", !.lex = x]
      BY <2>1, <3>1
    <3>4. s \in ReadersOf(r.ls.in) /\ s.ls = r.ls /\ s.lex = x
      <4>1. "String" \in ValueTypes
        BY DEF ValueTypes
      <4> QED BY <3>2, <3>3, <4>1 DEF Reader, ReadersOf
    <3> QED BY <3>2, <3>4 DEF Reader
  <2>3. b = Land(s, "ValuePart")
    BY <1>3, <1>4, <2>1, Zenon DEF EndString
  <2>4. "ValuePart" \in Nodes
    BY Names
  <2>5. Retold(s, Land(s, "ValuePart")) /\ Land(s, "ValuePart").ls = s.ls
        /\ Land(s, "ValuePart").node = "ValuePart"
    BY <2>2, <2>4, LandIs
  <2>6. Reader(b) /\ b.ls = r.ls /\ b.node = "ValuePart" /\ b.lex.accept = 0
    BY <2>2, <2>3, <2>5 DEF Retold
  <2> QED BY <1>1, <2>6 DEF Midst
<1>5. CASE r.ls.state # OutOfMemory /\ HasSourceError(r.ls)
  <2>1. b = SourceFailed(r)
    BY <1>5, Zenon DEF EndString
  <2>2. Reader(b) /\ b.ls = r.ls /\ b.node \in {r.node, "Error"}
    BY <2>1, SourceFailedIs, RetoldOn
  <2> QED BY <1>1, <1>5, <2>2
<1>6. CASE ~HasSourceError(r.ls) /\ r.ls.current # "\""
  <2>1. r.ls.state # OutOfMemory
    BY <1>3, <1>6
  <2>2. b = Raise(r, "UNTERMINATED_STRING")
    BY <1>6, <2>1, Zenon DEF EndString
  <2>3. "UNTERMINATED_STRING" \in Errors
    BY ErrorNames
  <2>4. Reader(b) /\ b.ls = r.ls /\ b.node = r.node
    BY <2>2, <2>3, RaiseIs, RetoldOn
  <2> QED BY <1>1, <2>1, <2>4
<1>7. CASE ~HasSourceError(r.ls) /\ r.ls.current = "\""
  <2>1. r.ls.state # OutOfMemory
    BY <1>3, <1>7
  <2>2. PICK n : n = Advance(r.ls)
    OBVIOUS
  <2>3. Stepped(r.ls, n) /\ Within(n) /\ Calm(n) /\ Onward(r.ls, n)
    BY <1>1, <2>2, AdvanceIsOnward, WithinOnward DEF Stepped
  <2>4. PICK a : a = Arrive(r, n)
    OBVIOUS
  <2>5. Reader(a) /\ a.ls = n /\ a.node \in {r.node, "Error"}
    BY <2>3, <2>4, ArriveIs, RetoldOn
  <2>6. PICK s : s = [a EXCEPT !.vtype = "String"]
    OBVIOUS
  <2>7. Reader(s) /\ s.node = a.node
    <3>1. "String" \in ValueTypes
      BY DEF ValueTypes
    <3> QED BY <2>5, <2>6, <3>1, VtypeSet
  <2>8. PICK m : m = SkipWhiteSpace(n)
    OBVIOUS
  <2>9. Stepped(n, m) /\ Within(m) /\ Calm(m) /\ Stepped(r.ls, m) /\ Onward(r.ls, m)
    BY <1>1, <2>3, <2>8, SpaceStepped, SteppedOn, WithinOnward DEF Stepped
  <2>10. PICK c : c = Arrive(s, m)
    OBVIOUS
  <2>11. Reader(c) /\ c.ls = m /\ c.node \in {r.node, "Error"}
    BY <2>5, <2>7, <2>9, <2>10, ArriveIs, RetoldOn
  <2>12. b = Then(a, LAMBDA x : Then(Arrive([x EXCEPT !.vtype = "String"], SkipWhiteSpace(x.ls)),
                                     LAMBDA y : FieldOrString(y, fields)))
    BY <1>7, <2>1, <2>2, <2>4, Zenon DEF EndString
  <2>13. b = IF ~a.ok THEN a ELSE IF ~c.ok THEN c ELSE FieldOrString(c, fields)
    BY <2>5, <2>6, <2>8, <2>10, <2>12 DEF Then
  <2>14. PICK f : f = FieldOrString(c, fields)
    OBVIOUS
  <2>15. Reader(f) /\ Stepped(m, f.ls) /\ f.node \in {c.node, "Error", "Field"}
    BY <2>9, <2>11, <2>14, FieldOrStringIs
  <2>16. Stepped(r.ls, f.ls)
    BY <1>1, <2>9, <2>15, SteppedOn
  <2>17. b = a \/ b = c \/ b = f
    BY <2>13, <2>14
  <2> QED BY <1>2, <2>3, <2>5, <2>9, <2>11, <2>15, <2>16, <2>17
<1> QED BY <1>4, <1>5, <1>6, <1>7

\* A quote: the string that follows, or as much of it as the buffer holds.
LEMMA OpenStringIs ==
  ASSUME NEW r, Reader(r), Calm(r.ls), r.ls.current # NUL, NEW fields, NEW b,
         b = OpenString(r, fields)
  PROVE  Came(r, b) /\ b.node # "Object"
<1>1. PICK l : l = ClearCapture(r.ls)
  OBVIOUS
<1>2. Within(l) /\ Onward(r.ls, l) /\ Calm(l) /\ l.current # NUL /\ Within(r.ls)
  BY <1>1, ReaderFields, ClearCaptureKeeps, WithinOnward
<1>3. PICK n : n = Advance(l)
  OBVIOUS
<1>4. Stepped(l, n) /\ Ahead(l, n) /\ Within(n) /\ Calm(n)
  BY <1>2, <1>3, AdvanceIsOnward, CalmHere, WithinOnward DEF Stepped
<1>5. Stepped(r.ls, n) /\ Ahead(r.ls, n) /\ Onward(r.ls, n)
  BY <1>2, <1>4, SteppedOn DEF Stepped
<1>6. PICK s : s = [r EXCEPT !.node = "Value"]
  OBVIOUS
<1>7. Reader(s) /\ s.node = "Value"
  <2>1. "Value" \in Nodes
    BY Names
  <2> QED BY <1>6, <2>1, NodeSet
<1>8. PICK a : a = Arrive(s, n)
  OBVIOUS
<1>9. Reader(a) /\ a.ls = n /\ a.node \in {"Value", "Error"}
  BY <1>4, <1>7, <1>8, ArriveIs, RetoldOn
<1>10. CASE ~a.ok
  <2>1. b = a
    BY <1>1, <1>3, <1>6, <1>8, <1>10 DEF OpenString, Then
  <2> QED BY <1>5, <1>9, <2>1, CameStepped DEF Opens
<1>11. CASE a.ok /\ Eof(a.ls)
  <2>1. b = Raise(a, "UNTERMINATED_STRING")
    BY <1>1, <1>3, <1>6, <1>8, <1>11 DEF OpenString, Then
  <2>2. "UNTERMINATED_STRING" \in Errors
    BY ErrorNames
  <2>3. Reader(b) /\ b.ls = n /\ b.node = a.node
    BY <1>9, <2>1, <2>2, RaiseIs, RetoldOn
  <2> QED BY <1>5, <1>9, <2>3, CameStepped DEF Opens
<1>12. CASE a.ok /\ ~Eof(a.ls)
  <2>1. PICK u : u = UndecorateAll(n)
    OBVIOUS
  <2>2. Onward(n, u) /\ Paused(u) /\ Within(u)
    BY <1>4, <2>1, UndecorateAllKeeps, WithinOnward
  <2>3. PICK c : c = On(a, u)
    OBVIOUS
  <2>4. Reader(c) /\ c.ls = u /\ c.node = a.node
    BY <1>9, <2>2, <2>3, OnIs, RetoldOn
  <2>5. b = EndString(c, fields)
    BY <1>1, <1>3, <1>6, <1>8, <1>9, <1>12, <2>1, <2>3 DEF OpenString, Then
  <2>6. /\ Reader(b) /\ Onward(u, b.ls) /\ Paused(b.ls)
        /\ b.ls.state = OutOfMemory => Midst(b)
        /\ b.node \in {c.node, "Error", "Field", "ValuePart"}
    BY <2>2, <2>4, <2>5, EndStringIs
  <2>7. Onward(n, b.ls)
    BY <1>4, <2>2, <2>6, OnwardIsOrder
  <2>8. Onward(r.ls, b.ls) /\ Ahead(r.ls, b.ls)
    BY <1>2, <1>5, <2>7, OnwardIsOrder
  <2> QED BY <1>9, <2>4, <2>6, <2>8 DEF Came, Opens
<1> QED BY <1>10, <1>11, <1>12

-----------------------------------------------------------------------------
(* Nodes, from where the last one has ended.                                 *)

\* At a token, or at the end of the input.
Ready(r) == Reader(r) /\ Calm(r.ls) /\ ~HasSourceError(r.ls)

\* A ready source on a character is in state Ok.
LEMMA ReadyHere ==
  ASSUME NEW r, Ready(r), r.ls.current # NUL
  PROVE  r.ls.state = Ok
<1>1. r.ls.state \in States
  BY ReaderFields, WithinTypes DEF Ready
<1> QED BY <1>1 DEF Ready, Calm, Paused, HasSourceError, States, EndOfInput, Closed, IOError,
                    OutOfMemory, Initial

\* One of the openings above, by the current character.
Opening(r, fields, b) ==
  \/ r.ls.current = "[" /\ b = OpenArray(r)
  \/ r.ls.current = "{" /\ b = OpenObject(r)
  \/ r.ls.current \in {"-"} \cup Digit /\ b = OpenNumber(r)
  \/ r.ls.current \in {"t", "f", "n"} /\ b = OpenLiteral(r)
  \/ r.ls.current = "\"" /\ b = OpenString(r, fields)
  \/ b = No(RecoverValue(Raise(r, "INVALID_VALUE")))

\* readAnyOpen is one.
LEMMA OpeningsOf ==
  ASSUME NEW reader, NEW fields, NEW r, r = [reader EXCEPT !.vtype = "Undefined"],
         NEW b, b = ReadAnyOpen(reader, fields)
  PROVE  Opening(r, fields, b)
<1>1. PICK c, b1, b2, b3, b4, b5, b6 :
        /\ c = r.ls.current /\ b1 = OpenArray(r) /\ b2 = OpenObject(r) /\ b3 = OpenNumber(r)
        /\ b4 = OpenLiteral(r) /\ b5 = OpenString(r, fields)
        /\ b6 = No(RecoverValue(Raise(r, "INVALID_VALUE")))
  OBVIOUS
<1>2. b = CASE c = "[" -> b1
            [] c = "{" -> b2
            [] c \in {"-"} \cup Digit -> b3
            [] c \in {"t", "f", "n"} -> b4
            [] c = "\"" -> b5
            [] OTHER -> b6
  BY <1>1 DEF ReadAnyOpen
<1>3. \/ c = "[" /\ b = b1
      \/ c = "{" /\ b = b2
      \/ c \in {"-"} \cup Digit /\ b = b3
      \/ c \in {"t", "f", "n"} /\ b = b4
      \/ c = "\"" /\ b = b5
      \/ b = b6
  BY <1>2, Zenon
<1> QED BY <1>1, <1>3 DEF Opening

\* readAnyOpen at a token, or at the end of the input.
LEMMA ReadAnyOpenIs ==
  ASSUME NEW reader, Ready(reader), NEW fields, NEW b, b = ReadAnyOpen(reader, fields)
  PROVE  Came(reader, b) /\ (reader.ls.current = "\"" => b.node # "Object")
<1>1. PICK r : r = [reader EXCEPT !.vtype = "Undefined"]
  OBVIOUS
<1>2. Reader(r) /\ r.ls = reader.ls /\ r.node = reader.node
  <2>1. "Undefined" \in ValueTypes /\ Reader(reader)
    BY DEF ValueTypes, Ready
  <2> QED BY <1>1, <2>1, VtypeSet
<1>3. Calm(r.ls) /\ (r.ls.current # NUL => r.ls.state = Ok)
  BY <1>2, ReadyHere DEF Ready
<1>4. \/ r.ls.current = "[" /\ b = OpenArray(r)
      \/ r.ls.current = "{" /\ b = OpenObject(r)
      \/ r.ls.current \in {"-"} \cup Digit /\ b = OpenNumber(r)
      \/ r.ls.current \in {"t", "f", "n"} /\ b = OpenLiteral(r)
      \/ r.ls.current = "\"" /\ b = OpenString(r, fields)
      \/ b = No(RecoverValue(Raise(r, "INVALID_VALUE")))
  <2>1. Opening(r, fields, b)
    BY <1>1, OpeningsOf
  <2> QED BY <2>1 DEF Opening
<1>5. "[" # NUL /\ "{" # NUL /\ NUL \notin {"-"} \cup Digit /\ NUL \notin {"t", "f", "n"}
      /\ "\"" # NUL
  BY DEF NUL, Digit, Nonzero
<1>6. ASSUME b = No(RecoverValue(Raise(r, "INVALID_VALUE"))) PROVE Came(r, b)
  BY <1>2, <1>6, GivenUp, RetoldOn, CameStepped DEF Opens
<1>7. Came(r, b)
  BY <1>2, <1>3, <1>4, <1>5, <1>6, OpenArrayIs, OpenObjectIs, OpenNumberIs, OpenLiteralIs,
     OpenStringIs
<1>8. ASSUME reader.ls.current = "\"" PROVE b.node # "Object"
  <2>1. b = OpenString(r, fields)
    BY <1>1, <1>2, <1>8, Zenon DEF ReadAnyOpen, Digit, Nonzero
  <2> QED BY <1>2, <1>3, <1>5, <1>8, <2>1, OpenStringIs
<1> QED BY <1>2, <1>7, <1>8 DEF Came, Opens

\* skipIfComma keeps the node, or fails with an error.
LEMMA SkipIfCommaIs ==
  ASSUME NEW r, Reader(r), r.ls.state = Ok, Calm(r.ls), NEW b, b = SkipIfComma(r)
  PROVE  /\ Retold(r, b) /\ b.node \in {r.node, "Error"} /\ Stepped(r.ls, b.ls)
         /\ b.ok => b.node = r.node /\ b.ls.state = Ok
<1>1. CASE More(r.ls) /\ r.ls.current = ","
  <2>1. "UNTERMINATED_OBJECT_OR_ARRAY" \in Errors
    BY ErrorNames
  <2>2. b = EatBefore(r, "UNTERMINATED_OBJECT_OR_ARRAY")
    BY <1>1 DEF SkipIfComma
  <2> QED BY <2>1, <2>2, EatBeforeIs
<1>2. CASE ~ (More(r.ls) /\ r.ls.current = ",")
  <2>1. b = Yes(r)
    BY <1>2 DEF SkipIfComma
  <2> QED BY <2>1, YesIs, ReaderFields, OnwardIsOrder DEF Stepped
<1> QED BY <1>1, <1>2

\* The bracket that ends a node is passed.
LEMMA EndIs ==
  ASSUME NEW r, Reader(r), Calm(r.ls), r.ls.current # NUL, NEW node \in Nodes,
         node # "Object",
         NEW b, b = Then(Eat(r), LAMBDA a : Land(a, node))
  PROVE  Came(r, b) /\ b.node \in {node, "Error"}
<1>1. PICK a : a = Eat(r)
  OBVIOUS
<1>2. /\ Reader(a) /\ Stepped(r.ls, a.ls) /\ Ahead(r.ls, a.ls)
      /\ ~a.ok => a.node = "Error"
  BY <1>1, EatIs, RetoldOn, CalmHere, ReaderFields
<1>3. Reader(Land(a, node)) /\ Land(a, node).ls = a.ls /\ Land(a, node).node = node
  BY <1>2, LandIs, RetoldOn
<1>4. (b = a /\ ~a.ok) \/ b = Land(a, node)
  BY <1>1 DEF Then
<1> QED BY <1>2, <1>3, <1>4, CameStepped DEF Opens

\* readEndObject.
LEMMA ReadEndObjectIs ==
  ASSUME NEW r, Reader(r), Calm(r.ls), r.ls.current # NUL, NEW b, b = ReadEndObject(r)
  PROVE  Came(r, b)
<1>1. CASE More(Advance(r.ls))
  <2>1. b = Then(Eat(r), LAMBDA a : Land(a, "EndObject"))
    BY <1>1 DEF ReadEndObject
  <2>2. "EndObject" \in Nodes
    BY Names
  <2> QED BY <2>1, <2>2, EndIs
<1>2. CASE ~More(Advance(r.ls))
  <2>1. PICK a : a = StepOnto(r)
    OBVIOUS
  <2>2. /\ Reader(a) /\ Stepped(r.ls, a.ls) /\ Ahead(r.ls, a.ls)
        /\ a.node \in {r.node, "Error"}
    BY <2>1, StepOntoIs, RetoldOn, CalmHere, ReaderFields
  <2>3. PICK o \in BOOLEAN : o = ~HasError(a)
    OBVIOUS
  <2>4. b = [a EXCEPT !.ok = o]
    BY <1>2, <2>1, <2>3 DEF ReadEndObject
  <2>5. b \in ReadersOf(a.ls.in) /\ b.ls = a.ls /\ b.node = a.node
    BY <2>2, <2>3, <2>4 DEF Reader, ReadersOf
  <2>6. Reader(b)
    BY <2>2, <2>5 DEF Reader
  <2> QED BY <2>2, <2>5, <2>6, CameStepped DEF Opens
<1> QED BY <1>1, <1>2

\* readEndArray.
LEMMA ReadEndArrayIs ==
  ASSUME NEW r, Reader(r), Calm(r.ls), r.ls.current # NUL, NEW b, b = ReadEndArray(r)
  PROVE  Came(r, b)
<1>1. "EndArray" \in Nodes
  BY Names
<1>2. b = Then(Eat(r), LAMBDA a : Land(a, "EndArray"))
  BY DEF ReadEndArray
<1> QED BY <1>1, <1>2, EndIs

\* readAny: at a field, or at the top of a document.
LEMMA ReadAnyIs ==
  ASSUME NEW r, Reader(r), r.ls.state = Ok, Calm(r.ls), NEW b, b = ReadAny(r)
  PROVE  Came(r, b)
<1>1. r.ls.current # NUL /\ Within(r.ls) /\ ~HasSourceError(r.ls)
  BY ReaderFields DEF Calm, Paused, HasSourceError, Ok, EndOfInput
<1>2. \/ b = No(r)
      \/ b = ReadEndArray(r)
      \/ b = ReadEndObject(r)
      \/ b = Then(SkipIfComma(r), LAMBDA a : ReadAnyOpen(a, TRUE))
  BY Zenon DEF ReadAny
<1>3. CASE b = No(r)
  BY <1>3, NoIs, CameStill
<1>4. CASE b = Then(SkipIfComma(r), LAMBDA a : ReadAnyOpen(a, TRUE))
  <2>1. PICK a : a = SkipIfComma(r)
    OBVIOUS
  <2>2. Reader(a) /\ Stepped(r.ls, a.ls) /\ (a.ok => a.ls.state = Ok)
        /\ a.node \in {r.node, "Error"}
    BY <2>1, SkipIfCommaIs, RetoldOn
  <2>3. PICK t : t = TRUE
    OBVIOUS
  <2>4. CASE ~a.ok
    <3>1. b = a
      BY <1>4, <2>1, <2>4 DEF Then
    <3> QED BY <2>2, <2>4, <3>1, CameStepped DEF Opens
  <2>5. CASE a.ok
    <3>1. b = ReadAnyOpen(a, t)
      BY <1>4, <2>1, <2>3, <2>5 DEF Then
    <3>2. Ready(a)
      BY <2>2, <2>5 DEF Ready, Stepped, HasSourceError, Ok, EndOfInput
    <3> QED BY <1>1, <2>2, <3>1, <3>2, ReadAnyOpenIs, CameOn DEF Stepped
  <2> QED BY <2>4, <2>5
<1> QED BY <1>1, <1>2, <1>3, <1>4, ReadEndArrayIs, ReadEndObjectIs

\* readFieldOrEndObject: after the opening of an object, or a value within one.
LEMMA ReadFieldOrEndObjectIs ==
  ASSUME NEW r, Reader(r), r.ls.state = Ok, Calm(r.ls), NEW b, b = ReadFieldOrEndObject(r)
  PROVE  Came(r, b) /\ (b.node = "Object" => ~Eof(b.ls))
<1>1. r.ls.current # NUL /\ Ready(r)
  BY DEF Calm, Paused, Ready, HasSourceError, Ok, EndOfInput
<1>2. \/ b = Then(Eat([r EXCEPT !.depth = (@ - 1) % DepthMod]), LAMBDA a : Land(a, "EndObject"))
      \/ /\ r.ls.current = "\""
         /\ b = Then(ReadAnyOpen(r, TRUE), LAMBDA a : IF a.node = "Field" THEN a
                                                      ELSE Raise(a, "FIELD_TOO_LONG"))
      \/ b = No(r)
  BY Zenon DEF ReadFieldOrEndObject
<1>3. CASE b = Then(Eat([r EXCEPT !.depth = (@ - 1) % DepthMod]), LAMBDA a : Land(a, "EndObject"))
  <2>1. PICK d \in 0 .. DepthMod - 1 : d = (r.depth - 1) % DepthMod
    BY ReaderFields, DepthsWrap
  <2>2. PICK s : s = [r EXCEPT !.depth = d]
    OBVIOUS
  <2>3. Reader(s) /\ s.ls = r.ls
    BY <2>1, <2>2, DepthSet
  <2>4. b = Then(Eat(s), LAMBDA a : Land(a, "EndObject"))
    BY <1>3, <2>1, <2>2
  <2>5. "EndObject" \in Nodes
    BY Names
  <2>6. Came(s, b) /\ b.node # "Object"
    BY <1>1, <2>3, <2>4, <2>5, EndIs
  <2> QED BY <2>3, <2>6 DEF Came, Opens
<1>4. CASE /\ r.ls.current = "\""
           /\ b = Then(ReadAnyOpen(r, TRUE), LAMBDA a : IF a.node = "Field" THEN a
                                                        ELSE Raise(a, "FIELD_TOO_LONG"))
  <2>1. PICK t : t = TRUE
    OBVIOUS
  <2>2. PICK a : a = ReadAnyOpen(r, t)
    OBVIOUS
  <2>3. Came(r, a) /\ a.node # "Object"
    BY <1>1, <1>4, <2>2, ReadAnyOpenIs
  <2>4. b = a \/ b = Raise(a, "FIELD_TOO_LONG")
    BY <1>4, <2>1, <2>2 DEF Then
  <2>5. CASE b = Raise(a, "FIELD_TOO_LONG")
    <3>1. "FIELD_TOO_LONG" \in Errors /\ Reader(a)
      BY <2>3, ErrorNames DEF Came
    <3>2. Retold(a, b) /\ b.ls = a.ls /\ b.node = a.node /\ b.ok = FALSE
      BY <2>5, <3>1, RaiseIs
    <3> QED BY <2>3, <3>2 DEF Came, Retold, Midst, Opens
  <2> QED BY <2>3, <2>4, <2>5
<1>5. CASE b = No(r)
  <2>1. ~Eof(r.ls)
    BY DEF Eof, Ok, EndOfInput
  <2> QED BY <1>5, <2>1, NoIs, CameStill
<1> QED BY <1>2, <1>3, <1>4, <1>5

\* readValueOrEndArray: after the opening of an array.
LEMMA ReadValueOrEndArrayIs ==
  ASSUME NEW r, Reader(r), r.ls.state = Ok, Calm(r.ls), NEW b, b = ReadValueOrEndArray(r)
  PROVE  Came(r, b)
<1>1. r.ls.current # NUL /\ Ready(r)
  BY DEF Calm, Paused, Ready, HasSourceError, Ok, EndOfInput
<1>2. PICK f : f = FALSE
  OBVIOUS
<1>3. b = ReadEndArray(r) \/ b = ReadAnyOpen(r, f)
  BY <1>2 DEF ReadValueOrEndArray
<1> QED BY <1>1, <1>3, ReadEndArrayIs, ReadAnyOpenIs

-----------------------------------------------------------------------------
(* The next chunk of a value.                                                *)

\* What read() makes of any reader: the source may be out of room, or of
\* input without the lookahead telling, only in the middle of a value.
Led(r, b) ==
  /\ Reader(b)
  /\ Onward(r.ls, b.ls)
  /\ b.ls.state # Initial
  /\ Midst(b) \/ Settled(b.ls)
  /\ b.node = "Object" => ~Eof(b.ls)
  /\ b.ok => Ahead(r.ls, b.ls) \/ (r.node = "ValuePart" /\ b.node = "EndValuePart")

\* A calm source is settled.
LEMMA CalmIsSettled == \A l : Calm(l) => Settled(l)
  BY DEF Calm, Paused, Settled

\* A read from a calm source is a read.
LEMMA CameIsLed ==
  ASSUME NEW r, NEW b, Came(r, b), b.node = "Object" => r.node # "Object" \/ ~Eof(b.ls)
  PROVE  Led(r, b)
  BY DEF Came, Led, Paused, Settled, Eof, Opens

\* A step that gets ahead, or ends a chunked value, is a read.
LEMMA SteppedIsLed ==
  ASSUME NEW r, NEW b, Reader(b), Stepped(r.ls, b.ls), b.node # "Object",
         b.ok => Ahead(r.ls, b.ls) \/ (r.node = "ValuePart" /\ b.node = "EndValuePart")
  PROVE  Led(r, b)
  BY CalmIsSettled DEF Led, Stepped, Calm, Paused, Eof

\* The closing quote of a chunked string. It may succeed without anything
\* consumed only onto EndValuePart.
LEMMA CloseStringIs ==
  ASSUME NEW r, Reader(r), r.ls.state # Initial, NEW b, b = CloseString(r)
  PROVE  /\ Reader(b) /\ Stepped(r.ls, b.ls)
         /\ b.ok => b.node = "EndValuePart" \/ r.ls.captured # << >>
         /\ b.node \in {r.node, "Error", "EndValuePart"}
<1>1. PICK n : n = Advance(r.ls)
  OBVIOUS
<1>2. Stepped(r.ls, n) /\ Within(n) /\ Calm(n) /\ n.captured = r.ls.captured /\ Within(r.ls)
      /\ Onward(r.ls, n)
  BY <1>1, ReaderFields, AdvanceIsOnward, WithinOnward DEF Stepped
<1>3. PICK a : a = Arrive(r, n)
  OBVIOUS
<1>4. Reader(a) /\ a.ls = n /\ a.node \in {r.node, "Error"}
  BY <1>2, <1>3, ArriveIs, RetoldOn
<1>5. PICK s : s = [a EXCEPT !.lex.accept = 1]
  OBVIOUS
<1>6. Reader(s) /\ s.node = a.node
  <2>1. PICK y \in LexStates : y = a.lex
    BY <1>4, ReaderFields
  <2>2. PICK x : x = [y EXCEPT !.accept = 1]
    OBVIOUS
  <2>3. x \in LexStates
    BY <2>1, <2>2, Restarted
  <2>4. s = [a EXCEPT !.lex = x]
    BY <1>5, <2>1, <2>2
  <2> QED BY <1>4, <2>3, <2>4, LexSet
<1>7. PICK m : m = SkipWhiteSpace(n)
  OBVIOUS
<1>8. Stepped(n, m) /\ Within(m) /\ m.captured = n.captured
  BY <1>2, <1>7, SpaceStepped, WithinOnward DEF Stepped
<1>9. Stepped(r.ls, m)
  BY <1>2, <1>8, SteppedOn
<1>10. PICK c : c = Arrive(s, m)
  OBVIOUS
<1>11. Reader(c) /\ c.ls = m /\ c.node \in {a.node, "Error"}
  BY <1>6, <1>8, <1>10, ArriveIs, RetoldOn
<1>12. b = IF ~a.ok THEN a
           ELSE IF ~c.ok THEN c
           ELSE IF More(c.ls) /\ c.ls.current = ":" THEN Die(c, "FIELD_TOO_LONG")
           ELSE IF c.ls.captured = << >> THEN Land(c, "EndValuePart")
           ELSE c
  BY <1>1, <1>3, <1>4, <1>5, <1>7, <1>10 DEF CloseString, Then
<1>13. "FIELD_TOO_LONG" \in Errors /\ "EndValuePart" \in Nodes
  BY ErrorNames, Names
<1>14. PICK d, e : d = Die(c, "FIELD_TOO_LONG") /\ e = Land(c, "EndValuePart")
  OBVIOUS
<1>15. Reader(d) /\ d.ls = m /\ d.ok = FALSE /\ d.node = "Error"
  BY <1>11, <1>13, <1>14, DieIs, RetoldOn
<1>16. Reader(e) /\ e.ls = m /\ e.node = "EndValuePart"
  BY <1>11, <1>13, <1>14, LandIs, RetoldOn
<1>17. \/ b = a /\ ~b.ok
       \/ b = c /\ (b.ok => c.ls.captured # << >>)
       \/ b = d
       \/ b = e
  BY <1>12, <1>14
<1> QED BY <1>2, <1>4, <1>8, <1>9, <1>11, <1>15, <1>16, <1>17

\* The end of a part of a chunked string.
LEMMA EndStringPartIs ==
  ASSUME NEW l, Within(l), l.state # Initial, l.captured = << >>,
         NEW r, Reader(r), Onward(l, r.ls), r.ls.captured = << >> \/ Ahead(l, r.ls),
         r.node = "ValuePart", r.vtype = "String", r.lex.accept # 1,
         NEW b, b = EndStringPart(r)
  PROVE  /\ Reader(b) /\ Onward(l, b.ls) /\ (Midst(b) \/ Settled(b.ls)) /\ b.node \notin {Unread, "Object"}
         /\ b.ok => Ahead(l, b.ls) \/ b.node = "EndValuePart"
<1> DEFINE Ended == /\ Reader(b) /\ Onward(l, b.ls) /\ (Midst(b) \/ Settled(b.ls)) /\ b.node \notin {Unread, "Object"}
                    /\ b.ok => Ahead(l, b.ls) \/ b.node = "EndValuePart"
<1>1. r.ls.state # Initial /\ Within(r.ls) /\ r.node \notin {Unread, "Object"} /\ Midst(r)
  BY WithinOnward DEF Onward, Midst, Unread
<1>2. ASSUME Retold(r, b), b.ls = r.ls, b.node = r.node,
             b.ok => Ahead(l, r.ls)
      PROVE  Ended
  BY <1>1, <1>2 DEF Retold, Midst
<1>3. CASE ~HasRoom(r.ls)
  <2>1. b = Yes(r)
    BY <1>3, Zenon DEF EndStringPart
  <2>2. Ahead(l, r.ls)
    BY <1>3, EmptyHasRoom
  <2> QED BY <1>2, <2>1, <2>2, YesIs
<1>4. CASE HasRoom(r.ls) /\ HasSourceError(r.ls)
  <2>1. b = SourceFailed(r)
    BY <1>4, Zenon DEF EndStringPart
  <2>2. Retold(r, b) /\ b.ls = r.ls /\ b.node \in {r.node, "Error"} /\ b.ok = FALSE
        /\ (r.ls.state = OutOfMemory => b.node = r.node)
    BY <2>1, SourceFailedIs
  <2>3. CASE b.node = r.node
    BY <1>2, <2>2, <2>3
  <2>4. CASE b.node # r.node
    <3>1. Settled(b.ls)
      BY <1>4, <2>2, <2>4 DEF Settled, HasSourceError, EndOfInput, Ok
    <3>2. b.node \notin {Unread, "Object"} /\ Reader(b)
      BY <1>1, <2>2, RetoldOn DEF Unread
    <3> QED BY <2>2, <3>1, <3>2
  <2> QED BY <2>3, <2>4
<1>5. CASE HasRoom(r.ls) /\ ~HasSourceError(r.ls) /\ r.ls.current # "\""
  <2>1. b = Raise(r, "UNTERMINATED_STRING")
    BY <1>5, Zenon DEF EndStringPart
  <2>2. "UNTERMINATED_STRING" \in Errors
    BY ErrorNames
  <2>3. Retold(r, b) /\ b.ls = r.ls /\ b.node = r.node /\ b.ok = FALSE
    BY <2>1, <2>2, RaiseIs
  <2> QED BY <1>2, <2>3
<1>6. CASE HasRoom(r.ls) /\ ~HasSourceError(r.ls) /\ r.ls.current = "\""
  <2>1. b = CloseString(r)
    BY <1>6, Zenon DEF EndStringPart
  <2>2. /\ Reader(b) /\ Stepped(r.ls, b.ls)
        /\ b.ok => b.node = "EndValuePart" \/ r.ls.captured # << >>
    BY <1>1, <2>1, CloseStringIs
  <2>3. Onward(l, b.ls) /\ (Ahead(l, r.ls) => Ahead(l, b.ls))
    BY <2>2, SteppedOn DEF Stepped
  <2>4. b.node \notin {Unread, "Object"}
    <3>1. b.node \in {r.node, "Error", "EndValuePart"}
      BY <1>1, <2>1, CloseStringIs
    <3> QED BY <1>1, <3>1 DEF Unread
  <2> QED BY <2>2, <2>3, <2>4, CalmIsSettled DEF Stepped
<1> QED BY <1>3, <1>4, <1>5, <1>6

\* The next part of a chunked string.
LEMMA ReadStringPartIs ==
  ASSUME NEW r, Reader(r), r.ls.state \in {Ok, OutOfMemory}, Midst(r) \/ Settled(r.ls),
         r.node = "ValuePart", r.vtype = "String", NEW b, b = ReadStringPart(r)
  PROVE  Led(r, b) /\ b.node \notin {Unread, "Object"}
<1>1. PICK l : l = ClearCapture(r.ls)
  OBVIOUS
<1>2. Within(r.ls) /\ Within(l) /\ Onward(r.ls, l) /\ l.state = Ok /\ l.captured = << >>
      /\ l.current = r.ls.current /\ l.state # Initial /\ r.ls.state # Initial
  <2>1. Within(r.ls)
    BY ReaderFields
  <2>2. Onward(r.ls, l) /\ l.current = r.ls.current /\ l.captured = << >>
        /\ l.state = (IF r.ls.state = OutOfMemory THEN Ok ELSE r.ls.state)
    BY <1>1, <2>1, ClearCaptureKeeps
  <2>3. l.state = Ok
    BY <2>2
  <2>4. l.state # Initial /\ r.ls.state # Initial
    BY <2>3 DEF Ok, OutOfMemory, Initial
  <2> QED BY <2>1, <2>2, <2>3, <2>4, WithinOnward
<1>3. CASE r.lex.accept = 1
  <2>1. PICK q : q = On(r, l)
    OBVIOUS
  <2>2. Reader(q) /\ q.ls = l
    BY <1>2, <2>1, OnIs, RetoldOn
  <2>3. b = Land(q, "EndValuePart")
    BY <1>1, <1>3, <2>1 DEF ReadStringPart
  <2>4. "EndValuePart" \in Nodes
    BY Names
  <2>5. Reader(b) /\ b.ls = l /\ b.node = "EndValuePart"
    <3>1. Retold(q, Land(q, "EndValuePart")) /\ Land(q, "EndValuePart").ls = q.ls
          /\ Land(q, "EndValuePart").node = "EndValuePart"
      BY <2>2, <2>4, LandIs
    <3> QED BY <2>2, <2>3, <3>1, RetoldOn
  <2>6. Settled(l)
    <3>1. Settled(r.ls)
      BY <1>3 DEF Midst
    <3> QED BY <1>2, <3>1 DEF Settled, Ok, OutOfMemory
  <2>7. b.node \notin {Unread, "Object"}
    BY <2>5 DEF Unread
  <2> QED BY <1>2, <2>5, <2>6, <2>7 DEF Led
<1>4. CASE r.lex.accept # 1
  <2>1. PICK n : n = StringPart(l)
    OBVIOUS
  <2>2. Onward(l, n) /\ (n.captured = << >> \/ Ahead(l, n)) /\ Within(n)
    BY <1>2, <2>1, StringPartKeeps, WithinOnward
  <2>3. PICK q : q = On(r, n)
    OBVIOUS
  <2>4. Retold(r, q) /\ Reader(q) /\ q.ls = n /\ q.node = r.node
    BY <2>2, <2>3, OnIs, RetoldOn
  <2>5. q.vtype = "String" /\ q.lex.accept # 1 /\ q.node = "ValuePart"
    BY <1>4, <2>4 DEF Retold
  <2>6. b = EndStringPart(q)
    BY <1>1, <1>4, <2>1, <2>3 DEF ReadStringPart
  <2>7. /\ Reader(b) /\ Onward(l, b.ls) /\ (Midst(b) \/ Settled(b.ls)) /\ b.node \notin {Unread, "Object"}
        /\ b.ok => Ahead(l, b.ls) \/ b.node = "EndValuePart"
    BY <1>2, <2>2, <2>4, <2>5, <2>6, EndStringPartIs
  <2>8. Onward(r.ls, b.ls) /\ (Ahead(l, b.ls) => Ahead(r.ls, b.ls)) /\ b.ls.state # Initial
    BY <1>2, <2>7, OnwardIsOrder DEF Onward
  <2> QED BY <2>7, <2>8 DEF Led
<1> QED BY <1>3, <1>4

\* The end of a part of a chunked number or literal.
LEMMA EndLexedPartIs ==
  ASSUME NEW r, Reader(r), r.ls.state # OutOfMemory, r.ls.state # Initial, r.node = "ValuePart",
         NEW b, b = EndLexedPart(r)
  PROVE  /\ Reader(b) /\ Onward(r.ls, b.ls) /\ Settled(b.ls) /\ b.node \notin {Unread, "Object"}
         /\ b.ok => b.node = "EndValuePart"
<1>1. Within(r.ls) /\ Onward(r.ls, r.ls) /\ r.node \notin {Unread, "Object"}
  BY ReaderFields, OnwardIsOrder DEF Unread
<1>2. CASE HasSourceError(r.ls) /\ r.vtype \in {"Null", "Boolean"}
  <2>1. b = SourceFailed(r)
    BY <1>2 DEF EndLexedPart
  <2>2. Retold(r, b) /\ b.ls = r.ls /\ b.node \in {r.node, "Error"} /\ b.ok = FALSE
    BY <2>1, SourceFailedIs
  <2>3. Settled(r.ls)
    BY <1>2 DEF Settled, HasSourceError, EndOfInput, Ok
  <2>4. b.node \notin {Unread, "Object"} /\ Reader(b)
    BY <1>1, <2>2, RetoldOn DEF Unread
  <2> QED BY <1>1, <2>2, <2>3, <2>4
<1>3. CASE /\ ~ (HasSourceError(r.ls) /\ r.vtype \in {"Null", "Boolean"})
           /\ Delimited(r.ls) /\ r.lex.accept # 0
  <2>1. PICK m : m = IF r.vtype \in {"Null", "Boolean"} THEN r ELSE Numbered(r)
    OBVIOUS
  <2>2. Reader(m) /\ m.ls = r.ls
    BY <2>1, NumberedIs
  <2>3. b = Land(m, "EndValuePart")
    BY <1>3, <2>1 DEF EndLexedPart
  <2>4. "EndValuePart" \in Nodes
    BY Names
  <2>5. Reader(b) /\ b.ls = r.ls /\ b.node = "EndValuePart"
    <3>1. Retold(m, Land(m, "EndValuePart")) /\ Land(m, "EndValuePart").ls = m.ls
          /\ Land(m, "EndValuePart").node = "EndValuePart"
      BY <2>2, <2>4, LandIs
    <3> QED BY <2>2, <2>3, <3>1, RetoldOn
  <2>6. Settled(r.ls)
    <3>1. Eof(r.ls) \/ r.ls.current \in Closers
      BY <1>3 DEF Delimited
    <3>2. NUL \notin Closers
      BY DEF NUL, Closers
    <3> QED BY <3>1, <3>2 DEF Settled, Eof, EndOfInput, Ok
  <2>7. b.node \notin {Unread, "Object"}
    BY <2>5 DEF Unread
  <2> QED BY <1>1, <2>5, <2>6, <2>7
<1>4. CASE /\ ~ (HasSourceError(r.ls) /\ r.vtype \in {"Null", "Boolean"})
           /\ ~ (Delimited(r.ls) /\ r.lex.accept # 0)
  <2>1. b = Raise(RecoverValue(r), "INVALID_VALUE")
    BY <1>4 DEF EndLexedPart
  <2>2. Reader(b) /\ Stepped(r.ls, b.ls) /\ b.ok = FALSE /\ b.node \in {"Value", "Error"}
    BY <2>1, GivenUp, RetoldOn
  <2>3. b.node \notin {Unread, "Object"}
    BY <2>2 DEF Unread
  <2> QED BY <2>2, <2>3, CalmIsSettled DEF Stepped
<1> QED BY <1>2, <1>3, <1>4

\* The value that a run goes on with.
LEMMA RanLed ==
  ASSUME NEW r, Reader(r), r.ls.state \in {Ok, OutOfMemory}, r.node = "ValuePart",
         r.vtype # "String", NEW l, l = ClearCapture(r.ls), NEW run \in Runs(l),
         NEW q, q = RanTo(r, run), NEW b,
         b = IF run.ls.state = OutOfMemory THEN Land(q, "ValuePart")
             ELSE IF HasSourceError(run.ls) THEN No(RecoverValue(SourceFailed(q)))
             ELSE EndLexedPart(On(q, SkipWhiteSpace(run.ls)))
  PROVE  Led(r, b) /\ b.node \notin {Unread, "Object"}
<1>1. Within(r.ls) /\ Within(l) /\ Onward(r.ls, l) /\ l.state # Initial /\ r.ls.state # Initial
  BY ReaderFields, ClearCaptureKeeps, WithinOnward DEF Ok, OutOfMemory, Initial, Onward
<1>2. /\ Reader(q) /\ q.ls = run.ls /\ q.node = r.node /\ q.vtype = r.vtype
      /\ Onward(r.ls, q.ls) /\ (Ahead(l, run.ls) => Ahead(r.ls, q.ls)) /\ Within(q.ls)
  BY <1>1, RanIs
<1>3. run.ls.state # Initial /\ (run.ls.state = OutOfMemory => Ahead(r.ls, q.ls))
  BY <1>1, <1>2 DEF Runs, Onward
<1>4. CASE run.ls.state = OutOfMemory
  <2>1. b = Land(q, "ValuePart")
    BY <1>4
  <2>2. "ValuePart" \in Nodes
    BY Names
  <2>3. Retold(q, Land(q, "ValuePart")) /\ Land(q, "ValuePart").ls = q.ls
        /\ Land(q, "ValuePart").node = "ValuePart"
    BY <1>2, <2>2, LandIs
  <2>4. Reader(b) /\ b.ls = q.ls /\ b.node = "ValuePart" /\ b.vtype # "String"
    BY <1>2, <2>1, <2>3 DEF Retold
  <2>5. b.node \notin {Unread, "Object"}
    BY <2>4 DEF Unread
  <2> QED BY <1>2, <1>3, <1>4, <2>4, <2>5 DEF Led, Midst
<1>5. CASE run.ls.state # OutOfMemory /\ HasSourceError(run.ls)
  <2>1. b = No(RecoverValue(SourceFailed(q)))
    BY <1>5
  <2>2. Retold(q, b) /\ Stepped(q.ls, b.ls) /\ b.ok = FALSE /\ b.node \in {"Value", "Error"}
    BY <1>2, <2>1, GivenUp
  <2>3. b.node \notin {Unread, "Object"}
    BY <2>2 DEF Unread
  <2> QED BY <1>1, <1>2, <2>2, <2>3, RetoldOn, SteppedOn, SteppedIsLed
<1>6. CASE run.ls.state # OutOfMemory /\ ~HasSourceError(run.ls)
  <2>1. PICK n : n = SkipWhiteSpace(run.ls)
    OBVIOUS
  <2>2. Onward(run.ls, n) /\ Within(n) /\ n.state # OutOfMemory /\ n.state # Initial
    BY <1>2, <1>3, <1>6, <2>1, SkipWhiteSpaceKeeps, WithinOnward DEF Calm, Onward
  <2>3. PICK c : c = On(q, n)
    OBVIOUS
  <2>4. Reader(c) /\ c.ls = n /\ c.node = "ValuePart"
    BY <1>2, <2>2, <2>3, OnIs, RetoldOn
  <2>5. b = EndLexedPart(c)
    BY <1>6, <2>1, <2>3
  <2>6. /\ Reader(b) /\ Onward(n, b.ls) /\ Settled(b.ls) /\ b.node \notin {Unread, "Object"}
        /\ b.ok => b.node = "EndValuePart"
    BY <2>2, <2>4, <2>5, EndLexedPartIs
  <2>7. Onward(run.ls, b.ls)
    BY <1>2, <2>2, <2>6, OnwardIsOrder
  <2>8. Onward(r.ls, b.ls) /\ b.ls.state # Initial
    BY <1>1, <1>2, <2>7, OnwardIsOrder DEF Onward
  <2> QED BY <2>6, <2>8 DEF Led
<1> QED BY <1>4, <1>5, <1>6

\* readValuePart, for a string, a number or a literal.
LEMMA ReadValuePartIs ==
  ASSUME NEW r, Reader(r), r.ls.state \in {Ok, OutOfMemory}, Midst(r) \/ Settled(r.ls),
         r.node = "ValuePart", NEW b, b = ReadValuePart(r)
  PROVE  Led(r, b) /\ b.node \notin {Unread, "Object"}
<1>1. \/ r.vtype = "String" /\ b = ReadStringPart(r)
      \/ r.vtype \in {"Real", "Integer"} /\ b = ReadNumberPart(r)
      \/ r.vtype \in {"Null", "Boolean"} /\ b = ReadLiteralPart(r)
      \/ b = No(RecoverValue(Raise(r, "INVALID_VALUE")))
  BY Zenon DEF ReadValuePart
<1>2. PICK l : l = ClearCapture(r.ls)
  OBVIOUS
<1>3. Within(r.ls) /\ Within(l) /\ l.state = Ok /\ l.captured = << >> /\ r.ls.state # Initial
  <2>1. Within(r.ls)
    BY ReaderFields
  <2>2. Onward(r.ls, l) /\ l.captured = << >>
        /\ l.state = (IF r.ls.state = OutOfMemory THEN Ok ELSE r.ls.state)
    BY <1>2, <2>1, ClearCaptureKeeps
  <2>3. l.state = Ok
    BY <2>2
  <2>4. r.ls.state # Initial
    BY DEF Ok, OutOfMemory, Initial
  <2> QED BY <2>1, <2>2, <2>3, <2>4, WithinOnward
<1>4. PICK st \in LexStates : st = r.lex
  BY ReaderFields
<1>5. CASE r.vtype \in {"Real", "Integer"} /\ b = ReadNumberPart(r)
  <2>1. PICK run : run = LexAll(LexNumber, l, st)
    OBVIOUS
  <2>2. run \in Runs(l)
    BY <1>3, <1>4, <2>1, NumberRun
  <2>3. PICK q : q = RanTo(r, run)
    OBVIOUS
  <2>4. b = IF run.ls.state = OutOfMemory THEN Land(q, "ValuePart")
            ELSE IF HasSourceError(run.ls) THEN No(RecoverValue(SourceFailed(q)))
            ELSE EndLexedPart(On(q, SkipWhiteSpace(run.ls)))
    BY <1>2, <1>4, <1>5, <2>1, <2>3 DEF ReadNumberPart, Lexed, RanTo
  <2>5. r.vtype # "String"
    BY <1>5
  <2> QED BY <1>2, <2>2, <2>3, <2>4, <2>5, RanLed
<1>6. CASE r.vtype \in {"Null", "Boolean"} /\ b = ReadLiteralPart(r)
  <2>1. PICK run : run = LexAll(LexLiteral, l, st)
    OBVIOUS
  <2>2. run \in Runs(l)
    BY <1>3, <1>4, <2>1, LiteralRun
  <2>3. PICK q : q = RanTo(r, run)
    OBVIOUS
  <2>4. b = IF run.ls.state = OutOfMemory THEN Land(q, "ValuePart")
            ELSE IF HasSourceError(run.ls) THEN No(RecoverValue(SourceFailed(q)))
            ELSE EndLexedPart(On(q, SkipWhiteSpace(run.ls)))
    BY <1>2, <1>4, <1>6, <2>1, <2>3 DEF ReadLiteralPart, Lexed, RanTo
  <2>5. r.vtype # "String"
    BY <1>6
  <2> QED BY <1>2, <2>2, <2>3, <2>4, <2>5, RanLed
<1>7. CASE b = No(RecoverValue(Raise(r, "INVALID_VALUE")))
  <2>1. Reader(b) /\ Stepped(r.ls, b.ls) /\ b.ok = FALSE /\ b.node \in {"Value", "Error"}
    BY <1>7, GivenUp, RetoldOn
  <2>2. b.node \notin {Unread, "Object"}
    BY <2>1 DEF Unread
  <2> QED BY <2>1, <2>2, SteppedIsLed
<1> QED BY <1>1, <1>5, <1>6, <1>7, ReadStringPartIs

-----------------------------------------------------------------------------
(* read().                                                                   *)

\* A reader between two calls: what every one of them starts from and leaves.
Fit(r) ==
  /\ Reader(r)
  /\ r.ls.state = Initial => r.node = Unread
  /\ Midst(r) \/ Settled(r.ls)

\* A read leaves the reader fit.
LEMMA LedIsFit ==
  ASSUME NEW r, NEW b, Led(r, b)
  PROVE  Fit(b)
  BY DEF Led, Fit

\* What is led on from a reader further on is led on from the first.
LEMMA LedOn ==
  ASSUME NEW r, Within(r.ls), NEW a, Onward(r.ls, a.ls), a.node = "ValuePart" => r.node = "ValuePart",
         NEW b, Led(a, b)
  PROVE  Led(r, b)
  BY OnwardIsOrder DEF Led

\* ensureStarted: a source not started is started, and any other is left alone.
LEMMA BeginIs ==
  ASSUME NEW r, Fit(r), NEW b, b = Begin(r)
  PROVE  /\ Retold(r, b) /\ Onward(r.ls, b.ls) /\ b.ls.state # Initial
         /\ r.ls.state # Initial => b.ok /\ b.ls = r.ls
         /\ r.ls.state = Initial => Calm(b.ls)
         /\ b.ok => b.node = r.node
         /\ ~b.ok => b.node \notin {"ValuePart", "Object"} /\ Calm(b.ls)
<1>1. PICK l : l = EnsureStarted(r.ls)
  OBVIOUS
<1>2. /\ Onward(r.ls, l) /\ l.state # Initial /\ Within(l)
      /\ r.ls.state = Initial => Calm(l)
      /\ r.ls.state # Initial => l = r.ls
  BY <1>1, ReaderFields, EnsureStartedKeeps, WithinOnward DEF Fit
<1>3. PICK o : o = On(r, l)
  OBVIOUS
<1>4. Retold(r, o) /\ Reader(o) /\ o.ls = l /\ o.node = r.node
  BY <1>2, <1>3, OnIs, RetoldOn DEF Fit
<1>5. PICK started \in BOOLEAN : started = Started(r.ls, l)
  BY DEF Started
<1>6. b = Begun(o, started)
  BY <1>1, <1>3, <1>5 DEF Begin
<1>7. r.ls.state # Initial => started
  BY <1>5 DEF Started
<1>8. CASE started
  <2>1. b = Yes(o)
    BY <1>6, <1>8, Zenon DEF Begun
  <2>2. Retold(o, b) /\ b.ls = o.ls /\ b.node = o.node /\ b.ok = TRUE
    BY <1>4, <2>1, YesIs
  <2> QED BY <1>2, <1>4, <2>2, RetoldOn
<1>9. CASE ~started /\ HasSourceError(l)
  <2>1. b = SourceFailed(o)
    BY <1>4, <1>6, <1>9, Zenon DEF Begun
  <2>2. Retold(o, b) /\ b.ls = o.ls /\ b.node \in {o.node, "Error"} /\ b.ok = FALSE
    BY <1>4, <2>1, SourceFailedIs
  <2>3. b.node \notin {"ValuePart", "Object"}
    BY <1>4, <1>7, <1>9, <2>2 DEF Fit, Unread
  <2> QED BY <1>2, <1>4, <1>7, <1>9, <2>2, <2>3, RetoldOn
<1>10. CASE ~started /\ ~HasSourceError(l)
  <2>1. "EndDocument" \in Nodes
    BY Names
  <2>2. PICK e : e = [o EXCEPT !.node = "EndDocument"]
    OBVIOUS
  <2>3. Retold(o, e) /\ e.ls = l /\ e.node = "EndDocument"
    BY <1>4, <2>1, <2>2, NodeSet DEF Retold
  <2>4. b = No(e)
    BY <1>4, <1>6, <1>10, <2>2, Zenon DEF Begun
  <2>5. Retold(e, b) /\ b.ls = l /\ b.node = "EndDocument" /\ b.ok = FALSE
    BY <2>3, <2>4, NoIs, RetoldOn
  <2>6. b.node \notin {"ValuePart", "Object"}
    BY <2>5
  <2> QED BY <1>2, <1>4, <1>7, <1>10, <2>3, <2>5, <2>6, RetoldOn
<1> QED BY <1>8, <1>9, <1>10

\* A source at the end of its input that is on a character, as a failed search
\* leaves it, has none: an automaton that is started on it accepts nothing.
LEMMA RunAtEnd ==
  ASSUME NEW l, Within(l), Eof(l), l.captured = << >>, NEW st \in LexStates, st.state = 0,
         NEW run, run = LexAll(LexNumber, l, st) \/ (st.accept = 0 /\ run = LexAll(LexLiteral, l, st))
  PROVE  Within(run.ls) /\ Onward(l, run.ls) /\ Eof(run.ls) /\ run.st \in LexStates /\ run.st.accept = 0
<1> DEFINE start == [ok |-> TRUE, ls |-> l, st |-> st]
           All == [ok : BOOLEAN, ls : SourcesOf(l.in), st : LexStates]
           Over == {a \in All : /\ ~a.ok /\ Within(a.ls) /\ Onward(l, a.ls) /\ Eof(a.ls)
                                /\ a.st.accept = 0}
<1>1. PICK n : n = Capture(l, l.current)
  OBVIOUS
<1>2. Within(n) /\ Onward(l, n) /\ Eof(n) /\ n \in SourcesOf(l.in) /\ HasRoom(l) /\ ~More(l)
  <2>1. l.current \in Symbols(l.in) /\ l.state = EndOfInput /\ HasRoom(l)
    BY WithinTypes, EmptyHasRoom DEF Eof
  <2>2. Within(n) /\ n.in = l.in /\ n.kind = l.kind /\ n.at = l.at /\ n.current = l.current
        /\ n.state = l.state
    BY <1>1, <2>1, CaptureKeeps
  <2>3. Cur(n) = Cur(l) /\ Cur(l) \in Nat /\ Eof(n)
    BY <2>1, <2>2, WithinTypes DEF Cur, Eof
  <2>4. Onward(l, n)
    BY <2>1, <2>2, <2>3 DEF Onward, EndOfInput, Initial
  <2>5. ~More(l)
    BY <2>1 DEF More, EndOfInput, Ok, Initial
  <2> QED BY <2>1, <2>2, <2>3, <2>4, <2>5, WithinTypes
<1>3. start \in All /\ start.ok /\ start.ls = l /\ start.st = st
  BY WithinTypes
<1>4. Left(l) \in Nat
  BY LeftIsNat
<1>5. ASSUME NEW u, NEW s \in LexStates, s.accept = 0, u = [ok |-> FALSE, ls |-> n, st |-> s]
      PROVE  u \in Over
  BY <1>2, <1>5
<1> HIDE DEF start
<1>6. CASE run = LexAll(LexNumber, l, st)
  <2>1. PICK s : s = NoNumber(st)
    OBVIOUS
  <2>2. s \in LexStates /\ s.accept = 0 /\ s.state = 0
    BY <2>1, NoNumberIs
  <2>3. NumberTurn(start) = [ok |-> FALSE, ls |-> n, st |-> s]
    <3>1. NumberAccept(s.state) = 0
      <4>1. ~(s.state \in {2, 8}) /\ ~(s.state \in {4, 7})
        BY <2>2
      <4> QED BY <4>1, Zenon DEF NumberAccept
    <3>2. PICK q : q = NumberMove(s.state, l.current)
      OBVIOUS
    <3>3. NumberTurn(start) = LexCall(l, s, q, NumberAccept(s.state), NumberSeen(s, l.current, q))
      BY <1>3, <2>1, <3>2 DEF NumberTurn, LexNumber, Lex, LexCall
    <3> QED BY <1>1, <1>2, <3>1, <3>3 DEF LexCall
  <2>4. NumberTurn(start) \in Over
    BY <1>5, <2>2, <2>3
  <2>5. \A a \in Over : a.ok => NumberTurn(a) \in Over
    OBVIOUS
  <2>6. run = NumberRunning!WhileOk(NumberTurn, start, Left(l))
    BY <1>6 DEF LexAll, WhileOk, Repeat, NumberRunning!WhileOk, NumberRunning!Repeat, NumberTurn, start
  <2> HIDE DEF Over
  <2>7. run \in Over
    BY <1>3, <1>4, <2>4, <2>5, <2>6, NumberRunning!LoopGoesRound
  <2> QED BY <2>7 DEF Over
<1>7. CASE st.accept = 0 /\ run = LexAll(LexLiteral, l, st)
  <2>3. LiteralTurn(start) = [ok |-> FALSE, ls |-> n, st |-> st]
    <3>1. LiteralAccept(st.state) = 0
      <4>1. ~(st.state = 4) /\ ~(st.state = 8) /\ ~(st.state = 13)
        OBVIOUS
      <4> QED BY <4>1, Zenon DEF LiteralAccept
    <3>2. PICK q : q = LiteralMove(st.state, l.current)
      OBVIOUS
    <3>3. LiteralTurn(start) = LexCall(l, st, q, LiteralAccept(st.state), st)
      BY <1>3, <3>2 DEF LiteralTurn, LexLiteral, Lex, LiteralSeen, LexCall
    <3> QED BY <1>1, <1>2, <3>1, <3>3 DEF LexCall
  <2>4. LiteralTurn(start) \in Over
    BY <1>5, <1>7, <2>3
  <2>5. \A a \in Over : a.ok => LiteralTurn(a) \in Over
    OBVIOUS
  <2>6. run = LiteralRunning!WhileOk(LiteralTurn, start, Left(l))
    BY <1>7 DEF LexAll, WhileOk, Repeat, LiteralRunning!WhileOk, LiteralRunning!Repeat, LiteralTurn, start
  <2> HIDE DEF Over
  <2>7. run \in Over
    BY <1>3, <1>4, <2>4, <2>5, <2>6, LiteralRunning!LoopGoesRound
  <2> QED BY <2>7 DEF Over
<1> QED BY <1>6, <1>7

\* So what is left after the automaton is no value.
LEMMA NoScalarAtEnd ==
  ASSUME NEW r, Reader(r), Eof(r.ls), NEW b, b = OpenNumber(r) \/ b = OpenLiteral(r)
  PROVE  /\ Reader(b) /\ Onward(r.ls, b.ls) /\ b.ls.state # Initial /\ Settled(b.ls) /\ ~b.ok
         /\ b.node \in {r.node, "Error", "Value"}
<1>1. PICK l : l = ClearCapture(r.ls)
  OBVIOUS
<1>2. Within(r.ls) /\ Within(l) /\ Onward(r.ls, l) /\ Eof(l) /\ l.captured = << >>
  BY <1>1, ReaderFields, ClearCaptureKeeps, WithinOnward DEF Eof, EndOfInput, OutOfMemory
<1>3. PICK v, st, run :
        /\ v \in ValueTypes /\ st \in LexStates /\ st.state = 0
        /\ \/ /\ v = "Integer" /\ st = [r.lex EXCEPT !.state = 0]
              /\ b = OpenNumber(r) /\ run = LexAll(LexNumber, l, st)
           \/ /\ v = LiteralType(r.ls.current) /\ st = [r.lex EXCEPT !.state = 0, !.accept = 0]
              /\ st.accept = 0 /\ b = OpenLiteral(r) /\ run = LexAll(LexLiteral, l, st)
  <2>1. PICK x \in LexStates : x = r.lex
    BY ReaderFields
  <2>2. PICK n, m : n = [x EXCEPT !.state = 0] /\ m = [x EXCEPT !.state = 0, !.accept = 0]
    OBVIOUS
  <2>3. n \in LexStates /\ n.state = 0 /\ m \in LexStates /\ m.state = 0 /\ m.accept = 0
    BY <2>1, <2>2, Restarted
  <2>4. "Integer" \in ValueTypes /\ LiteralType(r.ls.current) \in ValueTypes
    BY DEF ValueTypes, LiteralType
  <2> QED BY <2>1, <2>2, <2>3, <2>4
<1>4. PICK s : s = [r EXCEPT !.vtype = v]
  OBVIOUS
<1>5. Reader(s) /\ s.ls = r.ls /\ s.node = r.node
  <2>1. v \in ValueTypes
    BY <1>3
  <2> QED BY <1>4, <2>1, VtypeSet
<1>6. Within(run.ls) /\ Onward(l, run.ls) /\ Eof(run.ls) /\ run.st \in LexStates /\ run.st.accept = 0
  BY <1>2, <1>3, RunAtEnd
<1>7. PICK q : q = RanTo(s, run)
  OBVIOUS
<1>8. Reader(q) /\ q.ls = run.ls /\ q.lex = run.st /\ q.node = r.node
  <2>1. Onward(r.ls, run.ls) /\ run.ls \in SourcesOf(run.ls.in)
    BY <1>2, <1>6, OnwardIsOrder, WithinTypes
  <2>2. run.ls.in = s.ls.in /\ run.ls.kind = s.ls.kind
    BY <1>5, <2>1 DEF Onward
  <2>3. q \in ReadersOf(run.ls.in) /\ q.ls = run.ls /\ q.lex = run.st /\ q.node = r.node
    BY <1>5, <1>6, <1>7, <2>1, <2>2 DEF RanTo, Reader, ReadersOf
  <2> QED BY <1>6, <2>3 DEF Reader
<1>9. PICK n : n = SkipWhiteSpace(run.ls)
  OBVIOUS
<1>10. Onward(r.ls, n) /\ Within(n) /\ Settled(n) /\ n.state # Initial
  <2>1. Onward(run.ls, n) /\ (n = run.ls \/ Calm(n))
    BY <1>6, <1>9, SkipWhiteSpaceKeeps
  <2>2. Onward(r.ls, n) /\ Within(n)
    BY <1>2, <1>6, <2>1, OnwardIsOrder
  <2> QED BY <1>6, <2>1, <2>2, CalmIsSettled
          DEF Settled, Calm, Paused, Eof, EndOfInput, OutOfMemory, Ok, Initial
<1>11. PICK c : c = On(q, n)
  OBVIOUS
<1>12. Reader(c) /\ c.ls = n /\ c.node = r.node /\ c.lex.accept = 0
  <2>1. Onward(q.ls, n)
    BY <1>6, <1>8, <1>9, SkipWhiteSpaceKeeps
  <2>2. Reader(c) /\ c.ls = n /\ c.node = q.node
    BY <1>8, <1>11, <2>1, <1>10, OnIs, RetoldOn
  <2>3. c.lex = q.lex
    BY <1>8, <1>11 DEF On, Reader, ReadersOf
  <2> QED BY <1>6, <1>8, <2>2, <2>3
<1>13. run.ls.state # OutOfMemory /\ ~HasSourceError(run.ls)
  BY <1>6 DEF Eof, EndOfInput, OutOfMemory, HasSourceError
<1>14. b \in {NumberEnd(c), LiteralEnd(c)}
  BY <1>1, <1>3, <1>4, <1>7, <1>9, <1>11, <1>13 DEF OpenNumber, OpenLiteral, Lexed, RanTo
<1>15. CASE b = NumberEnd(c)
  <2>1. CASE HasSourceError(c.ls)
    <3>1. ~ Delimited(c.ls)
      BY <2>1 DEF Delimited
    <3>2. b = SourceFailed(c)
      BY <1>15, <2>1, <3>1, Zenon DEF NumberEnd
    <3> QED BY <1>10, <1>12, <3>2, SourceFailedIs, RetoldOn
  <2>2. CASE ~HasSourceError(c.ls)
    <3>1. b = Raise(c, "INVALID_VALUE")
      BY <1>12, <1>15, <2>2, Zenon DEF NumberEnd
    <3>2. "INVALID_VALUE" \in Errors
      BY ErrorNames
    <3> QED BY <1>10, <1>12, <3>1, <3>2, RaiseIs, RetoldOn
  <2> QED BY <2>1, <2>2
<1>16. CASE b = LiteralEnd(c)
  <2>1. b = Raise(RecoverValue(c), "INVALID_VALUE")
    BY <1>12, <1>16 DEF LiteralEnd
  <2>2. Retold(c, b) /\ Stepped(n, b.ls) /\ b.ok = FALSE /\ b.node \in {"Value", "Error"}
    BY <1>12, <2>1, GivenUp
  <2>3. Onward(r.ls, b.ls)
    BY <1>2, <1>10, <2>2, OnwardIsOrder DEF Stepped
  <2> QED BY <1>12, <2>2, <2>3, RetoldOn, CalmIsSettled DEF Stepped, Calm, Paused
<1> QED BY <1>14, <1>15, <1>16

\* readAnyOpen at the end of the input: it may be on a character of before, and
\* what that opens has no more to it.
LEMMA ReadAnyOpenAtEnd ==
  ASSUME NEW reader, Reader(reader), Eof(reader.ls), reader.node = Unread, NEW fields,
         NEW b, b = ReadAnyOpen(reader, fields)
  PROVE  Led(reader, b)
<1> DEFINE Ended == /\ Reader(b) /\ Onward(reader.ls, b.ls) /\ b.ls.state # Initial /\ Settled(b.ls)
                    /\ ~b.ok /\ b.node \in {Unread, "Error", "Value"}
<1>1. PICK r : r = [reader EXCEPT !.vtype = "Undefined"]
  OBVIOUS
<1>2. Reader(r) /\ r.ls = reader.ls /\ r.node = Unread
  <2>1. "Undefined" \in ValueTypes
    BY DEF ValueTypes
  <2> QED BY <1>1, <2>1, VtypeSet
<1>3. \/ b = OpenArray(r)
      \/ b = OpenObject(r)
      \/ b = OpenNumber(r) \/ b = OpenLiteral(r)
      \/ b = OpenString(r, fields)
      \/ b = No(RecoverValue(Raise(r, "INVALID_VALUE")))
  <2>1. Opening(r, fields, b)
    BY <1>1, OpeningsOf
  <2> QED BY <2>1 DEF Opening
<1>4. /\ Within(r.ls)
      /\ \A l : Within(l) /\ Eof(l) =>
           LET n == Advance(l) IN Within(n) /\ Onward(l, n) /\ Calm(n) /\ n.state = EndOfInput
  <2>1. ASSUME NEW l, Within(l), Eof(l), NEW n, n = Advance(l)
        PROVE  Within(n) /\ Onward(l, n) /\ Calm(n) /\ n.state = EndOfInput
    <3>1. l.at + 1 > Len(l.in)
      BY <2>1, WithinTypes DEF Eof
    <3>2. n = [l EXCEPT !.state = EndOfInput, !.current = NUL]
      BY <2>1, <3>1 DEF Advance
    <3>3. n.state = EndOfInput
      BY <2>1, <3>2 DEF Within, SourcesOf
    <3> QED BY <2>1, <3>3, AdvanceIsOnward, WithinOnward
  <2> QED BY <1>2, <2>1, ReaderFields
<1>5. PICK n : n = Advance(r.ls)
  OBVIOUS
<1>6. Within(n) /\ Onward(r.ls, n) /\ Calm(n) /\ n.state = EndOfInput /\ ~More(n)
      /\ ~HasSourceError(n) /\ Settled(n) /\ n.state # Initial
  BY <1>2, <1>4, <1>5, CalmIsSettled
     DEF More, HasSourceError, EndOfInput, Ok, Initial
<1>7. ASSUME NEW node, NEW e, b = OpenNode(r, node, e) \/ b = OpenObject(r) PROVE Ended
  <2>1. PICK a : a = StepOnto(r)
    OBVIOUS
  <2>2. Reader(a) /\ a.ls = n /\ a.node \in {Unread, "Error"} /\ ~a.ok
    <3>1. Retold(r, a) /\ a.ls = n /\ a.node \in {r.node, "Error"} /\ (a.ok => a.ls.state = Ok)
          /\ a.ok \in BOOLEAN
      BY <1>2, <1>5, <2>1, StepOntoIs, ReaderFields, RetoldOn
    <3> QED BY <1>2, <1>6, <3>1, RetoldOn DEF Ok, EndOfInput
  <2>3. b = a
    BY <1>7, <2>1, <2>2 DEF OpenObject, OpenNode, Then
  <2> QED BY <1>2, <1>6, <2>2, <2>3
<1>8. ASSUME b = OpenString(r, fields) PROVE Ended
  <2>1. PICK l : l = ClearCapture(r.ls)
    OBVIOUS
  <2>2. Within(l) /\ Onward(r.ls, l) /\ Eof(l)
    BY <1>2, <1>4, <2>1, ClearCaptureKeeps, WithinOnward DEF Eof, EndOfInput, OutOfMemory
  <2>3. PICK m : m = Advance(l)
    OBVIOUS
  <2>4. Within(m) /\ Onward(r.ls, m) /\ Calm(m) /\ m.state = EndOfInput /\ ~HasSourceError(m)
        /\ Settled(m) /\ m.state # Initial
    <3>1. Within(m) /\ Onward(l, m) /\ Calm(m) /\ m.state = EndOfInput
      BY <1>4, <2>2, <2>3
    <3> QED BY <1>4, <2>2, <3>1, OnwardIsOrder, CalmIsSettled
            DEF HasSourceError, EndOfInput, Initial
  <2>5. PICK s : s = [r EXCEPT !.node = "Value"]
    OBVIOUS
  <2>6. Reader(s) /\ s.node = "Value"
    BY <1>2, <2>5, Names, NodeSet
  <2>7. PICK a : a = Arrive(s, m)
    OBVIOUS
  <2>8. Reader(a) /\ a.ls = m /\ a.node \in {"Value", "Error"} /\ a.ok
    BY <2>4, <2>6, <2>7, ArriveIs, RetoldOn
  <2>9. b = Raise(a, "UNTERMINATED_STRING")
    BY <1>8, <2>1, <2>3, <2>4, <2>5, <2>7, <2>8 DEF OpenString, Then, Eof
  <2>10. "UNTERMINATED_STRING" \in Errors
    BY ErrorNames
  <2> QED BY <1>2, <2>4, <2>8, <2>9, <2>10, RaiseIs, RetoldOn
<1>9. ASSUME b = No(RecoverValue(Raise(r, "INVALID_VALUE"))) PROVE Ended
  <2>1. Retold(r, b) /\ Stepped(r.ls, b.ls) /\ b.ok = FALSE /\ b.node \in {"Value", "Error"}
    BY <1>2, <1>9, GivenUp
  <2> QED BY <1>2, <2>1, RetoldOn, CalmIsSettled DEF Stepped, Calm, Paused
<1>10. CASE b = OpenNumber(r) \/ b = OpenLiteral(r)
  <2>1. Ended
    BY <1>2, <1>10, NoScalarAtEnd
  <2> QED BY <2>1 DEF Led, Unread
<1>11. CASE ~(b = OpenNumber(r) \/ b = OpenLiteral(r))
  <2>1. Ended
    <3>1. CASE b = OpenArray(r)
      BY <1>7, <3>1 DEF OpenArray
    <3> QED BY <1>3, <1>7, <1>8, <1>9, <1>11, <3>1
  <2> QED BY <2>1 DEF Led, Unread
<1> QED BY <1>10, <1>11

\* The first read of a document.
LEMMA UnreadIs ==
  ASSUME NEW r, Fit(r), r.ls.state # Initial, r.node = Unread, NEW b,
         b = Then(Arrive([r EXCEPT !.depth = 0], SkipWhiteSpace(r.ls)),
                  LAMBDA a : ReadAnyOpen(a, FALSE))
  PROVE  Led(r, b)
<1>1. Reader(r) /\ Within(r.ls) /\ Settled(r.ls)
  BY ReaderFields DEF Fit, Midst, Unread
<1>2. PICK s : s = [r EXCEPT !.depth = 0]
  OBVIOUS
<1>3. 0 \in 0 .. DepthMod - 1
  BY DepthModAssumption
<1>4. Reader(s) /\ s.ls = r.ls /\ s.node = Unread
  BY <1>1, <1>2, <1>3, DepthSet
<1>5. PICK n : n = SkipWhiteSpace(r.ls)
  OBVIOUS
<1>6. Onward(r.ls, n) /\ Within(n) /\ n.state # Initial /\ (n = r.ls \/ Calm(n)) /\ Settled(n)
  <2>1. Onward(r.ls, n) /\ (n = r.ls \/ Calm(n))
    BY <1>1, <1>5, SkipWhiteSpaceKeeps
  <2> QED BY <1>1, <2>1, WithinOnward, CalmIsSettled DEF Onward
<1>7. PICK a : a = Arrive(s, n)
  OBVIOUS
<1>8. Reader(a) /\ a.ls = n /\ a.ok = ~HasSourceError(n) /\ a.node \in {Unread, "Error"}
      /\ (a.ok => a.node = Unread)
  BY <1>4, <1>6, <1>7, ArriveIs, RetoldOn
<1>9. CASE ~a.ok
  <2>1. b = a
    BY <1>2, <1>5, <1>7, <1>9 DEF Then
  <2> QED BY <1>6, <1>8, <1>9, <2>1 DEF Led, Unread
<1>10. CASE a.ok
  <2> PICK f : f = FALSE
    OBVIOUS
  <2>1. b = ReadAnyOpen(a, f)
    BY <1>2, <1>5, <1>7, <1>10 DEF Then
  <2>2. Led(a, b)
    <3>1. CASE Calm(n)
      <4>1. Ready(a) /\ a.node # "Object"
        BY <1>8, <1>10, <3>1 DEF Ready, Unread
      <4> QED BY <2>1, <4>1, ReadAnyOpenIs, CameIsLed
    <3>2. CASE ~Calm(n)
      <4>1. Eof(n)
        BY <1>6, <3>2 DEF Calm, Paused, Settled, Eof
      <4> QED BY <1>8, <1>10, <2>1, <4>1, ReadAnyOpenAtEnd
    <3> QED BY <3>1, <3>2
  <2>3. a.node # "ValuePart"
    BY <1>8 DEF Unread
  <2> QED BY <1>1, <1>6, <1>8, <2>2, <2>3, LedOn
<1> QED BY <1>9, <1>10

\* read(), by the node it starts from.
LEMMA ReadNodeIs ==
  ASSUME NEW r, Fit(r), r.ls.state # Initial, r.node # "Error",
         r.node = Unread \/ r.ls.state \in {Ok, OutOfMemory}, NEW b, b = ReadNode(r)
  PROVE  Led(r, b)
<1>1. PICK f : f = FALSE
  OBVIOUS
<1>2. PICK any, field, open, element, no, start, part :
        /\ any = ReadAny(r) /\ field = ReadFieldOrEndObject(r) /\ open = ReadAnyOpen(r, f)
        /\ element = ReadValueOrEndArray(r) /\ no = No(r) /\ part = ReadValuePart(r)
        /\ start = Then(Arrive([r EXCEPT !.depth = 0], SkipWhiteSpace(r.ls)),
                        LAMBDA a : ReadAnyOpen(a, FALSE))
  OBVIOUS
<1>3. \/ r.node = Unread /\ b = start
      \/ r.node = "ValuePart" /\ b = part
      \/ /\ r.node \notin {Unread, "ValuePart"}
         /\ b \in {no, field} \/ (b \in {any, open, element} /\ r.node # "Object")
  <2>1. r.node \in Nodes
    BY ReaderFields DEF Fit
  <2>2. open = ReadAnyOpen(r, FALSE)
    BY <1>1, <1>2, Zenon
  <2>3. b = CASE r.node = Unread -> start
              [] r.node \in {"Value", "EndValuePart", "EndObject", "EndArray"} -> any
              [] r.node = "ValuePart" -> part
              [] r.node = "Object" -> field
              [] r.node = "Field" -> open
              [] r.node = "Array" -> element
              [] r.node = "EndDocument" -> no
    BY <1>2, <2>2, Zenon DEF ReadNode
  <2> QED BY <2>1, <2>3 DEF Nodes, Unread
<1>6. CASE r.node = Unread /\ b = start
  BY <1>2, <1>6, UnreadIs
<1>4. CASE r.node = "ValuePart" /\ b = part
  <2>1. r.node # Unread
    BY <1>4 DEF Unread
  <2>2. Led(r, b)
    BY <1>2, <1>4, <2>1, ReadValuePartIs DEF Fit
  <2> QED BY <2>2
<1>5. CASE /\ r.node \notin {Unread, "ValuePart"}
           /\ b \in {no, field} \/ (b \in {any, open, element} /\ r.node # "Object")
  <2>1. Reader(r) /\ r.ls.state = Ok /\ Calm(r.ls)
    <3>1. Reader(r) /\ Within(r.ls) /\ Settled(r.ls)
      BY <1>5, ReaderFields DEF Fit, Midst
    <3>2. r.ls.state = Ok
      BY <1>5, <3>1 DEF Settled
    <3> QED BY <3>1, <3>2, OkIsCalm DEF Settled
  <2>2. Ready(r)
    BY <2>1 DEF Ready, HasSourceError, Ok, EndOfInput
  <2>3. CASE b = no
    <3>1. Came(r, b) /\ b.node = r.node
      BY <1>2, <2>1, <2>3, NoIs, CameStill
    <3>2. ~Eof(r.ls)
      BY <2>1 DEF Eof, Ok, EndOfInput
    <3>3. b.ls = r.ls
      BY <1>2, <2>1, <2>3, NoIs
    <3> QED BY <3>1, <3>2, <3>3, CameIsLed
  <2>4. CASE b = field
    <3>1. Came(r, b) /\ (b.node = "Object" => ~Eof(b.ls))
      BY <1>2, <2>1, <2>4, ReadFieldOrEndObjectIs
    <3> QED BY <3>1, CameIsLed
  <2>5. CASE b \in {any, open, element} /\ r.node # "Object"
    <3>1. Came(r, b)
      BY <1>2, <2>1, <2>2, <2>5, ReadAnyIs, ReadAnyOpenIs, ReadValueOrEndArrayIs
    <3> QED BY <2>5, <3>1, CameIsLed
  <2> QED BY <1>5, <2>3, <2>4, <2>5
<1> QED BY <1>3, <1>4, <1>5, <1>6

\* read() leads on from every reader there is between two calls.
THEOREM ReadIs ==
  ASSUME NEW r, Fit(r), NEW b, b = Read(r)
  PROVE  Led(r, b)
<1>1. PICK a : a = Begin(r)
  OBVIOUS
<1>2. /\ Retold(r, a) /\ Reader(a) /\ Onward(r.ls, a.ls) /\ a.ls.state # Initial
      /\ r.ls.state # Initial => a.ok /\ a.ls = r.ls
      /\ r.ls.state = Initial => Calm(a.ls)
      /\ a.ok => a.node = r.node
      /\ ~a.ok => Calm(a.ls) /\ a.node # "Object"
      /\ Within(r.ls)
  BY <1>1, BeginIs, RetoldOn, ReaderFields DEF Fit
<1>3. CASE ~a.ok
  <2>1. b = a
    BY <1>1, <1>3 DEF Read, Then
  <2> QED BY <1>2, <1>3, <2>1, SteppedIsLed DEF Stepped
<1>4. CASE a.ok
  <2>1. Fit(a)
    <3>1. CASE r.ls.state = Initial
      BY <1>2, <3>1, CalmIsSettled DEF Fit, Calm, Paused, Eof
    <3>2. CASE r.ls.state # Initial
      BY <1>2, <1>4, <3>2 DEF Fit, Midst, Retold
    <3> QED BY <3>1, <3>2
  <2>2. PICK c : c = ClearError(a)
    OBVIOUS
  <2>3. Retold(a, c) /\ c.ls = a.ls /\ c.node = a.node /\ Reader(c)
    BY <1>2, <2>2, ClearErrorIs, RetoldOn
  <2>4. \/ a.node = "Error" /\ b = No(a)
        \/ a.node # Unread /\ a.ls.state \notin {Ok, OutOfMemory}
             /\ b = No([a EXCEPT !.node = "EndDocument"])
        \/ a.node # "Error" /\ (a.node = Unread \/ a.ls.state \in {Ok, OutOfMemory})
             /\ b = ReadNode(c)
    <3>1. PICK no, end, next :
            no = No(a) /\ end = No([a EXCEPT !.node = "EndDocument"]) /\ next = ReadNode(c)
      OBVIOUS
    <3>2. b = CASE a.node = "Error" -> no
                [] a.node \notin {"Error", Unread} /\ ~More(a.ls) /\ a.ls.state # OutOfMemory -> end
                [] OTHER -> next
      BY <1>1, <1>4, <2>2, <3>1, Zenon DEF Read, Then
    <3>3. More(a.ls) <=> a.ls.state = Ok
      BY <1>2, MoreIsOk, ReaderFields
    <3>4. \/ a.node = "Error" /\ b = no
          \/ a.node # Unread /\ a.ls.state \notin {Ok, OutOfMemory} /\ b = end
          \/ a.node # "Error" /\ (a.node = Unread \/ a.ls.state \in {Ok, OutOfMemory})
               /\ b = next
      BY <3>2, <3>3
    <3> QED BY <3>1, <3>4
  <2>5. CASE a.node = "Error" /\ b = No(a)
    <3>1. Retold(a, b) /\ b.ls = a.ls /\ b.node = a.node /\ b.ok = FALSE
      BY <1>2, <2>5, NoIs
    <3>2. a.node # "ValuePart" /\ a.node # Unread /\ a.node # "Object"
      BY <2>5 DEF Unread
    <3> QED BY <1>2, <2>1, <3>1, <3>2 DEF Led, Fit, Midst, Retold
  <2>6. CASE a.node # Unread /\ a.ls.state \notin {Ok, OutOfMemory}
             /\ b = No([a EXCEPT !.node = "EndDocument"])
    <3>1. "EndDocument" \in Nodes
      BY Names
    <3>2. PICK e : e = [a EXCEPT !.node = "EndDocument"]
      OBVIOUS
    <3>3. Reader(e) /\ e.ls = a.ls /\ e.node = "EndDocument"
      BY <1>2, <3>1, <3>2, NodeSet
    <3>4. b = No(e)
      BY <2>6, <3>2
    <3>5. Reader(b) /\ b.ls = a.ls /\ b.node = "EndDocument" /\ b.ok = FALSE
      BY <3>3, <3>4, NoIs, RetoldOn
    <3>6. Settled(a.ls) /\ b.node # Unread
      BY <2>6, <3>5 DEF Settled, Unread
    <3> QED BY <1>2, <3>5, <3>6 DEF Led
  <2>7. CASE a.node # "Error" /\ (a.node = Unread \/ a.ls.state \in {Ok, OutOfMemory})
             /\ b = ReadNode(c)
    <3>1. Fit(c)
      BY <2>1, <2>3 DEF Fit, Midst, Retold
    <3>2. Led(c, b)
      BY <1>2, <2>3, <2>7, <3>1, ReadNodeIs
    <3> QED BY <1>2, <1>4, <2>3, <3>2, LedOn
  <2> QED BY <2>4, <2>5, <2>6, <2>7
<1> QED BY <1>3, <1>4
=============================================================================
