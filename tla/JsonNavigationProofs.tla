----------------------------- MODULE JsonNavigationProofs -----------------------------
(***************************************************************************)
(* What the skip functions and skipToField do to a reader, on any input:   *)
(* its members stay in their ranges and its cursor never goes back,        *)
(* however the brackets they count, the strings they step over and the     *)
(* names they compare go together (Past, FieldSought).                     *)
(***************************************************************************)
EXTENDS JsonSearch, JsonReaderProofs

\* From x to a y no less far, that is at its end or on a character.
Over(x, y) == Onward(x, y) /\ Settled(y)

\* Getting over part of the input composes, and a step gets over part of it.
LEMMA OverIsOrder ==
  /\ \A x : Within(x) /\ Settled(x) => Over(x, x)
  /\ \A x, y, z : Within(x) /\ Over(x, y) /\ Over(y, z) => Over(x, z)
  /\ \A x, y : Stepped(x, y) => Over(x, y)
  /\ \A x, y : Over(x, y) => Within(y)
  BY OnwardIsOrder, CalmIsSettled, WithinOnward DEF Over, Stepped

\* What a function that skips leaves of a reader.  Its source may be out of
\* room at the start, in the middle of a value, and then goes back on the
\* character that its end counts for, when there is nothing to skip.
Past(r, b) ==
  /\ Reader(b)
  /\ b.ls.in = r.ls.in /\ b.ls.kind = r.ls.kind /\ b.ls.state # Initial
  /\ b.node \in {r.node, "Value", "Error", "EndObject", "EndArray", "EndDocument"}
  /\ Midst(b) \/ Settled(b.ls)
  /\ Settled(r.ls) => Over(r.ls, b.ls)

\* A call that got its source over part of the input, on a node a skip may
\* land on, is a skip past it.
LEMMA OverIsPast ==
  ASSUME NEW r, r.ls.state # Initial, NEW b, Reader(b), Over(r.ls, b.ls),
         b.node \in {r.node, "Value", "Error", "EndObject", "EndArray", "EndDocument"}
  PROVE  Past(r, b)
  BY DEF Past, Over, Onward

\* A skip after a skip is a skip.
LEMMA PastOn ==
  ASSUME NEW r, Reader(r), NEW a, Past(r, a), NEW b, Past(a, b)
  PROVE  Past(r, b)
<1>1. Within(r.ls)
  BY ReaderFields
<1>2. Settled(r.ls) => Over(r.ls, b.ls)
  BY <1>1, OverIsOrder DEF Past, Over
<1> QED BY <1>2 DEF Past

-----------------------------------------------------------------------------
(* Strings and other scalars.                                                *)

\* Stepping over the current character, as the bracket loops do, keeps the node
\* or fails with an error.
LEMMA StepOverIs ==
  ASSUME NEW r, Reader(r), NEW e \in Errors, NEW b, b = StepOver(r, e)
  PROVE  /\ Retold(r, b) /\ b.node \in {r.node, "Error"} /\ Stepped(r.ls, b.ls)
         /\ b.ls = Advance(r.ls)
         /\ b.ok => b.node = r.node /\ b.ls.state = Ok
         /\ ~b.ok => b.node = "Error"
         /\ b.ok /\ r.ls.current # NUL => Ahead(r.ls, b.ls)
<1>1. PICK l : l = Advance(r.ls)
  OBVIOUS
<1>2. Stepped(r.ls, l) /\ Within(l)
  BY <1>1, ReaderFields, AdvanceIsOnward DEF Stepped, Onward
<1>3. PICK o : o = On(r, l)
  OBVIOUS
<1>4. Reader(o) /\ Retold(r, o) /\ o.ls = l /\ o.node = r.node
  BY <1>2, <1>3, OnIs, RetoldOn
<1>5. PICK yes, failed, die : yes = Yes(o) /\ failed = SourceFailed(o) /\ die = Die(o, e)
  OBVIOUS
<1>6. b = IfMoreElse(o, e)
  BY <1>1, <1>3 DEF StepOver
<1>7. b = CASE More(l) -> yes
            [] ~More(l) /\ HasSourceError(l) -> failed
            [] ~More(l) /\ ~HasSourceError(l) -> die
  BY <1>4, <1>5, <1>6, Zenon DEF IfMoreElse
<1>8. (More(l) /\ b = yes) \/ (HasSourceError(l) /\ b = failed) \/ b = die
  BY <1>7
<1>9. More(l) => l.state = Ok
  BY <1>2, MoreIsOk DEF Stepped, Calm, Paused
<1>10. Retold(o, yes) /\ yes.ls = l /\ yes.node = o.node
  BY <1>4, <1>5, YesIs
<1>11. Retold(o, failed) /\ failed.ls = l /\ failed.node \in {o.node, "Error"} /\ failed.ok = FALSE
  BY <1>4, <1>5, SourceFailedIs
<1>12. Retold(o, die) /\ die.ls = l /\ die.node = "Error" /\ die.ok = FALSE
  BY <1>4, <1>5, DieIs
<1>13. HasSourceError(l) => failed.node = "Error"
  <2>1. HasSourceError(l) => l.state = IOError
    BY <1>2, WithinTypes
       DEF Stepped, Calm, Paused, HasSourceError, States, Ok, EndOfInput, OutOfMemory, Initial
  <2> QED BY <1>4, <1>5, <2>1, SourceFailedIs
<1>14. l.state = Ok /\ r.ls.current # NUL => Ahead(r.ls, l)
  BY <1>1, ReaderFields, AdvanceIsAhead
<1>15. yes.ok = TRUE
  BY <1>4, <1>5, YesIs
<1> QED BY <1>1, <1>2, <1>4, <1>8, <1>9, <1>10, <1>11, <1>12, <1>13, <1>14, <1>15, RetoldOn

SkippingString == INSTANCE LoopProofs WITH Step <- SkipStringStep

\* What the loop goes through from l on.
StringSkips(l) ==
  {a \in [ok : BOOLEAN, ls : SourcesOf(l.in), done : BOOLEAN] : Over(l, a.ls)}

\* Any answer over a source further on is an answer skipStringPart's loop may give.
LEMMA StringSkipOf ==
  ASSUME NEW l, NEW n, Over(l, n), NEW o \in BOOLEAN, NEW d \in BOOLEAN,
         NEW a, a = [ok |-> o, ls |-> n, done |-> d]
  PROVE  a \in StringSkips(l)
<1>1. n \in SourcesOf(l.in)
  BY WithinTypes DEF Over, Onward
<1> QED BY <1>1 DEF StringSkips

\* One turn of skipStringPart's loop, at a quote, an escape or the end of input.
LEMMA PassQuoteOrEscapeIs ==
  ASSUME NEW l, Within(l), NEW s, Over(l, s.ls), s.found \in {NUL, "\"", "\\"}
  PROVE  PassQuoteOrEscape(s) \in StringSkips(l)
<1>1. PICK n : n = Advance(s.ls)
  OBVIOUS
<1>2. PICK m : m = Advance(n)
  OBVIOUS
<1>3. Over(l, n) /\ Over(l, m)
  <2>1. Within(s.ls) /\ Stepped(s.ls, n) /\ Within(n)
    BY <1>1, OverIsOrder, AdvanceIsOnward, WithinOnward DEF Stepped
  <2>2. Stepped(n, m)
    BY <1>2, <2>1, AdvanceIsOnward DEF Stepped
  <2> QED BY <2>1, <2>2, OverIsOrder
<1>4. PICK u, v \in BOOLEAN : u = More(n) /\ v = More(m)
  BY DEF More
<1>5. \/ PassQuoteOrEscape(s) = [ok |-> FALSE, ls |-> s.ls, done |-> FALSE]
      \/ PassQuoteOrEscape(s) = [ok |-> FALSE, ls |-> n, done |-> u]
      \/ PassQuoteOrEscape(s) = [ok |-> v, ls |-> m, done |-> FALSE]
      \/ PassQuoteOrEscape(s) = [ok |-> FALSE, ls |-> n, done |-> FALSE]
  <2>1. "\"" # NUL /\ "\\" # NUL /\ "\"" # "\\"
    BY DEF NUL
  <2>2. CASE s.found = NUL
    BY <2>1, <2>2 DEF PassQuoteOrEscape, Stopped
  <2>3. CASE s.found = "\""
    BY <1>1, <1>4, <2>1, <2>3 DEF PassQuoteOrEscape, Stopped
  <2>4. CASE s.found = "\\"
    BY <1>1, <1>2, <1>4, <2>1, <2>4 DEF PassQuoteOrEscape, Stopped, Going
  <2> QED BY <2>2, <2>3, <2>4
<1> QED BY <1>3, <1>4, <1>5, StringSkipOf

\* skipStringPart gets its source over the rest of the string.
LEMMA SkipStringPartIs ==
  ASSUME NEW l, Within(l), Settled(l), l.state # Initial, NEW d, d = SkipStringPart(l)
  PROVE  Over(l, d.ls)
<1>1. PICK n : n = Advance(l)
  OBVIOUS
<1>2. Over(l, n) /\ Over(l, l)
  BY <1>1, AdvanceIsOnward, OverIsOrder DEF Stepped
<1>3. EnsureStarted(l) = l /\ Started(l, l)
  BY DEF EnsureStarted, Started
<1>4. PICK start : start = Going(l)
  OBVIOUS
<1>5. start \in StringSkips(l)
  <2>1. PICK v \in BOOLEAN : v = More(l)
    BY DEF More
  <2> QED BY <1>2, <1>4, <2>1, StringSkipOf DEF Going
<1>6. ASSUME NEW a \in StringSkips(l) PROVE SkipStringStep(a) \in StringSkips(l)
  <2>1. PICK s : s = SkipToAny(a.ls, {"\"", "\\"})
    OBVIOUS
  <2>2. Over(l, a.ls) /\ Within(a.ls) /\ Settled(a.ls) /\ a.ls.state # Initial
    BY <1>6, WithinOnward DEF StringSkips, Over, Onward
  <2>3. Answered(a.ls, s, {"\"", "\\"})
    BY <2>1, <2>2, SkipToAnyKeeps
  <2>4. Over(l, s.ls) /\ s.found \in {NUL, "\"", "\\"}
    BY <2>2, <2>3, OverIsOrder DEF Answered, Over
  <2>5. PassQuoteOrEscape(s) \in StringSkips(l)
    BY <2>4, PassQuoteOrEscapeIs
  <2> QED BY <2>1, <2>5 DEF SkipStringStep
<1>7. PICK run : run = WhileOk(SkipStringStep, start, Left(l))
  OBVIOUS
<1>8. run \in StringSkips(l)
  <2> DEFINE S == StringSkips(l)
  <2> HIDE DEF S
  <2>1. \A a \in S : a.ok => SkipStringStep(a) \in S
    BY <1>6 DEF S
  <2>2. SkippingString!WhileOk(SkipStringStep, start, Left(l)) \in S
    BY <1>5, <2>1, LeftIsNat, SkippingString!LoopStays DEF S
  <2>3. run = SkippingString!WhileOk(SkipStringStep, start, Left(l))
    BY <1>7 DEF WhileOk, Repeat, SkippingString!WhileOk, SkippingString!Repeat
  <2> QED BY <2>2, <2>3 DEF S
<1>9. d.ls \in {n, run.ls}
  BY <1>1, <1>3, <1>4, <1>7 DEF SkipStringPart, StringSkipped, Answer
<1> QED BY <1>2, <1>8, <1>9 DEF StringSkips

\* What skipString makes of the answer of skipStringPart.
LEMMA StringPassedIs ==
  ASSUME NEW r, Reader(r), r.ls.state # Initial, NEW d, Over(r.ls, d.ls),
         NEW b, b = StringPassed(r, d)
  PROVE  Reader(b) /\ Over(r.ls, b.ls) /\ b.node \in {"Value", "Error"}
<1>1. Within(d.ls) /\ Settled(d.ls) /\ Within(r.ls)
  BY ReaderFields, OverIsOrder DEF Over
<1>2. PICK n : n = SkipWhiteSpace(d.ls)
  OBVIOUS
<1>3. Over(r.ls, n) /\ Within(n)
  <2>1. Onward(d.ls, n) /\ (n = d.ls \/ Calm(n))
    BY <1>1, <1>2, SkipWhiteSpaceKeeps
  <2>2. Over(d.ls, n)
    BY <1>1, <2>1, CalmIsSettled DEF Over
  <2> QED BY <1>1, <2>2, OverIsOrder
<1>4. PICK a, o : a = Arrive(r, n) /\ o = On(r, d.ls)
  OBVIOUS
<1>5. Reader(a) /\ a.ls = n /\ (~a.ok => a.node = "Error")
  BY <1>3, <1>4, ArriveIs, RetoldOn DEF Over, Onward
<1>6. Reader(o) /\ o.ls = d.ls /\ o.node = r.node
  BY <1>1, <1>4, OnIs, RetoldOn
<1>7. PICK there, failed, die :
        there = Land(a, "Value") /\ failed = SourceFailed(o) /\ die = Die(o, "UNTERMINATED_STRING")
  OBVIOUS
<1>8. (~a.ok /\ b = a) \/ b = there \/ (HasSourceError(d.ls) /\ b = failed) \/ b = die
  <2>1. PICK past : past = Then(Arrive(r, SkipWhiteSpace(d.ls)), LAMBDA u : Land(u, "Value"))
    OBVIOUS
  <2>2. (~a.ok /\ past = a) \/ past = there
    BY <1>2, <1>4, <1>7, <2>1 DEF Then
  <2>3. b = CASE d.ok -> past
              [] ~d.ok /\ HasSourceError(d.ls) -> failed
              [] ~d.ok /\ ~HasSourceError(d.ls) -> die
    BY <1>4, <1>7, <2>1, Zenon DEF StringPassed
  <2> QED BY <2>2, <2>3
<1>9. "Value" \in Nodes /\ "UNTERMINATED_STRING" \in Errors
  BY Names, ErrorNames
<1>10. Reader(there) /\ there.ls = n /\ there.node = "Value"
  BY <1>5, <1>7, <1>9, LandIs, RetoldOn
<1>11. Reader(failed) /\ failed.ls = d.ls /\ (HasSourceError(d.ls) => failed.node = "Error")
  <2>1. d.ls.state # Initial /\ d.ls.state \in States
    BY <1>1, WithinTypes DEF Over, Onward
  <2>2. HasSourceError(d.ls) => d.ls.state = IOError
    BY <1>1, <2>1 DEF Settled, HasSourceError, States, Ok, EndOfInput
  <2> QED BY <1>6, <1>7, <2>2, SourceFailedIs, RetoldOn
<1>12. Reader(die) /\ die.ls = d.ls /\ die.node = "Error"
  BY <1>6, <1>7, <1>9, DieIs, RetoldOn
<1> QED BY <1>3, <1>5, <1>8, <1>10, <1>11, <1>12

\* skipString, from a quote.
LEMMA SkipStringIs ==
  ASSUME NEW r, Reader(r), r.ls.current = "\"", NEW b, b = SkipString(r)
  PROVE  /\ Reader(b) /\ Over(r.ls, b.ls) /\ b.node \in {"Value", "Error"}
         /\ b.ok => Ahead(r.ls, b.ls)
<1>1. PICK c : c = ClearError(r)
  OBVIOUS
<1>2. Reader(c) /\ c.ls = r.ls /\ c.node = r.node
  BY <1>1, ClearErrorIs, RetoldOn
<1>3. PICK a : a = StepOver(c, "UNTERMINATED_STRING")
  OBVIOUS
<1>4. /\ Reader(a) /\ Stepped(r.ls, a.ls)
      /\ ~a.ok => a.node = "Error"
      /\ a.ok => Ahead(r.ls, a.ls)
  <2>1. "UNTERMINATED_STRING" \in Errors
    BY ErrorNames
  <2>2. r.ls.current # NUL
    BY DEF NUL
  <2> QED BY <1>2, <1>3, <2>1, <2>2, StepOverIs, RetoldOn
<1>5. Within(r.ls) /\ Within(a.ls) /\ Over(r.ls, a.ls) /\ Settled(a.ls) /\ a.ls.state # Initial
  BY <1>4, ReaderFields, OverIsOrder, CalmIsSettled DEF Stepped, Calm, Paused
<1>6. PICK d : d = SkipStringPart(a.ls)
  OBVIOUS
<1>7. Over(a.ls, d.ls)
  BY <1>5, <1>6, SkipStringPartIs
<1>8. PICK p : p = StringPassed(a, d)
  OBVIOUS
<1>9. /\ Reader(p) /\ Over(r.ls, p.ls) /\ p.node \in {"Value", "Error"}
      /\ Ahead(r.ls, a.ls) => Ahead(r.ls, p.ls)
  <2>1. Over(a.ls, p.ls) /\ Reader(p) /\ p.node \in {"Value", "Error"}
    BY <1>4, <1>5, <1>7, <1>8, StringPassedIs
  <2> QED BY <1>5, <2>1, OverIsOrder, OnwardIsOrder DEF Over
<1>10. (~a.ok /\ b = a) \/ (a.ok /\ b = p)
  BY <1>1, <1>2, <1>3, <1>6, <1>8 DEF SkipString, Then
<1> QED BY <1>4, <1>5, <1>9, <1>10

\* What skipValuePart makes of its search for a comma or a closing bracket.
LEMMA SkippedToCloserIs ==
  ASSUME NEW r, Reader(r), NEW s, Over(r.ls, s.ls), NEW b, b = SkippedToCloser(r, s)
  PROVE  Reader(b) /\ Over(r.ls, b.ls) /\ b.node \in {r.node, "Value", "Error", "EndDocument"}
<1>1. PICK o : o = On(r, s.ls)
  OBVIOUS
<1>2. Reader(o) /\ o.ls = s.ls /\ o.node = r.node
  BY <1>1, OverIsOrder, OnIs, RetoldOn
<1>3. PICK e : e = [o EXCEPT !.node = "EndDocument"]
  OBVIOUS
<1>4. PICK there, failed, no : there = Land(o, "Value") /\ failed = SourceFailed(o) /\ no = No(e)
  OBVIOUS
<1>5. b \in {there, failed, no}
  <2>1. b = CASE s.found # NUL -> there
              [] s.found = NUL /\ HasSourceError(s.ls) -> failed
              [] s.found = NUL /\ ~HasSourceError(s.ls) -> no
    BY <1>1, <1>3, <1>4, Zenon DEF SkippedToCloser
  <2> QED BY <2>1
<1>6. "Value" \in Nodes /\ "EndDocument" \in Nodes
  BY Names
<1>7. Reader(there) /\ there.ls = s.ls /\ there.node = "Value"
  BY <1>2, <1>4, <1>6, LandIs, RetoldOn
<1>8. Reader(failed) /\ failed.ls = s.ls /\ failed.node \in {r.node, "Error"}
  BY <1>2, <1>4, SourceFailedIs, RetoldOn
<1>9. Reader(no) /\ no.ls = s.ls /\ no.node = "EndDocument"
  <2>1. Reader(e) /\ e.ls = s.ls /\ e.node = "EndDocument"
    BY <1>2, <1>3, <1>6, NodeSet
  <2> QED BY <1>4, <2>1, NoIs, RetoldOn
<1> QED BY <1>5, <1>7, <1>8, <1>9

\* skipValuePart is a skip.
LEMMA SkipValuePartIs ==
  ASSUME NEW r, Reader(r), Settled(r.ls), r.ls.state # Initial, NEW b, b = SkipValuePart(r)
  PROVE  Past(r, b)
<1>1. PICK c : c = ClearError(r)
  OBVIOUS
<1>2. Reader(c) /\ c.ls = r.ls /\ c.node = r.node /\ Within(r.ls) /\ Over(r.ls, r.ls)
  BY <1>1, ClearErrorIs, RetoldOn, ReaderFields, OverIsOrder
<1>3. PICK s : s = SkipToAny(r.ls, Closers)
  OBVIOUS
<1>4. Over(r.ls, s.ls)
  BY <1>2, <1>3, SkipToAnyKeeps DEF Answered, Over
<1>5. PICK no, string, closer :
        no = No(c) /\ string = SkipString(c) /\ closer = SkippedToCloser(c, s)
  OBVIOUS
<1>6. b = no \/ (c.ls.current = "\"" /\ b = string) \/ b = closer
  BY <1>1, <1>2, <1>3, <1>5 DEF SkipValuePart
<1>7. Reader(no) /\ no.ls = r.ls /\ no.node = r.node
  BY <1>2, <1>5, NoIs, RetoldOn
<1>8. c.ls.current = "\"" => Reader(string) /\ Over(r.ls, string.ls)
                             /\ string.node \in {r.node, "Value", "Error"}
  BY <1>2, <1>5, SkipStringIs
<1>9. Reader(closer) /\ Over(r.ls, closer.ls)
      /\ closer.node \in {r.node, "Value", "Error", "EndDocument"}
  BY <1>2, <1>4, <1>5, SkippedToCloserIs
<1>10. Reader(b) /\ Over(r.ls, b.ls) /\ b.node \in {r.node, "Value", "Error", "EndDocument"}
  BY <1>2, <1>6, <1>7, <1>8, <1>9
<1> QED BY <1>10, OverIsPast

-----------------------------------------------------------------------------
(* Searches that find nothing.                                               *)

\* A search that has come past the last byte is at the end of the input.
LEMMA Missed ==
  ASSUME NEW l, Within(l), l.state # Initial, NEW k \in l.at .. Len(l.in) + 1, k >= 1,
         NEW s, s = SkippedTo(l, k)
  PROVE  /\ s.found = NUL <=> k = Len(l.in) + 1
         /\ s.found = NUL => /\ s.ls.in = l.in /\ s.ls.kind = l.kind /\ s.ls.at = Len(l.in)
                             /\ s.ls.current = l.current /\ Eof(s.ls)
<1> DEFINE p == l.position + (IF k <= Len(l.in) THEN k ELSE k - 1) - l.at
           moved == [l EXCEPT !.position = p]
<1>1. /\ l.at \in Nat /\ Len(l.in) \in Nat /\ k \in Nat /\ l.at <= Len(l.in)
      /\ IsText(l.in) /\ l \in SourcesOf(l.in)
  BY WithinTypes
<1>2. moved.in = l.in
  BY <1>1 DEF SourcesOf
<1>3. CASE k <= Len(l.in)
  <2>1. s = Skipped([moved EXCEPT !.at = k, !.current = l.in[k]], l.in[k])
    BY <1>2, <1>3, Zenon DEF SkippedTo
  <2>2. s.found = l.in[k]
    <3> HIDE DEF moved
    <3> QED BY <2>1 DEF Skipped
  <2>3. l.in[k] \in BytesIn(l.in)
    BY <1>1, <1>3 DEF IsText
  <2>4. l.in[k] # NUL
    BY <1>1, <2>3 DEF IsText
  <2> QED BY <1>1, <1>3, <2>2, <2>4
<1>4. CASE ~ (k <= Len(l.in))
  <2>1. k - 1 = Len(l.in) /\ k = Len(l.in) + 1
    BY <1>1, <1>4
  <2>2. s = Skipped([moved EXCEPT !.at = k - 1, !.state = EndOfInput], NUL)
    BY <1>2, <1>4, Zenon DEF SkippedTo
  <2> HIDE DEF p
  <2>3. s.ls = [moved EXCEPT !.at = k - 1, !.state = EndOfInput] /\ s.found = NUL
    <3> HIDE DEF moved
    <3> QED BY <2>2 DEF Skipped
  <2>4. s.ls.in = l.in /\ s.ls.kind = l.kind /\ s.ls.at = k - 1 /\ s.ls.current = l.current
        /\ s.ls.state = EndOfInput
    BY <1>1, <2>3 DEF SourcesOf
  <2> QED BY <2>1, <2>3, <2>4 DEF Eof
<1> QED BY <1>3, <1>4

\* Once it has found nothing it finds nothing again.
LEMMA FoundNothing ==
  ASSUME NEW l, Within(l), l.state # Initial, NEW chars, NEW s, s = SkipToAny(l, chars),
         s.found = NUL
  PROVE  SkipToAny(s.ls, chars).found = NUL
<1>1. Within(s.ls) /\ s.ls.in = l.in /\ s.ls.kind = l.kind /\ s.ls.state # Initial
  BY SkipToAnyKeeps DEF Answered
<1>2. /\ l.at \in Nat /\ Len(l.in) \in Nat /\ l.at <= Len(l.in) /\ IsText(l.in)
      /\ s.ls.at \in Nat /\ l.position <= l.at /\ l \in SourcesOf(l.in)
  BY <1>1, WithinTypes
<1>3. PICK i : i = IF l.at = 0 THEN 1 ELSE l.at
  OBVIOUS
<1>4. i \in Nat \ {0} /\ l.at <= i /\ i <= Len(l.in) + 1 /\ (Len(l.in) > 0 => i <= Len(l.in))
  BY <1>2, <1>3
<1>5. \A j \in Nat \ {0} : j <= Len(l.in) + 1 =>
        LET k == FirstIn(l.in, j, chars)
        IN  /\ k \in j .. Len(l.in) + 1 /\ (k <= Len(l.in) => l.in[k] \in chars)
            /\ \A m \in j .. k - 1 : l.in[m] \notin chars
  <2> SUFFICES ASSUME NEW j \in Nat \ {0}, j <= Len(l.in) + 1, NEW k, k = FirstIn(l.in, j, chars)
               PROVE  /\ k \in j .. Len(l.in) + 1 /\ (k <= Len(l.in) => l.in[k] \in chars)
                      /\ \A m \in j .. k - 1 : l.in[m] \notin chars
    OBVIOUS
  <2> QED BY <1>2, FirstInIsFirst DEF IsText
<1>6. PICK t : t = SkipToAnySZ(l, chars)
  OBVIOUS
<1>7. ASSUME t.found = NUL
      PROVE  /\ t.ls.in = l.in /\ t.ls.at = Len(l.in)
             /\ \A m : m.in = l.in /\ m.at = Len(l.in) /\ Within(m) /\ m.state # Initial
                         => SkipToAnySZ(m, chars).found = NUL
  <2>1. PICK k : k = FirstIn(l.in, i, chars)
    OBVIOUS
  <2>2. k \in i .. Len(l.in) + 1 /\ \A m \in i .. k - 1 : l.in[m] \notin chars
    BY <1>4, <1>5, <2>1
  <2>3. t = SkippedTo(l, k) /\ k \in l.at .. Len(l.in) + 1 /\ k >= 1
    BY <1>2, <1>3, <1>4, <1>6, <2>1, <2>2 DEF SkipToAnySZ
  <2>4. k = Len(l.in) + 1 /\ t.ls.in = l.in /\ t.ls.at = Len(l.in)
    BY <1>7, <2>3, Missed
  <2>5. ASSUME NEW m, m.in = l.in, m.at = Len(l.in), Within(m), m.state # Initial
        PROVE  SkipToAnySZ(m, chars).found = NUL
    <3>1. PICK j : j = IF m.at = 0 THEN 1 ELSE m.at
      OBVIOUS
    <3>2. PICK n : n = FirstIn(l.in, j, chars)
      OBVIOUS
    <3>3. j \in Nat \ {0} /\ j <= Len(l.in) + 1 /\ m.at <= j
      BY <1>2, <2>5, <3>1
    <3>4. n \in j .. Len(l.in) + 1 /\ (n <= Len(l.in) => l.in[n] \in chars)
      BY <1>5, <3>2, <3>3
    <3>5. n = Len(l.in) + 1
      <4>1. n # Len(l.in)
        <5>1. CASE Len(l.in) = 0
          BY <3>3, <3>4, <5>1
        <5>2. CASE Len(l.in) > 0
          <6>1. Len(l.in) \in i .. k - 1
            BY <1>2, <1>4, <2>4, <5>2
          <6> QED BY <1>2, <2>2, <3>4, <6>1
        <5> QED BY <1>2, <5>1, <5>2
      <4> QED BY <1>2, <2>5, <3>3, <3>4, <4>1
    <3>6. SkipToAnySZ(m, chars) = SkippedTo(m, n)
      BY <2>5, <3>1, <3>2 DEF SkipToAnySZ
    <3>7. n \in m.at .. Len(m.in) + 1 /\ n >= 1
      BY <1>2, <2>5, <3>3, <3>4
    <3> QED BY <2>5, <3>5, <3>6, <3>7, Missed
  <2> QED BY <2>4, <2>5
<1>8. CASE l.kind = "file"
  <2>1. s = SkipToAnyBase(l, chars) /\ SkipToAny(s.ls, chars) = SkipToAnyBase(s.ls, chars)
    BY <1>1, <1>8 DEF SkipToAny
  <2>2. CASE l.current \in chars \cup {NUL}
    BY <2>1, <2>2 DEF SkipToAnyBase, Skipped
  <2>3. CASE l.current \notin chars \cup {NUL}
    <3>1. PICK k : k = FirstIn(l.in, l.at + 1, chars)
      OBVIOUS
    <3>2. k \in l.at + 1 .. Len(l.in) + 1
      BY <1>2, <1>5, <3>1
    <3>3. s = SkippedTo(l, k)
      BY <2>1, <2>3, <3>1 DEF SkipToAnyBase
    <3>4. s.ls.at = Len(l.in) /\ s.ls.current = l.current
      BY <1>2, <3>2, <3>3, Missed
    <3>5. PICK n : n = FirstIn(s.ls.in, s.ls.at + 1, chars)
      OBVIOUS
    <3>6. n \in Len(l.in) + 1 .. Len(l.in) + 1
      BY <1>1, <1>2, <1>5, <3>4, <3>5
    <3>7. SkipToAny(s.ls, chars) = SkippedTo(s.ls, n)
      BY <2>1, <2>3, <3>4, <3>5 DEF SkipToAnyBase
    <3> QED BY <1>1, <1>2, <3>4, <3>6, <3>7, Missed
  <2> QED BY <2>2, <2>3
<1>9. CASE l.kind = "sz"
  <2>1. l.kind # "file"
    BY <1>9
  <2> QED BY <1>1, <1>6, <1>7, <1>9, <2>1 DEF SkipToAny
<1>10. CASE l.kind # "file" /\ l.kind # "sz"
  <2>1. s = SkipToAnyMapped(l, chars) /\ SkipToAny(s.ls, chars) = SkipToAnyMapped(s.ls, chars)
    BY <1>1, <1>10 DEF SkipToAny
  <2>2. CASE s.ls.position >= Len(l.in)
    BY <1>1, <2>1, <2>2 DEF SkipToAnyMapped, Skipped
  <2>3. CASE ~ (s.ls.position >= Len(l.in))
    <3>1. ~ (l.position >= Len(l.in))
      <4>1. ASSUME l.position >= Len(l.in) PROVE FALSE
        <5>1. s.ls = [l EXCEPT !.state = EndOfInput]
          BY <2>1, <4>1 DEF SkipToAnyMapped, Skipped
        <5>2. s.ls.position = l.position
          BY <1>2, <5>1 DEF SourcesOf
        <5> QED BY <2>3, <4>1, <5>2
      <4> QED BY <4>1
    <3>2. s = IF t.found = NUL THEN t ELSE [t EXCEPT !.ls.position = t.ls.at]
      BY <1>6, <2>1, <3>1 DEF SkipToAnyMapped
    <3>3. t.found = NUL
      <4>1. PICK u : u = [t EXCEPT !.ls.position = t.ls.at]
        OBVIOUS
      <4>2. t.found # NUL => u.found # NUL
        <5>1. PICK k : k = FirstIn(l.in, i, chars)
          OBVIOUS
        <5>2. t = SkippedTo(l, k)
          BY <1>3, <1>6, <5>1 DEF SkipToAnySZ
        <5>3. PICK x, y : t = [ls |-> x, found |-> y]
          BY <5>2 DEF SkippedTo, Skipped
        <5> QED BY <4>1, <5>3
      <4> QED BY <3>2, <4>1, <4>2
    <3>4. s = t
      BY <3>2, <3>3
    <3>5. SkipToAnySZ(s.ls, chars).found = NUL
      BY <1>1, <1>7, <3>3, <3>4
    <3> QED BY <1>1, <2>1, <2>3, <3>5 DEF SkipToAnyMapped
  <2> QED BY <2>2, <2>3
<1> QED BY <1>8, <1>9, <1>10

-----------------------------------------------------------------------------
(* One round of the loops that count brackets.                               *)

\* Changing the depth touches neither the source nor the node.
LEMMA DeeperIs ==
  ASSUME NEW r, Reader(r), NEW by \in {1, -1}, NEW b, b = Deeper(r, by)
  PROVE  Reader(b) /\ b.ls = r.ls /\ b.node = r.node /\ b.ok = r.ok
<1>1. PICK d \in 0 .. DepthMod - 1 : d = (r.depth + by) % DepthMod
  <2>1. r.depth \in 0 .. DepthMod - 1
    BY ReaderFields
  <2>2. r.depth + by \in Int
    BY <2>1, DepthModAssumption
  <2> QED BY <2>2, DepthModAssumption
<1>2. b = [r EXCEPT !.depth = d]
  BY <1>1 DEF Deeper
<1> QED BY <1>1, <1>2, DepthSet

\* What a loop that begins with r goes through.
Turns(r) ==
  {a \in [ok : BOOLEAN, r : ReadersOf(r.ls.in), count : Int] : Past(r, a.r)}

\* What a turn of a bracket loop may answer: any skip, any count.
LEMMA TurnOf ==
  ASSUME NEW r, NEW x, Past(r, x), NEW o \in BOOLEAN, NEW n \in Int,
         NEW a, a = [ok |-> o, r |-> x, count |-> n]
  PROVE  a \in Turns(r)
<1>1. x \in ReadersOf(r.ls.in)
  BY DEF Past, Reader
<1> QED BY <1>1 DEF Turns

\* A turn that leaves the loop.
LEMMA EndsOf ==
  ASSUME NEW r, NEW x, Past(r, x)
  PROVE  Ends(x) \in Turns(r)
<1>1. PICK n \in Int : n = 0
  OBVIOUS
<1>2. Ends(x) = [ok |-> FALSE, r |-> x, count |-> n]
  BY <1>1 DEF Ends
<1> QED BY <1>2, TurnOf

\* A turn that goes round again.
LEMMA GoesOnOf ==
  ASSUME NEW r, NEW x, Past(r, x), NEW n \in Int
  PROVE  GoesOn(x, n) \in Turns(r)
<1>1. x.ok \in BOOLEAN
  BY ReaderFields DEF Past
<1> QED BY <1>1, TurnOf DEF GoesOn

\* From a character that was found.
LEMMA PastFound ==
  ASSUME NEW r, Reader(r), NEW s, Answered(r.ls, s, Brackets),
         NEW b, Reader(b), Over(s.ls, b.ls),
         b.node \in {r.node, "Value", "Error", "EndObject", "EndArray", "EndDocument"}
  PROVE  Past(r, b)
<1>1. Within(r.ls)
  BY ReaderFields
<1>2. Settled(r.ls) => Over(r.ls, b.ls)
  BY <1>1, OverIsOrder DEF Answered, Over
<1> QED BY <1>2 DEF Past, Over, Onward, Answered

\* Where nothing was found.
LEMMA PastNothing ==
  ASSUME NEW r, Reader(r), Midst(r) \/ Settled(r.ls), NEW s, Answered(r.ls, s, Brackets),
         s.found = NUL, NEW b, Retold(r, b), b.ls = s.ls,
         b.node = r.node \/ (b.node = "Error" /\ s.ls.state = IOError)
  PROVE  Past(r, b)
<1>1. Midst(b) \/ Settled(b.ls)
  <2>1. CASE Eof(s.ls) \/ s.ls.state = IOError
    BY <2>1 DEF Settled, Eof, EndOfInput, IOError, Ok, OutOfMemory
  <2>2. CASE ~ (Eof(s.ls) \/ s.ls.state = IOError)
    BY <2>2 DEF Answered, Retold, Midst
  <2> QED BY <2>1, <2>2
<1> QED BY <1>1 DEF Past, Over, Answered, Retold

\* What a turn tells of where it has got from s, where the search that opens
\* it has ended.  At the end of the input the search may find the bracket again
\* that was read last, and then the count at least goes down.
Landings == {"EndObject", "EndArray", "EndDocument"}
Turned(r, s, count, a) ==
  /\ s.found = NUL => ~a.ok /\ a.r.ls = s.ls /\ a.r.node \in {r.node, "Error"}
  /\ s.found # NUL =>
       /\ a.ok => a.count <= count + 1
       /\ ~a.ok => a.r.node # "Object"
       /\ a.ok \/ a.r.node \in Landings =>
            Ahead(s.ls, a.r.ls) \/ (Eof(s.ls) /\ (a.ok => count > 1 /\ a.count = count - 1))

\* Where a search that finds something leaves the source.
LEMMA FoundHere ==
  ASSUME NEW r, NEW s, Answered(r.ls, s, Brackets), s.found # NUL
  PROVE  s.ls.current # NUL /\ (Cur(s.ls) = s.ls.at \/ Eof(s.ls))
<1>1. Within(s.ls) /\ s.ls.current # NUL
  BY DEF Answered
<1>2. s.ls.at \in Nat
  BY <1>1, WithinTypes
<1> QED BY <1>1, <1>2 DEF Cur

\* A turn that goes on past what it has found, or fails on the way.
LEMMA TurnedOn ==
  ASSUME NEW r, NEW s, s.found # NUL, NEW x, x.ok => Ahead(s.ls, x.ls),
         x.ok \/ x.node \in {"Value", "Error"}, NEW count \in Int, NEW n \in Int, n <= count + 1
  PROVE  Turned(r, s, count, GoesOn(x, n))
<1>1. PICK a : a = GoesOn(x, n)
  OBVIOUS
<1>2. a.ok = x.ok /\ a.r = x /\ a.count = n
  BY <1>1 DEF GoesOn
<1>3. ~a.ok => a.r.node # "Object" /\ a.r.node \notin Landings
  BY <1>2 DEF Landings
<1> QED BY <1>1, <1>2, <1>3 DEF Turned

\* A turn that has found a closing bracket and still counts open ones.
LEMMA TurnedBack ==
  ASSUME NEW r, NEW s, s.found # NUL, NEW x, Ahead(s.ls, x.ls) \/ Eof(s.ls),
         x.ok \/ x.node = "Error", NEW count \in Int, count > 1
  PROVE  Turned(r, s, count, GoesOn(x, count - 1))
<1>1. PICK n : n = count - 1
  OBVIOUS
<1>2. PICK a : a = GoesOn(x, n)
  OBVIOUS
<1>3. a.ok = x.ok /\ a.r = x /\ a.count = n
  BY <1>2 DEF GoesOn
<1>4. ~a.ok => a.r.node # "Object" /\ a.r.node \notin Landings
  BY <1>3 DEF Landings
<1>5. n <= count + 1
  BY <1>1
<1>6. Turned(r, s, count, a)
  BY <1>1, <1>3, <1>4, <1>5 DEF Turned
<1> QED BY <1>1, <1>2, <1>6

\* A turn that ends the loop.
LEMMA TurnedOut ==
  ASSUME NEW r, NEW s, NEW x, NEW count \in Int,
         \/ s.found = NUL /\ x.ls = s.ls /\ x.node \in {r.node, "Error"}
         \/ s.found # NUL /\ (Ahead(s.ls, x.ls) \/ Eof(s.ls)) /\ x.node # "Object"
  PROVE  Turned(r, s, count, Ends(x))
<1>1. PICK a : a = Ends(x)
  OBVIOUS
<1>2. a.ok = FALSE /\ a.r = x
  BY <1>1 DEF Ends
<1> QED BY <1>1, <1>2 DEF Turned

\* One turn of skipObjectPart's loop, for each bracket, quote or end it may find.
LEMMA SkipObjectTurnIs ==
  ASSUME NEW r, Reader(r), Midst(r) \/ Settled(r.ls), NEW s, Answered(r.ls, s, Brackets),
         NEW o, o = On(r, s.ls), NEW count \in Int, NEW a, a = SkipObjectTurn(s.found, o, count)
  PROVE  a \in Turns(r) /\ Turned(r, s, count, a)
<1>1. Reader(o) /\ Retold(r, o) /\ o.ls = s.ls /\ o.node = r.node /\ Within(s.ls)
  BY OnIs, RetoldOn DEF Answered
<1>2. PICK up, down : up = Deeper(o, 1) /\ down = Deeper(o, -1)
  OBVIOUS
<1>3. Reader(up) /\ up.ls = s.ls /\ up.node = r.node
      /\ Reader(down) /\ down.ls = s.ls /\ down.node = r.node
  BY <1>1, <1>2, DeeperIs
<1>4. PICK node \in {"EndDocument", "EndObject"} :
        node = IF Eof(s.ls) THEN "EndDocument" ELSE "EndObject"
  OBVIOUS
<1>5. PICK ended : ended = [down EXCEPT !.node = node]
  OBVIOUS
<1>6. PICK nothing, string, brace, bracket, eaten, on :
        /\ nothing = SourceFailed(o) /\ string = SkipString(o)
        /\ brace = StepOver(up, "UNTERMINATED_OBJECT")
        /\ bracket = StepOver(o, "UNTERMINATED_ARRAY")
        /\ eaten = Eat(ended) /\ on = Arrive(down, Advance(s.ls))
  OBVIOUS
<1>7. \/ s.found = NUL /\ a = Ends(nothing)
      \/ s.found # NUL /\ s.found = "\"" /\ a = GoesOn(string, count)
      \/ s.found # NUL /\ a \in {GoesOn(brace, count + 1), GoesOn(bracket, count + 1),
                                 GoesOn(bracket, count - 1), Ends(eaten)}
      \/ s.found # NUL /\ count > 1 /\ a = GoesOn(on, count - 1)
  <2>1. PICK a1, a2, a3, a4, a5, a6, a7 :
          /\ a1 = Ends(nothing) /\ a2 = GoesOn(string, count) /\ a3 = GoesOn(brace, count + 1)
          /\ a4 = GoesOn(bracket, count + 1) /\ a5 = GoesOn(bracket, count - 1)
          /\ a6 = Ends(eaten) /\ a7 = GoesOn(on, count - 1)
    OBVIOUS
  <2>2. a = CASE s.found = NUL  -> a1
              [] s.found = "\"" -> a2
              [] s.found = "{"  -> a3
              [] s.found = "["  -> a4
              [] s.found = "]"  -> a5
              [] s.found = "}" /\ count <= 1 -> a6
              [] s.found = "}" /\ count > 1 -> a7
    BY <1>1, <1>2, <1>4, <1>5, <1>6, <2>1, Zenon DEF SkipObjectTurn
  <2>3. s.found = NUL \/ (s.found \in {"\"", "{", "}", "[", "]"} /\ s.found # NUL)
    BY DEF Answered, Brackets
  <2>4. \/ s.found = NUL /\ a = a1
        \/ s.found # NUL /\ s.found = "\"" /\ a = a2
        \/ s.found # NUL /\ a \in {a3, a4, a5, a6}
        \/ s.found # NUL /\ count > 1 /\ a = a7
    <3>1. CASE s.found = NUL
      <4>1. NUL \notin {"\"", "{", "}", "[", "]"}
        BY DEF NUL
      <4> QED BY <2>2, <3>1, <4>1
    <3>2. CASE s.found \in {"\"", "{", "}", "[", "]"} /\ s.found # NUL
      <4>1. count <= 1 \/ count > 1
        OBVIOUS
      <4>2. CASE s.found = "\""
        BY <2>2, <3>2, <4>2
      <4>3. CASE s.found \in {"{", "[", "]", "}"}
        <5>1. s.found # "\""
          BY <4>3
        <5> QED BY <2>2, <3>2, <4>1, <4>3, <5>1
      <4> QED BY <3>2, <4>2, <4>3
    <3> QED BY <2>3, <3>1, <3>2
  <2> QED BY <2>1, <2>4
<1>8. ASSUME s.found = NUL PROVE Past(r, nothing) /\ Turned(r, s, count, Ends(nothing))
  <2>1. Retold(o, nothing) /\ nothing.ls = s.ls /\ nothing.node \in {o.node, "Error"}
        /\ (s.ls.state # IOError => nothing.node = o.node)
    BY <1>1, <1>6, SourceFailedIs
  <2>2. Past(r, nothing)
    BY <1>1, <1>8, <2>1, RetoldOn, PastNothing
  <2> QED BY <1>1, <1>8, <2>1, <2>2, TurnedOut
<1>9. ASSUME s.found = "\"", s.found # NUL
      PROVE  Past(r, string) /\ Turned(r, s, count, GoesOn(string, count))
  <2>1. Reader(string) /\ Over(s.ls, string.ls) /\ string.node \in {"Value", "Error"}
        /\ (string.ok => Ahead(s.ls, string.ls))
    BY <1>1, <1>6, <1>9, SkipStringIs DEF Answered
  <2>2. count <= count + 1
    OBVIOUS
  <2> QED BY <1>9, <2>1, <2>2, PastFound, TurnedOn
<1>10. /\ Past(r, brace) /\ Past(r, bracket)
       /\ ~brace.ok => brace.node = "Error"
       /\ ~bracket.ok => bracket.node = "Error"
       /\ s.found # NUL => /\ brace.ok => Ahead(s.ls, brace.ls)
                           /\ bracket.ok => Ahead(s.ls, bracket.ls)
  <2>1. "UNTERMINATED_OBJECT" \in Errors /\ "UNTERMINATED_ARRAY" \in Errors
    BY ErrorNames
  <2>2. /\ Reader(brace) /\ Stepped(s.ls, brace.ls) /\ brace.node \in {r.node, "Error"}
        /\ ~brace.ok => brace.node = "Error"
        /\ brace.ok /\ s.ls.current # NUL => Ahead(s.ls, brace.ls)
    BY <1>3, <1>6, <2>1, StepOverIs, RetoldOn
  <2>3. /\ Reader(bracket) /\ Stepped(s.ls, bracket.ls) /\ bracket.node \in {r.node, "Error"}
        /\ ~bracket.ok => bracket.node = "Error"
        /\ bracket.ok /\ s.ls.current # NUL => Ahead(s.ls, bracket.ls)
    BY <1>1, <1>6, <2>1, StepOverIs, RetoldOn
  <2>4. Past(r, brace) /\ Past(r, bracket)
    BY <2>2, <2>3, OverIsOrder, PastFound
  <2> QED BY <2>2, <2>3, <2>4, FoundHere
<1>11. Past(r, eaten) /\ eaten.node # "Object"
       /\ (s.found # NUL => Ahead(s.ls, eaten.ls) \/ Eof(s.ls))
  <2>1. node \in Nodes
    BY Names
  <2>2. Reader(ended) /\ ended.ls = s.ls /\ ended.node = node
    BY <1>3, <1>5, <2>1, NodeSet
  <2>3. Reader(eaten) /\ Stepped(s.ls, eaten.ls) /\ eaten.node \in {node, "Error"}
        /\ (Cur(s.ls) = s.ls.at => Ahead(s.ls, eaten.ls))
    BY <1>6, <2>2, EatIs, RetoldOn
  <2>4. Past(r, eaten)
    BY <2>3, OverIsOrder, PastFound
  <2> QED BY <2>3, <2>4, FoundHere
<1>12. Past(r, on) /\ (~on.ok => on.node = "Error")
       /\ (s.found # NUL => Ahead(s.ls, on.ls) \/ Eof(s.ls))
  <2>1. PICK n : n = Advance(s.ls)
    OBVIOUS
  <2>2. Stepped(s.ls, n) /\ Within(n) /\ (Cur(s.ls) = s.ls.at => Ahead(s.ls, n))
    BY <1>1, <2>1, AdvanceIsOnward, WithinOnward DEF Stepped
  <2>3. Reader(on) /\ on.ls = n /\ on.node \in {r.node, "Error"}
        /\ (~on.ok /\ Settled(n) /\ n.state # Initial => on.node = "Error")
    BY <1>3, <1>6, <2>1, <2>2, ArriveIs, RetoldOn
  <2>4. Settled(n) /\ n.state # Initial
    BY <2>2, CalmIsSettled DEF Stepped, Calm, Paused
  <2>5. Past(r, on)
    BY <2>2, <2>3, OverIsOrder, PastFound
  <2> QED BY <2>2, <2>3, <2>4, <2>5, FoundHere
<1>13. count + 1 \in Int /\ count - 1 \in Int /\ count + 1 <= count + 1 /\ count - 1 <= count + 1
  OBVIOUS
<1>14. a \in Turns(r)
  BY <1>7, <1>8, <1>9, <1>10, <1>11, <1>12, <1>13, EndsOf, GoesOnOf
<1>15. s.found # NUL => /\ Turned(r, s, count, GoesOn(brace, count + 1))
                        /\ Turned(r, s, count, GoesOn(bracket, count + 1))
                        /\ Turned(r, s, count, GoesOn(bracket, count - 1))
                        /\ Turned(r, s, count, Ends(eaten))
                        /\ count > 1 => Turned(r, s, count, GoesOn(on, count - 1))
  BY <1>10, <1>11, <1>12, <1>13, TurnedOn, TurnedOut, TurnedBack
<1>16. Turned(r, s, count, a)
  BY <1>7, <1>8, <1>9, <1>15
<1> QED BY <1>14, <1>16

\* One turn of skipArrayPart's loop, for each bracket, quote or end it may find.
LEMMA SkipArrayTurnIs ==
  ASSUME NEW r, Reader(r), Midst(r) \/ Settled(r.ls), NEW s, Answered(r.ls, s, Brackets),
         NEW o, o = On(r, s.ls), NEW count \in Int, NEW a, a = SkipArrayTurn(s.found, o, count)
  PROVE  a \in Turns(r) /\ Turned(r, s, count, a)
<1>1. Reader(o) /\ Retold(r, o) /\ o.ls = s.ls /\ o.node = r.node /\ Within(s.ls)
  BY OnIs, RetoldOn DEF Answered
<1>2. PICK nothing, string, brace, bracket, eaten, on :
        /\ nothing = No(o) /\ string = SkipString(o)
        /\ brace = StepOver(o, "UNTERMINATED_OBJECT")
        /\ bracket = StepOver(o, "UNTERMINATED_ARRAY")
        /\ eaten = Eat(o) /\ on = Arrive(o, Advance(s.ls))
  OBVIOUS
<1>3. PICK up, down : up = Deeper(brace, 1) /\ down = Deeper(brace, -1)
  OBVIOUS
<1>4. PICK node \in {"EndDocument", "EndArray"} :
        node = IF Eof(eaten.ls) THEN "EndDocument" ELSE "EndArray"
  OBVIOUS
<1>5. PICK landed : landed = Land(eaten, node)
  OBVIOUS
<1>6. \/ s.found = NUL /\ a = Ends(nothing)
      \/ s.found # NUL /\ s.found = "\"" /\ a = GoesOn(string, count)
      \/ s.found # NUL /\ a \in {GoesOn(brace, count + 1), GoesOn(up, count + 1),
                                 GoesOn(brace, count - 1), GoesOn(down, count - 1),
                                 GoesOn(bracket, count + 1), Ends(landed)}
      \/ s.found # NUL /\ ~eaten.ok /\ a = Ends(eaten)
      \/ s.found # NUL /\ count > 1 /\ a = GoesOn(on, count - 1)
  <2>1. PICK opened, closed, left :
          /\ opened = Then(StepOver(o, "UNTERMINATED_OBJECT"), LAMBDA u : Deeper(u, 1))
          /\ closed = Then(StepOver(o, "UNTERMINATED_OBJECT"), LAMBDA u : Deeper(u, -1))
          /\ left = Then(Eat(o), LAMBDA u : Land(u, IF Eof(u.ls) THEN "EndDocument" ELSE "EndArray"))
    OBVIOUS
  <2>2. opened \in {brace, up} /\ closed \in {brace, down}
        /\ (left = landed \/ (~eaten.ok /\ left = eaten))
    BY <1>2, <1>3, <1>4, <1>5, <2>1 DEF Then
  <2>3. PICK a1, a2, a3, a4, a5, a6, a7 :
          /\ a1 = Ends(nothing) /\ a2 = GoesOn(string, count) /\ a3 = GoesOn(opened, count + 1)
          /\ a4 = GoesOn(closed, count - 1) /\ a5 = GoesOn(bracket, count + 1)
          /\ a6 = Ends(left) /\ a7 = GoesOn(on, count - 1)
    OBVIOUS
  <2>4. a = CASE s.found = NUL  -> a1
              [] s.found = "\"" -> a2
              [] s.found = "{"  -> a3
              [] s.found = "}"  -> a4
              [] s.found = "["  -> a5
              [] s.found = "]" /\ count <= 1 -> a6
              [] s.found = "]" /\ count > 1 -> a7
    BY <1>1, <1>2, <2>1, <2>3, Zenon DEF SkipArrayTurn
  <2>5. s.found = NUL \/ (s.found \in {"\"", "{", "}", "[", "]"} /\ s.found # NUL)
    BY DEF Answered, Brackets
  <2>6. \/ s.found = NUL /\ a = a1
        \/ s.found # NUL /\ s.found = "\"" /\ a = a2
        \/ s.found # NUL /\ a \in {a3, a4, a5, a6}
        \/ s.found # NUL /\ count > 1 /\ a = a7
    <3>1. CASE s.found = NUL
      <4>1. NUL \notin {"\"", "{", "}", "[", "]"}
        BY DEF NUL
      <4> QED BY <2>4, <3>1, <4>1
    <3>2. CASE s.found \in {"\"", "{", "}", "[", "]"} /\ s.found # NUL
      <4>1. count <= 1 \/ count > 1
        OBVIOUS
      <4>2. CASE s.found = "\""
        BY <2>4, <3>2, <4>2
      <4>3. CASE s.found \in {"{", "[", "]", "}"}
        <5>1. s.found # "\""
          BY <4>3
        <5> QED BY <2>4, <3>2, <4>1, <4>3, <5>1
      <4> QED BY <3>2, <4>2, <4>3
    <3> QED BY <2>5, <3>1, <3>2
  <2> QED BY <2>2, <2>3, <2>6
<1>7. ASSUME s.found = NUL PROVE Past(r, nothing) /\ Turned(r, s, count, Ends(nothing))
  <2>1. Retold(o, nothing) /\ nothing.ls = s.ls /\ nothing.node = o.node
    BY <1>1, <1>2, NoIs
  <2>2. Past(r, nothing)
    BY <1>1, <1>7, <2>1, RetoldOn, PastNothing
  <2> QED BY <1>1, <1>7, <2>1, <2>2, TurnedOut
<1>8. ASSUME s.found = "\"", s.found # NUL
      PROVE  Past(r, string) /\ Turned(r, s, count, GoesOn(string, count))
  <2>1. Reader(string) /\ Over(s.ls, string.ls) /\ string.node \in {"Value", "Error"}
        /\ (string.ok => Ahead(s.ls, string.ls))
    BY <1>1, <1>2, <1>8, SkipStringIs DEF Answered
  <2>2. count <= count + 1
    OBVIOUS
  <2> QED BY <1>8, <2>1, <2>2, PastFound, TurnedOn
<1>9. /\ Past(r, brace) /\ Past(r, bracket) /\ Past(r, up) /\ Past(r, down)
      /\ \A x \in {brace, bracket, up, down} :
           /\ x.ok \/ x.node \in {"Value", "Error"}
           /\ s.found # NUL /\ x.ok => Ahead(s.ls, x.ls)
  <2>1. "UNTERMINATED_OBJECT" \in Errors /\ "UNTERMINATED_ARRAY" \in Errors
    BY ErrorNames
  <2>2. /\ Reader(brace) /\ Stepped(s.ls, brace.ls) /\ brace.node \in {r.node, "Error"}
        /\ ~brace.ok => brace.node = "Error"
        /\ brace.ok /\ s.ls.current # NUL => Ahead(s.ls, brace.ls)
    BY <1>1, <1>2, <2>1, StepOverIs, RetoldOn
  <2>3. /\ Reader(bracket) /\ Stepped(s.ls, bracket.ls) /\ bracket.node \in {r.node, "Error"}
        /\ ~bracket.ok => bracket.node = "Error"
        /\ bracket.ok /\ s.ls.current # NUL => Ahead(s.ls, bracket.ls)
    BY <1>1, <1>2, <2>1, StepOverIs, RetoldOn
  <2>4. Reader(up) /\ up.ls = brace.ls /\ up.node = brace.node /\ up.ok = brace.ok
        /\ Reader(down) /\ down.ls = brace.ls /\ down.node = brace.node /\ down.ok = brace.ok
    BY <1>3, <2>2, DeeperIs
  <2>5. Past(r, brace) /\ Past(r, bracket) /\ Past(r, up) /\ Past(r, down)
    BY <2>2, <2>3, <2>4, OverIsOrder, PastFound
  <2>6. s.found # NUL => s.ls.current # NUL
    BY FoundHere
  <2> QED BY <2>2, <2>3, <2>4, <2>5, <2>6
<1>10. /\ Past(r, eaten) /\ Past(r, landed) /\ landed.node # "Object"
       /\ ~eaten.ok => eaten.node # "Object"
       /\ s.found # NUL => /\ Ahead(s.ls, eaten.ls) \/ Eof(s.ls)
                           /\ Ahead(s.ls, landed.ls) \/ Eof(s.ls)
  <2>1. Reader(eaten) /\ Stepped(s.ls, eaten.ls) /\ eaten.node \in {r.node, "Error"}
        /\ (Cur(s.ls) = s.ls.at => Ahead(s.ls, eaten.ls)) /\ (~eaten.ok => eaten.node = "Error")
    BY <1>1, <1>2, EatIs, RetoldOn
  <2>2. node \in Nodes
    BY Names
  <2>3. Reader(landed) /\ landed.ls = eaten.ls /\ landed.node = node
    BY <1>5, <2>1, <2>2, LandIs, RetoldOn
  <2>4. Past(r, eaten) /\ Past(r, landed)
    BY <2>1, <2>3, OverIsOrder, PastFound
  <2> QED BY <2>1, <2>3, <2>4, FoundHere
<1>11. Past(r, on) /\ (~on.ok => on.node = "Error")
       /\ (s.found # NUL => Ahead(s.ls, on.ls) \/ Eof(s.ls))
  <2>1. PICK n : n = Advance(s.ls)
    OBVIOUS
  <2>2. Stepped(s.ls, n) /\ Within(n) /\ (Cur(s.ls) = s.ls.at => Ahead(s.ls, n))
    BY <1>1, <2>1, AdvanceIsOnward, WithinOnward DEF Stepped
  <2>3. Reader(on) /\ on.ls = n /\ on.node \in {r.node, "Error"}
        /\ (~on.ok /\ Settled(n) /\ n.state # Initial => on.node = "Error")
    BY <1>1, <1>2, <2>1, <2>2, ArriveIs, RetoldOn
  <2>4. Settled(n) /\ n.state # Initial
    BY <2>2, CalmIsSettled DEF Stepped, Calm, Paused
  <2>5. Past(r, on)
    BY <2>2, <2>3, OverIsOrder, PastFound
  <2> QED BY <2>2, <2>3, <2>4, <2>5, FoundHere
<1>12. count + 1 \in Int /\ count - 1 \in Int /\ count + 1 <= count + 1 /\ count - 1 <= count + 1
  OBVIOUS
<1>13. a \in Turns(r)
  BY <1>6, <1>7, <1>8, <1>9, <1>10, <1>11, <1>12, EndsOf, GoesOnOf
<1>14. s.found # NUL => /\ Turned(r, s, count, GoesOn(brace, count + 1))
                        /\ Turned(r, s, count, GoesOn(up, count + 1))
                        /\ Turned(r, s, count, GoesOn(brace, count - 1))
                        /\ Turned(r, s, count, GoesOn(down, count - 1))
                        /\ Turned(r, s, count, GoesOn(bracket, count + 1))
                        /\ Turned(r, s, count, Ends(landed))
                        /\ ~eaten.ok => Turned(r, s, count, Ends(eaten))
                        /\ count > 1 => Turned(r, s, count, GoesOn(on, count - 1))
  BY <1>9, <1>10, <1>11, <1>12, TurnedOn, TurnedOut, TurnedBack
<1>15. Turned(r, s, count, a)
  BY <1>6, <1>7, <1>8, <1>14
<1> QED BY <1>13, <1>15

-----------------------------------------------------------------------------
(* The loops themselves.                                                     *)

ObjectTurn(acc) == SkipObjectRound(acc, SkipToAny(acc.r.ls, Brackets))
ArrayTurn(acc) == SkipArrayRound(acc, SkipToAny(acc.r.ls, Brackets))
SkippingObject == INSTANCE LoopProofs WITH Step <- ObjectTurn
SkippingArray == INSTANCE LoopProofs WITH Step <- ArrayTurn

\* A turn after a turn is a turn of the whole loop.
LEMMA TurnsOn ==
  ASSUME NEW r, Reader(r), NEW a \in Turns(r), NEW x, x = a.r
  PROVE  Past(r, x) /\ a.count \in Int /\ \A b \in Turns(x) : b \in Turns(r)
<1>1. Past(r, x) /\ a.count \in Int
  BY DEF Turns
<1>2. ASSUME NEW b \in Turns(x) PROVE b \in Turns(r)
  <2>1. Past(r, b.r)
    BY <1>1, PastOn DEF Turns
  <2>2. x.ls.in = r.ls.in
    BY <1>1 DEF Past
  <2> QED BY <2>1, <2>2 DEF Turns
<1> QED BY <1>1, <1>2

\* A turn of skipObjectPart with the search that opens it.
LEMMA ObjectTurnIs ==
  ASSUME NEW r, Reader(r), NEW a \in Turns(r)
  PROVE  ObjectTurn(a) \in Turns(r)
<1>1. PICK x : x = a.r
  OBVIOUS
<1>2. Past(r, x) /\ a.count \in Int /\ \A b \in Turns(x) : b \in Turns(r)
  BY <1>1, TurnsOn
<1>3. Reader(x) /\ (Midst(x) \/ Settled(x.ls)) /\ x.ls.state # Initial /\ Within(x.ls)
  BY <1>2, ReaderFields DEF Past
<1>4. PICK s : s = SkipToAny(x.ls, Brackets)
  OBVIOUS
<1>5. Answered(x.ls, s, Brackets)
  BY <1>3, <1>4, SkipToAnyKeeps
<1>6. PICK o : o = On(x, s.ls)
  OBVIOUS
<1>7. PICK b : b = SkipObjectTurn(s.found, o, a.count)
  OBVIOUS
<1>8. b \in Turns(x)
  BY <1>2, <1>3, <1>5, <1>6, <1>7, SkipObjectTurnIs
<1>9. ObjectTurn(a) = b
  BY <1>1, <1>4, <1>6, <1>7 DEF ObjectTurn, SkipObjectRound
<1> QED BY <1>2, <1>8, <1>9

\* A turn of skipArrayPart with the search that opens it.
LEMMA ArrayTurnIs ==
  ASSUME NEW r, Reader(r), NEW a \in Turns(r)
  PROVE  ArrayTurn(a) \in Turns(r)
<1>1. PICK x : x = a.r
  OBVIOUS
<1>2. Past(r, x) /\ a.count \in Int /\ \A b \in Turns(x) : b \in Turns(r)
  BY <1>1, TurnsOn
<1>3. Reader(x) /\ (Midst(x) \/ Settled(x.ls)) /\ x.ls.state # Initial /\ Within(x.ls)
  BY <1>2, ReaderFields DEF Past
<1>4. PICK s : s = SkipToAny(x.ls, Brackets)
  OBVIOUS
<1>5. Answered(x.ls, s, Brackets)
  BY <1>3, <1>4, SkipToAnyKeeps
<1>6. PICK o : o = On(x, s.ls)
  OBVIOUS
<1>7. PICK b : b = SkipArrayTurn(s.found, o, a.count)
  OBVIOUS
<1>8. b \in Turns(x)
  BY <1>2, <1>3, <1>5, <1>6, <1>7, SkipArrayTurnIs
<1>9. ArrayTurn(a) = b
  BY <1>1, <1>4, <1>6, <1>7 DEF ArrayTurn, SkipArrayRound
<1> QED BY <1>2, <1>8, <1>9

\* Where a loop starts from.
LEMMA SkipStarts ==
  ASSUME NEW r, Reader(r), r.ls.state # Initial, Midst(r) \/ Settled(r.ls), NEW count \in Int,
         NEW start, start = [ok |-> TRUE, r |-> ClearError(r), count |-> count]
  PROVE  start \in Turns(r) /\ 2 * Left(r.ls) \in Nat
<1>1. PICK c : c = ClearError(r)
  OBVIOUS
<1>2. Retold(r, c) /\ c.ls = r.ls /\ c.node = r.node
  BY <1>1, ClearErrorIs
<1>3. Within(r.ls) /\ Left(r.ls) \in Nat
  BY ReaderFields, LeftIsNat
<1>4. Past(r, c)
  BY <1>2, <1>3, OverIsOrder DEF Past, Retold, Midst
<1>5. start = [ok |-> TRUE, r |-> c, count |-> count]
  BY <1>1
<1>6. start \in Turns(r)
  BY <1>4, <1>5 DEF Turns, Past, Reader
<1> QED BY <1>3, <1>6

\* skipObjectPart is a skip, however many turns its loop takes.
LEMMA SkipObjectPartIs ==
  ASSUME NEW r, Reader(r), r.ls.state # Initial, Midst(r) \/ Settled(r.ls), NEW count \in Int,
         NEW b, b = SkipObjectPart(r, count)
  PROVE  Past(r, b)
<1> DEFINE S == Turns(r)
           start == [ok |-> TRUE, r |-> ClearError(r), count |-> count]
           bound == 2 * Left(r.ls)
<1>1. start \in S /\ bound \in Nat
  BY SkipStarts
<1>2. \A a \in S : a.ok => ObjectTurn(a) \in S
  BY ObjectTurnIs
<1>3. b = SkippingObject!WhileOk(ObjectTurn, start, bound).r
  BY DEF SkipObjectPart, SkipLoop, WhileOk, Repeat, SkippingObject!WhileOk, SkippingObject!Repeat,
         ObjectTurn, start
<1> HIDE DEF S, start, bound
<1>4. SkippingObject!WhileOk(ObjectTurn, start, bound) \in S
  BY <1>1, <1>2, SkippingObject!LoopStays
<1> QED BY <1>3, <1>4 DEF S, Turns

\* skipArrayPart is a skip, however many turns its loop takes.
LEMMA SkipArrayPartIs ==
  ASSUME NEW r, Reader(r), r.ls.state # Initial, Midst(r) \/ Settled(r.ls), NEW count \in Int,
         NEW b, b = SkipArrayPart(r, count)
  PROVE  Past(r, b)
<1> DEFINE S == Turns(r)
           start == [ok |-> TRUE, r |-> ClearError(r), count |-> count]
           bound == 2 * Left(r.ls)
<1>1. start \in S /\ bound \in Nat
  BY SkipStarts
<1>2. \A a \in S : a.ok => ArrayTurn(a) \in S
  BY ArrayTurnIs
<1>3. b = SkippingArray!WhileOk(ArrayTurn, start, bound).r
  BY DEF SkipArrayPart, SkipLoop, WhileOk, Repeat, SkippingArray!WhileOk, SkippingArray!Repeat,
         ArrayTurn, start
<1> HIDE DEF S, start, bound
<1>4. SkippingArray!WhileOk(ArrayTurn, start, bound) \in S
  BY <1>1, <1>2, SkippingArray!LoopStays
<1> QED BY <1>3, <1>4 DEF S, Turns

-----------------------------------------------------------------------------
(* The loops of a reader in an object: they end before the bound of the model *)
(* does, at a bracket further on or where there is nothing left to search.   *)

\* Where the search for a bracket finds none.
Barren(l) == SkipToAny(l, Brackets).found = NUL

\* A reader in an object has input to search, or has searched it all.
Searchable(r) == r.node = "Object" /\ Eof(r.ls) => Barren(r.ls)
InObject(r) ==
  /\ Reader(r) /\ r.node = "Object" /\ Settled(r.ls) /\ r.ls.state # Initial
  /\ Searchable(r)

\* What a loop goes through that begins with a reader in an object.
Searches(r) ==
  {a \in Turns(r) :
     /\ a.ok => a.r.ls = r.ls \/ Ahead(r.ls, a.r.ls)
     /\ a.r.node \in Landings => Ahead(r.ls, a.r.ls)
     /\ ~a.ok /\ a.r.node = "Object" /\ Eof(a.r.ls) => Barren(a.r.ls)}

\* What is left of the loop: the input to come, where every byte may be a
\* bracket to count and to close, and the brackets that are open.
ToSearch(a) ==
  2 * (Len(a.r.ls.in) + 1 - Cur(a.r.ls)) + (IF a.count > 1 THEN a.count - 1 ELSE 0)

\* How far the readers of a loop are, in numbers.
LEMMA SearchCursors ==
  ASSUME NEW r, InObject(r), NEW a \in Searches(r), NEW x, x = a.r
  PROVE  /\ Past(r, x) /\ Over(r.ls, x.ls) /\ Reader(x) /\ Within(x.ls) /\ Settled(x.ls)
         /\ x.ls.state # Initial /\ x.ls.in = r.ls.in /\ Within(r.ls)
         /\ a.count \in Int /\ Len(r.ls.in) \in Nat /\ Cur(r.ls) \in Nat /\ Cur(x.ls) \in Nat
         /\ Cur(r.ls) <= Cur(x.ls) /\ Cur(x.ls) <= Len(r.ls.in) + 1
         /\ \A b \in Turns(x) : b \in Turns(r)
<1>1. Reader(r) /\ Settled(r.ls) /\ Within(r.ls)
  BY ReaderFields DEF InObject
<1>2. Past(r, x) /\ a.count \in Int /\ \A b \in Turns(x) : b \in Turns(r)
  BY <1>1, TurnsOn DEF Searches
<1>3. Over(r.ls, x.ls) /\ Reader(x) /\ x.ls.state # Initial /\ x.ls.in = r.ls.in
  BY <1>1, <1>2 DEF Past
<1>4. Within(x.ls) /\ Settled(x.ls) /\ Cur(r.ls) <= Cur(x.ls)
  BY <1>3 DEF Over, Onward
<1>5. Len(r.ls.in) \in Nat /\ Cur(r.ls) \in Nat
  BY <1>1, WithinTypes
<1>6. PICK l : l = x.ls
  OBVIOUS
<1>7. Within(l) /\ l.in = r.ls.in
  BY <1>3, <1>4, <1>6
<1>8. Len(l.in) \in Nat /\ l.at \in Nat /\ Cur(l) \in Nat /\ l.at <= Len(l.in) /\ Cur(l) <= l.at + 1
  BY <1>7, WithinTypes
<1>9. Cur(x.ls) \in Nat /\ Cur(x.ls) <= Len(r.ls.in) + 1
  BY <1>6, <1>7, <1>8
<1> QED BY <1>1, <1>2, <1>3, <1>4, <1>5, <1>9

\* A turn leads on, and what is left of the loop goes down.
LEMMA SearchGoesOn ==
  ASSUME NEW r, InObject(r), NEW a \in Searches(r), a.ok, NEW x, x = a.r,
         NEW s, s = SkipToAny(x.ls, Brackets), NEW b \in Turns(x), Turned(x, s, a.count, b)
  PROVE  b \in Searches(r) /\ (b.ok => ToSearch(b) < ToSearch(a))
<1>1. /\ Reader(x) /\ Within(x.ls) /\ Settled(x.ls) /\ x.ls.state # Initial /\ x.ls.in = r.ls.in
      /\ a.count \in Int /\ Len(r.ls.in) \in Nat /\ Cur(r.ls) \in Nat /\ Cur(x.ls) \in Nat
      /\ Cur(r.ls) <= Cur(x.ls) /\ b \in Turns(r)
  BY SearchCursors
<1>2. PICK y : y = b.r
  OBVIOUS
<1>3. Past(x, y) /\ b.count \in Int
  BY <1>1, <1>2, TurnsOn DEF Turns
<1>4. /\ Cur(x.ls) <= Cur(y.ls) /\ y.ls.in = r.ls.in /\ Cur(y.ls) \in Nat
      /\ Cur(y.ls) <= Len(r.ls.in) + 1
  <2>1. Within(y.ls) /\ Cur(x.ls) <= Cur(y.ls) /\ y.ls.in = r.ls.in
    BY <1>1, <1>3 DEF Past, Over, Onward
  <2> QED BY <2>1, WithinTypes
<1>5. Answered(x.ls, s, Brackets)
  BY <1>1, SkipToAnyKeeps
<1>6. Within(s.ls) /\ Cur(x.ls) <= Cur(s.ls) /\ Cur(s.ls) \in Nat
  <2>1. Within(s.ls) /\ Cur(x.ls) <= Cur(s.ls)
    BY <1>1, <1>5 DEF Answered, Onward
  <2> QED BY <2>1, WithinTypes
<1>7. /\ x.ls = r.ls \/ Ahead(r.ls, x.ls)
      /\ x.node \in Landings => Ahead(r.ls, x.ls)
  BY DEF Searches
<1>8. CASE s.found = NUL
  <2>1. ~b.ok /\ y.ls = s.ls /\ y.node \in {x.node, "Error"}
    BY <1>2, <1>8 DEF Turned
  <2>2. Barren(y.ls)
    BY <1>1, <1>8, <2>1, FoundNothing DEF Barren
  <2>3. y.node \in Landings => Ahead(r.ls, y.ls)
    <3>1. "Error" \notin Landings
      BY DEF Landings
    <3> QED BY <1>1, <1>4, <1>7, <2>1, <3>1 DEF Ahead
  <2> QED BY <1>1, <1>2, <2>1, <2>2, <2>3 DEF Searches
<1>9. CASE s.found # NUL
  <2>1. Eof(s.ls) => Ahead(r.ls, x.ls)
    <3>1. Eof(s.ls) => Eof(x.ls)
      BY <1>5, <1>9 DEF Answered, Eof
    <3>2. Eof(x.ls) => x.ls # r.ls
      BY <1>9 DEF InObject, Searchable, Barren
    <3> QED BY <1>7, <3>1, <3>2
  <2>2. /\ b.ok => b.count <= a.count + 1
        /\ ~b.ok => y.node # "Object"
        /\ b.ok \/ y.node \in Landings =>
             Ahead(s.ls, y.ls) \/ (Eof(s.ls) /\ (b.ok => a.count > 1 /\ b.count = a.count - 1))
    BY <1>2, <1>9 DEF Turned
  <2>3. b.ok \/ y.node \in Landings => Ahead(r.ls, y.ls)
    BY <1>1, <1>4, <1>6, <2>1, <2>2 DEF Ahead
  <2>4. b \in Searches(r)
    BY <1>1, <1>2, <2>2, <2>3 DEF Searches
  <2>5. ASSUME b.ok PROVE ToSearch(b) < ToSearch(a)
    <3>1. PICK n \in Nat, cx \in Nat, cy \in Nat, i \in Int, j \in Int :
            /\ n = Len(r.ls.in) /\ cx = Cur(x.ls) /\ cy = Cur(y.ls)
            /\ i = a.count /\ j = b.count
      BY <1>1, <1>3, <1>4
    <3>2. /\ ToSearch(a) = 2 * (n + 1 - cx) + (IF i > 1 THEN i - 1 ELSE 0)
          /\ ToSearch(b) = 2 * (n + 1 - cy) + (IF j > 1 THEN j - 1 ELSE 0)
      BY <1>1, <1>2, <1>4, <3>1 DEF ToSearch
    <3>3. cx <= cy /\ j <= i + 1 /\ (cx < cy \/ (i > 1 /\ j = i - 1))
      BY <1>4, <1>6, <2>2, <2>5, <3>1 DEF Ahead
    <3>4. PICK p \in Int, q \in Int :
            p = (IF i > 1 THEN i - 1 ELSE 0) /\ q = (IF j > 1 THEN j - 1 ELSE 0)
      OBVIOUS
    <3>5. q <= p + 1 /\ (i > 1 /\ j = i - 1 => q < p)
      BY <3>3, <3>4
    <3>6. ToSearch(a) = n + 1 - cx + (n + 1 - cx) + p /\ ToSearch(b) = n + 1 - cy + (n + 1 - cy) + q
      BY <3>2, <3>4
    <3> QED BY <3>3, <3>5, <3>6
  <2> QED BY <2>4, <2>5
<1> QED BY <1>8, <1>9

\* Where such a loop starts from, and that the bound of the model leaves it
\* all the turns it may take.
LEMMA SearchStarts ==
  ASSUME NEW r, InObject(r), NEW count \in Int, count <= 1,
         NEW start, start = [ok |-> TRUE, r |-> ClearError(r), count |-> count],
         NEW V, V = [a \in Searches(r) |-> ToSearch(a)]
  PROVE  /\ start \in Searches(r) /\ 2 * Left(r.ls) \in Nat
         /\ V \in [Searches(r) -> Nat] /\ V[start] <= 2 * Left(r.ls)
<1>1. Reader(r) /\ r.ls.state # Initial /\ Settled(r.ls) /\ Within(r.ls) /\ r.node = "Object"
  BY ReaderFields DEF InObject
<1>2. start \in Turns(r) /\ 2 * Left(r.ls) \in Nat
  BY <1>1, SkipStarts
<1>3. PICK c : c = ClearError(r)
  OBVIOUS
<1>4. c.ls = r.ls /\ c.node = r.node
  BY <1>1, <1>3, ClearErrorIs
<1>5. PICK t : t = TRUE
  OBVIOUS
<1>6. start.ok = t /\ start.r = c /\ start.count = count
  BY <1>3, <1>5
<1>7. start \in Searches(r)
  <2>1. "Object" \notin Landings
    BY DEF Landings
  <2> QED BY <1>1, <1>2, <1>4, <1>5, <1>6, <2>1 DEF Searches
<1>8. ASSUME NEW a \in Searches(r) PROVE ToSearch(a) \in Nat
  <2>1. PICK x : x = a.r
    OBVIOUS
  <2>2. /\ x.ls.in = r.ls.in /\ a.count \in Int /\ Len(r.ls.in) \in Nat /\ Cur(x.ls) \in Nat
        /\ Cur(x.ls) <= Len(r.ls.in) + 1
    BY <2>1, SearchCursors
  <2>3. PICK n \in Nat, cx \in Nat, i \in Int :
          n = Len(r.ls.in) /\ cx = Cur(x.ls) /\ i = a.count /\ cx <= n + 1
    BY <2>2
  <2>4. ToSearch(a) = 2 * (n + 1 - cx) + (IF i > 1 THEN i - 1 ELSE 0)
    BY <2>1, <2>2, <2>3 DEF ToSearch
  <2>5. PICK p \in Nat : p = (IF i > 1 THEN i - 1 ELSE 0)
    OBVIOUS
  <2>6. PICK d \in Nat : d = n + 1 - cx
    BY <2>3
  <2>7. ToSearch(a) = 2 * d + p
    BY <2>4, <2>5, <2>6
  <2> QED BY <2>5, <2>6, <2>7
<1>9. V \in [Searches(r) -> Nat]
  BY <1>8
<1>10. V[start] <= 2 * Left(r.ls)
  <2>1. V[start] = ToSearch(start)
    BY <1>7
  <2>2. PICK n \in Nat, at \in Nat, cr \in Nat :
          n = Len(r.ls.in) /\ at = r.ls.at /\ cr = Cur(r.ls) /\ at <= cr /\ at <= n
    BY <1>1, WithinTypes
  <2>3. ToSearch(start) = 2 * (n + 1 - cr)
    <3>1. ~ (count > 1)
      OBVIOUS
    <3>2. PICK z : z = ToSearch(start)
      OBVIOUS
    <3>3. z = 2 * (n + 1 - cr) + (IF count > 1 THEN count - 1 ELSE 0)
      BY <1>4, <1>6, <2>2, <3>2 DEF ToSearch
    <3> QED BY <2>2, <3>1, <3>2, <3>3
  <2>4. 2 * Left(r.ls) = 2 * (n - at + 2)
    BY <2>2 DEF Left
  <2>5. PICK v, left : v = V[start] /\ left = 2 * Left(r.ls)
    OBVIOUS
  <2>6. PICK e \in Int, f \in Int : e = n + 1 - cr /\ f = n - at + 2 /\ e <= f
    BY <2>2
  <2>7. v = 2 * e /\ left = 2 * f
    BY <2>1, <2>3, <2>4, <2>5, <2>6
  <2>8. v <= left
    BY <2>6, <2>7
  <2> QED BY <2>5, <2>8
<1> QED BY <1>2, <1>7, <1>9, <1>10

\* skipObjectPart and skipArrayPart from a reader in an object: they land
\* further on, and where they give up there is nothing left to search.
LEMMA SkipFromObjectIs ==
  ASSUME NEW r, InObject(r), NEW count \in Int, count <= 1,
         NEW b, b \in {SkipObjectPart(r, count), SkipArrayPart(r, count)}
  PROVE  /\ b.node \in Landings => Ahead(r.ls, b.ls)
         /\ Searchable(b)
<1> DEFINE S == Searches(r)
           V == [a \in S |-> ToSearch(a)]
           start == [ok |-> TRUE, r |-> ClearError(r), count |-> count]
           bound == 2 * Left(r.ls)
           objects == SkippingObject!WhileOk(ObjectTurn, start, bound)
           arrays == SkippingArray!WhileOk(ArrayTurn, start, bound)
<1>1. start \in S /\ bound \in Nat /\ V \in [S -> Nat] /\ V[start] <= bound
  BY SearchStarts
<1>2. ASSUME NEW a \in S, a.ok
      PROVE  /\ ObjectTurn(a) \in S /\ (ObjectTurn(a).ok => V[ObjectTurn(a)] < V[a])
             /\ ArrayTurn(a) \in S /\ (ArrayTurn(a).ok => V[ArrayTurn(a)] < V[a])
  <2>1. PICK x : x = a.r
    OBVIOUS
  <2>2. Reader(x) /\ Within(x.ls) /\ Settled(x.ls) /\ x.ls.state # Initial /\ a.count \in Int
    BY <1>2, <2>1, SearchCursors
  <2>3. PICK s : s = SkipToAny(x.ls, Brackets)
    OBVIOUS
  <2>4. Answered(x.ls, s, Brackets)
    BY <2>2, <2>3, SkipToAnyKeeps
  <2>5. PICK o : o = On(x, s.ls)
    OBVIOUS
  <2>6. PICK c, d : c = SkipObjectTurn(s.found, o, a.count) /\ d = SkipArrayTurn(s.found, o, a.count)
    OBVIOUS
  <2>7. c \in Turns(x) /\ Turned(x, s, a.count, c)
    BY <2>2, <2>4, <2>5, <2>6, SkipObjectTurnIs
  <2>8. d \in Turns(x) /\ Turned(x, s, a.count, d)
    BY <2>2, <2>4, <2>5, <2>6, SkipArrayTurnIs
  <2>9. c \in S /\ (c.ok => ToSearch(c) < ToSearch(a))
    BY <1>2, <2>1, <2>3, <2>7, SearchGoesOn
  <2>10. d \in S /\ (d.ok => ToSearch(d) < ToSearch(a))
    BY <1>2, <2>1, <2>3, <2>8, SearchGoesOn
  <2>11. ObjectTurn(a) = c /\ ArrayTurn(a) = d
    BY <2>1, <2>3, <2>5, <2>6 DEF ObjectTurn, ArrayTurn, SkipObjectRound, SkipArrayRound
  <2> QED BY <1>2, <2>9, <2>10, <2>11
<1>3. b = objects.r \/ b = arrays.r
  BY DEF SkipObjectPart, SkipArrayPart, SkipLoop, WhileOk, Repeat, SkippingObject!WhileOk,
         SkippingObject!Repeat, SkippingArray!WhileOk, SkippingArray!Repeat, ObjectTurn, ArrayTurn,
         start
<1> HIDE DEF S, V, start, bound
<1>4. objects \in S /\ ~objects.ok
  BY <1>1, <1>2, SkippingObject!LoopEnds
<1>5. arrays \in S /\ ~arrays.ok
  BY <1>1, <1>2, SkippingArray!LoopEnds
<1> QED BY <1>3, <1>4, <1>5 DEF S, Searches, Searchable

\* skipObjectOrArrayOrValuePart is a skip.
LEMMA SkipAnyIs ==
  ASSUME NEW r, Reader(r), Settled(r.ls), r.ls.state # Initial,
         NEW b, b = SkipObjectOrArrayOrValuePart(r)
  PROVE  Past(r, b)
<1>1. PICK array, object :
        array = EatBefore(r, "UNTERMINATED_ARRAY") /\ object = EatBefore(r, "UNTERMINATED_OBJECT")
  OBVIOUS
<1>2. /\ Reader(array) /\ Stepped(r.ls, array.ls) /\ array.node \in {r.node, "Error"}
      /\ Reader(object) /\ Stepped(r.ls, object.ls) /\ object.node \in {r.node, "Error"}
  <2>1. "UNTERMINATED_ARRAY" \in Errors /\ "UNTERMINATED_OBJECT" \in Errors
    BY ErrorNames
  <2> QED BY <1>1, <2>1, EatBeforeIs, RetoldOn
<1>3. Past(r, array) /\ Past(r, object)
  BY <1>2, OverIsOrder, OverIsPast
<1>4. PICK n : n = 1
  OBVIOUS
<1>5. PICK no, inArray, inObject, value :
        /\ no = No(r) /\ inArray = SkipArrayPart(array, n) /\ inObject = SkipObjectPart(object, n)
        /\ value = SkipValuePart(r)
  OBVIOUS
<1>6. b \in {no, array, inArray, object, inObject, value}
  <2>1. PICK pa, po :
          /\ pa = Then(EatBefore(r, "UNTERMINATED_ARRAY"), LAMBDA a : SkipArrayPart(a, 1))
          /\ po = Then(EatBefore(r, "UNTERMINATED_OBJECT"), LAMBDA a : SkipObjectPart(a, 1))
    OBVIOUS
  <2>2. pa \in {array, inArray} /\ po \in {object, inObject}
    BY <1>1, <1>4, <1>5, <2>1 DEF Then
  <2>3. b = CASE ~More(r.ls) -> no
              [] More(r.ls) /\ r.ls.current = "[" -> pa
              [] More(r.ls) /\ r.ls.current = "{" -> po
              [] OTHER -> value
    BY <1>5, <2>1, Zenon DEF SkipObjectOrArrayOrValuePart
  <2> QED BY <2>2, <2>3
<1>7. Past(r, no)
  <2>1. Retold(r, no) /\ no.ls = r.ls /\ no.node = r.node
    BY <1>5, NoIs
  <2> QED BY <2>1, ReaderFields, OverIsOrder, OverIsPast, RetoldOn
<1>8. Past(array, inArray) /\ Past(object, inObject)
  BY <1>2, <1>3, <1>4, <1>5, SkipArrayPartIs, SkipObjectPartIs DEF Past
<1>9. Past(r, inArray) /\ Past(r, inObject)
  BY <1>3, <1>8, PastOn
<1>10. Past(r, value)
  BY <1>5, SkipValuePartIs
<1> QED BY <1>3, <1>6, <1>7, <1>9, <1>10

-----------------------------------------------------------------------------
(* What the public functions are made of.                                    *)

\* What a call leaves of a reader that it has taken no further back.
Went(r, b) == Fit(b) /\ Onward(r.ls, b.ls) /\ (Searchable(r) => Searchable(b))

\* A fit reader is where it is.
LEMMA FitHere ==
  ASSUME NEW r, Fit(r)
  PROVE  /\ Reader(r) /\ Within(r.ls) /\ Went(r, r)
         /\ r.node # "ValuePart" => Settled(r.ls)
  BY ReaderFields, OnwardIsOrder DEF Fit, Went, Midst

\* Calls compose, and one that gets on is enough.
LEMMA WentOn ==
  ASSUME NEW r, Fit(r), NEW a, Went(r, a), NEW b, Went(a, b)
  PROVE  /\ Went(r, b)
         /\ Ahead(r.ls, a.ls) \/ Ahead(a.ls, b.ls) => Ahead(r.ls, b.ls)
<1>1. Within(r.ls)
  BY FitHere
<1> QED BY <1>1, OnwardIsOrder DEF Went

\* The call changes what it returns, and the error it tells of.
LEMMA RetoldIsFit ==
  ASSUME NEW r, Fit(r), NEW b, Retold(r, b), b.ls = r.ls, b.node = r.node
  PROVE  Went(r, b)
  BY FitHere DEF Went, Fit, Retold, Midst, Searchable

\* A skip leaves the reader fit.
LEMMA PastIsFit ==
  ASSUME NEW r, r.node # Unread, NEW b, Past(r, b),
         r.node = "Object" /\ Searchable(r) => Searchable(b)
  PROVE  /\ Fit(b) /\ b.ls.state # Initial /\ b.node # Unread
         /\ Searchable(r) => Searchable(b)
         /\ Settled(r.ls) => Went(r, b)
<1>1. b.node # Unread /\ (b.node = "Object" => r.node = "Object")
  BY DEF Past, Unread
<1> QED BY <1>1 DEF Past, Fit, Went, Over, Searchable

\* What read() does is what any call may do.
LEMMA LedIsWent ==
  ASSUME NEW r, NEW b, Led(r, b)
  PROVE  /\ Went(r, b) /\ Searchable(b) /\ b.ls.state # Initial
         /\ b.ok /\ r.node # "ValuePart" => Ahead(r.ls, b.ls)
  BY LedIsFit DEF Led, Went, Searchable

\* Starting the source, as every call of the interface does first.
LEMMA BeginIsFit ==
  ASSUME NEW r, Fit(r), NEW b, b = Begin(r)
  PROVE  Went(r, b) /\ b.ls.state # Initial /\ (b.ok => b.node = r.node)
<1>1. /\ Retold(r, b) /\ Onward(r.ls, b.ls) /\ b.ls.state # Initial
      /\ r.ls.state # Initial => b.ok /\ b.ls = r.ls
      /\ r.ls.state = Initial => Calm(b.ls)
      /\ b.ok => b.node = r.node
      /\ ~b.ok => b.node # "Object"
  BY BeginIs
<1>2. CASE r.ls.state = Initial
  <2>1. b.node # "Object"
    BY <1>1, <1>2 DEF Fit, Unread
  <2> QED BY <1>1, <1>2, <2>1, CalmIsSettled
          DEF Went, Fit, Retold, Calm, Paused, Eof, Searchable
<1>3. CASE r.ls.state # Initial
  BY <1>1, <1>3, RetoldIsFit
<1> QED BY <1>1, <1>2, <1>3

\* A read() at the end of a call.
LEMMA ThenReadIs ==
  ASSUME NEW r, Fit(r), r.ls.state # Initial, NEW b, b = ThenRead(r)
  PROVE  /\ Went(r, b) /\ b.ls.state # Initial
         /\ b.ok /\ r.node # "ValuePart" => Ahead(r.ls, b.ls)
<1>1. CASE ~r.ok
  <2>1. b = r
    BY <1>1 DEF ThenRead, Then
  <2> QED BY <1>1, <2>1, FitHere
<1>2. CASE r.ok
  <2>1. PICK x : x = Read(r)
    OBVIOUS
  <2>2. Led(r, x)
    BY <2>1, ReadIs
  <2>3. Went(r, x) /\ x.ls.state # Initial /\ (x.ok /\ r.node # "ValuePart" => Ahead(r.ls, x.ls))
        /\ Reader(x) /\ Fit(x)
    BY <2>2, LedIsWent DEF Led, Went
  <2>4. b = x \/ b = No(x)
    BY <1>2, <2>1 DEF ThenRead, Then, UnlessError
  <2>5. CASE b = No(x)
    <3>1. Retold(x, b) /\ b.ls = x.ls /\ b.node = x.node /\ b.ok = FALSE
      BY <2>3, <2>5, NoIs
    <3>2. Went(x, b)
      BY <2>3, <3>1, RetoldIsFit
    <3> QED BY <2>3, <3>1, <3>2, WentOn
  <2> QED BY <2>3, <2>4, <2>5
<1> QED BY <1>1, <1>2

\* The reads with which a call gets onto its node.
LEMMA EnterIs ==
  ASSUME NEW r, Fit(r), r.ls.state # Initial, NEW nodes, "ValuePart" \notin nodes,
         NEW b, b = Enter(r, nodes)
  PROVE  /\ Went(r, b) /\ b.ls.state # Initial
         /\ b.ok => (b.node = r.node /\ r.node \notin nodes) \/ Ahead(r.ls, b.ls)
<1>1. CASE r.node \in nodes
  <2>1. b = ThenRead(r) /\ r.node # "ValuePart"
    BY <1>1 DEF Enter
  <2> QED BY <2>1, ThenReadIs
<1>2. CASE r.node \notin nodes
  <2>1. b = Yes(r)
    BY <1>2 DEF Enter
  <2>2. Retold(r, b) /\ b.ls = r.ls /\ b.node = r.node
    BY <2>1, FitHere, YesIs
  <2> QED BY <1>2, <2>2, RetoldIsFit
<1> QED BY <1>1, <1>2

-----------------------------------------------------------------------------
(* skipSubtree().                                                            *)

\* The reads with which skipSubtree passes the rest of a chunked value.
LEMMA OverSubtreeIs ==
  ASSUME NEW r, Fit(r), r.ls.state # Initial, NEW b, b = OverSubtree(r)
  PROVE  /\ Went(r, b) /\ b.ls.state # Initial
         /\ b.ok => b.node # "ValuePart"
         /\ b.ok /\ r.node = "Object" /\ Searchable(r) /\ b.node \in Landings
              => Ahead(r.ls, b.ls)
<1>1. PICK n : n = 1
  OBVIOUS
<1>2. \/ r.node \in {"Value", "Field"} /\ b = SkipObjectOrArrayOrValuePart(r)
      \/ r.node = "Array" /\ b = SkipArrayPart(r, n)
      \/ r.node = "Object" /\ b = SkipObjectPart(r, n)
      \/ b = No(r)
  <2>1. PICK any, array, object, no :
          /\ any = SkipObjectOrArrayOrValuePart(r) /\ array = SkipArrayPart(r, 1)
          /\ object = SkipObjectPart(r, 1) /\ no = No(r)
    OBVIOUS
  <2>2. b = CASE r.node \in {"Value", "Field"} -> any
              [] r.node = "Array" -> array
              [] r.node = "Object" -> object
              [] OTHER -> no
    BY <2>1, Zenon DEF OverSubtree
  <2>3. \/ r.node \in {"Value", "Field"} /\ b = any
        \/ r.node = "Array" /\ b = array
        \/ r.node = "Object" /\ b = object
        \/ b = no
    BY <2>2
  <2>4. array = SkipArrayPart(r, n) /\ object = SkipObjectPart(r, n)
    BY <1>1, <2>1
  <2> QED BY <2>1, <2>3, <2>4
<1>3. CASE b = No(r)
  <2>1. Retold(r, b) /\ b.ls = r.ls /\ b.node = r.node /\ b.ok = FALSE
    BY <1>3, FitHere, NoIs
  <2> QED BY <2>1, RetoldIsFit
<1>4. CASE /\ r.node \in {"Value", "Field", "Array", "Object"} /\ Past(r, b)
           /\ r.node = "Object" /\ Searchable(r) => Searchable(b) /\ (b.node \in Landings => Ahead(r.ls, b.ls))
  <2>1. r.node # Unread /\ r.node # "ValuePart"
    BY <1>4 DEF Unread
  <2>2. Settled(r.ls)
    BY <2>1, FitHere
  <2>3. b.node # "ValuePart"
    BY <1>4, <2>1 DEF Past
  <2> QED BY <1>4, <2>1, <2>2, <2>3, PastIsFit
<1>5. r.node \in {"Value", "Field", "Array", "Object"} /\ b # No(r) =>
        /\ Past(r, b)
        /\ r.node = "Object" /\ Searchable(r) =>
             Searchable(b) /\ (b.node \in Landings => Ahead(r.ls, b.ls))
  <2>1. ASSUME r.node \in {"Value", "Field", "Array", "Object"}
        PROVE  Reader(r) /\ Settled(r.ls)
    <3>1. r.node # "ValuePart"
      BY <2>1
    <3> QED BY <3>1, FitHere
  <2>2. n \in Int /\ n <= 1
    BY <1>1
  <2>3. r.node = "Object" /\ Searchable(r) => InObject(r)
    BY <2>1 DEF InObject
  <2>4. r.node = "Object" /\ b # No(r) => b = SkipObjectPart(r, n)
    BY <1>2
  <2>5. r.node = "Object" /\ Searchable(r) /\ b # No(r) => Searchable(b) /\ (b.node \in Landings => Ahead(r.ls, b.ls))
    BY <2>2, <2>3, <2>4, SkipFromObjectIs
  <2> QED BY <1>2, <2>1, <2>2, <2>5, SkipAnyIs, SkipArrayPartIs, SkipObjectPartIs
<1> QED BY <1>2, <1>3, <1>4, <1>5

\* The read with which skipSubtree leaves the node it has skipped.
LEMMA LeaveSubtreeIs ==
  ASSUME NEW r, Fit(r), r.ls.state # Initial, NEW from, NEW b, b = LeaveSubtree(from, r)
  PROVE  /\ Went(r, b) /\ b.ls.state # Initial
         /\ b.ok /\ from # "Object" /\ r.node # "ValuePart" => Ahead(r.ls, b.ls)
         /\ b.ok /\ from = "Object" => r.node \in {"EndObject", "EndDocument"}
<1>1. PICK no, read : no = No(r) /\ read = ThenRead(r)
  OBVIOUS
<1>2. PICK x : x = IF EndNotFound(from, r) THEN no ELSE read
  OBVIOUS
<1>3. /\ Went(r, x) /\ x.ls.state # Initial
      /\ x.ok /\ r.node # "ValuePart" => Ahead(r.ls, x.ls)
  <2>1. CASE x = no
    <3>1. Retold(r, x) /\ x.ls = r.ls /\ x.node = r.node /\ x.ok = FALSE
      BY <1>1, <2>1, FitHere, NoIs
    <3> QED BY <3>1, RetoldIsFit
  <2>2. CASE x = read
    BY <1>1, <2>2, ThenReadIs
  <2> QED BY <1>2, <2>1, <2>2
<1>4. b = x \/ (from = "Object" /\ b = Yes(x))
  BY <1>1, <1>2 DEF LeaveSubtree, ObjectMayBeLast
<1>5. b.ok /\ from = "Object" => r.node \in {"EndObject", "EndDocument"}
  <2> SUFFICES ASSUME b.ok, from = "Object", r.node # "EndObject" PROVE r.node = "EndDocument"
    OBVIOUS
  <2>1. x = no
    BY <1>2 DEF EndNotFound
  <2>2. x.ok = FALSE /\ x.node = r.node
    BY <1>1, <2>1, FitHere, NoIs
  <2> QED BY <1>1, <1>2, <2>1, <2>2 DEF LeaveSubtree, ObjectMayBeLast
<1>6. CASE from = "Object" /\ b = Yes(x)
  <2>1. Fit(x) /\ Reader(x)
    BY <1>3, FitHere DEF Went
  <2>2. Retold(x, b) /\ b.ls = x.ls /\ b.node = x.node
    BY <1>6, <2>1, YesIs
  <2> QED BY <1>3, <1>5, <1>6, <2>1, <2>2, RetoldIsFit, WentOn
<1> QED BY <1>3, <1>4, <1>5, <1>6

\* skipSubtree once the source has started, node by node.
LEMMA SkipSubtreeAtIs ==
  ASSUME NEW r, Fit(r), r.ls.state # Initial, NEW b, b = SkipSubtreeAt(r)
  PROVE  /\ Went(r, b)
         /\ b.ok /\ r.node \notin {"EndArray", "EndObject"} /\ Searchable(r) => Ahead(r.ls, b.ls)
<1>1. PICK from, a : from = r.node /\ a = OverSubtree(r)
  OBVIOUS
<1>2. PICK x : x = LeaveSubtree(from, a)
  OBVIOUS
<1>3. /\ Went(r, a) /\ a.ls.state # Initial /\ Fit(a) /\ (a.ok => a.node # "ValuePart")
      /\ a.ok /\ r.node = "Object" /\ Searchable(r) /\ a.node \in Landings => Ahead(r.ls, a.ls)
  BY <1>1, OverSubtreeIs DEF Went
<1>4. /\ Went(a, x) /\ (x.ok /\ from # "Object" /\ a.node # "ValuePart" => Ahead(a.ls, x.ls))
      /\ x.ok /\ from = "Object" => a.node \in {"EndObject", "EndDocument"}
  BY <1>2, <1>3, LeaveSubtreeIs
<1>5. \/ r.node \in {"EndArray", "EndObject"} /\ b = Yes(r)
      \/ ~a.ok /\ b = a
      \/ a.ok /\ b = x
  BY <1>1, <1>2 DEF SkipSubtreeAt, Then
<1>6. CASE r.node \in {"EndArray", "EndObject"} /\ b = Yes(r)
  <2>1. Retold(r, b) /\ b.ls = r.ls /\ b.node = r.node
    BY <1>6, FitHere, YesIs
  <2> QED BY <1>6, <2>1, RetoldIsFit
<1>7. CASE a.ok /\ b = x
  BY <1>1, <1>3, <1>4, <1>7, WentOn DEF Landings
<1> QED BY <1>3, <1>5, <1>6, <1>7

\* skipSubtree() goes on from every reader there is between two calls.
THEOREM SkipSubtreeIs ==
  ASSUME NEW r, Fit(r), NEW b, b = SkipSubtree(r)
  PROVE  /\ Went(r, b)
         /\ b.ok /\ r.node \notin {"EndArray", "EndObject"} /\ Searchable(r) => Ahead(r.ls, b.ls)
<1>1. PICK c : c = ClearError(r)
  OBVIOUS
<1>2. Retold(r, c) /\ c.ls = r.ls /\ c.node = r.node /\ Went(r, c) /\ Fit(c) /\ Reader(c)
  BY <1>1, FitHere, ClearErrorIs, RetoldIsFit, RetoldOn DEF Went
<1>3. PICK g : g = IF c.node = Unread THEN Begin(c) ELSE Yes(c)
  OBVIOUS
<1>4. Went(c, g) /\ Fit(g) /\ g.ls.state # Initial /\ (g.ok => g.node = c.node)
  <2>1. CASE c.node = Unread
    BY <1>2, <1>3, <2>1, BeginIsFit DEF Went
  <2>2. CASE c.node # Unread
    <3>1. Retold(c, g) /\ g.ls = c.ls /\ g.node = c.node
      BY <1>2, <1>3, <2>2, YesIs
    <3> QED BY <1>2, <2>2, <3>1, RetoldIsFit DEF Went, Fit
  <2> QED BY <2>1, <2>2
<1>5. PICK nodes : nodes = {Unread}
  OBVIOUS
<1>6. PICK h : h = Enter(g, nodes)
  OBVIOUS
<1>7. /\ Went(g, h) /\ Fit(h) /\ h.ls.state # Initial
      /\ h.ok => h.node = g.node \/ Ahead(g.ls, h.ls)
  <2>1. "ValuePart" \notin nodes
    BY <1>5 DEF Unread
  <2> QED BY <1>4, <1>6, <2>1, EnterIs DEF Went
<1>8. PICK k : k = ClearError(h)
  OBVIOUS
<1>9. Went(h, k) /\ Fit(k) /\ k.ls = h.ls /\ k.node = h.node
  BY <1>7, <1>8, FitHere, ClearErrorIs, RetoldIsFit DEF Went
<1>10. PICK m : m = SkipSubtreeAt(k)
  OBVIOUS
<1>11. /\ Went(k, m)
       /\ m.ok /\ k.node \notin {"EndArray", "EndObject"} /\ Searchable(k) => Ahead(k.ls, m.ls)
  BY <1>7, <1>9, <1>10, SkipSubtreeAtIs
<1>12. b = IF ~g.ok THEN g ELSE IF ~h.ok THEN h ELSE m
  BY <1>1, <1>3, <1>5, <1>6, <1>8, <1>10 DEF SkipSubtree, Then
<1>13. Went(r, g) /\ Went(r, h) /\ (Ahead(g.ls, h.ls) => Ahead(r.ls, h.ls))
  BY <1>2, <1>4, <1>7, WentOn
<1>14. Went(r, m) /\ (Ahead(r.ls, h.ls) \/ Ahead(k.ls, m.ls) => Ahead(r.ls, m.ls))
  BY <1>9, <1>11, <1>13, WentOn
<1>15. Searchable(r) => Searchable(k)
  BY <1>9, <1>13 DEF Went
<1> QED BY <1>2, <1>4, <1>7, <1>9, <1>11, <1>12, <1>13, <1>14, <1>15

-----------------------------------------------------------------------------
(* skipToIndex().                                                            *)

Elements == INSTANCE LoopProofs WITH Step <- SkipElement

\* skipIfComma is a skip.
LEMMA CommaIsPast ==
  ASSUME NEW r, Reader(r), Settled(r.ls), r.ls.state # Initial, NEW b, b = SkipIfComma(r)
  PROVE  Past(r, b)
<1>1. Within(r.ls) /\ (More(r.ls) <=> r.ls.state = Ok)
  BY ReaderFields, MoreIsOk
<1>2. CASE r.ls.state = Ok
  <2>1. Calm(r.ls)
    BY <1>1, <1>2, OkIsCalm DEF Settled
  <2>2. Retold(r, b) /\ b.node \in {r.node, "Error"} /\ Stepped(r.ls, b.ls)
    BY <1>2, <2>1, SkipIfCommaIs
  <2> QED BY <2>2, OverIsOrder, OverIsPast, RetoldOn
<1>3. CASE r.ls.state # Ok
  <2>1. b = Yes(r)
    BY <1>1, <1>3 DEF SkipIfComma
  <2>2. Retold(r, b) /\ b.ls = r.ls /\ b.node = r.node
    BY <2>1, YesIs
  <2> QED BY <1>1, <2>2, OverIsOrder, OverIsPast, RetoldOn
<1> QED BY <1>2, <1>3

\* Skipping one element of an array.
LEMMA SkipElementIs ==
  ASSUME NEW r, Reader(r), Settled(r.ls), r.ls.state # Initial, NEW b, b = SkipElement(r)
  PROVE  Past(r, b)
<1>1. PICK no, any : no = No(r) /\ any = SkipObjectOrArrayOrValuePart(r)
  OBVIOUS
<1>2. PICK comma : comma = SkipIfComma(any)
  OBVIOUS
<1>3. b \in {no, any, comma}
  BY <1>1, <1>2 DEF SkipElement, Then
<1>4. Past(r, no)
  <2>1. Retold(r, no) /\ no.ls = r.ls /\ no.node = r.node
    BY <1>1, NoIs
  <2> QED BY <2>1, ReaderFields, OverIsOrder, OverIsPast, RetoldOn
<1>5. Past(r, any)
  BY <1>1, SkipAnyIs
<1>6. Past(any, comma)
  BY <1>2, <1>5, CommaIsPast DEF Past, Over
<1> QED BY <1>3, <1>4, <1>5, <1>6, PastOn

\* Skipping any number of elements.
LEMMA SkipElementsIs ==
  ASSUME NEW r, Reader(r), Settled(r.ls), r.ls.state # Initial, NEW count \in Nat,
         NEW b, b = SkipElements(r, count)
  PROVE  Past(r, b)
<1> DEFINE S == {a \in ReadersOf(r.ls.in) : Past(r, a)}
           start == Yes(r)
<1>1. start \in S
  <2>1. Retold(r, start) /\ start.ls = r.ls /\ start.node = r.node
    BY YesIs
  <2>2. Past(r, start)
    BY <2>1, ReaderFields, OverIsOrder, OverIsPast, RetoldOn
  <2> QED BY <2>2 DEF Past, Reader
<1>2. ASSUME NEW a \in S PROVE Elements!Turn(a) \in S
  <2>1. Past(r, a) /\ Reader(a) /\ Settled(a.ls) /\ a.ls.state # Initial
    BY <1>2 DEF Past, Over
  <2>2. PICK x : x = SkipElement(a)
    OBVIOUS
  <2>3. Past(r, x)
    BY <2>1, <2>2, SkipElementIs, PastOn
  <2>4. x \in S
    BY <2>3 DEF Past, Reader
  <2> QED BY <1>2, <2>2, <2>4 DEF Elements!Turn
<1>3. b = Elements!Repeat(SkipElement, start, count)
  BY DEF SkipElements, Repeat, Elements!Repeat
<1> HIDE DEF S, start
<1>4. Elements!Repeat(SkipElement, start, count) \in S
  BY <1>1, <1>2, Elements!RepeatStays
<1> QED BY <1>3, <1>4 DEF S

\* skipToIndex once the source has started; a success has read something.
LEMMA SkipToIndexAtIs ==
  ASSUME NEW r, Fit(r), r.ls.state # Initial, NEW index \in Nat, NEW b, b = SkipToIndexAt(r, index)
  PROVE  Went(r, b) /\ (b.ok => Ahead(r.ls, b.ls))
<1>1. PICK no, y : no = No(r) /\ y = Yes(r)
  OBVIOUS
<1>2. PICK first, e : first = ThenRead(y) /\ e = SkipElements(r, index)
  OBVIOUS
<1>3. PICK last : last = Read(e)
  OBVIOUS
<1>4. \/ b = no
      \/ r.node = "Array" /\ b = first
      \/ r.node = "Array" /\ b = e /\ ~b.ok
      \/ r.node = "Array" /\ b = last
  <2>1. PICK others : others = Then(SkipElements(r, index), Read)
    OBVIOUS
  <2>2. others = last \/ (others = e /\ ~others.ok)
    BY <1>2, <1>3, <2>1 DEF Then
  <2>3. b = CASE r.node # "Array" -> no
              [] r.node = "Array" /\ index = 0 -> first
              [] r.node = "Array" /\ index > 0 -> others
    BY <1>1, <1>2, <2>1, Zenon DEF SkipToIndexAt
  <2>4. \/ b = no
        \/ r.node = "Array" /\ b \in {first, others}
    BY <2>3
  <2> QED BY <2>2, <2>4
<1>5. Retold(r, no) /\ no.ls = r.ls /\ no.node = r.node /\ no.ok = FALSE /\ Went(r, no)
  BY <1>1, FitHere, NoIs, RetoldIsFit
<1>6. Retold(r, y) /\ y.ls = r.ls /\ y.node = r.node /\ Went(r, y) /\ Fit(y)
  BY <1>1, FitHere, YesIs, RetoldIsFit DEF Went
<1>7. ASSUME r.node = "Array", b = first PROVE Went(r, b) /\ (b.ok => Ahead(r.ls, b.ls))
  <2>1. y.node # "ValuePart"
    BY <1>6, <1>7
  <2>2. Went(y, b) /\ (b.ok => Ahead(y.ls, b.ls))
    BY <1>2, <1>6, <1>7, <2>1, ThenReadIs
  <2> QED BY <1>6, <2>2, WentOn
<1>8. ASSUME r.node = "Array" PROVE Went(r, e) /\ Fit(e) /\ e.node # "ValuePart"
  <2>1. r.node # Unread /\ r.node # "ValuePart"
    BY <1>8 DEF Unread
  <2>2. Reader(r) /\ Settled(r.ls)
    BY <2>1, FitHere
  <2>3. Past(r, e)
    BY <1>2, <2>2, SkipElementsIs
  <2> QED BY <1>8, <2>1, <2>2, <2>3, PastIsFit DEF Went, Past
<1>9. ASSUME r.node = "Array", b = last PROVE Went(r, b) /\ (b.ok => Ahead(r.ls, b.ls))
  <2>1. Led(e, b)
    BY <1>3, <1>8, <1>9, ReadIs
  <2>2. Went(e, b) /\ (b.ok => Ahead(e.ls, b.ls))
    BY <1>8, <1>9, <2>1, LedIsWent
  <2> QED BY <1>8, <1>9, <2>2, WentOn
<1> QED BY <1>4, <1>5, <1>7, <1>8, <1>9

\* skipToIndex() goes on from every reader there is between two calls, and
\* further when it returns true.
THEOREM SkipToIndexIs ==
  ASSUME NEW r, Fit(r), NEW index \in Nat, NEW b, b = SkipToIndex(r, index)
  PROVE  Went(r, b) /\ (b.ok => Ahead(r.ls, b.ls))
<1>1. PICK c : c = ClearError(r)
  OBVIOUS
<1>2. Retold(r, c) /\ c.ls = r.ls /\ Went(r, c) /\ Fit(c)
  BY <1>1, FitHere, ClearErrorIs, RetoldIsFit DEF Went
<1>3. PICK g : g = Begin(c)
  OBVIOUS
<1>4. Went(c, g) /\ Fit(g) /\ g.ls.state # Initial
  BY <1>2, <1>3, BeginIsFit DEF Went
<1>5. PICK nodes : nodes = {Unread, "Field"}
  OBVIOUS
<1>6. PICK h : h = Enter(g, nodes)
  OBVIOUS
<1>7. Went(g, h) /\ Fit(h) /\ h.ls.state # Initial
  <2>1. "ValuePart" \notin nodes
    BY <1>5 DEF Unread
  <2> QED BY <1>4, <1>6, <2>1, EnterIs DEF Went
<1>8. PICK m : m = SkipToIndexAt(h, index)
  OBVIOUS
<1>9. Went(h, m) /\ (m.ok => Ahead(h.ls, m.ls))
  BY <1>7, <1>8, SkipToIndexAtIs
<1>10. b = IF ~g.ok THEN g ELSE IF ~h.ok THEN h ELSE m
  BY <1>1, <1>3, <1>5, <1>6, <1>8 DEF SkipToIndex, Then
<1>11. Went(r, g) /\ Went(r, h)
  BY <1>2, <1>4, <1>7, WentOn
<1>12. Went(r, m) /\ (m.ok => Ahead(r.ls, m.ls))
  BY <1>9, <1>11, WentOn
<1> QED BY <1>10, <1>11, <1>12

-----------------------------------------------------------------------------
(* skipToEndArray() and skipToEndObject(), which may be called in the middle *)
(* of a value that does not fit.                                             *)

\* In the same input, wherever the cursor is.
Stays(r, b) ==
  /\ Fit(b) /\ b.ls.in = r.ls.in /\ b.ls.kind = r.ls.kind
  /\ Searchable(r) => Searchable(b)

\* What a call does leaves the document and the kind of its source alone.
LEMMA WentStays == \A r, b : Went(r, b) => Stays(r, b)
  BY DEF Went, Stays, Onward

\* skipToEndArray and skipToEndObject leave a reader that has begun fit, on
\* the same document, and never further back.
THEOREM SkipToEndIs ==
  ASSUME NEW r, Fit(r), r.node # Unread, NEW b, b \in {SkipToEndArray(r), SkipToEndObject(r)}
  PROVE  Stays(r, b)
<1>1. PICK n \in Int : n = 0
  OBVIOUS
<1>2. b \in {Yes(r), No(r), SkipArrayPart(r, n), SkipObjectPart(r, n)}
  <2>1. PICK yes, no, array : yes = Yes(r) /\ no = No(r) /\ array = SkipArrayPart(r, 0)
    OBVIOUS
  <2>2. SkipToEndArray(r) = CASE r.node = "EndArray" -> yes
                              [] r.node = "Error" -> no
                              [] OTHER -> array
    BY <2>1, Zenon DEF SkipToEndArray
  <2>3. SkipToEndArray(r) \in {yes, no, array}
    BY <2>2
  <2>4. SkipToEndObject(r) \in {yes, SkipObjectPart(r, 0)}
    BY <2>1 DEF SkipToEndObject
  <2> QED BY <1>1, <2>1, <2>3, <2>4
<1>3. Reader(r) /\ r.ls.state # Initial /\ (Midst(r) \/ Settled(r.ls))
  BY DEF Fit
<1>4. CASE b \in {Yes(r), No(r)}
  <2>1. Retold(r, b) /\ b.ls = r.ls /\ b.node = r.node
    BY <1>3, <1>4, YesIs, NoIs
  <2> QED BY <2>1, RetoldIsFit, WentStays
<1>5. CASE b \in {SkipArrayPart(r, n), SkipObjectPart(r, n)}
  <2>1. Past(r, b)
    BY <1>1, <1>3, <1>5, SkipArrayPartIs, SkipObjectPartIs
  <2>2. r.node = "Object" /\ Searchable(r) => Searchable(b)
    <3>1. r.node = "Object" /\ Searchable(r) => InObject(r)
      BY <1>3 DEF InObject, Midst
    <3> QED BY <1>1, <1>5, <3>1, SkipFromObjectIs
  <2> QED BY <2>1, <2>2, PastIsFit DEF Stays, Past
<1> QED BY <1>2, <1>4, <1>5

-----------------------------------------------------------------------------
(* The error state.                                                          *)

Dead(r, b) == b.node = "Error" /\ b.ok = FALSE /\ b.ls = r.ls

\* All that a call does to a reader in the error state is to return false.
THEOREM ErrorIsDead ==
  ASSUME NEW r, Fit(r), r.node = "Error", NEW index,
         NEW b, b \in {Read(r), SkipSubtree(r), SkipToIndex(r, index), SkipToEndArray(r)}
  PROVE  Dead(r, b)
<1>1. Reader(r) /\ r.ls.state # Initial /\ r.node # Unread
  BY DEF Fit, Unread
<1>2. PICK c : c = ClearError(r)
  OBVIOUS
<1>3. Reader(c) /\ Fit(c) /\ c.ls = r.ls /\ c.node = "Error"
  <2>1. Retold(r, c) /\ c.ls = r.ls /\ c.node = r.node
    BY <1>1, <1>2, ClearErrorIs
  <2> QED BY <2>1, RetoldIsFit, RetoldOn DEF Went
<1>4. ASSUME NEW x, NEW y, Reader(x), x.ls = r.ls, x.node = "Error", y = No(x) PROVE Dead(r, y)
  BY <1>4, NoIs DEF Dead
<1>5. CASE b = Read(r)
  <2>1. PICK a : a = Begin(r)
    OBVIOUS
  <2>2. Reader(a) /\ a.ok /\ a.ls = r.ls /\ a.node = "Error"
    BY <1>1, <2>1, BeginIs, RetoldOn
  <2>3. PICK no : no = No(a)
    OBVIOUS
  <2>4. b = no
    BY <1>5, <2>1, <2>2, <2>3, Zenon DEF Read, Then
  <2> QED BY <1>4, <2>2, <2>3, <2>4
<1>6. CASE b = SkipSubtree(r)
  <2>1. PICK g : g = Yes(c)
    OBVIOUS
  <2>2. Reader(g) /\ g.ok /\ g.ls = r.ls /\ g.node = "Error"
    BY <1>3, <2>1, YesIs, RetoldOn
  <2>3. PICK h : h = Enter(g, {Unread})
    OBVIOUS
  <2>4. Reader(h) /\ h.ok /\ h.ls = r.ls /\ h.node = "Error"
    <3>1. h = Yes(g)
      BY <2>2, <2>3 DEF Enter, Unread
    <3> QED BY <2>2, <3>1, YesIs, RetoldOn
  <2>5. PICK k : k = ClearError(h)
    OBVIOUS
  <2>6. Reader(k) /\ k.ls = r.ls /\ k.node = "Error"
    BY <2>4, <2>5, ClearErrorIs, RetoldOn
  <2>7. PICK no : no = No(k)
    OBVIOUS
  <2>8. OverSubtree(k) = no
    <3>1. k.node \notin {"Value", "Field"} /\ k.node # "Array" /\ k.node # "Object"
      BY <2>6
    <3> QED BY <2>7, <3>1, Zenon DEF OverSubtree
  <2>9. Dead(r, no)
    BY <1>4, <2>6, <2>7
  <2>10. SkipSubtreeAt(k) = no
    BY <2>6, <2>8, <2>9 DEF SkipSubtreeAt, Then, Dead
  <2>11. b = SkipSubtreeAt(k)
    BY <1>1, <1>2, <1>3, <1>6, <2>1, <2>2, <2>3, <2>4, <2>5 DEF SkipSubtree, Then, Unread
  <2> QED BY <2>9, <2>10, <2>11
<1>7. CASE b = SkipToIndex(r, index)
  <2>1. PICK g : g = Begin(c)
    OBVIOUS
  <2>2. Reader(g) /\ g.ok /\ g.ls = r.ls /\ g.node = "Error"
    BY <1>1, <1>3, <2>1, BeginIs, RetoldOn
  <2>3. PICK h : h = Enter(g, {Unread, "Field"})
    OBVIOUS
  <2>4. Reader(h) /\ h.ok /\ h.ls = r.ls /\ h.node = "Error"
    <3>1. h = Yes(g)
      BY <2>2, <2>3 DEF Enter, Unread
    <3> QED BY <2>2, <3>1, YesIs, RetoldOn
  <2>5. PICK no : no = No(h)
    OBVIOUS
  <2>6. SkipToIndexAt(h, index) = no
    <3>1. h.node # "Array"
      BY <2>4
    <3> QED BY <2>5, <3>1, Zenon DEF SkipToIndexAt
  <2>7. b = no
    BY <1>2, <1>7, <2>1, <2>2, <2>3, <2>4, <2>6 DEF SkipToIndex, Then
  <2> QED BY <1>4, <2>4, <2>5, <2>7
<1>8. CASE b = SkipToEndArray(r)
  <2>1. PICK no : no = No(r)
    OBVIOUS
  <2>2. r.node # "EndArray"
    OBVIOUS
  <2>3. b = no
    BY <1>8, <2>1, <2>2, Zenon DEF SkipToEndArray
  <2> QED BY <1>1, <1>4, <2>1, <2>3
<1> QED BY <1>5, <1>6, <1>7, <1>8

-----------------------------------------------------------------------------
(* Comparing the string under the cursor with a name.                        *)

SiblingComparing == INSTANCE LoopProofs WITH Step <- SiblingStep
ForwardComparing == INSTANCE LoopProofs WITH Step <- ForwardStep

\* What a comparison that begins at l goes through.
Comparisons(l) ==
  {a \in [ok : BOOLEAN, ls : SourcesOf(l.in), name : Seq(STRING), upTo : Nat,
          match : BOOLEAN, bad : BOOLEAN] : Over(l, a.ls)}

\* What a turn of a comparison makes of it.
LEMMA ComparisonOf ==
  ASSUME NEW l, NEW n, Over(l, n), NEW a \in Comparisons(l),
         NEW b, \/ b = [a EXCEPT !.ok = FALSE, !.ls = n, !.upTo = @ + 1, !.bad = TRUE]
                \/ b = [a EXCEPT !.ok = FALSE, !.ls = n, !.match = FALSE]
                \/ b = [a EXCEPT !.ls = n, !.upTo = @ + 1]
                \/ b = [a EXCEPT !.ok = FALSE]
  PROVE  b \in Comparisons(l)
<1>1. n \in SourcesOf(l.in)
  BY WithinTypes DEF Over, Onward
<1> PICK i \in Nat : i = a.upTo + 1
  BY DEF Comparisons
<1>2. CASE b = [a EXCEPT !.ok = FALSE, !.ls = n, !.upTo = @ + 1, !.bad = TRUE]
  <2>1. b = [a EXCEPT !.ok = FALSE, !.ls = n, !.upTo = i, !.bad = TRUE]
    BY <1>2
  <2> QED BY <1>1, <2>1 DEF Comparisons
<1>3. CASE b = [a EXCEPT !.ok = FALSE, !.ls = n, !.match = FALSE]
  BY <1>1, <1>3 DEF Comparisons
<1>4. CASE b = [a EXCEPT !.ls = n, !.upTo = @ + 1]
  <2>1. b = [a EXCEPT !.ls = n, !.upTo = i]
    BY <1>4
  <2> QED BY <1>1, <2>1 DEF Comparisons
<1>5. CASE b = [a EXCEPT !.ok = FALSE]
  BY <1>5 DEF Comparisons
<1> QED BY <1>2, <1>3, <1>4, <1>5

\* One code point compared, whatever it is compared with.
LEMMA CompareIs ==
  ASSUME NEW l, Within(l), l.state # Initial, NEW a \in Comparisons(l), NEW c, NEW b,
         b = Compare(a, Undecorate(a.ls, FALSE), c) \/ b = [a EXCEPT !.ok = FALSE]
  PROVE  b \in Comparisons(l)
<1>1. PICK u : u = Undecorate(a.ls, FALSE)
  OBVIOUS
<1>2. Within(a.ls) /\ Over(l, a.ls) /\ a.ls.state # Initial /\ Settled(a.ls)
  BY WithinOnward DEF Comparisons, Over, Onward
<1>3. PICK f \in BOOLEAN : f = FALSE
  OBVIOUS
<1>4. Undecorated(a.ls, u, f)
  BY <1>1, <1>2, <1>3, UndecorateKeeps, Zenon
<1>5. Over(l, u.ls)
  <2>1. Onward(a.ls, u.ls) /\ (u.ls = a.ls \/ Calm(u.ls))
    BY <1>3, <1>4 DEF Undecorated
  <2>2. Over(a.ls, u.ls)
    BY <1>2, <2>1, CalmIsSettled DEF Over
  <2> QED BY <1>2, <2>2, OverIsOrder
<1>6. u.ok \in BOOLEAN
  BY <1>4 DEF Undecorated
<1>7. PICK p, q, s : /\ p = [a EXCEPT !.ok = FALSE, !.ls = u.ls, !.upTo = @ + 1, !.bad = TRUE]
                     /\ q = [a EXCEPT !.ok = FALSE, !.ls = u.ls, !.match = FALSE]
                     /\ s = [a EXCEPT !.ls = u.ls, !.upTo = @ + 1]
  OBVIOUS
<1>8. Compare(a, u, c) \in {p, q, s}
  <2>1. Compare(a, u, c) = CASE ~u.ok -> p [] u.ok /\ u.cp # c -> q [] u.ok /\ u.cp = c -> s
    BY <1>7, Zenon DEF Compare
  <2> QED BY <1>6, <2>1
<1>9. p \in Comparisons(l) /\ q \in Comparisons(l) /\ s \in Comparisons(l)
  BY <1>5, <1>7, ComparisonOf
<1>10. [a EXCEPT !.ok = FALSE] \in Comparisons(l)
  BY <1>5, ComparisonOf
<1> QED BY <1>1, <1>8, <1>9, <1>10

\* The comparison of a string with a name, along either axis, keeps to the string
\* and leaves the source settled, whatever characters there are.
LEMMA ComparisonIs ==
  ASSUME NEW l, Within(l), Settled(l), l.state # Initial, NEW name \in Seq(STRING),
         NEW a, a = CompareSibling(l, name) \/ a = CompareForward(l, name)
  PROVE  Over(l, a.ls)
<1> DEFINE S == Comparisons(l)
           start == Comparing(l, name)
<1>1. start \in S
  BY OverIsOrder, WithinTypes DEF Comparisons, Comparing
<1>2. ASSUME NEW x \in S PROVE SiblingStep(x) \in S
  BY <1>2, CompareIs DEF SiblingStep
<1>3. ASSUME NEW x \in S PROVE ForwardStep(x) \in S
  BY <1>3, CompareIs DEF ForwardStep
<1>4. PICK n \in Nat : n = Len(name) + 1
  OBVIOUS
<1> HIDE DEF S, start
<1>5. SiblingComparing!WhileOk(SiblingStep, start, n) \in S
  BY <1>1, <1>2, SiblingComparing!LoopStays
<1>6. ForwardComparing!WhileOk(ForwardStep, start, n) \in S
  BY <1>1, <1>3, ForwardComparing!LoopStays
<1>7. CompareSibling(l, name) = SiblingComparing!WhileOk(SiblingStep, start, n)
  BY <1>4 DEF CompareSibling, WhileOk, Repeat, SiblingComparing!WhileOk, SiblingComparing!Repeat, start
<1>8. CompareForward(l, name) = ForwardComparing!WhileOk(ForwardStep, start, n)
  BY <1>4 DEF CompareForward, WhileOk, Repeat, ForwardComparing!WhileOk, ForwardComparing!Repeat, start
<1> QED BY <1>5, <1>6, <1>7, <1>8 DEF S, Comparisons

-----------------------------------------------------------------------------
(* Over what follows a comparison.                                           *)

\* From r to a b whose source is over part of the input, and whether b is a field
\* that was found if it returns true.
Searching(l, b) == Reader(b) /\ Over(l, b.ls)

\* From r over part of the input is a move that composes.
LEMMA SearchingOn ==
  ASSUME NEW l, Within(l), NEW m, Over(l, m), NEW b, Searching(m, b)
  PROVE  Searching(l, b) /\ (Ahead(l, m) \/ Ahead(m, b.ls) => Ahead(l, b.ls))
  BY OverIsOrder, OnwardIsOrder DEF Searching, Over

\* Over white space, unless it ends in an error.
LEMMA OverSpaceIs ==
  ASSUME NEW r, Reader(r), Settled(r.ls), r.ls.state # Initial,
         NEW b, b = Arrive(r, SkipWhiteSpace(r.ls))
  PROVE  Searching(r.ls, b) /\ (b.ok => b.node = r.node)
<1>1. PICK n : n = SkipWhiteSpace(r.ls)
  OBVIOUS
<1>2. Within(r.ls) /\ Onward(r.ls, n) /\ (n = r.ls \/ Calm(n))
  BY <1>1, ReaderFields, SkipWhiteSpaceKeeps
<1>3. Over(r.ls, n) /\ Within(n)
  BY <1>2, CalmIsSettled, WithinOnward DEF Over
<1>4. Retold(r, b) /\ b.ls = n /\ (b.ok => b.node = r.node)
  BY <1>1, <1>3, ArriveIs
<1> QED BY <1>3, <1>4, RetoldOn DEF Searching

\* The colon after a name: past it there is a field, further on.
LEMMA OverColonIs ==
  ASSUME NEW r, Reader(r), NEW b, b = OverColon(r)
  PROVE  /\ Searching(r.ls, b)
         /\ b.ok => b.node = "Field"
         /\ b.ok /\ r.ls.current # NUL => Ahead(r.ls, b.ls)
<1>1. PICK a : a = StepOver(r, "FIELD_NO_VALUE")
  OBVIOUS
<1>2. Reader(a) /\ Stepped(r.ls, a.ls) /\ (a.ok /\ r.ls.current # NUL => Ahead(r.ls, a.ls))
  <2>1. "FIELD_NO_VALUE" \in Errors
    BY ErrorNames
  <2> QED BY <1>1, <2>1, StepOverIs, RetoldOn
<1>3. Over(r.ls, a.ls) /\ Within(r.ls) /\ Within(a.ls) /\ Settled(a.ls) /\ a.ls.state # Initial
  BY <1>2, ReaderFields, OverIsOrder, CalmIsSettled DEF Stepped, Calm, Paused
<1>4. PICK w : w = Arrive(a, SkipWhiteSpace(a.ls))
  OBVIOUS
<1>5. Searching(a.ls, w)
  BY <1>2, <1>3, <1>4, OverSpaceIs
<1>6. PICK f : f = Land(w, "Field")
  OBVIOUS
<1>7. Searching(a.ls, f) /\ f.node = "Field"
  <2>1. "Field" \in Nodes
    BY Names
  <2>2. Reader(f) /\ f.ls = w.ls /\ f.node = "Field"
    BY <1>5, <1>6, <2>1, LandIs, RetoldOn DEF Searching
  <2> QED BY <1>5, <2>2 DEF Searching
<1>8. (~a.ok /\ b = a) \/ (a.ok /\ ~w.ok /\ b = w) \/ (a.ok /\ w.ok /\ b = f)
  BY <1>1, <1>4, <1>6, Zenon DEF OverColon, Then
<1>9. Searching(r.ls, a)
  BY <1>2, <1>3 DEF Searching
<1>10. Searching(r.ls, w) /\ Searching(r.ls, f) /\ (Ahead(r.ls, a.ls) => Ahead(r.ls, f.ls))
  BY <1>3, <1>5, <1>7, SearchingOn
<1> QED BY <1>2, <1>7, <1>8, <1>9, <1>10

\* The rest of a string.
LEMMA SkipRestIs ==
  ASSUME NEW r, Reader(r), Settled(r.ls), r.ls.state # Initial, NEW b, b = SkipRest(r)
  PROVE  Searching(r.ls, b)
<1>1. PICK d : d = SkipStringPart(r.ls)
  OBVIOUS
<1>2. Over(r.ls, d.ls) /\ Within(d.ls)
  BY <1>1, ReaderFields, SkipStringPartIs, OverIsOrder
<1>3. PICK o : o = On(r, d.ls)
  OBVIOUS
<1>4. Reader(o) /\ o.ls = d.ls
  BY <1>2, <1>3, OnIs, RetoldOn
<1>5. PICK yes, failed, die : yes = Yes(o) /\ failed = SourceFailed(o)
                              /\ die = Die(o, "UNTERMINATED_STRING")
  OBVIOUS
<1>6. b = CASE d.ok -> yes
            [] ~d.ok /\ HasSourceError(d.ls) -> failed
            [] ~d.ok /\ ~HasSourceError(d.ls) -> die
  BY <1>1, <1>3, <1>5, Zenon DEF SkipRest, RestSkipped
<1>7. b \in {yes, failed, die}
  BY <1>6
<1>8. "UNTERMINATED_STRING" \in Errors
  BY ErrorNames
<1>9. Reader(yes) /\ yes.ls = d.ls
  BY <1>4, <1>5, YesIs, RetoldOn
<1>10. Reader(failed) /\ failed.ls = d.ls
  BY <1>4, <1>5, SourceFailedIs, RetoldOn
<1>11. Reader(die) /\ die.ls = d.ls
  BY <1>4, <1>5, <1>8, DieIs, RetoldOn
<1> QED BY <1>2, <1>7, <1>9, <1>10, <1>11 DEF Searching

-----------------------------------------------------------------------------
(* Siblings.                                                                 *)

\* A call that fails stays where it is, whatever it makes of the error.
LEMMA FailingIs ==
  ASSUME NEW l, NEW r, Searching(l, r), NEW e \in Errors,
         NEW b, b \in {No(r), SourceFailed(r), Raise(r, e)}
  PROVE  Searching(l, b) /\ b.ls = r.ls /\ ~b.ok
<1>1. PICK x, y, z : x = No(r) /\ y = SourceFailed(r) /\ z = Raise(r, e)
  OBVIOUS
<1>2. Reader(r) /\ Over(l, r.ls)
  BY DEF Searching
<1>3. Reader(x) /\ x.ls = r.ls /\ x.ok = FALSE
  BY <1>1, <1>2, NoIs, RetoldOn
<1>4. Reader(y) /\ y.ls = r.ls /\ y.ok = FALSE
  BY <1>1, <1>2, SourceFailedIs, RetoldOn
<1>5. Reader(z) /\ z.ls = r.ls /\ z.ok = FALSE
  BY <1>1, <1>2, RaiseIs, RetoldOn
<1> QED BY <1>1, <1>2, <1>3, <1>4, <1>5 DEF Searching

\* A reader that has been over part of the input is where a scanner may start.
LEMMA SearchingHere ==
  ASSUME NEW l, l.state # Initial, NEW b, Searching(l, b)
  PROVE  Reader(b) /\ Within(b.ls) /\ Settled(b.ls) /\ b.ls.state # Initial
  BY ReaderFields DEF Searching, Over, Onward

\* The end of a name that has been compared: a field is found only past its colon.
LEMMA SiblingEndsIs ==
  ASSUME NEW r, Reader(r), r.ls.state # Initial, NEW match, NEW b, b = SiblingEnds(r, match)
  PROVE  Searching(r.ls, b) /\ (b.ok => b.node = "Field")
<1>1. PICK n : n = Advance(r.ls)
  OBVIOUS
<1>2. PICK eat, on, no : eat = Eat(r) /\ on = On(r, n) /\ no = No(on)
  OBVIOUS
<1>3. Searching(r.ls, eat)
  BY <1>2, EatIs, RetoldOn, OverIsOrder DEF Searching
<1>4. Searching(r.ls, no) /\ ~no.ok
  <2>1. Within(n) /\ Over(r.ls, n)
    BY <1>1, ReaderFields, AdvanceIsOnward, OverIsOrder DEF Stepped
  <2>2. Searching(r.ls, on)
    BY <1>2, <2>1, OnIs, RetoldOn DEF Searching
  <2>3. "INVALID_VALUE" \in Errors
    BY ErrorNames
  <2> QED BY <1>2, <2>2, <2>3, FailingIs
<1>5. PICK a : a = IF More(n) THEN eat ELSE no
  OBVIOUS
<1>6. Searching(r.ls, a) /\ Reader(a) /\ Within(a.ls) /\ Within(r.ls)
  BY <1>3, <1>4, <1>5, SearchingHere, ReaderFields
<1>7. PICK stay, colon, other : stay = No(a) /\ colon = OverColon(a) /\ other = No(colon)
  OBVIOUS
<1>8. b = Then(a, LAMBDA u : IF u.ls.current # ":" THEN No(u)
                             ELSE Then(OverColon(u), LAMBDA v : IF match THEN v ELSE No(v)))
  BY <1>1, <1>2, <1>5 DEF SiblingEnds
<1>9. (~a.ok /\ b = a) \/ b = stay \/ b = colon \/ b = other
  BY <1>7, <1>8 DEF Then
<1>10. "INVALID_VALUE" \in Errors
  BY ErrorNames
<1>11. Searching(r.ls, stay) /\ ~stay.ok
  BY <1>6, <1>7, <1>10, FailingIs
<1>12. Searching(r.ls, colon) /\ (colon.ok => colon.node = "Field")
  BY <1>6, <1>7, OverColonIs, SearchingOn DEF Searching
<1>13. Searching(r.ls, other) /\ ~other.ok
  BY <1>7, <1>10, <1>12, FailingIs
<1> QED BY <1>6, <1>9, <1>11, <1>12, <1>13

\* The rest of a name that is another.
LEMMA SiblingGoesOnIs ==
  ASSUME NEW r, Reader(r), Settled(r.ls), r.ls.state # Initial, NEW b, b = SiblingGoesOn(r)
  PROVE  Searching(r.ls, b) /\ ~b.ok
<1>1. PICK rest : rest = SkipRest(r)
  OBVIOUS
<1>2. PICK space : space = Arrive(rest, SkipWhiteSpace(rest.ls))
  OBVIOUS
<1>3. PICK colon, raised : colon = OverColon(space) /\ raised = Raise(space, "FIELD_NO_VALUE")
  OBVIOUS
<1>4. PICK other : other = No(colon)
  OBVIOUS
<1>5. \/ ~rest.ok /\ b = rest
      \/ ~space.ok /\ b = space
      \/ ~colon.ok /\ b = colon
      \/ b = other
      \/ b = raised
  BY <1>1, <1>2, <1>3, <1>4, Zenon DEF SiblingGoesOn, Then
<1>6. Searching(r.ls, rest)
  BY <1>1, SkipRestIs
<1>7. Searching(rest.ls, space)
  BY <1>2, <1>6, SearchingHere, OverSpaceIs
<1>8. Searching(r.ls, space)
  BY <1>6, <1>7, ReaderFields, SearchingOn DEF Searching
<1>9. Searching(space.ls, colon)
  BY <1>3, <1>8, OverColonIs DEF Searching
<1>10. Searching(r.ls, colon)
  BY <1>8, <1>9, ReaderFields, SearchingOn DEF Searching
<1>11. "FIELD_NO_VALUE" \in Errors
  BY ErrorNames
<1>12. Searching(r.ls, other) /\ ~other.ok
  BY <1>4, <1>10, <1>11, FailingIs
<1>13. Searching(r.ls, raised) /\ ~raised.ok
  BY <1>3, <1>8, <1>11, FailingIs
<1> QED BY <1>5, <1>6, <1>8, <1>10, <1>12, <1>13

\* What becomes of a name that has been compared.
LEMMA SiblingComparedIs ==
  ASSUME NEW r, Reader(r), Settled(r.ls), r.ls.state # Initial, NEW scan,
         NEW b, b = SiblingCompared(r, scan)
  PROVE  Searching(r.ls, b) /\ (b.ok => b.node = "Field")
<1>1. PICK match : match = Matches(scan)
  OBVIOUS
<1>2. PICK failed, raised, ends, on :
        /\ failed = SourceFailed(r) /\ raised = Raise(r, "INVALID_VALUE")
        /\ ends = SiblingEnds(r, match) /\ on = SiblingGoesOn(r)
  OBVIOUS
<1>3. b = CASE HasSourceError(r.ls) -> failed
            [] ~HasSourceError(r.ls) /\ scan.bad -> raised
            [] ~HasSourceError(r.ls) /\ ~scan.bad /\ AtQuote(r.ls) -> ends
            [] ~HasSourceError(r.ls) /\ ~scan.bad /\ ~AtQuote(r.ls) -> on
  BY <1>1, <1>2, Zenon DEF SiblingCompared
<1>4. b \in {failed, raised, ends, on}
  BY <1>3
<1>5. Searching(r.ls, r)
  BY ReaderFields, OverIsOrder DEF Searching
<1>6. "INVALID_VALUE" \in Errors
  BY ErrorNames
<1>7. Searching(r.ls, failed) /\ ~failed.ok /\ Searching(r.ls, raised) /\ ~raised.ok
  BY <1>2, <1>5, <1>6, FailingIs
<1>8. Searching(r.ls, ends) /\ (ends.ok => ends.node = "Field")
  BY <1>2, SiblingEndsIs
<1>9. Searching(r.ls, on) /\ ~on.ok
  BY <1>2, SiblingGoesOnIs
<1> QED BY <1>4, <1>7, <1>8, <1>9

\* scanMatchField: it finds a field further on, or fails with an error, or has
\* passed a name that is another.
LEMMA ScanMatchFieldIs ==
  ASSUME NEW r, Reader(r), Settled(r.ls), r.ls.state # Initial, NEW name \in Seq(STRING),
         NEW b, b = ScanMatchField(r, name)
  PROVE  /\ Searching(r.ls, b)
         /\ b.ok => b.node = "Field"
         /\ b.ok \/ ~HasError(b) => Ahead(r.ls, b.ls)
<1>1. "UNEXPECTED_VALUE" \in Errors /\ "UNTERMINATED_STRING" \in Errors
  BY ErrorNames
<1>2. Within(r.ls) /\ Searching(r.ls, r)
  BY ReaderFields, OverIsOrder DEF Searching
<1>3. CASE ~AtQuote(r.ls)
  <2>1. PICK failed, raised : failed = SourceFailed(r) /\ raised = Raise(r, "UNEXPECTED_VALUE")
    OBVIOUS
  <2>2. b = IF HasSourceError(r.ls) THEN failed ELSE raised
    BY <1>3, <2>1 DEF ScanMatchField
  <2>3. Searching(r.ls, failed) /\ ~failed.ok /\ Searching(r.ls, raised) /\ ~raised.ok
    BY <1>1, <1>2, <2>1, FailingIs
  <2>4. HasSourceError(r.ls) => failed.node = "Error"
    <3>1. HasSourceError(r.ls) => r.ls.state = IOError
      BY <1>2, WithinTypes DEF HasSourceError, Settled, States, Ok, EndOfInput, OutOfMemory, Initial
    <3> QED BY <2>1, <3>1, SourceFailedIs
  <2>5. raised.err = "UNEXPECTED_VALUE"
    BY <2>1 DEF Raise, Reader, ReadersOf
  <2>6. HasError(b)
    BY <2>2, <2>4, <2>5 DEF HasError, NoError
  <2> QED BY <2>2, <2>3, <2>6
<1>4. CASE AtQuote(r.ls)
  <2>1. PICK a : a = StepOver(r, "UNTERMINATED_STRING")
    OBVIOUS
  <2>2. PICK scan : scan = CompareSibling(a.ls, name)
    OBVIOUS
  <2>3. PICK o : o = On(a, scan.ls)
    OBVIOUS
  <2>4. PICK c : c = SiblingCompared(o, scan)
    OBVIOUS
  <2>5. (~a.ok /\ b = a) \/ (a.ok /\ b = c)
    BY <1>4, <2>1, <2>2, <2>3, <2>4, Zenon DEF ScanMatchField, Then
  <2>6. /\ Reader(a) /\ Stepped(r.ls, a.ls) /\ (~a.ok => a.node = "Error")
        /\ a.ok => Ahead(r.ls, a.ls)
    <3>1. r.ls.current # NUL
      BY <1>4 DEF AtQuote, NUL
    <3> QED BY <1>1, <2>1, <3>1, StepOverIs, RetoldOn
  <2>7. Over(r.ls, a.ls) /\ Within(a.ls) /\ Settled(a.ls) /\ a.ls.state # Initial
    BY <2>6, ReaderFields, OverIsOrder, CalmIsSettled DEF Stepped, Calm, Paused
  <2>8. Over(a.ls, scan.ls) /\ Within(scan.ls) /\ Settled(scan.ls) /\ scan.ls.state # Initial
    BY <2>2, <2>7, ComparisonIs, OverIsOrder DEF Over, Onward
  <2>9. Reader(o) /\ o.ls = scan.ls
    BY <2>3, <2>6, <2>8, OnIs, RetoldOn
  <2>10. Searching(scan.ls, c) /\ (c.ok => c.node = "Field")
    BY <2>4, <2>8, <2>9, SiblingComparedIs
  <2>11. Searching(a.ls, c)
    BY <2>7, <2>8, <2>10, SearchingOn
  <2>12. Searching(r.ls, c) /\ (a.ok => Ahead(r.ls, c.ls))
    BY <1>2, <2>6, <2>7, <2>11, SearchingOn
  <2>13. Searching(r.ls, a)
    BY <2>6, <2>7 DEF Searching
  <2> QED BY <2>5, <2>6, <2>10, <2>12, <2>13 DEF HasError
<1> QED BY <1>3, <1>4

\* A sibling that is not the one, and the comma after it.
LEMMA SkipSiblingIs ==
  ASSUME NEW r, Reader(r), Settled(r.ls), r.ls.state # Initial, NEW b, b = SkipSibling(r)
  PROVE  Searching(r.ls, b)
<1>1. PICK a : a = SkipObjectOrArrayOrValuePart(r)
  OBVIOUS
<1>2. PICK c : c = SkipIfComma(a)
  OBVIOUS
<1>3. Searching(r.ls, a)
  BY <1>1, SkipAnyIs DEF Past, Searching
<1>4. Searching(a.ls, c)
  <2>1. Reader(a) /\ Settled(a.ls) /\ a.ls.state # Initial
    BY <1>3, SearchingHere
  <2> QED BY <1>2, <2>1, CommaIsPast DEF Past, Searching
<1>5. Searching(r.ls, c)
  BY <1>3, <1>4, ReaderFields, SearchingOn DEF Searching
<1>6. b = a \/ b = c
  BY <1>1, <1>2 DEF SkipSibling, Then
<1> QED BY <1>3, <1>5, <1>6

ScanningSiblings == INSTANCE LoopProofs WITH Step <- SiblingRound

\* A search that has ended with a field has found it further on than l.
FoundAhead(l, a) == ~a.ok /\ a.r.ok => a.r.node = "Field" /\ Ahead(l, a.r.ls)

\* What a scan of siblings that begins at l goes through.
SiblingScans(l) ==
  {a \in [ok : BOOLEAN, r : ReadersOf(l.in), name : Seq(STRING)] :
     Searching(l, a.r) /\ FoundAhead(l, a)}

\* A scan of a sibling is as far as its reader is.
LEMMA SiblingScanOf ==
  ASSUME NEW l, NEW x, Searching(l, x), NEW o \in BOOLEAN, NEW name \in Seq(STRING),
         ~o /\ x.ok => x.node = "Field" /\ Ahead(l, x.ls),
         NEW a, a = [ok |-> o, r |-> x, name |-> name]
  PROVE  a \in SiblingScans(l)
<1>1. x \in ReadersOf(l.in)
  BY DEF Searching, Over, Onward, Reader
<1> QED BY <1>1 DEF SiblingScans, FoundAhead

\* One turn: a field found, an error, or a field passed.
LEMMA SiblingRoundIs ==
  ASSUME NEW l, Within(l), l.state # Initial, NEW a \in SiblingScans(l),
         NEW t, t = SiblingRound(a)
  PROVE  t \in SiblingScans(l) /\ (t.ok => Ahead(a.r.ls, t.r.ls))
<1>1. PICK r : r = a.r
  OBVIOUS
<1>2. PICK name \in Seq(STRING) : name = a.name
  BY DEF SiblingScans
<1>3. Searching(l, r) /\ Reader(r) /\ Within(r.ls) /\ Settled(r.ls) /\ r.ls.state # Initial
  BY <1>1, SearchingHere DEF SiblingScans
<1>4. PICK m : m = ScanMatchField(r, name)
  OBVIOUS
<1>5. /\ Searching(r.ls, m)
      /\ m.ok => m.node = "Field"
      /\ m.ok \/ ~HasError(m) => Ahead(r.ls, m.ls)
  BY <1>3, <1>4, ScanMatchFieldIs
<1>6. Over(l, r.ls) /\ Over(r.ls, m.ls) /\ Searching(l, m)
  BY <1>3, <1>5, SearchingOn DEF Searching
<1>7. t = SiblingTurn(m, name)
  BY <1>1, <1>2, <1>4 DEF SiblingRound
<1>8. CASE HasError(m) \/ m.ok
  <2>1. PICK no : no = No(m)
    OBVIOUS
  <2>2. PICK x : x = IF HasError(m) THEN no ELSE m
    OBVIOUS
  <2>3. t = [ok |-> FALSE, r |-> x, name |-> name]
    BY <1>7, <1>8, <2>1, <2>2 DEF SiblingTurn
  <2>4. Searching(l, no) /\ ~no.ok
    <3>1. "INVALID_VALUE" \in Errors
      BY ErrorNames
    <3> QED BY <1>6, <2>1, <3>1, FailingIs
  <2>5. m.ok => Ahead(l, m.ls)
    BY <1>3, <1>5, SearchingOn DEF Searching
  <2>6. Searching(l, x) /\ (x.ok => x.node = "Field" /\ Ahead(l, x.ls))
    BY <1>5, <1>6, <2>2, <2>4, <2>5
  <2>7. t \in SiblingScans(l)
    BY <2>3, <2>6, SiblingScanOf
  <2> QED BY <2>3, <2>7
<1>9. CASE ~(HasError(m) \/ m.ok)
  <2>1. PICK s : s = SkipSibling(m)
    OBVIOUS
  <2>2. t = [ok |-> s.ok, r |-> s, name |-> name]
    BY <1>7, <1>9, <2>1 DEF SiblingTurn
  <2>3. Searching(m.ls, s)
    BY <1>5, <1>3, <2>1, SearchingHere, SkipSiblingIs
  <2>4. Searching(r.ls, s) /\ Ahead(r.ls, s.ls)
    BY <1>3, <1>5, <1>6, <1>9, <2>3, SearchingOn
  <2>5. Searching(l, s) /\ s.ok \in BOOLEAN
    BY <1>6, <2>4, SearchingOn, ReaderFields DEF Searching
  <2>6. t \in SiblingScans(l)
    BY <2>2, <2>5, SiblingScanOf
  <2> QED BY <1>1, <2>2, <2>4, <2>6
<1> QED BY <1>8, <1>9

\* What is left of a search that is at l, in a document.
ToCome(l) == Len(l.in) + 1 - Cur(l)

\* It goes down as the search goes on.
LEMMA ToComeFalls ==
  ASSUME NEW l, Within(l), NEW m, Onward(l, m)
  PROVE  /\ ToCome(l) \in Nat /\ ToCome(m) \in Nat /\ ToCome(m) <= ToCome(l)
         /\ ToCome(l) <= Left(l)
         /\ Ahead(l, m) => ToCome(m) < ToCome(l)
<1>1. Within(m) /\ m.in = l.in /\ Cur(l) <= Cur(m)
  BY DEF Onward
<1>2. PICK n \in Nat : n = Len(l.in)
  BY WithinTypes
<1>3. PICK x \in Nat, y \in Nat : x = Cur(l) /\ y = Cur(m) /\ x <= n + 1 /\ y <= n + 1
  <2>1. Cur(l) \in Nat /\ Cur(l) <= n + 1
    BY <1>2, WithinTypes
  <2>2. Cur(m) \in Nat /\ Cur(m) <= n + 1
    BY <1>1, <1>2, WithinTypes
  <2> QED BY <2>1, <2>2
<1>4. l.at \in Nat /\ (x = l.at \/ x = l.at + 1)
  BY <1>3, WithinTypes
<1>5. ToCome(l) = n + 1 - x /\ ToCome(m) = n + 1 - y /\ Left(l) = n - l.at + 2
  BY <1>1, <1>2, <1>3 DEF ToCome, Left
<1> QED BY <1>1, <1>3, <1>4, <1>5 DEF Ahead

\* scanMatchSiblings() ends on every input, with the field further on.
LEMMA ScanMatchSiblingsIs ==
  ASSUME NEW r, Reader(r), Settled(r.ls), r.ls.state # Initial, NEW name \in Seq(STRING),
         NEW b, b = ScanMatchSiblings(r, name)
  PROVE  /\ Searching(r.ls, b)
         /\ b.ok => b.node = "Field" /\ Ahead(r.ls, b.ls)
<1> DEFINE S == SiblingScans(r.ls)
           V == [a \in S |-> ToCome(a.r.ls)]
           start == [ok |-> TRUE, r |-> r, name |-> name]
<1>1. Within(r.ls) /\ Searching(r.ls, r) /\ Over(r.ls, r.ls)
  BY ReaderFields, OverIsOrder DEF Searching
<1>2. start \in S
  BY <1>1, SiblingScanOf
<1>3. ASSUME NEW a \in S
      PROVE  /\ ToCome(a.r.ls) \in Nat
             /\ SiblingRound(a) \in S
             /\ SiblingRound(a).ok => ToCome(SiblingRound(a).r.ls) < ToCome(a.r.ls)
  <2>1. PICK t : t = SiblingRound(a)
    OBVIOUS
  <2>2. t \in S /\ (t.ok => Ahead(a.r.ls, t.r.ls))
    BY <1>1, <2>1, SiblingRoundIs
  <2>3. Within(a.r.ls) /\ Over(r.ls, a.r.ls) /\ Over(r.ls, t.r.ls)
    BY <2>2, SearchingHere DEF SiblingScans, Searching
  <2>4. ToCome(a.r.ls) \in Nat
    BY <1>1, <2>3, ToComeFalls DEF Over
  <2>5. t.ok => ToCome(t.r.ls) < ToCome(a.r.ls)
    <3>1. ASSUME t.ok PROVE ToCome(t.r.ls) < ToCome(a.r.ls)
      <4>1. Ahead(a.r.ls, t.r.ls) /\ Within(t.r.ls) /\ t.r.ls.in = a.r.ls.in
        BY <2>2, <2>3, <3>1 DEF Over, Onward
      <4>2. Cur(a.r.ls) \in Nat /\ Cur(t.r.ls) \in Nat /\ Len(a.r.ls.in) \in Nat
        BY <2>3, <4>1, WithinTypes
      <4> QED BY <4>1, <4>2 DEF ToCome, Ahead
    <3> QED BY <3>1
  <2> QED BY <2>1, <2>2, <2>4, <2>5
<1>4. V \in [S -> Nat] /\ V[start] <= Left(r.ls) /\ Left(r.ls) \in Nat
  <2>1. V[start] = ToCome(r.ls)
    BY <1>2
  <2> QED BY <1>1, <1>3, <2>1, ToComeFalls, LeftIsNat DEF Over
<1>5. \A a \in S : a.ok => SiblingRound(a) \in S /\ (SiblingRound(a).ok => V[SiblingRound(a)] < V[a])
  BY <1>3
<1> HIDE DEF S, V, start
<1>6. PICK n \in Nat : n = Left(r.ls)
  BY <1>4
<1>7. PICK e : e = ScanningSiblings!WhileOk(SiblingRound, start, n)
  OBVIOUS
<1>8. e \in S /\ ~e.ok
  BY <1>2, <1>4, <1>5, <1>6, <1>7, ScanningSiblings!LoopEnds
<1>9. b = e.r
  BY <1>6, <1>7 DEF ScanMatchSiblings, WhileOk, Repeat, ScanningSiblings!WhileOk,
     ScanningSiblings!Repeat, start
<1> QED BY <1>8, <1>9 DEF S, SiblingScans, FoundAhead

\* The search among siblings, from the nodes it may begin at.
LEMMA SearchSiblingsIs ==
  ASSUME NEW r, Reader(r), r.ls.state # Initial, NEW from,
         r.node \in {"Object", "Field"} => Settled(r.ls),
         from # Unread => from = r.node,
         NEW name \in Seq(STRING), NEW b, b = SearchSiblings(from, r, name)
  PROVE  \/ Searching(r.ls, b) /\ (b.ok => b.node = "Field" /\ Ahead(r.ls, b.ls))
         \/ b = No(r)
<1>1. PICK scan, a, no : scan = ScanMatchSiblings(r, name) /\ a = SkipSibling(r) /\ no = No(r)
  OBVIOUS
<1>2. PICK next : next = ScanMatchSiblings(a, name)
  OBVIOUS
<1>3. PICK u, v \in BOOLEAN : /\ u = (from = "Object" \/ (from = Unread /\ r.node = "Object"))
                              /\ v = (from = "Field")
  OBVIOUS
<1>4. PICK then : then = IF a.ok THEN next ELSE a
  OBVIOUS
<1>5. b = CASE u -> scan [] v -> then [] OTHER -> no
  BY <1>1, <1>2, <1>3, <1>4 DEF SearchSiblings, Then
<1>6. (u /\ b = scan) \/ (v /\ b = then) \/ b = no
  BY <1>5
<1>7. "Object" # Unread /\ "Field" # Unread
  BY DEF Unread
<1>8. CASE u /\ b = scan
  <2>1. Settled(r.ls)
    BY <1>3, <1>7, <1>8
  <2> QED BY <1>1, <1>8, <2>1, ScanMatchSiblingsIs
<1>9. CASE v /\ b = then
  <2>1. Settled(r.ls)
    BY <1>3, <1>7, <1>9
  <2>2. Searching(r.ls, a) /\ Reader(a) /\ Settled(a.ls) /\ a.ls.state # Initial
    BY <1>1, <2>1, SkipSiblingIs, SearchingHere
  <2>3. Searching(a.ls, next) /\ (next.ok => next.node = "Field" /\ Ahead(a.ls, next.ls))
    BY <1>2, <2>2, ScanMatchSiblingsIs
  <2>4. Searching(r.ls, next) /\ (next.ok => Ahead(r.ls, next.ls))
    BY <2>2, <2>3, ReaderFields, SearchingOn DEF Searching
  <2> QED BY <1>4, <1>9, <2>2, <2>3, <2>4
<1> QED BY <1>1, <1>6, <1>8, <1>9

-----------------------------------------------------------------------------
(* Forward and Descendants: one turn of the loop, which goes on past what it *)
(* has found.                                                                *)

\* What a turn leaves that has begun at l.
Hunted(l, t) ==
  t.ok \in BOOLEAN /\ t.level \in Int /\ Searching(l, t.r) /\ FoundAhead(l, t)

\* A turn after a move.
LEMMA HuntedOn ==
  ASSUME NEW l, Within(l), NEW m, Over(l, m), NEW t, Hunted(m, t)
  PROVE  Hunted(l, t)
  BY SearchingOn DEF Hunted, FoundAhead

\* A turn that leaves the loop.
LEMMA StopIs ==
  ASSUME NEW l, NEW x, Searching(l, x), x.ok => x.node = "Field" /\ Ahead(l, x.ls),
         NEW level \in Int, NEW t, t = Stop(x, level)
  PROVE  Hunted(l, t) /\ ~t.ok /\ t.r = x
<1>1. t.ok = FALSE /\ t.level = level /\ t.r = x
  BY DEF Stop
<1> QED BY <1>1 DEF Hunted, FoundAhead

\* A turn that goes on if all is well.
LEMMA GoOnIs ==
  ASSUME NEW l, NEW x, Searching(l, x), NEW level \in Int, NEW t, t = GoOn(x, level)
  PROVE  Hunted(l, t) /\ t.ok = x.ok /\ t.r = x
<1>1. t.ok = x.ok /\ t.level = level /\ t.r = x
  BY DEF GoOn
<1>2. x.ok \in BOOLEAN
  BY ReaderFields DEF Searching
<1> QED BY <1>1, <1>2 DEF Hunted, FoundAhead

\* The level wraps like the depth, or stands for none.
LEMMA LevelIs ==
  ASSUME NEW level \in Int, NEW by \in {1, -1}
  PROVE  Level(level, by) \in Int
<1>1. (level + by) % DepthMod \in Int
  BY DepthModAssumption
<1> QED BY <1>1 DEF Level

\* A field that has been come past, if it is the one.
LEMMA FoundIs ==
  ASSUME NEW l, NEW c, Searching(l, c), c.ok => c.node = "Field" /\ Ahead(l, c.ls),
         NEW match, NEW level \in Int, NEW t, t = Found(c, match, level)
  PROVE  Hunted(l, t)
<1>1. PICK y : y = [c EXCEPT !.ok = ~HasError(c)]
  OBVIOUS
<1>2. PICK yes, no : yes = Yes(c) /\ no = No(c)
  OBVIOUS
<1>3. y = yes \/ y = no
  BY <1>1, <1>2 DEF HasError, Yes, No
<1>4. Reader(yes) /\ yes.ls = c.ls /\ yes.node = c.node
  BY <1>2, YesIs, RetoldOn DEF Searching
<1>5. Reader(no) /\ no.ls = c.ls /\ ~no.ok
  BY <1>2, NoIs, RetoldOn DEF Searching
<1>6. CASE c.ok /\ match
  <2>1. Searching(l, y) /\ (y.ok => y.node = "Field" /\ Ahead(l, y.ls))
    BY <1>3, <1>4, <1>5, <1>6 DEF Searching
  <2>2. t = Stop(y, level)
    BY <1>1, <1>6 DEF Found
  <2> QED BY <2>1, <2>2, StopIs
<1>7. CASE ~(c.ok /\ match)
  <2>1. t = GoOn(c, level)
    BY <1>7 DEF Found
  <2> QED BY <2>1, GoOnIs
<1> QED BY <1>6, <1>7

\* The end of a string that has been compared: a field if a colon follows.
LEMMA ForwardEndsIs ==
  ASSUME NEW r, Reader(r), Settled(r.ls), r.ls.state # Initial, NEW match, NEW level \in Int,
         NEW t, t = ForwardEnds(r, match, level)
  PROVE  Hunted(r.ls, t)
<1>1. PICK colon : colon = OverColon(r)
  OBVIOUS
<1>2. Searching(r.ls, r)
  BY ReaderFields, OverIsOrder DEF Searching
<1>3. CASE r.ok /\ More(r.ls) /\ r.ls.current = ":"
  <2>1. t = Found(colon, match, level)
    BY <1>1, <1>3 DEF ForwardEnds
  <2>2. r.ls.current # NUL
    BY <1>3 DEF NUL
  <2>3. Searching(r.ls, colon) /\ (colon.ok => colon.node = "Field" /\ Ahead(r.ls, colon.ls))
    BY <1>1, <2>2, OverColonIs
  <2> QED BY <2>1, <2>3, FoundIs
<1>4. CASE ~(r.ok /\ More(r.ls) /\ r.ls.current = ":")
  <2>1. t = GoOn(r, level)
    BY <1>4 DEF ForwardEnds
  <2> QED BY <1>2, <2>1, GoOnIs
<1> QED BY <1>3, <1>4

\* A string that may be the name of the field.
LEMMA ForwardNameIs ==
  ASSUME NEW r, Reader(r), Settled(r.ls), r.ls.state # Initial, NEW name \in Seq(STRING),
         NEW level \in Int, NEW t, t = ForwardName(r, name, level)
  PROVE  Hunted(r.ls, t) /\ (t.ok => r.ok)
<1>1. Searching(r.ls, r) /\ Within(r.ls) /\ r.ok \in BOOLEAN
  BY ReaderFields, OverIsOrder DEF Searching
<1>2. CASE ~r.ok
  <2>1. t = Stop(r, level)
    BY <1>2 DEF ForwardName
  <2> QED BY <1>1, <1>2, <2>1, StopIs
<1>3. CASE r.ok
  <2>1. PICK scan : scan = CompareForward(r.ls, name)
    OBVIOUS
  <2>2. PICK o : o = On(r, scan.ls)
    OBVIOUS
  <2>3. PICK eat, rest, match : eat = Eat(o) /\ rest = SkipRest(o) /\ match = Matches(scan)
    OBVIOUS
  <2>4. Over(r.ls, scan.ls) /\ Within(scan.ls)
    BY <1>1, <2>1, ComparisonIs, OverIsOrder
  <2>5. Reader(o) /\ o.ls = scan.ls /\ Settled(o.ls) /\ o.ls.state # Initial
    BY <2>2, <2>4, OnIs, RetoldOn DEF Over, Onward
  <2>6. Searching(o.ls, eat)
    BY <2>3, <2>5, EatIs, RetoldOn, OverIsOrder DEF Searching
  <2>7. Searching(o.ls, rest)
    BY <2>3, <2>5, SkipRestIs
  <2>8. t = IF AtQuote(o.ls) THEN ForwardEnds(eat, match, level) ELSE GoOn(rest, level)
    BY <1>3, <2>1, <2>2, <2>3, Zenon DEF ForwardName, ForwardCompared
  <2>9. CASE t = ForwardEnds(eat, match, level)
    <3>1. Reader(eat) /\ Settled(eat.ls) /\ eat.ls.state # Initial
      BY <2>5, <2>6, SearchingHere
    <3>2. Hunted(eat.ls, t)
      BY <2>9, <3>1, ForwardEndsIs
    <3>3. Over(r.ls, eat.ls)
      BY <1>1, <2>4, <2>5, <2>6, OverIsOrder DEF Searching
    <3> QED BY <1>1, <1>3, <3>2, <3>3, HuntedOn
  <2>10. CASE t = GoOn(rest, level)
    <3>1. Hunted(o.ls, t)
      BY <2>7, <2>10, GoOnIs
    <3> QED BY <1>1, <1>3, <2>4, <2>5, <3>1, HuntedOn
  <2> QED BY <2>8, <2>9, <2>10
<1> QED BY <1>1, <1>2, <1>3

\* Over an opening or closing bracket, and whether anything follows it.
Bracketed(n, x) == Searching(n, x) /\ (x.ok => n.state = Ok)

\* An opening bracket takes the search inside.
LEMMA GoInsideIs ==
  ASSUME NEW n, NEW x, Bracketed(n, x), NEW level \in Int, NEW t, t = GoInside(x, level)
  PROVE  Hunted(n, t) /\ (t.ok => n.state = Ok)
<1>1. PICK v \in Int : v = IF x.ok THEN Level(level, 1) ELSE level
  BY LevelIs
<1>2. t = GoOn(x, v)
  BY <1>1 DEF GoInside
<1> QED BY <1>2, GoOnIs DEF Bracketed

\* A closing one takes it outside, or ends it.
LEMMA GoOutsideIs ==
  ASSUME NEW n, NEW x, Bracketed(n, x), NEW node \in Nodes, NEW level \in Int,
         NEW t, t = GoOutside(x, node, level)
  PROVE  Hunted(n, t) /\ (t.ok => n.state = Ok)
<1>1. PICK v \in Int : v = IF x.ok THEN Level(level, -1) ELSE level
  BY LevelIs
<1>2. PICK y, e : y = [x EXCEPT !.node = node] /\ e = No(y)
  OBVIOUS
<1>3. Reader(y) /\ y.ls = x.ls
  BY <1>2, NodeSet DEF Bracketed, Searching
<1>4. Reader(e) /\ e.ls = x.ls /\ ~e.ok
  BY <1>2, <1>3, NoIs, RetoldOn
<1>5. e = [x EXCEPT !.node = node, !.ok = FALSE]
  BY <1>2 DEF No
<1>6. PICK z \in Int : z = 0
  OBVIOUS
<1>7. t = Stop(e, z) \/ t = GoOn(x, v)
  BY <1>1, <1>5, <1>6 DEF GoOutside
<1>8. Searching(n, e)
  BY <1>4 DEF Bracketed, Searching
<1> QED BY <1>4, <1>7, <1>8, StopIs, GoOnIs DEF Bracketed

\* A closing bracket and the white space after it.
LEMMA OverClosingIs ==
  ASSUME NEW r, Reader(r), NEW n, n = Advance(r.ls), NEW b, b = OverClosing(r)
  PROVE  Bracketed(n, b)
<1>1. PICK a : a = StepOnto(r)
  OBVIOUS
<1>2. PICK w : w = Arrive(a, SkipWhiteSpace(a.ls))
  OBVIOUS
<1>3. Reader(a) /\ a.ls = n /\ Stepped(r.ls, n) /\ (a.ok => n.state = Ok)
  BY <1>1, StepOntoIs, RetoldOn
<1>4. Within(n) /\ Settled(n) /\ n.state # Initial /\ Over(n, n)
  BY <1>3, CalmIsSettled, WithinOnward, OverIsOrder DEF Stepped, Calm, Paused
<1>5. Searching(n, w) /\ Searching(n, a)
  BY <1>2, <1>3, <1>4, OverSpaceIs DEF Searching
<1>6. (~a.ok /\ b = a) \/ (a.ok /\ b = w)
  BY <1>1, <1>2 DEF OverClosing, Then
<1> QED BY <1>3, <1>5, <1>6 DEF Bracketed

\* The opening bracket of an array.
LEMMA OverArrayBracketIs ==
  ASSUME NEW r, Reader(r), NEW n, n = Advance(r.ls), NEW b, b = OverArrayBracket(r)
  PROVE  Bracketed(n, b)
<1>1. Within(n) /\ Settled(n) /\ n.state # Initial /\ Over(n, n)
  <2>1. Onward(r.ls, n) /\ Calm(n)
    BY ReaderFields, AdvanceIsOnward
  <2> QED BY <2>1, CalmIsSettled, WithinOnward, OverIsOrder DEF Calm, Paused
<1>2. PICK a : a = On(r, n)
  OBVIOUS
<1>3. Reader(a) /\ a.ls = n /\ Searching(n, a)
  BY <1>1, <1>2, OnIs, RetoldOn DEF Searching
<1>4. PICK yes, failed, raised :
        yes = Yes(a) /\ failed = SourceFailed(a) /\ raised = Raise(a, "UNTERMINATED_ARRAY")
  OBVIOUS
<1>5. b = CASE More(n) -> yes
            [] ~More(n) /\ HasSourceError(n) -> failed
            [] ~More(n) /\ ~HasSourceError(n) -> raised
  BY <1>2, <1>3, <1>4, Zenon DEF OverArrayBracket
<1>6. (More(n) /\ b = yes) \/ b = failed \/ b = raised
  BY <1>5
<1>7. Reader(yes) /\ yes.ls = n
  BY <1>3, <1>4, YesIs, RetoldOn
<1>8. "UNTERMINATED_ARRAY" \in Errors
  BY ErrorNames
<1>9. Searching(n, failed) /\ ~failed.ok /\ Searching(n, raised) /\ ~raised.ok
  BY <1>3, <1>4, <1>8, FailingIs
<1>10. More(n) => n.state = Ok
  BY <1>1, MoreIsOk
<1> QED BY <1>1, <1>6, <1>7, <1>9, <1>10 DEF Bracketed, Searching

\* One turn on what a search for a quote or bracket has found.
LEMMA SearchTurnIs ==
  ASSUME NEW o, Reader(o), NEW ch \in Brackets, NEW n, n = Advance(o.ls),
         NEW name \in Seq(STRING), NEW level \in Int, NEW t, t = SearchTurn(ch, o, name, level)
  PROVE  Hunted(n, t) /\ (t.ok => n.state = Ok)
<1>1. PICK quote, brace, down : /\ quote = StepOver(o, "UNTERMINATED_STRING")
                                /\ brace = StepOver(o, "UNTERMINATED_OBJECT")
                                /\ down = Deeper(o, -1)
  OBVIOUS
<1>2. PICK deeper : deeper = Deeper(brace, 1)
  OBVIOUS
<1>3. PICK open, array, close, end :
        /\ open = Then(brace, LAMBDA a : Deeper(a, 1)) /\ array = OverArrayBracket(o)
        /\ close = OverClosing(down) /\ end = OverClosing(o)
  OBVIOUS
<1>4. PICK t0, t1, t2, t3, t4, t5 :
        /\ t0 = Stop(No(o), level) /\ t1 = ForwardName(quote, name, level)
        /\ t2 = GoInside(open, level) /\ t3 = GoInside(array, level)
        /\ t4 = GoOutside(close, "EndObject", level) /\ t5 = GoOutside(end, "EndArray", level)
  OBVIOUS
<1>5. t = CASE ch = NUL -> t0 [] ch = "\"" -> t1 [] ch = "{" -> t2 [] ch = "[" -> t3
            [] ch = "}" -> t4 [] ch = "]" -> t5
  BY <1>1, <1>3, <1>4, Zenon DEF SearchTurn
<1>6. t \in {t1, t2, t3, t4, t5}
  <2>1. ch # NUL
    BY DEF Brackets, NUL
  <2>2. ch \in {"\"", "{", "}", "[", "]"}
    BY DEF Brackets
  <2> QED BY <1>5, <2>1, <2>2
<1>7. /\ "UNTERMINATED_STRING" \in Errors /\ "UNTERMINATED_OBJECT" \in Errors
      /\ "EndObject" \in Nodes /\ "EndArray" \in Nodes
  BY ErrorNames, Names
<1>8. Reader(quote) /\ quote.ls = n /\ Stepped(o.ls, n) /\ (quote.ok => n.state = Ok)
  BY <1>1, <1>7, StepOverIs, RetoldOn
<1>9. Reader(brace) /\ brace.ls = n /\ (brace.ok => n.state = Ok)
  BY <1>1, <1>7, StepOverIs, RetoldOn
<1>10. Within(n) /\ Settled(n) /\ n.state # Initial /\ Over(n, n)
  BY <1>8, CalmIsSettled, WithinOnward, OverIsOrder DEF Stepped, Calm, Paused
<1>11. Hunted(n, t1) /\ (t1.ok => n.state = Ok)
  BY <1>4, <1>8, <1>10, ForwardNameIs
<1>12. Bracketed(n, open)
  <2>1. Reader(deeper) /\ deeper.ls = n /\ deeper.ok = brace.ok
    BY <1>2, <1>9, DeeperIs
  <2>2. open = brace \/ open = deeper
    BY <1>2, <1>3 DEF Then
  <2> QED BY <1>9, <1>10, <2>1, <2>2 DEF Bracketed, Searching
<1>13. Bracketed(n, array)
  BY <1>3, OverArrayBracketIs
<1>14. Bracketed(n, close)
  <2>1. Reader(down) /\ down.ls = o.ls
    BY <1>1, DeeperIs
  <2> QED BY <1>3, <2>1, OverClosingIs
<1>15. Bracketed(n, end)
  BY <1>3, OverClosingIs
<1>16. Hunted(n, t2) /\ (t2.ok => n.state = Ok) /\ Hunted(n, t3) /\ (t3.ok => n.state = Ok)
  BY <1>4, <1>12, <1>13, GoInsideIs
<1>17. Hunted(n, t4) /\ (t4.ok => n.state = Ok)
  BY <1>4, <1>7, <1>14, GoOutsideIs
<1>18. Hunted(n, t5) /\ (t5.ok => n.state = Ok)
  BY <1>4, <1>7, <1>15, GoOutsideIs
<1> QED BY <1>6, <1>11, <1>16, <1>17, <1>18

-----------------------------------------------------------------------------
(* The loop of Forward and Descendants.                                      *)

HuntingOn == INSTANCE LoopProofs WITH Step <- SearchRound

\* Past what has been found, even where the source had come to the end of its
\* input without its state telling, and the search has gone back on that.
LEMMA FoundIsPassed ==
  ASSUME NEW l, Within(l), l.state # Initial, NEW s, Answered(l, s, Brackets), s.found # NUL,
         NEW n, n = Advance(s.ls)
  PROVE  /\ Onward(l, n) /\ Calm(n)
         /\ Settled(l) /\ n.state = Ok => Ahead(l, n)
<1>1. Within(s.ls) /\ s.ls.in = l.in /\ s.ls.kind = l.kind /\ l.at <= s.ls.at
      /\ s.ls.current # NUL
  BY DEF Answered
<1>2. Within(n) /\ n.in = l.in /\ n.kind = l.kind /\ Calm(n) /\ Cur(n) >= s.ls.at + 1
  BY <1>1, AdvanceKeeps
<1>3. PICK x \in Nat, y \in Nat, i \in Nat, j \in Nat :
        x = Cur(l) /\ y = Cur(n) /\ i = l.at /\ j = s.ls.at
  BY <1>1, <1>2, WithinTypes
<1>4. x = i \/ x = i + 1
  BY <1>3, WithinTypes
<1>5. x <= y
  BY <1>1, <1>2, <1>3, <1>4
<1>6. Onward(l, n)
  BY <1>2, <1>3, <1>5 DEF Onward, Calm, Paused
<1>7. n.state = Ok => Ahead(s.ls, n)
  BY <1>1, AdvanceIsAhead
<1>8. Onward(s.ls, n)
  BY <1>1, AdvanceIsOnward
<1>9. Settled(l) /\ n.state = Ok => Ahead(l, n)
  BY <1>7, <1>8, OnwardIsOrder DEF Answered
<1> QED BY <1>2, <1>6, <1>9

\* What a search that begins with r goes through.
Hunting(r, a) ==
  /\ a.ok \in BOOLEAN /\ a.level \in Int
  /\ Reader(a.r) /\ Onward(r.ls, a.r.ls)
  /\ Midst(a.r) \/ Settled(a.r.ls)
  /\ FoundAhead(r.ls, a)
Hunts(r) ==
  {a \in [ok : BOOLEAN, r : ReadersOf(r.ls.in), level : Int, name : Seq(STRING)] : Hunting(r, a)}

\* A turn with its name is part of the hunt.
LEMMA HuntOf ==
  ASSUME NEW r, NEW t, Hunting(r, t), NEW name \in Seq(STRING),
         NEW a, a = SearchingFor(name, t)
  PROVE  a \in Hunts(r) /\ a.ok = t.ok /\ a.r = t.r
<1>1. a = [ok |-> t.ok, r |-> t.r, level |-> t.level, name |-> name]
  BY DEF SearchingFor
<1>2. t.r \in ReadersOf(r.ls.in)
  BY DEF Hunting, Onward, Reader
<1>3. a.ok = t.ok /\ a.r = t.r
  BY <1>1
<1> QED BY <1>1, <1>2, <1>3 DEF Hunts, Hunting, FoundAhead

\* One turn: it ends where nothing is found, and otherwise goes on.
LEMMA SearchRoundIs ==
  ASSUME NEW r, Reader(r), r.ls.state # Initial, NEW a \in Hunts(r), NEW t, t = SearchRound(a)
  PROVE  /\ t \in Hunts(r)
         /\ t.ok => /\ Onward(a.r.ls, t.r.ls) /\ Settled(t.r.ls)
                    /\ Settled(a.r.ls) => Ahead(a.r.ls, t.r.ls)
<1>1. PICK x : x = a.r
  OBVIOUS
<1>2. PICK l : l = x.ls
  OBVIOUS
<1>3. PICK name \in Seq(STRING), level \in Int : name = a.name /\ level = a.level
  BY DEF Hunts
<1>4. /\ Reader(x) /\ Within(l) /\ Onward(r.ls, l) /\ l.state # Initial
      /\ Midst(x) \/ Settled(l)
  BY <1>1, <1>2, ReaderFields DEF Hunts, Hunting, Onward
<1>5. PICK s : s = SkipToAny(l, Brackets)
  OBVIOUS
<1>6. Answered(l, s, Brackets)
  BY <1>4, <1>5, SkipToAnyKeeps
<1>7. PICK o : o = On(x, s.ls)
  OBVIOUS
<1>8. Reader(o) /\ Retold(x, o) /\ o.ls = s.ls /\ o.node = x.node /\ Within(s.ls) /\ Within(r.ls)
  <2>1. Within(s.ls) /\ s.ls.in = l.in /\ Within(r.ls)
    BY <1>4, <1>6, ReaderFields DEF Answered
  <2>2. x.ls.in = s.ls.in
    BY <1>2, <2>1
  <2>3. Retold(x, o) /\ o.ls = s.ls /\ o.node = x.node
    BY <1>4, <1>7, <2>1, <2>2, OnIs
  <2>4. Reader(o)
    BY <2>3 DEF Retold
  <2> QED BY <2>1, <2>3, <2>4
<1>9. PICK u : u = SearchTurn(s.found, o, name, level)
  OBVIOUS
<1>10. t = SearchingFor(name, u)
  BY <1>1, <1>2, <1>3, <1>5, <1>7, <1>9 DEF SearchRound
<1>11. CASE s.found = NUL
  <2>1. PICK no : no = No(o)
    OBVIOUS
  <2>2. u = Stop(no, level)
    <3>1. PICK q1, q2, q3, q4, q5 :
            /\ q1 = ForwardName(StepOver(o, "UNTERMINATED_STRING"), name, level)
            /\ q2 = GoInside(Then(StepOver(o, "UNTERMINATED_OBJECT"), LAMBDA z : Deeper(z, 1)), level)
            /\ q3 = GoInside(OverArrayBracket(o), level)
            /\ q4 = GoOutside(OverClosing(Deeper(o, -1)), "EndObject", level)
            /\ q5 = GoOutside(OverClosing(o), "EndArray", level)
      OBVIOUS
    <3>2. PICK q0 : q0 = Stop(no, level)
      OBVIOUS
    <3>3. u = CASE s.found = NUL -> q0 [] s.found = "\"" -> q1 [] s.found = "{" -> q2
                [] s.found = "[" -> q3 [] s.found = "}" -> q4 [] s.found = "]" -> q5
      BY <1>9, <2>1, <3>1, <3>2, Zenon DEF SearchTurn
    <3>4. NUL \notin {"\"", "{", "}", "[", "]"}
      BY DEF NUL
    <3> QED BY <1>11, <3>2, <3>3, <3>4
  <2>3. Reader(no) /\ no.ls = s.ls /\ ~no.ok /\ no.node = x.node /\ no.vtype = x.vtype /\ no.lex = x.lex
    <3>1. Reader(o)
      BY <1>8
    <3>2. Retold(o, no) /\ no.ls = o.ls /\ no.ok = FALSE /\ no.node = o.node
      BY <2>1, <3>1, NoIs
    <3>3. o.vtype = x.vtype /\ o.lex = x.lex
      BY <1>8 DEF Retold
    <3>4. Reader(no) /\ no.vtype = o.vtype /\ no.lex = o.lex
      BY <3>2 DEF Retold
    <3> QED BY <1>8, <3>2, <3>3, <3>4
  <2>4. u.ok = FALSE /\ u.r = no /\ u.level = level
    BY <2>2 DEF Stop
  <2>5. Onward(l, s.ls) /\ (Midst(no) \/ Settled(s.ls))
    <3>1. CASE s.ls = l
      BY <1>2, <1>4, <2>3, <3>1, OnwardIsOrder DEF Midst
    <3>2. CASE Eof(s.ls)
      <4>1. Settled(s.ls)
        BY <3>2 DEF Settled, Eof, EndOfInput, OutOfMemory, Ok
      <4>2. s.ls.at = Len(l.in) /\ s.ls.in = l.in /\ s.ls.kind = l.kind /\ s.ls.state # Initial
        BY <1>6, <1>8, <3>2, WithinTypes DEF Eof, Answered
      <4>3. Cur(s.ls) = s.ls.at + 1
        BY <3>2 DEF Cur
      <4>4. Cur(l) <= Cur(s.ls)
        BY <1>4, <4>2, <4>3, WithinTypes
      <4> QED BY <1>8, <4>1, <4>2, <4>4 DEF Onward
    <3> QED BY <1>6, <1>11, <3>1, <3>2 DEF Answered
  <2>6. Onward(r.ls, no.ls)
    BY <1>4, <1>8, <2>3, <2>5, OnwardIsOrder
  <2>7. FoundAhead(r.ls, u)
    BY <2>3, <2>4 DEF FoundAhead
  <2>8. Hunting(r, u)
    BY <2>3, <2>4, <2>5, <2>6, <2>7 DEF Hunting
  <2>9. t \in Hunts(r) /\ t.ok = u.ok
    BY <1>10, <2>8, HuntOf
  <2> QED BY <2>4, <2>9
<1>12. CASE s.found # NUL
  <2>1. PICK n : n = Advance(s.ls)
    OBVIOUS
  <2>2. PICK ch \in Brackets : ch = s.found
    BY <1>6, <1>12 DEF Answered
  <2>3. Hunted(n, u) /\ (u.ok => n.state = Ok)
    BY <1>8, <1>9, <2>1, <2>2, SearchTurnIs
  <2>4. Onward(l, n) /\ Within(n) /\ (Settled(l) /\ n.state = Ok => Ahead(l, n))
    BY <1>4, <1>6, <1>12, <2>1, FoundIsPassed, WithinOnward
  <2>5. Reader(u.r) /\ Onward(n, u.r.ls) /\ Settled(u.r.ls) /\ u.ok \in BOOLEAN /\ u.level \in Int
        /\ FoundAhead(n, u)
    BY <2>3 DEF Hunted, Searching, Over
  <2>6. Onward(l, u.r.ls) /\ (u.ok /\ Settled(l) => Ahead(l, u.r.ls))
    BY <1>4, <2>3, <2>4, <2>5, OnwardIsOrder
  <2>7. Onward(r.ls, n)
    BY <1>4, <1>8, <2>4, OnwardIsOrder
  <2>8. Onward(r.ls, u.r.ls) /\ FoundAhead(r.ls, u)
    BY <1>8, <2>5, <2>7, OnwardIsOrder DEF FoundAhead
  <2>9. Hunting(r, u)
    BY <2>5, <2>8 DEF Hunting
  <2>10. t \in Hunts(r) /\ t.ok = u.ok /\ t.r = u.r
    BY <1>10, <2>9, HuntOf
  <2> QED BY <1>1, <1>2, <2>5, <2>6, <2>10
<1> QED BY <1>11, <1>12

\* What is left of the loop: the input to come, and one turn more where it
\* begins at the end of the input without the state of its source telling.
ToHunt(a) == ToCome(a.r.ls) + (IF Settled(a.r.ls) THEN 0 ELSE 1)

\* It goes down with every turn that is not the last.
LEMMA HuntFalls ==
  ASSUME NEW r, Reader(r), r.ls.state # Initial, NEW a \in Hunts(r), NEW t, t = SearchRound(a)
  PROVE  /\ ToHunt(a) \in Nat /\ t \in Hunts(r)
         /\ t.ok => ToHunt(t) < ToHunt(a)
<1>1. Within(r.ls) /\ Onward(r.ls, a.r.ls) /\ Within(a.r.ls)
  BY ReaderFields, WithinOnward DEF Hunts, Hunting
<1>2. PICK x \in Nat : x = ToCome(a.r.ls)
  BY <1>1, ToComeFalls
<1>3. /\ t \in Hunts(r)
      /\ t.ok => /\ Onward(a.r.ls, t.r.ls) /\ Settled(t.r.ls)
                 /\ Settled(a.r.ls) => Ahead(a.r.ls, t.r.ls)
  BY SearchRoundIs
<1>4. ASSUME t.ok PROVE ToHunt(t) < ToHunt(a)
  <2>1. PICK y \in Nat : /\ y = ToCome(t.r.ls) /\ y <= x
                         /\ Ahead(a.r.ls, t.r.ls) => y < x
    BY <1>1, <1>2, <1>3, <1>4, ToComeFalls
  <2>2. ToHunt(t) = y
    BY <1>3, <1>4, <2>1 DEF ToHunt
  <2>3. CASE Settled(a.r.ls)
    BY <1>2, <1>3, <1>4, <2>1, <2>2, <2>3 DEF ToHunt
  <2>4. CASE ~Settled(a.r.ls)
    <3>1. ToHunt(a) = x + 1
      BY <1>2, <2>4 DEF ToHunt
    <3> QED BY <2>1, <2>2, <3>1
  <2> QED BY <2>3, <2>4
<1>5. ToHunt(a) \in Nat
  BY <1>2 DEF ToHunt
<1> QED BY <1>3, <1>4, <1>5

\* The search that passes every bracket ends on every input, with the field
\* further on.
LEMMA SearchOnIs ==
  ASSUME NEW r, Reader(r), r.ls.state # Initial, Midst(r) \/ Settled(r.ls), r.ok,
         NEW name \in Seq(STRING), NEW level \in Int,
         NEW b, b = SearchOn(r, name, level).r
  PROVE  /\ Reader(b) /\ Onward(r.ls, b.ls) /\ (Midst(b) \/ Settled(b.ls))
         /\ b.ok => b.node = "Field" /\ Ahead(r.ls, b.ls)
<1> DEFINE S == Hunts(r)
           V == [a \in S |-> ToHunt(a)]
           start == SearchingFor(name, GoOn(r, level))
<1>1. Within(r.ls) /\ r.ok = TRUE
  BY ReaderFields
<1>2. start \in S /\ start.r = r
  <2>1. PICK g : g = GoOn(r, level)
    OBVIOUS
  <2>2. g.ok = TRUE /\ g.r = r /\ g.level = level
    BY <1>1, <2>1 DEF GoOn
  <2>3. FoundAhead(r.ls, g) /\ Onward(r.ls, r.ls)
    BY <1>1, <2>2, OnwardIsOrder DEF FoundAhead
  <2>4. Hunting(r, g)
    BY <2>2, <2>3 DEF Hunting
  <2>5. PICK a : a = SearchingFor(name, g)
    OBVIOUS
  <2>6. a \in Hunts(r) /\ a.r = g.r
    BY <2>4, <2>5, HuntOf
  <2> QED BY <2>1, <2>2, <2>5, <2>6
<1>3. ASSUME NEW a \in S
      PROVE  /\ ToHunt(a) \in Nat /\ SearchRound(a) \in S
             /\ SearchRound(a).ok => ToHunt(SearchRound(a)) < ToHunt(a)
  BY HuntFalls
<1>4. PICK n \in Nat : n = 2 * Left(r.ls) /\ V[start] <= n
  <2>1. PICK x \in Nat, k \in Nat : x = ToCome(r.ls) /\ k = Left(r.ls) /\ x <= k /\ k >= 1
    <3>1. Left(r.ls) >= 1
      BY <1>1, WithinTypes DEF Left
    <3> QED BY <1>1, <3>1, LeftIsNat, ToComeFalls, OnwardIsOrder
  <2>2. V[start] = ToHunt(start)
    BY <1>2
  <2>3. ToHunt(start) = x \/ ToHunt(start) = x + 1
    BY <1>2, <2>1 DEF ToHunt
  <2>4. 2 * Left(r.ls) = 2 * k
    BY <2>1
  <2> QED BY <2>1, <2>2, <2>3, <2>4
<1>5. V \in [S -> Nat]
  BY <1>3
<1>6. \A a \in S : a.ok => SearchRound(a) \in S /\ (SearchRound(a).ok => V[SearchRound(a)] < V[a])
  BY <1>3
<1> HIDE DEF S, V, start
<1>7. PICK e : e = HuntingOn!WhileOk(SearchRound, start, n)
  OBVIOUS
<1>8. e \in S /\ ~e.ok
  BY <1>2, <1>4, <1>5, <1>6, <1>7, HuntingOn!LoopEnds
<1>9. b = e.r
  BY <1>4, <1>7 DEF SearchOn, WhileOk, Repeat, HuntingOn!WhileOk, HuntingOn!Repeat, start
<1> QED BY <1>8, <1>9 DEF S, Hunts, Hunting, FoundAhead
-----------------------------------------------------------------------------
(* skipToField().                                                            *)

\* What has to be so before a search leaves the reader where it is, with the
\* source on more input when it returns true.
LEMMA ReadyToSearchIs ==
  ASSUME NEW r, Fit(r), NEW b, b = ReadyToSearch(r)
  PROVE  /\ Fit(b) /\ Onward(r.ls, b.ls) /\ b.ls.state # Initial
         /\ b.ok => b.ls.state = Ok /\ b.node = r.node
<1>1. PICK c : c = ClearError(r)
  OBVIOUS
<1>2. Reader(r)
  BY DEF Fit
<1>3. Retold(r, c) /\ c.ls = r.ls /\ c.node = r.node
  BY <1>1, <1>2, ClearErrorIs
<1>4. Fit(c)
  BY <1>3, RetoldIsFit DEF Went
<1>5. PICK a : a = Begin(c)
  OBVIOUS
<1>6. Fit(a) /\ Onward(r.ls, a.ls) /\ a.ls.state # Initial /\ (a.ok => a.node = r.node)
  BY <1>3, <1>4, <1>5, BeginIsFit DEF Went
<1>7. CASE ~a.ok
  <2>1. b = a
    BY <1>1, <1>5, <1>7 DEF ReadyToSearch, Then
  <2> QED BY <1>6, <1>7, <2>1
<1>8. CASE a.ok
  <2>1. PICK l : l = ClearCapture(a.ls)
    OBVIOUS
  <2>2. Reader(a) /\ Within(a.ls) /\ Within(r.ls)
    BY <1>2, <1>6, FitHere, ReaderFields
  <2>3. /\ Onward(a.ls, l) /\ l.current = a.ls.current /\ l.state # OutOfMemory
        /\ l.state = IF a.ls.state = OutOfMemory THEN Ok ELSE a.ls.state
    BY <2>1, <2>2, ClearCaptureKeeps
  <2>4. Within(l) /\ Onward(r.ls, l) /\ l.state # Initial
    BY <1>6, <2>2, <2>3, WithinOnward, OnwardIsOrder DEF Onward
  <2>5. PICK o : o = On(a, l)
    OBVIOUS
  <2>6. Retold(a, o) /\ o.ls = l /\ o.node = a.node
    BY <2>2, <2>4, <2>5, OnIs
  <2>7. Reader(o) /\ (Midst(a) => Midst(o)) /\ (Settled(a.ls) => Settled(o.ls))
    BY <2>3, <2>6 DEF Retold, Midst, Settled
  <2>8. b = IF More(l) THEN Yes(o) ELSE SourceFailed(o)
    BY <1>1, <1>5, <1>8, <2>1, <2>5, <2>6 DEF ReadyToSearch, Then, IfMore
  <2>9. CASE More(l)
    <3>1. Retold(o, b) /\ b.ls = l /\ b.node = o.node
      BY <2>6, <2>7, <2>8, <2>9, YesIs
    <3>2. l.state = Ok
      BY <2>4, <2>9, MoreIsOk
    <3>3. Reader(b) /\ (Midst(o) => Midst(b))
      BY <3>1 DEF Retold, Midst
    <3>4. Midst(b) \/ Settled(b.ls)
      BY <1>6, <2>6, <2>7, <3>1, <3>3 DEF Fit
    <3> QED BY <1>6, <1>8, <2>4, <2>6, <3>1, <3>2, <3>3, <3>4 DEF Fit
  <2>10. CASE ~More(l)
    <3>1. b = SourceFailed(o)
      BY <2>8, <2>10
    <3>2. /\ Retold(o, b) /\ b.ls = l /\ b.ok = FALSE
          /\ b.node = IF l.state = IOError THEN "Error" ELSE o.node
      BY <2>6, <2>7, <3>1, SourceFailedIs
    <3>3. Midst(b) \/ Settled(b.ls)
      <4>1. CASE l.state = IOError
        BY <3>2, <4>1 DEF Settled, IOError, OutOfMemory, Ok
      <4>2. CASE l.state # IOError
        BY <1>6, <2>6, <2>7, <3>2, <4>2 DEF Fit, Midst, Retold
      <4> QED BY <4>1, <4>2
    <3>4. Reader(b)
      BY <3>2 DEF Retold
    <3> QED BY <2>4, <3>2, <3>3, <3>4 DEF Fit
  <2> QED BY <2>9, <2>10
<1> QED BY <1>7, <1>8

\* What a search makes of a reader: it is no further back, and on a field
\* further on when it returns true.
FieldSought(r, b) ==
  /\ Fit(b) /\ Onward(r.ls, b.ls) /\ b.ls.state # Initial
  /\ b.ok => b.node = "Field" /\ Ahead(r.ls, b.ls)

\* The first read of a document.
LEMMA FirstReadIs ==
  ASSUME NEW r, Fit(r), r.ls.state # Initial, NEW axis, NEW b, b = FirstRead(r, axis)
  PROVE  /\ Fit(b) /\ Onward(r.ls, b.ls) /\ b.ls.state # Initial
         /\ r.node # Unread => b = r
<1>1. CASE b = r
  BY <1>1, FitHere DEF Went
<1>2. CASE b = Read(r) /\ r.node = Unread
  <2>1. Led(r, b)
    BY <1>2, ReadIs
  <2> QED BY <1>2, <2>1, LedIsWent DEF Went
<1> QED BY <1>1, <1>2 DEF FirstRead

\* A search that the reader gets to.
LEMMA SearchAtIs ==
  ASSUME NEW r, Fit(r), r.ls.state # Initial, NEW from, from # Unread => from = r.node,
         NEW name \in Seq(STRING), NEW axis \in Axes, NEW level \in Int,
         NEW b, b = SearchAt(from, r, name, axis, level).r
  PROVE  (b = r /\ ~r.ok) \/ FieldSought(r, b)
<1>1. Reader(r) /\ Within(r.ls) /\ Onward(r.ls, r.ls) /\ (r.node # "ValuePart" => Settled(r.ls))
  BY FitHere DEF Went
<1>2. PICK s, d, f :
        /\ s = SearchSiblings(from, r, name) /\ d = SearchOn(r, name, AtLeastOne(level))
        /\ f = SearchOn(r, name, level)
  OBVIOUS
<1>3. \/ ~r.ok /\ b = r
      \/ r.ok /\ b \in {s, d.r, f.r}
  <2>1. PICK q0, q1, q2, q3 :
          q0 = Searched(r, level) /\ q1 = Searched(s, level) /\ q2 = SearchResult(d)
          /\ q3 = SearchResult(f)
    OBVIOUS
  <2>2. q0.r = r /\ q1.r = s /\ q2.r = d.r /\ q3.r = f.r
    BY <2>1 DEF Searched, SearchResult
  <2>3. PICK q : q = SearchAt(from, r, name, axis, level)
    OBVIOUS
  <2>4. q = CASE ~r.ok -> q0 [] r.ok /\ axis = "Siblings" -> q1
              [] r.ok /\ axis = "Descendants" -> q2 [] r.ok /\ axis = "Forward" -> q3
    BY <1>2, <2>1, <2>3, Zenon DEF SearchAt
  <2>5. axis \in {"Siblings", "Forward", "Descendants"}
    BY DEF Axes
  <2>6. (~r.ok /\ q = q0) \/ (r.ok /\ q \in {q1, q2, q3})
    BY <2>4, <2>5
  <2> QED BY <2>2, <2>3, <2>6
<1>4. CASE r.ok /\ b = s
  <2>1. \/ Searching(r.ls, b) /\ (b.ok => b.node = "Field" /\ Ahead(r.ls, b.ls))
        \/ b = No(r)
    BY <1>1, <1>2, <1>4, SearchSiblingsIs
  <2>2. CASE Searching(r.ls, b) /\ (b.ok => b.node = "Field" /\ Ahead(r.ls, b.ls))
    BY <2>2 DEF FieldSought, Searching, Over, Fit, Onward
  <2>3. CASE b = No(r)
    <3>1. Retold(r, b) /\ b.ls = r.ls /\ b.node = r.node /\ b.ok = FALSE
      BY <1>1, <2>3, NoIs
    <3>2. Fit(b)
      BY <3>1, RetoldIsFit DEF Went
    <3> QED BY <1>1, <3>1, <3>2 DEF FieldSought
  <2> QED BY <2>1, <2>2, <2>3
<1>5. CASE r.ok /\ b \in {d.r, f.r}
  <2>1. PICK n \in Int : n = AtLeastOne(level)
    BY DEF AtLeastOne
  <2>2. /\ Reader(b) /\ Onward(r.ls, b.ls) /\ (Midst(b) \/ Settled(b.ls))
        /\ b.ok => b.node = "Field" /\ Ahead(r.ls, b.ls)
    <3>1. CASE b = d.r
      <4>1. b = SearchOn(r, name, n).r
        BY <1>2, <2>1, <3>1
      <4> QED BY <1>1, <1>5, <4>1, SearchOnIs DEF Fit
    <3>2. CASE b = f.r
      <4>1. b = SearchOn(r, name, level).r
        BY <1>2, <3>2
      <4> QED BY <1>1, <1>5, <4>1, SearchOnIs DEF Fit
    <3> QED BY <1>5, <3>1, <3>2
  <2> QED BY <2>2 DEF FieldSought, Fit, Onward
<1> QED BY <1>3, <1>4, <1>5

\* skipToField() goes on from every reader there is between two calls, whatever
\* the name, the axis and the level, and onto a field when it returns true.
THEOREM SkipToFieldIs ==
  ASSUME NEW r, Fit(r), NEW name \in Seq(STRING), NEW axis \in Axes, NEW level \in Int,
         NEW b, b = SkipToField(r, name, axis, level).r
  PROVE  FieldSought(r, b)
<1>1. PICK a : a = ReadyToSearch(r)
  OBVIOUS
<1>2. /\ Fit(a) /\ Onward(r.ls, a.ls) /\ a.ls.state # Initial /\ Within(r.ls)
      /\ a.ok => a.ls.state = Ok
  BY <1>1, ReadyToSearchIs, FitHere
<1>3. PICK f, e : f = FirstRead(a, axis) /\ e = Raise(a, "INVALID_ARGUMENT")
  OBVIOUS
<1>4. PICK q : q = SkipToField(r, name, axis, level)
  OBVIOUS
<1>5. (a.ok /\ q = Searched(e, level)) \/ q = SearchAt(a.node, f, name, axis, level)
  BY <1>1, <1>3, <1>4 DEF SkipToField, SearchFrom
<1>6. CASE a.ok /\ q = Searched(e, level)
  <2>1. "INVALID_ARGUMENT" \in Errors
    BY ErrorNames
  <2>2. Retold(a, e) /\ e.ls = a.ls /\ e.node = a.node /\ e.ok = FALSE
    BY <1>2, <1>3, <2>1, RaiseIs DEF Fit
  <2>3. Fit(e)
    BY <1>2, <2>2, RetoldIsFit DEF Went
  <2>4. b = e
    BY <1>4, <1>6 DEF Searched
  <2> QED BY <1>2, <2>2, <2>3, <2>4 DEF FieldSought
<1>7. CASE q = SearchAt(a.node, f, name, axis, level)
  <2>1. /\ Fit(f) /\ Onward(a.ls, f.ls) /\ f.ls.state # Initial
        /\ a.node # Unread => f = a
    BY <1>2, <1>3, FirstReadIs
  <2>2. PICK from : from = a.node
    OBVIOUS
  <2>3. from # Unread => from = f.node
    BY <2>1, <2>2
  <2>4. b = SearchAt(from, f, name, axis, level).r
    BY <1>4, <1>7, <2>2
  <2>5. (b = f /\ ~f.ok) \/ FieldSought(f, b)
    BY <2>1, <2>3, <2>4, SearchAtIs
  <2>6. Onward(r.ls, f.ls)
    BY <1>2, <2>1, OnwardIsOrder
  <2>7. CASE b = f /\ ~f.ok
    BY <2>1, <2>6, <2>7 DEF FieldSought
  <2>8. CASE FieldSought(f, b)
    BY <1>2, <2>6, <2>8, OnwardIsOrder DEF FieldSought
  <2> QED BY <2>5, <2>7, <2>8
<1> QED BY <1>5, <1>6, <1>7
=============================================================================
