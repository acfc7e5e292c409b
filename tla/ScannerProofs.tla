----------------------------- MODULE ScannerProofs -----------------------------
(***************************************************************************)
(* What the operations of a source keep, whatever they are given: the      *)
(* cursor within the input, the value within the capture buffer (Within),  *)
(* and that the cursor only goes forward (Onward).  Then the same of the   *)
(* scanners, which are made of them.  How the lookahead goes with the state *)
(* of the source is what the functions that call them rest on (Paused, Calm, *)
(* Settled).                                                               *)
(***************************************************************************)
EXTENDS JsonReader, TLAPS, WellFoundedInduction

\* A set of natural numbers has a least one.
LEMMA LeastOf ==
  ASSUME NEW T, T \subseteq Nat, T # {}
  PROVE  \E x \in T : \A y \in T : x <= y
<1>1. IsWellFoundedOn(OpToRel(<, Nat), Nat)
  BY NatLessThanWellFounded
<1>2. PICK x \in T : \A y \in T : ~ (<<y, x>> \in OpToRel(<, Nat))
  BY <1>1, WFMin
<1>3. \A y \in T : x \in Nat /\ y \in Nat /\ ~ (y < x)
  BY <1>2 DEF OpToRel
<1>4. \A y \in T : x <= y
  BY <1>3
<1> QED BY <1>4

\* strpbrk, and read() in a loop, stop at the first of the characters or one
\* past the end.
LEMMA FirstInIsFirst ==
  ASSUME NEW B, NEW in \in Seq(B), NEW i \in Nat \ {0}, i <= Len(in) + 1, NEW chars,
         NEW k, k = FirstIn(in, i, chars)
  PROVE  /\ k \in i .. Len(in) + 1
         /\ k <= Len(in) => in[k] \in chars
         /\ \A j \in i .. k - 1 : in[j] \notin chars
<1> DEFINE Stops == {j \in i .. Len(in) + 1 : j <= Len(in) => in[j] \in chars}
<1>1. Stops \subseteq Nat /\ Len(in) + 1 \in Stops
  OBVIOUS
<1>2. PICK x \in Stops : \A y \in Stops : x <= y
  BY <1>1, LeastOf
<1>3. x \in i .. Len(in) + 1 /\ (x <= Len(in) => in[x] \in chars)
  BY <1>2
<1>4. ASSUME NEW j \in i .. x - 1 PROVE in[j] \notin chars
  BY <1>2, <1>3
<1>5. \E y \in i .. Len(in) + 1 :
        /\ y <= Len(in) => in[y] \in chars
        /\ \A j \in i .. y - 1 : in[j] \notin chars
  BY <1>3, <1>4
<1> QED BY <1>5 DEF FirstIn

-----------------------------------------------------------------------------
(* A source that a program may have: what holds of its members, and of all   *)
(* but closed ones.                                                          *)

IsText(in) == in \in Seq(BytesIn(in)) /\ NUL \notin BytesIn(in)
States == {Ok, EndOfInput, IOError, OutOfMemory, Initial}

\* The bytes and the code points there are in a source and its buffer.  Those
\* that are not of the input are what escapes stand for.
Symbols(in) ==
  BytesIn(in) \cup HighBytes \cup WideCodePoints
    \cup {NUL, "\\", "\"", "/", "\r", "\n", "\t", "\f", "backspace", "?", "a"}

SourcesOf(in) ==
  [kind : Kinds, in : {in}, at : Nat, state : States, current : Symbols(in),
   position : Nat, captured : Seq(Symbols(in))]

Within(l) ==
  /\ l \in SourcesOf(l.in)
  /\ IsText(l.in)
  /\ l.at <= Len(l.in)
  /\ l.position <= l.at
  /\ Len(l.captured) <= CaptureCapacity
  /\ l.state = EndOfInput => l.at = Len(l.in)
  /\ l.state = IOError => l.current # NUL

\* How far it has come, the end of the input counting as one more character.
Cur(l) ==
  l.at + (IF Eof(l) \/ (l.current = NUL /\ l.state # Initial) THEN 1 ELSE 0)

\* How its lookahead goes with its state.  As advance() leaves a source it is
\* Calm; out of room it is only Paused.
Paused(l) ==
  /\ l.state # Initial
  /\ l.state = Ok => l.current # NUL
  /\ l.state = EndOfInput => l.current = NUL
Calm(l) == Paused(l) /\ l.state # OutOfMemory
Settled(l) == l.state # OutOfMemory /\ (l.state = Ok => l.current # NUL)

\* From x to a y that is as sound, and no less far in the same input.
Onward(x, y) ==
  /\ Within(y)
  /\ y.in = x.in
  /\ y.kind = x.kind
  /\ Cur(x) <= Cur(y)
  /\ x.state # Initial => y.state # Initial
Ahead(x, y) == Cur(x) < Cur(y)

\* The members of a source, for use where it is known to be Within.
LEMMA WithinTypes ==
  ASSUME NEW l, Within(l)
  PROVE  /\ l.kind \in Kinds /\ IsText(l.in) /\ l.at \in Nat /\ l.state \in States
         /\ l.current \in Symbols(l.in) /\ l.position \in Nat
         /\ l.captured \in Seq(Symbols(l.in)) /\ l \in SourcesOf(l.in)
         /\ Len(l.in) \in Nat /\ Len(l.captured) \in Nat /\ Cur(l) \in Nat
         /\ Cur(l) = l.at \/ Cur(l) = l.at + 1
         /\ l.at <= Len(l.in) /\ l.position <= l.at /\ Len(l.captured) <= CaptureCapacity
         /\ l.state = EndOfInput => l.at = Len(l.in)
         /\ l.state = IOError => l.current # NUL
  BY DEF Within, SourcesOf, IsText, Cur

\* Onward is a partial order, and getting ahead anywhere on the way is getting ahead.
LEMMA OnwardIsOrder ==
  ASSUME NEW x, Within(x)
  PROVE  /\ Onward(x, x)
         /\ \A y : Onward(x, y) =>
              /\ Within(y)
              /\ \A z : Onward(y, z) => Onward(x, z)
              /\ \A z : Onward(y, z) /\ (Ahead(x, y) \/ Ahead(y, z)) => Ahead(x, z)
<1>1. \A y : Within(y) => Cur(y) \in Nat
  BY WithinTypes
<1>2. \A y : Onward(x, y) => Within(y) /\ (\A z : Onward(y, z) => Within(z))
  BY DEF Onward
<1>3. Onward(x, x)
  BY <1>1 DEF Onward
<1>4. ASSUME NEW y, Onward(x, y), NEW z, Onward(y, z)
      PROVE Onward(x, z) /\ (Ahead(x, y) \/ Ahead(y, z) => Ahead(x, z))
  <2>1. Cur(x) \in Nat /\ Cur(y) \in Nat /\ Cur(z) \in Nat
    BY <1>1, <1>2, <1>4
  <2> QED BY <1>4, <2>1 DEF Onward, Ahead
<1> QED BY <1>2, <1>3, <1>4

-----------------------------------------------------------------------------
(* Reading.                                                                  *)

\* The cursor moved on over bytes that are there.
MovedTo(l, k, p) == [l EXCEPT !.at = k, !.position = p]

\* A source moved along its input is within its document.
LEMMA MovedOn ==
  ASSUME NEW l, Within(l), NEW k \in l.at .. Len(l.in), NEW p \in Nat, p <= k,
         NEW m, m = MovedTo(l, k, p)
  PROVE  /\ Within(m) /\ m.in = l.in /\ m.kind = l.kind /\ m.at = k /\ m.state = l.state
         /\ m.current = l.current /\ m.captured = l.captured /\ m.position = p
<1>1. l.at \in Nat /\ Len(l.in) \in Nat /\ k \in Nat /\ l.at <= k /\ k <= Len(l.in)
      /\ l \in SourcesOf(l.in)
  BY WithinTypes
<1>2. /\ m \in SourcesOf(l.in)
      /\ m.in = l.in /\ m.kind = l.kind /\ m.at = k /\ m.state = l.state
      /\ m.current = l.current /\ m.captured = l.captured /\ m.position = p
  BY <1>1 DEF SourcesOf, MovedTo
<1> QED BY <1>1, <1>2 DEF Within

\* What the bytes of a document decode to are symbols of it.
LEMMA CodePointOf ==
  ASSUME NEW in, IsText(in), NEW c \in BytesIn(in)
  PROVE  CodePoint(c) \in Symbols(in) /\ CodePoint(c) # NUL /\ Width(c) \in 1 .. 4
<1>1. Cp2 # NUL /\ Cp3 # NUL /\ Cp4 # NUL /\ c # NUL
  BY DEF IsText, Cp2, Cp3, Cp4, NUL
<1>2. {Cp2, Cp3, Cp4, c} \subseteq Symbols(in)
  BY DEF Symbols, WideCodePoints
<1>3. CodePoint(c) \in {Cp2, Cp3, Cp4, c}
  BY DEF CodePoint
<1>4. Width(c) \in 1 .. 4
  BY DEF Width
<1> QED BY <1>1, <1>2, <1>3, <1>4

\* advance() reads a code point, a part of one or the end of the input.
LEMMA AdvanceKeeps ==
  ASSUME NEW l, Within(l), NEW n, n = Advance(l)
  PROVE  /\ Within(n) /\ n.in = l.in /\ n.kind = l.kind /\ n.captured = l.captured
         /\ Calm(n) /\ Cur(n) >= l.at + 1 /\ n.at >= l.at
<1> DEFINE first == l.at + 1
           width == Width(l.in[first])
           moved == l.position + (IF width = 1 THEN 1 ELSE 2)
           Types == SourcesOf(l.in)
<1>1. /\ l \in Types /\ IsText(l.in) /\ l.at \in Nat /\ l.position \in Nat
      /\ Len(l.in) \in Nat /\ l.at <= Len(l.in) /\ l.position <= l.at
      /\ Len(l.captured) <= CaptureCapacity /\ Len(l.captured) \in Nat
  BY WithinTypes
<1>2. CASE first > Len(l.in)
  <2>1. n = [l EXCEPT !.state = EndOfInput, !.current = NUL]
    BY <1>2 DEF Advance
  <2>2. NUL \in Symbols(l.in) /\ EndOfInput \in States
    BY DEF Symbols, States
  <2>3. n \in Types /\ n.in = l.in /\ n.kind = l.kind /\ n.captured = l.captured
        /\ n.at = l.at /\ n.state = EndOfInput /\ n.current = NUL /\ n.position = l.position
    BY <1>1, <2>1, <2>2 DEF SourcesOf
  <2>4. Len(l.in) = l.at
    BY <1>1, <1>2
  <2> QED BY <1>1, <2>3, <2>4
          DEF Within, Calm, Paused, Cur, Eof, EndOfInput, Ok, Initial, IOError, OutOfMemory
<1>3. CASE first <= Len(l.in) /\ first + width - 1 > Len(l.in)
  <2>1. n = [l EXCEPT !.at = Len(l.in), !.state = IOError, !.current = Cut,
                      !.position = @ + 1]
    BY <1>1, <1>3 DEF Advance
  <2>2. Cut \in Symbols(l.in) /\ IOError \in States /\ l.position + 1 \in Nat
    BY <1>1 DEF Symbols, WideCodePoints, States
  <2>3. Cut # NUL
    BY DEF Cut, NUL
  <2>4. n \in Types /\ n.in = l.in /\ n.kind = l.kind /\ n.captured = l.captured
        /\ n.at = Len(l.in) /\ n.state = IOError /\ n.current = Cut /\ n.position = l.position + 1
    BY <1>1, <2>1, <2>2 DEF SourcesOf
  <2> QED BY <1>1, <1>3, <2>2, <2>3, <2>4
          DEF Within, Calm, Paused, Cur, Eof, EndOfInput, Ok, Initial, IOError, OutOfMemory
<1>4. CASE first <= Len(l.in) /\ first + width - 1 <= Len(l.in)
  <2>1. l.in[first] \in BytesIn(l.in)
    BY <1>1, <1>4 DEF IsText
  <2>2. width \in 1 .. 4 /\ CodePoint(l.in[first]) \in Symbols(l.in) /\ CodePoint(l.in[first]) # NUL
    BY <1>1, <2>1, CodePointOf
  <2>3. n = [l EXCEPT !.at = @ + width, !.state = Ok,
                      !.current = CodePoint(l.in[first]), !.position = moved]
    <3>1. ~(first > Len(l.in)) /\ ~(first + width - 1 > Len(l.in))
      BY <1>1, <1>4, <2>2
    <3> QED BY <3>1 DEF Advance
  <2>4. Ok \in States
    BY DEF States
  <2> HIDE DEF width
  <2>5. l.at + width \in Nat /\ l.at + width >= l.at + 1 /\ l.at + width <= Len(l.in)
    BY <1>1, <1>4, <2>2
  <2>6. moved \in Nat /\ moved <= l.at + width
    BY <1>1, <2>2
  <2> HIDE DEF moved
  <2>7. n \in Types /\ n.in = l.in /\ n.kind = l.kind /\ n.captured = l.captured
        /\ n.at = l.at + width /\ n.state = Ok /\ n.current = CodePoint(l.in[first])
        /\ n.position = moved
    BY <1>1, <2>2, <2>3, <2>4, <2>5, <2>6 DEF SourcesOf
  <2> QED BY <1>1, <2>2, <2>5, <2>6, <2>7
          DEF Within, Calm, Paused, Cur, Eof, EndOfInput, Ok, Initial, IOError, OutOfMemory
<1>5. width \in Nat
  BY DEF Width
<1> QED BY <1>1, <1>2, <1>3, <1>4, <1>5

\* So it is never behind, and ahead of where the cursor was on a character.
LEMMA AdvanceIsOnward ==
  ASSUME NEW l, Within(l), NEW n, n = Advance(l)
  PROVE  /\ Onward(l, n) /\ Calm(n) /\ n.captured = l.captured
         /\ Cur(l) = l.at => Ahead(l, n)
<1>1. Cur(n) >= l.at + 1 /\ Within(n) /\ n.in = l.in /\ n.kind = l.kind /\ Calm(n)
      /\ n.captured = l.captured
  BY AdvanceKeeps
<1>2. l.at \in Nat /\ (Cur(l) = l.at \/ Cur(l) = l.at + 1) /\ Cur(n) \in Nat
  BY <1>1, WithinTypes
<1> QED BY <1>1, <1>2 DEF Onward, Ahead, Calm, Paused

\* From a character onto one, it is ahead whatever the state says.
LEMMA AdvanceIsAhead ==
  ASSUME NEW l, Within(l), NEW n, n = Advance(l), l.current # NUL, n.state = Ok
  PROVE  Ahead(l, n)
<1>1. /\ l.at \in Nat /\ Len(l.in) \in Nat /\ (l.state = EndOfInput => l.at = Len(l.in))
      /\ l \in SourcesOf(l.in)
  BY WithinTypes
<1>2. ~Eof(l)
  <2>1. ASSUME l.state = EndOfInput PROVE FALSE
    <3>1. l.at + 1 > Len(l.in)
      BY <1>1, <2>1
    <3>2. n = [l EXCEPT !.state = EndOfInput, !.current = NUL]
      BY <3>1 DEF Advance
    <3> QED BY <1>1, <3>2 DEF SourcesOf, Ok, EndOfInput
  <2> QED BY <2>1 DEF Eof
<1>3. Cur(l) = l.at
  BY <1>1, <1>2 DEF Cur
<1> QED BY <1>3, AdvanceIsOnward

\* A source on a character, or not started, stands on the byte it has read last.
LEMMA OnACharacter ==
  ASSUME NEW l, Within(l), l.state # EndOfInput, l.current # NUL \/ l.state = Initial
  PROVE  Cur(l) = l.at
  BY WithinTypes DEF Cur, Eof

\* More input is a source in state Ok.
LEMMA MoreIsOk ==
  ASSUME NEW l, Within(l), l.state # Initial
  PROVE  More(l) <=> l.state = Ok
  BY WithinTypes DEF More, States, Ok, EndOfInput, IOError, OutOfMemory, Initial

\* A source in state Ok on a character is calm.
LEMMA OkIsCalm ==
  ASSUME NEW l, Within(l), l.state = Ok, l.current # NUL
  PROVE  Calm(l) /\ Cur(l) = l.at
  BY OnACharacter DEF Calm, Paused, Ok, EndOfInput, OutOfMemory, Initial

\* ensureStarted() reads the first code point.
LEMMA EnsureStartedKeeps ==
  ASSUME NEW l, Within(l), NEW n, n = EnsureStarted(l)
  PROVE  /\ Onward(l, n) /\ n.captured = l.captured /\ n.state # Initial
         /\ l.state = Initial => Calm(n)
         /\ l.state # Initial => n = l
<1>1. CASE l.state = Initial
  BY <1>1, AdvanceIsOnward DEF EnsureStarted, Calm, Paused
<1>2. CASE l.state # Initial
  BY <1>2, OnwardIsOrder DEF EnsureStarted
<1> QED BY <1>1, <1>2

-----------------------------------------------------------------------------
(* The capture buffer.                                                       *)

\* A code point takes from one to four bytes.
LEMMA EncodeFits ==
  ASSUME NEW in, NEW c \in Symbols(in)
  PROVE  Encode(c) \in Seq(Symbols(in)) /\ \E k \in 1 .. 4 : Len(Encode(c)) = k
<1>1. {Lead2, Lead3, Lead4, Cont, c} \subseteq Symbols(in)
  BY DEF Symbols, HighBytes
<1>2. CASE Encode(c) = <<Lead4, Cont, Cont, Cont>>
  BY <1>1, <1>2
<1>3. CASE Encode(c) = <<Lead3, Cont, Cont>>
  BY <1>1, <1>3
<1>4. CASE Encode(c) = <<Lead2, Cont>>
  BY <1>1, <1>4
<1>5. CASE Encode(c) = <<c>>
  BY <1>1, <1>5
<1> QED BY <1>2, <1>3, <1>4, <1>5 DEF Encode

\* capture(): with room the character is kept, without it the source is out of
\* memory and nothing is kept in part.
LEMMA CaptureKeeps ==
  ASSUME NEW l, Within(l), NEW c \in Symbols(l.in), NEW n, n = Capture(l, c)
  PROVE  /\ Within(n) /\ n.in = l.in /\ n.kind = l.kind /\ n.at = l.at /\ n.current = l.current
         /\ HasRoom(l) => n.state = l.state /\ n.captured # << >>
         /\ ~HasRoom(l) => n.state = OutOfMemory /\ n.captured = l.captured
<1> DEFINE Types == SourcesOf(l.in)
<1>1. /\ l \in Types /\ IsText(l.in) /\ l.at \in Nat /\ l.position \in Nat
      /\ Len(l.in) \in Nat /\ l.at <= Len(l.in) /\ l.position <= l.at
      /\ Len(l.captured) <= CaptureCapacity /\ Len(l.captured) \in Nat
      /\ l.captured \in Seq(Symbols(l.in))
  BY WithinTypes
<1>2. CASE HasRoom(l)
  <2>1. n = [l EXCEPT !.captured = @ \o Encode(c)]
    BY <1>2 DEF Capture
  <2>2. PICK e \in Seq(Symbols(l.in)) : e = Encode(c) /\ \E k \in 1 .. 4 : Len(e) = k
    BY EncodeFits
  <2>3. PICK more \in Seq(Symbols(l.in)) :
          more = l.captured \o e /\ \E k \in 1 .. 4 : Len(more) = Len(l.captured) + k
    <3>1. l.captured \o e \in Seq(Symbols(l.in)) /\ Len(l.captured \o e) = Len(l.captured) + Len(e)
      BY <1>1
    <3>2. PICK k \in 1 .. 4 : Len(e) = k
      BY <2>2
    <3>3. Len(l.captured \o e) = Len(l.captured) + k
      BY <3>1, <3>2
    <3> QED BY <3>1, <3>3
  <2>4. Len(more) <= CaptureCapacity
    BY <1>1, <1>2, <2>3, CaptureCapacityAssumption DEF HasRoom
  <2>5. more # << >>
    <3>1. Len(more) # 0
      BY <1>1, <2>3
    <3> QED BY <3>1
  <2>6. n \in Types /\ n.in = l.in /\ n.kind = l.kind /\ n.captured = more
        /\ n.at = l.at /\ n.state = l.state /\ n.current = l.current /\ n.position = l.position
    BY <1>1, <2>1, <2>2, <2>3 DEF SourcesOf
  <2> QED BY <1>1, <1>2, <2>4, <2>5, <2>6 DEF Within
<1>3. CASE ~HasRoom(l)
  <2>1. n = [l EXCEPT !.state = OutOfMemory]
    BY <1>3 DEF Capture
  <2>2. OutOfMemory \in States
    BY DEF States
  <2>3. n \in Types /\ n.in = l.in /\ n.kind = l.kind /\ n.captured = l.captured
        /\ n.at = l.at /\ n.state = OutOfMemory /\ n.current = l.current /\ n.position = l.position
    BY <1>1, <2>1, <2>2 DEF SourcesOf
  <2> QED BY <1>1, <1>3, <2>3 DEF Within, OutOfMemory, EndOfInput, IOError
<1> QED BY <1>2, <1>3

\* The end of the input may be forgotten when there is no room, but not by a
\* source whose lookahead tells it.
LEMMA CaptureIsOnward ==
  ASSUME NEW l, Within(l), NEW c \in Symbols(l.in), l.state # Initial, NEW n, n = Capture(l, c),
         Eof(l) => l.current = NUL
  PROVE  Onward(l, n) /\ Cur(n) = Cur(l)
<1>1. /\ Within(n) /\ n.in = l.in /\ n.kind = l.kind /\ n.at = l.at /\ n.current = l.current
      /\ n.state \in {l.state, OutOfMemory} /\ l.at \in Nat
  BY CaptureKeeps, WithinTypes
<1> QED BY <1>1 DEF Onward, Cur, Eof, OutOfMemory, Initial, EndOfInput

\* clearCapture(): there is room again, and a full buffer is forgotten.
LEMMA ClearCaptureKeeps ==
  ASSUME NEW l, Within(l), NEW n, n = ClearCapture(l)
  PROVE  /\ Onward(l, n) /\ n.at = l.at /\ n.current = l.current /\ n.captured = << >>
         /\ Cur(n) = Cur(l) /\ HasRoom(n) /\ n.state # OutOfMemory
         /\ n.state = IF l.state = OutOfMemory THEN Ok ELSE l.state
         /\ Calm(l) => Calm(n)
<1> DEFINE Types == SourcesOf(l.in)
           state == IF l.state = OutOfMemory THEN Ok ELSE l.state
<1>1. /\ l \in Types /\ IsText(l.in) /\ l.at \in Nat /\ l.position \in Nat
      /\ Len(l.in) \in Nat /\ l.at <= Len(l.in) /\ l.position <= l.at
  BY WithinTypes
<1>2. n = [l EXCEPT !.captured = << >>, !.state = state]
  BY DEF ClearCapture
<1>3. state \in States /\ state # OutOfMemory /\ << >> \in Seq(Symbols(l.in)) /\ Len(<< >>) = 0
  <2>1. l.state \in States
    BY WithinTypes
  <2>2. state \in States /\ state # OutOfMemory
    BY <2>1 DEF States, Ok, OutOfMemory
  <2> QED BY <2>2
<1> HIDE DEF state
<1>4. n \in Types /\ n.in = l.in /\ n.kind = l.kind /\ n.captured = << >>
      /\ n.at = l.at /\ n.state = state /\ n.current = l.current /\ n.position = l.position
  BY <1>1, <1>2, <1>3 DEF SourcesOf
<1>5. Within(n) /\ HasRoom(n)
  BY <1>1, <1>3, <1>4, CaptureCapacityAssumption
     DEF Within, HasRoom, state, Ok, EndOfInput, IOError, OutOfMemory
<1>6. Cur(n) = Cur(l) /\ Cur(l) \in Nat
  BY <1>4, WithinTypes DEF Cur, Eof, state, Ok, EndOfInput, OutOfMemory, Initial
<1> QED BY <1>1, <1>3, <1>4, <1>5, <1>6
        DEF Onward, state, Calm, Paused, Ok, Initial, OutOfMemory

-----------------------------------------------------------------------------
(* Fast forwarding.                                                          *)

\* A source that is out of room may be at its end without telling, and then
\* the search goes back on the character it counts for.
Answered(l, s, chars) ==
  /\ Within(s.ls) /\ s.ls.in = l.in /\ s.ls.kind = l.kind /\ s.ls.state # Initial
  /\ s.ls.captured = l.captured /\ l.at <= s.ls.at
  /\ s.found = NUL => Eof(s.ls) \/ s.ls = l
  /\ s.found # NUL => s.found \in chars /\ s.ls.current = s.found /\ s.ls.state = l.state
  /\ Settled(l) => Onward(l, s.ls) /\ Settled(s.ls) /\ (s.found = NUL => Eof(s.ls))

\* A search that ended where a character of the set is, or at the end.
LEMMA SkippedToKeeps ==
  ASSUME NEW l, Within(l), l.state # Initial, NEW k \in l.at .. Len(l.in) + 1,
         k >= 1, NEW chars, k <= Len(l.in) => l.in[k] \in chars,
         NEW s, s = SkippedTo(l, k)
  PROVE  /\ Answered(l, s, chars) /\ s = [ls |-> s.ls, found |-> s.found]
         /\ s.found # NUL => s.ls.at = k
<1> DEFINE p == l.position + (IF k <= Len(l.in) THEN k ELSE k - 1) - l.at
           moved == [l EXCEPT !.position = p]
<1>1. /\ l.at \in Nat /\ l.position \in Nat /\ Len(l.in) \in Nat /\ k \in Nat /\ l.at <= Len(l.in)
      /\ l.position <= l.at /\ IsText(l.in) /\ l.state \in States /\ l \in SourcesOf(l.in)
      /\ Len(l.captured) <= CaptureCapacity
      /\ l.state = EndOfInput => l.at = Len(l.in)
      /\ l.state = IOError => l.current # NUL
      /\ Cur(l) \in Nat
  BY WithinTypes
<1>2. Settled(l) => Cur(l) <= (IF Eof(l) THEN Len(l.in) + 1 ELSE l.at)
  BY <1>1 DEF Cur, Eof, Settled, States
<1>3. moved.in = l.in
  BY <1>1 DEF SourcesOf
<1>4. CASE k <= Len(l.in)
  <2>1. p \in Nat /\ p <= k
    BY <1>1, <1>4
  <2>2. s = Skipped([moved EXCEPT !.at = k, !.current = l.in[k]], l.in[k])
    BY <1>3, <1>4, Zenon DEF SkippedTo
  <2> HIDE DEF p
  <2>3. s.ls = [moved EXCEPT !.at = k, !.current = l.in[k]] /\ s.found = l.in[k]
        /\ s = [ls |-> s.ls, found |-> s.found]
    <3> HIDE DEF moved
    <3> QED BY <2>2 DEF Skipped
  <2>4. l.in[k] \in BytesIn(l.in)
    BY <1>1, <1>4 DEF IsText
  <2>5. l.in[k] \in Symbols(l.in) /\ l.in[k] # NUL
    BY <1>1, <2>4 DEF IsText, Symbols
  <2>6. s.ls \in SourcesOf(l.in) /\ s.ls.in = l.in /\ s.ls.kind = l.kind /\ s.ls.at = k
        /\ s.ls.state = l.state /\ s.ls.current = l.in[k] /\ s.ls.position = p
        /\ s.ls.captured = l.captured
    BY <1>1, <1>4, <2>1, <2>3, <2>5 DEF SourcesOf
  <2>7. Within(s.ls)
    BY <1>1, <1>4, <2>1, <2>5, <2>6 DEF Within
  <2>8. Settled(l) => Cur(l) <= Cur(s.ls)
    BY <1>1, <1>2, <1>4, <2>6 DEF Cur, Eof
  <2>9. l.at <= s.ls.at
    BY <1>1, <2>6
  <2> QED BY <2>3, <2>5, <2>6, <2>7, <2>8, <2>9, <1>4 DEF Answered, Onward, Settled
<1>5. CASE ~ (k <= Len(l.in))
  <2>1. p \in Nat /\ p <= Len(l.in) /\ k - 1 = Len(l.in)
    BY <1>1, <1>5
  <2>2. s = Skipped([moved EXCEPT !.at = k - 1, !.state = EndOfInput], NUL)
    BY <1>3, <1>5, Zenon DEF SkippedTo
  <2> HIDE DEF p
  <2>3. s.ls = [moved EXCEPT !.at = k - 1, !.state = EndOfInput] /\ s.found = NUL
        /\ s = [ls |-> s.ls, found |-> s.found]
    <3> HIDE DEF moved
    <3> QED BY <2>2 DEF Skipped
  <2>4. EndOfInput \in States
    BY DEF States
  <2>5. s.ls \in SourcesOf(l.in) /\ s.ls.in = l.in /\ s.ls.kind = l.kind /\ s.ls.at = Len(l.in)
        /\ s.ls.state = EndOfInput /\ s.ls.current = l.current /\ s.ls.position = p
        /\ s.ls.captured = l.captured
    BY <1>1, <2>1, <2>3, <2>4 DEF SourcesOf
  <2>6. Within(s.ls)
    BY <1>1, <2>1, <2>5 DEF Within, EndOfInput, IOError
  <2>7. Settled(l) => Cur(l) <= Cur(s.ls)
    BY <1>1, <1>2, <2>5 DEF Cur, Eof
  <2>8. l.at <= s.ls.at
    BY <1>1, <2>5
  <2> QED BY <2>3, <2>5, <2>6, <2>7, <2>8
          DEF Answered, Onward, Settled, Eof, EndOfInput, Ok, OutOfMemory, Initial
<1> QED BY <1>4, <1>5

\* skipToAny() finds one of the characters or the end, and leaves the state
\* alone when it finds one.
LEMMA SkipToAnyKeeps ==
  ASSUME NEW l, Within(l), l.state # Initial, NEW chars,
         NEW s, s = SkipToAny(l, chars)
  PROVE  Answered(l, s, chars)
<1>1. /\ l.at \in Nat /\ l.position \in Nat /\ Len(l.in) \in Nat /\ l.at <= Len(l.in)
      /\ l.position <= l.at /\ IsText(l.in) /\ l.state \in States /\ l \in SourcesOf(l.in)
      /\ Len(l.captured) <= CaptureCapacity /\ (l.state = IOError => l.current # NUL)
  BY WithinTypes
<1>2. ASSUME NEW i \in Nat \ {0}, l.at <= i, i <= Len(l.in) + 1,
             NEW t, t = SkippedTo(l, FirstIn(l.in, i, chars))
      PROVE  Answered(l, t, chars) /\ (t.found # NUL => t.ls.at >= 1)
             /\ t = [ls |-> t.ls, found |-> t.found]
  <2>1. PICK k : k = FirstIn(l.in, i, chars)
    OBVIOUS
  <2>2. k \in i .. Len(l.in) + 1 /\ (k <= Len(l.in) => l.in[k] \in chars)
    BY <1>1, <1>2, <2>1, FirstInIsFirst DEF IsText
  <2>3. k \in l.at .. Len(l.in) + 1 /\ k >= 1
    BY <1>1, <1>2, <2>2
  <2>4. Answered(l, t, chars) /\ (t.found # NUL => t.ls.at = k) /\ t = [ls |-> t.ls, found |-> t.found]
    BY <1>2, <2>1, <2>2, <2>3, SkippedToKeeps
  <2> QED BY <2>3, <2>4
<1>3. ASSUME l.current \in chars \cup {NUL}, s = Skipped(l, l.current)
      PROVE  Answered(l, s, chars)
  <2>1. s.ls = l /\ s.found = l.current
    BY <1>3 DEF Skipped
  <2>2. l.current = NUL /\ Settled(l) => Eof(l)
    BY <1>1 DEF Settled, States, Eof
  <2>3. l.at <= s.ls.at
    BY <1>1, <2>1
  <2> QED BY <1>3, <2>1, <2>2, <2>3, OnwardIsOrder DEF Answered
<1>4. PICK t : t = SkippedTo(l, FirstIn(l.in, IF l.at = 0 THEN 1 ELSE l.at, chars))
  OBVIOUS
<1>5. Answered(l, t, chars) /\ (t.found # NUL => t.ls.at >= 1)
      /\ t = [ls |-> t.ls, found |-> t.found]
  <2>1. PICK i : i = IF l.at = 0 THEN 1 ELSE l.at
    OBVIOUS
  <2>2. i \in Nat \ {0} /\ l.at <= i /\ i <= Len(l.in) + 1
    BY <1>1, <2>1
  <2> QED BY <1>2, <1>4, <2>1, <2>2
<1>6. SkipToAnySZ(l, chars) = t
  BY <1>4 DEF SkipToAnySZ
<1>7. CASE l.kind = "file"
  <2>1. l.at + 1 \in Nat \ {0} /\ l.at <= l.at + 1 /\ l.at + 1 <= Len(l.in) + 1
    BY <1>1
  <2>2. s = SkipToAnyBase(l, chars)
    BY <1>7 DEF SkipToAny
  <2> QED BY <1>2, <1>3, <2>1, <2>2 DEF SkipToAnyBase
<1>8. CASE l.kind = "sz"
  <2>1. l.kind # "file"
    BY <1>8
  <2> QED BY <1>5, <1>6, <1>8, <2>1 DEF SkipToAny
<1>9. CASE l.kind # "file" /\ l.kind # "sz"
  <2>1. s = SkipToAnyMapped(l, chars)
    BY <1>9 DEF SkipToAny
  <2>2. CASE l.position >= Len(l.in)
    <3>1. s.ls = [l EXCEPT !.state = EndOfInput] /\ s.found = NUL
      BY <2>1, <2>2 DEF SkipToAnyMapped, Skipped
    <3>2. EndOfInput \in States
      BY DEF States
    <3>3. s.ls \in SourcesOf(l.in) /\ s.ls.in = l.in /\ s.ls.kind = l.kind /\ s.ls.at = l.at
          /\ s.ls.state = EndOfInput /\ s.ls.current = l.current /\ s.ls.position = l.position
          /\ s.ls.captured = l.captured
      BY <1>1, <3>1, <3>2 DEF SourcesOf
    <3>4. l.at = Len(l.in)
      BY <1>1, <2>2
    <3>5. Within(s.ls)
      BY <1>1, <3>3, <3>4 DEF Within, EndOfInput, IOError
    <3>6. Settled(l) => Cur(l) <= Cur(s.ls)
      BY <1>1, <3>3 DEF Cur, Eof
    <3>7. l.at <= s.ls.at
      BY <1>1, <3>3
    <3> QED BY <3>1, <3>3, <3>5, <3>6, <3>7
            DEF Answered, Onward, Settled, Eof, EndOfInput, Ok, OutOfMemory, Initial
  <2>3. CASE ~ (l.position >= Len(l.in)) /\ t.found = NUL
    BY <1>5, <1>6, <2>1, <2>3 DEF SkipToAnyMapped
  <2>4. CASE ~ (l.position >= Len(l.in)) /\ t.found # NUL
    <3>1. s = [t EXCEPT !.ls.position = t.ls.at]
      BY <1>6, <2>1, <2>4 DEF SkipToAnyMapped
    <3>2. s.found = t.found /\ s.ls = [t.ls EXCEPT !.position = t.ls.at]
      BY <1>5, <3>1
    <3>3. Within(t.ls)
      BY <1>5 DEF Answered
    <3>4. t.ls.at \in Nat /\ t.ls \in SourcesOf(t.ls.in)
      BY <3>3, WithinTypes
    <3>5. /\ s.ls \in SourcesOf(t.ls.in) /\ s.ls.in = t.ls.in /\ s.ls.kind = t.ls.kind
          /\ s.ls.at = t.ls.at /\ s.ls.state = t.ls.state /\ s.ls.current = t.ls.current
          /\ s.ls.captured = t.ls.captured /\ s.ls.position = t.ls.at
      BY <3>2, <3>4 DEF SourcesOf
    <3>6. Within(s.ls)
      BY <3>3, <3>4, <3>5 DEF Within
    <3>7. Settled(t.ls) => Settled(s.ls) /\ Cur(s.ls) = Cur(t.ls)
      BY <3>5 DEF Settled, Cur, Eof
    <3>8. Settled(l) => Onward(l, s.ls) /\ Settled(s.ls)
      BY <1>5, <3>5, <3>6, <3>7 DEF Answered, Onward
    <3> QED BY <1>5, <2>4, <3>2, <3>5, <3>6, <3>8 DEF Answered
  <2> QED BY <2>2, <2>3, <2>4
<1> QED BY <1>7, <1>8, <1>9

-----------------------------------------------------------------------------
(* White space.                                                              *)

\* skipWhiteSpace.
LEMMA SkipWhiteSpaceKeeps ==
  ASSUME NEW l, Within(l), NEW n, n = SkipWhiteSpace(l)
  PROVE  /\ Onward(l, n) /\ n.captured = l.captured
         /\ n = l \/ Calm(n)
<1>1. CASE l.current \notin Space
  BY <1>1, OnwardIsOrder DEF SkipWhiteSpace
<1>2. CASE l.current \in Space
  <2> DEFINE solid == {i \in l.at + 1 .. Len(l.in) : l.in[i] \notin Space}
             k == CHOOSE i \in solid \cup {Len(l.in) + 1} : \A j \in solid : i <= j
  <2>1. l.at \in Nat /\ Len(l.in) \in Nat /\ l.position \in Nat /\ l.position <= l.at
        /\ l.at <= Len(l.in)
    BY WithinTypes
  <2>2. \E i \in solid \cup {Len(l.in) + 1} : \A j \in solid : i <= j
    <3>1. solid \cup {Len(l.in) + 1} \subseteq Nat
      BY <2>1
    <3>2. PICK i \in solid \cup {Len(l.in) + 1} : \A j \in solid \cup {Len(l.in) + 1} : i <= j
      <4> HIDE DEF solid
      <4> QED BY <3>1, LeastOf
    <3> QED BY <3>2
  <2>3. k \in l.at + 1 .. Len(l.in) + 1
    <3>1. k \in solid \cup {Len(l.in) + 1}
      BY <2>2
    <3>2. solid \cup {Len(l.in) + 1} \subseteq l.at + 1 .. Len(l.in) + 1
      BY <2>1
    <3> QED BY <3>1, <3>2
  <2>4. n = Advance(MovedTo(l, k - 1, l.position + k - 1 - l.at))
    BY <1>2 DEF SkipWhiteSpace, MovedTo
  <2> HIDE DEF k
  <2>5. k - 1 \in l.at .. Len(l.in) /\ l.position + k - 1 - l.at \in Nat
        /\ l.position + k - 1 - l.at <= k - 1
    BY <2>1, <2>3
  <2>6. PICK m : m = MovedTo(l, k - 1, l.position + k - 1 - l.at)
    OBVIOUS
  <2>7. Within(m) /\ m.in = l.in /\ m.kind = l.kind /\ m.at = k - 1 /\ m.captured = l.captured
    BY <2>5, <2>6, MovedOn
  <2>8. Within(n) /\ n.in = m.in /\ n.kind = m.kind /\ n.captured = m.captured
        /\ Calm(n) /\ Cur(n) >= m.at + 1
    BY <2>4, <2>6, <2>7, AdvanceKeeps
  <2>9. Cur(n) \in Nat /\ (Cur(l) = l.at \/ Cur(l) = l.at + 1)
    BY <2>8, WithinTypes
  <2>10. Cur(l) <= Cur(n)
    BY <2>1, <2>3, <2>7, <2>8, <2>9
  <2> QED BY <2>7, <2>8, <2>10 DEF Onward, Calm, Paused
<1> QED BY <1>1, <1>2

-----------------------------------------------------------------------------
(* Strings.                                                                  *)

\* A scanner that has begun past the character it was called on.
Scanned(l, u) == Onward(l, u.ls) /\ Paused(u.ls) /\ u.ok \in BOOLEAN

\* An answer is its parts.
LEMMA AnswerIs == \A ok, l : Answer(ok, l).ok = ok /\ Answer(ok, l).ls = l
  BY DEF Answer

\* The four digits of a \u escape.
LEMMA DecodeKeeps ==
  ASSUME NEW l, Within(l), Calm(l), NEW d, d = DecodeUnicodeEscape(l)
  PROVE  Scanned(l, d) /\ Calm(d.ls) /\ d.ls.captured = l.captured
<1> DEFINE bad == {i \in 0 .. 3 : l.at + i > Len(l.in) \/ l.in[l.at + i] \notin Hex}
           n == IF bad = {} THEN 4 ELSE CHOOSE i \in bad : \A j \in bad : i <= j
           moved == IF n = 0 THEN l
                    ELSE Advance([l EXCEPT !.at = @ + n - 1, !.position = @ + n - 1])
<1>1. l.at \in Nat /\ Len(l.in) \in Nat /\ l.position \in Nat /\ l.position <= l.at
      /\ l.at <= Len(l.in)
  BY WithinTypes
<1>2. d.ok = (More(l) /\ bad = {}) /\ d.ls = IF More(l) THEN moved ELSE l
  BY AnswerIs DEF DecodeUnicodeEscape
<1>3. bad \subseteq 0 .. 3
  OBVIOUS
<1>4. IF bad = {} THEN n = 4 ELSE n \in bad /\ \A j \in bad : n <= j
  <2>1. bad # {} => \E i \in bad : \A j \in bad : i <= j
    <3>1. bad \subseteq Nat
      BY <1>3
    <3> HIDE DEF bad
    <3> QED BY <3>1, LeastOf
  <2> QED BY <2>1
<1>5. n \in 0 .. 4
  <2>1. CASE bad = {}
    BY <2>1
  <2>2. CASE bad # {}
    <3>1. n \in bad /\ bad \subseteq 0 .. 3
      BY <2>2, <1>3, <1>4
    <3> HIDE DEF bad, n
    <3> QED BY <3>1
  <2> QED BY <2>1, <2>2
<1>6. n # 0 => l.at + n - 1 \in l.at .. Len(l.in)
  <2>1. ASSUME n # 0 PROVE n - 1 \in 0 .. 3 /\ n - 1 \notin bad
    <3> HIDE DEF bad
    <3>1. CASE bad = {}
      BY <3>1
    <3>2. CASE bad # {}
      <4>1. n \in bad /\ (\A j \in bad : n <= j) /\ n \in 0 .. 3
        BY <3>2, <1>3, <1>4
      <4> HIDE DEF n
      <4> QED BY <2>1, <4>1
    <3> QED BY <3>1, <3>2
  <2>2. ASSUME n # 0 PROVE ~(l.at + (n - 1) > Len(l.in))
    <3> HIDE DEF n
    <3> QED BY <2>1, <2>2
  <2> HIDE DEF n
  <2> QED BY <1>1, <1>5, <2>2
<1> HIDE DEF bad, n
<1>7. CASE ~More(l) \/ n = 0
  <2>1. d.ls = l
    BY <1>2, <1>7
  <2> QED BY <1>2, <2>1, OnwardIsOrder DEF Scanned, Calm
<1>8. CASE More(l) /\ n # 0
  <2>1. PICK m : m = MovedTo(l, l.at + n - 1, l.position + n - 1)
    OBVIOUS
  <2>2. d.ls = Advance(m)
    BY <1>2, <1>8, <2>1 DEF MovedTo
  <2>3. l.position + n - 1 \in Nat /\ l.position + n - 1 <= l.at + n - 1
    BY <1>1, <1>5, <1>8
  <2>4. Within(m) /\ m.in = l.in /\ m.kind = l.kind /\ m.at = l.at + n - 1
        /\ m.captured = l.captured
    BY <1>6, <1>8, <2>1, <2>3, MovedOn
  <2>5. Within(d.ls) /\ d.ls.in = m.in /\ d.ls.kind = m.kind /\ d.ls.captured = m.captured
        /\ Calm(d.ls) /\ Cur(d.ls) >= m.at + 1
    BY <2>2, <2>4, AdvanceKeeps
  <2>6. Cur(d.ls) \in Nat /\ (Cur(l) = l.at \/ Cur(l) = l.at + 1)
    BY <2>5, WithinTypes
  <2>7. Cur(l) <= Cur(d.ls)
    BY <1>1, <1>5, <1>8, <2>4, <2>5, <2>6
  <2> QED BY <1>2, <2>4, <2>5, <2>7 DEF Onward, Scanned, Calm, Paused
<1> QED BY <1>7, <1>8

\* What an escape stands for can be captured in any document.
LEMMA EscapesAreSymbols ==
  ASSUME NEW in
  PROVE  /\ \A c \in DOMAIN SimpleEscapes : SimpleEscapes[c] \in Symbols(in)
         /\ \A digits : EscapedCodePoint(digits) \in Symbols(in)
         /\ Cp4 \in Symbols(in)
<1> DEFINE Few == {"\\", "\"", "/", "\r", "\n", "\t", "\f", "backspace", "?", "a", Cp2, Cp3, Cp4}
<1>1. Few \subseteq Symbols(in)
  BY DEF Symbols, WideCodePoints
<1>2. ASSUME NEW c \in DOMAIN SimpleEscapes PROVE SimpleEscapes[c] \in Few
  <2>1. c \in {"\\", "\"", "/", "r", "n", "t", "f", "b"}
    BY DEF SimpleEscapes
  <2>2. SimpleEscapes[c] \in {"\r", "\n", "\t", "\f", "backspace"}
        \/ (SimpleEscapes[c] = c /\ c \in {"\\", "\"", "/"})
    BY <2>1, Zenon DEF SimpleEscapes
  <2> QED BY <2>2
<1>3. ASSUME NEW digits PROVE EscapedCodePoint(digits) \in Few
  <2>1. EscapedCodePoint(digits) \in {"?", "a", Cp2, Cp3}
    BY Zenon DEF EscapedCodePoint
  <2> QED BY <2>1
<1> QED BY <1>1, <1>2, <1>3

\* Whereas undecorate and its parts also yield the code point, and run out of
\* room only where they are to capture it.
Made(l, u, capture) ==
  /\ Scanned(l, u)
  /\ u \in [ok : BOOLEAN, ls : {u.ls}, cp : Symbols(l.in)]
  /\ capture = FALSE => u.ls.state # OutOfMemory

\* A code point made out is captured, or there is no room for it.
LEMMA KeepKeeps ==
  ASSUME NEW l, Within(l), Calm(l), NEW c \in Symbols(l.in), NEW capture \in BOOLEAN,
         NEW u, u = Keep(l, c, capture)
  PROVE  /\ Made(l, u, capture)
         /\ u.ok => Calm(u.ls) /\ u.ls.state = l.state
         /\ ~u.ok => u.ls.captured = l.captured
<1>1. CASE capture = FALSE
  <2>1. PICK t : t = TRUE
    OBVIOUS
  <2>2. u = [ok |-> t, ls |-> l, cp |-> c]
    BY <1>1, <2>1 DEF Keep
  <2>3. u.ls = l /\ u.ok = t /\ u \in [ok : BOOLEAN, ls : {l}, cp : Symbols(l.in)]
    BY <2>1, <2>2, SMT
  <2> QED BY <2>1, <2>3, OnwardIsOrder DEF Made, Scanned, Calm
<1>2. CASE capture = TRUE
  <2>1. PICK n : n = Capture(l, c)
    OBVIOUS
  <2>2. /\ Within(n) /\ n.in = l.in /\ n.kind = l.kind /\ n.at = l.at /\ n.current = l.current
        /\ HasRoom(l) => n.state = l.state
        /\ ~HasRoom(l) => n.state = OutOfMemory /\ n.captured = l.captured
        /\ Onward(l, n)
    BY <2>1, CaptureKeeps, CaptureIsOnward DEF Calm, Paused, Eof
  <2>3. IF HasRoom(l) THEN u = [ok |-> TRUE, ls |-> n, cp |-> c]
        ELSE u = [ok |-> FALSE, ls |-> n, cp |-> c]
    <3>1. CASE HasRoom(l)
      BY <1>2, <2>1, <3>1 DEF Keep
    <3>2. CASE ~HasRoom(l)
      BY <1>2, <2>1, <3>2 DEF Keep
    <3> QED BY <3>1, <3>2
  <2>4. Paused(n) /\ (HasRoom(l) => Calm(n))
    BY <2>2 DEF Calm, Paused, OutOfMemory, Initial, Ok, EndOfInput
  <2>5. /\ u.ls = n /\ u \in [ok : BOOLEAN, ls : {n}, cp : Symbols(l.in)]
        /\ u.ok = IF HasRoom(l) THEN TRUE ELSE FALSE
    <3>1. TRUE \in BOOLEAN /\ FALSE \in BOOLEAN
      OBVIOUS
    <3>2. CASE HasRoom(l)
      <4>1. u = [ok |-> TRUE, ls |-> n, cp |-> c]
        BY <2>3, <3>2
      <4>2. u.ls = n /\ u.ok = TRUE
        BY <4>1
      <4>3. u \in [ok : BOOLEAN, ls : {n}, cp : Symbols(l.in)]
        BY <4>1, SMT
      <4> QED BY <3>2, <4>2, <4>3
    <3>3. CASE ~HasRoom(l)
      <4>1. u = [ok |-> FALSE, ls |-> n, cp |-> c]
        BY <2>3, <3>3
      <4>2. u.ls = n /\ u.ok = FALSE
        BY <4>1
      <4>3. u \in [ok : BOOLEAN, ls : {n}, cp : Symbols(l.in)]
        BY <4>1, SMT
      <4> QED BY <3>3, <4>2, <4>3
    <3> QED BY <3>2, <3>3
  <2> QED BY <1>2, <2>2, <2>3, <2>4, <2>5 DEF Scanned, Made
<1> QED BY <1>1, <1>2

\* A calm source is paused.
LEMMA PausedIs == \A l : Calm(l) => Paused(l)
  BY DEF Calm

\* The scanners are made of the others by Pass, which refuses where one fails.
LEMMA MadeOn ==
  ASSUME NEW l, Within(l), NEW m, Onward(l, m), NEW capture, NEW u, Made(m, u, capture)
  PROVE  Made(l, u, capture)
<1>1. m.in = l.in /\ Onward(l, u.ls)
  BY OnwardIsOrder DEF Made, Scanned, Onward
<1> QED BY <1>1 DEF Made, Scanned

\* A refusal keeps the source where it is.
LEMMA RefusedIs ==
  ASSUME NEW l, Within(l), Calm(l), NEW capture
  PROVE  Made(l, Refused(l), capture)
<1>1. NUL \in Symbols(l.in)
  BY DEF Symbols
<1>2. Refused(l).ls = l /\ Refused(l).ok = FALSE
      /\ Refused(l) \in [ok : BOOLEAN, ls : {l}, cp : Symbols(l.in)]
  BY <1>1 DEF Refused
<1> QED BY <1>2, OnwardIsOrder DEF Made, Scanned, Calm

\* The advance onto the character after a backslash.
LEMMA OntoKeeps ==
  ASSUME NEW l, Within(l), NEW c, c = Onto(l)
  PROVE  c.ls = Advance(l) /\ c.ok = More(Advance(l)) /\ Scanned(l, c) /\ Calm(c.ls)
         /\ c.ls.captured = l.captured
<1>1. c.ls = Advance(l) /\ c.ok = More(Advance(l))
  BY AnswerIs DEF Onto, HasMore
<1> QED BY <1>1, AdvanceIsOnward DEF Scanned, More, Calm

\* The second half of a surrogate pair.
LEMMA LowSurrogateKeeps ==
  ASSUME NEW l, Within(l), Calm(l), NEW capture \in BOOLEAN,
         NEW u, u = LowSurrogate(l, capture)
  PROVE  Made(l, u, capture)
<1>1. CASE l.current # "\\"
  BY <1>1, RefusedIs DEF LowSurrogate
<1>2. CASE l.current = "\\"
  <2>1. PICK c : c = Onto(l)
    OBVIOUS
  <2>2. Scanned(l, c) /\ Within(c.ls) /\ Calm(c.ls) /\ Onward(l, c.ls)
    BY <2>1, OntoKeeps DEF Scanned, Onward
  <2>3. CASE ~c.ok \/ c.ls.current # "u"
    <3>1. u = Refused(c.ls)
      BY <1>2, <2>1, <2>3 DEF LowSurrogate, Pass
    <3> QED BY <2>2, <3>1, RefusedIs, MadeOn
  <2>4. CASE c.ok /\ c.ls.current = "u"
    <3>1. PICK d : d = Onto(c.ls)
      OBVIOUS
    <3>2. Scanned(c.ls, d) /\ Within(d.ls) /\ Calm(d.ls) /\ Onward(c.ls, d.ls)
      BY <2>2, <3>1, OntoKeeps DEF Scanned, Onward
    <3>3. Onward(l, d.ls)
      BY <2>2, <3>2, OnwardIsOrder
    <3>4. CASE ~d.ok
      <4>1. u = Refused(d.ls)
        BY <1>2, <2>1, <2>4, <3>1, <3>4 DEF LowSurrogate, Pass
      <4> QED BY <3>2, <3>3, <4>1, RefusedIs, MadeOn
    <3>5. CASE d.ok
      <4>1. PICK e : e = DecodeUnicodeEscape(d.ls)
        OBVIOUS
      <4>2. Scanned(d.ls, e) /\ Within(e.ls) /\ Calm(e.ls) /\ Onward(d.ls, e.ls)
        BY <3>2, <4>1, DecodeKeeps DEF Scanned, Onward
      <4>3. Onward(l, e.ls)
        BY <3>3, <4>2, OnwardIsOrder
      <4>4. CASE ~e.ok
        <5>1. u = Refused(e.ls)
          BY <1>2, <2>1, <2>4, <3>1, <3>5, <4>1, <4>4 DEF LowSurrogate, Pass
        <5> QED BY <4>2, <4>3, <5>1, RefusedIs, MadeOn
      <4>5. CASE e.ok
        <5>1. PICK f : f = Advance(e.ls)
          OBVIOUS
        <5>2. u = Keep(f, Cp4, capture)
          BY <1>2, <2>1, <2>4, <3>1, <3>5, <4>1, <4>5, <5>1 DEF LowSurrogate, Pass
        <5>3. Within(f) /\ Calm(f) /\ Onward(e.ls, f)
          BY <4>2, <5>1, AdvanceIsOnward DEF Onward
        <5>4. Onward(l, f)
          BY <4>3, <5>3, OnwardIsOrder
        <5>5. Made(f, u, capture)
          BY <5>2, <5>3, EscapesAreSymbols, KeepKeeps
        <5> QED BY <5>4, <5>5, MadeOn
      <4> QED BY <4>4, <4>5
    <3> QED BY <3>4, <3>5
  <2> QED BY <2>3, <2>4
<1> QED BY <1>1, <1>2

\* A \u escape, with or without its second half.
LEMMA UndecorateUnicodeKeeps ==
  ASSUME NEW l, Within(l), Calm(l), NEW capture \in BOOLEAN,
         NEW u, u = UndecorateUnicode(l, capture)
  PROVE  Made(l, u, capture)
<1>1. PICK d : d = Onto(l)
  OBVIOUS
<1>2. Scanned(l, d) /\ Within(d.ls) /\ Calm(d.ls) /\ Onward(l, d.ls)
  BY <1>1, OntoKeeps DEF Scanned, Onward
<1>3. CASE ~d.ok
  <2>1. u = Refused(d.ls)
    BY <1>1, <1>3 DEF UndecorateUnicode, Pass
  <2> QED BY <1>2, <2>1, RefusedIs, MadeOn
<1>4. CASE d.ok
  <2>1. PICK e : e = DecodeUnicodeEscape(d.ls)
    OBVIOUS
  <2>2. Within(e.ls) /\ Calm(e.ls) /\ Onward(d.ls, e.ls)
    BY <1>2, <2>1, DecodeKeeps DEF Scanned, Onward
  <2>3. Onward(l, e.ls)
    BY <1>2, <2>2, OnwardIsOrder
  <2>4. CASE ~e.ok
    <3>1. u = Refused(e.ls)
      BY <1>1, <1>4, <2>1, <2>4 DEF UndecorateUnicode, Pass
    <3> QED BY <2>2, <2>3, <3>1, RefusedIs, MadeOn
  <2>5. CASE e.ok
    <3>1. PICK digits : digits = EscapeDigits(d.ls)
      OBVIOUS
    <3>2. u = IF IsHighSurrogate(digits) THEN LowSurrogate(e.ls, capture)
              ELSE Keep(e.ls, EscapedCodePoint(digits), capture)
      BY <1>1, <1>4, <2>1, <2>5, <3>1 DEF UndecorateUnicode, Pass
    <3>3. Made(e.ls, LowSurrogate(e.ls, capture), capture)
      BY <2>2, LowSurrogateKeeps
    <3>4. Made(e.ls, Keep(e.ls, EscapedCodePoint(digits), capture), capture)
      BY <2>2, EscapesAreSymbols, KeepKeeps
    <3>5. Made(e.ls, u, capture)
      BY <3>2, <3>3, <3>4, Zenon
    <3> QED BY <2>3, <3>5, MadeOn
  <2> QED BY <2>4, <2>5
<1> QED BY <1>3, <1>4

\* Capturing what an escape stands for, and stepping past it.
LEMMA StepPastKeeps ==
  ASSUME NEW l, Within(l), Calm(l), NEW c \in Symbols(l.in), NEW capture \in BOOLEAN,
         NEW u, u = StepPast(Keep(l, c, capture))
  PROVE  /\ Made(l, u, capture)
         /\ u.ok /\ l.state = Ok => Ahead(l, u.ls)
         /\ ~u.ok => u.ls.captured = l.captured
<1>1. PICK k : k = Keep(l, c, capture)
  OBVIOUS
<1>2. Made(l, k, capture) /\ (k.ok => Calm(k.ls) /\ k.ls.state = l.state)
      /\ (~k.ok => k.ls.captured = l.captured) /\ Within(k.ls) /\ Onward(l, k.ls)
  <2>1. Made(l, k, capture)
    BY <1>1, KeepKeeps
  <2>2. k.ok => Calm(k.ls) /\ k.ls.state = l.state
    BY <1>1, KeepKeeps
  <2>3. ~k.ok => k.ls.captured = l.captured
    BY <1>1, KeepKeeps
  <2> QED BY <2>1, <2>2, <2>3 DEF Made, Scanned, Onward
<1>3. CASE ~k.ok
  BY <1>1, <1>2, <1>3 DEF StepPast
<1>4. CASE k.ok
  <2>1. k \in [ok : BOOLEAN, ls : {k.ls}, cp : Symbols(l.in)]
    BY <1>2 DEF Made
  <2>2. u = [k EXCEPT !.ls = Advance(k.ls)]
    BY <1>1, <1>4 DEF StepPast
  <2>3. u.ok = k.ok /\ u.ls = Advance(k.ls)
        /\ u \in [ok : BOOLEAN, ls : {u.ls}, cp : Symbols(l.in)]
    BY <2>1, <2>2
  <2>4. Onward(k.ls, u.ls) /\ Calm(u.ls) /\ (Cur(k.ls) = k.ls.at => Ahead(k.ls, u.ls))
    BY <1>2, <2>3, AdvanceIsOnward
  <2>5. l.state = Ok => Cur(k.ls) = k.ls.at
    BY <1>2, <1>4, OnACharacter DEF Calm, Paused, Ok, EndOfInput
  <2>6. Onward(l, u.ls) /\ (l.state = Ok => Ahead(l, u.ls))
    BY <1>2, <2>4, <2>5, OnwardIsOrder
  <2> QED BY <1>2, <1>4, <2>3, <2>4, <2>6 DEF Made, Scanned, Calm
<1> QED BY <1>3, <1>4

\* undecorate() gets further when it makes out a code point, and whenever it
\* captures one.
Undecorated(l, u, capture) ==
  /\ Onward(l, u.ls)
  /\ u \in [ok : BOOLEAN, ls : {u.ls}, cp : Symbols(l.in)]
  /\ u.ok \/ u.ls.captured # l.captured => Ahead(l, u.ls)
  /\ Paused(l) => Paused(u.ls)
  /\ capture = FALSE => u.ls = l \/ Calm(u.ls)

\* undecorate(): one character of a string, captured as it is meant. It succeeds
\* only by getting on.
LEMMA UndecorateKeeps ==
  ASSUME NEW l, Within(l), l.state # Initial, NEW capture \in BOOLEAN,
         NEW u, u = Undecorate(l, capture)
  PROVE  Undecorated(l, u, capture)
<1>1. CASE ~More(l) \/ l.current \in {"\n", "\r", NUL, "\""}
  <2>1. u = Refused(l)
    BY <1>1 DEF Undecorate
  <2>2. NUL \in Symbols(l.in)
    BY DEF Symbols
  <2>3. u.ls = l /\ u.ok = FALSE /\ u \in [ok : BOOLEAN, ls : {l}, cp : Symbols(l.in)]
    BY <2>1, <2>2, SMT DEF Refused
  <2> QED BY <2>3, OnwardIsOrder DEF Undecorated
<1>2. CASE More(l) /\ l.current \notin {"\n", "\r", NUL, "\""}
  <2>1. l.current \in Symbols(l.in)
    BY WithinTypes
  <2>2. l.state = Ok /\ l.current # NUL
    BY <1>2, MoreIsOk
  <2>3. Calm(l) /\ Cur(l) = l.at
    BY <2>2, OkIsCalm
  <2>4. CASE l.current # "\\"
    <3>1. u = StepPast(Keep(l, l.current, capture))
      BY <1>2, <2>4 DEF Undecorate
    <3> QED BY <2>1, <2>2, <2>3, <3>1, PausedIs, StepPastKeeps DEF Undecorated, Made, Scanned, Calm
  <2>5. CASE l.current = "\\"
    <3>1. PICK c : c = Onto(l)
      OBVIOUS
    <3>2. Scanned(l, c) /\ Calm(c.ls) /\ Within(c.ls) /\ Onward(l, c.ls) /\ Ahead(l, c.ls)
      BY <2>3, <3>1, OntoKeeps, AdvanceIsOnward DEF Scanned, Onward
    <3>3. ASSUME Made(c.ls, u, capture) PROVE Undecorated(l, u, capture)
      <4>1. Onward(l, u.ls) /\ Ahead(l, u.ls) /\ c.ls.in = l.in
        BY <3>2, <3>3, OnwardIsOrder DEF Made, Scanned, Onward
      <4> QED BY <3>3, <4>1 DEF Undecorated, Made, Scanned, Calm
    <3>4. CASE ~c.ok \/ (c.ls.current \notin DOMAIN SimpleEscapes /\ c.ls.current # "u")
      <4>1. u = Refused(c.ls)
        BY <1>2, <2>5, <3>1, <3>4 DEF Undecorate, Pass
      <4> QED BY <3>2, <3>3, <4>1, RefusedIs
    <3>5. CASE c.ok /\ c.ls.current \in DOMAIN SimpleEscapes
      <4>1. u = StepPast(Keep(c.ls, SimpleEscapes[c.ls.current], capture))
        BY <1>2, <2>5, <3>1, <3>5 DEF Undecorate, Pass
      <4>2. SimpleEscapes[c.ls.current] \in Symbols(c.ls.in)
        BY <3>5, EscapesAreSymbols
      <4> QED BY <3>2, <3>3, <4>1, <4>2, StepPastKeeps
    <3>6. CASE c.ok /\ c.ls.current \notin DOMAIN SimpleEscapes /\ c.ls.current = "u"
      <4>1. u = UndecorateUnicode(c.ls, capture)
        BY <1>2, <2>5, <3>1, <3>6 DEF Undecorate, Pass
      <4> QED BY <3>2, <3>3, <4>1, UndecorateUnicodeKeeps
    <3> QED BY <3>4, <3>5, <3>6
  <2> QED BY <2>4, <2>5
<1> QED BY <1>1, <1>2

-----------------------------------------------------------------------------
(* The loops over a string.                                                  *)

\* What is left of a document is a number.
LEMMA LeftIsNat == ASSUME NEW l, Within(l) PROVE Left(l) \in Nat
  BY WithinTypes DEF Left

UndecorateTurn(acc) == Undecorate(acc.ls, TRUE)
Undecorating == INSTANCE LoopProofs WITH Step <- UndecorateTurn

StringPartTurn(acc) ==
  IF HasRoom(acc.ls) THEN Undecorate(acc.ls, TRUE) ELSE [acc EXCEPT !.ok = FALSE]
StringParting == INSTANCE LoopProofs WITH Step <- StringPartTurn

\* The loop that captures a string: it ends paused, at the quote, at the end, or
\* with the buffer full.
LEMMA UndecorateAllKeeps ==
  ASSUME NEW l, Within(l), Calm(l), NEW n, n = UndecorateAll(l)
  PROVE  Onward(l, n) /\ Paused(n)
<1> DEFINE S == {a \in [ok : BOOLEAN, ls : SourcesOf(l.in), cp : Symbols(l.in)] :
                   Onward(l, a.ls) /\ Paused(a.ls)}
           start == [ok |-> TRUE, ls |-> l, cp |-> NUL]
<1>1. start \in S
  <2>1. NUL \in Symbols(l.in) /\ l \in SourcesOf(l.in)
    BY WithinTypes DEF Symbols
  <2> QED BY <2>1, OnwardIsOrder, PausedIs
<1>2. ASSUME NEW a \in S PROVE UndecorateTurn(a) \in S
  <2> PICK t \in BOOLEAN : t = TRUE
    OBVIOUS
  <2>1. PICK u : u = Undecorate(a.ls, TRUE)
    OBVIOUS
  <2>2. Within(a.ls) /\ a.ls.in = l.in /\ a.ls.state # Initial
    BY DEF Onward, Paused
  <2>3. Undecorated(a.ls, u, t)
    BY <2>1, <2>2, UndecorateKeeps, Zenon
  <2>4. Onward(l, u.ls) /\ Paused(u.ls) /\ u.ls \in SourcesOf(l.in)
    <3>1. Onward(l, u.ls) /\ Paused(u.ls)
      BY <2>3, OnwardIsOrder DEF Undecorated
    <3>2. Within(u.ls) /\ u.ls.in = l.in
      BY <3>1 DEF Onward
    <3> QED BY <3>1, <3>2, WithinTypes
  <2>5. u \in [ok : BOOLEAN, ls : {u.ls}, cp : Symbols(l.in)]
    BY <2>2, <2>3 DEF Undecorated
  <2>6. u \in S
    BY <2>4, <2>5
  <2> QED BY <2>1, <2>6 DEF UndecorateTurn
<1>3. Left(l) \in Nat
  BY LeftIsNat
<1> HIDE DEF S, start
<1>4. Undecorating!WhileOk(UndecorateTurn, start, Left(l)) \in S
  BY <1>1, <1>2, <1>3, Undecorating!LoopStays
<1>5. n = Undecorating!WhileOk(UndecorateTurn, start, Left(l)).ls
  BY DEF UndecorateAll, WhileOk, Repeat, Undecorating!WhileOk, Undecorating!Repeat, UndecorateTurn, start
<1> QED BY <1>4, <1>5 DEF S

\* A chunk of a string: what has been captured has been passed.
LEMMA StringPartKeeps ==
  ASSUME NEW l, Within(l), l.state # Initial, l.captured = << >>, NEW n, n = StringPart(l)
  PROVE  Onward(l, n) /\ (n.captured = << >> \/ Ahead(l, n))
<1> DEFINE S == {a \in [ok : BOOLEAN, ls : SourcesOf(l.in), cp : Symbols(l.in)] :
                   Onward(l, a.ls) /\ (a.ls.captured = << >> \/ Ahead(l, a.ls))}
           start == [ok |-> TRUE, ls |-> l, cp |-> NUL]
<1>1. start \in S
  <2>1. NUL \in Symbols(l.in) /\ l \in SourcesOf(l.in)
    BY WithinTypes DEF Symbols
  <2> QED BY <2>1, OnwardIsOrder
<1>2. ASSUME NEW a \in S PROVE StringPartTurn(a) \in S
  <2>1. CASE HasRoom(a.ls)
    <3> PICK t \in BOOLEAN : t = TRUE
      OBVIOUS
    <3>1. PICK u : u = Undecorate(a.ls, TRUE)
      OBVIOUS
    <3>2. Within(a.ls) /\ a.ls.in = l.in /\ a.ls.state # Initial
      BY DEF Onward
    <3>3. Undecorated(a.ls, u, t)
      BY <3>1, <3>2, UndecorateKeeps, Zenon
    <3>4. Onward(l, u.ls) /\ (u.ls.captured = << >> \/ Ahead(l, u.ls))
      BY <3>3, OnwardIsOrder DEF Undecorated
    <3>5. u.ls \in SourcesOf(l.in)
      <4>1. Within(u.ls) /\ u.ls.in = l.in
        BY <3>4 DEF Onward
      <4> QED BY <4>1, WithinTypes
    <3>6. u \in [ok : BOOLEAN, ls : {u.ls}, cp : Symbols(l.in)]
      BY <3>2, <3>3 DEF Undecorated
    <3>7. u \in S
      BY <3>4, <3>5, <3>6
    <3> QED BY <2>1, <3>1, <3>7 DEF StringPartTurn
  <2>2. CASE ~HasRoom(a.ls)
    <3>1. [a EXCEPT !.ok = FALSE] \in S
      OBVIOUS
    <3> QED BY <2>2, <3>1 DEF StringPartTurn
  <2> QED BY <2>1, <2>2
<1>3. Left(l) \in Nat
  BY LeftIsNat
<1> HIDE DEF S, start
<1>4. StringParting!WhileOk(StringPartTurn, start, Left(l)) \in S
  BY <1>1, <1>2, <1>3, StringParting!LoopStays
<1>5. n = StringParting!WhileOk(StringPartTurn, start, Left(l)).ls
  BY DEF StringPart, WhileOk, Repeat, StringParting!WhileOk, StringParting!Repeat, StringPartTurn, start
<1> QED BY <1>4, <1>5 DEF S

-----------------------------------------------------------------------------
(* recoverValue's loop, which advances at least once.                        *)

RecoverTurn(acc) == Recovering(Advance(acc.ls))
RecoveringFrom == INSTANCE LoopProofs WITH Step <- RecoverTurn
RecoverySource(l) ==
  WhileOk(LAMBDA acc : Recovering(Advance(acc.ls)), Answer(TRUE, l), Left(l)).ls

\* The search with which error() recovers.
LEMMA RecoveryKeeps ==
  ASSUME NEW l, Within(l), NEW n, n = RecoverySource(l)
  PROVE  Onward(l, n) /\ Calm(n)
<1> DEFINE S == {a \in [ok : BOOLEAN, ls : SourcesOf(l.in)] : Onward(l, a.ls) /\ Calm(a.ls)}
           start == Answer(TRUE, l)
<1>1. ASSUME NEW a, Onward(l, a.ls) PROVE RecoverTurn(a) \in S
  <2>1. PICK m : m = Advance(a.ls)
    OBVIOUS
  <2>2. Within(a.ls) /\ a.ls.in = l.in
    BY <1>1 DEF Onward
  <2>3. Onward(a.ls, m) /\ Calm(m)
    BY <2>1, <2>2, AdvanceIsOnward
  <2>4. Onward(l, m)
    BY <1>1, <2>3, OnwardIsOrder
  <2>5. Within(m) /\ m.in = l.in
    BY <2>4 DEF Onward
  <2>6. m \in SourcesOf(l.in)
    BY <2>5, WithinTypes
  <2>7. PICK o \in BOOLEAN : o = (More(m) /\ m.current \notin Closers)
    OBVIOUS
  <2>8. RecoverTurn(a) = [ok |-> o, ls |-> m]
    BY <2>1, <2>7 DEF RecoverTurn, Recovering, Answer
  <2> QED BY <2>3, <2>4, <2>6, <2>8
<1>2. start.ok /\ RecoverTurn(start) \in S
  <2>1. start.ok = TRUE /\ start.ls = l
    BY AnswerIs
  <2>2. Onward(l, start.ls)
    BY <2>1, OnwardIsOrder
  <2> HIDE DEF S, start
  <2> QED BY <1>1, <2>1, <2>2
<1>3. \A a \in S : RecoverTurn(a) \in S
  <2>1. \A a \in S : Onward(l, a.ls)
    OBVIOUS
  <2> HIDE DEF S
  <2> QED BY <1>1, <2>1
<1>4. Left(l) \in Nat
  BY LeftIsNat
<1> HIDE DEF S, start
<1>5. RecoveringFrom!WhileOk(RecoverTurn, start, Left(l)) \in S
  BY <1>2, <1>3, <1>4, RecoveringFrom!LoopGoesRound
<1>6. n = RecoveringFrom!WhileOk(RecoverTurn, start, Left(l)).ls
  BY DEF RecoverySource, WhileOk, Repeat, RecoveringFrom!WhileOk, RecoveringFrom!Repeat,
         RecoverTurn, start
<1> QED BY <1>5, <1>6 DEF S

-----------------------------------------------------------------------------
(* The automata of numbers and literals.                                     *)

LexFields(st) ==
  st.state \in 0 .. 13 /\ st.accept \in 0 .. 3 /\ st.fracPart \in 0 .. 3
    /\ st.eCount \in 0 .. 2 ^ 16 - 1 /\ st.integer \in Int

\* Setting a field of the lexer state gives a lexer state.
LEMMA LexStateSet ==
  ASSUME NEW st \in LexStates
  PROVE  /\ LexFields(st)
         /\ \A q \in 0 .. 13 : [st EXCEPT !.state = q] \in LexStates
         /\ \A a \in 0 .. 3 : [st EXCEPT !.accept = a] \in LexStates
         /\ \A f \in 0 .. 3 : [st EXCEPT !.fracPart = f] \in LexStates
         /\ \A e \in 0 .. 2 ^ 16 - 1 : [st EXCEPT !.eCount = e] \in LexStates
         /\ \A i \in Int : [st EXCEPT !.integer = i] \in LexStates
  BY DEF LexStates, LexFields

\* A digit is worth 0 to 9.
LEMMA DigitsHaveValues == \A c \in Digit : DigitValue[c] \in 0 .. 9
<1> SUFFICES ASSUME NEW c \in Digit PROVE DigitValue[c] \in 0 .. 9
  OBVIOUS
<1>1. \E n \in 0 .. 9 : Digits[n + 1] = c
  <2>1. c \in {"0", "1", "2", "3", "4", "5", "6", "7", "8", "9"}
    BY DEF Digit, Nonzero
  <2>2. /\ Digits[0 + 1] = "0" /\ Digits[1 + 1] = "1" /\ Digits[2 + 1] = "2"
        /\ Digits[3 + 1] = "3" /\ Digits[4 + 1] = "4" /\ Digits[5 + 1] = "5"
        /\ Digits[6 + 1] = "6" /\ Digits[7 + 1] = "7" /\ Digits[8 + 1] = "8"
        /\ Digits[9 + 1] = "9"
    BY DEF Digits
  <2> QED BY <2>1, <2>2
<1>2. DigitValue[c] = CHOOSE n \in 0 .. 9 : Digits[n + 1] = c
  BY DEF DigitValue
<1> QED BY <1>1, <1>2

\* Neither automaton has a move on the end of the input.
LEMMA NumberMoves ==
  ASSUME NEW q, NEW c
  PROVE  /\ NumberMove(q, c) \in {Stuck} \cup 1 .. 8
         /\ NumberMove(q, NUL) = Stuck
         /\ NumberAccept(q) \in 0 .. 3
         /\ NumberMove(q, c) \in {7, 8} => c \in Digit
         /\ c \in {"-"} \cup Digit => NumberMove(0, c) # Stuck
<1>1. NumberMove(q, c) \in {Stuck, 1, 2, 3, 4, 5, 6, 7, 8}
  BY Zenon DEF NumberMove
<1>2. NUL # "-" /\ NUL # "0" /\ NUL \notin Nonzero /\ NUL # "." /\ NUL \notin Exponent
      /\ NUL \notin Digit /\ NUL \notin {"+", "-"}
  BY DEF NUL, Nonzero, Exponent, Digit
<1>3. NumberMove(q, NUL) = Stuck
  BY <1>2, Zenon DEF NumberMove
<1>4. NumberAccept(q) \in {0, 1, 2}
  BY Zenon DEF NumberAccept
<1>5. ASSUME NumberMove(q, c) \in {7, 8} PROVE c \in Digit
  <2>1. Nonzero \subseteq Digit
    BY DEF Digit
  <2>2. 7 # Stuck /\ 8 # Stuck /\ 7 \notin {1, 2, 3, 4, 5, 6} /\ 8 \notin {1, 2, 3, 4, 5, 6}
    BY DEF Stuck
  <2> QED BY <1>5, <2>1, <2>2, Zenon DEF NumberMove
<1>6. ASSUME c \in {"-"} \cup Digit PROVE NumberMove(0, c) # Stuck
  <2>1. c = "-" \/ c = "0" \/ c \in Nonzero
    BY <1>6 DEF Digit
  <2>2. 1 # Stuck /\ 2 # Stuck /\ 8 # Stuck /\ 0 \in {0, 1}
    BY DEF Stuck
  <2>3. /\ 0 \notin {2, 8} /\ 0 \notin {2, 4, 8} /\ 0 \notin {3, 4} /\ 0 # 5
        /\ 0 \notin {5, 6, 7} /\ 0 # 8
    OBVIOUS
  <2> QED BY <2>1, <2>2, <2>3, Zenon DEF NumberMove
<1> QED BY <1>1, <1>3, <1>4, <1>5, <1>6

\* The literal lexer's table.
LEMMA LiteralMoves ==
  ASSUME NEW q, NEW c
  PROVE  /\ LiteralMove(q, c) \in {Stuck} \cup 1 .. 13
         /\ LiteralMove(q, NUL) = Stuck
         /\ LiteralAccept(q) \in 0 .. 3
         /\ c \in {"t", "f", "n"} => LiteralMove(0, c) # Stuck
<1>1. \A e \in LiteralEdges : e[3] \in 1 .. 13 /\ e[2] # NUL
  BY DEF LiteralEdges, NUL
<1>2. ASSUME NEW p, NEW d PROVE LiteralMove(p, d) \in {Stuck} \cup 1 .. 13
  <2>1. CASE \E e \in LiteralEdges : e[1] = p /\ e[2] = d
    <3>1. PICK e : e = CHOOSE x \in LiteralEdges : x[1] = p /\ x[2] = d
      OBVIOUS
    <3>2. e \in LiteralEdges /\ LiteralMove(p, d) = e[3]
      BY <2>1, <3>1 DEF LiteralMove
    <3> QED BY <1>1, <3>2
  <2>2. CASE ~ \E e \in LiteralEdges : e[1] = p /\ e[2] = d
    BY <2>2 DEF LiteralMove
  <2> QED BY <2>1, <2>2
<1>3. LiteralMove(q, NUL) = Stuck
  BY <1>1 DEF LiteralMove
<1>4. LiteralAccept(q) \in {0, 1, 2, 3}
  BY Zenon DEF LiteralAccept
<1>5. ASSUME c \in {"t", "f", "n"} PROVE LiteralMove(0, c) # Stuck
  <2>1. <<0, "t", 5>> \in LiteralEdges /\ <<0, "f", 9>> \in LiteralEdges
        /\ <<0, "n", 1>> \in LiteralEdges
    BY DEF LiteralEdges
  <2>2. \E e \in LiteralEdges : e[1] = 0 /\ e[2] = c
    BY <1>5, <2>1
  <2>3. PICK e : e = CHOOSE x \in LiteralEdges : x[1] = 0 /\ x[2] = c
    OBVIOUS
  <2>4. e \in LiteralEdges /\ LiteralMove(0, c) = e[3]
    BY <2>2, <2>3 DEF LiteralMove
  <2> QED BY <1>1, <2>4 DEF Stuck
<1> QED BY <1>2, <1>3, <1>4, <1>5

\* What the number lexer makes of a character gives a lexer state.
LEMMA NumberSeenIsLexState ==
  ASSUME NEW st \in LexStates, NEW c, NEW q, q = NumberMove(st.state, c)
  PROVE  NumberSeen(st, c, q) \in LexStates
<1>1. q \in {7, 8} => DigitValue[c] \in 0 .. 9
  BY NumberMoves, DigitsHaveValues
<1>2. LexFields(st)
  BY LexStateSet
<1>3. ASSUME q = 8 PROVE WithDigit(st, c) \in LexStates
  <2>1. PICK i : i = 10 * st.integer + (IF Negative(st) THEN -1 ELSE 1) * DigitValue[c]
    OBVIOUS
  <2>2. i \in Int
    <3>1. DigitValue[c] \in Int /\ st.integer \in Int
      BY <1>1, <1>2, <1>3 DEF LexFields
    <3>2. PICK d \in Int : d = DigitValue[c]
      BY <3>1
    <3> QED BY <2>1, <3>1, <3>2
  <2>3. WithDigit(st, c) = [st EXCEPT !.integer = i]
    BY <2>1 DEF WithDigit
  <2> QED BY <2>2, <2>3, LexStateSet
<1>4. ASSUME q = 7 PROVE [st EXCEPT !.eCount = (10 * @ + DigitValue[c]) % 2 ^ 16] \in LexStates
  <2>1. PICK e : e = (10 * st.eCount + DigitValue[c]) % 2 ^ 16
    OBVIOUS
  <2>2. e \in 0 .. 2 ^ 16 - 1
    <3>1. DigitValue[c] \in Nat /\ st.eCount \in Nat
      BY <1>1, <1>2, <1>4 DEF LexFields
    <3>2. PICK d \in Nat : d = 10 * st.eCount + DigitValue[c]
      BY <3>1
    <3>3. d % 2 ^ 16 \in 0 .. 2 ^ 16 - 1
      OBVIOUS
    <3> QED BY <2>1, <3>2, <3>3
  <2>3. [st EXCEPT !.eCount = (10 * @ + DigitValue[c]) % 2 ^ 16] = [st EXCEPT !.eCount = e]
    BY <2>1
  <2> QED BY <2>2, <2>3, LexStateSet
<1>5. {1, 2, 3} \subseteq 0 .. 3
  OBVIOUS
<1>6. NumberSeen(st, c, q) \in
        {st, [st EXCEPT !.fracPart = 1], [st EXCEPT !.fracPart = 2], [st EXCEPT !.fracPart = 3]}
      \/ (q = 8 /\ NumberSeen(st, c, q) = WithDigit(st, c))
      \/ (q = 7 /\ NumberSeen(st, c, q) = [st EXCEPT !.eCount = (10 * @ + DigitValue[c]) % 2 ^ 16])
  <2>1. CASE q = 8
    <3>1. q # 3 /\ q # 5 /\ q # 6 /\ q # 7
      BY <2>1
    <3> QED BY <2>1, <3>1, Zenon DEF NumberSeen
  <2>2. CASE q = 7
    <3>1. q # 8 /\ q # 3 /\ q # 5 /\ q # 6
      BY <2>2
    <3> QED BY <2>2, <3>1, Zenon DEF NumberSeen
  <2>3. CASE q = 3
    <3>1. q # 8 /\ q # 5 /\ q # 6 /\ q # 7
      BY <2>3
    <3> QED BY <2>3, <3>1, Zenon DEF NumberSeen
  <2>4. CASE q = 5
    <3>1. q # 8 /\ q # 3 /\ q # 6 /\ q # 7
      BY <2>4
    <3> QED BY <2>4, <3>1, Zenon DEF NumberSeen
  <2>5. CASE q = 6
    <3>1. q # 8 /\ q # 3 /\ q # 5 /\ q # 7
      BY <2>5
    <3> QED BY <2>5, <3>1, Zenon DEF NumberSeen
  <2>6. CASE q \notin {3, 5, 6, 7, 8}
    BY <2>6, Zenon DEF NumberSeen
  <2> QED BY <2>1, <2>2, <2>3, <2>4, <2>5, <2>6
<1>7. {[st EXCEPT !.fracPart = 1], [st EXCEPT !.fracPart = 2], [st EXCEPT !.fracPart = 3]}
        \subseteq LexStates
  BY <1>5, LexStateSet
<1> QED BY <1>3, <1>4, <1>6, <1>7

\* One call of either automaton, given its move, what the state before it
\* accepts, and the lex state with the character seen.
LexCall(l, st, q, accept, seen) ==
  LET past == Advance(Capture(l, l.current))
  IN  IF More(l) /\ q # Stuck /\ HasRoom(l)
        THEN IF HasSourceError(past) THEN [ok |-> FALSE, ls |-> past, st |-> seen]
             ELSE [ok |-> TRUE, ls |-> past, st |-> [seen EXCEPT !.state = q]]
      ELSE IF ~(More(l) /\ q # Stuck) /\ accept # 0
        THEN [ok |-> FALSE, ls |-> l, st |-> [st EXCEPT !.accept = accept]]
      ELSE [ok |-> FALSE, ls |-> Capture(l, l.current), st |-> st]

\* It gets further when it goes on, and runs out of room only if there was none.
Lexing(l, u) ==
  /\ Onward(l, u.ls)
  /\ u \in [ok : BOOLEAN, ls : {u.ls}, st : LexStates]
  /\ u.ok => Calm(u.ls) /\ Ahead(l, u.ls)
  /\ u.ls.state = OutOfMemory => l.state = OutOfMemory \/ ~HasRoom(l)
  /\ Eof(u.ls) => u.ls.current = NUL
  /\ Paused(l) => Paused(u.ls)

\* A lexer's answer is its parts.
LEMMA LexedOf ==
  ASSUME NEW n, NEW s \in LexStates, NEW o \in BOOLEAN, NEW u, u = [ok |-> o, ls |-> n, st |-> s]
  PROVE  u.ls = n /\ u.ok = o /\ u \in [ok : BOOLEAN, ls : {n}, st : LexStates]
  OBVIOUS

\* One call of a lexer: with room and a move to make, it gets ahead.
LEMMA LexCallKeeps ==
  ASSUME NEW l, Within(l), l.state # Initial, Eof(l) => l.current = NUL, NEW st \in LexStates,
         NEW q \in {Stuck} \cup 0 .. 13, NEW accept \in 0 .. 3, NEW seen \in LexStates,
         q # Stuck => l.current # NUL, NEW u, u = LexCall(l, st, q, accept, seen)
  PROVE  /\ Lexing(l, u)
         /\ More(l) /\ q # Stuck /\ HasRoom(l) => Ahead(l, u.ls)
<1>1. PICK n : n = Capture(l, l.current)
  OBVIOUS
<1>2. /\ Within(n) /\ Onward(l, n) /\ n.at = l.at /\ n.current = l.current /\ Cur(n) = Cur(l)
      /\ HasRoom(l) => n.state = l.state
      /\ ~HasRoom(l) => n.state = OutOfMemory
  BY <1>1, WithinTypes, CaptureKeeps, CaptureIsOnward
<1>3. TRUE \in BOOLEAN /\ FALSE \in BOOLEAN
  OBVIOUS
<1>4. CASE More(l) /\ q # Stuck /\ HasRoom(l)
  <2>1. PICK past : past = Advance(n)
    OBVIOUS
  <2>2. Onward(n, past) /\ Calm(past) /\ (Cur(n) = n.at => Ahead(n, past))
    BY <1>2, <2>1, AdvanceIsOnward
  <2>3. Cur(l) = l.at
    BY <1>4, MoreIsOk, OkIsCalm
  <2>4. Onward(l, past) /\ Ahead(l, past)
    BY <1>2, <2>2, <2>3, OnwardIsOrder
  <2>5. [seen EXCEPT !.state = q] \in LexStates
    BY <1>4, LexStateSet
  <2>6. u.ls = past /\ u \in [ok : BOOLEAN, ls : {past}, st : LexStates]
    <3>1. CASE HasSourceError(past)
      <4>1. u = [ok |-> FALSE, ls |-> past, st |-> seen]
        BY <1>1, <1>4, <2>1, <3>1 DEF LexCall
      <4> QED BY <1>3, <4>1, LexedOf
    <3>2. CASE ~HasSourceError(past)
      <4>1. PICK s \in LexStates : s = [seen EXCEPT !.state = q]
        BY <2>5
      <4>2. u = [ok |-> TRUE, ls |-> past, st |-> s]
        BY <1>1, <1>4, <2>1, <3>2, <4>1 DEF LexCall
      <4> QED BY <1>3, <4>2, LexedOf
    <3> QED BY <3>1, <3>2
  <2> QED BY <2>2, <2>4, <2>6 DEF Lexing, Calm, Paused, Eof
<1>5. CASE ~(More(l) /\ q # Stuck) /\ accept # 0
  <2>1. PICK s \in LexStates : s = [st EXCEPT !.accept = accept]
    BY LexStateSet
  <2>2. u = [ok |-> FALSE, ls |-> l, st |-> s]
    BY <1>5, <2>1 DEF LexCall
  <2>3. u.ls = l /\ u.ok = FALSE /\ u \in [ok : BOOLEAN, ls : {l}, st : LexStates]
    BY <1>3, <2>2, LexedOf, Zenon
  <2> QED BY <1>5, <2>3, OnwardIsOrder DEF Lexing
<1>6. CASE ~(More(l) /\ q # Stuck /\ HasRoom(l)) /\ ~(~(More(l) /\ q # Stuck) /\ accept # 0)
  <2>1. u = [ok |-> FALSE, ls |-> n, st |-> st]
    BY <1>1, <1>6 DEF LexCall
  <2>2. u.ls = n /\ u.ok = FALSE /\ u \in [ok : BOOLEAN, ls : {n}, st : LexStates]
    BY <1>3, <2>1, LexedOf, Zenon
  <2>3. /\ n.state = OutOfMemory => l.state = OutOfMemory \/ ~HasRoom(l)
        /\ Eof(n) => n.current = NUL
        /\ Paused(l) => Paused(n)
    BY <1>2 DEF Eof, Paused, OutOfMemory, EndOfInput, Ok, Initial
  <2> QED BY <1>2, <1>6, <2>2, <2>3 DEF Lexing
<1> QED BY <1>4, <1>5, <1>6

NumberTurn(acc) == LexNumber(acc.ls, acc.st)
LiteralTurn(acc) == LexLiteral(acc.ls, acc.st)

\* The automaton of a number before its first character.
LEMMA NoNumberIs ==
  ASSUME NEW st \in LexStates
  PROVE  NoNumber(st) \in LexStates /\ NoNumber(st).state = st.state /\ NoNumber(st).accept = 0
<1>1. 0 \in 0 .. 3 /\ 0 \in 0 .. 2 ^ 16 - 1 /\ 0 \in Int
  OBVIOUS
<1>2. PICK s \in LexStates : s = [st EXCEPT !.accept = 0]
  BY <1>1, LexStateSet
<1>3. PICK t \in LexStates : t = [s EXCEPT !.fracPart = 0]
  BY <1>1, LexStateSet
<1>4. PICK v \in LexStates : v = [t EXCEPT !.eCount = 0]
  BY <1>1, LexStateSet
<1>5. PICK w \in LexStates : w = [v EXCEPT !.integer = 0]
  BY <1>1, LexStateSet
<1>6. w = NoNumber(st)
  BY <1>2, <1>3, <1>4, <1>5, Zenon DEF NoNumber
<1>7. w.state = st.state /\ w.accept = 0
  BY <1>2, <1>3, <1>4, <1>5 DEF LexStates
<1> QED BY <1>6, <1>7

\* One turn of the number lexer.
LEMMA NumberTurnKeeps ==
  ASSUME NEW a, Within(a.ls), a.ls.state # Initial, Eof(a.ls) => a.ls.current = NUL,
         a.st \in LexStates, NEW u, u = NumberTurn(a)
  PROVE  /\ Lexing(a.ls, u)
         /\ a.ls.state = Ok /\ a.st.state = 0 /\ HasRoom(a.ls) /\ a.ls.current \in {"-"} \cup Digit
              => Ahead(a.ls, u.ls)
<1>1. PICK st : st = IF a.st.state = 0 THEN NoNumber(a.st) ELSE a.st
  OBVIOUS
<1>2. st \in LexStates /\ (a.st.state = 0 => st.state = 0)
  BY <1>1, NoNumberIs
<1>3. PICK q : q = NumberMove(st.state, a.ls.current)
  OBVIOUS
<1>4. PICK seen : seen = NumberSeen(st, a.ls.current, q)
  OBVIOUS
<1>5. PICK accept : accept = NumberAccept(st.state)
  OBVIOUS
<1>6. u = LexCall(a.ls, st, q, accept, seen)
  BY <1>1, <1>3, <1>4, <1>5 DEF NumberTurn, LexNumber, Lex, LexCall
<1>7. q \in {Stuck} \cup 0 .. 13 /\ (q # Stuck => a.ls.current # NUL) /\ accept \in 0 .. 3
  <2>1. q \in {Stuck} \cup 1 .. 8
    BY <1>3, NumberMoves
  <2>2. q # Stuck => a.ls.current # NUL
    BY <1>3, NumberMoves
  <2>3. accept \in 0 .. 3
    BY <1>5, NumberMoves
  <2> QED BY <2>1, <2>2, <2>3
<1>8. seen \in LexStates
  BY <1>2, <1>3, <1>4, NumberSeenIsLexState
<1>9. a.ls.current \in {"-"} \cup Digit /\ st.state = 0 => q # Stuck
  BY <1>3, NumberMoves
<1>10. Lexing(a.ls, u) /\ (More(a.ls) /\ q # Stuck /\ HasRoom(a.ls) => Ahead(a.ls, u.ls))
  BY <1>2, <1>6, <1>7, <1>8, LexCallKeeps
<1> QED BY <1>2, <1>9, <1>10, MoreIsOk

\* One turn of the literal lexer.
LEMMA LiteralTurnKeeps ==
  ASSUME NEW a, Within(a.ls), a.ls.state # Initial, Eof(a.ls) => a.ls.current = NUL,
         a.st \in LexStates, NEW u, u = LiteralTurn(a)
  PROVE  /\ Lexing(a.ls, u)
         /\ a.ls.state = Ok /\ a.st.state = 0 /\ HasRoom(a.ls) /\ a.ls.current \in {"t", "f", "n"}
              => Ahead(a.ls, u.ls)
<1>1. PICK q : q = LiteralMove(a.st.state, a.ls.current)
  OBVIOUS
<1>2. PICK accept : accept = LiteralAccept(a.st.state)
  OBVIOUS
<1>3. u = LexCall(a.ls, a.st, q, accept, a.st)
  BY <1>1, <1>2 DEF LiteralTurn, LexLiteral, Lex, LiteralSeen, LexCall
<1>4. q \in {Stuck} \cup 0 .. 13 /\ (q # Stuck => a.ls.current # NUL) /\ accept \in 0 .. 3
  <2>1. q \in {Stuck} \cup 1 .. 13
    BY <1>1, LiteralMoves
  <2>2. q # Stuck => a.ls.current # NUL
    BY <1>1, LiteralMoves
  <2>3. accept \in 0 .. 3
    BY <1>2, LiteralMoves
  <2> QED BY <2>1, <2>2, <2>3
<1>5. a.ls.current \in {"t", "f", "n"} /\ a.st.state = 0 => q # Stuck
  BY <1>1, LiteralMoves
<1>6. Lexing(a.ls, u) /\ (More(a.ls) /\ q # Stuck /\ HasRoom(a.ls) => Ahead(a.ls, u.ls))
  BY <1>3, <1>4, LexCallKeeps
<1> QED BY <1>5, <1>6, MoreIsOk

\* The runs of an automaton from a source that has just been cleared: what has
\* been captured has been passed, and there was something if there is no room.
Runs(l) ==
  {a \in [ok : BOOLEAN, ls : SourcesOf(l.in), st : LexStates] :
     /\ Onward(l, a.ls)
     /\ Eof(a.ls) => a.ls.current = NUL
     /\ a.ok => a.ls.state # OutOfMemory /\ (a.ls.captured = << >> \/ Ahead(l, a.ls))
     /\ a.ls.state = OutOfMemory => Ahead(l, a.ls)
     /\ Paused(l) => Paused(a.ls)}

\* An empty buffer has room for any character: that is what CaptureCapacity >= 4
\* gives, and why a value however long goes on in parts.
LEMMA EmptyHasRoom == \A l : l.captured = << >> => HasRoom(l)
  BY CaptureCapacityAssumption DEF HasRoom

\* A run takes another turn.
LEMMA RunGoesOn ==
  ASSUME NEW l, Within(l), l.state # Initial, NEW a \in Runs(l), a.ok, NEW u, Lexing(a.ls, u)
  PROVE  u \in Runs(l) /\ (Ahead(l, a.ls) \/ Ahead(a.ls, u.ls) => Ahead(l, u.ls))
<1>1. /\ Onward(l, a.ls) /\ a.ls.state # OutOfMemory /\ (a.ls.captured = << >> \/ Ahead(l, a.ls))
      /\ Paused(l) => Paused(a.ls)
  BY DEF Runs
<1>2. /\ Onward(a.ls, u.ls)
      /\ u \in [ok : BOOLEAN, ls : {u.ls}, st : LexStates]
      /\ u.ok => Calm(u.ls) /\ Ahead(a.ls, u.ls)
      /\ u.ls.state = OutOfMemory => ~HasRoom(a.ls)
      /\ Eof(u.ls) => u.ls.current = NUL
      /\ Paused(a.ls) => Paused(u.ls)
  BY <1>1 DEF Lexing
<1>3. Onward(l, u.ls) /\ (Ahead(l, a.ls) \/ Ahead(a.ls, u.ls) => Ahead(l, u.ls))
  BY <1>1, <1>2, OnwardIsOrder
<1>4. Within(u.ls) /\ u.ls.in = l.in
  BY <1>3 DEF Onward
<1>5. u.ls \in SourcesOf(l.in)
  BY <1>4, WithinTypes
<1>6. u.ls.state = OutOfMemory => Ahead(l, u.ls)
  BY <1>1, <1>2, <1>3, EmptyHasRoom
<1>7. u.ok => u.ls.state # OutOfMemory /\ Ahead(l, u.ls)
  BY <1>2, <1>3 DEF Calm
<1>8. u \in [ok : BOOLEAN, ls : SourcesOf(l.in), st : LexStates]
  BY <1>2, <1>5
<1> QED BY <1>1, <1>2, <1>3, <1>6, <1>7, <1>8 DEF Runs

\* A run begins where the source is.
LEMMA RunBegins ==
  ASSUME NEW l, Within(l), l.state = Ok, l.captured = << >>, NEW st \in LexStates,
         NEW a, a = [ok |-> TRUE, ls |-> l, st |-> st]
  PROVE  a \in Runs(l) /\ a.ok /\ a.ls = l /\ a.st = st
<1>1. l \in SourcesOf(l.in) /\ Onward(l, l)
  BY WithinTypes, OnwardIsOrder
<1>2. a \in [ok : BOOLEAN, ls : SourcesOf(l.in), st : LexStates] /\ a.ls = l /\ a.ok = TRUE
      /\ a.st = st
  BY <1>1
<1> QED BY <1>1, <1>2 DEF Runs, Ok, OutOfMemory, Eof, EndOfInput

NumberRunning == INSTANCE LoopProofs WITH Step <- NumberTurn
LiteralRunning == INSTANCE LoopProofs WITH Step <- LiteralTurn

\* What every turn of a run may assume of its source.
LEMMA RunIsSound ==
  ASSUME NEW l, Within(l), l.state # Initial, NEW a \in Runs(l)
  PROVE  Within(a.ls) /\ a.ls.state # Initial /\ (Eof(a.ls) => a.ls.current = NUL) /\ a.st \in LexStates
  BY DEF Runs, Onward

\* A whole run of the number lexer.
LEMMA NumberRun ==
  ASSUME NEW l, Within(l), l.state = Ok, l.captured = << >>, NEW st \in LexStates,
         NEW run, run = LexAll(LexNumber, l, st)
  PROVE  /\ run \in Runs(l)
         /\ st.state = 0 /\ l.current \in {"-"} \cup Digit => Ahead(l, run.ls)
<1> DEFINE start == [ok |-> TRUE, ls |-> l, st |-> st]
           Ran == {a \in Runs(l) : Ahead(l, a.ls)}
<1>1. start \in Runs(l) /\ start.ok /\ start.ls = l /\ start.st = st
  BY RunBegins
<1>2. l.state # Initial
  BY DEF Ok, Initial
<1>3. ASSUME NEW a \in Runs(l), a.ok
      PROVE  /\ NumberTurn(a) \in Runs(l)
             /\ Ahead(l, a.ls) => Ahead(l, NumberTurn(a).ls)
             /\ a.ls = l /\ a.st.state = 0 /\ l.current \in {"-"} \cup Digit
                  => Ahead(l, NumberTurn(a).ls)
  <2>1. PICK u : u = NumberTurn(a)
    OBVIOUS
  <2>2. Lexing(a.ls, u) /\ (a.ls.state = Ok /\ a.st.state = 0 /\ HasRoom(a.ls)
                              /\ a.ls.current \in {"-"} \cup Digit => Ahead(a.ls, u.ls))
    BY <1>2, <2>1, RunIsSound, NumberTurnKeeps
  <2>3. u \in Runs(l) /\ (Ahead(l, a.ls) \/ Ahead(a.ls, u.ls) => Ahead(l, u.ls))
    BY <1>2, <1>3, <2>2, RunGoesOn
  <2> QED BY <2>1, <2>2, <2>3, EmptyHasRoom
<1>4. Left(l) \in Nat
  BY LeftIsNat
<1> HIDE DEF start
<1>5. NumberRunning!WhileOk(NumberTurn, start, Left(l)) \in Runs(l)
  BY <1>1, <1>3, <1>4, NumberRunning!LoopStays
<1>6. ASSUME st.state = 0, l.current \in {"-"} \cup Digit
      PROVE  NumberRunning!WhileOk(NumberTurn, start, Left(l)) \in Ran
  <2>1. NumberTurn(start) \in Ran
    BY <1>1, <1>3, <1>6
  <2>2. \A a \in Ran : a.ok => NumberTurn(a) \in Ran
    BY <1>3
  <2> HIDE DEF Ran
  <2> QED BY <1>1, <1>4, <2>1, <2>2, NumberRunning!LoopGoesRound
<1>7. run = NumberRunning!WhileOk(NumberTurn, start, Left(l))
  BY DEF LexAll, WhileOk, Repeat, NumberRunning!WhileOk, NumberRunning!Repeat, NumberTurn, start
<1> QED BY <1>5, <1>6, <1>7

\* A whole run of the literal lexer.
LEMMA LiteralRun ==
  ASSUME NEW l, Within(l), l.state = Ok, l.captured = << >>, NEW st \in LexStates,
         NEW run, run = LexAll(LexLiteral, l, st)
  PROVE  /\ run \in Runs(l)
         /\ st.state = 0 /\ l.current \in {"t", "f", "n"} => Ahead(l, run.ls)
<1> DEFINE start == [ok |-> TRUE, ls |-> l, st |-> st]
           Ran == {a \in Runs(l) : Ahead(l, a.ls)}
<1>1. start \in Runs(l) /\ start.ok /\ start.ls = l /\ start.st = st
  BY RunBegins
<1>2. l.state # Initial
  BY DEF Ok, Initial
<1>3. ASSUME NEW a \in Runs(l), a.ok
      PROVE  /\ LiteralTurn(a) \in Runs(l)
             /\ Ahead(l, a.ls) => Ahead(l, LiteralTurn(a).ls)
             /\ a.ls = l /\ a.st.state = 0 /\ l.current \in {"t", "f", "n"}
                  => Ahead(l, LiteralTurn(a).ls)
  <2>1. PICK u : u = LiteralTurn(a)
    OBVIOUS
  <2>2. Lexing(a.ls, u) /\ (a.ls.state = Ok /\ a.st.state = 0 /\ HasRoom(a.ls)
                              /\ a.ls.current \in {"t", "f", "n"} => Ahead(a.ls, u.ls))
    BY <1>2, <2>1, RunIsSound, LiteralTurnKeeps
  <2>3. u \in Runs(l) /\ (Ahead(l, a.ls) \/ Ahead(a.ls, u.ls) => Ahead(l, u.ls))
    BY <1>2, <1>3, <2>2, RunGoesOn
  <2> QED BY <2>1, <2>2, <2>3, EmptyHasRoom
<1>4. Left(l) \in Nat
  BY LeftIsNat
<1> HIDE DEF start
<1>5. LiteralRunning!WhileOk(LiteralTurn, start, Left(l)) \in Runs(l)
  BY <1>1, <1>3, <1>4, LiteralRunning!LoopStays
<1>6. ASSUME st.state = 0, l.current \in {"t", "f", "n"}
      PROVE  LiteralRunning!WhileOk(LiteralTurn, start, Left(l)) \in Ran
  <2>1. LiteralTurn(start) \in Ran
    BY <1>1, <1>3, <1>6
  <2>2. \A a \in Ran : a.ok => LiteralTurn(a) \in Ran
    BY <1>3
  <2> HIDE DEF Ran
  <2> QED BY <1>1, <1>4, <2>1, <2>2, LiteralRunning!LoopGoesRound
<1>7. run = LiteralRunning!WhileOk(LiteralTurn, start, Left(l))
  BY DEF LexAll, WhileOk, Repeat, LiteralRunning!WhileOk, LiteralRunning!Repeat, LiteralTurn, start
<1> QED BY <1>5, <1>6, <1>7
=============================================================================
