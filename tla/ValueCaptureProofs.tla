-------------------------- MODULE ValueCaptureProofs --------------------------
(***************************************************************************)
(* For every set of well-formed inputs and every capture buffer that       *)
(* static_assert(TCapacity>4) admits: chunked reading loses nothing, never *)
(* overruns the buffer and never hands out an empty chunk.                 *)
(***************************************************************************)
EXTENDS ValueCapture, SequenceTheorems, TLAPS

\* A code point's bytes, by the number of them.
LEMMA EncodeByCase ==
  ASSUME NEW cp
  PROVE  /\ cp = Cp4 => Encode(cp) = <<Lead4, Cont, Cont, Cont>>
         /\ cp = Cp3 => Encode(cp) = <<Lead3, Cont, Cont>>
         /\ cp = Cp2 => Encode(cp) = <<Lead2, Cont>>
         /\ cp \notin {Cp2, Cp3, Cp4} => Encode(cp) = <<cp>>
BY DEF Encode, Cp2, Cp3, Cp4

\* A code point is one to four bytes.
LEMMA EncodeIsBytes ==
  ASSUME NEW cp \in CodePoints
  PROVE  /\ Encode(cp) \in Seq(Bytes)
         /\ Len(Encode(cp)) \in 1 .. 4
<1>1. Lead2 \in Bytes /\ Lead3 \in Bytes /\ Lead4 \in Bytes /\ Cont \in Bytes
  BY DEF Bytes, HighBytes
<1>2. CASE cp = Cp4
  <2> DEFINE t == <<Lead4, Cont, Cont, Cont>>
  <2>1. t \in Seq(Bytes)
    BY <1>1
  <2>2. Len(t) = 4
    OBVIOUS
  <2>3. Encode(cp) = t
    BY <1>2, EncodeByCase
  <2> HIDE DEF t
  <2> QED
    BY <2>1, <2>2, <2>3
<1>3. CASE cp = Cp3
  <2> DEFINE t == <<Lead3, Cont, Cont>>
  <2>1. t \in Seq(Bytes)
    BY <1>1
  <2>2. Len(t) = 3
    OBVIOUS
  <2>3. Encode(cp) = t
    BY <1>3, EncodeByCase
  <2> HIDE DEF t
  <2> QED
    BY <2>1, <2>2, <2>3
<1>4. CASE cp = Cp2
  BY <1>1, <1>4, EncodeByCase
<1>5. CASE cp \notin {Cp2, Cp3, Cp4}
  <2>1. cp \in Bytes
    BY <1>5 DEF CodePoints, Bytes
  <2> QED
    BY <1>5, <2>1, EncodeByCase
<1> QED
  BY <1>2, <1>3, <1>4, <1>5

(***************************************************************************)
(* What advanceImpl makes of the bytes at a code point boundary is what    *)
(* capture would write for it, and it stops at the next boundary.          *)
(***************************************************************************)
LEMMA CodePointIsItsBytes ==
  ASSUME NEW in \in Seq(Bytes), WellFormed(in), NEW i \in 1 .. Len(in), in[i] # Cont,
         i + Width(in[i]) - 1 <= Len(in)
  PROVE  /\ CodePoint(in[i]) \in CodePoints
         /\ Encode(CodePoint(in[i])) = SubSeq(in, i, i + Width(in[i]) - 1)
         /\ i + Width(in[i]) <= Len(in) => in[i + Width(in[i])] # Cont
<1> DEFINE w == Width(in[i])
           cp == CodePoint(in[i])
           sub == SubSeq(in, i, i + w - 1)
<1>1. /\ Len(in) \in Nat /\ i \in Nat /\ in[i] \in Bytes
      /\ \A j \in 1 .. Len(in) : in[j] = Cont <=> Covered(in, j)
  BY DEF WellFormed
<1>2. ~Covered(in, i)
  BY <1>1
<1>3. \/ in[i] = Lead4 /\ w = 4 /\ cp = Cp4
      \/ in[i] = Lead3 /\ w = 3 /\ cp = Cp3
      \/ in[i] = Lead2 /\ w = 2 /\ cp = Cp2
      \/ in[i] \notin HighBytes /\ w = 1 /\ cp = in[i]
  BY DEF Width, CodePoint, HighBytes, Lead2, Lead3, Lead4, Cont
<1>4. w \in 1 .. 4
  BY <1>3
<1>5. /\ sub \in Seq(Bytes)
      /\ Len(sub) = w
      /\ \A j \in 1 .. w : sub[j] = in[i + j - 1]
  <2>1. \A j \in i .. i + w - 1 : in[j] \in Bytes
    BY <1>1, <1>4
  <2> QED
    BY <2>1, <1>1, <1>4, SubSeqProperties
<1>6. \A j \in 2 .. w : in[i + j - 1] = Cont
  <2>1. SUFFICES ASSUME NEW j \in 2 .. w PROVE Covered(in, i + j - 1)
    BY <1>1, <1>4
  <2>2. CASE j = 2
    BY <2>2, <1>1, <1>3 DEF Covered
  <2>3. CASE j = 3
    BY <2>3, <1>1, <1>3 DEF Covered
  <2>4. CASE j = 4
    BY <2>4, <1>1, <1>3 DEF Covered
  <2> QED
    BY <2>1, <2>2, <2>3, <2>4, <1>3
<1>7. Encode(cp) = sub
  <2>1. cp \in CodePoints
    BY <1>1, <1>3 DEF Bytes, CodePoints
  <2>2. Len(Encode(cp)) = w /\ \A j \in 1 .. w : Encode(cp)[j] = in[i + j - 1]
    <3>1. CASE in[i] = Lead4
      <4>1. w = 4 /\ cp = Cp4
        BY <3>1, <1>3 DEF HighBytes, Lead2, Lead3, Lead4
      <4>2. Encode(cp) = <<Lead4, Cont, Cont, Cont>>
        BY <4>1, EncodeByCase
      <4>3. in[i + 1] = Cont /\ in[i + 2] = Cont /\ in[i + 3] = Cont
        BY <4>1, <1>6, <1>1
      <4>4. \A j \in 1 .. 4 : <<Lead4, Cont, Cont, Cont>>[j] = in[i + j - 1]
        BY <3>1, <4>3, <1>1
      <4> QED
        BY <4>1, <4>2, <4>4
    <3>2. CASE in[i] = Lead3
      <4>1. w = 3 /\ cp = Cp3
        BY <3>2, <1>3 DEF HighBytes, Lead2, Lead3, Lead4
      <4>2. Encode(cp) = <<Lead3, Cont, Cont>>
        BY <4>1, EncodeByCase
      <4>3. in[i + 1] = Cont /\ in[i + 2] = Cont
        BY <4>1, <1>6, <1>1
      <4>4. \A j \in 1 .. 3 : <<Lead3, Cont, Cont>>[j] = in[i + j - 1]
        BY <3>2, <4>3, <1>1
      <4> QED
        BY <4>1, <4>2, <4>4
    <3>3. CASE in[i] = Lead2
      <4>1. w = 2 /\ cp = Cp2
        BY <3>3, <1>3 DEF HighBytes, Lead2, Lead3, Lead4
      <4>2. Encode(cp) = <<Lead2, Cont>>
        BY <4>1, EncodeByCase
      <4>3. in[i + 1] = Cont
        BY <4>1, <1>6, <1>1
      <4>4. \A j \in 1 .. 2 : <<Lead2, Cont>>[j] = in[i + j - 1]
        BY <3>3, <4>3, <1>1
      <4> QED
        BY <4>1, <4>2, <4>4
    <3>4. CASE in[i] \notin HighBytes
      <4>1. Encode(cp) = <<in[i]>> /\ w = 1
        BY <3>4, <1>1, <1>3, EncodeByCase, AsciiAssumption
           DEF Bytes, WideCodePoints, HighBytes
      <4> QED
        BY <4>1, <1>1
    <3> QED
      BY <3>1, <3>2, <3>3, <3>4, <1>3
  <2>3. Encode(cp) \in Seq(Bytes)
    BY <2>1, EncodeIsBytes
  <2> QED
    <3>1. Len(Encode(cp)) = Len(sub) /\ \A j \in 1 .. Len(sub) : Encode(cp)[j] = sub[j]
      BY <2>2, <1>5
    <3>2. \A s, t \in Seq(Bytes) : Len(s) = Len(t) /\ (\A j \in 1 .. Len(t) : s[j] = t[j]) => s = t
      BY SeqEqual
    <3> HIDE DEF cp, sub
    <3> QED
      BY <3>1, <3>2, <2>3, <1>5
<1>8. ASSUME i + w <= Len(in) PROVE in[i + w] # Cont
  <2>1. /\ i + w - 1 > 0 => in[i + w - 1] \notin {Lead2, Lead3, Lead4}
    BY <1>3, <1>4, <1>6 DEF HighBytes, Lead2, Lead3, Lead4, Cont
  <2>2. i + w - 2 > 0 => in[i + w - 2] \notin {Lead3, Lead4}
    BY <1>2, <1>3, <1>4, <1>6, <1>1 DEF Covered, HighBytes, Lead2, Lead3, Lead4, Cont
  <2>3. i + w - 3 > 0 => in[i + w - 3] # Lead4
    BY <1>2, <1>3, <1>4, <1>6, <1>1 DEF Covered, HighBytes, Lead2, Lead3, Lead4, Cont
  <2>4. ~Covered(in, i + w)
    <3>1. i \in Nat /\ i > 0 /\ w \in Nat /\ w > 0
      BY <1>1, <1>4
    <3> HIDE DEF w
    <3>2. PICK k : k = i + w
      OBVIOUS
    <3>3. k \in Nat
      BY <3>1, <3>2
    <3>4. k > 1 => in[k - 1] \notin {Lead2, Lead3, Lead4}
      BY <2>1, <3>1, <3>2
    <3>5. k > 2 => in[k - 2] \notin {Lead3, Lead4}
      BY <2>2, <3>1, <3>2
    <3>6. k > 3 => in[k - 3] # Lead4
      BY <2>3, <3>1, <3>2
    <3>7. ~Covered(in, k)
      BY <3>3, <3>4, <3>5, <3>6 DEF Covered
    <3> QED
      BY <3>2, <3>7
  <2> QED
    BY <2>4, <1>1, <1>4, <1>8
<1> QED
  BY <1>7, <1>8, <1>3, <1>1 DEF Bytes, CodePoints
(***************************************************************************)
(* advance() from a boundary: to the next code point, or to the end of the *)
(* input, or, where that cuts a code point short, to an I/O error.         *)
(***************************************************************************)
LEMMA AdvanceFromBoundary ==
  ASSUME NEW s \in Sources(Ascii), s.at <= Len(s.in), WellFormed(s.in), AtBoundary(s),
         NEW t, t = Advance(s)
  PROVE  /\ t \in Sources(Ascii)
         /\ t.in = s.in /\ t.captured = s.captured /\ t.kind = s.kind
         /\ t.at <= Len(t.in)
         /\ AtBoundary(t)
         /\ \/ /\ t.state = Ok
               /\ t.current \in CodePoints
               /\ t.at > s.at
               /\ Encode(t.current) = SubSeq(s.in, s.at + 1, t.at)
            \/ t.state = EndOfInput /\ s.at = Len(s.in) /\ t.at = s.at
            \/ t.state = IOError /\ s.at < t.at
<1> DEFINE first == s.at + 1
           width == Width(s.in[first])
           moved == s.position + (IF width = 1 THEN 1 ELSE 2)
<1>1. s.in \in Seq(Bytes) /\ s.at \in Nat /\ Len(s.in) \in Nat /\ s.position \in Nat
  BY DEF Sources, Bytes
<1>2. CASE first > Len(s.in)
  <2>1. t = [s EXCEPT !.state = EndOfInput, !.current = NUL]
    BY <1>2 DEF Advance
  <2>2. /\ t.in = s.in /\ t.captured = s.captured /\ t.kind = s.kind
        /\ t.at = s.at /\ t.state = EndOfInput
    BY <2>1 DEF Sources
  <2>3. t \in Sources(Ascii)
    BY <2>1 DEF Sources
  <2>4. s.at = Len(s.in)
    BY <1>1, <1>2
  <2> QED
    BY <2>2, <2>3, <2>4 DEF AtBoundary
<1>3. CASE first <= Len(s.in) /\ first + width - 1 > Len(s.in)
  <2>1. t = [s EXCEPT !.at = Len(s.in), !.state = IOError, !.current = Cut, !.position = @ + 1]
    BY <1>1, <1>3 DEF Advance
  <2>2. /\ t.in = s.in /\ t.captured = s.captured /\ t.kind = s.kind
        /\ t.at = Len(s.in) /\ t.state = IOError
    BY <2>1 DEF Sources
  <2>3. s.position + 1 \in Nat
    BY <1>1
  <2>4. t \in Sources(Ascii)
    BY <2>1, <2>3, <1>1 DEF Sources, WideCodePoints
  <2>5. s.at < Len(s.in)
    BY <1>1, <1>3
  <2> QED
    BY <2>2, <2>4, <2>5, <1>1 DEF AtBoundary
<1>4. CASE first <= Len(s.in) /\ first + width - 1 <= Len(s.in)
  <2>1. width \in 1 .. 4 /\ moved \in Nat
    BY <1>1 DEF Width
  <2>2. t = [s EXCEPT !.at = @ + width, !.state = Ok, !.current = CodePoint(s.in[first]),
                      !.position = moved]
    <3>1. ~(first > Len(s.in)) /\ ~(first + width - 1 > Len(s.in))
      BY <1>1, <1>4, <2>1
    <3> QED
      BY <3>1 DEF Advance
  <2>3. first \in 1 .. Len(s.in) /\ s.in[first] # Cont
    BY <1>1, <1>4 DEF AtBoundary
  <2>4. /\ CodePoint(s.in[first]) \in CodePoints
        /\ Encode(CodePoint(s.in[first])) = SubSeq(s.in, first, first + width - 1)
        /\ first + width <= Len(s.in) => s.in[first + width] # Cont
    BY <1>1, <1>4, <2>3, CodePointIsItsBytes
  <2>5. /\ t.in = s.in /\ t.captured = s.captured /\ t.kind = s.kind
        /\ t.at = s.at + width /\ t.state = Ok /\ t.current = CodePoint(s.in[first])
    BY <2>2 DEF Sources
  <2>6. CodePoint(s.in[first]) \in Ascii \cup WideCodePoints
    BY <2>4 DEF CodePoints, WideCodePoints
  <2>7. s.at + width \in Nat
    BY <2>1, <1>1
  <2> HIDE DEF width, moved
  <2>8. t \in Sources(Ascii)
    BY <2>1, <2>2, <2>6, <2>7 DEF Sources
  <2>9. AtBoundary(t)
    <3>1. t.at + 1 = first + width
      BY <2>1, <2>5, <1>1
    <3> QED
      BY <3>1, <2>4, <2>5, <2>7, <1>1 DEF AtBoundary, width
  <2>10. t.at > s.at /\ t.at <= Len(t.in) /\ t.at = first + width - 1
    BY <2>1, <2>5, <1>1, <1>4
  <2>11. Encode(t.current) = SubSeq(s.in, s.at + 1, t.at)
    BY <2>4, <2>5, <2>10 DEF width
  <2> QED
    BY <2>4, <2>5, <2>8, <2>9, <2>10, <2>11
<1>5. (first > Len(s.in)) \/ (first <= Len(s.in) /\ first + width - 1 > Len(s.in))
      \/ (first <= Len(s.in) /\ first + width - 1 <= Len(s.in))
  <2>1. width \in Nat
    BY DEF Width
  <2> QED
    BY <1>1, <2>1
<1> QED
  BY <1>2, <1>3, <1>4, <1>5

\* The invariant holds of a value not read yet.
LEMMA InitEstablishesInv == Init => CaptureInv
<1> SUFFICES ASSUME Init PROVE CaptureInv
  OBVIOUS
<1> PICK in \in Inputs : ls = EnsureStarted(Opened("file", in))
  BY DEF Init
<1> DEFINE s == Opened("file", in)
<1>1. in \in Seq(Bytes) /\ WellFormed(in)
  BY InputsAssumption
<1>2. s \in Sources(Ascii) /\ s.at = 0 /\ s.in = in /\ s.captured = << >>
  BY <1>1 DEF Opened, Sources, Bytes, Kinds
<1>3. AtBoundary(s)
  BY <1>1, <1>2 DEF AtBoundary, WellFormed, Covered
<1>4. ls = Advance(s)
  BY DEF EnsureStarted, Opened
<1>5. Len(in) \in Nat
  BY <1>1
<1> HIDE DEF s
<1>6. /\ ls \in Sources(Ascii)
      /\ ls.in = in /\ ls.captured = << >>
      /\ ls.at <= Len(ls.in)
      /\ AtBoundary(ls)
      /\ \/ /\ ls.state = Ok
            /\ ls.current \in CodePoints
            /\ Encode(ls.current) = SubSeq(in, 1, ls.at)
         \/ ls.state = EndOfInput /\ Len(in) = 0
         \/ ls.state = IOError /\ 0 < ls.at
  BY <1>1, <1>2, <1>3, <1>4, <1>5, AdvanceFromBoundary
<1>7. Delivered = << >>
  BY <1>6 DEF Delivered, Init
<1>8. Lossless
  <2>1. ASSUME ls.state = Ok PROVE Delivered \o Encode(ls.current) = SubSeq(ls.in, 1, ls.at)
    BY <2>1, <1>6, <1>7, EncodeIsBytes, ConcatEmptySeq DEF EndOfInput, IOError, Ok
  <2>2. ASSUME ls.state = EndOfInput PROVE Delivered = ls.in
    BY <2>2, <1>1, <1>6, <1>7, EmptySeq DEF EndOfInput, IOError, Ok
  <2>3. ASSUME ls.state = IOError
        PROVE  \E n \in 0 .. ls.at - 1 : Delivered = SubSeq(ls.in, 1, n)
    <3>1. 0 \in 0 .. ls.at - 1 /\ SubSeq(ls.in, 1, 0) = << >>
      BY <2>3, <1>6, SubSeqEmpty DEF Sources, EndOfInput, IOError, Ok
    <3> QED
      BY <3>1, <1>7
  <2> QED
    <3>1. ls.state # OutOfMemory
      BY <1>6 DEF EndOfInput, IOError, Ok, OutOfMemory
    <3> QED
      BY <3>1, <2>1, <2>2, <2>3 DEF Lossless
<1>9. TypeOK
  BY <1>6 DEF TypeOK, Init, Ok, OutOfMemory, EndOfInput, IOError, Bytes
<1>10. NoOverrun /\ PartsAreNotEmpty
  BY <1>6, CaptureCapacityAssumption DEF NoOverrun, PartsAreNotEmpty, Init
<1> QED
  BY <1>1, <1>6, <1>8, <1>9, <1>10 DEF CaptureInv
(***************************************************************************)
(* A turn of a scanning loop moves one code point from the cursor to the   *)
(* buffer, in which the room check has left space for it.                  *)
(***************************************************************************)
LEMMA TakeKeepsInv == CaptureInv /\ Take => CaptureInv'
<1> SUFFICES ASSUME CaptureInv, Take PROVE CaptureInv'
  OBVIOUS
<1> DEFINE bytes == Encode(ls.current)
           c == [ls EXCEPT !.captured = @ \o bytes]
<1>1. /\ ls \in Sources(Ascii) /\ ls.at \in Nat /\ ls.at <= Len(ls.in)
      /\ ls.in \in Seq(Bytes) /\ ls.captured \in Seq(Bytes) /\ handed \in Seq(Bytes)
      /\ ls.state = Ok /\ ls.current \in CodePoints
      /\ phase = "scan" /\ phase' = "scan" /\ handed' = handed
  BY DEF CaptureInv, TypeOK, Sources, Bytes, Take, More, Ok, EndOfInput, IOError,
         OutOfMemory, Initial
<1>2. bytes \in Seq(Bytes) /\ Len(bytes) \in 1 .. 4
  BY <1>1, EncodeIsBytes
<1>3. ls' = Advance(c)
  BY DEF Take, Capture
<1> HIDE DEF bytes
<1>4. ls.captured \o bytes \in Seq(Bytes) /\ Len(ls.captured \o bytes) = Len(ls.captured) + Len(bytes)
  BY <1>1, <1>2, ConcatProperties
<1>5. /\ c \in Sources(Ascii) /\ c.in = ls.in /\ c.at = ls.at
      /\ c.captured = ls.captured \o bytes
  BY <1>1, <1>4 DEF Sources, Bytes
<1>6. WellFormed(c.in) /\ AtBoundary(c)
  BY <1>5 DEF CaptureInv, AtBoundary
<1> HIDE DEF c
<1>7. /\ ls' \in Sources(Ascii)
      /\ ls'.in = ls.in /\ ls'.captured = ls.captured \o bytes
      /\ ls'.at <= Len(ls'.in)
      /\ AtBoundary(ls')
      /\ \/ /\ ls'.state = Ok
            /\ ls'.current \in CodePoints
            /\ ls'.at > ls.at
            /\ Encode(ls'.current) = SubSeq(ls.in, ls.at + 1, ls'.at)
         \/ ls'.state = EndOfInput /\ ls.at = Len(ls.in) /\ ls'.at = ls.at
         \/ ls'.state = IOError /\ ls.at < ls'.at
  BY <1>1, <1>3, <1>5, <1>6, AdvanceFromBoundary
<1>8. TypeOK' /\ WellFormed(ls'.in) /\ AtBoundary(ls)'
  BY <1>1, <1>7 DEF CaptureInv, TypeOK, AtBoundary, Ok, EndOfInput, IOError, OutOfMemory
<1>9. NoOverrun' /\ PartsAreNotEmpty'
  <2>1. CaptureCapacity - Len(ls.captured) >= 4 /\ Len(ls.captured) \in Nat
    BY <1>1 DEF Take, HasRoom
  <2>2. Len(ls'.captured) = Len(ls.captured) + Len(bytes)
    BY <1>4, <1>7
  <2>3. Len(ls'.captured) <= CaptureCapacity
    <3>1. Len(bytes) \in 1 .. 4
      BY <1>2
    <3>2. \A n, m, k \in Int : k - n >= 4 /\ m \in 1 .. 4 => n + m <= k
      OBVIOUS
    <3>3. Len(ls.captured) \in Int /\ CaptureCapacity \in Int /\ Len(bytes) \in Int
      BY <2>1, <3>1, CaptureCapacityAssumption
    <3> QED
      BY <2>1, <2>2, <3>1, <3>2, <3>3
  <2> QED
    BY <2>3, <1>1 DEF NoOverrun, PartsAreNotEmpty
<1>10. Delivered' = SubSeq(ls.in, 1, ls.at)
  <2>1. Delivered = handed \o ls.captured /\ Delivered' = handed \o (ls.captured \o bytes)
    BY <1>1, <1>7 DEF Delivered
  <2>2. (handed \o ls.captured) \o bytes = handed \o (ls.captured \o bytes)
    <3>1. \A s, t, u \in Seq(Bytes) : (s \o t) \o u = s \o (t \o u)
      BY ConcatAssociative
    <3> QED
      BY <3>1, <1>1, <1>2
  <2>3. Delivered' = Delivered \o bytes
    BY <2>1, <2>2
  <2>4. Delivered \o bytes = SubSeq(ls.in, 1, ls.at)
    BY <1>1 DEF CaptureInv, Lossless, bytes
  <2> QED
    BY <2>3, <2>4
<1>11. Lossless'
  <2>1. ASSUME ls'.state \in {Ok, OutOfMemory}
        PROVE  Delivered' \o Encode(ls'.current) = SubSeq(ls'.in, 1, ls'.at)
    <3>1. ls'.at \in Nat /\ Len(ls.in) \in Nat
      BY <1>1, <1>7 DEF Sources
    <3>2. ls'.at > ls.at /\ Encode(ls'.current) = SubSeq(ls.in, ls.at + 1, ls'.at)
      BY <2>1, <1>7 DEF Ok, EndOfInput, IOError, OutOfMemory
    <3>3. 1 \in 1 .. Len(ls.in) + 1 /\ ls.at \in 1 - 1 .. Len(ls.in) /\ ls'.at \in ls.at .. Len(ls.in)
      BY <3>1, <3>2, <1>1, <1>7
    <3>4. SubSeq(ls.in, 1, ls.at) \o SubSeq(ls.in, ls.at + 1, ls'.at) = SubSeq(ls.in, 1, ls'.at)
      BY <3>3, <1>1, ConcatAdjacentSubSeq
    <3> QED
      BY <3>2, <3>4, <1>7, <1>10
  <2>2. ASSUME ls'.state = EndOfInput PROVE Delivered' = ls'.in
    BY <2>2, <1>1, <1>7, <1>10, SubSeqFull DEF Ok, EndOfInput, IOError
  <2>3. ASSUME ls'.state = IOError
        PROVE  \E n \in 0 .. ls'.at - 1 : Delivered' = SubSeq(ls'.in, 1, n)
    <3>1. ls.at \in 0 .. ls'.at - 1
      BY <2>3, <1>1, <1>7 DEF Ok, EndOfInput, IOError, Sources
    <3> QED
      BY <3>1, <1>7, <1>10
  <2> QED
    BY <2>1, <2>2, <2>3 DEF Lossless
<1> QED
  BY <1>7, <1>8, <1>9, <1>11 DEF CaptureInv

(***************************************************************************)
(* The steps that hand a chunk over leave Delivered as it is: the bytes    *)
(* move from the buffer's side of it to the client's, and stay when the    *)
(* buffer is cleared.                                                      *)
(***************************************************************************)
LEMMA OverflowKeepsInv == CaptureInv /\ (Overflow \/ StringPartFull) => CaptureInv'
<1> SUFFICES ASSUME CaptureInv, Overflow \/ StringPartFull PROVE CaptureInv'
  OBVIOUS
<1>1. \/ ls' = [ls EXCEPT !.state = OutOfMemory] /\ ls.state = Ok
      \/ ls' = ls
  <2>1. CASE Overflow
    <3>1. ls' = [ls EXCEPT !.state = OutOfMemory]
      BY <2>1 DEF Overflow, Capture
    <3>2. ls.state = Ok
      BY <2>1 DEF Overflow, CaptureInv, TypeOK, More, Ok, EndOfInput, IOError, OutOfMemory, Initial
    <3> QED
      BY <3>1, <3>2
  <2>2. CASE StringPartFull
    BY <2>2 DEF StringPartFull
  <2> QED
    BY <2>1, <2>2
<1>2. /\ ls' \in Sources(Ascii) /\ ls'.in = ls.in /\ ls'.at = ls.at
      /\ ls'.captured = ls.captured /\ ls'.current = ls.current
      /\ ls'.state = ls.state \/ (ls'.state = OutOfMemory /\ ls.state = Ok)
  BY <1>1 DEF CaptureInv, TypeOK, Sources
<1>3. /\ phase = "scan" /\ phase' = "part" /\ ~HasRoom(ls)
      /\ handed' = handed \o ls.captured
  BY DEF Overflow, StringPartFull
<1>4. ls.captured \in Seq(Bytes) /\ handed \in Seq(Bytes)
  BY DEF CaptureInv, TypeOK, Sources, Bytes
<1>5. Delivered' = Delivered
  BY <1>3 DEF Delivered
<1>6. TypeOK'
  BY <1>2, <1>3, <1>4, ConcatProperties DEF CaptureInv, TypeOK
<1>7. ls.captured # << >>
  BY <1>3, <1>4, CaptureCapacityAssumption DEF HasRoom
<1>8. Lossless'
  <2>1. CASE ls'.state = ls.state
    BY <2>1, <1>2, <1>5 DEF CaptureInv, Lossless
  <2>2. CASE ls'.state = OutOfMemory /\ ls.state = Ok
    <3>1. Delivered \o Encode(ls.current) = SubSeq(ls.in, 1, ls.at)
      BY <2>2 DEF CaptureInv, Lossless
    <3>2. ls'.state # EndOfInput /\ ls'.state # IOError
      BY <2>2 DEF Ok, EndOfInput, IOError, OutOfMemory
    <3>3. ls'.current = ls.current /\ ls'.in = ls.in /\ ls'.at = ls.at
      BY <1>2
    <3> QED
      BY <3>1, <3>2, <3>3, <1>5 DEF Lossless
  <2> QED
    BY <2>1, <2>2, <1>2
<1> QED
  BY <1>2, <1>3, <1>6, <1>7, <1>8 DEF CaptureInv, AtBoundary, NoOverrun, PartsAreNotEmpty

\* Reading on from a full buffer keeps the invariant.
LEMMA ResumeKeepsInv == CaptureInv /\ Resume => CaptureInv'
<1> SUFFICES ASSUME CaptureInv, Resume PROVE CaptureInv'
  OBVIOUS
<1>1. ls' = [ls EXCEPT !.captured = << >>,
                       !.state = IF @ = OutOfMemory THEN Ok ELSE @]
  BY DEF Resume, ClearCapture
<1>2. << >> \in Seq(Bytes)
  BY EmptySeq
<1>3. /\ ls' \in Sources(Ascii) /\ ls'.in = ls.in /\ ls'.at = ls.at
      /\ ls'.captured = << >> /\ ls'.current = ls.current
      /\ ls'.state = IF ls.state = OutOfMemory THEN Ok ELSE ls.state
  BY <1>1, <1>2 DEF CaptureInv, TypeOK, Sources, Bytes, Ok, OutOfMemory
<1>4. phase = "part" /\ phase' = "scan" /\ handed' = handed /\ handed \in Seq(Bytes)
  BY DEF Resume, CaptureInv, TypeOK
<1>5. Delivered' = Delivered
  BY <1>3, <1>4, ConcatEmptySeq DEF Delivered
<1>6. TypeOK'
  BY <1>3, <1>4 DEF CaptureInv, TypeOK, Ok, OutOfMemory
<1>7. Lossless'
  <2>1. CASE ls'.state = ls.state
    BY <2>1, <1>3, <1>5 DEF CaptureInv, Lossless
  <2>2. CASE ls'.state = Ok /\ ls.state = OutOfMemory
    <3>1. Delivered \o Encode(ls.current) = SubSeq(ls.in, 1, ls.at)
      BY <2>2 DEF CaptureInv, Lossless
    <3>2. ls'.state # EndOfInput /\ ls'.state # IOError
      BY <2>2 DEF Ok, EndOfInput, IOError, OutOfMemory
    <3>3. ls'.current = ls.current /\ ls'.in = ls.in /\ ls'.at = ls.at
      BY <1>3
    <3> QED
      BY <3>1, <3>2, <3>3, <1>5 DEF Lossless
  <2> QED
    BY <2>1, <2>2, <1>3
<1>8. NoOverrun' /\ PartsAreNotEmpty'
  BY <1>3, <1>4, EmptySeq, CaptureCapacityAssumption DEF NoOverrun, PartsAreNotEmpty
<1> QED
  BY <1>3, <1>6, <1>7, <1>8 DEF CaptureInv, AtBoundary

\* Ending the value keeps the invariant.
LEMMA FinishKeepsInv == CaptureInv /\ Finish => CaptureInv'
<1> SUFFICES ASSUME CaptureInv, Finish PROVE CaptureInv'
  OBVIOUS
<1>1. ls' = ls /\ phase = "scan" /\ phase' = "done" /\ handed' = handed \o ls.captured
  BY DEF Finish
<1>2. Delivered' = Delivered
  BY <1>1 DEF Delivered
<1>3. ls.captured \in Seq(Bytes) /\ handed \in Seq(Bytes)
  BY DEF CaptureInv, TypeOK, Sources, Bytes
<1>4. TypeOK'
  BY <1>1, <1>3, ConcatProperties DEF CaptureInv, TypeOK
<1> QED
  BY <1>1, <1>2, <1>4 DEF CaptureInv, Lossless, AtBoundary, NoOverrun, PartsAreNotEmpty

\* Every step keeps the invariant.
LEMMA NextKeepsInv == CaptureInv /\ [Next]_vars => CaptureInv'
<1> SUFFICES ASSUME CaptureInv, [Next]_vars PROVE CaptureInv'
  OBVIOUS
<1>1. CASE Take
  BY <1>1, TakeKeepsInv
<1>2. CASE Overflow \/ StringPartFull
  BY <1>2, OverflowKeepsInv
<1>3. CASE Resume
  BY <1>3, ResumeKeepsInv
<1>4. CASE Finish
  BY <1>4, FinishKeepsInv
<1>5. CASE UNCHANGED vars
  BY <1>5 DEF vars, CaptureInv, TypeOK, Lossless, Delivered, AtBoundary, NoOverrun,
              PartsAreNotEmpty
<1> QED
  BY <1>1, <1>2, <1>3, <1>4, <1>5 DEF Next

-----------------------------------------------------------------------------
\* The inductive invariant holds in every reachable state.
THEOREM CaptureInvariant == Spec => []CaptureInv
BY InitEstablishesInv, NextKeepsInv, PTL DEF Spec

\* Source, buffer and client keep the types that TypeOK gives them.
THEOREM CaptureTypeCorrect == Spec => []TypeOK
<1>1. CaptureInv => TypeOK
  BY DEF CaptureInv
<1> QED
  BY <1>1, CaptureInvariant, PTL

\* The chunks of a value, whatever the size of the buffer readAnyOpen and
\* readValuePart fill, put together are the bytes of the value.
THEOREM ChunksLoseNothing == Spec => []Lossless
<1>1. CaptureInv => Lossless
  BY DEF CaptureInv
<1> QED
  BY <1>1, CaptureInvariant, PTL

\* LexSource::capture checks for the room of the longest code point, and that
\* is enough for each.
THEOREM BufferIsNotOverrun == Spec => []NoOverrun
<1>1. CaptureInv => NoOverrun
  BY DEF CaptureInv
<1> QED
  BY <1>1, CaptureInvariant, PTL

\* A buffer with room for four bytes is never full when it is empty, so that
\* each ValuePart brings the client forward.
THEOREM ChunksAreNotEmpty == Spec => []PartsAreNotEmpty
<1>1. CaptureInv => PartsAreNotEmpty
  BY DEF CaptureInv
<1> QED
  BY <1>1, CaptureInvariant, PTL
=============================================================================
