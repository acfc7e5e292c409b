------------------------------ MODULE LexSource ------------------------------
(***************************************************************************)
(* src/src/LexSource.hpp and MemoryMappedLexSource.hpp: a forward-only     *)
(* cursor over UTF-8 input with a one code point lookahead, current(), and *)
(* a bounded capture buffer.  A source is a record, and each member        *)
(* function that changes it is an operator from the source before the call *)
(* to the source after it.                                                 *)
(*                                                                         *)
(*   kind      "file" (the base class's own skipToAny, as FileLexSource    *)
(*             uses it), "sz" (SZLexSource) or "mmap"                      *)
(*   in        the bytes of the input                                      *)
(*   at        how many of them read() has returned                        *)
(*   state     m_state                                                     *)
(*   current   m_current                                                   *)
(*   position  m_position                                                  *)
(*   captured  the bytes in the capture buffer before its terminating NUL  *)
(*                                                                         *)
(* An ASCII byte, and its code point, is the one-character string it       *)
(* stands for.  The bytes above 0x7f are told apart by how advanceImpl     *)
(* reads them: Lead4 and Lead3 are the leads of longer code points, and    *)
(* every other byte, a stray continuation included, is taken for a Lead2.  *)
(* Which code point the bytes of a malformed sequence make up is left out, *)
(* so the input is to be well-formed UTF-8, at most cut short.             *)
(***************************************************************************)
EXTENDS Integers, Sequences

CONSTANT CaptureCapacity   \* captureCapacity(), that is TCapacity - 1

\* static_assert(TCapacity>4)
ASSUME CaptureCapacityAssumption == CaptureCapacity \in Nat /\ CaptureCapacity >= 4

Kinds == {"file", "sz", "mmap"}

Lead2 == "110xxxxx"
Lead3 == "1110xxxx"
Lead4 == "11110xxx"
Cont  == "10xxxxxx"
HighBytes == {Lead2, Lead3, Lead4, Cont}

Cp2 == "U+0080"     \* a code point that takes two bytes
Cp3 == "U+0800"
Cp4 == "U+10000"
Cut == "cut short"  \* what is left in m_current when the bytes run out
NUL == "NUL"        \* m_current = 0
WideCodePoints == {Cp2, Cp3, Cp4, Cut}

\* m_state
Ok == 0
EndOfInput == -1
Closed == -2
IOError == -3
OutOfMemory == -4
Initial == -5

More(ls) == ls.state >= Ok \/ ls.state = Initial
Eof(ls) == ls.state = EndOfInput
HasSourceError(ls) == ls.state < EndOfInput
BytesIn(in) == {in[i] : i \in DOMAIN in}
IsAscii(c) == c \notin WideCodePoints

\* Every source over an alphabet of ASCII characters.
Sources(ascii) ==
  [kind : Kinds, in : Seq(ascii \cup HighBytes), at : Nat,
   state : {Ok, EndOfInput, Closed, IOError, OutOfMemory, Initial},
   current : ascii \cup WideCodePoints \cup {NUL}, position : Nat,
   captured : Seq(ascii \cup HighBytes)]

Reset(ls) ==
  [ls EXCEPT !.state = Initial, !.current = NUL, !.position = 0, !.captured = << >>]

\* A source as open() or attach() leaves it.
Opened(kind, in) ==
  [kind |-> kind, in |-> in, at |-> 0, state |-> Initial, current |-> NUL,
   position |-> 0, captured |-> << >>]

-----------------------------------------------------------------------------
(* Reading.  How many bytes advanceImpl asks for once it has seen the first *)
(* one, and what it makes of them.                                          *)

\* Mutant: a three byte code point is read as two bytes.
Width_ShortThree(byte) ==
  IF byte = Lead4 THEN 4 ELSE IF byte \in {Lead2, Lead3, Cont} THEN 2 ELSE 1

Width(byte) ==
  IF byte = Lead4 THEN 4
  ELSE IF byte = Lead3 THEN 3
  ELSE IF byte \in {Lead2, Cont} THEN 2 ELSE 1

CodePoint(byte) ==
  IF byte = Lead4 THEN Cp4
  ELSE IF byte = Lead3 THEN Cp3
  ELSE IF byte \in {Lead2, Cont} THEN Cp2 ELSE byte

\* Mutant: the last code point is not checked against the end of the input.
Advance_Unchecked(ls) ==
  LET width == Width(ls.in[ls.at + 1])
  IN  IF ls.at + 1 > Len(ls.in)
        THEN [ls EXCEPT !.state = EndOfInput, !.current = NUL]
        ELSE [ls EXCEPT !.at = @ + width, !.state = Ok,
                        !.current = CodePoint(ls.in[ls.at + 1]), !.position = @ + 1]

Advance(ls) ==
  LET first == ls.at + 1
      width == Width(ls.in[first])
      moved == ls.position + (IF width = 1 THEN 1 ELSE 2)
  IN  IF first > Len(ls.in)
        THEN [ls EXCEPT !.state = EndOfInput, !.current = NUL]
      ELSE IF first + width - 1 > Len(ls.in)
        THEN [ls EXCEPT !.at = Len(ls.in), !.state = IOError, !.current = Cut,
                        !.position = @ + 1]
      ELSE [ls EXCEPT !.at = @ + width, !.state = Ok,
                      !.current = CodePoint(ls.in[first]), !.position = moved]

EnsureStarted(ls) == IF ls.state = Initial THEN Advance(ls) ELSE ls

\* The value ensureStarted() returns, given the source after the call.
Started(before, after) == before.state = Initial => after.state = Ok

-----------------------------------------------------------------------------
(* The capture buffer.  capture() wants room for the longest code point,   *)
(* whatever the one it is given.                                           *)

\* Mutants: room for one byte is taken for room for any code point; room is
\* asked for the six bytes that a code point could once take in UTF-8.
HasRoom_OneByte(ls) == CaptureCapacity - Len(ls.captured) >= 1
HasRoom_SixBytes(ls) == CaptureCapacity - Len(ls.captured) >= 6

HasRoom(ls) == CaptureCapacity - Len(ls.captured) >= 4

Encode(cp) ==
  IF cp = Cp4 THEN <<Lead4, Cont, Cont, Cont>>
  ELSE IF cp = Cp3 THEN <<Lead3, Cont, Cont>>
  ELSE IF cp = Cp2 THEN <<Lead2, Cont>> ELSE <<cp>>

Capture(ls, cp) ==
  IF HasRoom(ls)
    THEN [ls EXCEPT !.captured = @ \o Encode(cp)]
    ELSE [ls EXCEPT !.state = OutOfMemory]

\* Mutant: the state is put back and the buffer is not emptied.
ClearCapture_KeepsBytes(ls) == [ls EXCEPT !.state = IF @ = OutOfMemory THEN Ok ELSE @]

ClearCapture(ls) ==
  [ls EXCEPT !.captured = << >>,
             !.state = IF @ = OutOfMemory THEN Ok ELSE @]

-----------------------------------------------------------------------------
(* Fast forwarding to the first of some ASCII characters.  Each kind of     *)
(* source has its own: they start looking at a different byte and disagree  *)
(* at the end of the input.                                                 *)

\* The first index from i on whose byte is one of chars, else Len(in) + 1.
FirstIn(in, i, chars) ==
  CHOOSE k \in i .. Len(in) + 1 :
    /\ k <= Len(in) => in[k] \in chars
    /\ \A j \in i .. k - 1 : in[j] \notin chars

\* The source skipToAny leaves and the character it returns, or NUL: whether
\* it found one is not in the source, since a success does not touch m_state.
Skipped(ls, found) == [ls |-> ls, found |-> found]

\* With k the index it found, or one past the last.
SkippedTo(ls, k) ==
  LET moved == [ls EXCEPT !.position = @ + (IF k <= Len(ls.in) THEN k ELSE k - 1) - ls.at]
  IN  IF k <= Len(ls.in)
        THEN Skipped([moved EXCEPT !.at = k, !.current = ls.in[k]], ls.in[k])
        ELSE Skipped([moved EXCEPT !.at = k - 1, !.state = EndOfInput], NUL)

\* The base class looks at current() first, where strchr finds the NUL that
\* ends chars when current() is 0, and then reads on.
SkipToAnyBase(ls, chars) ==
  IF ls.current \in chars \cup {NUL}
    THEN Skipped(ls, ls.current)
    ELSE SkippedTo(ls, FirstIn(ls.in, ls.at + 1, chars))

\* strpbrk from the byte read last, which is not current() once the input
\* has ended.  A source that was never started has no such byte: what is
\* in front of the text instead is left to module SourceLife.
SkipToAnySZ(ls, chars) ==
  SkippedTo(ls, FirstIn(ls.in, IF ls.at = 0 THEN 1 ELSE ls.at, chars))

\* The same over a mapping, except that it gives up when the position, which
\* counts the current character too, has reached the size, and that it sets
\* the position by the byte it found.
SkipToAnyMapped(ls, chars) ==
  IF ls.position >= Len(ls.in)
    THEN Skipped([ls EXCEPT !.state = EndOfInput], NUL)
    ELSE LET s == SkipToAnySZ(ls, chars)
         IN  IF s.found = NUL THEN s ELSE [s EXCEPT !.ls.position = s.ls.at]

SkipToAny(ls, chars) ==
  IF ls.kind = "file" THEN SkipToAnyBase(ls, chars)
  ELSE IF ls.kind = "sz" THEN SkipToAnySZ(ls, chars)
  ELSE SkipToAnyMapped(ls, chars)
=============================================================================
