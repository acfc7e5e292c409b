----------------------------- MODULE ValueCapture -----------------------------
(***************************************************************************)
(* How JsonReader streams one value through a capture buffer it may not    *)
(* fit: the loops while(undecorate(...)), while(lexNumber(...)) and        *)
(* while(lexLiteral(...)) of readAnyOpen and readValuePart, one turn at a  *)
(* time, with the client's reads in between.  Which characters belong to   *)
(* the value is the automata's business (module JsonUtility) and is left   *)
(* open here, so that a scan may stop anywhere; escape sequences, which    *)
(* undecorate treats in another way, are not taken by these steps.         *)
(*                                                                         *)
(*   ls      the source, opened and started (module LexSource)             *)
(*   handed  every byte the client has been given so far                   *)
(*   phase   "scan" inside a call, "part" when it has returned ValuePart,  *)
(*           "done" when it has returned Value or EndValuePart             *)
(***************************************************************************)
EXTENDS LexSource

CONSTANTS
  Ascii,    \* the ASCII characters of the inputs
  Inputs    \* the byte sequences a source may be opened on

Bytes == Ascii \cup HighBytes
CodePoints == Ascii \cup {Cp2, Cp3, Cp4}

ASSUME AsciiAssumption == Ascii \cap (HighBytes \cup WideCodePoints) = {}

\* UTF-8: the continuation bytes are those a lead byte announces.
Covered(in, i) ==
  \/ i > 1 /\ in[i - 1] \in {Lead2, Lead3, Lead4}
  \/ i > 2 /\ in[i - 2] \in {Lead3, Lead4}
  \/ i > 3 /\ in[i - 3] = Lead4

WellFormed(in) == \A i \in 1 .. Len(in) : in[i] = Cont <=> Covered(in, i)

ASSUME InputsAssumption == \A in \in Inputs : in \in Seq(Bytes) /\ WellFormed(in)

VARIABLES ls, handed, phase
vars == <<ls, handed, phase>>

Init ==
  /\ \E in \in Inputs : ls = EnsureStarted(Opened("file", in))
  /\ handed = << >>
  /\ phase = "scan"

\* A turn of the loop: capture(current()), then advance().
Take ==
  /\ phase = "scan"
  /\ More(ls)
  /\ HasRoom(ls)
  /\ ls' = Advance(Capture(ls, ls.current))
  /\ UNCHANGED <<handed, phase>>

\* Mutants: the character is stepped over before there is room for it, as
\* undecorate does with the backslash of an escape; the buffer is emptied
\* before the client has seen it.
Overflow_StepsOver ==
  /\ phase = "scan"
  /\ More(ls)
  /\ ~HasRoom(ls)
  /\ ls' = Capture(Advance(ls), ls.current)
  /\ handed' = handed \o ls.captured
  /\ phase' = "part"

Overflow_Empties ==
  /\ phase = "scan"
  /\ More(ls)
  /\ ~HasRoom(ls)
  /\ ls' = [Capture(ls, ls.current) EXCEPT !.captured = << >>]
  /\ handed' = handed \o ls.captured
  /\ phase' = "part"

\* capture() refuses for lack of room, and the call returns ValuePart.
Overflow ==
  /\ phase = "scan"
  /\ More(ls)
  /\ ~HasRoom(ls)
  /\ ls' = Capture(ls, ls.current)
  /\ handed' = handed \o ls.captured
  /\ phase' = "part"

\* From its second part on a string is asked about the room first, and the
\* call returns with no error set.
StringPartFull ==
  /\ phase = "scan"
  /\ ~HasRoom(ls)
  /\ handed' = handed \o ls.captured
  /\ phase' = "part"
  /\ UNCHANGED ls

\* The next read() starts with clearCapture().
Resume ==
  /\ phase = "part"
  /\ ls' = ClearCapture(ls)
  /\ phase' = "scan"
  /\ UNCHANGED handed

\* The value ends here, and its last bytes are in the buffer.
Finish ==
  /\ phase = "scan"
  /\ handed' = handed \o ls.captured
  /\ phase' = "done"
  /\ UNCHANGED ls

Next == Take \/ Overflow \/ StringPartFull \/ Resume \/ Finish

Spec == Init /\ [][Next]_vars

-----------------------------------------------------------------------------
TypeOK ==
  /\ ls \in Sources(Ascii)
  /\ ls.at <= Len(ls.in)
  /\ ls.state \in {Ok, EndOfInput, IOError, OutOfMemory}
  /\ ls.state \in {Ok, OutOfMemory} => ls.current \in CodePoints
  /\ handed \in Seq(Bytes)
  /\ phase \in {"scan", "part", "done"}

\* What the client has and what it will be given next.
Delivered == IF phase = "scan" THEN handed \o ls.captured ELSE handed

\* The chunks are the value: put together, what has been captured so far is
\* the input up to the character under the cursor, byte for byte, however
\* small the buffer; a character the end of the input cuts short is left out.
\* (README: values stream in chunks, scalars round trip.)
Lossless ==
  /\ ls.state \in {Ok, OutOfMemory} =>
       Delivered \o Encode(ls.current) = SubSeq(ls.in, 1, ls.at)
  /\ ls.state = EndOfInput => Delivered = ls.in
  /\ ls.state = IOError => \E n \in 0 .. ls.at - 1 : Delivered = SubSeq(ls.in, 1, n)

\* capture() never writes past the buffer, whose size it checks only against
\* the longest code point.
NoOverrun == Len(ls.captured) <= CaptureCapacity

\* No chunk is empty, so that a client that keeps reading gets somewhere.
PartsAreNotEmpty == phase = "part" => ls.captured # << >>

\* Reading never stops inside a code point.
AtBoundary(source) == source.at < Len(source.in) => source.in[source.at + 1] # Cont

\* The inductive invariant the proofs of the above go through.
CaptureInv ==
  /\ TypeOK
  /\ WellFormed(ls.in)
  /\ AtBoundary(ls)
  /\ Lossless
  /\ NoOverrun
  /\ PartsAreNotEmpty

-----------------------------------------------------------------------------
(* Each of these is a call, or the rest of one, and a client that reads     *)
(* until the value is complete makes them all.                              *)
Fairness == WF_vars(Take) /\ WF_vars(Overflow \/ StringPartFull) /\ WF_vars(Resume)

FairSpec == Spec /\ Fairness

\* However the buffer fills, chunk by chunk the scan comes to an end.
ScanEnds == <>(phase = "done" \/ (phase = "scan" /\ ~More(ls)))
=============================================================================
