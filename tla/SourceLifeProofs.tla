--------------------------- MODULE SourceLifeProofs ---------------------------
(***************************************************************************)
(* However many sources there are, and however often they are opened,      *)
(* attached, detached and closed: none has anything behind it that is gone *)
(* (HeldIsLive) and nothing that is open is out of everyone's reach        *)
(* (NothingLost).  Neither is inductive without the other's company: that  *)
(* close() takes a FILE from one source only needs Apart.                  *)
(*                                                                         *)
(* And how far a source reads: whatever it is given and however often, its *)
(* cursor stays in the text, but for a match behind a mapping that fills   *)
(* its last page (InText); a search of it touches a byte that is not there *)
(* in two cases and in no other (SearchInBounds); and once it is closed it *)
(* yields nothing new (ClosedIsSilent).  A source that is opened again is  *)
(* where a new one is, which is what makes InText inductive.               *)
(***************************************************************************)
EXTENDS SourceLife, TLAPS, WellFoundedInduction

\* A null pointer is not among the things a source may have behind it.
LEMMA NothingIsNoThing == Nothing \notin Things
  BY SourceLifeAssumption

\* A new source has nothing behind it, and there is nothing yet.
LEMMA OwnershipInit == Init => Ownership
  BY DEF Init, Ownership, HoldTypes, HeldIsLive, Apart, NothingLost

-----------------------------------------------------------------------------
\* What the program makes is its own, and no source has it.
LEMMA MakeKeeps ==
  ASSUME Ownership, NEW o \in Things, NEW content \in Contents, Make(o, content)
  PROVE  Ownership'
<1>1. HoldTypes'
  BY DEF Ownership, HoldTypes, Make
<1>2. HeldIsLive'
  BY DEF Ownership, HeldIsLive, Make, Holds
<1>3. Apart'
  BY DEF Ownership, Apart, Make
<1>4. NothingLost'
  BY DEF Ownership, NothingLost, Make
<1> QED BY <1>1, <1>2, <1>3, <1>4 DEF Ownership

\* It disposes of nothing that a source has.
LEMMA DisposeKeeps ==
  ASSUME Ownership, NEW o \in Things, Dispose(o)
  PROVE  Ownership'
<1>1. HoldTypes'
  BY DEF Ownership, HoldTypes, Dispose
<1>2. HeldIsLive'
  BY DEF Ownership, HeldIsLive, Dispose, Free, Holds
<1>3. Apart'
  BY DEF Ownership, Apart, Dispose
<1>4. NothingLost'
  BY DEF Ownership, NothingLost, Dispose
<1> QED BY <1>1, <1>2, <1>3, <1>4 DEF Ownership

\* open() has a FILE or a mapping made that nobody has, and asks first that
\* there is none behind the source already, which would be lost.
LEMMA OpenKeeps ==
  ASSUME Ownership, NEW s \in Readers, NEW o \in Things, NEW content \in Contents,
         Open(s, o, content)
  PROVE  Ownership'
<1>1. /\ held[s] = Nothing /\ o \in Holds(s) /\ o \notin live
      /\ held' = [held EXCEPT ![s] = o] /\ live' = live \cup {o} /\ mine' = mine
  BY DEF Open
<1>2. held \in [Readers -> Things \cup {Nothing}]
  BY DEF Ownership, HoldTypes
<1>3. HoldTypes'
  BY <1>1, <1>2 DEF Ownership, HoldTypes
<1>4. HeldIsLive'
  BY <1>1, <1>2 DEF Ownership, HeldIsLive, Holds
<1>5. \A t \in Readers : held[t] # o
  BY <1>1, NothingIsNoThing DEF Ownership, HeldIsLive
<1>6. Apart'
  BY <1>1, <1>2, <1>5 DEF Ownership, Apart
<1>7. ASSUME NEW p \in live'
      PROVE  p \in mine' \/ \E t \in Readers : held'[t] = p
  <2>1. CASE p = o
    BY <1>1, <1>2, <2>1
  <2>2. CASE p # o
    <3>1. p \in live
      BY <1>1, <2>2
    <3>2. p \in mine \/ \E t \in Readers : held[t] = p
      BY <3>1 DEF Ownership, NothingLost
    <3>3. p # Nothing
      BY <3>1, NothingIsNoThing DEF Ownership, HoldTypes
    <3> QED BY <1>1, <1>2, <3>2, <3>3
  <2> QED BY <2>1, <2>2
<1> QED BY <1>3, <1>4, <1>6, <1>7 DEF Ownership, NothingLost

\* attach() is given what no other source has.
LEMMA AttachKeeps ==
  ASSUME Ownership, NEW s \in Readers, NEW o \in Things, Attach(s, o)
  PROVE  Ownership'
<1>1. /\ held[s] = Nothing /\ o \in mine /\ o \in Holds(s)
      /\ \A t \in Readers : held[t] # o
      /\ held' = [held EXCEPT ![s] = o] /\ live' = live /\ mine' = mine
  BY DEF Attach, Free
<1>2. held \in [Readers -> Things \cup {Nothing}] /\ mine \subseteq live /\ live \subseteq Things
  BY DEF Ownership, HoldTypes
<1>3. HoldTypes'
  BY <1>1, <1>2 DEF HoldTypes
<1>4. HeldIsLive'
  BY <1>1, <1>2 DEF Ownership, HeldIsLive, Holds
<1>5. Apart'
  BY <1>1, <1>2 DEF Ownership, Apart
<1>6. ASSUME NEW p \in live'
      PROVE  p \in mine' \/ \E t \in Readers : held'[t] = p
  <2>1. p \in mine \/ \E t \in Readers : held[t] = p
    BY <1>1 DEF Ownership, NothingLost
  <2>2. p # Nothing
    BY <1>1, <1>2, NothingIsNoThing
  <2> QED BY <1>1, <1>2, <2>1, <2>2
<1> QED BY <1>3, <1>4, <1>5, <1>6 DEF Ownership, NothingLost

\* close() closes what is behind one source, and so behind no other.
LEMMA CloseKeeps ==
  ASSUME Ownership, NEW s \in Readers, Close(s)
  PROVE  Ownership'
<1>1. /\ held[s] # Nothing
      /\ held' = [held EXCEPT ![s] = Nothing]
      /\ live' = live \ {held[s]} /\ mine' = mine \ {held[s]}
  BY DEF Close
<1>2. held \in [Readers -> Things \cup {Nothing}] /\ mine \subseteq live /\ live \subseteq Things
  BY DEF Ownership, HoldTypes
<1>3. HoldTypes'
  BY <1>1, <1>2 DEF HoldTypes
<1>4. ASSUME NEW t \in Readers
      PROVE  held'[t] = Nothing \/ held'[t] \in live' \cap Holds(t)
  <2>1. CASE t = s
    BY <1>1, <1>2, <2>1
  <2>2. CASE t # s
    <3>1. held'[t] = held[t]
      BY <1>1, <1>2, <2>2
    <3>2. held[t] = Nothing \/ held[t] # held[s]
      BY <2>2 DEF Ownership, Apart
    <3> QED BY <1>1, <3>1, <3>2 DEF Ownership, HeldIsLive
  <2> QED BY <2>1, <2>2
<1>5. HeldIsLive'
  BY <1>4 DEF HeldIsLive, Holds
<1>6. Apart'
  BY <1>1, <1>2 DEF Ownership, Apart
<1>7. ASSUME NEW p \in live'
      PROVE  p \in mine' \/ \E t \in Readers : held'[t] = p
  <2>1. p \in live /\ p # held[s]
    BY <1>1
  <2>2. p \in mine \/ \E t \in Readers : held[t] = p
    BY <2>1 DEF Ownership, NothingLost
  <2> QED BY <1>1, <1>2, <2>1, <2>2
<1> QED BY <1>3, <1>5, <1>6, <1>7 DEF Ownership, NothingLost

\* detach() leaves the FILE or string to the program that attached it.
LEMMA DetachKeeps ==
  ASSUME Ownership, NEW s \in Readers, Detach(s)
  PROVE  Ownership'
<1>1. /\ held[s] \in mine
      /\ held' = [held EXCEPT ![s] = Nothing] /\ live' = live /\ mine' = mine
  BY DEF Detach
<1>2. held \in [Readers -> Things \cup {Nothing}] /\ mine \subseteq live /\ live \subseteq Things
  BY DEF Ownership, HoldTypes
<1>3. HoldTypes'
  BY <1>1, <1>2 DEF HoldTypes
<1>4. HeldIsLive'
  BY <1>1, <1>2 DEF Ownership, HeldIsLive, Holds
<1>5. Apart'
  BY <1>1, <1>2 DEF Ownership, Apart
<1>6. ASSUME NEW p \in live'
      PROVE  p \in mine' \/ \E t \in Readers : held'[t] = p
  <2>1. CASE p = held[s]
    BY <1>1, <2>1
  <2>2. CASE p # held[s]
    <3>1. p \in mine \/ \E t \in Readers : held[t] = p
      BY <1>1 DEF Ownership, NothingLost
    <3> QED BY <1>1, <1>2, <2>2, <3>1
  <2> QED BY <2>1, <2>2
<1> QED BY <1>3, <1>4, <1>5, <1>6 DEF Ownership, NothingLost

-----------------------------------------------------------------------------
\* A step of any kind keeps the invariant; reading does not touch it.
LEMMA OwnershipStep == Ownership /\ [Next]_vars => Ownership'
<1> SUFFICES ASSUME Ownership, [Next]_vars PROVE Ownership'
  OBVIOUS
<1>1. ASSUME NEW o \in Things, NEW content \in Contents, Make(o, content) PROVE Ownership'
  BY <1>1, MakeKeeps
<1>2. ASSUME NEW o \in Things, Dispose(o) PROVE Ownership'
  BY <1>2, DisposeKeeps
<1>3. ASSUME NEW s \in Readers, NEW o \in Things, NEW content \in Contents, Open(s, o, content)
      PROVE  Ownership'
  BY <1>3, OpenKeeps
<1>4. ASSUME NEW s \in Readers, NEW o \in Things, Attach(s, o) PROVE Ownership'
  BY <1>4, AttachKeeps
<1>5. ASSUME NEW s \in Readers, Close(s) PROVE Ownership'
  BY <1>5, CloseKeeps
<1>6. ASSUME NEW s \in Readers, Detach(s) PROVE Ownership'
  BY <1>6, DetachKeeps
<1>7. CASE held' = held /\ live' = live /\ mine' = mine
  BY <1>7 DEF Ownership, HoldTypes, HeldIsLive, Apart, NothingLost, Holds
<1>8. ASSUME NEW s \in Readers, Uses(s) \/ Renew(s) PROVE Ownership'
  BY <1>7, <1>8 DEF Uses, Renew
<1>9. CASE UNCHANGED vars
  BY <1>7, <1>9 DEF vars
<1> QED BY <1>1, <1>2, <1>3, <1>4, <1>5, <1>6, <1>8, <1>9 DEF Next

\* Who holds what, for any number of sources, of FILEs, mappings and strings,
\* and whatever is in them.
THEOREM OwnershipInvariant == Spec => []Ownership
  BY OwnershipInit, OwnershipStep, PTL DEF Spec

\* Whatever the program does with its sources, none of them reads a FILE that
\* has been closed or a mapping that is gone.
THEOREM SourcesHoldWhatIsThere == Spec => []HeldIsLive
<1>1. Ownership => HeldIsLive
  BY DEF Ownership
<1> QED BY <1>1, OwnershipInvariant, PTL

\* As long as it closes its sources before it leaves them, nothing stays open
\* that nobody can close.
THEOREM NoSourceLosesAnything == Spec => []NothingLost
<1>1. Ownership => NothingLost
  BY DEF Ownership
<1> QED BY <1>1, OwnershipInvariant, PTL
-----------------------------------------------------------------------------
(* Where a search ends.                                                      *)

\* A set of natural numbers has a least one.
LEMMA LeastOf ==
  ASSUME NEW T, T \subseteq Nat, T # {}
  PROVE  \E x \in T : \A y \in T : x <= y
<1>1. IsWellFoundedOn(OpToRel(<, Nat), Nat)
  BY NatLessThanWellFounded
<1>2. PICK x \in T : \A y \in T : ~ (<<y, x>> \in OpToRel(<, Nat))
  BY <1>1, WFMin
<1>3. \A y \in T : ~ (y < x)
  BY <1>2 DEF OpToRel
<1>4. ASSUME NEW y \in T PROVE x <= y
  <2>1. x \in Nat /\ y \in Nat /\ ~ (y < x)
    BY <1>3
  <2> QED BY <2>1
<1> QED BY <1>4

\* strpbrk, and read() in a loop, stop at the first of the characters or one
\* past the end.
LEMMA FirstInIsFirst ==
  ASSUME NEW in \in Seq(Bytes), NEW i \in Nat \ {0}, i <= Len(in) + 1, NEW chars,
         NEW k, k = FirstIn(in, i, chars)
  PROVE  /\ k \in i .. Len(in) + 1
         /\ k <= Len(in) => in[k] \in chars
<1> DEFINE Places == {j \in i .. Len(in) + 1 : j <= Len(in) => in[j] \in chars}
<1>1. Places \subseteq Nat /\ Len(in) + 1 \in Places
  OBVIOUS
<1>2. PICK x \in Places : \A y \in Places : x <= y
  BY <1>1, LeastOf
<1>3. x \in i .. Len(in) + 1 /\ (x <= Len(in) => in[x] \in chars)
  BY <1>2
<1>4. ASSUME NEW j \in i .. x - 1 PROVE in[j] \notin chars
  BY <1>2, <1>3
<1>5. \E y \in i .. Len(in) + 1 :
        /\ y <= Len(in) => in[y] \in chars
        /\ \A j \in i .. y - 1 : in[j] \notin chars
  BY <1>3, <1>4
<1> QED BY <1>5 DEF FirstIn

\* What is looked for, and is there, is a character.
LEMMA BracketsAreBytes ==
  ASSUME NEW in \in Seq(Bytes), NEW k \in 1 .. Len(in), in[k] \in Brackets
  PROVE  in[k] \in Ascii
<1>1. in[k] \in Bytes /\ in[k] = "["
  BY DEF Brackets
<1> QED BY <1>1 DEF Bytes, HighBytes, Lead2, Lead3, Lead4, Cont

-----------------------------------------------------------------------------
(* A source whose cursor is in its text.                                    *)

Sound(l) ==
  /\ l \in Sources(Ascii)
  /\ l.at <= Len(l.in)
  /\ l.state = Ok => l.at >= 1

\* A source just opened on a document is sound.
LEMMA OpenedIsSound ==
  ASSUME NEW s \in Readers, NEW in \in Seq(Bytes)
  PROVE  Sound(Opened(KindOf(s), in)) /\ Opened(KindOf(s), in).in = in
         /\ Opened(KindOf(s), in).kind = KindOf(s)
<1>1. KindOf(s) \in Kinds
  BY DEF KindOf, Kinds
<1>2. << >> \in Seq(Bytes) /\ Len(in) \in Nat
  OBVIOUS
<1> QED BY <1>1, <1>2 DEF Opened, Sound, Sources, Bytes, Initial, Ok

\* advance() moves the cursor by a code point, or to the end.
LEMMA AdvanceIsSound ==
  ASSUME NEW l, Sound(l)
  PROVE  Sound(Advance(l)) /\ Advance(l).in = l.in /\ Advance(l).kind = l.kind
<1> DEFINE first == l.at + 1
           width == Width(l.in[first])
           moved == l.position + (IF width = 1 THEN 1 ELSE 2)
<1>1. l \in Sources(Ascii) /\ l.in \in Seq(Bytes) /\ l.at \in Nat /\ l.position \in Nat
      /\ Len(l.in) \in Nat /\ l.at <= Len(l.in)
  BY DEF Sound, Sources, Bytes
<1>2. CASE first > Len(l.in)
  <2>1. Advance(l) = [l EXCEPT !.state = EndOfInput, !.current = NUL]
    BY <1>2 DEF Advance
  <2>2. /\ Advance(l) \in Sources(Ascii) /\ Advance(l).in = l.in /\ Advance(l).kind = l.kind
        /\ Advance(l).at = l.at /\ Advance(l).state = EndOfInput
    BY <1>1, <2>1 DEF Sources
  <2> QED BY <1>1, <2>2 DEF Sound, Ok, EndOfInput
<1>3. CASE first <= Len(l.in) /\ first + width - 1 > Len(l.in)
  <2>1. Advance(l) = [l EXCEPT !.at = Len(l.in), !.state = IOError, !.current = Cut,
                               !.position = @ + 1]
    BY <1>1, <1>3 DEF Advance
  <2>2. l.position + 1 \in Nat
    BY <1>1
  <2>3. /\ Advance(l) \in Sources(Ascii) /\ Advance(l).in = l.in /\ Advance(l).kind = l.kind
        /\ Advance(l).at = Len(l.in) /\ Advance(l).state = IOError
    BY <1>1, <2>1, <2>2 DEF Sources, WideCodePoints
  <2> QED BY <1>1, <2>3 DEF Sound, Ok, IOError
<1>4. CASE first <= Len(l.in) /\ first + width - 1 <= Len(l.in)
  <2>1. width \in 1 .. 4 /\ moved \in Nat
    BY <1>1 DEF Width
  <2>2. Advance(l) = [l EXCEPT !.at = @ + width, !.state = Ok,
                               !.current = CodePoint(l.in[first]), !.position = moved]
    <3>1. ~(first > Len(l.in)) /\ ~(first + width - 1 > Len(l.in))
      BY <1>1, <1>4, <2>1
    <3> QED BY <3>1 DEF Advance
  <2>3. l.in[first] \in Bytes
    BY <1>1, <1>4
  <2>4. CodePoint(l.in[first]) \in Ascii \cup WideCodePoints
    BY <2>3 DEF CodePoint, Bytes, HighBytes, WideCodePoints
  <2>5. l.at + width \in Nat /\ l.at + width >= 1 /\ l.at + width <= Len(l.in)
    BY <1>1, <1>4, <2>1
  <2> HIDE DEF width, moved
  <2>6. Advance(l) \in Sources(Ascii) /\ Advance(l).in = l.in /\ Advance(l).kind = l.kind /\ Advance(l).at = l.at + width
    BY <2>1, <2>2, <2>4, <2>5, <1>1 DEF Sources
  <2> QED BY <2>5, <2>6 DEF Sound
<1>5. width \in Nat
  BY DEF Width
<1> QED BY <1>1, <1>2, <1>3, <1>4, <1>5

\* skipToAny() moves it to what it finds, and otherwise to the end.
LEMMA SkippedToIsSound ==
  ASSUME NEW l, Sound(l), NEW k \in l.at .. Len(l.in) + 1, k >= 1,
         k <= Len(l.in) => l.in[k] \in Ascii, NEW t, t = SkippedTo(l, k).ls
  PROVE  Sound(t) /\ t.in = l.in /\ t.kind = l.kind /\ t.at \in Nat
<1> DEFINE p == l.position + (IF k <= Len(l.in) THEN k ELSE k - 1) - l.at
           moved == [l EXCEPT !.position = p]
<1>1. l \in Sources(Ascii) /\ l.in \in Seq(Bytes) /\ l.at \in Nat /\ l.position \in Nat
      /\ Len(l.in) \in Nat /\ l.at <= Len(l.in) /\ k \in Nat
  BY DEF Sound, Sources, Bytes
<1>2. p \in Nat
  BY <1>1
<1>3. /\ k <= Len(l.in) => t = [moved EXCEPT !.at = k, !.current = l.in[k]]
      /\ ~ (k <= Len(l.in)) => t = [moved EXCEPT !.at = k - 1, !.state = EndOfInput]
  <2>1. /\ k <= Len(l.in) => SkippedTo(l, k) = Skipped([moved EXCEPT !.at = k, !.current = l.in[k]], l.in[k])
        /\ ~ (k <= Len(l.in)) => SkippedTo(l, k) = Skipped([moved EXCEPT !.at = k - 1, !.state = EndOfInput], NUL)
    <3>1. moved.in = l.in
      BY <1>1 DEF Sources
    <3> QED BY <3>1, Zenon DEF SkippedTo
  <2> HIDE DEF moved
  <2> QED BY <2>1 DEF Skipped
<1> HIDE DEF p
<1>4. moved \in Sources(Ascii) /\ moved.in = l.in /\ moved.kind = l.kind /\ moved.state = l.state
  BY <1>1, <1>2 DEF Sources
<1> HIDE DEF moved
<1>5. CASE k <= Len(l.in)
  <2>1. t \in Sources(Ascii) /\ t.in = l.in /\ t.kind = l.kind /\ t.at = k /\ t.state = l.state
    BY <1>1, <1>3, <1>4, <1>5 DEF Sources
  <2> QED BY <1>1, <1>5, <2>1 DEF Sound
<1>6. CASE k = Len(l.in) + 1
  <2>1. ~ (k <= Len(l.in)) /\ k - 1 = Len(l.in)
    BY <1>1, <1>6
  <2>2. t = [moved EXCEPT !.at = Len(l.in), !.state = EndOfInput]
    BY <1>3, <2>1
  <2>3. t \in Sources(Ascii) /\ t.in = l.in /\ t.kind = l.kind /\ t.at = Len(l.in) /\ t.state = EndOfInput
    BY <1>1, <1>4, <2>2 DEF Sources
  <2> QED BY <1>1, <2>3 DEF Sound, Ok, EndOfInput
<1> QED BY <1>1, <1>5, <1>6

\* Which it does for every kind of source.
LEMMA SearchIsSound ==
  ASSUME NEW l, Sound(l), NEW t, t = SkipToAny(l, Brackets).ls
  PROVE  Sound(t) /\ t.in = l.in /\ t.kind = l.kind
<1> DEFINE from == IF l.at = 0 THEN 1 ELSE l.at
<1>1. l \in Sources(Ascii) /\ l.in \in Seq(Bytes) /\ l.at \in Nat /\ Len(l.in) \in Nat
      /\ l.at <= Len(l.in)
  BY DEF Sound, Sources, Bytes
<1>2. ASSUME NEW i \in {from, l.at + 1}
      PROVE  /\ Sound(SkippedTo(l, FirstIn(l.in, i, Brackets)).ls)
             /\ SkippedTo(l, FirstIn(l.in, i, Brackets)).ls.in = l.in /\ SkippedTo(l, FirstIn(l.in, i, Brackets)).ls.kind = l.kind
             /\ SkippedTo(l, FirstIn(l.in, i, Brackets)).ls.at \in Nat
  <2> DEFINE k == FirstIn(l.in, i, Brackets)
  <2>1. i \in Nat \ {0} /\ i <= Len(l.in) + 1
    BY <1>1
  <2>2. k \in i .. Len(l.in) + 1 /\ (k <= Len(l.in) => l.in[k] \in Brackets)
    BY <1>1, <2>1, FirstInIsFirst
  <2> HIDE DEF k
  <2>3. k \in l.at .. Len(l.in) + 1 /\ k >= 1
    BY <1>1, <2>1, <2>2
  <2>4. ASSUME k <= Len(l.in) PROVE l.in[k] \in Ascii
    BY <1>1, <2>1, <2>2, <2>4, BracketsAreBytes
  <2>5. Sound(SkippedTo(l, k).ls) /\ SkippedTo(l, k).ls.in = l.in /\ SkippedTo(l, k).ls.kind = l.kind /\ SkippedTo(l, k).ls.at \in Nat
    BY <2>3, <2>4, SkippedToIsSound
  <2> QED BY <2>5 DEF k
<1>3. CASE t = l
  BY <1>3
<1>4. CASE t = SkippedTo(l, FirstIn(l.in, l.at + 1, Brackets)).ls
  BY <1>2, <1>4
<1>5. CASE t = SkippedTo(l, FirstIn(l.in, from, Brackets)).ls
  BY <1>2, <1>5
<1>6. CASE t = [l EXCEPT !.state = EndOfInput]
  <2>1. t \in Sources(Ascii) /\ t.in = l.in /\ t.kind = l.kind /\ t.at = l.at /\ t.state = EndOfInput
    BY <1>1, <1>6 DEF Sources
  <2> QED BY <1>1, <2>1 DEF Sound, Ok, EndOfInput
<1>7. CASE t = [SkippedTo(l, FirstIn(l.in, from, Brackets)).ls
                  EXCEPT !.position = SkippedTo(l, FirstIn(l.in, from, Brackets)).ls.at]
  <2> DEFINE m == SkippedTo(l, FirstIn(l.in, from, Brackets)).ls
  <2>1. Sound(m) /\ m.in = l.in /\ m.kind = l.kind /\ m.at \in Nat
    BY <1>2
  <2> HIDE DEF m
  <2>2. t = [m EXCEPT !.position = m.at]
    BY <1>7 DEF m
  <2>3. t \in Sources(Ascii) /\ t.in = m.in /\ t.kind = m.kind /\ t.at = m.at /\ t.state = m.state
    BY <2>1, <2>2 DEF Sources, Sound
  <2> QED BY <2>1, <2>3 DEF Sound
<1>8. SkipToAnySZ(l, Brackets) = SkippedTo(l, FirstIn(l.in, from, Brackets))
  BY DEF SkipToAnySZ
<1>9. SkipToAnyBase(l, Brackets).ls \in {l, SkippedTo(l, FirstIn(l.in, l.at + 1, Brackets)).ls}
  BY DEF SkipToAnyBase, Skipped
<1> DEFINE u == SkippedTo(l, FirstIn(l.in, from, Brackets))
<1>10. SkipToAnyMapped(l, Brackets).ls \in
         {[l EXCEPT !.state = EndOfInput], u.ls, [u.ls EXCEPT !.position = u.ls.at]}
  <2>1. u = [ls |-> u.ls, found |-> u.found]
    BY DEF SkippedTo, Skipped
  <2> HIDE DEF u
  <2>2. [u EXCEPT !.ls.position = u.ls.at].ls = [u.ls EXCEPT !.position = u.ls.at]
    BY <2>1
  <2>3. SkipToAnySZ(l, Brackets) = u
    BY <1>8 DEF u
  <2> QED BY <2>2, <2>3 DEF SkipToAnyMapped, Skipped
<1> QED BY <1>3, <1>4, <1>5, <1>6, <1>7, <1>8, <1>9, <1>10 DEF SkipToAny

-----------------------------------------------------------------------------
(* Every step leaves every source with its cursor in its text.              *)

\* Or it is one byte behind it, past a bracket that it has found there.
Overrun(l) ==
  /\ l \in Sources(Ascii)
  /\ l.at = Len(l.in) + 1
  /\ l.position >= Len(l.in)

Good(s, l) ==
  /\ l.kind = KindOf(s)
  /\ Sound(l) \/ (Overrun(l) /\ s \in MappedReaders /\ Len(l.in) % PageSize = 0)

\* Every source is one or the other.
LEMMA GoodSources == ASSUME SourceTypes, InText, NEW s \in Readers PROVE Good(s, ls[s])
  BY DEF SourceTypes, InText, FillsPage, Good, Sound, Overrun

\* One source is replaced, or is another place in the same text.
LEMMA SourceReplaced ==
  ASSUME SourceTypes, InText, NEW s \in Readers, NEW l, Good(s, l), ls' = [ls EXCEPT ![s] = l],
         bytes' \in [Things -> Seq(Bytes)],
         bytes' \in [Things -> Seq(Bytes)]
  PROVE  SourceTypes' /\ InText'
<1>1. ls \in [Readers -> Sources(Ascii)] /\ Good(s, l)
  BY DEF SourceTypes
<1>2. SourceTypes'
  BY <1>1 DEF SourceTypes, Good, Sound, Overrun
<1>3. ASSUME NEW t \in Readers PROVE Good(t, ls'[t])
  <2>1. CASE t = s
    BY <1>1, <2>1
  <2>2. CASE t # s
    BY <1>1, <2>2, GoodSources
  <2> QED BY <2>1, <2>2
<1>4. InText'
  BY <1>3 DEF InText, FillsPage, Good, Sound, Overrun
<1> QED BY <1>2, <1>4

\* Or none is.
LEMMA SourcesUntouched ==
  ASSUME SourceTypes, InText, ls' = ls, bytes' \in [Things -> Seq(Bytes)]
  PROVE  SourceTypes' /\ InText'
<1>1. SourceTypes'
  BY DEF SourceTypes
<1>2. InText'
  BY DEF InText, FillsPage
<1> QED BY <1>1, <1>2

\* A source closed, and one not opened yet, is as good as any.
LEMMA NewIsGood == ASSUME NEW s \in Readers PROVE Good(s, New(s))
<1>1. << >> \in Seq(Bytes)
  OBVIOUS
<1> QED BY <1>1, OpenedIsSound DEF New, Good

\* Every source is sound and reads what it is held on, at first.
LEMMA TextInit == Init => SourceTypes /\ InText
<1> SUFFICES ASSUME Init PROVE SourceTypes /\ InText
  OBVIOUS
<1>1. << >> \in Seq(Bytes)
  OBVIOUS
<1>2. ASSUME NEW s \in Readers PROVE Good(s, ls[s])
  BY NewIsGood DEF Init
<1>3. SourceTypes
  BY <1>1, <1>2, NewIsGood DEF Init, SourceTypes, Good, Sound, Overrun
<1>4. InText
  BY <1>2 DEF InText, FillsPage, Good, Sound, Overrun
<1> QED BY <1>3, <1>4

\* What is made and what is opened is a text.
LEMMA MakeInText ==
  ASSUME SourceTypes, InText, NEW o \in Things, NEW content \in Contents, Make(o, content)
  PROVE  SourceTypes' /\ InText'
<1>1. content \in Seq(Bytes)
  BY SourceLifeAssumption
<1>2. ls' = ls
  BY DEF Make
<1>3. bytes' \in [Things -> Seq(Bytes)]
  BY <1>1 DEF Make, SourceTypes
<1> QED BY <1>2, <1>3, SourcesUntouched

\* Disposing of what was opened keeps that.
LEMMA DisposeInText ==
  ASSUME SourceTypes, InText, NEW o \in Things, Dispose(o)
  PROVE  SourceTypes' /\ InText'
<1>1. << >> \in Seq(Bytes)
  OBVIOUS
<1>2. ls' = ls
  BY DEF Dispose
<1>3. bytes' \in [Things -> Seq(Bytes)]
  BY <1>1 DEF Dispose, SourceTypes
<1> QED BY <1>2, <1>3, SourcesUntouched

\* Opening keeps it.
LEMMA OpenInText ==
  ASSUME SourceTypes, InText, NEW s \in Readers, NEW o \in Things, NEW content \in Contents,
         Open(s, o, content)
  PROVE  SourceTypes' /\ InText'
<1> DEFINE l == Opened(KindOf(s), content)
<1>1. content \in Seq(Bytes)
  BY SourceLifeAssumption
<1>2. Sound(l) /\ l.kind = KindOf(s)
  BY <1>1, OpenedIsSound
<1> HIDE DEF l
<1>3. ls' = [ls EXCEPT ![s] = l] /\ bytes' = bytes
  BY DEF Open, l
<1>4. bytes' \in [Things -> Seq(Bytes)]
  BY <1>3 DEF SourceTypes
<1> QED BY <1>2, <1>3, <1>4, SourceReplaced DEF Good

\* Attaching keeps it.
LEMMA AttachInText ==
  ASSUME SourceTypes, InText, NEW s \in Readers, NEW o \in Things, Attach(s, o)
  PROVE  SourceTypes' /\ InText'
<1> DEFINE l == Opened(KindOf(s), bytes[o])
<1>1. bytes[o] \in Seq(Bytes)
  BY DEF SourceTypes
<1>2. Sound(l) /\ l.kind = KindOf(s)
  BY <1>1, OpenedIsSound
<1> HIDE DEF l
<1>3. ls' = [ls EXCEPT ![s] = l] /\ bytes' = bytes
  BY DEF Attach, l
<1>4. bytes' \in [Things -> Seq(Bytes)]
  BY <1>3 DEF SourceTypes
<1> QED BY <1>2, <1>3, <1>4, SourceReplaced DEF Good

\* close() and detach() leave the source as it is, and a text behind.
LEMMA CloseInText ==
  ASSUME SourceTypes, InText, NEW s \in Readers, Close(s) \/ Detach(s)
  PROVE  SourceTypes' /\ InText'
<1>1. ls' = ls
  BY DEF Close, Detach
<1>2. ls[s].in \in Seq(Bytes) /\ ls[s].at \in Nat
  BY DEF SourceTypes, Sources, Bytes
<1>3. Unread(s) \in Seq(Bytes) /\ << >> \in Seq(Bytes)
  BY <1>2 DEF Unread
<1>4. bytes' \in [Things -> Seq(Bytes)]
  BY <1>3 DEF Close, Detach, SourceTypes
<1> QED BY <1>1, <1>4, SourcesUntouched

\* A source that is read stays where it can be; one that has been closed does
\* not move.
LEMMA ReadIsGood ==
  ASSUME SourceTypes, InText, NEW s \in Readers
  PROVE  Good(s, Read(s))
<1>1. Good(s, ls[s])
  BY GoodSources
<1>2. CASE held[s] # Nothing
  <2>1. CASE Sound(ls[s])
    BY <1>1, <1>2, <2>1, AdvanceIsSound DEF Read, Good
  <2>2. CASE ~ Sound(ls[s])
    <3>1. Overrun(ls[s]) /\ s \in MappedReaders /\ Len(ls[s].in) % PageSize = 0
      BY <1>1, <2>2 DEF Good
    <3>2. ls[s] \in Sources(Ascii) /\ Len(ls[s].in) \in Nat
          /\ ls[s].at = Len(ls[s].in) + 1 /\ ls[s].position >= Len(ls[s].in)
      BY <3>1 DEF Overrun, Sources
    <3>3. Read(s) = [ls[s] EXCEPT !.state = EndOfInput, !.current = NUL]
      BY <1>2, <3>2 DEF Read, Advance
    <3>4. /\ Read(s) \in Sources(Ascii) /\ Read(s).in = ls[s].in /\ Read(s).kind = ls[s].kind
          /\ Read(s).at = ls[s].at /\ Read(s).position = ls[s].position
      BY <3>2, <3>3 DEF Sources
    <3> QED BY <1>1, <3>1, <3>2, <3>4 DEF Good, Overrun
  <2> QED BY <2>1, <2>2
<1>3. CASE held[s] = Nothing
  <2>1. Read(s) = [ls[s] EXCEPT !.state = Closed, !.current = NUL]
    BY <1>3 DEF Read
  <2>2. ls[s] \in Sources(Ascii)
    BY DEF SourceTypes
  <2>3. /\ Read(s) \in Sources(Ascii) /\ Read(s).in = ls[s].in /\ Read(s).at = ls[s].at
        /\ Read(s).position = ls[s].position /\ Read(s).state = Closed
        /\ Read(s).kind = ls[s].kind
    BY <2>1, <2>2 DEF Sources
  <2> QED BY <1>1, <2>3 DEF Good, Sound, Overrun, Ok, Closed
<1> QED BY <1>2, <1>3

\* A search that starts in front of the text finds a bracket there, which
\* leaves the cursor where it is, or a NUL, which takes it to the end.
LEMMA InFrontIsSound ==
  ASSUME NEW l, Sound(l), l.state # Ok, NEW t \in InFront(l)
  PROVE  Sound(t) /\ t.kind = l.kind
<1>1. l \in Sources(Ascii) /\ Len(l.in) \in Nat /\ l.at \in Nat /\ l.at <= Len(l.in)
  BY DEF Sound, Sources, Bytes
<1>2. CASE t = SkippedTo(l, Len(l.in) + 1).ls
  BY <1>1, <1>2, SkippedToIsSound
<1>3. ASSUME NEW c \in Brackets \cap Ascii, t = [l EXCEPT !.current = c]
      PROVE  Sound(t) /\ t.kind = l.kind
  <2>1. t \in Sources(Ascii) /\ t.in = l.in /\ t.kind = l.kind /\ t.at = l.at /\ t.state = l.state
    BY <1>1, <1>3 DEF Sources
  <2> QED BY <1>1, <2>1 DEF Sound
<1> QED BY <1>2, <1>3, SourceLifeAssumption DEF InFront

\* One that goes on behind it finds a bracket there.
LEMMA BehindIsOverrun ==
  ASSUME NEW l, l \in Sources(Ascii), NEW t \in Behind(l)
  PROVE  Overrun(t) /\ t.in = l.in /\ t.kind = l.kind
<1>1. Len(l.in) \in Nat /\ Len(l.in) + 1 \in Nat
  BY DEF Sources, Bytes
<1>2. PICK c \in Brackets : t = [l EXCEPT !.at = Len(l.in) + 1, !.position = Len(l.in) + 1,
                                          !.current = c]
  BY DEF Behind
<1>3. c \in Ascii
  BY SourceLifeAssumption
<1>4. t \in Sources(Ascii) /\ t.in = l.in /\ t.kind = l.kind /\ t.at = Len(l.in) + 1 /\ t.position = Len(l.in) + 1
  BY <1>1, <1>2, <1>3 DEF Sources
<1> QED BY <1>1, <1>4 DEF Overrun

\* And from behind it none goes on.
LEMMA OverrunGivesUp ==
  ASSUME NEW s \in MappedReaders, Overrun(ls[s]), ls[s].kind = "mmap"
  PROVE  /\ ~ Strpbrk(s)
         /\ Overrun(SkipToAny(ls[s], Brackets).ls)
         /\ SkipToAny(ls[s], Brackets).ls.in = ls[s].in
         /\ SkipToAny(ls[s], Brackets).ls.kind = ls[s].kind
<1> DEFINE l == ls[s]
           t == SkipToAny(l, Brackets).ls
<1>1. l \in Sources(Ascii) /\ Len(l.in) \in Nat /\ l.position \in Nat /\ l.position >= Len(l.in)
      /\ l.at = Len(l.in) + 1
  BY DEF Overrun, Sources, Bytes
<1>2. ~ Strpbrk(s)
  BY <1>1 DEF Strpbrk
<1>3. t = [l EXCEPT !.state = EndOfInput]
  BY <1>1 DEF SkipToAny, SkipToAnyMapped, Skipped
<1>4. t \in Sources(Ascii) /\ t.in = l.in /\ t.kind = l.kind /\ t.at = l.at
      /\ t.position = l.position
  BY <1>1, <1>3 DEF Sources
<1> QED BY <1>1, <1>2, <1>4 DEF Overrun

\* So does every search leave the source where it can be.
LEMMA SearchIsGood ==
  ASSUME SourceTypes, InText, NEW s \in Readers, NEW t \in Search(s)
  PROVE  Good(s, t)
<1>1. Good(s, ls[s]) /\ ls[s] \in Sources(Ascii)
  BY GoodSources DEF SourceTypes
<1>2. CASE held[s] = Nothing
  <2>1. t \in {ls[s], [ls[s] EXCEPT !.state = Closed]}
    BY <1>2 DEF Search
  <2>2. CASE t = [ls[s] EXCEPT !.state = Closed]
    <3>1. /\ t \in Sources(Ascii) /\ t.in = ls[s].in /\ t.at = ls[s].at
          /\ t.position = ls[s].position /\ t.state = Closed /\ t.kind = ls[s].kind
      BY <1>1, <2>2 DEF Sources
    <3> QED BY <1>1, <3>1 DEF Good, Sound, Overrun, Ok, Closed
  <2> QED BY <1>1, <2>1, <2>2
<1>3. CASE held[s] # Nothing /\ Sound(ls[s])
  <2>1. CASE t = SkipToAny(ls[s], Brackets).ls
    BY <1>1, <1>3, <2>1, SearchIsSound DEF Good
  <2>2. CASE Strpbrk(s) /\ ~ Starts(s) /\ t \in InFront(ls[s])
    BY <1>1, <1>3, <2>2, InFrontIsSound DEF Starts, Good
  <2>3. CASE Strpbrk(s) /\ ~ Stops(s) /\ t \in Behind(ls[s])
    <3>1. s \in MappedReaders /\ Len(ls[s].in) % PageSize = 0
      BY <2>3 DEF Stops, FillsPage
    <3> QED BY <1>1, <2>3, <3>1, BehindIsOverrun DEF Good
  <2> QED BY <1>3, <2>1, <2>2, <2>3 DEF Search
<1>4. CASE held[s] # Nothing /\ ~ Sound(ls[s])
  <2>1. Overrun(ls[s]) /\ s \in MappedReaders /\ Len(ls[s].in) % PageSize = 0
    BY <1>1, <1>4 DEF Good
  <2>2. ls[s].kind = "mmap"
    BY <1>1, <2>1, SourceLifeAssumption DEF Good, KindOf
  <2>3. t = SkipToAny(ls[s], Brackets).ls
    BY <1>4, <2>1, <2>2, OverrunGivesUp DEF Search
  <2> QED BY <1>1, <2>1, <2>2, <2>3, OverrunGivesUp DEF Good
<1> QED BY <1>2, <1>3, <1>4

\* Every call that reads keeps it.
LEMMA UsesInText ==
  ASSUME SourceTypes, InText, NEW s \in Readers, Uses(s)
  PROVE  SourceTypes' /\ InText'
<1>1. bytes' \in [Things -> Seq(Bytes)]
  BY DEF Uses, SourceTypes
<1>2. PICK l \in {Read(s)} \cup Search(s) : ls' = [ls EXCEPT ![s] = l]
  BY DEF Uses
<1>3. Good(s, l)
  BY <1>2, ReadIsGood, SearchIsGood
<1> QED BY <1>1, <1>2, <1>3, SourceReplaced

\* So does a new source in the place of one that is closed.
LEMMA RenewInText ==
  ASSUME SourceTypes, InText, NEW s \in Readers, Renew(s)
  PROVE  SourceTypes' /\ InText'
<1>1. ls' = [ls EXCEPT ![s] = New(s)] /\ bytes' \in [Things -> Seq(Bytes)]
  BY DEF Renew, SourceTypes
<1> QED BY <1>1, NewIsGood, SourceReplaced

-----------------------------------------------------------------------------
\* Every step keeps the invariant of the sources.
LEMMA LifeStep == LifeInv /\ [Next]_vars => LifeInv'
<1> SUFFICES ASSUME LifeInv, [Next]_vars PROVE LifeInv'
  OBVIOUS
<1>1. Ownership'
  BY OwnershipStep DEF LifeInv
<1>2. HoldTypes /\ SourceTypes /\ InText
  BY DEF LifeInv, Ownership
<1>3. CASE UNCHANGED vars
  <2>1. ls' = ls /\ held' = held /\ bytes' \in [Things -> Seq(Bytes)]
    BY <1>2, <1>3 DEF vars, SourceTypes
  <2> QED BY <1>2, <2>1, SourcesUntouched, <1>1 DEF LifeInv
<1>4. CASE Next
  <2>1. SourceTypes' /\ InText'
    <3>1. ASSUME NEW o \in Things, NEW content \in Contents, Make(o, content)
          PROVE  SourceTypes' /\ InText'
      BY <1>2, <3>1, MakeInText
    <3>2. ASSUME NEW o \in Things, Dispose(o) PROVE SourceTypes' /\ InText'
      BY <1>2, <3>2, DisposeInText
    <3>3. ASSUME NEW s \in Readers, NEW o \in Things, NEW content \in Contents,
                 Open(s, o, content)
          PROVE  SourceTypes' /\ InText'
      BY <1>2, <3>3, OpenInText
    <3>4. ASSUME NEW s \in Readers, NEW o \in Things, Attach(s, o)
          PROVE  SourceTypes' /\ InText'
      BY <1>2, <3>4, AttachInText
    <3>5. ASSUME NEW s \in Readers, Close(s) \/ Detach(s) PROVE SourceTypes' /\ InText'
      BY <1>2, <3>5, CloseInText
    <3>6. ASSUME NEW s \in Readers, Uses(s) PROVE SourceTypes' /\ InText'
      BY <1>2, <3>6, UsesInText
    <3>7. ASSUME NEW s \in Readers, Renew(s) PROVE SourceTypes' /\ InText'
      BY <1>2, <3>7, RenewInText
    <3> QED BY <1>4, <3>1, <3>2, <3>3, <3>4, <3>5, <3>6, <3>7 DEF Next
  <2> QED BY <1>1, <2>1 DEF LifeInv
<1> QED BY <1>3, <1>4

\* Who holds what, and that every source has its cursor in its text, for any
\* number of sources, of FILEs, mappings and strings, and any contents.
THEOREM LifeInvariant == Spec => []LifeInv
<1>1. Init => LifeInv
  BY OwnershipInit, TextInit DEF LifeInv
<1> QED BY <1>1, LifeStep, PTL DEF Spec

-----------------------------------------------------------------------------
\* The pages of a text that does not fill the last of them hold a byte more.
LEMMA PagesHoldMore ==
  ASSUME NEW n \in Nat, n % PageSize # 0
  PROVE  n + 1 <= PageSize * ((n + PageSize - 1) \div PageSize)
<1> DEFINE m == n + PageSize - 1
           q == m \div PageSize
           a == n \div PageSize
           b == n % PageSize
<1>1. PageSize \in Nat \ {0}
  BY SourceLifeAssumption
<1>2. m \in Nat
  BY <1>1
<1> HIDE DEF m
<1>3. q \in Int /\ m = PageSize * q + (m % PageSize) /\ m % PageSize \in 0 .. PageSize - 1
  BY <1>1, <1>2
<1>4. a \in Int /\ n = PageSize * a + b /\ b \in 1 .. PageSize - 1
  BY <1>1
<1> HIDE DEF q, a, b
<1>5. PageSize * q \in Int /\ n <= PageSize * q
  BY <1>1, <1>3 DEF m
<1>6. PageSize * q # n
  <2> SUFFICES ASSUME PageSize * q = n PROVE FALSE
    OBVIOUS
  <2> DEFINE d == q - a
  <2>1. d \in Int /\ PageSize * d = b
    BY <1>1, <1>3, <1>4
  <2> HIDE DEF d
  <2>2. CASE d >= 1
    <3>1. PageSize * d >= PageSize
      BY <1>1, <2>1, <2>2
    <3> QED BY <1>1, <1>4, <2>1, <3>1
  <2>3. CASE d <= 0
    <3>1. PageSize * d <= 0
      BY <1>1, <2>1, <2>3
    <3> QED BY <1>4, <2>1, <3>1
  <2> QED BY <2>1, <2>2, <2>3
<1>7. n + 1 <= PageSize * q
  BY <1>5, <1>6
<1> QED BY <1>7 DEF q, m

\* And those of a text that does fill it hold no byte more.
LEMMA PagesHoldNoMore ==
  ASSUME NEW n \in Nat, n % PageSize = 0
  PROVE  PageSize * ((n + PageSize - 1) \div PageSize) = n
<1> DEFINE m == n + PageSize - 1
           q == m \div PageSize
           a == n \div PageSize
<1>1. PageSize \in Nat \ {0}
  BY SourceLifeAssumption
<1>2. m \in Nat
  BY <1>1
<1> HIDE DEF m
<1>3. q \in Int /\ m = PageSize * q + (m % PageSize) /\ m % PageSize \in 0 .. PageSize - 1
  BY <1>1, <1>2
<1>4. a \in Int /\ n = PageSize * a
  BY <1>1
<1> HIDE DEF q, a
<1>5. PageSize * q \in Int /\ n <= PageSize * q /\ PageSize * q <= n + PageSize - 1
  BY <1>1, <1>3 DEF m
<1> DEFINE d == q - a
<1>6. d \in Int /\ PageSize * d = PageSize * q - n
  BY <1>1, <1>3, <1>4
<1> HIDE DEF d
<1>7. d = 0
  <2>1. CASE d >= 1
    <3>1. PageSize * d >= PageSize
      BY <1>1, <1>6, <2>1
    <3> QED BY <1>1, <1>5, <1>6, <3>1
  <2>2. CASE d <= -1
    <3>1. PageSize * d <= 0 - PageSize
      BY <1>1, <1>6, <2>2
    <3> QED BY <1>1, <1>5, <1>6, <3>1
  <2> QED BY <1>6, <2>1, <2>2
<1>8. PageSize * q = n
  BY <1>1, <1>5, <1>6, <1>7
<1> QED BY <1>8 DEF q, m

\* A source that has come no further than its text searches within it, unless
\* there is nothing in front of the text or behind it to stop at.
LEMMA SearchHasItsBytes == SourceTypes /\ InText => SearchInBounds
<1> SUFFICES ASSUME SourceTypes, InText, NEW s \in MappedReaders \cup TextReaders, Strpbrk(s)
             PROVE  Starts(s) /\ Stops(s) <=>
                      ls[s].at >= 1 /\ EndOfSearch(ls[s]) <= Readable(s)
  BY DEF SearchInBounds
<1> DEFINE k == EndOfSearch(ls[s])
           n == Len(ls[s].in)
<1>1. s \in Readers /\ Good(s, ls[s])
  BY GoodSources DEF Readers
<1>2. Sound(ls[s])
  <2>1. ~ Overrun(ls[s]) \/ s \notin MappedReaders
    <3> SUFFICES ASSUME Overrun(ls[s]), s \in MappedReaders PROVE FALSE
      OBVIOUS
    <3>1. ls[s].kind = "mmap"
      BY <1>1, SourceLifeAssumption DEF Good, KindOf
    <3> QED BY <3>1, OverrunGivesUp
  <2> QED BY <1>1, <2>1 DEF Good
<1>3. /\ ls[s].in \in Seq(Bytes) /\ ls[s].at \in Nat /\ n \in Nat /\ ls[s].at <= n
      /\ ls[s].state = Ok => ls[s].at >= 1
  BY <1>2 DEF Sound, Sources, Bytes
<1>4. Starts(s) <=> ls[s].at >= 1
  BY <1>3 DEF Starts
<1>5. k \in 1 .. n + 1
  <2> DEFINE i == IF ls[s].at = 0 THEN 1 ELSE ls[s].at
  <2>1. i \in Nat \ {0} /\ i <= n + 1
    BY <1>3
  <2>2. k = FirstIn(ls[s].in, i, Brackets)
    BY DEF EndOfSearch
  <2> HIDE DEF i
  <2>3. k \in i .. n + 1
    BY <1>3, <2>1, <2>2, FirstInIsFirst
  <2> QED BY <1>3, <2>1, <2>3
<1> HIDE DEF k
<1>6. Stops(s) <=> k <= Readable(s)
  <2>1. CASE s \in TextReaders
    <3>1. s \notin MappedReaders
      BY <2>1, SourceLifeAssumption
    <3>2. Stops(s) /\ Readable(s) = n + 1
      BY <2>1, <3>1 DEF Stops, FillsPage, Readable
    <3> HIDE DEF n
    <3> QED BY <1>3, <1>5, <3>2
  <2>2. CASE s \in MappedReaders
    <3> DEFINE pages == PageSize * ((n + PageSize - 1) \div PageSize)
    <3>1. s \notin TextReaders
      BY <2>2, SourceLifeAssumption
    <3>2. Readable(s) = pages
      BY <3>1 DEF Readable
    <3>3. Stops(s) <=> n % PageSize # 0 \/ k <= n
      BY <2>2 DEF Stops, FillsPage, k
    <3>4. pages \in Int
      BY <1>3, SourceLifeAssumption
    <3>5. n % PageSize # 0 => n + 1 <= pages
      BY <1>3, PagesHoldMore
    <3>6. n % PageSize = 0 => pages = n
      BY <1>3, PagesHoldNoMore
    <3>7. n \in Nat
      BY <1>3
    <3> HIDE DEF n, pages
    <3>8. CASE n % PageSize # 0
      BY <1>5, <3>2, <3>3, <3>4, <3>5, <3>7, <3>8
    <3>9. CASE n % PageSize = 0
      BY <1>5, <3>2, <3>3, <3>6, <3>9
    <3> QED BY <3>8, <3>9
  <2> QED BY <2>1, <2>2
<1> QED BY <1>4, <1>6 DEF k

\* A search reads a byte in front of the text, or behind the pages it is in and
\* the terminating NUL, if nothing has been read of it and nothing found, or if
\* it fills its last page and has no bracket left; and in no other case, for
\* any page size, any contents and any history of the sources.
THEOREM SearchStaysInBounds == Spec => []SearchInBounds
<1>1. LifeInv => SearchInBounds
  BY SearchHasItsBytes DEF LifeInv
<1> QED BY <1>1, LifeInvariant, PTL

-----------------------------------------------------------------------------
(* A source with nothing behind it.                                         *)

Silent(s) ==
  /\ ls'[s].current \in {ls[s].current, NUL}
  /\ ls'[s].position <= ls[s].position

\* Left alone or renewed, it says nothing new,
LEMMA UntouchedIsSilent ==
  ASSUME SourceTypes, NEW s \in Readers, ls'[s] = ls[s]
  PROVE  Silent(s)
<1>1. ls[s].position \in Nat
  BY DEF SourceTypes, Sources
<1> QED BY <1>1 DEF Silent

\* A source closed says nothing.
LEMMA NewIsSilent ==
  ASSUME SourceTypes, NEW s \in Readers, ls'[s] = New(s)
  PROVE  Silent(s)
<1>1. ls[s].position \in Nat
  BY DEF SourceTypes, Sources
<1>2. New(s).current = NUL /\ New(s).position = 0
  BY DEF New, Opened
<1> QED BY <1>1, <1>2 DEF Silent

\* nor read, nor searched.
LEMMA ReadIsSilent ==
  ASSUME SourceTypes, NEW s \in Readers, held[s] = Nothing, Uses(s)
  PROVE  Silent(s)
<1>1. ls[s] \in Sources(Ascii) /\ ls \in [Readers -> Sources(Ascii)]
  BY DEF SourceTypes
<1>2. ls'[s] \in {Read(s)} \cup Search(s)
  BY <1>1 DEF Uses
<1>3. Read(s) = [ls[s] EXCEPT !.state = Closed, !.current = NUL]
  BY DEF Read
<1>4. Search(s) \subseteq {ls[s], [ls[s] EXCEPT !.state = Closed]}
  BY DEF Search
<1>5. /\ Read(s).current = NUL /\ Read(s).position = ls[s].position
      /\ \A l \in Search(s) : l.current = ls[s].current /\ l.position = ls[s].position
  BY <1>1, <1>3, <1>4 DEF Sources
<1>6. ls[s].position \in Nat
  BY <1>1 DEF Sources
<1> QED BY <1>2, <1>5, <1>6 DEF Silent

\* A source that holds nothing before and after a step says nothing after it.
LEMMA ClosedStep ==
  LifeInv /\ [Next]_vars =>
    \A s \in Readers : held[s] = Nothing /\ held'[s] = Nothing => Silent(s)
<1> SUFFICES ASSUME LifeInv, [Next]_vars, NEW s \in Readers,
                    held[s] = Nothing, held'[s] = Nothing
             PROVE  Silent(s)
  OBVIOUS
<1>1. SourceTypes /\ HoldTypes /\ ls \in [Readers -> Sources(Ascii)]
      /\ held \in [Readers -> Things \cup {Nothing}]
  BY DEF LifeInv, Ownership, SourceTypes, HoldTypes
<1>2. CASE UNCHANGED vars
  BY <1>1, <1>2, UntouchedIsSilent DEF vars
<1>3. CASE Next
  <2>1. ASSUME NEW t \in Readers, Close(t) \/ Detach(t) PROVE Silent(s)
    BY <1>1, <2>1, UntouchedIsSilent DEF Close, Detach
  <2>2. ASSUME NEW t \in Readers, Renew(t) PROVE Silent(s)
    <3>1. ls'[s] = ls[s] \/ ls'[s] = New(s)
      BY <1>1, <2>2 DEF Renew
    <3> QED BY <1>1, <3>1, UntouchedIsSilent, NewIsSilent
  <2>3. ASSUME NEW t \in Readers, Uses(t) PROVE Silent(s)
    <3>1. CASE t = s
      BY <1>1, <2>3, <3>1, ReadIsSilent
    <3>2. CASE t # s
      <4>1. ls'[s] = ls[s]
        BY <1>1, <2>3, <3>2 DEF Uses
      <4> QED BY <1>1, <4>1, UntouchedIsSilent
    <3> QED BY <3>1, <3>2
  <2>4. ASSUME NEW o \in Things, Dispose(o) PROVE Silent(s)
    BY <1>1, <2>4, UntouchedIsSilent DEF Dispose
  <2>5. ASSUME NEW o \in Things, NEW content \in Contents, Make(o, content) PROVE Silent(s)
    BY <1>1, <2>5, UntouchedIsSilent DEF Make
  \* What is opened or attached has something behind it, so it is another one.
  <2>6. ASSUME NEW t \in Readers, NEW o \in Things, Attach(t, o) PROVE Silent(s)
    <3>1. t # s
      BY <1>1, <2>6, SourceLifeAssumption DEF Attach
    <3> QED BY <1>1, <2>6, <3>1, UntouchedIsSilent DEF Attach
  <2>7. ASSUME NEW t \in Readers, NEW o \in Things, NEW content \in Contents, Open(t, o, content)
        PROVE  Silent(s)
    <3>1. t # s
      BY <1>1, <2>7, SourceLifeAssumption DEF Open
    <3> QED BY <1>1, <2>7, <3>1, UntouchedIsSilent DEF Open
  <2> QED BY <1>3, <2>1, <2>2, <2>3, <2>4, <2>5, <2>6, <2>7 DEF Next
<1> QED BY <1>2, <1>3

\* A source that is closed, detached or new moves nothing and yields nothing,
\* for any number of sources and whatever they are asked.
THEOREM ClosedSaysNothing == Spec => ClosedIsSilent
<1>1. LifeInv /\ [Next]_vars =>
        [\A s \in Readers : held[s] = Nothing /\ held'[s] = Nothing =>
           /\ ls'[s].current \in {ls[s].current, NUL}
           /\ ls'[s].position <= ls[s].position]_vars
  BY ClosedStep DEF Silent
<1> QED BY <1>1, LifeInvariant, PTL DEF Spec, ClosedIsSilent
=============================================================================
