----------------------------- MODULE JsonUtility -----------------------------
(***************************************************************************)
(* The scanners of src/src/JsonUtility.hpp.  Each is an operator on a      *)
(* source (module LexSource); one that also answers yields a record whose  *)
(* ok is the value returned and whose ls is the source after the call.     *)
(* undecorate, lexNumber and lexLiteral are called in loops that stop when *)
(* they answer false: the WhileOk of module Loops.                         *)
(***************************************************************************)
EXTENDS LexSource, Loops

Space == {" ", "\t", "\n", "\r"}
Hex == {"0", "1", "2", "3", "4", "5", "6", "7", "8", "9",
        "a", "b", "c", "d", "e", "f", "A", "B", "C", "D", "E", "F"}

Answer(ok, ls) == [ok |-> ok, ls |-> ls]

\* More turns than any loop over what is left takes.
Left(ls) == Len(ls.in) - ls.at + 2

\* A run of white space, then the first character after it.  The answer
\* skipWhiteSpace gives is ~HasSourceError of the source it leaves.
SkipWhiteSpace(ls) ==
  LET solid == {i \in ls.at + 1 .. Len(ls.in) : ls.in[i] \notin Space}
      k == CHOOSE i \in solid \cup {Len(ls.in) + 1} : \A j \in solid : i <= j
  IN  IF ls.current \in Space
        THEN Advance([ls EXCEPT !.at = k - 1, !.position = @ + k - 1 - ls.at])
        ELSE ls

-----------------------------------------------------------------------------
(* Strings.                                                                 *)

\* decodeUnicodeEscape: current() is the first of four hexadecimal digits.
\* It stops at the first character that is not one, and otherwise steps past
\* the fourth whether or not anything follows.
EscapeDigits(ls) == SubSeq(ls.in, ls.at, ls.at + 3)

DecodeUnicodeEscape(ls) ==
  LET bad == {i \in 0 .. 3 : ls.at + i > Len(ls.in) \/ ls.in[ls.at + i] \notin Hex}
      n   == IF bad = {} THEN 4 ELSE CHOOSE i \in bad : \A j \in bad : i <= j
      moved == IF n = 0 THEN ls
               ELSE Advance([ls EXCEPT !.at = @ + n - 1, !.position = @ + n - 1])
  IN  Answer(More(ls) /\ bad = {}, IF More(ls) THEN moved ELSE ls)

IsHighSurrogate(digits) == digits[1] \in {"d", "D"} /\ digits[2] \in {"8", "9", "a", "b", "A", "B"}

\* The code point of one escape, by the bytes it takes: \u0000 becomes '?'.
EscapedCodePoint(digits) ==
  CASE digits = <<"0", "0", "0", "0">> -> "?"
    [] digits[1] = "0" /\ digits[2] = "0" /\ digits[3] \in {"0", "1", "2", "3", "4", "5", "6", "7"}
         -> "a"
    [] digits[1] = "0" /\ digits[2] \in {"0", "1", "2", "3", "4", "5", "6", "7"} -> Cp2
    [] OTHER -> Cp3

\* The letters after a backslash that stand for one character, and for which.
SimpleEscapes ==
  [c \in {"\\", "\"", "/", "r", "n", "t", "f", "b"} |->
     CASE c = "r" -> "\r" [] c = "n" -> "\n" [] c = "t" -> "\t"
       [] c = "f" -> "\f" [] c = "b" -> "backspace" [] OTHER -> c]

\* What undecorate does with a code point it has made out: capture it if it
\* was asked to, fail if there is no room.
Keep(ls, cp, capture) ==
  IF capture /\ ~HasRoom(ls)
    THEN [ok |-> FALSE, ls |-> Capture(ls, cp), cp |-> cp]
    ELSE [ok |-> TRUE, ls |-> IF capture THEN Capture(ls, cp) ELSE ls, cp |-> cp]

Refused(ls) == [ok |-> FALSE, ls |-> ls, cp |-> NUL]

\* if(!...) return false; and the same for advance(), onto a character.
Pass(answer, Op(_)) == IF answer.ok THEN Op(answer.ls) ELSE Refused(answer.ls)
HasMore(ls) == Answer(More(ls), ls)
Onto(ls) == HasMore(Advance(ls))

\* The second half of a surrogate pair.  Past it the code advances once more
\* than past a single escape.
LowSurrogate(ls, capture) ==
  IF ls.current # "\\" THEN Refused(ls)
  ELSE Pass(Onto(ls), LAMBDA u :
         IF u.current # "u" THEN Refused(u)
         ELSE Pass(Onto(u), LAMBDA digits :
                Pass(DecodeUnicodeEscape(digits), LAMBDA past :
                       Keep(Advance(past), Cp4, capture))))

\* A \u escape, with current() on the u.
UndecorateUnicode(ls, capture) ==
  Pass(Onto(ls), LAMBDA digits :
    Pass(DecodeUnicodeEscape(digits), LAMBDA past :
      IF IsHighSurrogate(EscapeDigits(digits))
        THEN LowSurrogate(past, capture)
        ELSE Keep(past, EscapedCodePoint(EscapeDigits(digits)), capture)))

StepPast(kept) == IF kept.ok THEN [kept EXCEPT !.ls = Advance(@)] ELSE kept

\* One code point of a string value, escapes resolved.  The backslash is
\* stepped over before there is known to be room for what it stands for.
Undecorate(ls, capture) ==
  IF ~More(ls) \/ ls.current \in {"\n", "\r", NUL, "\""}
    THEN Refused(ls)
  ELSE IF ls.current # "\\"
    THEN StepPast(Keep(ls, ls.current, capture))
  ELSE Pass(Onto(ls), LAMBDA c :
         IF c.current \in DOMAIN SimpleEscapes
           THEN StepPast(Keep(c, SimpleEscapes[c.current], capture))
         ELSE IF c.current = "u" THEN UndecorateUnicode(c, capture)
         ELSE Refused(c))

\* while(undecorate(ls,cp,true));
UndecorateAll(ls) ==
  WhileOk(LAMBDA acc : Undecorate(acc.ls, TRUE), [ok |-> TRUE, ls |-> ls, cp |-> NUL],
          Left(ls)).ls

\* skipStringPart's loop: to the next quote or backslash, and past it.  done
\* tells a closing quote that was stepped over from a failure.
Stopped(ls, done) == [ok |-> FALSE, ls |-> ls, done |-> done]
Going(ls) == [ok |-> More(ls), ls |-> ls, done |-> FALSE]

PassQuoteOrEscape(s) ==
  CASE s.found = NUL  -> Stopped(s.ls, FALSE)
    [] s.found = "\"" -> Stopped(Advance(s.ls), More(Advance(s.ls)))
    [] s.found = "\\" -> IF More(Advance(s.ls)) THEN Going(Advance(Advance(s.ls)))
                         ELSE Stopped(Advance(s.ls), FALSE)

SkipStringStep(acc) == PassQuoteOrEscape(SkipToAny(acc.ls, {"\"", "\\"}))

StringSkipped(run) == Answer(run.done, run.ls)

\* skipStringPart(ls, true)
SkipStringPart(ls) ==
  LET started == EnsureStarted(ls)
  IN  IF ~Started(ls, started) THEN Answer(FALSE, started)
      ELSE IF started.current = "\"" THEN Answer(TRUE, Advance(started))
      ELSE StringSkipped(WhileOk(SkipStringStep, Going(started), Left(ls)))

-----------------------------------------------------------------------------
(* Numbers and literals: two hand-written automata with the same shape.     *)

Nonzero == {"1", "2", "3", "4", "5", "6", "7", "8", "9"}
Digit == {"0"} \cup Nonzero
Exponent == {"e", "E"}

\* The state an automaton moves to on a character, or Stuck.
Stuck == -1

NumberMove(q, c) ==
  CASE q = 0 /\ c = "-" -> 1
    [] q \in {0, 1} /\ c = "0" -> 2
    [] q \in {0, 1} /\ c \in Nonzero -> 8
    [] q \in {2, 8} /\ c = "." -> 3
    [] q \in {2, 4, 8} /\ c \in Exponent -> 5
    [] q \in {3, 4} /\ c \in Digit -> 4
    [] q = 5 /\ c \in {"+", "-"} -> 6
    [] q \in {5, 6, 7} /\ c \in Digit -> 7
    [] q = 8 /\ c \in Digit -> 8
    [] OTHER -> Stuck

NumberAccept(q) == CASE q \in {2, 8} -> 1 [] q \in {4, 7} -> 2 [] OTHER -> 0

LiteralEdges ==
  {<<0, "n", 1>>, <<1, "u", 2>>, <<2, "l", 3>>, <<3, "l", 4>>,
   <<0, "t", 5>>, <<5, "r", 6>>, <<6, "u", 7>>, <<7, "e", 8>>,
   <<0, "f", 9>>, <<9, "a", 10>>, <<10, "l", 11>>, <<11, "s", 12>>, <<12, "e", 13>>}

LiteralMove(q, c) ==
  IF \E e \in LiteralEdges : e[1] = q /\ e[2] = c
    THEN (CHOOSE e \in LiteralEdges : e[1] = q /\ e[2] = c)[3]
    ELSE Stuck

LiteralAccept(q) == CASE q = 4 -> 1 [] q = 8 -> 2 [] q = 13 -> 3 [] OTHER -> 0

\* What a number comes to, as far as it has been read: the digits before its
\* point with their sign (integer), fracPart (0, 1 after a point, 2 after an
\* exponent, 3 after a negative one) and the digits of the exponent (eCount).
\* An exponent that follows a fraction is not told from a fraction.
Digits == <<"0", "1", "2", "3", "4", "5", "6", "7", "8", "9">>
DigitValue == [d \in Digit |-> CHOOSE n \in 0 .. 9 : Digits[n + 1] = d]

Negative(st) == st.state = 1 \/ st.integer < 0

\* Mutant: the digits after the first are not signed.
WithDigit_Unsigned(st, c) ==
  [st EXCEPT !.integer = 10 * @ + (IF st.state = 1 THEN -1 ELSE 1) * DigitValue[c]]

WithDigit(st, c) ==
  [st EXCEPT !.integer = 10 * @ + (IF Negative(st) THEN -1 ELSE 1) * DigitValue[c]]

NumberSeen(st, c, q) ==
  CASE q = 8 -> WithDigit(st, c)
    [] q = 3 -> [st EXCEPT !.fracPart = 1]
    [] q = 5 /\ st.state # 4 -> [st EXCEPT !.fracPart = 2]
    [] q = 6 /\ c = "-" -> [st EXCEPT !.fracPart = 3]
    [] q = 7 -> [st EXCEPT !.eCount = (10 * @ + DigitValue[c]) % 2 ^ 16]
    [] OTHER -> st

LiteralSeen(st, c, q) == st

NoNumber(st) == [st EXCEPT !.accept = 0, !.fracPart = 0, !.eCount = 0, !.integer = 0]

\* One call.  A character that fits is captured, then stepped over, and only
\* then does the state change, so that a call refused for lack of room can be
\* made again.  A dead end that accepts nothing captures the offending
\* character without stepping over it.
Lex(Move(_, _), Accept(_), Seen(_, _, _), ls, st) ==
  LET q == Move(st.state, ls.current)
      accept == Accept(st.state)
      seen == Seen(st, ls.current, q)
      kept == Capture(ls, ls.current)
      stepped(past) == IF HasSourceError(past)
                         THEN [ok |-> FALSE, ls |-> past, st |-> seen]
                         ELSE [ok |-> TRUE, ls |-> past, st |-> [seen EXCEPT !.state = q]]
  IN  IF More(ls) /\ q # Stuck /\ HasRoom(ls)
        THEN stepped(Advance(kept))
      ELSE IF ~(More(ls) /\ q # Stuck) /\ accept # 0
        THEN [ok |-> FALSE, ls |-> ls, st |-> [st EXCEPT !.accept = accept]]
      ELSE [ok |-> FALSE, ls |-> kept, st |-> st]

LexNumber(ls, st) ==
  Lex(NumberMove, NumberAccept, NumberSeen, ls, IF st.state = 0 THEN NoNumber(st) ELSE st)
LexLiteral(ls, st) == Lex(LiteralMove, LiteralAccept, LiteralSeen, ls, st)

\* while(lexNumber(ls,st)); and while(lexLiteral(ls,st));
LexAll(step(_, _), ls, st) ==
  WhileOk(LAMBDA acc : step(acc.ls, acc.st), [ok |-> TRUE, ls |-> ls, st |-> st],
          Left(ls))
=============================================================================
