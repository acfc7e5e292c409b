------------------------------ MODULE JsonSearch ------------------------------
(***************************************************************************)
(* skipToField of JsonReader (src/src/JsonReader.hpp): the search for a    *)
(* field by its name, along one of three axes.  A name is a sequence of    *)
(* ASCII characters.  Names are compared under the cursor, none is ever    *)
(* captured.                                                               *)
(***************************************************************************)
EXTENDS JsonNavigation

Axes == {"Siblings", "Forward", "Descendants"}

NoLevel == -1   \* no pdepth is passed

\* The comparison of a string with a name: whether it goes on (ok), how many
\* characters of the name it has come past, and whether all were equal.
Comparing(ls, name) ==
  [ok |-> TRUE, ls |-> ls, name |-> name, upTo |-> 0, match |-> TRUE, bad |-> FALSE]
Matches(scan) == scan.match /\ scan.upTo = Len(scan.name)

\* decodeUtf8 reads the NUL at the end of a name that is too short.
NameAt(name, i) == IF i <= Len(name) THEN name[i] ELSE NUL

AtQuote(ls) == More(ls) /\ ls.current = "\""
InString(ls) == More(ls) /\ ls.current # "\""

Compare(scan, u, c) ==
  CASE ~u.ok -> [scan EXCEPT !.ok = FALSE, !.ls = u.ls, !.upTo = @ + 1, !.bad = TRUE]
    [] u.ok /\ u.cp # c -> [scan EXCEPT !.ok = FALSE, !.ls = u.ls, !.match = FALSE]
    [] u.ok /\ u.cp = c -> [scan EXCEPT !.ls = u.ls, !.upTo = @ + 1]

\* Mutant: the node is not set.
OverColon_KeepsNode(r) ==
  Then(StepOver(r, "FIELD_NO_VALUE"), LAMBDA a : Arrive(a, SkipWhiteSpace(a.ls)))

\* Over the colon after a name and the white space that follows it.
OverColon(r) ==
  Then(StepOver(r, "FIELD_NO_VALUE"), LAMBDA a :
    Then(Arrive(a, SkipWhiteSpace(a.ls)), LAMBDA b : Land(b, "Field")))

\* Over the rest of a string whose end has not been reached.
RestSkipped(r, answer) ==
  CASE answer.ok -> Yes(On(r, answer.ls))
    [] ~answer.ok /\ HasSourceError(answer.ls) -> SourceFailed(On(r, answer.ls))
    [] ~answer.ok /\ ~HasSourceError(answer.ls) -> Die(On(r, answer.ls), "UNTERMINATED_STRING")
SkipRest(r) == RestSkipped(r, SkipStringPart(r.ls))

-----------------------------------------------------------------------------
(* Siblings: the fields of one object, each name compared and each value    *)
(* skipped.                                                                 *)

\* A name that has come to its end is not compared with what is left of the
\* string.
SiblingStep(scan) ==
  IF InString(scan.ls) /\ scan.upTo < Len(scan.name)
    THEN Compare(scan, Undecorate(scan.ls, FALSE), scan.name[scan.upTo + 1])
    ELSE [scan EXCEPT !.ok = FALSE]

CompareSibling(ls, name) == WhileOk(SiblingStep, Comparing(ls, name), Len(name) + 1)

\* The string ends where the comparison did.
SiblingEnds(r, match) ==
  Then(IF More(Advance(r.ls)) THEN Eat(r) ELSE No(On(r, Advance(r.ls))), LAMBDA a :
    IF a.ls.current # ":" THEN No(a)
    ELSE Then(OverColon(a), LAMBDA b : IF match THEN b ELSE No(b)))

\* It goes on, so it is another name.
SiblingGoesOn(r) ==
  Then(SkipRest(r), LAMBDA a : Then(Arrive(a, SkipWhiteSpace(a.ls)), LAMBDA b :
    IF b.ls.current = ":" THEN Then(OverColon(b), No) ELSE Raise(b, "FIELD_NO_VALUE")))

SiblingCompared(r, scan) ==
  CASE HasSourceError(r.ls) -> SourceFailed(r)
    [] ~HasSourceError(r.ls) /\ scan.bad -> Raise(r, "INVALID_VALUE")
    [] ~HasSourceError(r.ls) /\ ~scan.bad /\ AtQuote(r.ls) -> SiblingEnds(r, Matches(scan))
    [] ~HasSourceError(r.ls) /\ ~scan.bad /\ ~AtQuote(r.ls) -> SiblingGoesOn(r)

ScanMatchField(r, name) ==
  IF ~AtQuote(r.ls)
    THEN IF HasSourceError(r.ls) THEN SourceFailed(r) ELSE Raise(r, "UNEXPECTED_VALUE")
    ELSE Then(StepOver(r, "UNTERMINATED_STRING"), LAMBDA a :
           LET scan == CompareSibling(a.ls, name) IN SiblingCompared(On(a, scan.ls), scan))

\* Over the value of a field that is not the one, to the next field.
SkipSibling(r) == Then(SkipObjectOrArrayOrValuePart(r), SkipIfComma)

SiblingTurn(m, name) ==
  IF HasError(m) \/ m.ok
    THEN [ok |-> FALSE, r |-> IF HasError(m) THEN No(m) ELSE m, name |-> name]
    ELSE LET s == SkipSibling(m) IN [ok |-> s.ok, r |-> s, name |-> name]

SiblingRound(acc) == SiblingTurn(ScanMatchField(acc.r, acc.name), acc.name)

ScanMatchSiblings(r, name) ==
  WhileOk(SiblingRound, [ok |-> TRUE, r |-> r, name |-> name], Left(r.ls)).r

\* From the node a reader was at; r has read the first one if that was none.
SearchSiblings(from, r, name) ==
  CASE from = "Object" \/ (from = Unread /\ r.node = "Object") -> ScanMatchSiblings(r, name)
    [] from = "Field" -> Then(SkipSibling(r), LAMBDA a : ScanMatchSiblings(a, name))
    [] OTHER -> No(r)

-----------------------------------------------------------------------------
(* Forward and Descendants: any field further on, brackets counted.         *)

\* One round of the loop: whether it goes on, and *pdepth.
Stop(r, level) == [ok |-> FALSE, r |-> r, level |-> level]
GoOn(r, level) == [ok |-> r.ok, r |-> r, level |-> level]

Level(level, by) == IF level = NoLevel THEN level ELSE (level + by) % DepthMod

\* A difference ends the comparison; a string that cannot be decoded ends it
\* too, without being one.
ForwardStep(scan) ==
  IF InString(scan.ls)
    THEN Compare(scan, Undecorate(scan.ls, FALSE), NameAt(scan.name, scan.upTo + 1))
    ELSE [scan EXCEPT !.ok = FALSE]

CompareForward(ls, name) == WhileOk(ForwardStep, Comparing(ls, name), Len(name) + 1)

\* A search from the error state finds a field, and says that it has not.
Found(r, match, level) ==
  IF r.ok /\ match THEN Stop([r EXCEPT !.ok = ~HasError(r)], level) ELSE GoOn(r, level)

ForwardEnds(r, match, level) ==
  IF r.ok /\ More(r.ls) /\ r.ls.current = ":" THEN Found(OverColon(r), match, level)
  ELSE GoOn(r, level)

ForwardCompared(r, scan, level) ==
  IF AtQuote(r.ls) THEN ForwardEnds(Eat(r), Matches(scan), level)
  ELSE GoOn(SkipRest(r), level)

ForwardName(r, name, level) ==
  IF ~r.ok THEN Stop(r, level)
  ELSE LET scan == CompareForward(r.ls, name)
       IN  ForwardCompared(On(r, scan.ls), scan, level)

\* Over a bracket; the one that closes what Descendants searches ends it.
GoInside(r, level) == GoOn(r, IF r.ok THEN Level(level, 1) ELSE level)

GoOutside(r, node, level) ==
  IF r.ok /\ Level(level, -1) = 0 THEN Stop([r EXCEPT !.node = node, !.ok = FALSE], 0)
  ELSE GoOn(r, IF r.ok THEN Level(level, -1) ELSE level)

\* Unlike in the skip functions, a bracket that is the last byte ends the
\* search without an error.
OverClosing(r) == Then(StepOnto(r), LAMBDA a : Arrive(a, SkipWhiteSpace(a.ls)))

\* And an array that is cut short leaves the node.
OverArrayBracket(r) ==
  LET a == On(r, Advance(r.ls))
  IN  CASE More(a.ls) -> Yes(a)
        [] ~More(a.ls) /\ HasSourceError(a.ls) -> SourceFailed(a)
        [] ~More(a.ls) /\ ~HasSourceError(a.ls) -> Raise(a, "UNTERMINATED_ARRAY")

SearchTurn(ch, r, name, level) ==
  CASE ch = NUL  -> Stop(No(r), level)
    [] ch = "\"" -> ForwardName(StepOver(r, "UNTERMINATED_STRING"), name, level)
    [] ch = "{"  -> GoInside(Then(StepOver(r, "UNTERMINATED_OBJECT"), LAMBDA a : Deeper(a, 1)), level)
    [] ch = "["  -> GoInside(OverArrayBracket(r), level)
    [] ch = "}"  -> GoOutside(OverClosing(Deeper(r, -1)), "EndObject", level)
    [] ch = "]"  -> GoOutside(OverClosing(r), "EndArray", level)

SearchingFor(name, turn) ==
  [ok |-> turn.ok, r |-> turn.r, level |-> turn.level, name |-> name]

\* Mutant: where nothing is found it returns what the turn before it did.
SearchRound_FailsNot(acc) ==
  LET s == SkipToAny(acc.r.ls, Brackets)
  IN  SearchingFor(acc.name,
        IF s.found = NUL THEN Stop(On(acc.r, s.ls), acc.level)
        ELSE SearchTurn(s.found, On(acc.r, s.ls), acc.name, acc.level))

SearchRound(acc) ==
  LET s == SkipToAny(acc.r.ls, Brackets)
  IN  SearchingFor(acc.name, SearchTurn(s.found, On(acc.r, s.ls), acc.name, acc.level))

SearchOn(r, name, level) ==
  WhileOk(SearchRound, SearchingFor(name, GoOn(r, level)), 2 * Left(r.ls))

-----------------------------------------------------------------------------
\* skipToField(name, axis, &level): the reader after it, r.ok what it returned,
\* and the level after it.
Searched(r, level) == [r |-> r, level |-> level]
SearchResult(acc) == Searched(acc.r, acc.level)

\* What has to be so before any search.
ReadyToSearch(r) ==
  Then(Begin(ClearError(r)), LAMBDA a : IfMore(On(a, ClearCapture(a.ls))))

\* Only Forward starts in a document of which nothing has been read.
FirstRead(r, axis) == IF r.ok /\ r.node = Unread /\ axis # "Forward" THEN Read(r) ELSE r

AtLeastOne(level) == IF level = 0 THEN 1 ELSE level

SearchAt(from, r, name, axis, level) ==
  CASE ~r.ok -> Searched(r, level)
    [] r.ok /\ axis = "Siblings" -> Searched(SearchSiblings(from, r, name), level)
    [] r.ok /\ axis = "Descendants" -> SearchResult(SearchOn(r, name, AtLeastOne(level)))
    [] r.ok /\ axis = "Forward" -> SearchResult(SearchOn(r, name, level))

SearchFrom(r, name, axis, level) ==
  IF r.ok /\ axis = "Descendants" /\ level = NoLevel
    THEN Searched(Raise(r, "INVALID_ARGUMENT"), level)
    ELSE SearchAt(r.node, FirstRead(r, axis), name, axis, level)

SkipToField(r, name, axis, level) == SearchFrom(ReadyToSearch(r), name, axis, level)
=============================================================================
