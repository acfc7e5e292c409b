----------------------------- MODULE Demonstration -----------------------------
(***************************************************************************)
(* The functions of src/src/main.cpp that query a file about a show, each  *)
(* a client of one JsonReader that makes a library call per step.          *)
(* skipToFieldValue(name) is a search and, if it finds the field, a read.  *)
(* The programs "search" and "free" are the clients of SearchConformance   *)
(* and QueryConformance: they make any of their calls at any time.         *)
(***************************************************************************)
EXTENDS QueryConformance

CONSTANTS
  Programs,    \* the functions that are run
  Index        \* the indices si and ei, in one number

ASSUME DemonstrationAssumption == Index \in 0 .. MaxIndex

VARIABLES
  program,
  line,      \* where it is
  count,     \* how many elements or ids it has come past
  printed    \* the characters of a string that it has printed
Local == <<program, line, count, printed>>
DemoVars == <<QueryVars, Local>>

\* The places in Names of the fields of a show.
Seasons == 1
Episodes == 2
Name == 3
Status == 4
Id == 5

\* The places in Queries of the extractors of an episode and of the show.
EpisodeQuery == 1
ShowQuery == 2

\* The functions are run on documents that have seasons.
Clients == {"search", "free"}
FieldOf(i, n) == IF Elems!Kind(i) = "Object" THEN Elems!Located(i, Names[n]) ELSE {}

DemoInit ==
  /\ QueryInit
  /\ program \in IF FieldOf(1, Seasons) = {} THEN Programs \cap Clients ELSE Programs \ Clients
  /\ line = "find"
  /\ count = 0
  /\ printed = << >>

AtLine(p, here) == program \in p /\ line = here

\* Where a program goes on after a call, and where if it returns false.
ThenAt(next, otherwise) ==
  /\ line' = IF r'.ok THEN next ELSE otherwise
  /\ UNCHANGED <<program, printed>>

Free == program \in Clients /\ UNCHANGED Local

-----------------------------------------------------------------------------
(* countEpisodes, extractEpisodes and parseEpisodes.  Each action is what a  *)
(* program makes of the call that it does at a line (see DemoNext).          *)

EpisodePrograms == {"countEpisodes", "extractEpisodes", "parseEpisodes"}

FindEpisodes ==
  AtLine(EpisodePrograms, "find") /\ ThenAt("value", "end") /\ UNCHANGED count

ReadEpisodes ==
  AtLine(EpisodePrograms, "value") /\ ThenAt("enter", "end") /\ UNCHANGED count

NextElement(reader) ==
  IF HasError(reader) \/ reader.node = "EndArray" THEN "find" ELSE "element"

\* Mutant: that there may be no element is not asked.
EnterEpisodes_NeverEmpty ==
  AtLine(EpisodePrograms, "enter") /\ ThenAt("element", "end") /\ UNCHANGED count

EnterEpisodes ==
  AtLine(EpisodePrograms, "enter") /\ ThenAt(NextElement(r'), "end") /\ UNCHANGED count

SkipEpisode ==
  /\ AtLine({"countEpisodes"}, "element")
  /\ ThenAt(NextElement(r'), "find")
  /\ count' = IF r'.ok THEN count + 1 ELSE count

TakeEpisode(p) ==
  /\ AtLine({p}, "element")
  /\ ThenAt(NextElement(r'), "find")
  /\ count' = count + 1

-----------------------------------------------------------------------------
(* readAllIds.                                                              *)

FindId == AtLine({"readAllIds"}, "find") /\ ThenAt("value", "end") /\ UNCHANGED count

ReadId == AtLine({"readAllIds"}, "value") /\ ThenAt("rest", "end") /\ UNCHANGED count

\* Whether the read succeeds is not asked.
ReadIdPart == AtLine({"readAllIds"}, "rest") /\ ThenAt("rest", "rest") /\ UNCHANGED count

CountId ==
  /\ AtLine({"readAllIds"}, "rest") /\ r.node # "ValuePart"
  /\ line' = "find"
  /\ count' = count + 1
  /\ UNCHANGED <<QueryVars, program, printed>>

-----------------------------------------------------------------------------
(* readStatus, and skipToSeasonIndexAndEpisodeIndex, which goes on from line *)
(* to line while the calls return true.  Both print what they find.          *)

Prints(next, otherwise, characters) ==
  /\ line' = IF r'.ok THEN next ELSE otherwise
  /\ printed' = printed \o characters
  /\ UNCHANGED <<program, count>>

FindStatus == AtLine({"readStatus"}, "find") /\ ThenAt("value", "end") /\ UNCHANGED count

ReadStatus ==
  AtLine({"readStatus"}, "value") /\ Prints("rest", "end", IF r'.ok THEN r'.ls.captured ELSE << >>)

ReadStatusPart ==
  LET goesOn == r'.ok /\ r'.node = "ValuePart"
  IN  /\ AtLine({"readStatus"}, "rest")
      /\ Prints(IF goesOn THEN "rest" ELSE "end", "end", IF goesOn THEN r'.ls.captured ELSE << >>)

OnTo(here, next) == AtLine({"skipToEpisode"}, here) /\ ThenAt(next, "end") /\ UNCHANGED count

ReadName ==
  AtLine({"skipToEpisode"}, "name") /\ Prints("rest", "end", IF r'.ok THEN r'.ls.captured ELSE << >>)

\* value() is printed before the next part is read.
ReadNamePart == AtLine({"skipToEpisode"}, "rest") /\ Prints("rest", "end", r.ls.captured)

LeaveName ==
  /\ AtLine({"skipToEpisode"}, "rest") /\ r.node # "ValuePart"
  /\ line' = "end"
  /\ UNCHANGED <<QueryVars, program, count, printed>>

-----------------------------------------------------------------------------
\* showExtraction asks whatever is in the document.
ShowExtraction == AtLine({"showExtraction"}, "find") /\ ThenAt("end", "end") /\ UNCHANGED count

ToIndex == SkipToIndexCall /\ call'.index = Index /\ level' = 0
ToNext == SkipSubtreeCall /\ level' = 0

\* Which call is done at a line, and with what.
Reads ==
  \/ program \in Clients
  \/ line \in {"value", "enter", "seasons", "episodes", "name"}
  \/ line = "rest" /\ (program = "readStatus" \/ r.node = "ValuePart")

LooksFor(axis, n) ==
  \/ program = "search" /\ Searches(axis) /\ n \in {Name, Status}
  \/ program = "free" /\ axis = "Forward" /\ r.node # "ValuePart"
  \/ AtLine(EpisodePrograms, "find") /\ axis = "Forward" /\ n = Episodes
  \/ AtLine({"readAllIds"}, "find") /\ axis = "Forward" /\ n = Id
  \/ AtLine({"readStatus"}, "find") /\ axis = "Siblings" /\ n = Status
  \/ program = "skipToEpisode" /\ axis = "Siblings"
       /\ <<line, n>> \in {<<"find", Seasons>>, <<"find episodes", Episodes>>, <<"find name", Name>>}

\* The functions of main.cpp have a pool that is large enough, and empty it
\* for each episode.
Roomy == CHOOSE c \in Capacities : \A d \in Capacities : d <= c

Parses(capacity) ==
  program = "free" \/ (AtLine({"parseEpisodes"}, "element") /\ capacity = Roomy)

Extracts(n, capacity) ==
  \/ program = "free" /\ AtElement /\ Answerable(Here, Queries[n])
  \/ AtLine({"extractEpisodes"}, "element") /\ n = EpisodeQuery /\ capacity = Roomy
  \/ AtLine({"showExtraction"}, "find") /\ n = ShowQuery /\ capacity = Roomy

DemoNext ==
  \/ /\ Reads /\ ElsewhereCall(ReadOn)
     /\ \/ ReadEpisodes \/ EnterEpisodes \/ ReadId \/ ReadIdPart \/ ReadStatus \/ ReadStatusPart
        \/ OnTo("seasons", "season") \/ OnTo("episodes", "episode") \/ ReadName \/ ReadNamePart
        \/ Free
  \/ /\ Alive
     /\ \E axis \in Axes, n \in DOMAIN Names :
          /\ LooksFor(axis, n) /\ ElsewhereCall(SearchCall(axis, n))
          /\ \/ FindEpisodes \/ FindId \/ FindStatus
             \/ OnTo("find", "seasons") \/ OnTo("find episodes", "episodes")
             \/ OnTo("find name", "name")
             \/ Free
  \/ /\ line \in {"season", "episode"} /\ ElsewhereCall(ToIndex)
     /\ OnTo("season", "find episodes") \/ OnTo("episode", "find name")
  \/ AtLine({"countEpisodes"}, "element") /\ ElsewhereCall(ToNext) /\ SkipEpisode
  \/ /\ Alive
     /\ \E capacity \in Capacities :
          /\ Parses(capacity) /\ ParseCall(capacity)
          /\ TakeEpisode("parseEpisodes") \/ Free
  \/ /\ Alive
     /\ \E n \in DOMAIN Queries, capacity \in Capacities :
          /\ Extracts(n, capacity) /\ ExtractCall(n, capacity)
          /\ TakeEpisode("extractEpisodes") \/ ShowExtraction \/ Free
  \/ CountId
  \/ LeaveName

DemoSpec == DemoInit /\ [][DemoNext]_DemoVars

-----------------------------------------------------------------------------
(* What they are to find, said of the document.                             *)

All == 1 .. Len(doc.nodes)
FieldsNamed(n) == Elems!FieldsIn(All, n)

\* The arrays of episodes that are not inside another.
Outermost == {j \in FieldsNamed(Episodes) :
                \A k \in FieldsNamed(Episodes) : k < j => Elems!LastOf(k) < j}
EpisodesIn(S) == Elems!MapThenSumSet(LAMBDA j : Len(Elems!Members(j + 1)), S)

MemberAt(i, index) == Elems!Located(i, index)

\* seasons[Index].episodes[Index].name
NamesAsked ==
  UNION {UNION {UNION {UNION {FieldOf(e, Name) : e \in MemberAt(es + 1, Index)} :
    es \in FieldOf(s, Episodes)} : s \in MemberAt(ss + 1, Index)} : ss \in FieldOf(1, Seasons)}

TextOf(fields) == IF fields = {} THEN << >> ELSE doc.nodes[(CHOOSE j \in fields : TRUE) + 1].text

\* A string comes whole if it leaves room for the bytes that the next character
\* might have.
Fits(string) == Len(string) + 4 <= CaptureCapacity

\* Each of the functions comes to an end without an error and has found all
\* that there is: the episodes of all seasons, the ids at any depth, the whole
\* status, and the name of the one episode if it comes whole.
DemoAnswers ==
  program # "free" /\ line = "end" =>
    /\ program # "skipToEpisode" => ~HasError(r)
    /\ program \in EpisodePrograms => count = EpisodesIn(Outermost)
    /\ program = "readAllIds" => count = Cardinality(FieldsNamed(Id))
    /\ program = "readStatus" => printed = TextOf(FieldOf(1, Status))
    /\ program = "skipToEpisode" /\ Fits(TextOf(NamesAsked)) => printed = TextOf(NamesAsked)
    /\ program = "showExtraction" => r.ok

\* main.cpp has it that the function which asks for an episode's name can handle
\* one that comes in parts: it prints the name.
NamePrinted == program = "skipToEpisode" /\ line = "end" => printed = TextOf(NamesAsked)

\* README.md has it that fields which are not there are no failure.
MissingIsNoFailure == program = "showExtraction" /\ line = "end" => r.ok
=============================================================================
