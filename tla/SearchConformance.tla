-------------------------- MODULE SearchConformance --------------------------
(***************************************************************************)
(* A client that reads and looks for fields, with the read and skipToField *)
(* of JsonReader.  level is the counter it passes to searches for          *)
(* descendants, 0 to begin one and 0 again when it has ended.  The client  *)
(* gives one up when it reads past a bracket, which the counter would not  *)
(* notice.                                                                 *)
(***************************************************************************)
EXTENDS JsonConformance, JsonSearch

CONSTANT Names   \* the names it looks for, as a sequence

VARIABLE level
SearchVars == <<vars, level>>

Containers == Stream!Around(Place, "Array") \cup Stream!Around(Place, "Object")

\* The container that many brackets out.
Scope ==
  IF level = 0 THEN 0
  ELSE CHOOSE c \in Containers : Cardinality({d \in Containers : d >= c}) = level

\* A search for siblings that fails ends on the bracket after them with an
\* error, and one forward at the end of the input with no error and an old
\* node.  Only a search forward goes on from there.
Lost == HasError(r) \/ (call.name = "Forward" /\ ~r.ok)

Settled == ~Lost /\ r.node # "ValuePart"

ReadOn ==
  /\ ~Lost
  /\ ReadCall
  /\ level' = IF r'.node \in {"Field", "Value", "ValuePart", "EndValuePart"} THEN level ELSE 0

Returned(s, axis, n) ==
  /\ Returns(axis, n, s.r)
  /\ level' = IF axis = "Descendants" THEN s.level ELSE 0

SearchCall(axis, n) ==
  Returned(SkipToField(r, Names[n], axis, IF axis = "Descendants" THEN level ELSE NoLevel), axis, n)

SearchInit == Init /\ level = 0

\* Where it searches on an axis.
Searches(axis) ==
  CASE axis = "Forward" -> r.node # "ValuePart"
    [] axis = "Siblings" -> Settled
    [] axis = "Descendants" -> Settled /\ (Place = 0 \/ Containers # {})

-----------------------------------------------------------------------------
\* A field that has been found is the node, and so is the scalar or bracket
\* that is read after it: skipToField leaves the reader fit to read on, but
\* for the two searches that lose it.
FoundIsNode == Lost \/ NodeInStep
=============================================================================
