--------------------------- MODULE QueryConformance ---------------------------
(***************************************************************************)
(* A client that reads, looks for fields and has elements parsed, or parts *)
(* of them extracted, into a pool that is new for each call, with the      *)
(* parseSubtree and extract of JsonReader, against ElementStream.          *)
(***************************************************************************)
EXTENDS SearchConformance, JsonExtract

CONSTANTS
  Queries,      \* the extractors it has, as a sequence
  Capacities    \* the pools it may have

VARIABLES
  memory,   \* the memory that the last call was given
  linked    \* the elements it was to set
QueryVars == <<SearchVars, memory, linked>>

\* What an element in a memory says, pointers followed.  One that points into
\* another memory, which is no more, has no more than a type.
Pooled(e) == e.type \in {"String", "Array", "Object"}
RECURSIVE TreeIn(_, _)
TreeIn(m, e) ==
  LET list == Entries(m, e)
      listed == [k \in DOMAIN list |-> m.blocks[list[k]]]
  IN  [type |-> e.type,
       value |-> IF Pooled(e) THEN 0 ELSE e.data,
       text |-> IF e.type = "String" /\ e.data # Uninitialized THEN StringAt(m, e.data) ELSE << >>,
       names |-> IF e.type = "Object" THEN [k \in DOMAIN list |-> StringAt(m, listed[k].name)]
                 ELSE << >>,
       parts |-> [k \in DOMAIN list |-> TreeIn(m, m.blocks[listed[k].value])]]

Elems == INSTANCE ElementStream WITH
  place <- Place, found <- r.ok, scope <- Scope,
  pool <- [capacity |-> memory.capacity, used |-> memory.used],
  got <- [slot \in DOMAIN linked |-> TreeIn(memory, linked[slot])]

-----------------------------------------------------------------------------
(* What the client asks for.                                                *)

\* Whether it is within the element it has come to: it has read the first part
\* of a string, or all of a string in one part; and that element.
Within == r.node = "ValuePart" /\ (r.lex.accept # 1)
Here == IF Place = 0 THEN 1 ELSE IF Within THEN Place + 1 ELSE Place

AtElement ==
  \/ r.node \in {Unread, "Array", "Object"}
  \/ r.node = "Value" /\ call.name \notin Axes
  \/ r.node = "ValuePart" /\ r.vtype = "String" /\ text = r.ls.captured

\* None of a kind of bracket opens from i to the end of the container c, so
\* that skipToEndObject or skipToEndArray goes to that end.
ClearTo(c, i, kind) == \A j \in i .. Elems!EndOf(c) - 1 : Elems!Kind(j) # kind

LastPlace(S) == CHOOSE j \in S : \A k \in S : k <= j

\* extract() does what it says of an extractor for the element at i if it has
\* no more than one index, and no array up to it; if each name is there no more
\* than once, and at all unless there are no objects inside and the last field
\* is not wanted; and if nothing of the same kind opens behind what is wanted.
RECURSIVE Answerable(_, _)
Answerable(i, q) ==
  LET wanted == UNION {Elems!Located(i, q.keys[k]) : k \in DOMAIN q.keys}
      same == {j \in Elems!Elements(i) :
                 Elems!Kind(j) = "Field" /\ doc.nodes[j].text \in ToSet(q.keys)}
      past == IF wanted = {} THEN i + 1 ELSE Elems!LastOf(LastPlace(wanted)) + 1
      unwanted == Elems!Members(i) # << >> /\ Last(Elems!Members(i)) \notin wanted
  IN  CASE q.kind = "value" -> TRUE
        [] q.kind # "value" ->
             /\ Elems!Kind(i) = q.kind
             /\ \A k \in DOMAIN q.keys : \A j \in Elems!Located(i, q.keys[k]) :
                  Answerable(Elems!ValueOf(j), q.children[k])
             /\ ClearTo(i, past, q.kind)
             /\ q.kind = "Object" =>
                  /\ wanted = same
                  /\ Cardinality(wanted) = Len(q.keys) \/ (ClearTo(i, i + 1, "Object") /\ unwanted)
             /\ q.kind = "Array" => /\ Len(q.keys) = 1
                                    /\ \A j \in Elems!Elements(i) :
                                         j < past => Elems!Kind(j) # "Array"

-----------------------------------------------------------------------------
\* A client whose memory has been misused has crashed.
Alive == ~memory.fault

ElsewhereCall(Do) ==
  /\ Alive
  /\ Do
  /\ memory' = EmptyPool(0)
  /\ linked' = << >>

Queried(name, index, reader, m, elements) ==
  /\ Returns(name, index, reader)
  /\ level' = 0
  /\ memory' = m
  /\ linked' = elements

ParseReturned(p) ==
  Queried("parseSubtree", IF Within THEN 1 ELSE 0, p.r, p.m, <<IF p.r.ok THEN p.e ELSE Undefined>>)

ParseCall(capacity) ==
  /\ Alive /\ ~Lost /\ AtElement
  /\ ParseReturned(ParseSubtree(r, EmptyPool(capacity)))

ExtractReturned(n, x) == Queried("extract", n, x.r, x.m, x.got)

\* What is in the variables of a query: when the last call was the same, what
\* it has left there, but for the pool.
LeftIn(n) ==
  IF call.name = "extract" /\ call.index = n
    THEN [slot \in DOMAIN linked |->
            IF Pooled(linked[slot]) THEN Element(linked[slot].type, Uninitialized)
            ELSE linked[slot]]
    ELSE [slot \in Elems!Slots(Queries[n]) |-> Undefined]

ExtractCall(n, capacity) ==
  /\ Alive /\ ~Lost
  /\ ExtractReturned(n, Extract(Taken(r, EmptyPool(capacity), LeftIn(n)), Queries[n]))

QueryInit == SearchInit /\ memory = EmptyPool(0) /\ linked = << >>

-----------------------------------------------------------------------------
\* parseSubtree yields the tree of the element under the cursor if and only if
\* the pool has room for its blocks, extract the values that its extractors
\* lead to, and both leave the reader behind the element and nothing else in
\* the pool, whichever calls come before and after.
FollowsElements == Elems!ElementSpec

\* A pool that is too small is told by the return value, except that the block
\* for an item of an array is used without having been granted.
FaultsInArraysOnly ==
  memory.fault =>
    /\ ~r.ok /\ call.name \in {"parseSubtree", "extract"}
    /\ \E i \in DOMAIN doc.nodes : Elems!Opens(i) /\ Elems!Kind(i) = "Array"
    /\ memory.used + ElementSize > memory.capacity
=============================================================================
