------------------------------ MODULE NodeStream ------------------------------
(***************************************************************************)
(* What JsonReader promises a client: a place in the document's list of    *)
(* nodes, which read() moves to the next one and a skip function to one    *)
(* that depends on the shape of the document only, never on how it is      *)
(* spaced, where it comes from or how much of it fits in the buffer.       *)
(***************************************************************************)
EXTENDS Integers, Sequences, FiniteSets

CONSTANT MaxIndex   \* the highest index a client skips to

VARIABLES
  doc,     \* the document, any record whose field nodes is a node list
  place,   \* how many of its nodes have been passed
  call,    \* the last function called and the index it was given
  found    \* whether it returned true
vars == <<doc, place, call, found>>

Last == Len(doc.nodes)
Kind(i) == doc.nodes[i].node
Depth(i) == doc.nodes[i].depth

Opens(i) == Kind(i) \in {"Array", "Object"}
Closes(i) == Kind(i) \in {"EndArray", "EndObject"}

\* The end of the container that starts at i.
EndOf(i) ==
  CHOOSE j \in i + 1 .. Last :
    /\ Depth(j) = Depth(i)
    /\ \A k \in i + 1 .. j - 1 : Depth(k) > Depth(i)

\* The last node of the value, or of the field, that starts at i.
LastOf(i) ==
  LET value == IF Kind(i) = "Field" THEN i + 1 ELSE i
  IN  IF Opens(value) THEN EndOf(value) ELSE value

\* The nodes at which the elements of the array that starts at i start.
Elements(i) ==
  {j \in i + 1 .. EndOf(i) - 1 : Depth(j) = Depth(i) + 1 /\ ~Closes(j)}

Element(i, index) ==
  CHOOSE j \in Elements(i) : Cardinality({k \in Elements(i) : k < j}) = index

\* The containers of a kind that the cursor is inside when i has been passed.
Around(i, kind) == {j \in 1 .. i : Kind(j) = kind /\ EndOf(j) > i}

Innermost(i, kind) == CHOOSE j \in Around(i, kind) : \A k \in Around(i, kind) : k <= j

Call(name, index) == [name |-> name, index |-> index]

NodeAfter(i) == IF i < Last THEN i + 1 ELSE i

\* Where a call leaves the place that brings the client to the node i, which is
\* before a scalar of which it has got no more than the first part.
To(i) == {i} \cup (IF Kind(i) = "Value" /\ i > place THEN {i - 1} ELSE {})

-----------------------------------------------------------------------------
Init ==
  /\ place = 0
  /\ call = Call("none", 0)
  /\ found = FALSE

Read ==
  /\ call' = Call("read", 0)
  /\ place' = NodeAfter(place)
  /\ found' = (place < Last)
  /\ UNCHANGED doc

\* A scalar may take several reads, the first or the last of which passes it.
ReadPart ==
  /\ \E i \in {place, NodeAfter(place)} : i > 0 /\ Kind(i) = "Value"
  /\ call' = Call("read", 0)
  /\ found' = TRUE
  /\ UNCHANGED <<doc, place>>

SkipSubtree ==
  LET i == IF place = 0 THEN 1 ELSE place
  IN  /\ call' = Call("skipSubtree", 0)
      /\ place' \in IF Closes(i) THEN {i} ELSE To(NodeAfter(LastOf(i)))
      /\ found' \in IF LastOf(i) < Last THEN {TRUE} ELSE BOOLEAN
      /\ UNCHANGED doc

\* To an element of the array under the cursor, or to the end of the array
\* if it has too few.
SkipToIndex(index) ==
  LET i == IF place = 0 \/ (place < Last /\ Kind(place) = "Field") THEN place + 1 ELSE place
  IN  /\ call' = Call("skipToIndex", index)
      /\ \/ /\ Kind(i) # "Array"
            /\ place' \in To(i) /\ found' = FALSE
         \/ /\ Kind(i) = "Array" /\ index < Cardinality(Elements(i))
            /\ place' \in To(Element(i, index)) /\ found' = TRUE
         \/ /\ Kind(i) = "Array" /\ index >= Cardinality(Elements(i))
            /\ place' = EndOf(i) /\ found' \in BOOLEAN
      /\ UNCHANGED doc

SkipToEnd(kind) ==
  /\ place > 0
  /\ Around(place, kind) # {}
  /\ call' = Call("skipToEnd" \o kind, 0)
  /\ place' = EndOf(Innermost(place, kind))
  /\ found' = TRUE
  /\ UNCHANGED doc

Next ==
  \/ Read
  \/ ReadPart
  \/ SkipSubtree
  \/ \E index \in 0 .. MaxIndex : SkipToIndex(index)
  \/ \E kind \in {"Array", "Object"} : SkipToEnd(kind)

Spec == Init /\ [][Next]_vars
=============================================================================
