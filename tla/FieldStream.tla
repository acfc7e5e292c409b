----------------------------- MODULE FieldStream -----------------------------
(***************************************************************************)
(* What the search for a field promises (skipToField of JsonReader): a     *)
(* NodeStream whose place also moves to the next field of a given name,    *)
(* anywhere further on, among the fields of one object, or within one      *)
(* container, which successive searches share.                             *)
(***************************************************************************)
EXTENDS NodeStream

CONSTANT Names   \* the names a client looks for, as a sequence

VARIABLE scope   \* the container a search for descendants is in, 0 if none

FieldVars == <<vars, scope>>

Containers(i) == Around(i, "Array") \cup Around(i, "Object")

First(S) == CHOOSE j \in S : \A k \in S : j <= k
LastIn(S) == CHOOSE j \in S : \A k \in S : k <= j

\* The fields with the n-th name among some nodes.
FieldsIn(nodes, n) == {j \in nodes : Kind(j) = "Field" /\ doc.nodes[j].text = Names[n]}

\* To the first of some nodes, or else to the place where the search gave up.
GoTo(nodes, otherwise) ==
  /\ place' = IF nodes # {} THEN First(nodes) ELSE otherwise
  /\ found' = (nodes # {})
  /\ UNCHANGED doc

FieldInit == Init /\ scope = 0

\* A search within a container outlasts reading that stays in the container.
ReadOn ==
  \/ /\ Read
     /\ scope' = IF found' /\ Kind(place') \in {"Field", "Value"} THEN scope ELSE 0
  \/ ReadPart /\ UNCHANGED scope

SearchForward(n) ==
  /\ call' = Call("Forward", n)
  /\ GoTo(FieldsIn(place + 1 .. Last, n), Last)
  /\ scope' = 0

\* The object whose fields are searched: the one under the cursor, the one
\* that the field under it is in, or the document.
Searched == IF place > 0 /\ Kind(place) = "Field" THEN Innermost(place, "Object")
            ELSE IF place = 0 THEN 1 ELSE place

SearchSiblings(n) ==
  /\ call' = Call("Siblings", n)
  /\ IF Kind(Searched) = "Object"
       THEN GoTo({j \in FieldsIn(place + 1 .. EndOf(Searched), n) : Depth(j) = Depth(Searched) + 1},
                 EndOf(Searched) - 1)
       ELSE GoTo({}, Searched)
  /\ scope' = 0

Scope == IF scope > 0 THEN scope ELSE IF place = 0 THEN 1 ELSE LastIn(Containers(place))

SearchDescendants(n) ==
  /\ scope = 0 => place = 0 \/ Containers(place) # {}
  /\ call' = Call("Descendants", n)
  /\ GoTo(FieldsIn(place + 1 .. EndOf(Scope), n), EndOf(Scope))
  /\ scope' = IF found' THEN Scope ELSE 0

FieldNext ==
  \/ ReadOn
  \/ \E n \in DOMAIN Names : SearchForward(n) \/ SearchSiblings(n) \/ SearchDescendants(n)
=============================================================================
