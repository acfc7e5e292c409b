----------------------------- MODULE ElementStream -----------------------------
(***************************************************************************)
(* What parseSubtree and extract promise: a FieldStream whose client may   *)
(* also have the element under its place, or parts of it, copied into a    *)
(* pool of a size it chooses, and is then past it.  What it gets is the    *)
(* tree of that part of the document and takes no more of the pool than    *)
(* the blocks of the tree.                                                 *)
(***************************************************************************)
EXTENDS FieldStream, FiniteSetsExt

Seqs == INSTANCE SequencesExt

CONSTANTS
  Queries,      \* what it extracts: a sequence of extractors (module JsonTree)
  Capacities,   \* the pools it may have
  ElementSize, FieldEntrySize, ArrayEntrySize, PointerSize   \* sizeof

VARIABLES
  got,    \* the value of each variable that the last call was to set
  pool    \* the size of the pool it was given and how much of it is used

ElementVars == <<FieldVars, got, pool>>

Pool(capacity, used) == [capacity |-> capacity, used |-> used]

Tree(type, value, text, names, parts) ==
  [type |-> type, value |-> value, text |-> text, names |-> names, parts |-> parts]
Nothing == Tree("Undefined", 0, << >>, << >>, << >>)

\* The starts of the fields or items of the container at i, in order.
Members(i) ==
  Seqs!SetToSortSeq({j \in Elements(i) : Kind(i) = "Object" => Kind(j) = "Field"}, <)

\* The value that a member is or has.
ValueOf(j) == IF Kind(j) = "Field" THEN j + 1 ELSE j

RECURSIVE TreeAt(_)
TreeAt(i) ==
  LET here == doc.nodes[i]
      members == Members(i)
      parts == [k \in DOMAIN members |-> TreeAt(ValueOf(members[k]))]
      names == [k \in DOMAIN members |-> doc.nodes[members[k]].text]
  IN  CASE Kind(i) = "Object" -> Tree("Object", 0, << >>, names, parts)
        [] Kind(i) = "Array" -> Tree("Array", 0, << >>, << >>, parts)
        [] here.type = "String" -> Tree("String", 0, here.text, << >>, << >>)
        [] OTHER -> Tree(here.type, here.value, << >>, << >>, << >>)

\* The bytes that the tree at i takes, but for its root.
RECURSIVE Room(_)
Room(i) ==
  LET text == Len(doc.nodes[i].text) + 1
      member(j) ==
        ElementSize + Room(ValueOf(j))
          + (IF Kind(j) = "Field" THEN FieldEntrySize + Len(doc.nodes[j].text) + 1 ELSE ArrayEntrySize)
  IN  CASE Kind(i) \in {"Object", "Array"} -> MapThenSumSet(member, Seqs!ToSet(Members(i)))
        [] doc.nodes[i].type = "String" -> text
        [] OTHER -> 0

-----------------------------------------------------------------------------
(* Where the variables of an extractor find their values.                   *)

\* The member of i with a key: the first of that name, or the one of that index.
Located(i, key) ==
  IF Kind(i) = "Object"
    THEN LET named == {j \in Seqs!ToSet(Members(i)) : doc.nodes[j].text = key}
         IN  IF named = {} THEN {} ELSE {First(named)}
    ELSE IF key < Len(Members(i)) THEN {Members(i)[key + 1]} ELSE {}

RECURSIVE Targets(_, _)
Targets(i, q) ==
  IF q.kind = "value" THEN {<<q.slot, i>>}
  ELSE UNION {UNION {Targets(ValueOf(j), q.children[k]) : j \in Located(i, q.keys[k])} :
                k \in DOMAIN q.keys}

\* The variables it is linked to.
RECURSIVE Slots(_)
Slots(q) ==
  IF q.kind = "value" THEN {q.slot} ELSE UNION {Slots(q.children[k]) : k \in DOMAIN q.children}

Bound(targets, slot, otherwise) ==
  IF \E t \in targets : t[1] = slot THEN TreeAt((CHOOSE t \in targets : t[1] = slot)[2])
  ELSE otherwise

\* The places of the values, and the most pointers that are ever in the pool
\* while names are compared.
Places(targets) == {t[2] : t \in targets}
RECURSIVE Widest(_)
Widest(q) ==
  Max({IF q.kind = "Object" THEN Len(q.keys) ELSE 0}
        \cup {Widest(q.children[k]) : k \in DOMAIN q.children})

-----------------------------------------------------------------------------
ElementInit == FieldInit /\ got = << >> /\ pool = Pool(0, 0)

\* The variables hold their values if the call says so, and if not, no variable
\* holds anything but its value or what it held before.
Sets(trees, before) ==
  /\ DOMAIN got' = DOMAIN trees
  /\ \A k \in DOMAIN trees : got'[k] = trees[k] \/ (~found' /\ got'[k] = before[k])

\* Where a read() leads to, which may get the first part only of a scalar.
ReadFrom(i) == {NodeAfter(i)} \cup (IF Kind(NodeAfter(i)) = "Value" THEN {i} ELSE {})

\* The call leaves the element at i behind it and has used the pool for what
\* is at some places in it.  It may not say so at the end of the document.
Consume(i, places, capacity, trees, before) ==
  /\ place' \in ReadFrom(LastOf(i))
  /\ pool' = Pool(capacity, MapThenSumSet(Room, places))
  /\ found' \in IF LastOf(i) < Last THEN {TRUE} ELSE BOOLEAN
  /\ Sets(trees, before)

\* It says that the pool is too small, having come no further than to the end
\* of the element.
GiveUp(i, capacity, trees, before) ==
  /\ place' \in i - 1 .. LastOf(i)
  /\ found' = FALSE
  /\ pool' \in {Pool(capacity, used) : used \in 0 .. capacity}
  /\ Sets(trees, before)

\* ahead tells that the client is in the middle of the scalar after its place.
ParseSubtree(ahead) ==
  LET i == IF place = 0 THEN 1 ELSE place + ahead
  IN  /\ call' = Call("parseSubtree", ahead)
      /\ \E capacity \in Capacities :
           IF Room(i) <= capacity THEN Consume(i, {i}, capacity, <<TreeAt(i)>>, <<Nothing>>)
           ELSE GiveUp(i, capacity, <<Nothing>>, <<Nothing>>)
      /\ scope' = 0
      /\ UNCHANGED doc

\* What a value is once the pool that its text or its parts were in is gone.
Kept(tree) == Tree(tree.type, tree.value, << >>, << >>, << >>)

\* What is not there is not an error, and leaves in the variable what the same
\* query, if it has just been made, had found.  The pool has to have room for
\* the pointers too.
Extract(n) ==
  LET i == IF place = 0 THEN 1 ELSE place
      q == Queries[n]
      targets == Targets(i, q)
      room == MapThenSumSet(Room, Places(targets))
      before == [s \in Slots(q) |-> IF call = Call("extract", n) THEN Kept(got[s]) ELSE Nothing]
      trees == [s \in Slots(q) |-> Bound(targets, s, before[s])]
  IN  /\ call' = Call("extract", n)
      /\ \E capacity \in Capacities :
           \/ room <= capacity /\ Consume(i, Places(targets), capacity, trees, before)
           \/ room + Widest(q) * PointerSize > capacity /\ GiveUp(i, capacity, trees, before)
      /\ scope' = 0
      /\ UNCHANGED doc

ElementNext ==
  \/ /\ \/ FieldNext
        \/ scope' = 0 /\ (SkipSubtree \/ \E index \in 0 .. MaxIndex : SkipToIndex(index))
     /\ got' = << >>
     /\ pool' = Pool(0, 0)
  \/ \E ahead \in {0, 1} : ParseSubtree(ahead)
  \/ \E n \in DOMAIN Queries : Extract(n)

ElementSpec == ElementInit /\ [][ElementNext]_ElementVars
=============================================================================
