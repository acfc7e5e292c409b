----------------------------- MODULE TreeBuilding -----------------------------
(***************************************************************************)
(* A client that builds a tree by hand with the functions of JsonElement   *)
(* (src/src/JsonTree.hpp) in a pool that may refuse it any block, looks    *)
(* things up in it and prints it.  It works on two elements of its own: it *)
(* fills inner, copies it into outer, and starts another.  built is the    *)
(* tree it has in mind, by what it was told had succeeded.                 *)
(***************************************************************************)
EXTENDS JsonTree, JsonDocuments

CONSTANTS
  Capacities,   \* the pools it may have
  FieldNames,   \* as sequences of characters
  Values,       \* elements that hold no pointer
  Strings       \* as sequences of characters

VARIABLES
  m,       \* the memory
  outer, inner,   \* elements
  built,   \* built[e]: the tree that e is to be
  ok,      \* what the last call returned
  call,    \* its name
  out      \* the characters that toString has written last
vars == <<m, outer, inner, built, ok, call, out>>

Of == [outer |-> outer, inner |-> inner]
Size(tree) == Len(IF tree.tree = "array" THEN tree.items ELSE tree.fields)
Container(kind) == IF kind = "Array" THEN Arr(<< >>) ELSE Obj(<< >>)
EmptyList(kind) == Element(kind, Nullptr)

Init ==
  /\ \E capacity \in Capacities : m = EmptyPool(capacity)
  /\ \E kind \in {"Array", "Object"} :
       outer = EmptyList(kind) /\ built = [outer |-> Container(kind), inner |-> Null]
  /\ inner = Undefined
  /\ ok = TRUE
  /\ call = "none"
  /\ out = << >>

\* parray(nullptr) or pobject(nullptr)
Start(kind) ==
  /\ ok /\ inner = Undefined
  /\ inner' = EmptyList(kind)
  /\ built' = [built EXCEPT !.inner = Container(kind)]
  /\ ok' = TRUE
  /\ call' = "start"
  /\ UNCHANGED <<m, outer, out>>

With(tree, key, part) ==
  IF tree.tree = "array" THEN Arr(Append(tree.items, part))
  ELSE Obj(Append(tree.fields, Fld(Str(key), part)))

\* A client gives a list up that it has been refused a field of.
Usable == \A e \in {outer, inner} : e.type \in {"Array", "Object"} => Walkable(m, e.data)

\* A call has changed one of the two elements; what it added, if it has, and
\* whether inner went with it.
Adds(name, which, did, key, part, moved) ==
  /\ m' = did.m
  /\ outer' = IF which = "outer" THEN did.e ELSE outer
  /\ inner' = IF moved /\ did.ok THEN Undefined ELSE IF which = "inner" THEN did.e ELSE inner
  /\ built' = IF did.ok THEN [built EXCEPT ![which] = With(@, key, part)] ELSE built
  /\ ok' = did.ok
  /\ call' = name
  /\ UNCHANGED out

AsTree(value) ==
  CASE value.type = "Null" -> Null
    [] value.type = "Integer" -> Number(Decimal(value.data), value.data)
    [] value.type = "Boolean" -> IF value.data = 1 THEN True ELSE False

AddFieldCall(which) ==
  \E key \in FieldNames :
    \/ \E v \in Values :
         Adds("addField", which, AddFieldValue(m, Of[which], key, v), key, AsTree(v), FALSE)
    \/ \E s \in Strings :
         Adds("addField", which, AddFieldString(m, Of[which], key, s), key, Str(s), FALSE)

AddItemCall(which) ==
  \/ \E v \in Values :
       Adds("addItem", which, AddItemValue(m, Of[which], v), << >>, AsTree(v), FALSE)
  \/ \E s \in Strings :
       Adds("addItem", which, AddItemString(m, Of[which], s), << >>, Str(s), FALSE)

AddInner ==
  /\ inner # Undefined
  /\ \/ \E key \in FieldNames :
          Adds("addField", "outer", AddFieldValue(m, outer, key, inner), key, built.inner, TRUE)
     \/ Adds("addItem", "outer", AddItemValue(m, outer, inner), << >>, built.inner, TRUE)

PrintCall ==
  /\ LET did == ElementToString(m, outer)
     IN  /\ m' = did.m
         /\ ok' = did.ok
         /\ out' = IF did.ok THEN FlattenSeq(SubSeq(did.m.blocks, did.e, Len(did.m.blocks)))
                   ELSE << >>
  /\ call' = "toString"
  /\ UNCHANGED <<outer, inner, built>>

Next ==
  /\ Usable /\ call # "toString"
  /\ \/ \E kind \in {"Array", "Object"} : Start(kind)
     \/ \E which \in {"outer", "inner"} : AddFieldCall(which) \/ AddItemCall(which)
     \/ AddInner
     \/ PrintCall

Spec == Init /\ [][Next]_vars

-----------------------------------------------------------------------------
\* The tree an element stands for.
RECURSIVE TreeOf(_, _)
TreeOf(mem, e) ==
  LET list == Entries(mem, e)
      value(i) == TreeOf(mem, mem.blocks[mem.blocks[list[i]].value])
      name(i) == Str(StringAt(mem, mem.blocks[list[i]].name))
  IN  CASE e.type = "Array" -> Arr([i \in DOMAIN list |-> value(i)])
        [] e.type = "Object" -> Obj([i \in DOMAIN list |-> Fld(name(i), value(i))])
        [] e.type = "String" -> Str(StringAt(mem, e.data))
        [] OTHER -> AsTree(e)

\* The type invariant: no more of the pool is in use than there is, and the
\* elements point into it.
MemoryOK ==
  /\ m.used <= m.capacity
  /\ \A e \in {outer, inner} : e.type \in {"Array", "Object"} => e.data \in 0 .. Len(m.blocks)
  /\ ok \in BOOLEAN

\* Whatever the pool refuses, each element is the tree that the calls which
\* returned true have built.  The one exception: a field whose name was refused
\* has been linked, with nothing in it, and a walk along the fields then runs
\* off the list (addField links the entry before it allocates the name).
TreeAsBuilt ==
  \A which \in {"outer", "inner"} :
    LET e == Of[which]
    IN  e.type \in {"Array", "Object"} =>
          IF Walkable(m, e.data) THEN TreeOf(m, e) = built[which]
          ELSE /\ call = "addField" /\ ~ok
               /\ Len(Entries(m, e)) = Size(built[which]) + 1

\* The parts of a tree that a key leads to: the item with that index, or the
\* first field of that name.
Parts(tree, key) ==
  CASE tree.tree = "array" -> IF key < Len(tree.items) THEN {tree.items[key + 1]} ELSE {}
    [] tree.tree = "object" ->
         LET k == SelectInSeq(tree.fields, LAMBDA f : f.key.text = key)
         IN  IF k = 0 THEN {} ELSE {tree.fields[k].value}
Keys(kind) == IF kind = "Array" THEN 0 .. 2 ELSE FieldNames
Find(kind, e, key) == IF kind = "Array" THEN At(m, e, key) ELSE Named(m, e, key)

\* What presult points to if an element has been found, or not.
OrLinked(pointer) == IF pointer = Nullptr THEN Linked ELSE pointer

Extracted(first, second, child) ==
  ElementExtract(m, Own, outer, Extractor(outer.type, <<first, second>>, <<ValueExtractor(1), child>>),
                 <<Linked, Linked>>)

\* operator[] finds the item with an index, and the first field with a name, and
\* nothing where there is none.  A query for two members hands out the elements
\* that operator[] finds, and no copies; of a member that is not there it hands
\* out the linked variable, which it puts nothing into, and does not say so.  When
\* the second is to be taken apart and is not a container of that kind the query
\* fails, and the first has been handed out all the same.
LookupsAgree ==
  ok /\ Usable =>
    \A first, second \in Keys(outer.type) :
      LET p == Find(outer.type, outer, first)
          q == Find(outer.type, outer, second)
          both == Extracted(first, second, ValueExtractor(2))
      IN  /\ Parts(built.outer, first)
               = IF p = Nullptr THEN {} ELSE {TreeOf(m, m.blocks[p])}
          /\ both.ok /\ both.bound = <<OrLinked(p), OrLinked(q)>>
          /\ \A kind \in {"Array", "Object"} : \A key \in Keys(kind) :
               LET nested == Extracted(first, second, Extractor(kind, <<key>>, <<ValueExtractor(2)>>))
                   inside == IF q = Nullptr THEN Nullptr ELSE Find(kind, m.blocks[q], key)
               IN  /\ nested.ok <=> q = Nullptr \/ m.blocks[q].type = kind
                   /\ nested.bound = <<OrLinked(p), OrLinked(inside)>>

\* A tree as JSON: the reference toString is checked against.
RECURSIVE Written(_)
Written(tree) ==
  CASE tree.tree = "scalar" /\ tree.type = "String" ->
         Quoted(FlattenSeq([i \in DOMAIN tree.text |->
                  CASE tree.text[i] = "\n" -> <<"\\", "n">>
                    [] tree.text[i] \in {"\\", "\""} -> <<"\\", tree.text[i]>>
                    [] OTHER -> <<tree.text[i]>>]), tree.text)
    [] tree.tree = "scalar" /\ tree.type # "String" -> tree
    [] tree.tree = "array" -> Arr([i \in DOMAIN tree.items |-> Written(tree.items[i])])
    [] tree.tree = "object" ->
         Obj([i \in DOMAIN tree.fields |->
                Fld(Written(tree.fields[i].key), Written(tree.fields[i].value))])

\* The only null pointer that is written through is the one for a null that
\* toString has no room for.
FaultsAtNullOnly ==
  m.fault =>
    /\ call = "toString" /\ ~ok
    /\ NullLiteral \in ToSet(Pieces(m, outer))
    /\ m.used + Len(NullLiteral) > m.capacity

\* The string that toString returns, which ends at its first NUL, is the tree as
\* JSON.
StringIsJson ==
  call = "toString" /\ ok =>
    SubSeq(out, 1, SelectInSeq(out, LAMBDA c : c = NUL) - 1)
      = Document(Written(built.outer), << >>, << >>).in
=============================================================================
