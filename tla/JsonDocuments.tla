---------------------------- MODULE JsonDocuments ----------------------------
(***************************************************************************)
(* What JsonReader is to make of a document, by a definition that has no   *)
(* parser in it: a document is written from a tree, token by token, and    *)
(* the nodes a reader must report for it, in order, are among the tokens.  *)
(* This is not a model of code but the reference the model of the code is  *)
(* checked against.                                                        *)
(***************************************************************************)
EXTENDS Integers, Sequences, SequencesExt

\* Trees.  A scalar is given as it is written and as it is to be read back: as
\* text, and if it is a number or a truth value as an integer.
Scalar(type, written, text, value) ==
  [tree |-> "scalar", type |-> type, written |-> written, text |-> text, value |-> value]
Number(digits, n) == Scalar("Integer", digits, digits, n)
Real(letters, n) == Scalar("Real", letters, letters, n)
Seven == Number(<<"7">>, 7)
True == Scalar("Boolean", <<"t", "r", "u", "e">>, <<"t", "r", "u", "e">>, 1)
False == Scalar("Boolean", <<"f", "a", "l", "s", "e">>, <<"f", "a", "l", "s", "e">>, 0)
Null == Scalar("Null", <<"n", "u", "l", "l">>, <<"n", "u", "l", "l">>, 0)
Quoted(written, text) == Scalar("String", <<"\"">> \o written \o <<"\"">>, text, 0)
Str(text) == Quoted(text, text)
Arr(items) == [tree |-> "array", items |-> items]
Obj(fields) == [tree |-> "object", fields |-> fields]
Fld(key, value) == [key |-> key, value |-> value]

\* A token that is a node, and one that is not.  depth counts the containers
\* around a node: a container's two ends have that of the container.
NodeToken(node, type, written, text, value, depth) ==
  [node |-> node, type |-> type, written |-> written, text |-> text, value |-> value,
   depth |-> depth]
Comma == NodeToken("none", "Undefined", <<",">>, << >>, 0, 0)

RECURSIVE Tokens(_, _, _)
Tokens(tree, depth, gap) ==
  LET bracket(node, b) == <<NodeToken(node, "Undefined", <<b>>, << >>, 0, depth)>>
      field(f) == <<NodeToken("Field", "Undefined", f.key.written \o gap \o <<":">>,
                              f.key.text, 0, depth + 1)>> \o Tokens(f.value, depth + 1, gap)
      listed(tokens) ==
        FoldLeft(LAMBDA all, more : IF all = << >> THEN more ELSE all \o <<Comma>> \o more,
                 << >>, tokens)
  IN  CASE tree.tree = "scalar" ->
             <<NodeToken("Value", tree.type, tree.written, tree.text, tree.value, depth)>>
        [] tree.tree = "array" ->
             bracket("Array", "[")
               \o listed([i \in DOMAIN tree.items |-> Tokens(tree.items[i], depth + 1, gap)])
               \o bracket("EndArray", "]")
        [] tree.tree = "object" ->
             bracket("Object", "{")
               \o listed([i \in DOMAIN tree.fields |-> field(tree.fields[i])])
               \o bracket("EndObject", "}")

\* A document: the tokens with white space after each (gap) and after the
\* last one (tail).  A node is past when the cursor, a count of the bytes
\* read, has come to the first byte of the next token, or to the end.
Document(tree, gap, tail) ==
  LET tokens == Tokens(tree, 0, gap)
      n == Len(tokens)
      bytes(i) == tokens[i].written \o (IF i = n THEN tail ELSE gap)
      upTo[i \in 0 .. n] == IF i = 0 THEN << >> ELSE upTo[i - 1] \o bytes(i)
      all == [i \in 1 .. n |->
                [node |-> tokens[i].node, type |-> tokens[i].type, text |-> tokens[i].text,
                 value |-> tokens[i].value, depth |-> tokens[i].depth, past |-> Len(upTo[i]) + 1]]
  IN  [in |-> upTo[n], tree |-> tree, nodes |-> SelectSeq(all, LAMBDA t : t.node # "none")]
=============================================================================
