------------------------------- MODULE MCReading -------------------------------
(* Reading and skipping through a buffer that holds two ASCII characters       *)
(* before it asks for room.  Some documents have scalars of every type,        *)
(* shorter and longer than that, in nested containers; others go to three      *)
(* levels, have brackets, quotes and backslashes inside their strings, and     *)
(* come from each of the kinds of source.                                      *)
EXTENDS JsonConformance, JsonDocuments

Level(values, Fields(_), n) ==
  {Arr(s) : s \in BoundedSeq(values, n)} \cup {Obj(s) : s \in BoundedSeq(Fields(values), n)}

-----------------------------------------------------------------------------
Scalars ==
  {Seven, Number(<<"-", "1", "2", "0", "5">>, -1205), Real(<<"1", "2", ".", "5">>, 12),
   Real(<<"3", "0", "E", "-", "1">>, 3), True, Null, Str(<< >>), Str(<<"a", "]">>),
   Str(<<"a", "b", "c", "d", "e">>), Str(Encode(Cp2) \o Encode(Cp3) \o <<"a">> \o Encode(Cp4)),
   Quoted(<<"\\", "n", "x">>, <<"\n", "x">>),
   Quoted(<<"\\", "u", "0", "0", "4", "1">>, <<"a">>),
   Quoted(<<"a", "b", "c", "d", "\\", "n">>, <<"a", "b", "c", "d", "\n">>)}

Few == {Seven, Str(<<"a", "b", "c">>), Arr(<< >>), Obj(<< >>)}

Plain(values) == {Fld(Str(<<"k">>), v) : v \in values} \cup {Fld(Str(<< >>), v) : v \in values}

Shallow == Level(Scalars, Plain, 2) \cup Level(Few, Plain, 2)
  \cup Level({Arr(<<x>>) : x \in Few} \cup {Obj(<<f>>) : f \in Plain(Few)}, Plain, 2)

-----------------------------------------------------------------------------
Tricky == Quoted(<<"]", "\\", "\"", "{">>, <<"]", "\"", "{">>)

Odd(values) == {Fld(Str(<<"}">>), v) : v \in values}

Inner == {Seven, Arr(<< >>), Obj(<<Fld(Str(<<"k">>), Tricky)>>), Arr(<<Tricky, Seven>>)}

Deep == Level({Seven, Tricky}, Odd, 2) \cup Level(Inner, Odd, 2)
  \cup Level({Seven} \cup {Arr(<<x>>) : x \in Inner}, Odd, 2)
  \cup Level({Arr(<<x>>) : x \in Inner} \cup {Obj(<<f>>) : f \in Odd(Inner)}, Odd, 1)

\* Longer ones, in which the elements can be counted.
Lists == {Arr(s) : s \in BoundedSeq({Tricky, Obj(<<Fld(Str(<<"k">>), Seven)>>)}, 3)}

Gaps == {<< >>, <<" ">>}

MCDocuments == {Document(t, gap, <<" ">>) : t \in Shallow, gap \in Gaps}
  \cup {Document(t, gap, <<"\n">>) : t \in Deep \cup Lists, gap \in Gaps}

\* The shallow ones, which end in a space, are only read, and from a file.
ReadOnly == Last(doc.in) = " "
MCInit == Init /\ (ReadOnly => r.ls.kind = "file")
MCNext == ClientNext /\ (ReadOnly => call'.name = "read")
MCSpec == MCInit /\ [][MCNext]_vars
=============================================================================
